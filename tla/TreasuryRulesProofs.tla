------------------------- MODULE TreasuryRulesProofs -------------------------
(***************************************************************************)
(* The last rule of a treasury, for any operators, signers, rules, reads   *)
(* and interleavings: no one removes it in plain sight.  And the warnings  *)
(* of a write: what they say of the rules shown, the chain does to them.   *)
(***************************************************************************)
EXTENDS TreasuryRules, FiniteSetTheorems, WellFoundedInduction, TLAPS

\* A removal was staged on a list that showed another rule as well.
ShowedAnother(staged) ==
  staged.write.fn = "remove_context_rule" =>
    \E r \in DOMAIN staged.seen : r # staged.write.rule

RemovalsShowedAnother ==
  /\ \A o \in Operators : panel[o].staged # NotStaged => ShowedAnother(panel[o].staged)
  /\ \A tx \in txs : ShowedAnother(tx.staged)

RulesInv == TypeOK /\ RemovalsShowedAnother

Panels == [pc : {"rules", "confirm", "sent"}, view : RuleSets,
           staged : Staged \cup {NotStaged}, ticked : 0..MaxWrites]

-----------------------------------------------------------------------------
(* Sets of rules. *)

LEMMA RuleSetsAre ==
  /\ \A f \in RuleSets : DOMAIN f \subseteq 0..MaxRules - 1 /\ f \in [DOMAIN f -> Rule]
  /\ \A S \in SUBSET (0..MaxRules - 1) : [S -> Rule] \subseteq RuleSets
  /\ NoRules \in RuleSets /\ DOMAIN NoRules = {}
<1>1. NoRules \in [{} -> Rule] /\ DOMAIN NoRules = {}
  BY DEF NoRules
<1> QED BY <1>1 DEF RuleSets

LEMMA OnlyRules ==
  ASSUME TypeOK, NEW S \in SUBSET DOMAIN rules
  PROVE  Only(S) \in RuleSets /\ DOMAIN Only(S) = S
<1>1. S \in SUBSET (0..MaxRules - 1) /\ Only(S) \in [S -> Rule]
  BY RuleSetsAre DEF TypeOK, Only
<1> QED BY <1>1, RuleSetsAre

\* A set of rule ids that is not empty has a first one.
LEMMA FirstIsIn == ASSUME NEW S, S \subseteq Nat, S # {} PROVE First(S) \in S
<1> DEFINE R == OpToRel(<, Nat)
<1>1. IsWellFoundedOn(R, Nat)
  BY NatLessThanWellFounded
<1>2. \A x, y \in Nat : y < x => <<y, x>> \in R
  BY DEF OpToRel
<1> HIDE DEF R
<1>3. PICK x \in S : \A y \in S : ~(<<y, x>> \in R)
  BY <1>1, WFMin
<1>4. \A y \in S : x <= y
  <2>1. ASSUME NEW y \in S PROVE x <= y
    <3>1. x \in Nat /\ y \in Nat /\ ~(y < x)
      BY <1>2, <1>3
    <3> QED BY <3>1
  <2> QED BY <2>1
<1> QED BY <1>4 DEF First

\* The rule the console signs under is one of those it read.
LEMMA ChosenIsARule ==
  ASSUME NEW rs \in RuleSets, NEW wallet, Chosen(rs, wallet) # NoRule
  PROVE  Chosen(rs, wallet) \in 0..MaxRules - 1
<1>1. DOMAIN rs # {} /\ Chosen(rs, wallet) = First(Preferred(rs, wallet))
  BY DEF Chosen
<1>2. Preferred(rs, wallet) \subseteq DOMAIN rs /\ Preferred(rs, wallet) # {}
  BY <1>1 DEF Preferred, Sole, Gated, Blocked, On
<1>3. DOMAIN rs \subseteq 0..MaxRules - 1 /\ 0..MaxRules - 1 \subseteq Nat
  BY RuleSetsAre, RulesAssumption
<1> QED BY <1>1, <1>2, <1>3, FirstIsIn

\* Of more than one rule, another is left.
LEMMA AnotherIsLeft ==
  ASSUME NEW rs \in RuleSets, NEW r, ~RuleBlocked(rs, r)
  PROVE  \E s \in DOMAIN rs : s # r
<1>1. r \in DOMAIN rs /\ ~(Cardinality(DOMAIN rs) <= 1)
  BY DEF RuleBlocked
<1>2. Cardinality({r}) = 1
  BY FS_Singleton
<1> QED BY <1>1, <1>2

-----------------------------------------------------------------------------

LEMMA Constants ==
  /\ ScanSlack \in Nat /\ MaxRules \in Nat /\ MaxWrites \in Nat /\ MaxFaults \in Nat
BY RulesAssumption

LEMMA NotStagedIsNot == NotStaged \notin Staged
<1>1. NotStaged.number = 0
  BY DEF NotStaged
<1>2. \A staged \in Staged : staged.number \in 1..MaxWrites
  BY DEF Staged
<1> QED BY <1>1, <1>2, Constants

LEMMA FaultCounts ==
  ASSUME TypeOK, Fault \/ NoFault PROVE faults' \in 0..MaxFaults
BY Constants DEF TypeOK, Fault, NoFault

LEMMA InitHolds == Init => RulesInv
<1> SUFFICES ASSUME Init PROVE RulesInv
  OBVIOUS
<1>1. nextId \in 0..MaxRules /\ DOMAIN rules \subseteq 0..nextId - 1
  <2>1. PICK k \in 0..MaxRules : DOMAIN FirstRules = 0..k - 1
    BY RulesAssumption
  <2>2. Cardinality(0..k - 1) = k
    BY <2>1, FS_Interval, Constants
  <2> QED BY <2>1, <2>2 DEF Init
<1>2. panel \in [Operators -> Panels] /\ \A o \in Operators : panel[o] = Closed(NoRules)
  <2>1. Closed(NoRules) \in Panels
    BY RuleSetsAre, Constants DEF Closed, Panels
  <2> QED BY <2>1 DEF Init
<1>3. Closed(NoRules).pc = "rules" /\ Closed(NoRules).staged = NotStaged
  BY DEF Closed
<1>4. TypeOK
  BY <1>1, <1>2, <1>3, RulesAssumption, Constants DEF Init, TypeOK, Panels
<1>5. RemovalsShowedAnother
  BY <1>2, <1>3 DEF Init, RemovalsShowedAnother
<1> QED BY <1>4, <1>5 DEF RulesInv

-----------------------------------------------------------------------------
(* The chain. *)

\* What the account makes of a valid write is a set of rules again.
LEMMA ApplyKeepsType ==
  ASSUME TypeOK, NEW write \in Writes, Valid(write), Apply(write)
  PROVE  rules' \in RuleSets /\ nextId' \in 0..MaxRules /\ DOMAIN rules' \subseteq 0..nextId' - 1
<1> DEFINE at(r) ==
        CASE write.fn = "add_context_rule" /\ r = nextId ->
               [signers |-> {write.who}, gated |-> FALSE, applies |-> TRUE]
          [] write.fn = "add_signer" /\ r = write.rule ->
               [rules[r] EXCEPT !.signers = @ \cup {write.who}]
          [] write.fn = "remove_signer" /\ r = write.rule ->
               [rules[r] EXCEPT !.signers = @ \ {write.who}]
          [] OTHER -> rules[r]
      added == IF write.fn = "add_context_rule" THEN {nextId} ELSE {}
      removed == IF write.fn = "remove_context_rule" THEN {write.rule} ELSE {}
      D == (DOMAIN rules \cup added) \ removed
<1>1. rules' = [r \in D |-> at(r)] /\ nextId' = nextId + Cardinality(added)
  BY DEF Apply
<1>2. /\ rules \in [DOMAIN rules -> Rule] /\ DOMAIN rules \subseteq 0..nextId - 1
      /\ nextId \in 0..MaxRules /\ DOMAIN rules \subseteq 0..MaxRules - 1
  BY RuleSetsAre DEF TypeOK
<1>3. \A r \in D : at(r) \in Rule
  <2> SUFFICES ASSUME NEW r \in D PROVE at(r) \in Rule
    OBVIOUS
  <2>1. CASE write.fn = "add_context_rule" /\ r = nextId
    <3>1. write.who \in Addresses
      BY <2>1 DEF Writes
    <3> QED BY <2>1, <3>1 DEF Rule
  <2>2. CASE ~(write.fn = "add_context_rule" /\ r = nextId)
    <3>1. rules[r] \in Rule
      BY <1>2, <2>2
    <3>2. CASE write.fn \in {"add_signer", "remove_signer"} /\ r = write.rule
      <4>1. write.who \in Addresses
        BY <3>2 DEF Writes
      <4> QED BY <2>2, <3>1, <3>2, <4>1 DEF Rule
    <3>3. CASE ~(write.fn \in {"add_signer", "remove_signer"} /\ r = write.rule)
      <4>1. at(r) = rules[r]
        BY <2>2, <3>3
      <4> QED BY <3>1, <4>1
    <3> QED BY <3>2, <3>3
  <2> QED BY <2>1, <2>2
<1> HIDE DEF at
<1>4. CASE write.fn = "add_context_rule"
  <2>1. nextId < MaxRules /\ Cardinality(added) = 1
    BY <1>4, FS_Singleton DEF Valid
  <2>2. nextId' = nextId + 1 /\ D \subseteq 0..nextId /\ D \subseteq 0..MaxRules - 1
    BY <1>1, <1>2, <1>4, <2>1, Constants
  <2>3. rules' \in [D -> Rule] /\ DOMAIN rules' = D
    BY <1>1, <1>3
  <2>4. nextId' \in 0..MaxRules /\ 0..nextId = 0..nextId' - 1
    BY <1>2, <2>1, <2>2, Constants
  <2> HIDE DEF D
  <2>5. rules' \in RuleSets
    BY <2>2, <2>3, RuleSetsAre
  <2> QED BY <2>2, <2>3, <2>4, <2>5
<1>5. CASE write.fn # "add_context_rule"
  <2>1. Cardinality(added) = 0
    BY <1>5, FS_EmptySet
  <2>2. nextId' = nextId /\ D \subseteq DOMAIN rules
    BY <1>1, <1>2, <1>5, <2>1
  <2>3. rules' \in [D -> Rule] /\ DOMAIN rules' = D
    BY <1>1, <1>3
  <2> QED BY <1>2, <2>2, <2>3, RuleSetsAre
<1> QED BY <1>4, <1>5

LEMMA StagedOfTx == ASSUME TypeOK, NEW tx \in txs PROVE tx.staged \in Staged /\ tx.staged.write \in Writes
BY DEF TypeOK, Tx, Staged

LEMMA ChainKeeps ==
  ASSUME RulesInv, UNCHANGED <<panel, writes, faults>>, txs' \subseteq txs,
         rules' \in RuleSets, nextId' \in 0..MaxRules, DOMAIN rules' \subseteq 0..nextId' - 1
  PROVE  RulesInv'
BY DEF RulesInv, TypeOK, RemovalsShowedAnother

LEMMA ChainHolds ==
  ASSUME RulesInv,
         \/ \E tx \in txs : Land(tx) \/ Refuse(tx) \/ Invalid(tx)
         \/ \E r \in DOMAIN rules : Lapse(r)
  PROVE  RulesInv'
<1> USE DEF RulesInv
<1>1. ASSUME NEW tx \in txs, Land(tx) PROVE RulesInv'
  <2>1. txs' \subseteq txs /\ UNCHANGED <<panel, writes, faults>>
    BY <1>1 DEF Land, Out
  <2>2. /\ rules' \in RuleSets /\ nextId' \in 0..MaxRules /\ DOMAIN rules' \subseteq 0..nextId' - 1
    BY <1>1, StagedOfTx, ApplyKeepsType DEF Land
  <2> QED BY <2>1, <2>2, ChainKeeps
<1>2. ASSUME NEW tx \in txs, Refuse(tx) \/ Invalid(tx) PROVE RulesInv'
  <2>1. txs' \subseteq txs /\ UNCHANGED <<panel, writes, faults, rules, nextId>>
    BY <1>2 DEF Refuse, Invalid, Out
  <2> QED BY <2>1, ChainKeeps DEF TypeOK
<1>3. ASSUME NEW r \in DOMAIN rules, Lapse(r) PROVE RulesInv'
  <2>1. rules \in [DOMAIN rules -> Rule] /\ DOMAIN rules \in SUBSET (0..MaxRules - 1)
    BY RuleSetsAre DEF TypeOK
  <2>2. [rules[r] EXCEPT !.applies = FALSE] \in Rule
    BY <2>1 DEF Rule
  <2>3. rules' \in [DOMAIN rules -> Rule] /\ DOMAIN rules' = DOMAIN rules
    BY <1>3, <2>1, <2>2 DEF Lapse
  <2>4. rules' \in RuleSets /\ UNCHANGED <<nextId, txs, panel, writes, faults>>
    BY <1>3, <2>1, <2>3, RuleSetsAre DEF Lapse
  <2> QED BY <2>3, <2>4, ChainKeeps DEF TypeOK
<1> QED BY <1>1, <1>2, <1>3

-----------------------------------------------------------------------------
(* The panel. *)

\* A step of one panel: it is enough to look at the panel it makes.
LEMMA PanelKeeps ==
  ASSUME RulesInv, NEW o \in Operators, NEW record \in Panels, Set(o, record),
         UNCHANGED <<rules, nextId>>,
         txs' \subseteq Tx, \A tx \in txs' \ txs : ShowedAnother(tx.staged),
         writes' \in 0..MaxWrites, faults' \in 0..MaxFaults,
         record.pc = "rules" <=> record.staged = NotStaged,
         record.staged # NotStaged => ShowedAnother(record.staged)
  PROVE  RulesInv'
<1>1. /\ panel' \in [Operators -> Panels] /\ panel'[o] = record
      /\ \A p \in Operators : p # o => panel'[p] = panel[p]
  BY DEF RulesInv, TypeOK, Panels, Set
<1>2. TypeOK'
  BY <1>1 DEF RulesInv, TypeOK, Panels
<1>3. RemovalsShowedAnother'
  BY <1>1 DEF RulesInv, RemovalsShowedAnother
<1> QED BY <1>2, <1>3 DEF RulesInv

LEMMA PanelOf ==
  ASSUME RulesInv, NEW o \in Operators
  PROVE  /\ panel[o] \in Panels
         /\ panel[o].pc = "rules" <=> panel[o].staged = NotStaged
         /\ panel[o].staged # NotStaged =>
              panel[o].staged \in Staged /\ ShowedAnother(panel[o].staged)
BY DEF RulesInv, TypeOK, RemovalsShowedAnother, Panels

LEMMA FetchHolds == ASSUME RulesInv, NEW o \in Operators, Fetch(o) PROVE RulesInv'
<1>1. PICK S \in SUBSET DOMAIN rules :
        Loads(Only(S)) /\ Set(o, [panel[o] EXCEPT !.view = Only(S)])
  BY DEF Fetch
<1> DEFINE record == [panel[o] EXCEPT !.view = Only(S)]
<1>2. /\ record \in Panels /\ record.pc = panel[o].pc
      /\ record.staged = panel[o].staged
  BY PanelOf, OnlyRules DEF Panels, RulesInv
<1>3. faults' \in 0..MaxFaults
  BY <1>1, FaultCounts DEF Loads, RulesInv
<1>4. Set(o, record) /\ UNCHANGED <<rules, nextId, txs, writes>>
  BY <1>1 DEF Fetch
<1> HIDE DEF record
<1> QED BY <1>2, <1>3, <1>4, PanelOf, PanelKeeps DEF RulesInv, TypeOK

LEMMA StageHolds ==
  ASSUME RulesInv, NEW o \in Operators, NEW write \in Writes, Stage(o, write) PROVE RulesInv'
<1> DEFINE view == panel[o].view
           new == [write |-> write, seen |-> view, number |-> writes',
                   warnings |-> Warnings(write, view, o)]
           record == [panel[o] EXCEPT !.pc = "confirm", !.staged = new]
<1>1. /\ panel[o] \in Panels /\ view \in RuleSets
      /\ writes' \in 1..MaxWrites
  BY PanelOf, Constants DEF Panels, Stage, RulesInv, TypeOK
<1>2. Warnings(write, view, o) \subseteq Warning
  BY DEF Warnings
<1>3. new \in Staged /\ new.write = write /\ new.seen = view
  BY <1>1, <1>2 DEF Staged
<1>4. ShowedAnother(new)
  <2>1. SUFFICES ASSUME write.fn = "remove_context_rule"
                 PROVE  \E r \in DOMAIN view : r # write.rule
    BY <1>3 DEF ShowedAnother
  <2>2. MayAdd(write, view) \/ MayRemove(write, view)
    BY DEF Stage
  <2>3. ~RuleBlocked(view, write.rule)
    BY <2>1, <2>2 DEF MayAdd, MayRemove
  <2> QED BY <1>1, <2>3, AnotherIsLeft
<1>5. Set(o, record) /\ UNCHANGED <<rules, nextId, txs, faults>>
  BY DEF Stage
<1> HIDE DEF new, view
<1>6. record \in Panels /\ record.pc = "confirm" /\ record.staged = new
  BY <1>1, <1>3 DEF Panels
<1> HIDE DEF record
<1>7. record.staged # NotStaged
  BY <1>3, <1>6, NotStagedIsNot
<1>8. writes' \in 0..MaxWrites
  BY <1>1, Constants
<1> QED BY <1>4, <1>5, <1>6, <1>7, <1>8, PanelKeeps DEF RulesInv, TypeOK

LEMMA TickHolds == ASSUME RulesInv, NEW o \in Operators, Tick(o) PROVE RulesInv'
<1> DEFINE record == [panel[o] EXCEPT !.ticked = panel[o].staged.number]
<1>1. panel[o].staged \in Staged /\ panel[o] \in Panels
  BY PanelOf DEF Tick
<1>2. panel[o].staged.number \in 0..MaxWrites
  BY <1>1, Constants DEF Staged
<1>3. record \in Panels /\ record.pc = panel[o].pc /\ record.staged = panel[o].staged
  BY <1>1, <1>2 DEF Panels
<1>4. Set(o, record) /\ UNCHANGED <<rules, nextId, txs, writes, faults>>
  BY DEF Tick
<1> HIDE DEF record
<1> QED BY <1>3, <1>4, PanelOf, PanelKeeps DEF RulesInv, TypeOK

\* The panel goes back to its list, on the rules it had or on others.
LEMMA CloseHolds ==
  ASSUME RulesInv, NEW o \in Operators, Cancel(o) \/ SubmitFails(o) \/ PollThrows(o)
  PROVE  RulesInv'
<1> DEFINE record == [panel[o] EXCEPT !.pc = "rules", !.staged = NotStaged]
<1>1. record \in Panels /\ record.pc = "rules" /\ record.staged = NotStaged
  BY PanelOf DEF Panels
<1>2. Set(o, record) /\ UNCHANGED <<rules, nextId, txs, writes>>
  BY DEF Cancel, SubmitFails, PollThrows, Close
<1>3. faults' \in 0..MaxFaults
  BY FaultCounts DEF Cancel, SubmitFails, PollThrows, Loads, RulesInv, NoFault
<1> HIDE DEF record
<1> QED BY <1>1, <1>2, <1>3, PanelKeeps DEF RulesInv, TypeOK

LEMMA SettledHolds == ASSUME RulesInv, NEW o \in Operators, Settled(o) PROVE RulesInv'
<1>1. PICK S \in SUBSET DOMAIN rules :
        Loads(Only(S)) /\ Set(o, [Closed(Only(S)) EXCEPT !.ticked = panel[o].ticked])
  BY DEF Settled
<1> DEFINE record == [Closed(Only(S)) EXCEPT !.ticked = panel[o].ticked]
<1>2. /\ record \in Panels /\ record.pc = "rules" /\ record.staged = NotStaged
  BY PanelOf, OnlyRules DEF Panels, Closed, RulesInv
<1>3. faults' \in 0..MaxFaults
  BY <1>1, FaultCounts DEF Loads, RulesInv
<1>4. Set(o, record) /\ UNCHANGED <<rules, nextId, txs, writes>>
  BY <1>1 DEF Settled
<1> HIDE DEF record
<1> QED BY <1>2, <1>3, <1>4, PanelKeeps DEF RulesInv, TypeOK

\* The transaction carries the write that was staged.
LEMMA SubmitHolds == ASSUME RulesInv, NEW o \in Operators, Submit(o) PROVE RulesInv'
<1> DEFINE p == panel[o]
           record == [p EXCEPT !.pc = "sent"]
<1>1. /\ p \in Panels /\ p.staged # NotStaged /\ p.staged \in Staged
      /\ ShowedAnother(p.staged)
  BY PanelOf DEF Submit
<1>2. record \in Panels /\ record.pc = "sent" /\ record.staged = p.staged
  BY <1>1 DEF Panels
<1>3. PICK S \in SUBSET DOMAIN rules :
        /\ Loads(Only(S)) /\ Chosen(Only(S), o) # NoRule
        /\ txs' = txs \cup {[by |-> o, under |-> Chosen(Only(S), o), staged |-> p.staged,
                             chosenFrom |-> Only(S),
                             agreed |-> p.ticked = p.staged.number]}
  BY DEF Submit
<1>4. faults' \in 0..MaxFaults
  BY <1>3, FaultCounts DEF Loads, RulesInv
<1>5. Only(S) \in RuleSets /\ Chosen(Only(S), o) \in 0..MaxRules - 1
  BY <1>3, OnlyRules, ChosenIsARule DEF RulesInv
<1> DEFINE tx == [by |-> o, under |-> Chosen(Only(S), o), staged |-> p.staged,
                  chosenFrom |-> Only(S), agreed |-> p.ticked = p.staged.number]
<1>6. tx \in Tx /\ tx.staged = p.staged
  <2>1. (p.ticked = p.staged.number) \in BOOLEAN
    OBVIOUS
  <2> QED BY <1>1, <1>5, <2>1 DEF Tx
<1>7. txs' = txs \cup {tx}
  BY <1>3
<1>8. Set(o, record) /\ UNCHANGED <<rules, nextId, writes>>
  BY DEF Submit
<1> HIDE DEF p, record, tx
<1> QED BY <1>1, <1>2, <1>4, <1>6, <1>7, <1>8, PanelKeeps DEF RulesInv, TypeOK

LEMMA NextHolds == ASSUME RulesInv, [Next]_vars PROVE RulesInv'
<1>1. CASE UNCHANGED vars
  BY <1>1 DEF vars, RulesInv, TypeOK, RemovalsShowedAnother
<1>2. CASE \/ \E tx \in txs : Land(tx) \/ Refuse(tx) \/ Invalid(tx)
           \/ \E r \in DOMAIN rules : Lapse(r)
  BY <1>2, ChainHolds
<1>3. ASSUME NEW o \in Operators,
             \/ Fetch(o) \/ Tick(o) \/ Cancel(o) \/ Submit(o) \/ SubmitFails(o)
             \/ Settled(o) \/ PollThrows(o)
      PROVE  RulesInv'
  BY <1>3, FetchHolds, TickHolds, CloseHolds, SubmitHolds, SettledHolds
<1>4. ASSUME NEW o \in Operators, NEW write \in Writes, Stage(o, write) PROVE RulesInv'
  BY <1>4, StageHolds
<1> QED BY <1>1, <1>2, <1>3, <1>4 DEF Next

-----------------------------------------------------------------------------
(* The last rule. *)

\* Only a removal takes the last rule of a treasury that has one.
LEMMA LastIsRemoved ==
  ASSUME TypeOK, NEW write \in Writes, Apply(write), Valid(write), rules' = NoRules,
         DOMAIN rules # {}
  PROVE  write.fn = "remove_context_rule" /\ DOMAIN rules \subseteq {write.rule}
<1>1. DOMAIN rules' = {}
  BY RuleSetsAre
<1>2. DOMAIN rules' = (DOMAIN rules \cup
                         (IF write.fn = "add_context_rule" THEN {nextId} ELSE {}))
                        \ (IF write.fn = "remove_context_rule" THEN {write.rule} ELSE {})
  BY DEF Apply
<1> QED BY <1>1, <1>2

\* Landing is the only way out of the queue that changes the rules.
LEMMA LandsByLand ==
  ASSUME RulesInv, [Next]_vars, NEW tx \in txs, Lands(tx)
  PROVE  Land(tx)
<1>1. tx \notin txs' /\ <<rules, nextId>>' # <<rules, nextId>>
  BY DEF Lands, Leaves
<1>2. ASSUME NEW other \in txs, Land(other) \/ Refuse(other) \/ Invalid(other) PROVE other = tx
  BY <1>1, <1>2 DEF Land, Refuse, Invalid, Out
<1>3. ~(\E other \in txs : Refuse(other) \/ Invalid(other))
  BY <1>1 DEF Refuse, Invalid
<1>4. ~(\E r \in DOMAIN rules : Lapse(r)) /\ ~(UNCHANGED vars)
  BY <1>1 DEF Lapse, vars
<1>5. ~(\E o \in Operators :
          \/ Fetch(o) \/ Tick(o) \/ Cancel(o) \/ Submit(o) \/ SubmitFails(o)
          \/ Settled(o) \/ PollThrows(o)
          \/ \E write \in Writes : Stage(o, write))
  BY <1>1 DEF Fetch, Tick, Cancel, Submit, SubmitFails, Settled, PollThrows, Stage
<1> QED BY <1>2, <1>3, <1>4, <1>5 DEF Next

LEMMA LastWasNotInSight ==
  ASSUME RulesInv, [Next]_vars, NEW tx \in txs, Lands(tx), rules' = NoRules
  PROVE  \E r \in DOMAIN tx.staged.seen : r \notin DOMAIN rules
<1>1. Land(tx) /\ TypeOK /\ ShowedAnother(tx.staged)
  BY LandsByLand DEF RulesInv, RemovalsShowedAnother
<1>2. /\ MayAuthorize(tx) /\ Valid(tx.staged.write) /\ Apply(tx.staged.write)
      /\ tx.staged.write \in Writes
  BY <1>1, StagedOfTx DEF Land
<1>3. DOMAIN rules # {}
  BY <1>2 DEF MayAuthorize
<1>4. /\ tx.staged.write.fn = "remove_context_rule"
      /\ DOMAIN rules \subseteq {tx.staged.write.rule}
  BY <1>1, <1>2, <1>3, LastIsRemoved
<1> QED BY <1>1, <1>4 DEF ShowedAnother

-----------------------------------------------------------------------------
(* What the operator was told. *)

\* The rules shown were rules of the treasury once, and a rule keeps its id
\* and its policy for as long as it is there.
Agree(shown, now, next) ==
  \A r \in DOMAIN shown :
    r < next /\ (r \in DOMAIN now => shown[r].gated = now[r].gated)

\* The warnings are those of the rules shown, which the operator is on.
IsWarned(staged, o) ==
  /\ staged.warnings = Warnings(staged.write, staged.seen, o)
  /\ CanWrite(staged.seen, o)
  /\ staged.write.fn = "add_signer" => staged.write.rule \in DOMAIN staged.seen

\* What was sent was agreed to, under the rule chosen then.
IsAgreed(tx) ==
  /\ Blocks(tx.staged) => tx.agreed
  /\ tx.under = Chosen(tx.chosenFrom, tx.by)

ViewsAgree ==
  \A o \in Operators :
    /\ Agree(panel[o].view, rules, nextId)
    /\ panel[o].staged # NotStaged =>
         IsWarned(panel[o].staged, o) /\ Agree(panel[o].staged.seen, rules, nextId)

SentAgree ==
  \A tx \in txs :
    IsWarned(tx.staged, tx.by) /\ IsAgreed(tx) /\ Agree(tx.staged.seen, rules, nextId)

WarnedInv == RulesInv /\ ViewsAgree /\ SentAgree

LEMMA InitWarned == Init => WarnedInv
<1> SUFFICES ASSUME Init PROVE WarnedInv
  OBVIOUS
<1>1. \A o \in Operators : panel[o].view = NoRules /\ panel[o].staged = NotStaged
  BY DEF Init, Closed
<1>2. ViewsAgree
  BY <1>1, RuleSetsAre DEF ViewsAgree, Agree
<1>3. SentAgree
  BY DEF Init, SentAgree
<1> QED BY <1>2, <1>3, InitHolds DEF WarnedInv

\* The rules move on; what was shown of those that are left is still so.
LEMMA AgreeKeeps ==
  ASSUME TypeOK, nextId' \in Nat, nextId <= nextId',
         \A r \in DOMAIN rules' :
           r < nextId => r \in DOMAIN rules /\ rules'[r].gated = rules[r].gated,
         NEW shown \in RuleSets, Agree(shown, rules, nextId)
  PROVE  Agree(shown, rules', nextId')
<1>1. DOMAIN shown \subseteq Nat /\ nextId \in Nat
  BY RuleSetsAre, Constants DEF TypeOK
<1> QED BY <1>1 DEF Agree

LEMMA ChainWarns ==
  ASSUME WarnedInv, UNCHANGED panel, txs' \subseteq txs, nextId' \in Nat, nextId <= nextId',
         \A r \in DOMAIN rules' :
           r < nextId => r \in DOMAIN rules /\ rules'[r].gated = rules[r].gated
  PROVE  ViewsAgree' /\ SentAgree'
<1>1. TypeOK /\ ViewsAgree /\ SentAgree
  BY DEF WarnedInv, RulesInv
<1>2. ASSUME NEW o \in Operators
      PROVE  /\ Agree(panel[o].view, rules', nextId')
             /\ panel[o].staged # NotStaged =>
                  IsWarned(panel[o].staged, o) /\ Agree(panel[o].staged.seen, rules', nextId')
  <2>1. panel[o].view \in RuleSets
    BY <1>1 DEF TypeOK
  <2>2. panel[o].staged # NotStaged => panel[o].staged.seen \in RuleSets
    BY <1>1 DEF TypeOK, Staged
  <2> QED BY <1>1, <2>1, <2>2, AgreeKeeps DEF ViewsAgree
<1>3. ASSUME NEW tx \in txs PROVE Agree(tx.staged.seen, rules', nextId')
  <2>1. tx.staged.seen \in RuleSets
    BY <1>1, StagedOfTx DEF Staged
  <2> QED BY <1>1, <2>1, AgreeKeeps DEF SentAgree
<1>4. ViewsAgree'
  BY <1>2 DEF ViewsAgree
<1>5. SentAgree'
  BY <1>1, <1>3 DEF SentAgree
<1> QED BY <1>4, <1>5

\* A write gives new rules new ids and leaves the policies of the others.
LEMMA ApplyKeepsGates ==
  ASSUME TypeOK, NEW write \in Writes, Apply(write)
  PROVE  /\ nextId' \in Nat /\ nextId <= nextId'
         /\ \A r \in DOMAIN rules' :
              r < nextId => r \in DOMAIN rules /\ rules'[r].gated = rules[r].gated
<1> DEFINE added == IF write.fn = "add_context_rule" THEN {nextId} ELSE {}
<1>1. nextId \in Nat /\ Cardinality(added) \in {0, 1}
  <2>1. Cardinality({nextId}) = 1 /\ Cardinality({}) = 0
    BY FS_Singleton, FS_EmptySet
  <2> QED BY <2>1, Constants DEF TypeOK
<1>2. nextId' = nextId + Cardinality(added)
  BY DEF Apply
<1>3. ASSUME NEW r \in DOMAIN rules', r < nextId
      PROVE  r \in DOMAIN rules /\ rules'[r].gated = rules[r].gated
  <2>1. r \in DOMAIN rules /\ r # nextId
    BY <1>1, <1>3 DEF Apply
  <2>2. rules[r] \in Rule
    BY <2>1, RuleSetsAre DEF TypeOK
  <2>3. \/ rules'[r] = rules[r]
        \/ rules'[r] = [rules[r] EXCEPT !.signers = @ \cup {write.who}]
        \/ rules'[r] = [rules[r] EXCEPT !.signers = @ \ {write.who}]
    BY <2>1 DEF Apply
  <2> QED BY <2>1, <2>2, <2>3 DEF Rule
<1> QED BY <1>1, <1>2, <1>3

LEMMA ChainIsWarned ==
  ASSUME WarnedInv,
         \/ \E tx \in txs : Land(tx) \/ Refuse(tx) \/ Invalid(tx)
         \/ \E r \in DOMAIN rules : Lapse(r)
  PROVE  ViewsAgree' /\ SentAgree'
<1>1. TypeOK /\ nextId \in Nat
  BY Constants DEF WarnedInv, RulesInv, TypeOK
<1>2. ASSUME NEW tx \in txs, Land(tx) PROVE ViewsAgree' /\ SentAgree'
  <2>1. txs' \subseteq txs /\ UNCHANGED panel
    BY <1>2 DEF Land, Out
  <2>2. tx.staged.write \in Writes /\ Apply(tx.staged.write)
    BY <1>1, <1>2, StagedOfTx DEF Land
  <2> QED BY <1>1, <2>1, <2>2, ApplyKeepsGates, ChainWarns
<1>3. ASSUME NEW tx \in txs, Refuse(tx) \/ Invalid(tx) PROVE ViewsAgree' /\ SentAgree'
  <2>1. txs' \subseteq txs /\ UNCHANGED <<panel, rules, nextId>>
    BY <1>3 DEF Refuse, Invalid, Out
  <2> QED BY <1>1, <2>1, ChainWarns
<1>4. ASSUME NEW r \in DOMAIN rules, Lapse(r) PROVE ViewsAgree' /\ SentAgree'
  <2>1. /\ rules' = [rules EXCEPT ![r] = [rules[r] EXCEPT !.applies = FALSE]]
        /\ UNCHANGED <<txs, panel, nextId>>
    BY <1>4 DEF Lapse
  <2>2. \A s \in DOMAIN rules : rules[s] \in Rule
    BY <1>1, RuleSetsAre DEF TypeOK
  <2>3. \A s \in DOMAIN rules' : s \in DOMAIN rules /\ rules'[s].gated = rules[s].gated
    BY <2>1, <2>2 DEF Rule
  <2> QED BY <1>1, <2>1, <2>3, ChainWarns
<1> QED BY <1>2, <1>3, <1>4

\* What is read is read off the rules as they are.
LEMMA ReadAgrees ==
  ASSUME TypeOK, NEW S \in SUBSET DOMAIN rules PROVE Agree(Only(S), rules, nextId)
<1>1. nextId \in Nat /\ DOMAIN rules \subseteq 0..nextId - 1
  BY Constants DEF TypeOK
<1> QED BY <1>1 DEF Agree, Only

LEMMA PanelWarns ==
  ASSUME WarnedInv, NEW o \in Operators, NEW record \in Panels, Set(o, record),
         UNCHANGED <<rules, nextId>>,
         Agree(record.view, rules, nextId),
         record.staged # NotStaged =>
           IsWarned(record.staged, o) /\ Agree(record.staged.seen, rules, nextId)
  PROVE  ViewsAgree'
<1>1. /\ panel'[o] = record /\ \A p \in Operators : p # o => panel'[p] = panel[p]
  BY DEF WarnedInv, RulesInv, TypeOK, Set
<1> QED BY <1>1 DEF WarnedInv, ViewsAgree

LEMMA PanelIsWarned ==
  ASSUME WarnedInv, NEW o \in Operators,
         \/ Fetch(o) \/ Tick(o) \/ Cancel(o) \/ SubmitFails(o) \/ Settled(o) \/ PollThrows(o)
  PROVE  ViewsAgree' /\ SentAgree'
<1>1. /\ RulesInv /\ TypeOK /\ ViewsAgree /\ SentAgree
      /\ panel[o] \in Panels /\ Agree(panel[o].view, rules, nextId)
      /\ panel[o].staged # NotStaged =>
           IsWarned(panel[o].staged, o) /\ Agree(panel[o].staged.seen, rules, nextId)
  BY PanelOf DEF WarnedInv, RulesInv, ViewsAgree
<1>2. UNCHANGED <<rules, nextId, txs>>
  BY DEF Fetch, Tick, Cancel, SubmitFails, Settled, PollThrows
<1>3. SentAgree'
  BY <1>1, <1>2 DEF SentAgree
<1>4. CASE Fetch(o)
  <2>1. PICK S \in SUBSET DOMAIN rules : Set(o, [panel[o] EXCEPT !.view = Only(S)])
    BY <1>4 DEF Fetch
  <2> DEFINE record == [panel[o] EXCEPT !.view = Only(S)]
  <2>2. record \in Panels /\ record.view = Only(S) /\ record.staged = panel[o].staged
    BY <1>1, OnlyRules DEF Panels
  <2> HIDE DEF record
  <2>3. Set(o, record)
    BY <2>1 DEF record
  <2> QED BY <1>1, <1>2, <1>3, <2>2, <2>3, ReadAgrees, PanelWarns
<1>5. CASE Tick(o)
  <2> DEFINE record == [panel[o] EXCEPT !.ticked = panel[o].staged.number]
  <2>1. panel[o].staged \in Staged
    BY <1>1, <1>5, PanelOf DEF Tick
  <2>2. panel[o].staged.number \in 0..MaxWrites
    BY <2>1, Constants DEF Staged
  <2>3. record \in Panels /\ record.view = panel[o].view /\ record.staged = panel[o].staged
    BY <1>1, <2>2 DEF Panels
  <2>4. Set(o, record)
    BY <1>5 DEF Tick
  <2> HIDE DEF record
  <2> QED BY <1>1, <1>2, <1>3, <2>3, <2>4, PanelWarns
<1>6. CASE Cancel(o) \/ SubmitFails(o) \/ PollThrows(o)
  <2> DEFINE record == [panel[o] EXCEPT !.pc = "rules", !.staged = NotStaged]
  <2>1. record \in Panels /\ record.view = panel[o].view /\ record.staged = NotStaged
    BY <1>1 DEF Panels
  <2>2. Set(o, record)
    BY <1>6 DEF Cancel, SubmitFails, PollThrows, Close
  <2> HIDE DEF record
  <2> QED BY <1>1, <1>2, <1>3, <2>1, <2>2, PanelWarns
<1>7. CASE Settled(o)
  <2>1. PICK S \in SUBSET DOMAIN rules :
          Set(o, [Closed(Only(S)) EXCEPT !.ticked = panel[o].ticked])
    BY <1>7 DEF Settled
  <2> DEFINE record == [Closed(Only(S)) EXCEPT !.ticked = panel[o].ticked]
  <2>2. record \in Panels /\ record.view = Only(S) /\ record.staged = NotStaged
    BY <1>1, OnlyRules DEF Panels, Closed
  <2>3. Set(o, record)
    BY <2>1
  <2> HIDE DEF record
  <2> QED BY <1>1, <1>2, <1>3, <2>2, <2>3, ReadAgrees, PanelWarns
<1> QED BY <1>4, <1>5, <1>6, <1>7

LEMMA StageIsWarned ==
  ASSUME WarnedInv, NEW o \in Operators, NEW write \in Writes, Stage(o, write)
  PROVE  ViewsAgree' /\ SentAgree'
<1> DEFINE view == panel[o].view
           new == [write |-> write, seen |-> view, number |-> writes',
                   warnings |-> Warnings(write, view, o)]
           record == [panel[o] EXCEPT !.pc = "confirm", !.staged = new]
<1>1. /\ RulesInv /\ SentAgree /\ panel[o] \in Panels /\ view \in RuleSets
      /\ writes' \in 1..MaxWrites /\ Agree(view, rules, nextId)
      /\ UNCHANGED <<rules, nextId, txs>>
  BY PanelOf, Constants DEF WarnedInv, ViewsAgree, Panels, Stage, RulesInv, TypeOK
<1>2. Warnings(write, view, o) \subseteq Warning
  BY DEF Warnings
<1>3. /\ new \in Staged /\ new.write = write /\ new.seen = view
      /\ new.warnings = Warnings(write, view, o)
  BY <1>1, <1>2 DEF Staged
<1>4. IsWarned(new, o)
  BY <1>3 DEF IsWarned, Stage, MayAdd, MayRemove
<1>5. Set(o, record)
  BY DEF Stage
<1> HIDE DEF new, view
<1>6. record \in Panels /\ record.view = panel[o].view /\ record.staged = new
  BY <1>1, <1>3 DEF Panels
<1> HIDE DEF record
<1>7. ViewsAgree'
  BY <1>1, <1>3, <1>4, <1>5, <1>6, PanelWarns DEF view
<1>8. SentAgree'
  BY <1>1 DEF SentAgree
<1> QED BY <1>7, <1>8

LEMMA SubmitIsWarned ==
  ASSUME WarnedInv, NEW o \in Operators, Submit(o) PROVE ViewsAgree' /\ SentAgree'
<1> DEFINE p == panel[o]
           record == [p EXCEPT !.pc = "sent"]
<1>1. /\ RulesInv /\ p \in Panels /\ p.staged # NotStaged
      /\ Agree(p.view, rules, nextId)
      /\ IsWarned(p.staged, o) /\ Agree(p.staged.seen, rules, nextId)
      /\ UNCHANGED <<rules, nextId>>
  BY PanelOf DEF WarnedInv, ViewsAgree, Submit
<1>2. record \in Panels /\ record.view = p.view /\ record.staged = p.staged
  BY <1>1 DEF Panels
<1>3. PICK S \in SUBSET DOMAIN rules :
        txs' = txs \cup {[by |-> o, under |-> Chosen(Only(S), o), staged |-> p.staged,
                          chosenFrom |-> Only(S),
                          agreed |-> p.ticked = p.staged.number]}
  BY DEF Submit
<1> DEFINE tx == [by |-> o, under |-> Chosen(Only(S), o), staged |-> p.staged,
                  chosenFrom |-> Only(S), agreed |-> p.ticked = p.staged.number]
<1>4. /\ tx.by = o /\ tx.staged = p.staged /\ tx.under = Chosen(tx.chosenFrom, tx.by)
      /\ tx.agreed = (p.ticked = p.staged.number)
  OBVIOUS
<1>5. Set(o, record) /\ (Blocks(p.staged) => p.ticked = p.staged.number)
  BY DEF Submit, Acknowledged
<1>6. txs' = txs \cup {tx}
  BY <1>3
<1> HIDE DEF tx, p, record
<1>7. IsAgreed(tx)
  BY <1>4, <1>5 DEF IsAgreed
<1>8. ViewsAgree'
  BY <1>1, <1>2, <1>5, PanelWarns DEF p
<1>9. SentAgree'
  BY <1>1, <1>4, <1>6, <1>7 DEF WarnedInv, SentAgree
<1> QED BY <1>8, <1>9

LEMMA NextIsWarned == ASSUME WarnedInv, [Next]_vars PROVE WarnedInv'
<1>1. ASSUME UNCHANGED vars PROVE ViewsAgree' /\ SentAgree'
  BY <1>1 DEF vars, WarnedInv, ViewsAgree, SentAgree
<1>2. ASSUME \/ \E tx \in txs : Land(tx) \/ Refuse(tx) \/ Invalid(tx)
             \/ \E r \in DOMAIN rules : Lapse(r)
      PROVE  ViewsAgree' /\ SentAgree'
  BY <1>2, ChainIsWarned
<1>3. ASSUME NEW o \in Operators,
             \/ Fetch(o) \/ Tick(o) \/ Cancel(o) \/ Submit(o) \/ SubmitFails(o)
             \/ Settled(o) \/ PollThrows(o)
      PROVE  ViewsAgree' /\ SentAgree'
  BY <1>3, PanelIsWarned, SubmitIsWarned
<1>4. ASSUME NEW o \in Operators, NEW write \in Writes, Stage(o, write)
      PROVE  ViewsAgree' /\ SentAgree'
  BY <1>4, StageIsWarned
<1>5. RulesInv'
  BY NextHolds DEF WarnedInv
<1>6. ViewsAgree' /\ SentAgree'
  BY <1>1, <1>2, <1>3, <1>4 DEF Next, WarnedInv
<1> QED BY <1>5, <1>6 DEF WarnedInv

-----------------------------------------------------------------------------
(* What the warnings were worth. *)

LEMMA SentIsWarned ==
  ASSUME WarnedInv, NEW tx \in txs
  PROVE  /\ TypeOK /\ tx.by \in Operators /\ tx.staged.write \in Writes
         /\ tx.staged.seen \in RuleSets
         /\ tx.staged.warnings = Warnings(tx.staged.write, tx.staged.seen, tx.by)
         /\ On(tx.staged.seen, tx.by) # {}
         /\ IsAgreed(tx) /\ Agree(tx.staged.seen, rules, nextId)
         /\ tx.staged.write.fn = "add_signer" => tx.staged.write.rule \in DOMAIN tx.staged.seen
<1>1. TypeOK /\ tx \in Tx /\ tx.staged \in Staged /\ tx.staged.write \in Writes
  BY StagedOfTx DEF WarnedInv, RulesInv, TypeOK
<1> QED BY <1>1 DEF WarnedInv, SentAgree, IsWarned, CanWrite, Tx, Staged

LEMMA SignersAreFinite ==
  ASSUME NEW rule \in Rule
  PROVE  /\ IsFiniteSet(rule.signers) /\ Count(rule) \in Nat
         /\ rule.signers # {} => Count(rule) >= 1
<1>1. rule.signers \subseteq Addresses
  BY DEF Rule
<1>2. IsFiniteSet(rule.signers)
  BY <1>1, RulesAssumption, FS_Subset
<1>3. Cardinality(rule.signers) \in Nat /\ (Cardinality(rule.signers) = 0 <=> rule.signers = {})
  BY <1>2, FS_CardinalityType, FS_EmptySet
<1> QED BY <1>2, <1>3 DEF Count

\* The signers shown were counted, so the consequence was shown.
LEMMA CoSigningWasShown ==
  ASSUME WarnedInv, [Next]_vars, NEW tx \in txs, Lands(tx), tx.staged.write.fn = "add_signer",
         ~rules[tx.staged.write.rule].gated,
         rules[tx.staged.write.rule].signers # {},
         rules[tx.staged.write.rule].signers = tx.staged.seen[tx.staged.write.rule].signers
  PROVE  tx.agreed
<1> DEFINE write == tx.staged.write  seen == tx.staged.seen
<1>1. /\ seen \in RuleSets /\ write.rule \in DOMAIN seen /\ Agree(seen, rules, nextId)
      /\ tx.staged.warnings = Warnings(write, seen, tx.by) /\ IsAgreed(tx)
  BY SentIsWarned
<1>2. write.rule \in DOMAIN rules
  BY LandsByLand DEF WarnedInv, Land, Valid
<1>3. ~seen[write.rule].gated /\ seen[write.rule].signers # {}
  BY <1>1, <1>2 DEF Agree
<1>4. seen[write.rule] \in Rule
  BY <1>1, RuleSetsAre
<1>5. CoSigned(write, seen)
  BY <1>3, <1>4, SignersAreFinite DEF CoSigned
<1>6. "co-sign" \in tx.staged.warnings
  BY <1>1, <1>5 DEF Warnings, Warning
<1> QED BY <1>1, <1>6 DEF Blocks, IsAgreed

\* A wallet that is warned of nothing is the only signer of the rule chosen.
LEMMA UnwarnedIsAlone ==
  ASSUME NEW rs \in RuleSets, NEW wallet, On(rs, wallet) # {}, ~Blocked(rs, wallet),
         ~(Sole(rs, wallet) = {} /\ Gated(rs, wallet) # {})
  PROVE  LET r == Chosen(rs, wallet) IN
           r \in DOMAIN rs /\ ~rs[r].gated /\ rs[r].signers = {wallet}
<1> DEFINE r == First(Sole(rs, wallet))
<1>1. Sole(rs, wallet) # {} /\ Preferred(rs, wallet) = Sole(rs, wallet)
  BY DEF Blocked, Preferred
<1>2. Sole(rs, wallet) \subseteq DOMAIN rs /\ DOMAIN rs \subseteq Nat
  BY RuleSetsAre, Constants DEF Sole, On
<1>3. r \in Sole(rs, wallet)
  BY <1>1, <1>2, FirstIsIn
<1> HIDE DEF r
<1>4. /\ r \in DOMAIN rs /\ rs[r] \in Rule /\ ~rs[r].gated
      /\ Count(rs[r]) = 1 /\ wallet \in Read(rs[r])
  BY <1>2, <1>3, RuleSetsAre DEF Sole, On
<1>5. PICK x : rs[r].signers = {x}
  BY <1>4, SignersAreFinite, FS_Singleton DEF Count
<1>6. rs[r].signers = {wallet}
  BY <1>4, <1>5 DEF Read
<1>7. Chosen(rs, wallet) = r
  BY <1>1, <1>4 DEF Chosen, r
<1> QED BY <1>4, <1>6, <1>7

\* There are three ways out of the queue.
LEMMA LeavesBy ==
  ASSUME [Next]_vars, NEW tx \in txs, Leaves(tx)
  PROVE  Land(tx) \/ Refuse(tx) \/ Invalid(tx)
<1>1. tx \notin txs'
  BY DEF Leaves
<1>2. ASSUME NEW other \in txs, Land(other) \/ Refuse(other) \/ Invalid(other) PROVE other = tx
  BY <1>1, <1>2 DEF Land, Refuse, Invalid, Out
<1>3. ~(\E r \in DOMAIN rules : Lapse(r)) /\ ~(UNCHANGED vars)
  BY <1>1 DEF Lapse, vars
<1>4. ~(\E o \in Operators :
          \/ Fetch(o) \/ Tick(o) \/ Cancel(o) \/ Submit(o) \/ SubmitFails(o)
          \/ Settled(o) \/ PollThrows(o)
          \/ \E write \in Writes : Stage(o, write))
  BY <1>1 DEF Fetch, Tick, Cancel, Submit, SubmitFails, Settled, PollThrows, Stage
<1> QED BY <1>2, <1>3, <1>4 DEF Next

\* A valid write changes the rules.
LEMMA ApplyChanges ==
  ASSUME TypeOK, NEW write \in Writes, Valid(write), Apply(write) PROVE rules' # rules
<1> DEFINE added == IF write.fn = "add_context_rule" THEN {nextId} ELSE {}
           removed == IF write.fn = "remove_context_rule" THEN {write.rule} ELSE {}
<1>1. DOMAIN rules' = (DOMAIN rules \cup added) \ removed
  BY DEF Apply
<1>2. nextId \notin DOMAIN rules
  BY Constants DEF TypeOK
<1>3. CASE write.fn \in {"add_context_rule", "remove_context_rule"}
  BY <1>1, <1>2, <1>3 DEF Valid
<1>4. CASE write.fn \in {"add_signer", "remove_signer"}
  <2>1. write.rule \in DOMAIN rules /\ write.rule \in DOMAIN rules'
    BY <1>1, <1>4 DEF Valid
  <2>2. rules[write.rule] \in Rule
    BY <2>1, RuleSetsAre DEF TypeOK
  <2>3. rules'[write.rule].signers =
          IF write.fn = "add_signer" THEN rules[write.rule].signers \cup {write.who}
                                     ELSE rules[write.rule].signers \ {write.who}
    BY <1>4, <2>1, <2>2 DEF Apply, Rule
  <2> QED BY <1>4, <2>1, <2>3 DEF Valid
<1> QED BY <1>3, <1>4 DEF Writes

LEMMA RefusalWasNoSurprise ==
  ASSUME WarnedInv, [Next]_vars, NEW tx \in txs, Leaves(tx), Valid(tx.staged.write),
         UNCHANGED rules, tx.staged.warnings \cap {"blocked", "unsure"} = {},
         rules = tx.staged.seen, tx.chosenFrom = tx.staged.seen
  PROVE  ~rules[tx.under].applies
<1>1. /\ TypeOK /\ rules \in RuleSets /\ tx.staged.write \in Writes
      /\ tx.staged.warnings = Warnings(tx.staged.write, rules, tx.by)
      /\ On(rules, tx.by) # {} /\ tx.under = Chosen(rules, tx.by)
  BY SentIsWarned DEF IsAgreed
<1>2. "blocked" \notin tx.staged.warnings /\ "unsure" \notin tx.staged.warnings
  OBVIOUS
<1>3. ~Blocked(rules, tx.by) /\ ~(Sole(rules, tx.by) = {} /\ Gated(rules, tx.by) # {})
  BY <1>1, <1>2 DEF Warnings, Warning
<1>4. tx.under \in DOMAIN rules /\ ~rules[tx.under].gated /\ rules[tx.under].signers = {tx.by}
  BY <1>1, <1>3, UnwarnedIsAlone
<1>5. ~Land(tx)
  BY <1>1, ApplyChanges DEF Land
<1>6. Refuse(tx)
  BY <1>5, LeavesBy DEF Invalid
<1> QED BY <1>4, <1>6 DEF Refuse, MayRefuse, MayAuthorize

-----------------------------------------------------------------------------
\* The inductive invariant of the Signers panel: types, and that every removal
\* under way was staged beside another rule.
THEOREM RulesInvariant == Spec => []RulesInv
<1>1. Init => RulesInv
  BY InitHolds
<1>2. RulesInv /\ [Next]_vars => RulesInv'
  BY NextHolds
<1> QED BY <1>1, <1>2, PTL DEF Spec

\* The variables of the Signers panel and of the account keep their types.
THEOREM RulesTypeOK == Spec => []TypeOK
BY RulesInvariant, PTL DEF RulesInv

\* A treasury loses its last rule only to a removal staged on a list that
\* showed a rule it no longer has (writeDrafts.ts, ruleRemovalBlock).
THEOREM LastRuleGoesUnseen == Spec => LastRuleNotInPlainSight
<1>1. RulesInv /\ [Next]_vars
        => [\A tx \in txs :
              Lands(tx) /\ rules' = NoRules
                => \E r \in DOMAIN tx.staged.seen : r \notin DOMAIN rules]_vars
  BY LastWasNotInSight
<1> QED BY <1>1, RulesInvariant, PTL DEF Spec, LastRuleNotInPlainSight

\* What the console shows of the rules, and the warnings it derives from it,
\* stay true of the transaction it sends: the second invariant of the panel.
THEOREM WarningsInvariant == Spec => []WarnedInv
<1>1. Init => WarnedInv
  BY InitWarned
<1>2. WarnedInv /\ [Next]_vars => WarnedInv'
  BY NextIsWarned
<1> QED BY <1>1, <1>2, PTL DEF Spec

\* A write that was warned of nothing is not refused for its authorization by
\* rules that are those shown (collectWriteWarnings and selectRuleForSigner
\* agree).
THEOREM RefusalsAreNoSurprise == Spec => RefusalIsNoSurprise
<1>1. WarnedInv /\ [Next]_vars
        => [\A tx \in txs :
              Leaves(tx) /\ Valid(tx.staged.write) /\ UNCHANGED rules
                /\ tx.staged.warnings \cap {"blocked", "unsure"} = {}
              => \/ rules # tx.staged.seen \/ ~rules[tx.under].applies
                 \/ tx.chosenFrom # tx.staged.seen]_vars
  BY RefusalWasNoSurprise
<1> QED BY <1>1, WarningsInvariant, PTL DEF Spec, RefusalIsNoSurprise

\* A rule that one signature satisfied comes to need two only by a write whose
\* consequence was shown and ticked (the add_signer block of the panel).
THEOREM CoSigningIsAgreedTo == Spec => CoSigningIsAgreed
<1>1. WarnedInv /\ [Next]_vars
        => [\A tx \in txs :
              Lands(tx) /\ tx.staged.write.fn = "add_signer"
                /\ ~rules[tx.staged.write.rule].gated
                /\ rules[tx.staged.write.rule].signers # {}
                /\ rules[tx.staged.write.rule].signers
                     = tx.staged.seen[tx.staged.write.rule].signers
              => tx.agreed]_vars
  BY CoSigningWasShown
<1> QED BY <1>1, WarningsInvariant, PTL DEF Spec, CoSigningIsAgreed
=============================================================================
