---------------------------- MODULE TreasuryRules ----------------------------
(***************************************************************************)
(* The Signers panel: operators, each with a console and a wallet, change  *)
(* the context rules of one treasury.  A rule is satisfied by all of its   *)
(* signers, or by what its policy decides; any satisfied rule authorizes   *)
(* any change; a console signs with one wallet under one rule.             *)
(*                                                                         *)
(* A write is staged on the rules the panel shows, with the warnings they  *)
(* give rise to, confirmed, and signed under a rule chosen on the rules    *)
(* read then.  Simulation does not check authorization: a wrong choice is  *)
(* learnt from the chain.                                                  *)
(***************************************************************************)
EXTENDS Naturals, FiniteSets

CONSTANTS
  Operators,    \* the wallets, by address
  Addresses,    \* all signers
  Readable,     \* those the console can read off a rule: G... addresses
  FirstRules,   \* the rules of the treasury at first
  Ending,       \* those that have a valid_until
  ScanSlack,    \* 32: how many removed rules the scan of rule ids skips
  MaxRules,     \* bound: rules ever
  MaxWrites,    \* bound: writes staged
  MaxFaults     \* bound: reads that miss a rule, polls that fail

Rule == [signers : SUBSET Addresses, gated : BOOLEAN, applies : BOOLEAN]
RuleSets == UNION {[S -> Rule] : S \in SUBSET (0..MaxRules - 1)}

ASSUME RulesAssumption ==
  /\ Operators \subseteq Readable /\ Readable \subseteq Addresses /\ IsFiniteSet(Addresses)
  /\ ScanSlack \in Nat /\ MaxRules \in Nat /\ MaxWrites \in Nat /\ MaxFaults \in Nat
  /\ FirstRules \in RuleSets /\ Ending \subseteq DOMAIN FirstRules
  /\ \E k \in 0..MaxRules : DOMAIN FirstRules = 0..k - 1

VARIABLES
  rules,   \* the treasury's rules, by id
  nextId,  \* an id is never given twice
  txs,     \* the writes sent and not yet in a ledger
  panel,   \* per operator, the Signers panel
  writes,  \* writes staged so far
  faults

vars == <<rules, nextId, txs, panel, writes, faults>>

NoRules == << >>
NoRule == MaxRules

\* fn, on what rule, about what signer.
Writes ==
  [fn : {"add_signer", "remove_signer"}, rule : 0..MaxRules - 1, who : Addresses]
    \cup [fn : {"remove_context_rule"}, rule : 0..MaxRules - 1]
    \cup [fn : {"add_context_rule"}, who : Addresses]

Warning == {"co-sign", "blocked", "unsure", "self", "no weaker"}
Staged == [write : Writes, seen : RuleSets, warnings : SUBSET Warning, number : 1..MaxWrites]
Tx == [by : Operators, under : 0..MaxRules - 1, staged : Staged,
       chosenFrom : RuleSets, agreed : BOOLEAN]

NotStaged == [number |-> 0]
Closed(view) == [pc |-> "rules", view |-> view, staged |-> NotStaged, ticked |-> 0]

TypeOK ==
  /\ rules \in RuleSets /\ nextId \in 0..MaxRules /\ DOMAIN rules \subseteq 0..nextId - 1
  /\ txs \subseteq Tx
  /\ panel \in [Operators -> [pc : {"rules", "confirm", "sent"}, view : RuleSets,
                              staged : Staged \cup {NotStaged}, ticked : 0..MaxWrites]]
  /\ \A o \in Operators : panel[o].pc = "rules" <=> panel[o].staged = NotStaged
  /\ writes \in 0..MaxWrites /\ faults \in 0..MaxFaults

Init ==
  /\ rules = FirstRules /\ nextId = Cardinality(DOMAIN FirstRules)
  /\ txs = {} /\ panel = [o \in Operators |-> Closed(NoRules)]
  /\ writes = 0 /\ faults = 0

Fault == faults < MaxFaults /\ faults' = faults + 1
NoFault == UNCHANGED faults

First(S) == CHOOSE r \in S : \A s \in S : r <= s
Only(S) == [r \in S |-> rules[r]]

-----------------------------------------------------------------------------
(* What the console makes of the rules it has read. *)

\* readContextRule: the signers counted, and the signers read.
Count(rule) == Cardinality(rule.signers)
Read(rule) == rule.signers \cap Readable

\* findAuthorizingPath
On(rs, wallet) == {r \in DOMAIN rs : wallet \in Read(rs[r])}
Sole(rs, wallet) == {r \in On(rs, wallet) : ~rs[r].gated /\ Count(rs[r]) = 1}
Gated(rs, wallet) == {r \in On(rs, wallet) : rs[r].gated}
Blocked(rs, wallet) ==
  On(rs, wallet) # {} /\ Sole(rs, wallet) = {} /\ Gated(rs, wallet) = {}

\* Mutant: the first rule the wallet is on (as it once was).
Preferred_First(rs, wallet) ==
  IF On(rs, wallet) # {} THEN On(rs, wallet) ELSE DOMAIN rs

\* selectRuleForSigner: the best of the wallet's own rules, or any.
Preferred(rs, wallet) ==
  CASE Sole(rs, wallet) # {}                             -> Sole(rs, wallet)
    [] Sole(rs, wallet) = {} /\ Gated(rs, wallet) # {}   -> Gated(rs, wallet)
    [] Blocked(rs, wallet)                               -> On(rs, wallet)
    [] OTHER                                             -> DOMAIN rs

\* selectRuleForWallet, or its errors.
Chosen(rs, wallet) ==
  LET r == First(Preferred(rs, wallet)) IN
    IF DOMAIN rs # {} /\ (rs[r].signers = {} \/ wallet \in Read(rs[r]))
      THEN r ELSE NoRule

\* computeWeakestRule, of the rules whose requirement is known.
Weakest(rs) ==
  LET known == {r \in DOMAIN rs : ~rs[r].gated} IN
    {r \in known : \A s \in known : Count(rs[r]) <= Count(rs[s])}

\* Mutant: the co-signers counted are those the console can read.
CoSigned_AsRead(write, rs) ==
  write.fn = "add_signer" /\ ~rs[write.rule].gated /\ Read(rs[write.rule]) # {}

\* The rule will need two signatures, which no console gives.
CoSigned(write, rs) ==
  write.fn = "add_signer" /\ ~rs[write.rule].gated /\ Count(rs[write.rule]) >= 1

\* collectWriteWarnings
Warnings(write, rs, wallet) ==
  {w \in Warning :
     \/ w = "co-sign" /\ CoSigned(write, rs)
     \/ w = "self" /\ write.fn = "remove_context_rule" /\ write.rule \in On(rs, wallet)
     \/ w = "no weaker" /\ write.fn = "add_context_rule"
          /\ \E r \in Weakest(rs) : Count(rs[r]) = 1
     \/ w = "blocked" /\ Blocked(rs, wallet)
     \/ w = "unsure" /\ Sole(rs, wallet) = {} /\ Gated(rs, wallet) # {}}

Blocks(staged) == staged.warnings \cap {"co-sign", "blocked"} # {}

\* canWrite: a wallet on no rule is offered no button.
CanWrite(rs, wallet) == On(rs, wallet) # {}

\* The two forms: a new rule, or one more signer on a rule that is listed.
MayAdd(write, rs) ==
  \/ write.fn = "add_context_rule"
  \/ write.fn = "add_signer" /\ write.rule \in DOMAIN rs

\* signerRemovalBlock: not the last signer that can be read.
SignerBlocked(rule, who) == Cardinality(Read(rule)) <= 1 \/ who \notin Read(rule)

\* Mutant: a rule is removed whatever is left.
RuleBlocked_Never(rs, r) == r \notin DOMAIN rs

\* ruleRemovalBlock: not the last rule.
RuleBlocked(rs, r) == Cardinality(DOMAIN rs) <= 1 \/ r \notin DOMAIN rs

\* The buttons of the list.
MayRemove(write, rs) ==
  \/ /\ write.fn = "remove_signer" /\ write.rule \in DOMAIN rs
     /\ ~SignerBlocked(rs[write.rule], write.who)
  \/ write.fn = "remove_context_rule" /\ ~RuleBlocked(rs, write.rule)

-----------------------------------------------------------------------------
(* The chain. *)

\* What the account accepts, once it is authorized.
Valid(write) ==
  /\ write.fn # "add_context_rule" => write.rule \in DOMAIN rules
  /\ write.fn = "add_signer" => write.who \notin rules[write.rule].signers
  /\ write.fn = "remove_signer" =>
       /\ write.who \in rules[write.rule].signers
       /\ rules[write.rule].signers # {write.who} \/ rules[write.rule].gated
  /\ write.fn = "add_context_rule" => nextId < MaxRules

Apply(write) ==
  LET at(r) ==
        CASE write.fn = "add_context_rule" /\ r = nextId ->
               [signers |-> {write.who}, gated |-> FALSE, applies |-> TRUE]
          [] write.fn = "add_signer" /\ r = write.rule ->
               [rules[r] EXCEPT !.signers = @ \cup {write.who}]
          [] write.fn = "remove_signer" /\ r = write.rule ->
               [rules[r] EXCEPT !.signers = @ \ {write.who}]
          [] OTHER -> rules[r]
      added == IF write.fn = "add_context_rule" THEN {nextId} ELSE {}
      removed == IF write.fn = "remove_context_rule" THEN {write.rule} ELSE {}
  IN  /\ rules' = [r \in (DOMAIN rules \cup added) \ removed |-> at(r)]
      /\ nextId' = nextId + Cardinality(added)

\* __check_auth: the rule applies, and the one signature, or the policy,
\* satisfies it.
MayAuthorize(tx) ==
  /\ tx.under \in DOMAIN rules /\ rules[tx.under].applies
  /\ rules[tx.under].gated \/ rules[tx.under].signers = {tx.by}

MayRefuse(tx) == MayAuthorize(tx) => rules[tx.under].gated

Out(tx) == txs' = txs \ {tx} /\ UNCHANGED <<panel, writes, faults>>

Land(tx) ==
  /\ MayAuthorize(tx) /\ Valid(tx.staged.write)
  /\ Apply(tx.staged.write) /\ Out(tx)

\* UnvalidatedContext and its like: the fee is charged all the same.
Refuse(tx) ==
  /\ MayRefuse(tx)
  /\ Out(tx) /\ UNCHANGED <<rules, nextId>>

\* The write has become invalid.
Invalid(tx) ==
  /\ ~Valid(tx.staged.write)
  /\ Out(tx) /\ UNCHANGED <<rules, nextId>>

\* valid_until passes.
Lapse(r) ==
  /\ r \in DOMAIN rules \cap Ending /\ rules[r].applies
  /\ rules' = [rules EXCEPT ![r].applies = FALSE]
  /\ UNCHANGED <<nextId, txs, panel, writes, faults>>

-----------------------------------------------------------------------------
(* The panel. *)

\* loadContextRules: ids from 0 until all are found, or too many are missing.
Scanned == {r \in DOMAIN rules : r < Cardinality(DOMAIN rules) + ScanSlack}

\* An id that cannot be read is taken for one that is not there.
Loads(rs) ==
  \/ rs = Only(Scanned) /\ NoFault
  \/ \E r \in Scanned : rs = Only(Scanned \ {r}) /\ Fault

Set(o, record) == panel' = [panel EXCEPT ![o] = record]

\* The query is fetched, or fetched again, whatever the panel is doing.
Fetch(o) ==
  /\ \E S \in SUBSET DOMAIN rules :
       /\ Loads(Only(S))
       /\ Set(o, [panel[o] EXCEPT !.view = Only(S)])
  /\ UNCHANGED <<rules, nextId, txs, writes>>

\* A write is validated against the rules shown, simulated on the chain, and
\* staged with its warnings; a write rejected here leaves everything as it is.
Stage(o, write) ==
  LET view == panel[o].view IN
  /\ panel[o].pc = "rules" /\ writes < MaxWrites
  /\ CanWrite(view, o) /\ Valid(write)
  /\ MayAdd(write, view) \/ MayRemove(write, view)
  /\ writes' = writes + 1
  /\ Set(o, [panel[o] EXCEPT !.pc = "confirm",
       !.staged = [write |-> write, seen |-> view, number |-> writes',
                   warnings |-> Warnings(write, view, o)]])
  /\ UNCHANGED <<rules, nextId, txs, faults>>

\* The box under the blocks is ticked for the write that is staged.
Tick(o) ==
  /\ panel[o].pc = "confirm" /\ Blocks(panel[o].staged)
  /\ Set(o, [panel[o] EXCEPT !.ticked = panel[o].staged.number])
  /\ UNCHANGED <<rules, nextId, txs, writes, faults>>

\* setPending(null): the box keeps its tick.
Close(o) == Set(o, [panel[o] EXCEPT !.pc = "rules", !.staged = NotStaged])

Cancel(o) ==
  /\ panel[o].pc = "confirm" /\ Close(o)
  /\ UNCHANGED <<rules, nextId, txs, writes, faults>>

Acknowledged(p) == p.ticked = p.staged.number

\* The rules are loaded again, the rule is chosen, the wallet signs the
\* authorization and the envelope, and the transaction is sent.
Submit(o) ==
  LET p == panel[o] IN
  /\ p.pc = "confirm"
  /\ Blocks(p.staged) => Acknowledged(p)
  /\ \A tx \in txs : tx.by # o
  /\ \E S \in SUBSET DOMAIN rules :
       /\ Loads(Only(S)) /\ Chosen(Only(S), o) # NoRule
       /\ txs' = txs \cup {[by |-> o, under |-> Chosen(Only(S), o), staged |-> p.staged,
                            chosenFrom |-> Only(S),
                            agreed |-> p.ticked = p.staged.number]}
  /\ Set(o, [p EXCEPT !.pc = "sent"])
  /\ UNCHANGED <<rules, nextId, writes>>

\* No rule can be signed under, or the last write is still waiting.
SubmitFails(o) ==
  LET p == panel[o] IN
  /\ p.pc = "confirm"
  /\ Blocks(p.staged) => Acknowledged(p)
  /\ \/ \E tx \in txs : tx.by = o /\ NoFault
     \/ \E S \in SUBSET DOMAIN rules : Loads(Only(S)) /\ Chosen(Only(S), o) = NoRule
  /\ Close(o)
  /\ UNCHANGED <<rules, nextId, txs, writes>>

\* The receipt, of a success or of a failure; the rules are fetched again.
Settled(o) ==
  /\ panel[o].pc = "sent" /\ \A tx \in txs : tx.by # o
  /\ \E S \in SUBSET DOMAIN rules :
       Loads(Only(S)) /\ Set(o, [Closed(Only(S)) EXCEPT !.ticked = panel[o].ticked])
  /\ UNCHANGED <<rules, nextId, txs, writes>>

\* getTransaction throws: nothing is fetched, the write may still land.
PollThrows(o) ==
  /\ panel[o].pc = "sent" /\ Fault /\ Close(o)
  /\ UNCHANGED <<rules, nextId, txs, writes>>

Next ==
  \/ \E tx \in txs : Land(tx) \/ Refuse(tx) \/ Invalid(tx)
  \/ \E r \in DOMAIN rules : Lapse(r)
  \/ \E o \in Operators :
       \/ Fetch(o) \/ Tick(o) \/ Cancel(o) \/ Submit(o) \/ SubmitFails(o)
       \/ Settled(o) \/ PollThrows(o)
       \/ \E write \in Writes : Stage(o, write)

Spec == Init /\ [][Next]_vars

-----------------------------------------------------------------------------
Leaves(tx) == tx \in txs /\ tx \notin txs'
Lands(tx) == Leaves(tx) /\ <<rules, nextId>>' # <<rules, nextId>>

\* A write that is warned of nothing is not refused for its authorization,
\* unless the rules have changed or could not be read since they were shown,
\* or the rule has lapsed (the console does not look at that): the warnings
\* and the choice of the rule agree.
RefusalIsNoSurprise ==
  [][\A tx \in txs :
       Leaves(tx) /\ Valid(tx.staged.write) /\ UNCHANGED rules
         /\ tx.staged.warnings \cap {"blocked", "unsure"} = {}
       => \/ rules # tx.staged.seen \/ ~rules[tx.under].applies
          \/ tx.chosenFrom # tx.staged.seen]_vars

\* A rule that one signature satisfied comes to need two only by a write
\* whose consequence was shown and agreed to, or by an operator who was shown
\* a rule with a policy.
CoSigningIsAgreed ==
  [][\A tx \in txs :
       Lands(tx) /\ tx.staged.write.fn = "add_signer"
         /\ ~rules[tx.staged.write.rule].gated
         /\ rules[tx.staged.write.rule].signers # {}
         /\ rules[tx.staged.write.rule].signers
              = tx.staged.seen[tx.staged.write.rule].signers
       => tx.agreed]_vars

\* A treasury loses its last rule, and with it every way to authorize
\* anything, only by a removal staged when another rule was shown.
LastRuleNotInPlainSight ==
  [][\A tx \in txs :
       Lands(tx) /\ rules' = NoRules => \E r \in DOMAIN tx.staged.seen : r \notin DOMAIN rules]_vars

\* On the chain one signature is enough to authorize anything.
OneSuffices == \E r \in DOMAIN rules :
  rules[r].applies /\ ~rules[r].gated /\ Cardinality(rules[r].signers) = 1

\* "Adding another independent rule cannot make it less secure": where the
\* operator is told so of the rules as they are, one signature sufficed.
NoWeakerIsTrue ==
  [][\A tx \in txs :
       Lands(tx) /\ "no weaker" \in tx.staged.warnings /\ rules = tx.staged.seen
       => OneSuffices]_vars

\* "So the client blocks it unconditionally": the treasury has a rule.
TreasuryHasARule == rules # NoRules
=============================================================================
