------------------------- MODULE PolicyConsoleProofs -------------------------
(***************************************************************************)
(* What the Policy panel's cap search shows, for every set of caps, any    *)
(* largest amount, and a policy that changes at any moment of the search.  *)
(***************************************************************************)
EXTENDS PolicyConsole, TLAPS

\* The search keeps a cap it may find on each side: the amounts that passed
\* were within a cap the asset had, and those refused were above one.
Bracket ==
  /\ check.pc # "idle" /\ policy.enabled => policy.cap \in check.caps
  /\ check.pc \in {"probe", "escalate"} => check.low < check.next
  /\ check.pc \in {"escalate", "halve"} => check.reason \in Within
  /\ check.low # 0 => \E c \in check.caps : check.low <= c
  /\ check.pc = "halve" => \E c \in check.caps : c < check.high

SearchInv == TypeOK /\ Bracket /\ CapIsBetween

-----------------------------------------------------------------------------

LEMMA CapsAreNat == \A c \in Caps : c \in Nat /\ c # 0
BY PolicyAssumption

\* A new check brackets nothing yet.
LEMMA NothingBracketed ==
  /\ NotChecking.pc = "idle" /\ NotChecking.low = 0
  /\ NotChecking \in [pc : {"idle", "probe", "escalate", "halve"},
                to : Destinations \cup {"none"}, version : Versions \cup {0},
                reason : Reasons \cup {"none"}, low : Nat, high : Nat,
                next : Nat, caps : SUBSET Caps, same : BOOLEAN]
BY DEF NotChecking, Reasons

LEMMA InitHolds == Init => SearchInv
<1> SUFFICES ASSUME Init PROVE SearchInv
  OBVIOUS
<1>1. TypeOK
  <2>1. /\ policy \in [cap : Caps \cup {0}, enabled : BOOLEAN, to : SUBSET Destinations,
                      oper : BOOLEAN, version : Versions]
        /\ policy.cap # 0 /\ policy.version = 1
    <3>1. PICK cap \in Caps, to \in {{}, Destinations} :
            policy = [cap |-> cap, enabled |-> TRUE, to |-> to, oper |-> TRUE, version |-> 1]
      BY DEF Init
    <3> QED BY <3>1, CapsAreNat, PolicyAssumption DEF Versions
  <2>2. shown \in [to : Destinations \cup {"none"}, reason : Reasons \cup {"none"},
                  cap : Nat, caps : SUBSET Caps, same : BOOLEAN]
    BY DEF Init, NotShown, NoCap
  <2>3. pins \in [Jobs -> Versions \cup {0}]
    BY DEF Init
  <2> QED
    BY <2>1, <2>2, <2>3, NothingBracketed, PolicyAssumption DEF Init, TypeOK, Versions
<1>2. Bracket /\ CapIsBetween
  BY DEF Init, Bracket, CapIsBetween, NotChecking, NotShown, NoCap
<1> QED BY <1>1, <1>2 DEF SearchInv

-----------------------------------------------------------------------------
(* The policy changes. *)

\* A change makes a policy of the right type, and never an older version.
LEMMA ChangedIsPolicy ==
  ASSUME TypeOK, NEW change \in Changes, Accepts(change)
  PROVE  /\ Changed(change) \in [cap : Caps \cup {0}, enabled : BOOLEAN,
                                 to : SUBSET Destinations, oper : BOOLEAN, version : Versions]
         /\ Changed(change).enabled => Changed(change).cap # 0
         /\ known <= Changed(change).version
<1>1. CASE change \in AssetRules
  BY <1>1, CapsAreNat DEF TypeOK, Changed, AssetRules, Versions
<1>2. CASE change \in RecipientRules
  BY <1>2 DEF TypeOK, Changed, RecipientRules, Versions
<1>3. CASE change \in OperationRules
  BY <1>3 DEF TypeOK, Changed, OperationRules, Versions
<1>4. CASE change \in Bumps
  BY <1>4, PolicyAssumption DEF TypeOK, Changed, Accepts, Bumps, Versions
<1> QED BY <1>1, <1>2, <1>3, <1>4 DEF Changes

\* A change during a check adds to the caps the check may find.
LEMMA MakeKeeps ==
  ASSUME SearchInv, NEW change \in Changes, Make(change),
         UNCHANGED <<panel, known, typed, shown, pins, faults>>,
         write' = write \/ write' = NoWrite
  PROVE  SearchInv'
<1> DEFINE P == Changed(change)
<1>1. /\ policy' = P /\ check' = Witnessed(P) /\ changes' = changes + 1
      /\ changes < MaxChanges /\ Accepts(change)
  BY DEF Make
<1>2. /\ P \in [cap : Caps \cup {0}, enabled : BOOLEAN, to : SUBSET Destinations,
                oper : BOOLEAN, version : Versions]
      /\ P.enabled => P.cap # 0
      /\ known <= P.version
  BY <1>1, ChangedIsPolicy DEF SearchInv
<1> HIDE DEF P
<1>3. CASE check.pc = "idle"
  <2>1. check' = check
    BY <1>1, <1>3 DEF Witnessed
  <2>2. TypeOK'
    BY <1>1, <1>2, <2>1, PolicyAssumption DEF SearchInv, TypeOK
  <2>3. Bracket'
    BY <1>3, <2>1 DEF SearchInv, Bracket, Within
  <2>4. CapIsBetween'
    BY DEF SearchInv, CapIsBetween
  <2> QED BY <2>2, <2>3, <2>4 DEF SearchInv
<1>4. CASE check.pc # "idle"
  <2>1. check' = [check EXCEPT !.caps = IF P.enabled THEN @ \cup {P.cap} ELSE @,
                               !.same = @ /\ P = policy]
    BY <1>1, <1>4 DEF Witnessed
  <2>2. /\ check' \in [pc : {"idle", "probe", "escalate", "halve"},
                to : Destinations \cup {"none"}, version : Versions \cup {0},
                reason : Reasons \cup {"none"}, low : Nat, high : Nat,
                next : Nat, caps : SUBSET Caps, same : BOOLEAN]
        /\ check'.pc = check.pc /\ check'.reason = check.reason
        /\ check'.low = check.low /\ check'.high = check.high
        /\ check'.next = check.next /\ check.caps \subseteq check'.caps
        /\ P.enabled => P.cap \in check'.caps
    BY <1>2, <2>1 DEF SearchInv, TypeOK
  <2>3. TypeOK'
    BY <1>1, <1>2, <2>2, PolicyAssumption DEF SearchInv, TypeOK
  <2>4. Bracket'
    BY <1>1, <2>2 DEF SearchInv, Bracket, Within
  <2>5. CapIsBetween'
    BY DEF SearchInv, CapIsBetween
  <2> QED BY <2>3, <2>4, <2>5 DEF SearchInv
<1> QED BY <1>3, <1>4

-----------------------------------------------------------------------------
(* The check. *)

LEMMA CheckHolds == ASSUME SearchInv, Check PROVE SearchInv'
<1>1. /\ check' \in [pc : {"idle", "probe", "escalate", "halve"},
                to : Destinations \cup {"none"}, version : Versions \cup {0},
                reason : Reasons \cup {"none"}, low : Nat, high : Nat,
                next : Nat, caps : SUBSET Caps, same : BOOLEAN]
      /\ check'.pc = "probe" /\ check'.low = 0 /\ check'.next = 1
      /\ policy.enabled => policy.cap \in check'.caps
  BY NothingBracketed DEF SearchInv, TypeOK, Check, NotChecking
<1>2. /\ shown' \in [to : Destinations \cup {"none"}, reason : Reasons \cup {"none"},
                    cap : Nat, caps : SUBSET Caps, same : BOOLEAN]
      /\ shown'.cap = NoCap
  BY DEF Check, NotShown, NoCap
<1>3. TypeOK'
  BY <1>1, <1>2 DEF SearchInv, TypeOK, Check, writing
<1>4. Bracket'
  BY <1>1 DEF Bracket, Check
<1>5. CapIsBetween'
  BY <1>2 DEF CapIsBetween
<1> QED BY <1>3, <1>4, <1>5 DEF SearchInv

\* Showing a cap between two of the check's caps, or none, ends the check.
LEMMA ShowKeeps ==
  ASSUME SearchInv, NEW reason \in Reasons, NEW cap \in Nat, Show(reason, cap),
         UNCHANGED <<panel, policy, known, typed, writing>>,
         faults' \in 0..MaxFaults,
         cap # NoCap => /\ \E c \in check.caps : c <= cap
                        /\ \E c \in check.caps : cap <= c
  PROVE  SearchInv'
<1>1. /\ shown' \in [to : Destinations \cup {"none"}, reason : Reasons \cup {"none"},
                    cap : Nat, caps : SUBSET Caps, same : BOOLEAN]
      /\ shown'.cap = cap /\ shown'.caps = check.caps
  BY DEF SearchInv, TypeOK, Show
<1>2. TypeOK'
  BY <1>1, NothingBracketed DEF SearchInv, TypeOK, Show, writing
<1>3. Bracket'
  BY NothingBracketed DEF Bracket, Show
<1>4. CapIsBetween'
  BY <1>1 DEF CapIsBetween
<1> QED BY <1>2, <1>3, <1>4 DEF SearchInv

\* What a probe's answer says of the cap.
LEMMA ProbeTells ==
  ASSUME SearchInv, NEW amount \in Nat, NEW r \in Reasons, Probe(amount, r)
  PROVE  /\ faults' \in 0..MaxFaults
         /\ r \in Within => policy.enabled /\ amount <= policy.cap
         /\ r = "amount" => policy.enabled /\ policy.cap < amount
<1>1. faults' \in 0..MaxFaults
  BY PolicyAssumption DEF SearchInv, TypeOK, Probe, Fault, NoFault
<1>2. CASE r = "unknown"
  BY <1>1, <1>2 DEF Within
<1>3. CASE r # "unknown"
  <2>1. policy.cap \in Nat
    <3>1. policy.cap \in Caps \cup {0}
      BY DEF SearchInv, TypeOK
    <3> QED BY <3>1, CapsAreNat
  <2>2. r = Objection(check.to, check.version, amount)
    BY <1>3 DEF Probe
  <2> QED BY <1>1, <2>1, <2>2 DEF Objection, Within
<1> QED BY <1>2, <1>3

LEMMA VerdictHolds == ASSUME SearchInv, Verdict PROVE SearchInv'
<1>1. /\ check.pc = "probe"
      /\ UNCHANGED <<panel, policy, known, typed, writing>>
  BY DEF Verdict
<1>2. PICK r \in Reasons :
        /\ Probe(1, r)
        /\ IF r \in Within
             THEN /\ check' = [check EXCEPT !.pc = "escalate", !.reason = r]
                  /\ UNCHANGED shown
             ELSE Show(r, NoCap)
  BY DEF Verdict
<1>3. faults' \in 0..MaxFaults
  BY <1>2, ProbeTells
<1>4. CASE r \in Within
  <2>1. /\ check' \in [pc : {"idle", "probe", "escalate", "halve"},
                to : Destinations \cup {"none"}, version : Versions \cup {0},
                reason : Reasons \cup {"none"}, low : Nat, high : Nat,
                next : Nat, caps : SUBSET Caps, same : BOOLEAN]
        /\ check'.pc = "escalate" /\ check'.reason = r /\ check'.low = check.low
        /\ check'.next = check.next /\ check'.caps = check.caps
    BY <1>2, <1>4 DEF SearchInv, TypeOK
  <2>2. TypeOK'
    BY <1>1, <1>2, <1>3, <1>4, <2>1 DEF SearchInv, TypeOK, writing
  <2>3. Bracket'
    BY <1>1, <1>4, <2>1 DEF SearchInv, Bracket, Within
  <2>4. CapIsBetween'
    BY <1>2, <1>4 DEF SearchInv, CapIsBetween
  <2> QED BY <2>2, <2>3, <2>4 DEF SearchInv
<1>5. CASE r \notin Within
  BY <1>1, <1>2, <1>3, <1>5, ShowKeeps DEF NoCap
<1> QED BY <1>4, <1>5

\* A search step keeps the bracket, if its bounds move only to an amount that
\* passed (below) or was refused (above).
LEMMA SearchKeeps ==
  ASSUME SearchInv, check.pc \in {"escalate", "halve"}, NEW amount \in Nat,
         NEW within, NEW above, Search(amount, within, above),
         \A b \in {within, above} :
           /\ b \in [pc : {"escalate", "halve"},
                to : Destinations \cup {"none"}, version : Versions \cup {0},
                reason : {check.reason}, low : Nat, high : Nat,
                next : Nat, caps : {check.caps}, same : BOOLEAN]
           /\ b.pc = "halve" => b.low < b.high
           /\ b.pc = "escalate" => b.low < b.next,
         within.low = amount, within.pc = check.pc, within.high = check.high,
         above.low = check.low, above.pc = "halve", above.high = amount
  PROVE  SearchInv'
<1>1. PICK r \in Reasons :
        /\ Probe(amount, r)
        /\ IF r \in Within THEN check' = within /\ UNCHANGED shown
           ELSE IF r = "amount" THEN check' = above /\ UNCHANGED shown
           ELSE Show(check.reason, NoCap)
  BY DEF Search
<1>2. UNCHANGED <<panel, policy, known, typed, writing>>
  BY DEF Search
<1>3. /\ faults' \in 0..MaxFaults
      /\ r \in Within => policy.enabled /\ amount <= policy.cap
      /\ r = "amount" => policy.enabled /\ policy.cap < amount
  BY <1>1, ProbeTells
<1>4. ASSUME check' \in {within, above}, UNCHANGED shown
      PROVE  TypeOK' /\ CapIsBetween'
  BY <1>2, <1>3, <1>4 DEF SearchInv, TypeOK, CapIsBetween, writing
<1>5. /\ policy.enabled => policy.cap \in check.caps
      /\ check.reason \in Within /\ check.reason \in Reasons
  BY DEF SearchInv, Bracket, Within, Reasons
<1>6. CASE r \in Within
  <2>1. check' = within /\ UNCHANGED shown
    BY <1>1, <1>6
  <2>2. Bracket'
    BY <1>2, <1>3, <1>5, <1>6, <2>1 DEF SearchInv, Bracket, Within
  <2> QED BY <1>4, <2>1, <2>2 DEF SearchInv
<1>7. CASE r = "amount"
  <2>1. check' = above /\ UNCHANGED shown
    BY <1>1, <1>7 DEF Within
  <2>2. Bracket'
    BY <1>2, <1>3, <1>5, <1>7, <2>1 DEF SearchInv, Bracket, Within
  <2> QED BY <1>4, <2>1, <2>2 DEF SearchInv
<1>8. CASE r \notin Within /\ r # "amount"
  BY <1>1, <1>2, <1>3, <1>5, <1>8, ShowKeeps DEF NoCap
<1> QED BY <1>6, <1>7, <1>8

LEMMA EscalateHolds == ASSUME SearchInv, Escalate PROVE SearchInv'
<1> DEFINE within == [check EXCEPT !.next = 10 * @, !.low = check.next]
           above == [check EXCEPT !.pc = "halve", !.high = check.next]
<1>1. check.pc = "escalate" /\ check.low < check.next
  BY DEF Escalate, SearchInv, Bracket
<1>2. Search(check.next, within, above)
  BY DEF Escalate
<1>3. /\ check \in [pc : {"idle", "probe", "escalate", "halve"},
                to : Destinations \cup {"none"}, version : Versions \cup {0},
                reason : Reasons \cup {"none"}, low : Nat, high : Nat,
                next : Nat, caps : SUBSET Caps, same : BOOLEAN]
      /\ check.next \in Nat /\ check.low \in Nat
  BY DEF SearchInv, TypeOK
<1>4. /\ within \in [pc : {"escalate", "halve"},
                to : Destinations \cup {"none"}, version : Versions \cup {0},
                reason : {check.reason}, low : Nat, high : Nat,
                next : Nat, caps : {check.caps}, same : BOOLEAN]
      /\ within.low = check.next /\ within.pc = check.pc /\ within.high = check.high
      /\ within.next = 10 * check.next
  <2>1. 10 * check.next \in Nat
    BY <1>3
  <2> QED BY <1>1, <1>3, <2>1
<1>5. /\ above \in [pc : {"escalate", "halve"},
                to : Destinations \cup {"none"}, version : Versions \cup {0},
                reason : {check.reason}, low : Nat, high : Nat,
                next : Nat, caps : {check.caps}, same : BOOLEAN]
      /\ above.low = check.low /\ above.pc = "halve" /\ above.high = check.next
  BY <1>1, <1>3
<1> HIDE DEF within, above
<1>6. within.low < within.next
  BY <1>1, <1>3, <1>4
<1> QED BY <1>1, <1>2, <1>3, <1>4, <1>5, <1>6, SearchKeeps

LEMMA HalveHolds == ASSUME SearchInv, Halve PROVE SearchInv'
<1> DEFINE within == [check EXCEPT !.low = Middle]
           above == [check EXCEPT !.high = Middle]
<1>1. check.pc = "halve" /\ check.high - check.low > 1
  BY DEF Halve
<1>2. Search(Middle, within, above)
  BY DEF Halve
<1>3. /\ check \in [pc : {"idle", "probe", "escalate", "halve"},
                to : Destinations \cup {"none"}, version : Versions \cup {0},
                reason : Reasons \cup {"none"}, low : Nat, high : Nat,
                next : Nat, caps : SUBSET Caps, same : BOOLEAN]
      /\ check.high \in Nat /\ check.low \in Nat
  BY DEF SearchInv, TypeOK
<1>4. Middle \in Nat /\ check.low < Middle /\ Middle < check.high
  BY <1>1, <1>3 DEF Middle
<1>5. /\ within \in [pc : {"escalate", "halve"},
                to : Destinations \cup {"none"}, version : Versions \cup {0},
                reason : {check.reason}, low : Nat, high : Nat,
                next : Nat, caps : {check.caps}, same : BOOLEAN]
      /\ within.low = Middle /\ within.pc = check.pc /\ within.high = check.high
  BY <1>1, <1>3, <1>4
<1>6. /\ above \in [pc : {"escalate", "halve"},
                to : Destinations \cup {"none"}, version : Versions \cup {0},
                reason : {check.reason}, low : Nat, high : Nat,
                next : Nat, caps : {check.caps}, same : BOOLEAN]
      /\ above.low = check.low /\ above.pc = "halve" /\ above.high = Middle
  BY <1>1, <1>3, <1>4
<1> HIDE DEF within, above
<1> QED BY <1>1, <1>2, <1>4, <1>5, <1>6, SearchKeeps

\* When nothing is left between the bounds, the lower one is a cap between
\* two the asset had: one was above it already, the other below the upper one.
LEMMA FoundHolds == ASSUME SearchInv, Found PROVE SearchInv'
<1>1. /\ check.pc = "halve" /\ check.high - check.low <= 1
      /\ NoFault /\ Show(check.reason, check.low)
      /\ UNCHANGED <<panel, policy, known, typed, writing>>
  BY DEF Found
<1>2. /\ check.low \in Nat /\ check.high \in Nat /\ check.low < check.high
      /\ check.caps \subseteq Nat /\ faults' \in 0..MaxFaults
  BY <1>1, CapsAreNat DEF SearchInv, TypeOK, NoFault
<1>3. /\ check.reason \in Reasons
      /\ check.low # 0 => \E c \in check.caps : check.low <= c
      /\ \E c \in check.caps : c < check.high
  BY <1>1 DEF SearchInv, Bracket, Within, Reasons
<1>4. \E c \in check.caps : c <= check.low
  BY <1>1, <1>2, <1>3
<1> QED BY <1>1, <1>2, <1>3, <1>4, ShowKeeps DEF NoCap

-----------------------------------------------------------------------------
(* The writes and the rest of the panel. *)

LEMMA OthersHold ==
  ASSUME SearchInv,
         \/ Refresh \/ Submit \/ Dismiss \/ Refused
         \/ \E change \in Changes : Stage(change)
         \/ \E to \in Destinations : Type(to)
         \/ \E j \in Jobs : Queue(j)
  PROVE  SearchInv'
<1> USE PolicyAssumption DEF SearchInv
<1>1. /\ UNCHANGED <<policy, check, shown>>
  BY DEF Refresh, Submit, Dismiss, Refused, Stage, Type, Queue, checking
<1>2. Bracket' /\ CapIsBetween'
  BY <1>1 DEF Bracket, CapIsBetween
<1>3. CASE Refresh
  <2>1. policy.version \in Versions /\ policy.version \in Nat
    BY DEF TypeOK, Versions
  <2> QED BY <1>3, <1>2, <2>1 DEF TypeOK, Refresh, writing
<1>4. CASE Submit
  <2>1. write' \in [pc : {"staged", "sent"}, change : Changes, counted : SUBSET Jobs,
                   then : [Jobs -> Versions \cup {0}], heard : BOOLEAN]
    BY <1>4 DEF TypeOK, Submit
  <2> QED BY <1>4, <1>2, <2>1 DEF TypeOK, Submit, checking
<1>5. CASE Dismiss
  BY <1>5, <1>2 DEF TypeOK, Dismiss, checking
<1>6. CASE Refused
  BY <1>6, <1>2 DEF TypeOK, Refused, checking
<1>7. CASE \E change \in Changes : Stage(change)
  <2>1. PICK change \in Changes : Stage(change)
    BY <1>7
  <2>2. PICK heard \in BOOLEAN :
          /\ IF heard THEN NoFault ELSE Fault
          /\ write' = [pc |-> "staged", change |-> change, then |-> pins, heard |-> heard,
                       counted |-> IF heard THEN Stranded(change, {j \in Jobs : pins[j] # 0})
                                   ELSE {}]
    BY <2>1 DEF Stage
  <2>3. Stranded(change, {j \in Jobs : pins[j] # 0}) \subseteq Jobs
    BY DEF Stranded
  <2>4. write' \in [pc : {"staged", "sent"}, change : Changes, counted : SUBSET Jobs,
                   then : [Jobs -> Versions \cup {0}], heard : BOOLEAN]
    BY <2>2, <2>3 DEF TypeOK
  <2>5. faults' \in 0..MaxFaults
    BY <2>2 DEF TypeOK, Fault, NoFault
  <2> QED BY <2>1, <2>4, <2>5, <1>2 DEF TypeOK, Stage, checking
<1>8. CASE \E to \in Destinations : Type(to)
  BY <1>8, <1>2 DEF TypeOK, Type, writing
<1>9. CASE \E j \in Jobs : Queue(j)
  <2>1. pins' \in [Jobs -> Versions \cup {0}]
    BY <1>9 DEF TypeOK, Queue
  <2> QED BY <1>9, <1>2, <2>1 DEF TypeOK, Queue, checking
<1> QED BY <1>3, <1>4, <1>5, <1>6, <1>7, <1>8, <1>9

LEMMA LandHolds == ASSUME SearchInv, Land PROVE SearchInv'
<1>1. write.change \in Changes
  <2>1. write # NoWrite /\ write \in [pc : {"staged", "sent"}, change : Changes,
          counted : SUBSET Jobs, then : [Jobs -> Versions \cup {0}], heard : BOOLEAN]
                                       \cup {NoWrite}
    BY DEF SearchInv, TypeOK, Land
  <2> QED BY <2>1
<1> QED BY <1>1, MakeKeeps DEF Land

LEMMA NextHolds == ASSUME SearchInv, [Next]_vars PROVE SearchInv'
<1>1. CASE \E change \in Changes : ChangeElsewhere(change)
  BY <1>1, MakeKeeps DEF ChangeElsewhere
<1>2. CASE Check
  BY <1>2, CheckHolds
<1>3. CASE Verdict
  BY <1>3, VerdictHolds
<1>4. CASE Escalate
  BY <1>4, EscalateHolds
<1>5. CASE Halve
  BY <1>5, HalveHolds
<1>6. CASE Found
  BY <1>6, FoundHolds
<1>7. CASE Land
  BY <1>7, LandHolds
<1>8. CASE UNCHANGED vars
  BY <1>8 DEF vars, SearchInv, TypeOK, Bracket, CapIsBetween
<1>9. CASE \/ Refresh \/ Submit \/ Dismiss \/ Refused
           \/ \E change \in Changes : Stage(change)
           \/ \E to \in Destinations : Type(to)
           \/ \E j \in Jobs : Queue(j)
  BY <1>9, OthersHold
<1> QED BY <1>1, <1>2, <1>3, <1>4, <1>5, <1>6, <1>7, <1>8, <1>9 DEF Next, Searching

-----------------------------------------------------------------------------
\* The inductive invariant of the panel: types, the search's bracket, and what
\* is shown.
THEOREM SearchInvariant == Spec => []SearchInv
<1>1. Init => SearchInv
  BY InitHolds
<1>2. SearchInv /\ [Next]_vars => SearchInv'
  BY NextHolds
<1> QED BY <1>1, <1>2, PTL DEF Spec

\* The panel's variables keep their types: a check that halves has room to.
THEOREM PanelTypeOK == Spec => []TypeOK
BY SearchInvariant, PTL DEF SearchInv

\* The cap the panel shows lies between caps the asset had while the check
\* ran, whatever admins set them and when (policyProbe.ts, findAmountCap).
THEOREM ShownCapIsBetween == Spec => []CapIsBetween
BY SearchInvariant, PTL DEF SearchInv

-----------------------------------------------------------------------------
(* A policy that stands still. *)

\* While the policy stands still, a check may find its one cap; once the first
\* probe has passed, only the amount can be objected to, and every amount that
\* was answered is an i128.
Still ==
  check.pc # "idle" /\ check.same =>
    /\ \A c \in check.caps : c = policy.cap
    /\ check.pc = "probe" => check.next = 1
    /\ check.pc \in {"escalate", "halve"} =>
         policy.enabled /\ policy.oper /\ policy.version = check.version
    /\ check.pc = "escalate" =>
         check.next = 1 \/ (check.next = 10 * check.low /\ check.low <= policy.cap)
    /\ check.pc = "halve" => check.high <= MaxAmount

FoundInv == Still /\ CapIsFound

CheckRecords ==
  [pc : {"idle", "probe", "escalate", "halve"},
   to : Destinations \cup {"none"}, version : Versions \cup {0},
   reason : Reasons \cup {"none"}, low : Nat, high : Nat,
   next : Nat, caps : SUBSET Caps, same : BOOLEAN]

LEMMA Amounts ==
  ASSUME TypeOK
  PROVE  /\ check \in CheckRecords /\ policy.cap \in Nat /\ faults \in Nat
         /\ check.low \in Nat /\ check.high \in Nat /\ check.next \in Nat
         /\ MaxAmount \in Nat /\ MaxAmount >= 1
<1>1. policy.cap \in Caps \cup {0} /\ check \in CheckRecords
  BY DEF TypeOK, CheckRecords
<1>2. check.low \in Nat /\ check.high \in Nat /\ check.next \in Nat
  BY <1>1 DEF CheckRecords
<1>3. faults \in Nat /\ MaxAmount \in Nat /\ MaxAmount >= 1
  BY PolicyAssumption DEF TypeOK
<1>4. policy.cap \in Nat
  BY <1>1, CapsAreNat
<1> QED BY <1>1, <1>2, <1>3, <1>4

\* A check that ends without a cap found none only above the i128s.
LEMMA EndsFound ==
  ASSUME NEW reason, NEW cap, Show(reason, cap),
         check.same /\ faults' = faults /\ reason \in {"allowed", "destination"} /\ cap = NoCap
           => \A c \in check.caps : 10 * c > MaxAmount
  PROVE  FoundInv'
<1>1. check'.pc = "idle"
  BY DEF Show, NotChecking
<1>2. /\ shown'.reason = reason /\ shown'.cap = cap /\ shown'.caps = check.caps
      /\ shown'.same = (check.same /\ faults' = faults)
  BY DEF Show
<1> QED BY <1>1, <1>2 DEF FoundInv, Still, CapIsFound

\* A change elsewhere ends the stillness, or is none.
LEMMA MakeFound ==
  ASSUME TypeOK, FoundInv, NEW change, Make(change), UNCHANGED shown PROVE FoundInv'
<1> DEFINE P == Changed(change)
<1>1. policy' = P /\ check' = Witnessed(P) /\ check \in CheckRecords
  BY Amounts DEF Make
<1> HIDE DEF P
<1>2. CapIsFound'
  BY DEF FoundInv, CapIsFound
<1>3. CASE check.pc = "idle"
  BY <1>1, <1>2, <1>3 DEF FoundInv, Still, Witnessed
<1>4. CASE check.pc # "idle"
  <2>1. check' = [check EXCEPT !.caps = IF P.enabled THEN @ \cup {P.cap} ELSE @,
                               !.same = @ /\ P = policy]
    BY <1>1, <1>4 DEF Witnessed
  <2>2. /\ check'.pc = check.pc /\ check'.next = check.next /\ check'.low = check.low
        /\ check'.high = check.high /\ check'.version = check.version
        /\ check'.caps \subseteq check.caps \cup {P.cap}
        /\ check'.same = (check.same /\ P = policy)
    BY <1>1, <2>1 DEF CheckRecords
  <2>3. Still'
    BY <1>1, <1>4, <2>2 DEF FoundInv, Still
  <2> QED BY <1>2, <2>3 DEF FoundInv
<1> QED BY <1>3, <1>4

LEMMA CheckFound == ASSUME TypeOK, FoundInv, Check PROVE FoundInv'
<1>1. /\ check'.pc = "probe" /\ check'.next = 1
      /\ check'.caps = IF policy.enabled THEN {policy.cap} ELSE {}
      /\ UNCHANGED policy
  BY DEF Check, NotChecking
<1>2. shown'.reason = "none"
  BY DEF Check, NotShown
<1> QED BY <1>1, <1>2 DEF FoundInv, Still, CapIsFound

LEMMA VerdictFound == ASSUME TypeOK, FoundInv, Verdict PROVE FoundInv'
<1>1. check.pc = "probe" /\ check \in CheckRecords /\ UNCHANGED policy
  BY Amounts DEF Verdict
<1>2. PICK r \in Reasons :
        /\ Probe(1, r)
        /\ IF r \in Within
             THEN /\ check' = [check EXCEPT !.pc = "escalate", !.reason = r]
                  /\ UNCHANGED shown
             ELSE Show(r, NoCap)
  BY DEF Verdict
<1>3. CASE r \in Within
  <2>1. /\ check'.pc = "escalate" /\ check'.next = check.next
        /\ check'.caps = check.caps /\ check'.same = check.same
        /\ check'.version = check.version
    BY <1>1, <1>2, <1>3 DEF CheckRecords
  <2>2. policy.enabled /\ policy.oper /\ policy.version = check.version
    BY <1>2, <1>3 DEF Probe, Objection, Within
  <2>3. Still'
    BY <1>1, <2>1, <2>2 DEF FoundInv, Still
  <2>4. CapIsFound'
    BY <1>2, <1>3 DEF FoundInv, CapIsFound
  <2> QED BY <2>3, <2>4 DEF FoundInv
<1>4. CASE r \notin Within
  BY <1>2, <1>4, EndsFound DEF Within
<1> QED BY <1>3, <1>4

\* Of a policy that stands still, a probe has no answer only if its amount is
\* no i128.
LEMMA StillAnswers ==
  ASSUME TypeOK, Still, check.pc \in {"escalate", "halve"}, check.same,
         NEW amount \in Nat, NEW r \in Reasons, Probe(amount, r)
  PROVE  \/ amount <= MaxAmount /\ r \in Within \cup {"amount"}
         \/ r = "unknown" /\ (faults' = faults => amount > MaxAmount)
<1>1. policy.enabled /\ policy.oper /\ policy.version = check.version
  BY DEF Still
<1>2. CASE amount <= MaxAmount /\ r = Objection(check.to, check.version, amount)
  BY <1>1, <1>2 DEF Objection, Within
<1>3. CASE r = "unknown" /\ IF amount > MaxAmount THEN NoFault ELSE Fault
  <2>1. Fault => faults' # faults
    BY Amounts DEF Fault
  <2> QED BY <1>3, <2>1
<1> QED BY <1>2, <1>3 DEF Probe

LEMMA EscalateFound == ASSUME TypeOK, FoundInv, Escalate PROVE FoundInv'
<1>1. /\ check.pc = "escalate" /\ check \in CheckRecords /\ UNCHANGED policy
      /\ check.next \in Nat /\ check.low \in Nat /\ policy.cap \in Nat
      /\ MaxAmount \in Nat /\ MaxAmount >= 1
  BY Amounts DEF Escalate, Search
<1>2. PICK r \in Reasons :
        /\ Probe(check.next, r)
        /\ IF r \in Within
             THEN check' = [check EXCEPT !.next = 10 * @, !.low = check.next] /\ UNCHANGED shown
           ELSE IF r = "amount"
             THEN check' = [check EXCEPT !.pc = "halve", !.high = check.next] /\ UNCHANGED shown
           ELSE Show(check.reason, NoCap)
  BY DEF Escalate, Search
<1>3. UNCHANGED shown => CapIsFound'
  BY DEF FoundInv, CapIsFound
<1>4. CASE r \in Within
  <2>1. /\ check'.pc = "escalate" /\ check'.next = 10 * check.next /\ check'.low = check.next
        /\ check'.caps = check.caps /\ check'.same = check.same
        /\ check'.version = check.version
    BY <1>1, <1>2, <1>4 DEF CheckRecords
  <2>2. check.next <= policy.cap
    BY <1>1, <1>2, <1>4 DEF Probe, Objection, Within
  <2>3. Still'
    BY <1>1, <2>1, <2>2 DEF FoundInv, Still
  <2> QED BY <1>2, <1>3, <1>4, <2>3 DEF FoundInv
<1>5. CASE r = "amount"
  <2>1. /\ check'.pc = "halve" /\ check'.high = check.next
        /\ check'.caps = check.caps /\ check'.same = check.same
        /\ check'.version = check.version
    BY <1>1, <1>2, <1>5 DEF CheckRecords, Within
  <2>2. check.same => check.next <= MaxAmount
    BY <1>1, <1>2, <1>5, StillAnswers DEF FoundInv
  <2>3. Still'
    BY <1>1, <2>1, <2>2 DEF FoundInv, Still
  <2> QED BY <1>2, <1>3, <1>5, <2>3 DEF FoundInv, Within
<1>6. CASE r \notin Within /\ r # "amount"
  <2>1. ASSUME check.same, faults' = faults, NEW c \in check.caps PROVE 10 * c > MaxAmount
    <3>1. check.next > MaxAmount
      BY <1>1, <1>2, <1>6, <2>1, StillAnswers DEF FoundInv
    <3>2. c = policy.cap /\ (check.next = 1 \/ (check.next = 10 * check.low /\ check.low <= policy.cap))
      BY <1>1, <2>1 DEF FoundInv, Still
    <3> QED BY <1>1, <3>1, <3>2
  <2> QED BY <1>2, <1>6, <2>1, EndsFound
<1> QED BY <1>4, <1>5, <1>6

LEMMA HalveFound == ASSUME TypeOK, FoundInv, Halve PROVE FoundInv'
<1>1. /\ check.pc = "halve" /\ check \in CheckRecords /\ UNCHANGED policy
      /\ check.high \in Nat /\ check.low \in Nat /\ MaxAmount \in Nat
      /\ check.high - check.low > 1
  BY Amounts DEF Halve, Search
<1>2. Middle \in Nat /\ Middle < check.high
  BY <1>1 DEF Middle
<1>3. PICK r \in Reasons :
        /\ Probe(Middle, r)
        /\ IF r \in Within THEN check' = [check EXCEPT !.low = Middle] /\ UNCHANGED shown
           ELSE IF r = "amount" THEN check' = [check EXCEPT !.high = Middle] /\ UNCHANGED shown
           ELSE Show(check.reason, NoCap)
  BY DEF Halve, Search
<1>4. CASE r \in Within \cup {"amount"}
  <2>1. /\ check'.pc = "halve" /\ check'.high \in {Middle, check.high}
        /\ check'.caps = check.caps /\ check'.same = check.same
        /\ check'.version = check.version /\ UNCHANGED shown
    BY <1>1, <1>3, <1>4 DEF CheckRecords
  <2>2. Still'
    BY <1>1, <1>2, <2>1 DEF FoundInv, Still
  <2> QED BY <2>1, <2>2 DEF FoundInv, CapIsFound
<1>5. CASE r \notin Within \cup {"amount"}
  <2>1. ~(check.same /\ faults' = faults)
    <3>1. check.same => check.high <= MaxAmount
      BY <1>1 DEF FoundInv, Still
    <3> QED BY <1>1, <1>2, <1>3, <1>5, <3>1, StillAnswers DEF FoundInv
  <2> QED BY <1>3, <1>5, <2>1, EndsFound
<1> QED BY <1>4, <1>5

\* A cap below the upper bound is positive: so is the lower bound, by then.
LEMMA FoundFound == ASSUME SearchInv, FoundInv, Found PROVE FoundInv'
<1>1. /\ check.pc = "halve" /\ check.high - check.low <= 1
      /\ Show(check.reason, check.low)
  BY DEF Found
<1>2. PICK c \in check.caps : c < check.high
  BY <1>1 DEF SearchInv, Bracket
<1>3. c \in Nat /\ c # 0 /\ check.low \in Nat /\ check.high \in Nat
  BY <1>2, Amounts, CapsAreNat DEF SearchInv, CheckRecords
<1>4. check.low # NoCap
  BY <1>1, <1>2, <1>3 DEF NoCap
<1> QED BY <1>1, <1>4, EndsFound

LEMMA NextFound == ASSUME SearchInv, FoundInv, [Next]_vars PROVE FoundInv'
<1>1. TypeOK
  BY DEF SearchInv
<1>2. ASSUME NEW change, Make(change), UNCHANGED shown PROVE FoundInv'
  BY <1>1, <1>2, MakeFound
<1>3. CASE (\E change \in Changes : ChangeElsewhere(change)) \/ Land
  BY <1>2, <1>3 DEF ChangeElsewhere, Land
<1>4. CASE Check \/ Searching
  BY <1>1, <1>4, CheckFound, VerdictFound, EscalateFound, HalveFound, FoundFound DEF Searching
<1>5. CASE \/ Refresh \/ Submit \/ Dismiss \/ Refused \/ UNCHANGED vars
           \/ \E change \in Changes : Stage(change)
           \/ \E to \in Destinations : Type(to)
           \/ \E j \in Jobs : Queue(j)
  <2>1. UNCHANGED <<policy, check, shown>>
    BY <1>5 DEF Refresh, Submit, Dismiss, Refused, Stage, Type, Queue, checking, vars
  <2> QED BY <2>1 DEF FoundInv, Still, CapIsFound
<1> QED BY <1>3, <1>4, <1>5 DEF Next

\* Of a policy that stands still while it is checked, and of requests that are
\* all answered, the search finds the cap, unless the power of ten above it is
\* no i128 (policyProbe.ts, findAmountCap).
THEOREM StillCapIsFound == Spec => []CapIsFound
<1>1. Init => FoundInv
  BY DEF Init, FoundInv, Still, CapIsFound, NotChecking, NotShown
<1>2. SearchInv /\ FoundInv /\ [Next]_vars => FoundInv'
  BY NextFound
<1> QED BY <1>1, <1>2, SearchInvariant, PTL DEF Spec, FoundInv

-----------------------------------------------------------------------------
(* The bump's warning. *)

\* The scheduled payments a staged bump counted are those it strands, of the
\* jobs there were; a job keeps the version it was queued with.
Counted ==
  write # NoWrite =>
    /\ \A j \in Jobs : write.then[j] # 0 => pins[j] = write.then[j]
    /\ write.heard =>
         \A j \in Jobs :
           write.then[j] # 0 /\ write.change.fn = "bump_version"
             /\ write.then[j] < write.change.next
           => j \in write.counted

LEMMA StageCounts == ASSUME NEW change \in Changes, Stage(change) PROVE Counted'
<1>1. PICK heard \in BOOLEAN :
        write' = [pc |-> "staged", change |-> change, then |-> pins, heard |-> heard,
                  counted |-> IF heard THEN Stranded(change, {j \in Jobs : pins[j] # 0})
                              ELSE {}]
  BY DEF Stage
<1>2. pins' = pins
  BY DEF Stage
<1> QED BY <1>1, <1>2 DEF Counted, Stranded

LEMMA CountedHolds == ASSUME TypeOK, Counted, [Next]_vars PROVE Counted'
<1>1. CASE \E change \in Changes : Stage(change)
  BY <1>1, StageCounts
<1>2. CASE Submit
  <2>1. write \in [pc : {"staged", "sent"}, change : Changes, counted : SUBSET Jobs,
                  then : [Jobs -> Versions \cup {0}], heard : BOOLEAN] /\ write # NoWrite
    BY <1>2 DEF TypeOK, Submit
  <2> QED BY <1>2, <2>1 DEF Counted, Submit
<1>3. CASE Dismiss \/ Refused \/ Land
  BY <1>3 DEF Counted, Dismiss, Refused, Land
<1>4. CASE \E j \in Jobs : Queue(j)
  <2>1. PICK j \in Jobs : Queue(j)
    BY <1>4
  <2>2. pins \in [Jobs -> Versions \cup {0}]
    BY DEF TypeOK
  <2> QED BY <2>1, <2>2 DEF Counted, Queue
<1>5. CASE UNCHANGED <<pins, write>>
  BY <1>5 DEF Counted
<1>6. CASE \/ \E change \in Changes : ChangeElsewhere(change)
           \/ Refresh \/ Check \/ Searching
           \/ \E to \in Destinations : Type(to)
  <2>1. UNCHANGED <<pins, write>>
    BY <1>6 DEF ChangeElsewhere, Refresh, Check, Searching, Verdict, Escalate, Halve, Found,
                Search, Type, writing
  <2> QED BY <1>5, <2>1
<1> QED BY <1>1, <1>2, <1>3, <1>4, <1>5, <1>6 DEF Next, vars

LEMMA BumpLands ==
  ASSUME TypeOK, Counted, [Next]_vars,
         write # NoWrite, write' = NoWrite, policy'.version # policy.version,
         NEW j \in Jobs, pins[j] \in 1..policy'.version - 1
  PROVE  j \in write.counted \/ write.then[j] = 0 \/ ~write.heard
<1>1. write \in [pc : {"staged", "sent"}, change : Changes, counted : SUBSET Jobs,
                then : [Jobs -> Versions \cup {0}], heard : BOOLEAN]
  BY DEF TypeOK
<1>2. Land
  <2>1. CASE \E change \in Changes : Stage(change)
    BY <2>1, <1>1 DEF Stage, NoWrite
  <2>2. CASE \/ \E change \in Changes : ChangeElsewhere(change)
             \/ Refresh \/ Check \/ Searching
             \/ \E to \in Destinations : Type(to)
             \/ \E i \in Jobs : Queue(i)
    BY <2>2 DEF ChangeElsewhere, Refresh, Check, Searching, Verdict, Escalate, Halve, Found,
                Search, Type, Queue, writing
  <2>3. CASE Submit \/ Dismiss \/ Refused
    BY <2>3 DEF Submit, Dismiss, Refused
  <2>4. CASE UNCHANGED vars
    BY <2>4 DEF vars
  <2> QED BY <2>1, <2>2, <2>3, <2>4 DEF Next
<1>3. policy' = Changed(write.change) /\ write.change \in Changes
  BY <1>1, <1>2 DEF Land, Make
<1>4. /\ write.change.fn = "bump_version" /\ write.change.next \in Versions
      /\ policy'.version = write.change.next
  <2>1. policy \in [cap : Caps \cup {0}, enabled : BOOLEAN, to : SUBSET Destinations,
                   oper : BOOLEAN, version : Versions]
    BY DEF TypeOK
  <2>2. CASE write.change \in Bumps
    BY <1>3, <2>1, <2>2 DEF Changed, Bumps
  <2>3. CASE write.change \in AssetRules
    BY <1>3, <2>1, <2>3 DEF Changed, AssetRules
  <2>4. CASE write.change \in RecipientRules
    BY <1>3, <2>1, <2>4 DEF Changed, RecipientRules
  <2>5. CASE write.change \in OperationRules
    BY <1>3, <2>1, <2>5 DEF Changed, OperationRules
  <2> QED BY <1>3, <2>2, <2>3, <2>4, <2>5 DEF Changes
<1>5. CASE write.then[j] # 0 /\ write.heard
  <2>1. pins[j] = write.then[j]
    BY <1>5 DEF Counted
  <2>2. write.change.next \in Nat
    BY <1>4, PolicyAssumption DEF Versions
  <2>3. write.then[j] < write.change.next
    BY <1>4, <2>1, <2>2
  <2> QED BY <1>4, <1>5, <2>3 DEF Counted
<1> QED BY <1>5

\* A bump that lands strands no scheduled payment its confirmation left out,
\* but one queued since, or one the relayer did not answer for
\* (policy-section.tsx and writeWarnings.ts).
THEOREM BumpsStrandTheCounted == Spec => StrandedAreCounted
<1>1. Init => Counted
  BY DEF Init, Counted
<1>2. TypeOK /\ Counted /\ [Next]_vars => Counted'
  BY CountedHolds
<1>3. TypeOK /\ Counted /\ [Next]_vars
        => [write # NoWrite /\ write' = NoWrite /\ policy'.version # policy.version =>
              \A j \in Jobs :
                pins[j] \in 1..policy'.version - 1 =>
                  j \in write.counted \/ write.then[j] = 0 \/ ~write.heard]_vars
  BY BumpLands
<1> QED BY <1>1, <1>2, <1>3, PanelTypeOK, PTL DEF Spec, StrandedAreCounted
=============================================================================
