---------------------------- MODULE PolicyConsole ----------------------------
(***************************************************************************)
(* The Policy panel.  policy_engine has no reads: what it allows is found  *)
(* by simulating validate_policy, one call at a time, while its admins go  *)
(* on changing it.  "Check this combination" probes once with the amount   *)
(* 1, then looks for the asset's cap by powers of ten and by halving.      *)
(*                                                                         *)
(* The panel also writes: staged with a count of the scheduled payments a  *)
(* version bump strands, confirmed, and signed as the source account.  To  *)
(* a check such a write is a change like another's, so an operator here    *)
(* does one or the other.                                                  *)
(***************************************************************************)
EXTENDS Naturals, FiniteSets

CONSTANTS
  Destinations,
  Caps,        \* the caps an admin sets
  MaxAmount,   \* the largest i128
  Jobs,        \* the relayer's jobs
  MaxVersion,  \* bound: policy versions
  MaxChanges,  \* bound: writes to the policy
  MaxFaults    \* bound: reads that fail

ASSUME PolicyAssumption ==
  /\ MaxAmount \in Nat \ {0} /\ Caps \subseteq 1..MaxAmount
  /\ MaxVersion \in Nat \ {0} /\ MaxChanges \in Nat /\ MaxFaults \in Nat

VARIABLES
  panel,   \* what the operator is doing: a check, or a write
  policy,  \* [cap, enabled, to, oper, version], as it is on chain
  known,   \* the version in the console's snapshot
  typed,   \* the destination in the field
  check,   \* the check under way
  shown,   \* the result the panel shows
  pins,    \* per job, the version its intent is pinned to; 0: not queued
  write,   \* the write under way
  changes, faults

vars == <<panel, policy, known, typed, check, shown, pins, write, changes, faults>>
checking == <<panel, known, typed, check, shown>>
writing == <<pins, write, changes>>

Versions == 1..MaxVersion
NoCap == 0

\* An asset that is enabled has a positive cap.
AssetRules ==
  [fn : {"set_asset_rule"}, enabled : {TRUE}, cap : Caps]
    \cup [fn : {"set_asset_rule"}, enabled : {FALSE}, cap : {0}]

RecipientRules == [fn : {"set_recipient_allowed"}, to : Destinations, allowed : BOOLEAN]
OperationRules == [fn : {"set_operation_allowed"}, allowed : BOOLEAN]
Bumps == [fn : {"bump_version"}, next : Versions]

Changes == AssetRules \cup RecipientRules \cup OperationRules \cup Bumps

NotChecking == [pc |-> "idle", to |-> "none", version |-> 0, reason |-> "none",
                low |-> 0, high |-> 0, next |-> 1, caps |-> {}, same |-> TRUE]
NotShown == [to |-> "none", reason |-> "none", cap |-> NoCap, caps |-> {}, same |-> TRUE]
NoWrite == [pc |-> "none"]
Reasons == {"allowed", "operation", "asset", "amount", "destination", "version", "unknown"}

TypeOK ==
  /\ panel \in {"check", "write"}
  /\ policy \in [cap : Caps \cup {0}, enabled : BOOLEAN, to : SUBSET Destinations,
                 oper : BOOLEAN, version : Versions]
  /\ policy.enabled => policy.cap # 0
  /\ known \in Versions /\ known <= policy.version
  /\ typed \in Destinations
  /\ check \in [pc : {"idle", "probe", "escalate", "halve"},
                to : Destinations \cup {"none"}, version : Versions \cup {0},
                reason : Reasons \cup {"none"}, low : Nat, high : Nat,
                next : Nat, caps : SUBSET Caps, same : BOOLEAN]
  /\ check.pc = "halve" => check.low < check.high
  /\ shown \in [to : Destinations \cup {"none"}, reason : Reasons \cup {"none"},
                cap : Nat, caps : SUBSET Caps, same : BOOLEAN]
  /\ pins \in [Jobs -> Versions \cup {0}]
  /\ write \in [pc : {"staged", "sent"}, change : Changes, counted : SUBSET Jobs,
                then : [Jobs -> Versions \cup {0}], heard : BOOLEAN] \cup {NoWrite}
  /\ changes \in 0..MaxChanges /\ faults \in 0..MaxFaults

Init ==
  /\ panel \in {"check", "write"}
  /\ policy \in [cap : Caps, enabled : {TRUE}, to : {{}, Destinations},
                 oper : {TRUE}, version : {1}]
  /\ known = 1 /\ typed \in Destinations
  /\ check = NotChecking /\ shown = NotShown
  /\ pins = [j \in Jobs |-> 0] /\ write = NoWrite
  /\ changes = 0 /\ faults = 0

Fault == faults < MaxFaults /\ faults' = faults + 1
NoFault == UNCHANGED faults

-----------------------------------------------------------------------------
(* The policy engine. *)

\* validate_policy: the first objection to a payment, the amount's before the
\* destination's.
Objection(to, version, amount) ==
  IF version # policy.version THEN "version"
  ELSE IF ~policy.oper THEN "operation"
  ELSE IF ~policy.enabled THEN "asset"
  ELSE IF amount > policy.cap THEN "amount"
  ELSE IF to \notin policy.to THEN "destination"
  ELSE "allowed"

Accepts(change) ==
  change.fn = "bump_version" => change.next > policy.version

\* A cap that has been in force since the check began is one it may find.
Witnessed(p) ==
  IF check.pc = "idle" THEN check
  ELSE [check EXCEPT !.caps = IF p.enabled THEN @ \cup {p.cap} ELSE @,
                     !.same = @ /\ p = policy]

Changed(change) ==
  CASE change.fn = "set_asset_rule" ->
         [policy EXCEPT !.enabled = change.enabled, !.cap = change.cap]
    [] change.fn = "set_recipient_allowed" ->
         [policy EXCEPT !.to = IF change.allowed THEN @ \cup {change.to} ELSE @ \ {change.to}]
    [] change.fn = "set_operation_allowed" -> [policy EXCEPT !.oper = change.allowed]
    [] change.fn = "bump_version"          -> [policy EXCEPT !.version = change.next]

Make(change) ==
  /\ Accepts(change) /\ changes < MaxChanges
  /\ policy' = Changed(change)
  /\ check' = Witnessed(policy')
  /\ changes' = changes + 1

\* Another admin, or another tab.
ChangeElsewhere(change) ==
  /\ Make(change)
  /\ UNCHANGED <<panel, known, typed, shown, pins, write, faults>>

-----------------------------------------------------------------------------
(* The check. *)

\* The snapshot is fetched every thirty seconds.
Refresh ==
  /\ known # policy.version /\ known' = policy.version
  /\ UNCHANGED <<panel, policy, typed, check, shown, writing, faults>>

Type(to) ==
  /\ panel = "check" /\ to # typed /\ typed' = to
  /\ UNCHANGED <<panel, policy, known, check, shown, writing, faults>>

\* The button is disabled while a check is under way, and its result gone.
Check ==
  /\ panel = "check" /\ check.pc = "idle"
  /\ check' = [NotChecking EXCEPT !.pc = "probe", !.to = typed, !.version = known,
                 !.caps = IF policy.enabled THEN {policy.cap} ELSE {}]
  /\ shown' = NotShown
  /\ UNCHANGED <<panel, policy, known, typed, writing, faults>>

\* probePolicy: what is said of an amount; an amount that is no i128, or a
\* request that fails, has an unknown reason.
Probe(amount, reason) ==
  \/ /\ reason = "unknown"
     /\ IF amount > MaxAmount THEN NoFault ELSE Fault
  \/ /\ amount <= MaxAmount
     /\ reason = Objection(check.to, check.version, amount) /\ NoFault

Show(reason, cap) ==
  /\ shown' = [to |-> check.to, reason |-> reason, cap |-> cap,
               caps |-> check.caps, same |-> check.same /\ faults' = faults]
  /\ check' = NotChecking

\* Mutant: a destination that is refused ends the search.
Within_AllowedOnly == {"allowed"}

\* The destination does not disturb the search.
Within == {"allowed", "destination"}

\* The first probe, of the amount 1.
Verdict ==
  /\ check.pc = "probe"
  /\ \E r \in Reasons :
       /\ Probe(1, r)
       /\ IF r \in Within
            THEN /\ check' = [check EXCEPT !.pc = "escalate", !.reason = r]
                 /\ UNCHANGED shown
            ELSE Show(r, NoCap)
  /\ UNCHANGED <<panel, policy, known, typed, writing>>

\* findAmountCap, each of its probes: within the cap, above it, or null.
Search(amount, within, above) ==
  /\ \E r \in Reasons :
       /\ Probe(amount, r)
       /\ IF r \in Within THEN check' = within /\ UNCHANGED shown
          ELSE IF r = "amount" THEN check' = above /\ UNCHANGED shown
          ELSE Show(check.reason, NoCap)
  /\ UNCHANGED <<panel, policy, known, typed, writing>>

\* By powers of ten: there are forty of them, and forty pass every i128.
Escalate ==
  /\ check.pc = "escalate"
  /\ Search(check.next,
            [check EXCEPT !.next = 10 * @, !.low = check.next],
            [check EXCEPT !.pc = "halve", !.high = check.next])

Middle == check.low + (check.high - check.low) \div 2

\* Mutant: what is accepted does not raise the lower bound.
Halve_KeepsLow ==
  /\ check.pc = "halve" /\ check.high - check.low > 1
  /\ Search(Middle, check, [check EXCEPT !.high = Middle])

Halve ==
  /\ check.pc = "halve" /\ check.high - check.low > 1
  /\ Search(Middle, [check EXCEPT !.low = Middle], [check EXCEPT !.high = Middle])

\* Mutant: the smallest amount that was refused is shown.
Found_High ==
  /\ check.pc = "halve" /\ check.high - check.low <= 1
  /\ NoFault /\ Show(check.reason, check.high)
  /\ UNCHANGED <<panel, policy, known, typed, writing>>

\* A cap of 0 is null, which NoCap is.
Found ==
  /\ check.pc = "halve" /\ check.high - check.low <= 1
  /\ NoFault /\ Show(check.reason, check.low)
  /\ UNCHANGED <<panel, policy, known, typed, writing>>

-----------------------------------------------------------------------------
(* The writes. *)

\* A scheduled payment is queued, pinned to the policy version.
Queue(j) ==
  /\ panel = "write" /\ pins[j] = 0 /\ pins' = [pins EXCEPT ![j] = policy.version]
  /\ UNCHANGED <<policy, checking, write, changes, faults>>

\* Mutant: the intents pinned below the current version are counted.
Stranded_Already(change, jobs) ==
  {j \in jobs : change.fn = "bump_version" /\ pins[j] < known}

\* The warning of collectWriteWarnings.
Stranded(change, jobs) ==
  {j \in jobs : change.fn = "bump_version" /\ pins[j] < change.next}

\* The buttons of the panel, with the validation of their drafts.
Drafted(change) == change.fn = "bump_version" => change.next > known

\* The simulation on the chain, the jobs with their versions; jobs
\* that cannot be read (no session, no network) are no jobs.
Stage(change) ==
  /\ panel = "write" /\ write = NoWrite /\ changes < MaxChanges
  /\ Drafted(change) /\ Accepts(change)
  /\ \E heard \in BOOLEAN :
       /\ IF heard THEN NoFault ELSE Fault
       /\ write' = [pc |-> "staged", change |-> change, then |-> pins, heard |-> heard,
                    counted |-> IF heard THEN Stranded(change, {j \in Jobs : pins[j] # 0})
                                ELSE {}]
  /\ UNCHANGED <<policy, checking, pins, changes>>

\* Sign and submit, as the source account.
Submit ==
  /\ write # NoWrite /\ write.pc = "staged"
  /\ write' = [write EXCEPT !.pc = "sent"]
  /\ UNCHANGED <<policy, checking, pins, changes, faults>>

Dismiss ==
  /\ write # NoWrite /\ write.pc = "staged" /\ write' = NoWrite
  /\ UNCHANGED <<policy, checking, pins, changes, faults>>

Land ==
  /\ write # NoWrite /\ write.pc = "sent"
  /\ Make(write.change) /\ write' = NoWrite
  /\ UNCHANGED <<panel, known, typed, shown, pins, faults>>

\* The signer is not the admin, or the write has been overtaken.
Refused ==
  /\ write # NoWrite /\ write.pc = "sent" /\ write' = NoWrite
  /\ UNCHANGED <<policy, checking, pins, changes, faults>>

Searching == Verdict \/ Escalate \/ Halve \/ Found

Next ==
  \/ \E change \in Changes : ChangeElsewhere(change) \/ Stage(change)
  \/ Refresh \/ Check \/ Searching \/ Submit \/ Dismiss \/ Land \/ Refused
  \/ \E to \in Destinations : Type(to)
  \/ \E j \in Jobs : Queue(j)

Spec == Init /\ [][Next]_vars

\* An answer, or its failure, comes to every request.
FairSpec == Spec /\ WF_vars(Searching)

-----------------------------------------------------------------------------
\* However the policy is changed while it is being probed, a cap that is shown
\* lies between caps the asset had during the check; if it had one, it is it.
CapIsBetween ==
  shown.cap # NoCap =>
    /\ \E c \in shown.caps : c <= shown.cap
    /\ \E c \in shown.caps : shown.cap <= c

\* A payment that passes, under a policy that stands still, has its cap found,
\* unless ten times the cap is no i128.
CapIsFound ==
  shown.same /\ shown.reason \in {"allowed", "destination"} /\ shown.cap = NoCap =>
    \A c \in shown.caps : 10 * c > MaxAmount

\* The search ends.
CheckEnds == check.pc # "idle" ~> check.pc = "idle"

\* When a bump lands, every scheduled payment it strands was counted in the
\* confirmation, but for those queued since and jobs that could not be read.
StrandedAreCounted ==
  [][write # NoWrite /\ write' = NoWrite /\ policy'.version # policy.version =>
       \A j \in Jobs :
         pins[j] \in 1..policy'.version - 1 =>
           j \in write.counted \/ write.then[j] = 0 \/ ~write.heard]_vars

\* "Checks exactly the combination currently typed": the verdict stands
\* beside the combination it was given for.
VerdictIsOfTheTyped == shown.reason # "none" => shown.to = typed
=============================================================================
