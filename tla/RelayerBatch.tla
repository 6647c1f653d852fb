---------------------------- MODULE RelayerBatch ----------------------------
(***************************************************************************)
(* runDueRelayerJobs over all the jobs of the deployment: a batch lists    *)
(* the due jobs, most recently written first, keeps the first Limit of     *)
(* them and executes them one after the other; an exception from one job   *)
(* ends the batch.  Batches overlap: the schedule fires every minute and   *)
(* one batch may take five.                                                *)
(*                                                                         *)
(* A job's own run is module Relayer.  Here it is what the batch can tell  *)
(* of it: the claim, and the write or the exception that ends it.  All     *)
(* windows are open.  Time is the batches started: a lease of five minutes *)
(* sees LeaseRuns of them at least.                                        *)
(***************************************************************************)
EXTENDS Naturals, Sequences, FiniteSets, SequencesExt

CONSTANTS
  Jobs, Batches,
  Limit,       \* the limit parameter of runDueRelayerJobs
  OfDefault,   \* jobs of the treasury the deployment is configured with at first
  Stubborn,    \* jobs the chain refuses, every time
  LeaseRuns,   \* batches started while a lease lasts, at least
  MaxExec,     \* executions each job is queued for
  MaxFaults    \* bound: throws and refusals out of the ordinary

ASSUME BatchAssumption ==
  /\ Limit \in Nat \ {0} /\ MaxExec \in Nat \ {0}
  /\ LeaseRuns \in Nat /\ MaxFaults \in Nat
  /\ OfDefault \subseteq Jobs /\ Stubborn \subseteq Jobs

VARIABLES
  later,    \* <<j, k>>: of the queued jobs j and k, j has the later updatedAt
  state,    \* per job: "none", "due", "executing" (in its lease), "terminal"
  left,     \* per job: executions it still has
  todo,     \* per batch: the jobs it listed and has not finished
  claimed,  \* per batch: whether it has claimed the first of them
  waited,   \* per job: batches started since its last claim, up to LeaseRuns
  treasury, \* per job: where its treasury's contracts are found
  faults

vars == <<later, state, left, todo, claimed, waited, treasury, faults>>

Queued == {j \in Jobs : state[j] # "none"}

\* updatedAt orders the queued jobs.
Ordered ==
  /\ later \subseteq Queued \X Queued
  /\ \A j, k \in Queued :
       j # k => (<<j, k>> \in later <=> <<k, j>> \notin later)
  /\ \A j, k, l \in Queued :
       <<j, k>> \in later /\ <<k, l>> \in later => <<j, l>> \in later
  /\ \A j \in Queued : <<j, j>> \notin later

TypeOK ==
  /\ state \in [Jobs -> {"none", "due", "executing", "terminal"}]
  /\ left \in [Jobs -> 0..MaxExec]
  /\ Ordered
  /\ todo \in [Batches -> Seq(Jobs)]
  /\ \A b \in Batches : Len(todo[b]) <= Limit /\ IsInjective(todo[b])
  /\ claimed \in [Batches -> BOOLEAN]
  /\ waited \in [Jobs -> 0..LeaseRuns]
  /\ treasury \in [Jobs -> {"default", "registered", "nowhere"}]
  /\ faults \in 0..MaxFaults

Init ==
  /\ later = {}
  /\ state = [j \in Jobs |-> "none"]
  /\ left = [j \in Jobs |-> MaxExec]
  /\ todo = [b \in Batches |-> << >>]
  /\ claimed = [b \in Batches |-> FALSE]
  /\ waited = [j \in Jobs |-> 0]
  /\ treasury = [j \in Jobs |-> IF j \in OfDefault THEN "default" ELSE "registered"]
  /\ faults = 0

Due == {j \in Jobs : state[j] = "due"}
IsDue(j) == j \in Due

\* updatedAt = now
Touch(j) == later' = (later \ (Jobs \X {j})) \cup ({j} \X (Queued \ {j}))

\* resolveTreasuryContracts finds no treasury, and throws.
Unresolved(j) == treasury[j] = "nowhere"

\* readQueueableScheduledIntent, which resolves the treasury; createRelayerJob
Queue(j) ==
  /\ state[j] = "none" /\ ~Unresolved(j)
  /\ state' = [state EXCEPT ![j] = "due"]
  /\ Touch(j)
  /\ UNCHANGED <<left, todo, claimed, waited, treasury, faults>>

\* The batch's list: the due jobs, latest first, cut at n.
Listings(n) ==
  {due \in SeqOf(Due, n) :
     /\ \A i, k \in DOMAIN due : i < k => <<due[i], due[k]>> \in later
     /\ \A j \in Due \ Range(due) :
          Len(due) = n /\ \A i \in DOMAIN due : <<due[i], j>> \in later}

\* A batch starts: the leases go on.
Starts(b) ==
  /\ todo[b] = << >>
  /\ waited' = [j \in Jobs |-> IF state[j] = "executing" /\ waited[j] < LeaseRuns
                              THEN waited[j] + 1 ELSE waited[j]]
  /\ UNCHANGED <<later, state, left, claimed, treasury, faults>>

\* Mutant: the due jobs are not cut at the limit.
List_Uncut(b) ==
  /\ Starts(b)
  /\ \E due \in Listings(Cardinality(Jobs)) : todo' = [todo EXCEPT ![b] = due]

\* Mutant: the list drops its first job (slice(1, limit)).
List_NotTheLatest(b) ==
  /\ Starts(b)
  /\ \E due \in Listings(Limit) :
       todo' = [todo EXCEPT ![b] = IF due = << >> THEN << >> ELSE Tail(due)]

List(b) ==
  /\ Starts(b)
  /\ \E due \in Listings(Limit) : todo' = [todo EXCEPT ![b] = due]

Current(b) == Head(todo[b])

Working(b) == todo[b] # << >>

NextJob(b) == todo' = [todo EXCEPT ![b] = Tail(@)]

\* Mutant: the claim is made whatever the store holds.
Claim_Unconditional(b) ==
  /\ Working(b) /\ ~claimed[b] /\ ~Unresolved(Current(b))
  /\ state' = [state EXCEPT ![Current(b)] = "executing"]
  /\ claimed' = [claimed EXCEPT ![b] = TRUE]
  /\ waited' = [waited EXCEPT ![Current(b)] = 0]
  /\ Touch(Current(b))
  /\ UNCHANGED <<left, todo, treasury, faults>>

\* The claim of the batch's current job.
Claim(b) ==
  /\ Working(b) /\ ~claimed[b] /\ ~Unresolved(Current(b))
  /\ IsDue(Current(b))
  /\ state' = [state EXCEPT ![Current(b)] = "executing"]
  /\ claimed' = [claimed EXCEPT ![b] = TRUE]
  /\ waited' = [waited EXCEPT ![Current(b)] = 0]
  /\ Touch(Current(b))
  /\ UNCHANGED <<left, todo, treasury, faults>>

\* Another run has it, or has finished it, since the list was made.
LeaveAlone(b) ==
  /\ Working(b) /\ ~claimed[b] /\ ~Unresolved(Current(b))
  /\ ~IsDue(Current(b))
  /\ NextJob(b)
  /\ UNCHANGED <<later, state, left, claimed, waited, treasury, faults>>

\* recordExecution
Paid(b) ==
  /\ Working(b) /\ claimed[b] /\ Current(b) \notin Stubborn
  /\ LET j == Current(b) IN
     /\ left' = [left EXCEPT ![j] = @ - 1]
     /\ state' = [state EXCEPT ![j] = IF left[j] = 1 THEN "terminal" ELSE "due"]
     /\ Touch(j)
  /\ claimed' = [claimed EXCEPT ![b] = FALSE]
  /\ NextJob(b)
  /\ UNCHANGED <<waited, treasury, faults>>

\* failed or ready, recorded without an execution: due again at once.
PutOff(b) ==
  /\ Working(b) /\ claimed[b]
  /\ faults < MaxFaults /\ faults' = faults + 1
  /\ state' = [state EXCEPT ![Current(b)] = "due"]
  /\ claimed' = [claimed EXCEPT ![b] = FALSE]
  /\ Touch(Current(b)) /\ NextJob(b)
  /\ UNCHANGED <<left, waited, treasury>>

\* The loop has no catch: what one job throws ends the batch.
End(b) ==
  /\ todo' = [todo EXCEPT ![b] = << >>]
  /\ claimed' = [claimed EXCEPT ![b] = FALSE]
  /\ UNCHANGED <<later, state, left, waited, treasury>>

\* The treasury is not found: the run throws before its claim.
ThrowUnresolved(b) ==
  /\ Working(b) /\ ~claimed[b] /\ Unresolved(Current(b))
  /\ End(b) /\ UNCHANGED faults

\* The chain refuses the simulation: the run throws after its claim, and leaves
\* the job in its lease (Relayer, Refused).
Refused(b) ==
  /\ Working(b) /\ claimed[b] /\ Current(b) \in Stubborn
  /\ End(b) /\ UNCHANGED faults

\* A throw, a kill or the end of the function's time, at any job.
Throw(b) ==
  /\ Working(b)
  /\ faults < MaxFaults /\ faults' = faults + 1
  /\ End(b)

\* The lease outlives the batch that took it (Relayer, RunLife <= Lease), and
\* several starts of the schedule (five minutes, one start a minute).
LeaseExpires(j) ==
  /\ state[j] = "executing" /\ waited[j] = LeaseRuns
  /\ \A b \in Batches : claimed[b] => Current(b) # j
  /\ state' = [state EXCEPT ![j] = "due"]
  /\ UNCHANGED <<later, left, todo, claimed, waited, treasury, faults>>

\* The deployment is configured with another treasury: the one it had, which
\* nothing has registered, is found no longer.
Reconfigure ==
  /\ \E j \in Jobs : treasury[j] = "default"
  /\ treasury' = [j \in Jobs |-> IF treasury[j] = "default" THEN "nowhere" ELSE treasury[j]]
  /\ UNCHANGED <<later, state, left, todo, claimed, waited, faults>>

\* The treasury of such a job is registered.
Register(j) ==
  /\ Unresolved(j) /\ treasury' = [treasury EXCEPT ![j] = "registered"]
  /\ UNCHANGED <<later, state, left, todo, claimed, waited, faults>>

Step(b) ==
  \/ List(b) \/ Claim(b) \/ LeaveAlone(b) \/ Paid(b)
  \/ Refused(b) \/ ThrowUnresolved(b)

Next ==
  \/ Reconfigure
  \/ \E j \in Jobs : Queue(j) \/ LeaseExpires(j) \/ Register(j)
  \/ \E b \in Batches : Step(b) \/ PutOff(b) \/ Throw(b)

Spec == Init /\ [][Next]_vars

\* The schedule starts the next batch, a batch under way goes on, a lease
\* runs out.
FairSpec ==
  /\ Spec
  /\ \A b \in Batches : WF_vars(Step(b))
  /\ \A j \in Jobs : WF_vars(LeaseExpires(j))

\* And every treasury that is found no longer is registered in the end.
RegisteringSpec == FairSpec /\ \A j \in Jobs : WF_vars(Register(j))

-----------------------------------------------------------------------------
\* Two batches are never inside the same job.
OneBatchPerJob ==
  \A b, c \in Batches :
    b # c /\ claimed[b] /\ claimed[c] => Current(b) # Current(c)

\* A due job is taken up, though others are refused time and again and end the
\* batch each time, as long as their treasuries are found in the end: "runs
\* every queued job whose ledger window is open" (api/relayer/run/route.ts).
EveryDueJobRuns == \A j \in Jobs : IsDue(j) ~> ~IsDue(j)
=============================================================================
