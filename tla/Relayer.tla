------------------------------ MODULE Relayer ------------------------------
(***************************************************************************)
(* One scheduled payment under the relayer: the job row the store keeps,   *)
(* the runs of executeRelayerJob that act on it (the scheduled batch and   *)
(* the console's Execute, on any number of serverless instances), the      *)
(* executor transactions they submit and the intent registry that accepts  *)
(* or refuses them.                                                        *)
(*                                                                         *)
(* A run is a process.  Between two of its awaits another run, the chain   *)
(* or the clock may move, so each action below is the code from one        *)
(* shared read or write to the next.  A store write is atomic here:        *)
(* module JobStore shows that the version-guarded loop behind it is.       *)
(***************************************************************************)
EXTENDS Integers, FiniteSets

CONSTANTS
  CronRuns,         \* runs of runDueRelayerJobs that can overlap
  ConsoleRuns,      \* runs of executeRelayerJobById that can overlap
  MaxExec,          \* max_executions of the intent, copied into the job
  Lease,            \* EXECUTING_LEASE_MS, in ticks
  TxTimeout,        \* setTimeout(120) of the executor transaction, in ticks
  RunLife,          \* maxDuration of a function instance, in ticks
  InterruptPoints,  \* the places where a run may throw or be killed
  StartWindows,     \* the ledger windows the intent may be queued in
  MayCancel,        \* whether the owner may cancel the intent
  MayClose,         \* whether the ledger may pass the end of the window
  RpcForgets,       \* whether an outcome may be out of the RPC's retention
  RpcDelays,        \* whether it may put a submission off, or outlast a poll
  MaxTx,            \* bound: executor transactions over the behaviour
  MaxFaults         \* bound: interruptions, refusals and delays

Runs == CronRuns \cup ConsoleRuns

NoTx == 0
Hashes == 1..MaxTx

Windows == {"before", "open", "closed"}
Statuses == {"none", "scheduled", "ready", "executing", "executed", "blocked",
             "failed"}

\* Where a run stands: the await it is about to resume from.
RunPoints == {"settle", "ledger", "intent", "child", "claim", "submit",
              "rejected", "sent", "poll", "write"}

\* The points between the claim and the write that records the hash.
Unrecorded == {"submit", "rejected", "sent"}

ASSUME RunsAssumption == IsFiniteSet(CronRuns) /\ IsFiniteSet(ConsoleRuns)

ASSUME BoundsAssumption ==
  /\ MaxExec \in Nat \ {0}
  /\ MaxTx \in Nat
  /\ MaxFaults \in Nat

\* jobStatus.ts: the lease is longer than anything a run can take, and a
\* transaction can no longer land once the lease it was sent under is over.
ASSUME TimingAssumption ==
  /\ TxTimeout \in Nat \ {0}
  /\ Lease \in Nat
  /\ RunLife \in Nat \ {0}
  /\ TxTimeout <= Lease
  /\ RunLife <= Lease

ASSUME EnvironmentAssumption ==
  /\ InterruptPoints \subseteq RunPoints
  /\ StartWindows \subseteq Windows
  /\ MayCancel \in BOOLEAN
  /\ MayClose \in BOOLEAN
  /\ RpcForgets \in BOOLEAN
  /\ RpcDelays \in BOOLEAN

VARIABLES
  row,        \* the row of relayer_jobs; status "none" before it is queued
  run,        \* per run: its point, its copy of the job, what it has learned
  txs,        \* per hash: the executor transaction as the network knows it
  window,     \* the latest ledger relative to the intent's ledger window
  cancelled,  \* the intent's cancelled flag
  consumed,   \* the children mark_child_executed has consumed
  faults      \* faults so far; bounds the behaviour

chain == <<window, cancelled, consumed>>
vars == <<row, run, txs, window, cancelled, consumed, faults>>

-----------------------------------------------------------------------------
(* Types. *)

Row == [child : Nat, count : Nat, status : Statuses, hash : Hashes \cup {NoTx},
        age : 0..Lease]

Ops == {"none", "limit", "early", "late", "cancelled", "advance", "record",
        "fail", "reject", "retry", "pending"}

\* child and full are the run's copy of the job; op is the write it has
\* decided on; seen is the execution count it read on chain; tx is the
\* transaction it follows; life is how long the instance has been running.
Run == [pc : RunPoints \cup {"idle"}, op : Ops, child : Nat, full : BOOLEAN,
        seen : Nat, tx : Hashes \cup {NoTx}, life : 0..RunLife]

Tx == [child : Nat, age : 0..TxTimeout,
       state : {"unused", "pending", "success", "failed", "gone"}]

IdleRun == [pc |-> "idle", op |-> "none", child |-> 0, full |-> FALSE,
            seen |-> 0, tx |-> NoTx, life |-> 0]

TypeOK ==
  /\ row \in Row
  /\ run \in [Runs -> Run]
  /\ txs \in [Hashes -> Tx]
  /\ window \in Windows
  /\ cancelled \in BOOLEAN
  /\ consumed \subseteq Nat /\ IsFiniteSet(consumed)
  /\ faults \in 0..MaxFaults

-----------------------------------------------------------------------------
(* jobStatus.ts *)

IsTerminal(job) == job.status \in {"blocked", "executed"}

\* Mutant: a lease shorter than the transaction timeout.
LeaseExpired_Short(job) == job.status = "executing" /\ job.age >= 1

LeaseExpired(job) == job.status = "executing" /\ job.age >= Lease

IsInFlight(job) == job.status = "executing" /\ ~LeaseExpired(job)

-----------------------------------------------------------------------------
(* The store.  Every write stamps updatedAt.                               *)

Stamped(job) == [job EXCEPT !.age = 0]

\* updateRelayerJob: the write is made whatever the row holds by now.
UpdateRelayerJob(job) == row' = Stamped(job)

\* Mutant: updateForChild without its child-sequence check.
UpdateForChild_Unguarded(r, job) == row' = Stamped(job)

\* updateForChild: the write is made only while the row still holds the
\* child the run acted on.
UpdateForChild(r, job) ==
  row' = IF row.child = run[r].child THEN Stamped(job) ELSE row

-----------------------------------------------------------------------------
(* The intent registry.                                                    *)

\* What mark_child_executed accepts: an open window, an intent that is not
\* cancelled and has executions left, a child not consumed before.
Executable(child) ==
  /\ window = "open"
  /\ ~cancelled
  /\ child \notin consumed
  /\ Cardinality(consumed) < MaxExec

-----------------------------------------------------------------------------
Init ==
  /\ row = [child |-> 0, count |-> 0, status |-> "none", hash |-> NoTx, age |-> 0]
  /\ run = [r \in Runs |-> IdleRun]
  /\ txs = [h \in Hashes |-> [child |-> 0, age |-> 0, state |-> "unused"]]
  /\ window \in StartWindows
  /\ cancelled = FALSE
  /\ consumed = {}
  /\ faults = 0

NewRow == [child |-> 1, count |-> 0, status |-> "scheduled", hash |-> NoTx,
           age |-> 0]

\* Mutant: queueing again replaces the job.
Queue_Upsert ==
  /\ ~cancelled
  /\ row' = NewRow
  /\ UNCHANGED <<run, txs, chain, faults>>

\* POST /api/relayer/jobs: refused for a cancelled intent; an insert that
\* finds the job already there leaves it as it is.
Queue ==
  /\ ~cancelled
  /\ row' = IF row.status = "none" THEN NewRow ELSE row
  /\ UNCHANGED <<run, txs, chain, faults>>

-----------------------------------------------------------------------------
(* A run of executeRelayerJob.                                             *)

Goto(r, point) == run' = [run EXCEPT ![r].pc = point]
DecideOn(r, op) == run' = [run EXCEPT ![r].pc = "write", ![r].op = op]
Finish(r) == run' = [run EXCEPT ![r] = IdleRun]

\* The run takes its copy of the job; a job that another run has in flight
\* is left alone.  A submission left behind by an interrupted run is settled
\* first.
Fetch(r) ==
  /\ run[r].pc = "idle"
  /\ row.status # "none"
  /\ ~IsInFlight(row)
  /\ LET interrupted == row.status = "executing" /\ row.hash # NoTx
     IN  run' = [run EXCEPT ![r] =
                  [IdleRun EXCEPT !.pc = IF interrupted THEN "settle" ELSE "ledger",
                                  !.child = row.child,
                                  !.full = row.count >= MaxExec,
                                  !.tx = IF interrupted THEN row.hash ELSE NoTx]]
  /\ UNCHANGED <<row, txs, chain, faults>>

\* Mutant: the batch lists only ready jobs and never takes one back.
IsDue_NeverExecuting(job) ==
  /\ ~IsTerminal(job)
  /\ job.status # "executing"
  /\ job.count < MaxExec
  /\ window = "open"

\* runDueRelayerJobs lists only the jobs that are due.
IsDue(job) ==
  /\ ~IsTerminal(job)
  /\ ~IsInFlight(job)
  /\ job.count < MaxExec
  /\ window = "open"

FetchDue(r) == r \in CronRuns /\ IsDue(row) /\ Fetch(r)

FetchById(r) == r \in ConsoleRuns /\ Fetch(r)

\* Mutant: a transaction the network knows counts as a payment.
OutcomeOf_AnyPays(h) == "record"

\* What getTransaction answers, once the network knows the outcome.
OutcomeOf(h) == CASE txs[h].state = "success" -> "record"
                  [] txs[h].state = "failed"  -> "fail"

IsKnown(h) == txs[h].state \in {"success", "failed"}

\* settleInterruptedSubmission with the outcome of the recorded hash.
SettleKnown(r) ==
  /\ run[r].pc = "settle"
  /\ IsKnown(run[r].tx)
  /\ DecideOn(r, OutcomeOf(run[r].tx))
  /\ UNCHANGED <<row, txs, chain, faults>>

\* NOT_FOUND: not included, or out of the RPC's retention window.
SettleUnknown(r) ==
  /\ run[r].pc = "settle"
  /\ ~IsKnown(run[r].tx) \/ RpcForgets
  /\ Goto(r, "ledger")
  /\ UNCHANGED <<row, txs, chain, faults>>

\* getLatestLedger, then the limit and window checks on the run's copy.
ReadLedger(r) ==
  /\ run[r].pc = "ledger"
  /\ \/ run[r].full /\ DecideOn(r, "limit")
     \/ ~run[r].full /\ window = "before" /\ DecideOn(r, "early")
     \/ ~run[r].full /\ window = "closed" /\ DecideOn(r, "late")
     \/ ~run[r].full /\ window = "open" /\ Goto(r, "intent")
  /\ UNCHANGED <<row, txs, chain, faults>>

\* readIntentState reads twice.  First the intent: its flag and its count.
ReadIntent(r) ==
  /\ run[r].pc = "intent"
  /\ run' = [run EXCEPT ![r] =
                [@ EXCEPT !.pc = "child", !.seen = Cardinality(consumed),
                          !.op = IF cancelled THEN "cancelled" ELSE "none"]]
  /\ UNCHANGED <<row, txs, chain, faults>>

\* Then is_child_executed, for the child of the run's copy.
ReadChild(r) ==
  /\ run[r].pc = "child"
  /\ \/ run[r].op = "cancelled" /\ Goto(r, "write")
     \/ run[r].op = "none" /\ run[r].child \in consumed /\ DecideOn(r, "advance")
     \/ run[r].op = "none" /\ run[r].child \notin consumed /\ Goto(r, "claim")
  /\ UNCHANGED <<row, txs, chain, faults>>

\* Mutant: the claim does not look for a run already in flight.
MayClaim_IgnoresInFlight(r) == ~IsTerminal(row) /\ row.child = run[r].child

MayClaim(r) == ~IsTerminal(row) /\ ~IsInFlight(row) /\ row.child = run[r].child

\* Mutant: the claim is an unconditional write.
Claim_Unconditional(r) ==
  /\ run[r].pc = "claim"
  /\ UpdateRelayerJob([row EXCEPT !.status = "executing"])
  /\ Goto(r, "submit")
  /\ UNCHANGED <<txs, chain, faults>>

\* The claim, decided on the row it replaces.  It keeps the row's txHash.
Claim(r) ==
  /\ run[r].pc = "claim"
  /\ \/ /\ MayClaim(r)
        /\ UpdateRelayerJob([row EXCEPT !.status = "executing"])
        /\ Goto(r, "submit")
     \/ ~MayClaim(r) /\ Finish(r) /\ UNCHANGED row
  /\ UNCHANGED <<txs, chain, faults>>

Sent(r, h, state) ==
  txs' = [txs EXCEPT ![h] = [child |-> run[r].child, age |-> 0, state |-> state]]

Follow(r, h, point, op) ==
  run' = [run EXCEPT ![r] = [@ EXCEPT !.pc = point, !.op = op, !.tx = h]]

\* prepareRelayerExecution simulates the call, then the transaction is sent
\* and the RPC takes it.
Submit(r, h) ==
  /\ run[r].pc = "submit"
  /\ Executable(run[r].child)
  /\ txs[h].state = "unused"
  /\ Sent(r, h, "pending")
  /\ Follow(r, h, "sent", "none")
  /\ UNCHANGED <<row, chain, faults>>

\* The simulation fails because the contract would refuse: the run throws.
Refused(r) ==
  /\ run[r].pc = "submit"
  /\ ~Executable(run[r].child)
  /\ Finish(r)
  /\ UNCHANGED <<row, txs, chain, faults>>

\* sendTransaction answers ERROR, TRY_AGAIN_LATER or DUPLICATE.  A duplicate
\* is a transaction the network already holds.
NotPending(r, h) ==
  /\ RpcDelays
  /\ run[r].pc = "submit"
  /\ Executable(run[r].child)
  /\ txs[h].state = "unused"
  /\ faults < MaxFaults
  /\ \/ Sent(r, h, "gone") /\ Follow(r, h, "rejected", "reject")
     \/ UNCHANGED txs /\ Follow(r, NoTx, "rejected", "retry")
     \/ Sent(r, h, "pending") /\ Follow(r, h, "rejected", "pending")
  /\ faults' = faults + 1
  /\ UNCHANGED <<row, chain>>

\* The hash is recorded before the poll starts.
RecordHash(r) ==
  /\ run[r].pc = "sent"
  /\ UpdateForChild(r, [row EXCEPT !.status = "executing", !.hash = run[r].tx])
  /\ Goto(r, "poll")
  /\ UNCHANGED <<txs, chain, faults>>

PollKnown(r) ==
  /\ run[r].pc = "poll"
  /\ IsKnown(run[r].tx)
  /\ DecideOn(r, OutcomeOf(run[r].tx))
  /\ UNCHANGED <<row, txs, chain, faults>>

\* Twenty polls of a transaction that can no longer land.
PollGone(r) ==
  /\ run[r].pc = "poll"
  /\ txs[run[r].tx].state = "gone"
  /\ DecideOn(r, "pending")
  /\ UNCHANGED <<row, txs, chain, faults>>

\* Twenty polls, thirty seconds: shorter than the transaction's validity.
PollTimeout(r) ==
  /\ RpcDelays
  /\ run[r].pc = "poll"
  /\ txs[run[r].tx].state = "pending"
  /\ faults < MaxFaults
  /\ DecideOn(r, "pending")
  /\ faults' = faults + 1
  /\ UNCHANGED <<row, txs, chain>>

-----------------------------------------------------------------------------
(* The writes that end a run.  The limit is the lower of the job's and the *)
(* intent's, and the job copies the intent's: both are MaxExec.            *)

\* Mutant: executed one execution early.
StatusAt_OneEarly(count) == IF count + 1 >= MaxExec THEN "executed" ELSE "ready"

StatusAt(count) == IF count >= MaxExec THEN "executed" ELSE "ready"

\* recordExecution
Recorded(h) ==
  [row EXCEPT !.child = @ + 1, !.count = @ + 1,
              !.status = StatusAt(row.count + 1), !.hash = h]

\* Mutant: a child found consumed adds to a count that is caught up as well.
Advanced_CountedTwice(seen) ==
  [row EXCEPT !.child = @ + 1, !.count = (IF seen > @ THEN seen ELSE @) + 1,
              !.status = StatusAt(seen)]

\* A child found consumed: the cursor moves, the count catches up.
Advanced(seen) ==
  [row EXCEPT !.child = @ + 1, !.count = IF seen > @ THEN seen ELSE @,
              !.status = StatusAt(seen)]

WriteUnconditional(r) ==
  LET w == run[r] IN
  \/ w.op \in {"limit", "late"} /\ UpdateRelayerJob([row EXCEPT !.status = "blocked"])
  \/ w.op = "early" /\ UpdateRelayerJob([row EXCEPT !.status = "scheduled"])
  \/ w.op = "cancelled"
     /\ UpdateRelayerJob([row EXCEPT !.status = "blocked", !.count = w.seen])

WriteForChild(r) ==
  LET w == run[r] IN
  \/ w.op = "advance" /\ UpdateForChild(r, Advanced(w.seen))
  \/ w.op = "record" /\ UpdateForChild(r, Recorded(w.tx))
  \/ w.op \in {"fail", "reject"}
     /\ UpdateForChild(r, [row EXCEPT !.status = "failed", !.hash = w.tx])
  \/ w.op = "retry" /\ UpdateForChild(r, [row EXCEPT !.status = "ready"])
  \/ w.op = "pending"
     /\ UpdateForChild(r, [row EXCEPT !.status = "ready", !.hash = w.tx])

Write(r) ==
  /\ run[r].pc \in {"write", "rejected"}
  /\ WriteUnconditional(r) \/ WriteForChild(r)
  /\ Finish(r)
  /\ UNCHANGED <<txs, chain, faults>>

-----------------------------------------------------------------------------
(* What the code does not control.                                         *)

\* A throw (an RPC or database error) or the death of the instance.
Interrupt(r) ==
  /\ run[r].pc \in InterruptPoints
  /\ faults < MaxFaults
  /\ Finish(r)
  /\ faults' = faults + 1
  /\ UNCHANGED <<row, txs, chain>>

\* A ledger includes a pending transaction and the registry decides.
Include(h) ==
  /\ txs[h].state = "pending"
  /\ \/ /\ Executable(txs[h].child)
        /\ txs' = [txs EXCEPT ![h].state = "success"]
        /\ consumed' = consumed \cup {txs[h].child}
     \/ /\ ~Executable(txs[h].child)
        /\ txs' = [txs EXCEPT ![h].state = "failed"]
        /\ UNCHANGED consumed
  /\ UNCHANGED <<row, run, window, cancelled, faults>>

\* The transaction fails for another reason: a policy, the balance.
IncludeFailed(h) ==
  /\ txs[h].state = "pending"
  /\ faults < MaxFaults
  /\ txs' = [txs EXCEPT ![h].state = "failed"]
  /\ faults' = faults + 1
  /\ UNCHANGED <<row, run, chain>>

OpenWindow ==
  /\ window = "before" /\ window' = "open"
  /\ UNCHANGED <<row, run, txs, cancelled, consumed, faults>>

CloseWindow ==
  /\ MayClose
  /\ window = "open" /\ window' = "closed"
  /\ UNCHANGED <<row, run, txs, cancelled, consumed, faults>>

Cancel ==
  /\ MayCancel
  /\ ~cancelled /\ cancelled' = TRUE
  /\ UNCHANGED <<row, run, txs, window, consumed, faults>>

\* Time.  Ages run only where the code or the network reads them: the row's
\* while it is executing, a transaction's while it is pending, a run's while
\* it is alive.
DyingRuns == {r \in Runs : run[r].pc # "idle" /\ run[r].life + 1 >= RunLife}
LapsingTxs == {h \in Hashes : txs[h].state = "pending" /\ txs[h].age + 1 >= TxTimeout}

AgedRow ==
  IF row.status = "executing" /\ row.age < Lease
  THEN [row EXCEPT !.age = @ + 1] ELSE row

AgedRun(r) ==
  IF r \in DyingRuns THEN IdleRun
  ELSE IF run[r].pc = "idle" THEN run[r]
  ELSE [run[r] EXCEPT !.life = @ + 1]

AgedTx(h) ==
  IF h \in LapsingTxs THEN [txs[h] EXCEPT !.state = "gone", !.age = 0]
  ELSE IF txs[h].state = "pending" THEN [txs[h] EXCEPT !.age = @ + 1]
  ELSE txs[h]

\* An instance that reaches RunLife is killed, a transaction that reaches
\* TxTimeout can no longer be included; both are faults.
Tick ==
  /\ \A r \in DyingRuns : run[r].pc \in InterruptPoints
  /\ faults' = faults + Cardinality(DyingRuns) + Cardinality(LapsingTxs)
  /\ faults' <= MaxFaults
  /\ row' = AgedRow
  /\ run' = [r \in Runs |-> AgedRun(r)]
  /\ txs' = [h \in Hashes |-> AgedTx(h)]
  /\ UNCHANGED chain

-----------------------------------------------------------------------------
\* The steps of a run that need nothing but the run itself.
RunStep(r) ==
  \/ SettleKnown(r) \/ SettleUnknown(r) \/ ReadLedger(r) \/ ReadIntent(r)
  \/ ReadChild(r) \/ Claim(r) \/ (\E h \in Hashes : Submit(r, h)) \/ Refused(r)
  \/ RecordHash(r) \/ PollKnown(r) \/ PollGone(r) \/ Write(r)

Next ==
  \/ Queue
  \/ \E r \in Runs :
       \/ FetchDue(r) \/ FetchById(r) \/ RunStep(r)
       \/ (\E h \in Hashes : NotPending(r, h))
       \/ PollTimeout(r) \/ Interrupt(r)
  \/ \E h \in Hashes : Include(h) \/ IncludeFailed(h)
  \/ OpenWindow \/ CloseWindow \/ Cancel \/ Tick

Spec == Init /\ [][Next]_vars

\* The schedule fires every minute, a live run takes its next step, ledgers
\* close and include what is pending, and time passes.  Nothing obliges a
\* user to press Execute, and no fault has to happen.
Fairness ==
  /\ \A r \in Runs : WF_vars(RunStep(r))
  /\ \A r \in CronRuns : WF_vars(FetchDue(r))
  /\ \A h \in Hashes : WF_vars(Include(h))
  /\ WF_vars(OpenWindow)
  /\ WF_vars(Tick)

FairSpec == Spec /\ Fairness

-----------------------------------------------------------------------------
(* Safety.                                                                 *)

\* The chain never consumes a child beyond the store's cursor: whatever
\* overlaps, fails or is refused, no execution is submitted early.
NeverPaidAhead == consumed \subseteq 1..row.child

\* A job whose lease is over holds no transaction that can still land, so
\* the run that takes it back settles a final outcome (EXECUTING_LEASE_MS
\* against setTimeout(120)).
LeaseOutlivesTransaction ==
  LeaseExpired(row) /\ row.hash # NoTx => txs[row.hash].state # "pending"

\* The cursor passes a child only once the chain has consumed it: no
\* execution of the schedule is silently skipped.
NoChildSkipped == \A c \in 1..MaxExec : c < row.child => c \in consumed

\* The store never counts an execution the chain has not made.
CountNotAhead == row.count <= Cardinality(consumed)

\* A job is reported executed only when the intent's executions are used up.
ExecutedOnlyWhenPaid ==
  row.status = "executed" => Cardinality(consumed) = MaxExec

Submitting(r) == run[r].pc \in Unrecorded \cup {"poll"}

\* Of the runs that overlap, one submits a child and sees it through.
OneRunSubmits ==
  \A r, s \in Runs :
    r # s /\ Submitting(r) /\ Submitting(s) => run[r].child # run[s].child

\* No child has two transactions that can still land.
OneLiveTransaction ==
  \A g, h \in Hashes :
    g # h /\ txs[g].state = "pending" /\ txs[h].state = "pending"
      => txs[g].child # txs[h].child

\* blocked and executed are states a job never leaves: no late outcome of an
\* overlapping run is written over them (isTerminalRelayerJob).
TerminalIsFinal == [][IsTerminal(row) => row'.status = row.status]_vars

-----------------------------------------------------------------------------
(* The relayer implements ScheduledPayments.                               *)

\* The executions of the schedule the cursor is past.
Passed == CASE row.child = 0         -> 0
            [] row.child \in 1..MaxExec -> row.child - 1
            [] OTHER                 -> MaxExec

Payments == INSTANCE ScheduledPayments
              WITH paid <- Cardinality(consumed), passed <- Passed,
                   done <- (row.status = "executed")

\* The chain pays the executions in order, each once, each only when the
\* store has come to it, and the store follows payment by payment, whatever
\* runs overlap, are lost and are repeated.
InLockstep == Payments!PaymentSpec

-----------------------------------------------------------------------------
(* Liveness.                                                               *)

\* A queued job is paid out in full, every execution of its schedule, and then
\* reported executed, whenever no child is skipped (NoChildSkipped; a run lost
\* before it records its hash may make the next one skip a child).
PaidOff ==
  []NoChildSkipped =>
    (row.status # "none") ~> (row.status = "executed" /\ consumed = 1..MaxExec)

\* A child the chain has consumed is passed by the cursor: whatever run was
\* lost on the way, a later one learns of the payment.
ConsumedIsPassed ==
  \A c \in 1..MaxExec : (c \in consumed) ~> (row.child > c)

\* A job an interrupted run left executing is taken back.
TakenBack == LeaseExpired(row) ~> ~LeaseExpired(row)
=============================================================================
