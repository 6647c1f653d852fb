---------------------------- MODULE RelayerProofs ---------------------------
(***************************************************************************)
(* What holds of a relayer job for any number of runs, executions and      *)
(* transactions, any lease not shorter than the transaction timeout, and   *)
(* every environment of module Relayer; then what holds of it where no run *)
(* is lost between its claim and the write that records its hash.          *)
(***************************************************************************)
EXTENDS Relayer, TLAPS, FiniteSetTheorems

\* Everything that names a child names one the store has reached, and a job
\* has a child once it is queued.  NeverPaidAhead alone is not inductive: the
\* child a transaction pays was copied from the row long before it is paid.
ChildInv ==
  /\ row.status = "none" => row.child = 0
  /\ row.status # "none" => row.child >= 1
  /\ \A r \in Runs : run[r].child <= row.child
  /\ \A r \in Runs : run[r].pc # "idle" => run[r].child >= 1
  /\ \A h \in Hashes : txs[h].state # "unused" => txs[h].child \in 1..row.child
  /\ NeverPaidAhead

\* A recorded hash is one that was sent, and the row that records a pending
\* transaction was stamped no earlier than the transaction was sent.
LeaseInv ==
  /\ \A h \in Hashes : txs[h].state = "pending" => txs[h].age < TxTimeout
  /\ row.hash # NoTx => txs[row.hash].state # "unused"
  /\ \A r \in Runs : run[r].tx # NoTx => txs[run[r].tx].state # "unused"
  /\ row.status = "executing" /\ row.hash # NoTx /\ txs[row.hash].state = "pending"
       => row.age <= txs[row.hash].age

-----------------------------------------------------------------------------
(* The shape of a step.                                                    *)

\* Every step is one of the actions.
LEMMA StepCases ==
  ASSUME Next
  PROVE  \/ Queue
         \/ \E r \in Runs :
              \/ Fetch(r) \/ SettleKnown(r) \/ SettleUnknown(r)
              \/ ReadLedger(r) \/ ReadIntent(r) \/ ReadChild(r) \/ Claim(r)
              \/ (\E h \in Hashes : Submit(r, h) \/ NotPending(r, h))
              \/ Refused(r) \/ RecordHash(r) \/ PollKnown(r) \/ PollGone(r)
              \/ PollTimeout(r) \/ Write(r) \/ Interrupt(r)
         \/ \E h \in Hashes : Include(h) \/ IncludeFailed(h)
         \/ OpenWindow \/ CloseWindow \/ Cancel \/ Tick
  BY DEF Next, RunStep, FetchDue, FetchById

\* The constants are numbers the actions can compute with.
LEMMA Numbers ==
  /\ MaxExec \in Nat /\ MaxTx \in Nat /\ MaxFaults \in Nat
  /\ TxTimeout \in Nat /\ Lease \in Nat /\ RunLife \in Nat
  /\ 0 \in 0..Lease /\ 0 \in 0..TxTimeout /\ 0 \in 0..RunLife
  /\ Hashes \subseteq Nat /\ NoTx \notin Hashes
  BY BoundsAssumption, TimingAssumption DEF Hashes, NoTx

\* A run that ends leaves nothing behind in its process.
LEMMA IdleRunType == IdleRun \in Run
  BY Numbers DEF IdleRun, Run, Ops, NoTx

\* updateForChild writes a job or leaves the row.
LEMMA UpdateForChildType ==
  ASSUME row \in Row, NEW r \in Runs, NEW job \in Row, UpdateForChild(r, job)
  PROVE  row' \in Row
  BY Numbers DEF UpdateForChild, Stamped, Row

\* updateRelayerJob writes a job.
LEMMA UpdateRelayerJobType ==
  ASSUME NEW job \in Row, UpdateRelayerJob(job)
  PROVE  row' \in Row
  BY Numbers DEF UpdateRelayerJob, Stamped, Row

\* Moving a run from one await to the next keeps its state well formed.
LEMMA GotoType ==
  ASSUME run \in [Runs -> Run], NEW r \in Runs, NEW point \in RunPoints,
         Goto(r, point)
  PROVE  run' \in [Runs -> Run]
  BY DEF Goto, Run

LEMMA FollowType ==
  ASSUME run \in [Runs -> Run], NEW r \in Runs, NEW point \in RunPoints,
         NEW op \in Ops, NEW h \in Hashes \cup {NoTx}, Follow(r, h, point, op)
  PROVE  run' \in [Runs -> Run]
  BY DEF Follow, Run

LEMMA DecideOnType ==
  ASSUME run \in [Runs -> Run], NEW r \in Runs, NEW op \in Ops, DecideOn(r, op)
  PROVE  run' \in [Runs -> Run]
<1>1. "write" \in RunPoints
  BY DEF RunPoints
<1>2. QED
  BY <1>1 DEF DecideOn, Run

LEMMA FinishType ==
  ASSUME run \in [Runs -> Run], NEW r \in Runs, Finish(r)
  PROVE  run' \in [Runs -> Run]
  BY IdleRunType DEF Finish

-----------------------------------------------------------------------------
(* Type correctness.                                                       *)

\* Sending a transaction records it well formed.
LEMMA SentType ==
  ASSUME TypeOK, NEW r \in Runs, NEW h \in Hashes,
         NEW state \in {"pending", "gone"}, Sent(r, h, state)
  PROVE  txs' \in [Hashes -> Tx]
<1>1. run[r].child \in Nat
  BY DEF TypeOK, Run
<1>2. [child |-> run[r].child, age |-> 0, state |-> state] \in Tx
  BY <1>1, Numbers DEF Tx
<1>3. QED
  BY <1>2 DEF Sent, TypeOK

\* The network's verdict on a transaction is one of the writes of a run.
LEMMA OutcomeType ==
  ASSUME NEW h, IsKnown(h)
  PROVE  OutcomeOf(h) \in {"record", "fail"}
  BY DEF IsKnown, OutcomeOf

\* The jobs the final writes make are jobs.
LEMMA WrittenType ==
  ASSUME row \in Row, NEW seen \in Nat, NEW h \in Hashes \cup {NoTx}
  PROVE  /\ Advanced(seen) \in Row
         /\ Recorded(h) \in Row
<1>1. \A n \in Nat : StatusAt(n) \in Statuses
  BY DEF StatusAt, Statuses
<1>2. row.count + 1 \in Nat /\ row.child + 1 \in Nat
  BY DEF Row
<1>3. (IF seen > row.count THEN seen ELSE row.count) \in Nat
  BY DEF Row
<1>4. Advanced(seen) \in Row
  BY <1>1, <1>2, <1>3 DEF Advanced, Row
<1>5. Recorded(h) \in Row
  BY <1>1, <1>2 DEF Recorded, Row
<1>6. QED
  BY <1>4, <1>5

\* Of the final writes, each leaves a job in the row.
LEMMA WriteType ==
  ASSUME TypeOK, NEW r \in Runs, WriteUnconditional(r) \/ WriteForChild(r)
  PROVE  row' \in Row
<1> USE DEF TypeOK
<1>1. run[r].seen \in Nat /\ run[r].tx \in Hashes \cup {NoTx}
  BY DEF Run
<1>2. ASSUME NEW s \in Statuses
      PROVE  /\ [row EXCEPT !.status = s] \in Row
             /\ [row EXCEPT !.status = s, !.hash = run[r].tx] \in Row
             /\ [row EXCEPT !.status = s, !.count = run[r].seen] \in Row
  BY <1>1 DEF Row
<1>3. {"blocked", "scheduled", "failed", "ready"} \subseteq Statuses
  BY DEF Statuses
<1>4. CASE WriteUnconditional(r)
  BY <1>2, <1>3, <1>4, UpdateRelayerJobType DEF WriteUnconditional
<1>5. CASE WriteForChild(r)
  <2>1. Advanced(run[r].seen) \in Row /\ Recorded(run[r].tx) \in Row
    BY <1>1, WrittenType
  <2>2. QED
    BY <1>2, <1>3, <1>5, <2>1, UpdateForChildType DEF WriteForChild
<1>6. QED
  BY <1>4, <1>5

\* The clock counts at most MaxFaults faults and no age beyond its bound.
LEMMA TickType ==
  ASSUME TypeOK, Tick
  PROVE  TypeOK'
<1>1. row' \in Row
  BY Numbers DEF TypeOK, Tick, AgedRow, Row
<1>2. ASSUME NEW r \in Runs PROVE AgedRun(r) \in Run
  <2>1. run[r] \in Run
    BY DEF TypeOK
  <2>2. CASE r \in DyingRuns \/ run[r].pc = "idle"
    BY <2>1, <2>2, IdleRunType DEF AgedRun
  <2>3. CASE r \notin DyingRuns /\ run[r].pc # "idle"
    <3>1. run[r].life + 1 < RunLife /\ run[r].life + 1 \in 0..RunLife
      BY <2>1, <2>3, Numbers DEF DyingRuns, Run
    <3>2. QED
      BY <2>1, <2>3, <3>1 DEF AgedRun, Run
  <2>4. QED
    BY <2>2, <2>3
<1>3. ASSUME NEW h \in Hashes PROVE AgedTx(h) \in Tx
  <2>1. txs[h] \in Tx
    BY DEF TypeOK
  <2>2. CASE h \in LapsingTxs
    BY <2>1, <2>2, Numbers DEF AgedTx, Tx
  <2>3. CASE h \notin LapsingTxs /\ txs[h].state = "pending"
    <3>1. txs[h].age + 1 < TxTimeout /\ txs[h].age + 1 \in 0..TxTimeout
      BY <2>1, <2>3, Numbers DEF LapsingTxs, Tx
    <3>2. QED
      BY <2>1, <2>3, <3>1 DEF AgedTx, Tx
  <2>4. CASE h \notin LapsingTxs /\ txs[h].state # "pending"
    BY <2>1, <2>4 DEF AgedTx
  <2>5. QED
    BY <2>2, <2>3, <2>4
<1>4. faults' \in 0..MaxFaults
  <2>1. IsFiniteSet(Runs) /\ IsFiniteSet(Hashes)
    <3>1. IsFiniteSet(Runs)
      BY RunsAssumption, FS_Union DEF Runs
    <3>2. 1 \in Int /\ MaxTx \in Int
      BY Numbers
    <3>3. IsFiniteSet(Hashes)
      BY <3>2, FS_Interval DEF Hashes
    <3>4. QED
      BY <3>1, <3>3
  <2>2. DyingRuns \subseteq Runs /\ LapsingTxs \subseteq Hashes
    BY DEF DyingRuns, LapsingTxs
  <2>3. Cardinality(DyingRuns) \in Nat /\ Cardinality(LapsingTxs) \in Nat
    BY <2>1, <2>2, FS_Subset, FS_CardinalityType
  <2>4. QED
    BY <2>3, Numbers DEF TypeOK, Tick
<1>5. QED
  BY <1>1, <1>2, <1>3, <1>4 DEF Tick, TypeOK, chain

\* Type correctness is preserved by every step.
LEMMA TypeStep == TypeOK /\ [Next]_vars => TypeOK'
<1> SUFFICES ASSUME TypeOK, [Next]_vars PROVE TypeOK'
  OBVIOUS
<1> USE DEF chain
<1>a. /\ row \in Row /\ run \in [Runs -> Run] /\ txs \in [Hashes -> Tx]
      /\ window \in Windows /\ cancelled \in BOOLEAN
      /\ consumed \subseteq Nat /\ IsFiniteSet(consumed)
      /\ faults \in 0..MaxFaults
  BY DEF TypeOK
<1>1. CASE Queue
  <2>1. NewRow \in Row
    BY Numbers DEF NewRow, Row, Statuses, NoTx
  <2>2. QED
    BY <1>1, <1>a, <2>1 DEF Queue, TypeOK
<1>2. ASSUME NEW r \in Runs, Fetch(r) PROVE TypeOK'
  <2>1. row.child \in Nat /\ row.hash \in Hashes \cup {NoTx}
        /\ (row.count >= MaxExec) \in BOOLEAN
    BY <1>a DEF Row
  <2>2. ASSUME NEW p \in RunPoints, NEW b \in BOOLEAN, NEW h \in Hashes \cup {NoTx}
        PROVE  [IdleRun EXCEPT !.pc = p, !.child = row.child, !.full = b,
                               !.tx = h] \in Run
    BY <2>1, IdleRunType DEF Run
  <2>3. {"settle", "ledger"} \subseteq RunPoints
    BY DEF RunPoints
  <2>4. run' \in [Runs -> Run]
    BY <1>2, <1>a, <2>1, <2>2, <2>3 DEF Fetch
  <2>5. QED
    BY <1>2, <1>a, <2>4 DEF Fetch, TypeOK
<1>3. ASSUME NEW r \in Runs,
             SettleKnown(r) \/ SettleUnknown(r) \/ PollKnown(r) \/ PollGone(r)
      PROVE  TypeOK'
  <2>1. /\ "ledger" \in RunPoints
        /\ {"record", "fail", "pending"} \subseteq Ops
    BY DEF RunPoints, Ops
  <2>2. run' \in [Runs -> Run]
    BY <1>3, <1>a, <2>1, OutcomeType, GotoType, DecideOnType
    DEF SettleKnown, SettleUnknown, PollKnown, PollGone
  <2>3. QED
    BY <1>3, <1>a, <2>2 DEF SettleKnown, SettleUnknown, PollKnown, PollGone, TypeOK
<1>4. ASSUME NEW r \in Runs, ReadLedger(r) PROVE TypeOK'
  <2>1. "intent" \in RunPoints /\ {"limit", "early", "late"} \subseteq Ops
    BY DEF RunPoints, Ops
  <2>2. run' \in [Runs -> Run]
    BY <1>4, <1>a, <2>1, GotoType, DecideOnType DEF ReadLedger
  <2>3. QED
    BY <1>4, <1>a, <2>2 DEF ReadLedger, TypeOK
<1>5. ASSUME NEW r \in Runs, ReadIntent(r) PROVE TypeOK'
  <2>1. Cardinality(consumed) \in Nat
    BY <1>a, FS_CardinalityType
  <2>2. ASSUME NEW op \in {"cancelled", "none"}
        PROVE  [run[r] EXCEPT !.pc = "child", !.seen = Cardinality(consumed),
                              !.op = op] \in Run
    BY <1>a, <2>1 DEF Run, RunPoints, Ops
  <2>3. run' \in [Runs -> Run]
    BY <1>5, <1>a, <2>2 DEF ReadIntent
  <2>4. QED
    BY <1>5, <1>a, <2>3 DEF ReadIntent, TypeOK
<1>6. ASSUME NEW r \in Runs, ReadChild(r) PROVE TypeOK'
  <2>1. {"write", "claim"} \subseteq RunPoints /\ "advance" \in Ops
    BY DEF RunPoints, Ops
  <2>2. run' \in [Runs -> Run]
    BY <1>6, <1>a, <2>1, GotoType, DecideOnType DEF ReadChild
  <2>3. QED
    BY <1>6, <1>a, <2>2 DEF ReadChild, TypeOK
<1>7. ASSUME NEW r \in Runs, Claim(r) PROVE TypeOK'
  <2>1. "submit" \in RunPoints /\ [row EXCEPT !.status = "executing"] \in Row
    BY <1>a DEF RunPoints, Row, Statuses
  <2>2. row' \in Row
    BY <1>7, <1>a, <2>1, UpdateRelayerJobType DEF Claim
  <2>3. run' \in [Runs -> Run]
    BY <1>7, <1>a, <2>1, GotoType, FinishType DEF Claim
  <2>4. QED
    BY <1>7, <1>a, <2>2, <2>3 DEF Claim, TypeOK
<1>8. ASSUME NEW r \in Runs, NEW h \in Hashes, Submit(r, h) PROVE TypeOK'
  <2>1. "sent" \in RunPoints /\ "none" \in Ops
    BY DEF RunPoints, Ops
  <2>2. run' \in [Runs -> Run] /\ txs' \in [Hashes -> Tx]
    BY <1>8, <1>a, <2>1, FollowType, SentType DEF Submit
  <2>3. QED
    BY <1>8, <1>a, <2>2 DEF Submit, TypeOK
<1>9. ASSUME NEW r \in Runs, NEW h \in Hashes, NotPending(r, h) PROVE TypeOK'
  <2>1. "rejected" \in RunPoints /\ {"reject", "retry", "pending"} \subseteq Ops
    BY DEF RunPoints, Ops
  <2>2. run' \in [Runs -> Run]
    BY <1>9, <1>a, <2>1, FollowType DEF NotPending
  <2>3. txs' \in [Hashes -> Tx]
    BY <1>9, <1>a, SentType DEF NotPending
  <2>4. faults' \in 0..MaxFaults
    BY <1>9, <1>a, Numbers DEF NotPending
  <2>5. QED
    BY <1>9, <1>a, <2>2, <2>3, <2>4 DEF NotPending, TypeOK
<1>10. ASSUME NEW r \in Runs, RecordHash(r) PROVE TypeOK'
  <2>1. run[r].tx \in Hashes \cup {NoTx} /\ "poll" \in RunPoints
    BY <1>a DEF Run, RunPoints
  <2>2. [row EXCEPT !.status = "executing", !.hash = run[r].tx] \in Row
    BY <1>a, <2>1 DEF Row, Statuses
  <2>3. row' \in Row /\ run' \in [Runs -> Run]
    BY <1>10, <1>a, <2>1, <2>2, UpdateForChildType, GotoType DEF RecordHash
  <2>4. QED
    BY <1>10, <1>a, <2>3 DEF RecordHash, TypeOK
<1>11. ASSUME NEW r \in Runs, Refused(r) PROVE TypeOK'
  BY <1>11, <1>a, FinishType DEF Refused, TypeOK
<1>12. ASSUME NEW r \in Runs, PollTimeout(r) \/ Interrupt(r) PROVE TypeOK'
  <2>1. "pending" \in Ops
    BY DEF Ops
  <2>2. run' \in [Runs -> Run]
    BY <1>12, <1>a, <2>1, DecideOnType, FinishType DEF PollTimeout, Interrupt
  <2>3. faults' \in 0..MaxFaults
    BY <1>12, <1>a, Numbers DEF PollTimeout, Interrupt
  <2>4. QED
    BY <1>12, <1>a, <2>2, <2>3 DEF PollTimeout, Interrupt, TypeOK
<1>13. ASSUME NEW r \in Runs, Write(r) PROVE TypeOK'
  BY <1>13, <1>a, WriteType, FinishType DEF Write, TypeOK
<1>14. ASSUME NEW h \in Hashes, Include(h) \/ IncludeFailed(h) PROVE TypeOK'
  <2>1. txs' \in [Hashes -> Tx]
    BY <1>14, <1>a DEF Include, IncludeFailed, Tx
  <2>2. txs[h].child \in Nat
    BY <1>a DEF Tx
  <2>3. consumed' \subseteq Nat /\ IsFiniteSet(consumed')
    BY <1>14, <1>a, <2>2, FS_AddElement DEF Include, IncludeFailed
  <2>4. faults' \in 0..MaxFaults
    BY <1>14, <1>a, Numbers DEF Include, IncludeFailed
  <2>5. QED
    BY <1>14, <1>a, <2>1, <2>3, <2>4 DEF Include, IncludeFailed, TypeOK
<1>15. CASE OpenWindow \/ CloseWindow \/ Cancel
  BY <1>15, <1>a DEF OpenWindow, CloseWindow, Cancel, TypeOK, Windows
<1>16. CASE Tick
  BY <1>16, TickType
<1>17. CASE UNCHANGED vars
  BY <1>17 DEF vars, TypeOK
<1>18. QED
  BY <1>1, <1>2, <1>3, <1>4, <1>5, <1>6, <1>7, <1>8, <1>9, <1>10, <1>11, <1>12,
     <1>13, <1>14, <1>15, <1>16, <1>17, StepCases

-----------------------------------------------------------------------------
(* NeverPaidAhead.                                                         *)

\* The cursor moves forward or stays, and a queued job stays queued.
LEMMA CursorGrows ==
  ASSUME TypeOK, ChildInv, [Next]_vars
  PROVE  /\ row'.child \in Nat
         /\ row.child <= row'.child
         /\ row'.status = "none" => row.status = "none"
         /\ row'.status # "none" => row'.child >= 1
         /\ row'.status = "none" => row'.child = 0
<1> USE DEF chain
<1>a. row \in Row
  BY DEF TypeOK
<1>b. row' \in Row
  BY TypeStep DEF TypeOK
<1>c. /\ row.status = "none" => row.child = 0
      /\ row.status # "none" => row.child >= 1
  BY DEF ChildInv
<1>d. \A r \in Runs : run[r].pc # "idle" => row.status # "none"
  BY <1>a, <1>c DEF ChildInv, TypeOK, Run, Row
<1>1. CASE row' = row
  BY <1>1, <1>a, <1>c DEF Row
<1>2. CASE Queue
  BY <1>2, <1>a, <1>c DEF Queue, NewRow, Row
<1>3. ASSUME NEW r \in Runs, Claim(r) \/ RecordHash(r)
      PROVE  row' = row \/ (row'.child = row.child /\ row'.status # "none")
  BY <1>3, <1>a DEF Claim, RecordHash, UpdateRelayerJob, UpdateForChild, Stamped, Row
<1>4. ASSUME NEW r \in Runs, Write(r)
      PROVE  \/ row' = row
             \/ row'.child \in {row.child, row.child + 1} /\ row'.status # "none"
  <2>1. CASE WriteUnconditional(r)
    BY <2>1, <1>a DEF WriteUnconditional, UpdateRelayerJob, Stamped, Row
  <2>2. CASE WriteForChild(r)
    BY <2>2, <1>a DEF WriteForChild, UpdateForChild, Stamped, Advanced, Recorded,
                      StatusAt, Row
  <2>3. QED
    BY <1>4, <2>1, <2>2 DEF Write
<1>5. CASE Tick
  BY <1>5, <1>a, <1>c DEF Tick, AgedRow, Row
<1>6. ASSUME NEW r \in Runs, Claim(r) \/ RecordHash(r) \/ Write(r)
      PROVE  row.status # "none"
  BY <1>6, <1>d DEF Claim, RecordHash, Write
<1>7. ASSUME NEW r \in Runs, Claim(r) \/ RecordHash(r) \/ Write(r)
      PROVE  /\ row.child <= row'.child
             /\ row'.status # "none"
             /\ row'.child >= 1
  <2>1. row.status # "none" /\ row.child \in Nat /\ row.child >= 1
    BY <1>6, <1>7, <1>a, <1>c DEF Row
  <2>2. CASE row' = row
    BY <2>1, <2>2
  <2>3. CASE row'.child \in {row.child, row.child + 1} /\ row'.status # "none"
    BY <2>1, <2>3
  <2>4. QED
    BY <1>3, <1>4, <1>7, <2>2, <2>3
<1>8. \/ row' = row \/ Queue \/ Tick
      \/ \E r \in Runs : Claim(r) \/ RecordHash(r) \/ Write(r)
  <2>1. CASE UNCHANGED vars
    BY <2>1 DEF vars
  <2>2. CASE Next
    BY <2>2, StepCases
    DEF Fetch, SettleKnown, SettleUnknown, ReadLedger, ReadIntent, ReadChild,
        Submit, NotPending, Refused, PollKnown, PollGone, PollTimeout, Interrupt,
        Include, IncludeFailed, OpenWindow, CloseWindow, Cancel
  <2>3. QED
    BY <2>1, <2>2
<1>9. row'.child \in Nat
  BY <1>b DEF Row
<1>10. QED
  BY <1>1, <1>2, <1>5, <1>7, <1>8, <1>9

\* What a run that is under way does to its own process when it steps; it
\* changes what the run has read only in ReadIntent.
Moves(r) ==
  \/ \E p \in RunPoints : Goto(r, p)
  \/ \E op \in Ops : DecideOn(r, op)
  \/ \E p \in RunPoints, op \in Ops, h \in Hashes \cup {NoTx} : Follow(r, h, p, op)
  \/ Finish(r)

LEMMA RunMoves ==
  ASSUME TypeOK, NEW r \in Runs,
         \/ SettleKnown(r) \/ SettleUnknown(r) \/ ReadLedger(r) \/ ReadChild(r)
         \/ Claim(r) \/ (\E h \in Hashes : Submit(r, h) \/ NotPending(r, h))
         \/ Refused(r) \/ RecordHash(r) \/ PollKnown(r) \/ PollGone(r)
         \/ PollTimeout(r) \/ Write(r) \/ Interrupt(r)
  PROVE  run[r].pc # "idle" /\ Moves(r)
<1>1. /\ {"ledger", "intent", "write", "claim", "submit", "sent", "rejected",
          "poll"} \subseteq RunPoints
      /\ "idle" \notin RunPoints
  BY DEF RunPoints
<1>2. {"none", "limit", "early", "late", "advance", "record", "fail", "reject",
       "retry", "pending"} \subseteq Ops
  BY DEF Ops
<1>3. CASE SettleKnown(r) \/ PollKnown(r)
  BY <1>2, <1>3, OutcomeType DEF SettleKnown, PollKnown, Moves
<1>4. CASE SettleUnknown(r) \/ ReadLedger(r) \/ ReadChild(r) \/ PollGone(r)
           \/ PollTimeout(r)
  BY <1>1, <1>2, <1>4
  DEF SettleUnknown, ReadLedger, ReadChild, PollGone, PollTimeout, Moves
<1>5. CASE Claim(r) \/ RecordHash(r) \/ Refused(r) \/ Write(r)
  BY <1>1, <1>5 DEF Claim, RecordHash, Refused, Write, Moves
<1>6. CASE Interrupt(r)
  BY <1>1, <1>6, EnvironmentAssumption DEF Interrupt, Moves
<1>7. ASSUME NEW h \in Hashes, Submit(r, h) \/ NotPending(r, h)
      PROVE  run[r].pc # "idle" /\ Moves(r)
  BY <1>1, <1>2, <1>7 DEF Submit, NotPending, Moves
<1>8. QED
  BY <1>3, <1>4, <1>5, <1>6, <1>7

\* A run's copy of the job outlives its moves.
LEMMA MoveKeepsCopy ==
  ASSUME run \in [Runs -> Run], NEW r \in Runs, Moves(r)
  PROVE  run'[r].child = run[r].child \/ run'[r] = IdleRun
<1>1. ASSUME NEW p, Goto(r, p) PROVE run'[r].child = run[r].child
  BY <1>1 DEF Goto, Run
<1>2. ASSUME NEW op, DecideOn(r, op) PROVE run'[r].child = run[r].child
  BY <1>2 DEF DecideOn, Run
<1>3. ASSUME NEW p, NEW op, NEW h, Follow(r, h, p, op)
      PROVE  run'[r].child = run[r].child
  BY <1>3 DEF Follow, Run
<1>4. CASE Finish(r)
  BY <1>4 DEF Finish
<1>5. QED
  BY <1>1, <1>2, <1>3, <1>4 DEF Moves

\* A run moves nobody but itself.
LEMMA MoveIsLocal ==
  ASSUME run \in [Runs -> Run], NEW s \in Runs, NEW r \in Runs, s # r, Moves(s)
  PROVE  run'[r] = run[r]
<1>1. ASSUME NEW p, Goto(s, p) PROVE run'[r] = run[r]
  BY <1>1 DEF Goto
<1>2. ASSUME NEW op, DecideOn(s, op) PROVE run'[r] = run[r]
  BY <1>2 DEF DecideOn
<1>3. ASSUME NEW p, NEW op, NEW h, Follow(s, h, p, op) PROVE run'[r] = run[r]
  BY <1>3 DEF Follow
<1>4. CASE Finish(s)
  BY <1>4 DEF Finish
<1>5. QED
  BY <1>1, <1>2, <1>3, <1>4 DEF Moves

\* A run acts on a child it copied from the row.
LEMMA RunChild ==
  ASSUME TypeOK, ChildInv, [Next]_vars, NEW r \in Runs
  PROVE  /\ run'[r].child <= row'.child
         /\ run'[r].pc # "idle" => run'[r].child >= 1
<1> USE DEF chain
<1>a. /\ run \in [Runs -> Run] /\ row \in Row /\ run[r] \in Run
      /\ row.child \in Nat /\ row'.child \in Nat /\ row.child <= row'.child
      /\ run[r].child \in Nat
  BY CursorGrows DEF TypeOK, Row, Run
<1>b. /\ run[r].child <= row.child
      /\ run[r].pc # "idle" => run[r].child >= 1
  BY DEF ChildInv
<1>1. CASE run'[r].child = run[r].child /\ (run[r].pc = "idle" => run'[r].pc = "idle")
  BY <1>1, <1>a, <1>b
<1>2. CASE run'[r] = IdleRun
  BY <1>2, <1>a DEF IdleRun
<1>3. CASE Fetch(r)
  <2>1. run'[r].child = row.child /\ row.child >= 1
    BY <1>3, <1>a DEF Fetch, ChildInv, IdleRun
  <2>2. QED
    BY <2>1, <1>a
<1>4. \/ run'[r].child = run[r].child /\ (run[r].pc = "idle" => run'[r].pc = "idle")
      \/ run'[r] = IdleRun
      \/ Fetch(r)
  <2>1. CASE UNCHANGED vars \/ Queue \/ OpenWindow \/ CloseWindow \/ Cancel
             \/ \E h \in Hashes : Include(h) \/ IncludeFailed(h)
    BY <2>1 DEF vars, Queue, OpenWindow, CloseWindow, Cancel, Include, IncludeFailed
  <2>2. CASE Tick
    <3>1. run'[r] = AgedRun(r)
      BY <2>2 DEF Tick
    <3>2. CASE r \in DyingRuns \/ run[r].pc = "idle"
      BY <3>1, <3>2 DEF AgedRun
    <3>3. CASE r \notin DyingRuns /\ run[r].pc # "idle"
      <4>1. run'[r] = [run[r] EXCEPT !.life = @ + 1]
        BY <3>1, <3>3 DEF AgedRun
      <4>2. QED
        BY <4>1, <3>3, <1>a DEF Run
    <3>4. QED
      BY <3>2, <3>3
  <2>3. ASSUME NEW s \in Runs, Fetch(s) PROVE Fetch(r) \/ run'[r] = run[r]
    <3>1. CASE s = r
      BY <2>3, <3>1
    <3>2. CASE s # r
      <4>1. \E x : run' = [run EXCEPT ![s] = x]
        BY <2>3 DEF Fetch
      <4>2. QED
        BY <4>1, <3>2, <1>a
    <3>3. QED
      BY <3>1, <3>2
  <2>4. ASSUME NEW s \in Runs, ReadIntent(s)
        PROVE  run'[r].child = run[r].child /\ (run[r].pc = "idle" => run'[r] = run[r])
    <3>1. CASE s # r
      BY <2>4, <3>1, <1>a DEF ReadIntent
    <3>2. CASE s = r
      <4>1. run[r].pc = "intent"
        BY <2>4, <3>2 DEF ReadIntent
      <4>2. run'[r].child = run[r].child
        BY <2>4, <3>2, <1>a DEF ReadIntent, Run
      <4>3. QED
        BY <4>1, <4>2
    <3>3. QED
      BY <3>1, <3>2
  <2>5. ASSUME NEW s \in Runs, run[s].pc # "idle", Moves(s)
        PROVE  \/ run'[r].child = run[r].child /\ (run[r].pc = "idle" => run'[r] = run[r])
               \/ run'[r] = IdleRun
    <3>1. CASE s # r
      BY <2>5, <3>1, <1>a, MoveIsLocal
    <3>2. CASE s = r
      BY <2>5, <3>2, <1>a, MoveKeepsCopy
    <3>3. QED
      BY <3>1, <3>2
  <2>6. QED
    BY <2>1, <2>2, <2>3, <2>4, <2>5, StepCases, RunMoves
<1>5. QED
  BY <1>1, <1>2, <1>3, <1>4

\* A transaction pays a child that the run that sent it had copied.
LEMMA TxChild ==
  ASSUME TypeOK, ChildInv, [Next]_vars, NEW h \in Hashes
  PROVE  txs'[h].state # "unused" => txs'[h].child \in 1..row'.child
<1> USE DEF chain
<1>a. /\ txs \in [Hashes -> Tx] /\ txs[h] \in Tx
      /\ row.child \in Nat /\ row'.child \in Nat /\ row.child <= row'.child
  BY CursorGrows DEF TypeOK, Row
<1>b. txs[h].state # "unused" => txs[h].child \in 1..row.child
  BY DEF ChildInv
<1>1. ASSUME NEW r \in Runs, NEW g \in Hashes, Submit(r, g) \/ NotPending(r, g)
      PROVE  txs'[h] = txs[h] \/ txs'[h].child \in 1..row.child
  <2>1. run[r].child \in 1..row.child
    BY <1>1, <1>a DEF Submit, NotPending, ChildInv, TypeOK, Run
  <2>2. txs' = txs \/ \E state \in {"pending", "gone"} : Sent(r, g, state)
    BY <1>1 DEF Submit, NotPending
  <2>3. QED
    BY <1>a, <2>1, <2>2 DEF Sent
<1>2. ASSUME NEW g \in Hashes, Include(g) \/ IncludeFailed(g)
      PROVE  /\ txs'[h].child = txs[h].child
             /\ txs'[h].state = "unused" <=> txs[h].state = "unused"
  BY <1>2, <1>a DEF Include, IncludeFailed, Tx
<1>3. CASE Tick
  <2>1. txs'[h] = AgedTx(h)
    BY <1>3 DEF Tick
  <2>2. AgedTx(h).child = txs[h].child
    BY <1>a DEF AgedTx, Tx
  <2>3. txs[h].state = "unused" => AgedTx(h) = txs[h]
    BY DEF AgedTx, LapsingTxs
  <2>4. QED
    BY <2>1, <2>2, <2>3, <1>a, <1>b
<1>4. \/ txs' = txs \/ Tick
      \/ \E r \in Runs, g \in Hashes : Submit(r, g) \/ NotPending(r, g)
      \/ \E g \in Hashes : Include(g) \/ IncludeFailed(g)
  <2>1. CASE UNCHANGED vars
    BY <2>1 DEF vars
  <2>2. CASE Next
    BY <2>2, StepCases
    DEF Queue, Fetch, SettleKnown, SettleUnknown, ReadLedger, ReadIntent, ReadChild,
        Claim, Refused, RecordHash, PollKnown, PollGone, PollTimeout, Write,
        Interrupt, OpenWindow, CloseWindow, Cancel
  <2>3. QED
    BY <2>1, <2>2
<1>5. QED
  BY <1>1, <1>2, <1>3, <1>4, <1>a, <1>b

\* What the chain consumes was paid by a transaction.
LEMMA PaidStep ==
  ASSUME TypeOK, ChildInv, [Next]_vars
  PROVE  NeverPaidAhead'
<1> USE DEF chain
<1>a. row.child \in Nat /\ row'.child \in Nat /\ row.child <= row'.child
  BY CursorGrows DEF TypeOK, Row
<1>1. \/ consumed' = consumed
      \/ \E h \in Hashes : txs[h].state = "pending"
                           /\ consumed' = consumed \cup {txs[h].child}
  <2>1. CASE UNCHANGED vars
    BY <2>1 DEF vars
  <2>2. CASE Next
    BY <2>2, StepCases
    DEF Queue, Fetch, SettleKnown, SettleUnknown, ReadLedger, ReadIntent, ReadChild,
        Claim, Submit, NotPending, Refused, RecordHash, PollKnown, PollGone,
        PollTimeout, Write, Interrupt, Include, IncludeFailed, OpenWindow,
        CloseWindow, Cancel, Tick
  <2>3. QED
    BY <2>1, <2>2
<1>2. consumed \subseteq 1..row.child
  BY DEF ChildInv, NeverPaidAhead
<1>3. \A h \in Hashes : txs[h].state = "pending" => txs[h].child \in 1..row.child
  BY DEF ChildInv
<1>4. consumed' \subseteq 1..row.child
  BY <1>1, <1>2, <1>3
<1>5. QED
  BY <1>4, <1>a DEF NeverPaidAhead

\* ChildInv is preserved by every step.
LEMMA ChildStep == TypeOK /\ ChildInv /\ [Next]_vars => ChildInv'
  BY CursorGrows, RunChild, TxChild, PaidStep DEF ChildInv

-----------------------------------------------------------------------------
(* LeaseOutlivesTransaction.                                               *)

\* The network's view of one hash after a step: the same; just sent, from a
\* hash never used; decided by a ledger; or older.
LEMMA TxStep ==
  ASSUME TypeOK, [Next]_vars, NEW h \in Hashes
  PROVE  \/ txs'[h] = txs[h] /\ ~Tick
         \/ /\ txs[h].state = "unused" /\ txs'[h].age = 0 /\ row' = row
            /\ txs'[h].state \in {"pending", "gone"}
         \/ /\ txs[h].state = "pending" /\ row' = row
            /\ txs'[h].state \in {"success", "failed"}
         \/ Tick /\ txs'[h] = AgedTx(h)
<1> USE DEF chain
<1>a. txs \in [Hashes -> Tx] /\ txs[h] \in Tx
  BY DEF TypeOK
<1>1. ASSUME NEW r \in Runs, NEW g \in Hashes, Submit(r, g) \/ NotPending(r, g)
      PROVE  \/ txs'[h] = txs[h]
             \/ /\ txs[h].state = "unused" /\ txs'[h].age = 0 /\ row' = row
                /\ txs'[h].state \in {"pending", "gone"}
  <2>1. txs[g].state = "unused" /\ row' = row
    BY <1>1 DEF Submit, NotPending
  <2>2. txs' = txs \/ \E state \in {"pending", "gone"} : Sent(r, g, state)
    BY <1>1 DEF Submit, NotPending
  <2>3. QED
    BY <1>a, <2>1, <2>2 DEF Sent
<1>2. ASSUME NEW g \in Hashes, Include(g) \/ IncludeFailed(g)
      PROVE  \/ txs'[h] = txs[h]
             \/ /\ txs[h].state = "pending" /\ row' = row
                /\ txs'[h].state \in {"success", "failed"}
  BY <1>2, <1>a DEF Include, IncludeFailed, Tx
<1>3. CASE Tick
  BY <1>3 DEF Tick
<1>4. \/ txs' = txs \/ Tick
      \/ \E r \in Runs, g \in Hashes : Submit(r, g) \/ NotPending(r, g)
      \/ \E g \in Hashes : Include(g) \/ IncludeFailed(g)
  <2>1. CASE UNCHANGED vars
    BY <2>1 DEF vars
  <2>2. CASE Next
    BY <2>2, StepCases
    DEF Queue, Fetch, SettleKnown, SettleUnknown, ReadLedger, ReadIntent, ReadChild,
        Claim, Refused, RecordHash, PollKnown, PollGone, PollTimeout, Write,
        Interrupt, OpenWindow, CloseWindow, Cancel
  <2>3. QED
    BY <2>1, <2>2
<1>5. QED
  BY <1>1, <1>2, <1>3, <1>4

\* A hash that was sent stays a hash that was sent, and one that can still
\* land could before unless it was only now sent.
LEMMA TxStaysSent ==
  ASSUME TypeOK, [Next]_vars, NEW h \in Hashes, txs[h].state # "unused"
  PROVE  /\ txs'[h].state # "unused"
         /\ txs'[h].state = "pending" =>
              /\ txs[h].state = "pending"
              /\ txs'[h].age = txs[h].age + (IF Tick THEN 1 ELSE 0)
<1>a. txs[h] \in Tx
  BY DEF TypeOK
<1>1. CASE Tick /\ txs'[h] = AgedTx(h)
  <2>1. CASE h \in LapsingTxs
    BY <1>1, <1>a, <2>1 DEF AgedTx, Tx
  <2>2. CASE h \notin LapsingTxs /\ txs[h].state = "pending"
    BY <1>1, <1>a, <2>2 DEF AgedTx, Tx
  <2>3. CASE h \notin LapsingTxs /\ txs[h].state # "pending"
    BY <1>1, <1>a, <2>3 DEF AgedTx, Tx
  <2>4. QED
    BY <2>1, <2>2, <2>3
<1>2. CASE txs'[h] = txs[h] /\ ~Tick
  BY <1>2, <1>a DEF Tx
<1>3. QED
  BY <1>1, <1>2, TxStep

\* A transaction that can still land is inside its validity.
LEMMA PendingIsYoung ==
  ASSUME TypeOK, LeaseInv, [Next]_vars, NEW h \in Hashes, txs'[h].state = "pending"
  PROVE  txs'[h].age < TxTimeout
<1>a. txs[h] \in Tx /\ TxTimeout \in Nat \ {0}
  BY TimingAssumption DEF TypeOK
<1>b. txs[h].state = "pending" => txs[h].age < TxTimeout
  BY DEF LeaseInv
<1>1. CASE txs'[h] = txs[h]
  BY <1>1, <1>b
<1>2. CASE txs'[h].age = 0
  BY <1>2, <1>a
<1>3. CASE Tick /\ txs'[h] = AgedTx(h)
  <2>1. CASE h \in LapsingTxs
    BY <1>3, <1>a, <2>1 DEF AgedTx, Tx
  <2>2. CASE h \notin LapsingTxs
    BY <1>3, <1>a, <2>2 DEF AgedTx, LapsingTxs, Tx
  <2>3. QED
    BY <2>1, <2>2
<1>4. QED
  BY <1>1, <1>2, <1>3, TxStep

\* What a step does to the row, as the lease sees it: it leaves it, ages it,
\* stamps it keeping its hash, stamps it with the hash a run follows, or
\* stamps it as a job that is not executing.
LEMMA RowStep ==
  ASSUME TypeOK, [Next]_vars
  PROVE  \/ row' = row /\ ~Tick
         \/ Tick /\ row' = AgedRow
         \/ /\ row'.age = 0 /\ txs' = txs
            /\ \/ row'.hash = row.hash
               \/ row'.hash = NoTx
               \/ \E r \in Runs : row'.hash = run[r].tx
<1> USE DEF chain
<1>a. row \in Row
  BY DEF TypeOK
<1>1. ASSUME Queue
      PROVE  /\ txs' = txs
             /\ row' = row \/ (row'.age = 0 /\ row'.hash = NoTx)
  BY <1>1 DEF NewRow, Queue
<1>2. ASSUME NEW r \in Runs, Claim(r) \/ RecordHash(r) \/ Write(r)
      PROVE  /\ txs' = txs
             /\ \/ row' = row
                \/ row'.age = 0 /\ row'.hash \in {row.hash, run[r].tx}
  <2>1. txs' = txs
    BY <1>2 DEF Claim, RecordHash, Write
  <2>2. ASSUME NEW job \in {[row EXCEPT !.status = st] : st \in Statuses},
               UpdateRelayerJob(job) \/ UpdateForChild(r, job)
        PROVE  row' = row \/ (row'.age = 0 /\ row'.hash = row.hash)
    BY <2>2, <1>a DEF UpdateRelayerJob, UpdateForChild, Stamped, Row
  <2>3. ASSUME NEW n \in Nat,
               UpdateRelayerJob([row EXCEPT !.status = "blocked", !.count = n])
        PROVE  row'.age = 0 /\ row'.hash = row.hash
    BY <2>3, <1>a DEF UpdateRelayerJob, Stamped, Row
  <2>4. ASSUME NEW st \in Statuses,
               UpdateForChild(r, [row EXCEPT !.status = st, !.hash = run[r].tx])
        PROVE  row' = row \/ (row'.age = 0 /\ row'.hash = run[r].tx)
    BY <2>4, <1>a DEF UpdateForChild, Stamped, Row
  <2>5. ASSUME UpdateForChild(r, Advanced(run[r].seen))
        PROVE  row' = row \/ (row'.age = 0 /\ row'.hash = row.hash)
    BY <2>5, <1>a DEF UpdateForChild, Stamped, Advanced, Row
  <2>6. ASSUME UpdateForChild(r, Recorded(run[r].tx))
        PROVE  row' = row \/ (row'.age = 0 /\ row'.hash = run[r].tx)
    BY <2>6, <1>a DEF UpdateForChild, Stamped, Recorded, Row
  <2>7. /\ {"blocked", "scheduled", "failed", "ready", "executing"} \subseteq Statuses
        /\ run[r].seen \in Nat
    BY DEF Statuses, TypeOK, Run
  <2>8. CASE Claim(r)
    BY <2>1, <2>2, <2>7, <2>8 DEF Claim
  <2>9. CASE RecordHash(r)
    BY <2>1, <2>4, <2>7, <2>9 DEF RecordHash
  <2>10. CASE WriteUnconditional(r)
    <3>1. CASE UpdateRelayerJob([row EXCEPT !.status = "blocked"])
      BY <2>1, <2>2, <2>7, <3>1
    <3>2. CASE UpdateRelayerJob([row EXCEPT !.status = "scheduled"])
      BY <2>1, <2>2, <2>7, <3>2
    <3>3. CASE UpdateRelayerJob([row EXCEPT !.status = "blocked",
                                            !.count = run[r].seen])
      BY <2>1, <2>3, <2>7, <3>3
    <3>4. QED
      BY <2>10, <3>1, <3>2, <3>3 DEF WriteUnconditional
  <2>11. CASE WriteForChild(r)
    <3>1. CASE \E st \in Statuses : UpdateForChild(r, [row EXCEPT !.status = st])
      BY <2>1, <2>2, <3>1
    <3>2. CASE \E st \in Statuses :
                 UpdateForChild(r, [row EXCEPT !.status = st, !.hash = run[r].tx])
      BY <2>1, <2>4, <3>2
    <3>3. CASE UpdateForChild(r, Advanced(run[r].seen)) \/ UpdateForChild(r, Recorded(run[r].tx))
      BY <2>1, <2>5, <2>6, <3>3
    <3>4. QED
      BY <2>7, <2>11, <3>1, <3>2, <3>3 DEF WriteForChild
  <2>12. QED
    BY <1>2, <2>8, <2>9, <2>10, <2>11 DEF Write
<1>3. CASE Tick
  BY <1>3 DEF Tick
<1>4. \/ row' = row \/ Queue \/ Tick
      \/ \E r \in Runs : Claim(r) \/ RecordHash(r) \/ Write(r)
  <2>1. CASE UNCHANGED vars
    BY <2>1 DEF vars
  <2>2. CASE Next
    BY <2>2, StepCases
    DEF Fetch, SettleKnown, SettleUnknown, ReadLedger, ReadIntent, ReadChild,
        Submit, NotPending, Refused, PollKnown, PollGone, PollTimeout, Interrupt,
        Include, IncludeFailed, OpenWindow, CloseWindow, Cancel
  <2>3. QED
    BY <2>1, <2>2
<1>5. CASE Tick
  BY <1>3, <1>5
<1>6. CASE ~Tick
  BY <1>1, <1>2, <1>4, <1>6
<1>7. QED
  BY <1>5, <1>6

\* A run follows a hash it sent itself or found in the row.
LEMMA RunTxStep ==
  ASSUME TypeOK, [Next]_vars, NEW r \in Runs
  PROVE  \/ run'[r].tx \in {run[r].tx, NoTx, row.hash}
         \/ run'[r].tx \in Hashes /\ txs'[run'[r].tx].state # "unused"
<1> USE DEF chain
<1>a. /\ run \in [Runs -> Run] /\ run[r] \in Run
      /\ txs \in [Hashes -> Tx] /\ NoTx \notin Hashes
  BY Numbers DEF TypeOK
<1>0. IdleRun.tx = NoTx
  BY DEF IdleRun
<1>1. CASE UNCHANGED vars \/ Queue \/ OpenWindow \/ CloseWindow \/ Cancel
           \/ \E h \in Hashes : Include(h) \/ IncludeFailed(h)
  BY <1>1 DEF vars, Queue, OpenWindow, CloseWindow, Cancel, Include, IncludeFailed
<1>2. CASE Tick
  <2>1. run'[r] = AgedRun(r)
    BY <1>2 DEF Tick
  <2>2. AgedRun(r) \in {IdleRun, run[r], [run[r] EXCEPT !.life = @ + 1]}
    BY DEF AgedRun
  <2>3. [run[r] EXCEPT !.life = @ + 1].tx = run[r].tx
    BY <1>a DEF Run
  <2>4. QED
    BY <1>0, <2>1, <2>2, <2>3
<1>3. ASSUME NEW s \in Runs, Fetch(s) PROVE run'[r].tx \in {run[r].tx, NoTx, row.hash}
  <2>1. CASE s = r
    BY <1>3, <1>a, <1>0, <2>1 DEF Fetch, IdleRun
  <2>2. CASE s # r
    <3>1. \E x : run' = [run EXCEPT ![s] = x]
      BY <1>3 DEF Fetch
    <3>2. QED
      BY <3>1, <2>2, <1>a
  <2>3. QED
    BY <2>1, <2>2
<1>4. ASSUME NEW s \in Runs, ReadIntent(s) PROVE run'[r].tx = run[r].tx
  <2>1. CASE s = r
    BY <1>4, <1>a, <2>1 DEF ReadIntent, Run
  <2>2. CASE s # r
    BY <1>4, <1>a, <2>2 DEF ReadIntent
  <2>3. QED
    BY <2>1, <2>2
<1>5. ASSUME NEW s \in Runs,
             \/ \E p \in RunPoints : Goto(s, p)
             \/ \E op \in Ops : DecideOn(s, op)
             \/ Finish(s)
      PROVE  run'[r].tx \in {run[r].tx, NoTx}
  <2>0. Moves(s)
    BY <1>5 DEF Moves
  <2>1. CASE s # r
    BY <1>a, <2>0, <2>1, MoveIsLocal
  <2>2. ASSUME s = r, NEW p, Goto(s, p) PROVE run'[r].tx = run[r].tx
    BY <2>2, <1>a DEF Goto, Run
  <2>3. ASSUME s = r, NEW op, DecideOn(s, op) PROVE run'[r].tx = run[r].tx
    BY <2>3, <1>a DEF DecideOn, Run
  <2>4. ASSUME s = r, Finish(s) PROVE run'[r].tx = NoTx
    BY <2>4, <1>a, <1>0 DEF Finish
  <2>5. QED
    BY <1>5, <2>1, <2>2, <2>3, <2>4
<1>6. ASSUME NEW s \in Runs, NEW p \in RunPoints, NEW op \in Ops,
             NEW h \in Hashes \cup {NoTx}, Follow(s, h, p, op)
      PROVE  run'[r].tx \in {run[r].tx, h}
  <2>1. CASE s # r
    BY <1>a, <1>6, <2>1 DEF Follow
  <2>2. CASE s = r
    BY <1>a, <1>6, <2>2 DEF Follow, Run
  <2>3. QED
    BY <2>1, <2>2
<1>7. ASSUME NEW s \in Runs, NEW h \in Hashes, Submit(s, h) \/ NotPending(s, h)
      PROVE  \/ run'[r].tx \in {run[r].tx, NoTx}
             \/ run'[r].tx \in Hashes /\ txs'[run'[r].tx].state # "unused"
  <2>1. /\ {"sent", "rejected"} \subseteq RunPoints
        /\ {"none", "reject", "retry", "pending"} \subseteq Ops
    BY DEF RunPoints, Ops
  <2>2. ASSUME NEW state \in {"pending", "gone"}, Sent(s, h, state)
        PROVE  txs'[h].state # "unused"
    BY <2>2, <1>a DEF Sent
  <2>3. CASE Submit(s, h)
    BY <1>6, <2>1, <2>2, <2>3 DEF Submit
  <2>4. CASE NotPending(s, h)
    BY <1>6, <2>1, <2>2, <2>4 DEF NotPending
  <2>5. QED
    BY <1>7, <2>3, <2>4
<1>8. ASSUME NEW s \in Runs,
             \/ SettleKnown(s) \/ SettleUnknown(s) \/ ReadLedger(s) \/ ReadChild(s)
             \/ Claim(s) \/ Refused(s) \/ RecordHash(s) \/ PollKnown(s)
             \/ PollGone(s) \/ PollTimeout(s) \/ Write(s) \/ Interrupt(s)
      PROVE  run'[r].tx \in {run[r].tx, NoTx}
  <2>1. /\ {"ledger", "intent", "write", "claim", "submit", "poll"} \subseteq RunPoints
        /\ {"limit", "early", "late", "advance", "record", "fail", "pending"} \subseteq Ops
    BY DEF RunPoints, Ops
  <2>2. CASE SettleKnown(s) \/ PollKnown(s)
    BY <1>5, <2>1, <2>2, OutcomeType DEF SettleKnown, PollKnown
  <2>3. CASE SettleUnknown(s) \/ ReadLedger(s) \/ ReadChild(s) \/ PollGone(s)
             \/ PollTimeout(s)
    BY <1>5, <2>1, <2>3
    DEF SettleUnknown, ReadLedger, ReadChild, PollGone, PollTimeout
  <2>4. CASE Claim(s) \/ Refused(s) \/ RecordHash(s) \/ Write(s) \/ Interrupt(s)
    BY <1>5, <2>1, <2>4 DEF Claim, Refused, RecordHash, Write, Interrupt
  <2>5. QED
    BY <1>8, <2>2, <2>3, <2>4
<1>9. QED
  BY <1>1, <1>2, <1>3, <1>4, <1>7, <1>8, StepCases

\* LeaseInv is preserved by every step.
LEMMA LeaseStep == TypeOK /\ LeaseInv /\ [Next]_vars => LeaseInv'
<1> SUFFICES ASSUME TypeOK, LeaseInv, [Next]_vars PROVE LeaseInv'
  OBVIOUS
<1>a. /\ row \in Row /\ row' \in Row /\ txs' \in [Hashes -> Tx]
      /\ row.hash \in Hashes \cup {NoTx}
      /\ \A r \in Runs : run[r].tx \in Hashes \cup {NoTx}
  BY TypeStep DEF TypeOK, Row, Run
<1>b. /\ row.hash # NoTx => txs[row.hash].state # "unused"
      /\ \A r \in Runs : run[r].tx # NoTx => txs[run[r].tx].state # "unused"
  BY DEF LeaseInv
<1>1. \A h \in Hashes : txs'[h].state = "pending" => txs'[h].age < TxTimeout
  BY PendingIsYoung
<1>2. ASSUME NEW h \in Hashes \cup {NoTx}, h # NoTx, txs[h].state # "unused"
      PROVE  txs'[h].state # "unused"
  BY <1>2, TxStaysSent
<1>3. AgedRow.hash = row.hash /\ AgedRow.status = row.status /\ AgedRow.age <= row.age + 1
  BY <1>a DEF AgedRow, Row
<1>4. row'.hash # NoTx => txs'[row'.hash].state # "unused"
  BY <1>2, <1>3, <1>a, <1>b, RowStep
<1>5. \A r \in Runs : run'[r].tx # NoTx => txs'[run'[r].tx].state # "unused"
  BY <1>2, <1>a, <1>b, RunTxStep
<1>6. ASSUME row'.status = "executing", row'.hash # NoTx,
             txs'[row'.hash].state = "pending"
      PROVE  row'.age <= txs'[row'.hash].age
  <2>1. CASE row' = row /\ ~Tick
    <3>1. txs[row.hash].state = "pending" /\ txs'[row.hash].age = txs[row.hash].age + 0
      BY <1>6, <1>a, <1>b, <2>1, TxStaysSent
    <3>2. row.age <= txs[row.hash].age
      BY <1>6, <2>1, <3>1 DEF LeaseInv
    <3>3. QED
      BY <1>6, <1>a, <2>1, <3>1, <3>2 DEF Row, Tx, TypeOK
  <2>2. CASE Tick /\ row' = AgedRow
    <3>1. txs[row.hash].state = "pending" /\ txs'[row.hash].age = txs[row.hash].age + 1
      BY <1>3, <1>6, <1>a, <1>b, <2>2, TxStaysSent
    <3>2. row.age <= txs[row.hash].age
      BY <1>3, <1>6, <2>2, <3>1 DEF LeaseInv
    <3>3. row.age \in Nat /\ row'.age \in Nat /\ txs[row.hash].age \in Nat
      BY <1>3, <1>6, <1>a, <2>2 DEF Row, Tx, TypeOK
    <3>4. QED
      BY <1>3, <2>2, <3>1, <3>2, <3>3
  <2>3. CASE row'.age = 0
    BY <1>6, <1>a, <2>3 DEF Row, Tx
  <2>4. QED
    BY <2>1, <2>2, <2>3, RowStep
<1>7. QED
  BY <1>1, <1>4, <1>5, <1>6 DEF LeaseInv

-----------------------------------------------------------------------------
(* The theorems.                                                           *)

RelayerInv == TypeOK /\ ChildInv /\ LeaseInv

LEMMA InitInv == Init => RelayerInv
<1> SUFFICES ASSUME Init PROVE RelayerInv
  OBVIOUS
<1>1. TypeOK
  <2>1. row \in Row
    BY Numbers DEF Init, Row, Statuses, NoTx
  <2>2. run \in [Runs -> Run]
    BY IdleRunType DEF Init
  <2>3. txs \in [Hashes -> Tx]
    BY Numbers DEF Init, Tx
  <2>4. window \in Windows
    BY EnvironmentAssumption DEF Init
  <2>5. consumed \subseteq Nat /\ IsFiniteSet(consumed)
    <3>1. consumed = {}
      BY DEF Init
    <3>2. QED
      BY <3>1, FS_EmptySet
  <2>6. cancelled \in BOOLEAN /\ faults \in 0..MaxFaults
    <3>1. cancelled \in BOOLEAN
      BY DEF Init
    <3>2. faults = 0 /\ MaxFaults \in Nat
      BY Numbers DEF Init
    <3>3. QED
      BY <3>1, <3>2
  <2>7. QED
    BY <2>1, <2>2, <2>3, <2>4, <2>5, <2>6 DEF TypeOK
<1>2. ChildInv
  BY DEF Init, ChildInv, NeverPaidAhead, IdleRun
<1>3. LeaseInv
  BY DEF Init, LeaseInv, IdleRun
<1>4. QED
  BY <1>1, <1>2, <1>3 DEF RelayerInv

\* The inductive invariant of the relayer.
THEOREM RelayerInvariant == Spec => []RelayerInv
<1>1. Init => RelayerInv
  BY InitInv
<1>2. RelayerInv /\ [Next]_vars => RelayerInv'
  BY TypeStep, ChildStep, LeaseStep DEF RelayerInv
<1>3. QED
  BY <1>1, <1>2, PTL DEF Spec

\* Every variable keeps its type, for any number of runs and transactions.
THEOREM RelayerTypeOK == Spec => []TypeOK
<1>1. RelayerInv => TypeOK
  BY DEF RelayerInv
<1>2. QED
  BY <1>1, RelayerInvariant, PTL

\* No run, however stale its copy of the job, gets a child paid that the
\* store has not reached.
THEOREM ChainNeverAhead == Spec => []NeverPaidAhead
<1>1. RelayerInv => NeverPaidAhead
  BY DEF RelayerInv, ChildInv
<1>2. QED
  BY <1>1, RelayerInvariant, PTL

\* A lease that is not shorter than the transaction timeout is enough: the
\* recorded transaction of a job that may be taken back can no longer land.
THEOREM LeaseIsLongEnough == Spec => []LeaseOutlivesTransaction
<1>1. RelayerInv => LeaseOutlivesTransaction
  <2>1. SUFFICES ASSUME RelayerInv, LeaseExpired(row), row.hash # NoTx,
                        txs[row.hash].state = "pending"
                 PROVE  FALSE
    BY DEF LeaseOutlivesTransaction
  <2>2. row.hash \in Hashes /\ row.age \in Nat /\ txs[row.hash].age \in Nat
    BY <2>1 DEF RelayerInv, TypeOK, Row, Tx
  <2>3. row.age >= Lease /\ row.status = "executing"
    BY <2>1 DEF LeaseExpired
  <2>4. txs[row.hash].age < TxTimeout /\ row.age <= txs[row.hash].age
    BY <2>1, <2>2, <2>3 DEF RelayerInv, LeaseInv
  <2>5. QED
    BY <2>2, <2>3, <2>4, TimingAssumption
<1>2. QED
  BY <1>1, RelayerInvariant, PTL

-----------------------------------------------------------------------------
(* NoChildSkipped.  It does not hold in every environment (the run         *)
(* skipped): a run lost between its claim and the write that records its   *)
(* hash leaves the hash of an earlier child in a job that looks            *)
(* interrupted.  It holds wherever no run is lost there and nothing but    *)
(* the count and the children makes the registry refuse a child.           *)

Recording == InterruptPoints \cap Unrecorded = {} /\ ~MayCancel /\ ~MayClose

\* The cursor may leave c behind.
Passable(c) == c \in consumed \/ c > MaxExec

\* What a run knows is true of the child it acts on.
OnTrack(r) ==
  /\ run[r].pc # "idle" => run[r].life < RunLife
  /\ run[r].op # "cancelled"
  /\ run[r].pc \in {"intent", "child", "claim", "submit"} => window = "open"
  /\ run[r].pc \in {"sent", "poll"} =>
       run[r].tx # NoTx /\ txs[run[r].tx].child = run[r].child
  /\ run[r].pc = "settle" =>
       /\ run[r].tx # NoTx
       /\ Passable(run[r].child) \/ txs[run[r].tx].child = run[r].child
  /\ run[r].op \in {"record", "advance"} => Passable(run[r].child)

\* A run that is about to record a hash of its own, inside its lease.
Sends(r) ==
  run[r].pc \in Unrecorded /\ run[r].child = row.child /\ row.age <= run[r].life

\* The hash of a job in flight is that of its child, or one that does no
\* harm, or about to be replaced.
HashIsCurrent ==
  row.status = "executing" /\ row.hash # NoTx =>
    \/ Passable(row.child)
    \/ txs[row.hash].child = row.child
    \/ \E r \in Runs : Sends(r)

SkipInv ==
  /\ ~cancelled
  /\ \A h \in Hashes : txs[h].state = "success" => txs[h].child \in consumed
  /\ \A r \in Runs : OnTrack(r)
  /\ HashIsCurrent
  /\ NoChildSkipped

\* What the owner, the ledger and the registry never take back.
LEMMA ChainStep ==
  ASSUME Recording, TypeOK, [Next]_vars
  PROVE  /\ cancelled' = cancelled
         /\ window = "open" => window' = "open"
         /\ consumed \subseteq consumed'
<1> USE DEF chain
<1>1. CASE UNCHANGED vars
  BY <1>1 DEF vars
<1>2. CASE Next
  BY <1>2, StepCases
  DEF Recording, Queue, Fetch, SettleKnown, SettleUnknown, ReadLedger, ReadIntent,
      ReadChild, Claim, Submit, NotPending, Refused, RecordHash, PollKnown, PollGone,
      PollTimeout, Write, Interrupt, Include, IncludeFailed, OpenWindow,
      CloseWindow, Cancel, Tick
<1> QED BY <1>1, <1>2

\* A transaction pays the child it was sent for, and once it has succeeded the
\* child is consumed.
LEMMA TxPays ==
  ASSUME TypeOK, [Next]_vars, NEW h \in Hashes,
         txs[h].state = "success" => txs[h].child \in consumed
  PROVE  /\ txs[h].state # "unused" => txs'[h].child = txs[h].child
         /\ txs'[h].state = "success" => txs'[h].child \in consumed'
<1> USE DEF chain
<1>a. txs \in [Hashes -> Tx] /\ txs[h] \in Tx
  BY DEF TypeOK
<1>1. ASSUME NEW r \in Runs, NEW g \in Hashes, Submit(r, g) \/ NotPending(r, g)
      PROVE  /\ txs'[h] = txs[h] \/ (txs[h].state = "unused" /\ txs'[h].state # "success")
             /\ consumed' = consumed
  <2>1. txs[g].state = "unused" /\ consumed' = consumed
    BY <1>1 DEF Submit, NotPending
  <2>2. txs' = txs \/ \E state \in {"pending", "gone"} : Sent(r, g, state)
    BY <1>1 DEF Submit, NotPending
  <2>3. QED
    BY <1>a, <2>1, <2>2 DEF Sent
<1>2. ASSUME NEW g \in Hashes, Include(g) \/ IncludeFailed(g)
      PROVE  /\ txs'[h].child = txs[h].child
             /\ txs'[h].state = "success" => txs[h].child \in consumed'
  <2>1. CASE g = h
    BY <1>2, <1>a, <2>1 DEF Include, IncludeFailed, Tx
  <2>2. CASE g # h
    BY <1>2, <1>a, <2>2 DEF Include, IncludeFailed
  <2>3. QED
    BY <2>1, <2>2
<1>3. CASE Tick
  <2>1. txs'[h] = AgedTx(h) /\ consumed' = consumed
    BY <1>3 DEF Tick
  <2>2. AgedTx(h).child = txs[h].child
        /\ (AgedTx(h).state = "success" => txs[h].state = "success")
    BY <1>a DEF AgedTx, Tx
  <2>3. QED
    BY <2>1, <2>2
<1>4. \/ txs' = txs /\ consumed' = consumed
      \/ Tick
      \/ \E r \in Runs, g \in Hashes : Submit(r, g) \/ NotPending(r, g)
      \/ \E g \in Hashes : Include(g) \/ IncludeFailed(g)
  <2>1. CASE UNCHANGED vars
    BY <2>1 DEF vars
  <2>2. CASE Next
    BY <2>2, StepCases
    DEF Queue, Fetch, SettleKnown, SettleUnknown, ReadLedger, ReadIntent, ReadChild,
        Claim, Refused, RecordHash, PollKnown, PollGone, PollTimeout, Write,
        Interrupt, OpenWindow, CloseWindow, Cancel
  <2>3. QED
    BY <2>1, <2>2
<1>5. QED
  BY <1>1, <1>2, <1>3, <1>4

\* What the moves of a run leave in it.
LEMMA MovedRun ==
  ASSUME run \in [Runs -> Run], NEW r \in Runs
  PROVE  /\ \A p : Goto(r, p) => run'[r] = [run[r] EXCEPT !.pc = p]
         /\ \A op : DecideOn(r, op) => run'[r] = [run[r] EXCEPT !.pc = "write", !.op = op]
         /\ \A h, p, op : Follow(r, h, p, op) =>
              run'[r] = [run[r] EXCEPT !.pc = p, !.op = op, !.tx = h]
         /\ Finish(r) => run'[r] = IdleRun
         /\ ReadIntent(r) => run'[r] = [run[r] EXCEPT !.pc = "child",
              !.seen = Cardinality(consumed), !.op = IF cancelled THEN "cancelled" ELSE "none"]
<1>1. ASSUME NEW p, Goto(r, p) PROVE run'[r] = [run[r] EXCEPT !.pc = p]
  BY <1>1 DEF Goto
<1>2. ASSUME NEW op, DecideOn(r, op)
      PROVE  run'[r] = [run[r] EXCEPT !.pc = "write", !.op = op]
  BY <1>2 DEF DecideOn, Run
<1>3. ASSUME NEW h, NEW p, NEW op, Follow(r, h, p, op)
      PROVE  run'[r] = [run[r] EXCEPT !.pc = p, !.op = op, !.tx = h]
  BY <1>3 DEF Follow
<1>4. ASSUME Finish(r) PROVE run'[r] = IdleRun
  BY <1>4 DEF Finish
<1>5. ASSUME ReadIntent(r)
      PROVE  run'[r] = [run[r] EXCEPT !.pc = "child",
               !.seen = Cardinality(consumed), !.op = IF cancelled THEN "cancelled" ELSE "none"]
  BY <1>5 DEF ReadIntent
<1> QED BY <1>1, <1>2, <1>3, <1>4, <1>5

\* A step is one of the row, the network or time, or of one run.
LEMMA OtherRuns ==
  ASSUME TypeOK, [Next]_vars, NEW r \in Runs
  PROVE  \/ run'[r] = run[r]
         \/ Tick
         \/ Fetch(r) \/ SettleKnown(r) \/ SettleUnknown(r) \/ ReadLedger(r)
         \/ ReadIntent(r) \/ ReadChild(r) \/ Claim(r)
         \/ (\E h \in Hashes : Submit(r, h) \/ NotPending(r, h))
         \/ Refused(r) \/ RecordHash(r) \/ PollKnown(r) \/ PollGone(r)
         \/ PollTimeout(r) \/ Write(r) \/ Interrupt(r)
<1> USE DEF chain
<1>a. run \in [Runs -> Run]
  BY DEF TypeOK
<1>1. CASE UNCHANGED vars \/ Queue \/ OpenWindow \/ CloseWindow \/ Cancel
           \/ \E h \in Hashes : Include(h) \/ IncludeFailed(h)
  BY <1>1 DEF vars, Queue, OpenWindow, CloseWindow, Cancel, Include, IncludeFailed
<1>2. ASSUME NEW s \in Runs, s # r, Fetch(s) \/ ReadIntent(s) PROVE run'[r] = run[r]
  <2>1. \E x : run' = [run EXCEPT ![s] = x]
    BY <1>2 DEF Fetch, ReadIntent
  <2>2. QED
    BY <2>1, <1>2, <1>a
<1>3. ASSUME NEW s \in Runs, s # r, Moves(s) PROVE run'[r] = run[r]
  BY <1>3, <1>a, MoveIsLocal
<1> QED BY <1>1, <1>2, <1>3, StepCases, RunMoves

\* What holds of a run that is left alone goes on holding.
LEMMA StaysOnTrack ==
  ASSUME Recording, TypeOK, LeaseInv, SkipInv, [Next]_vars, NEW r \in Runs,
         run'[r] = run[r]
  PROVE  OnTrack(r)'
<1>1. OnTrack(r) /\ \A h \in Hashes : txs[h].state = "success" => txs[h].child \in consumed
  BY DEF SkipInv
<1>2. consumed \subseteq consumed' /\ (window = "open" => window' = "open")
  BY ChainStep
<1>3. run[r].tx # NoTx => txs'[run[r].tx].child = txs[run[r].tx].child
  <2>1. run[r].tx \in Hashes \cup {NoTx}
    BY DEF TypeOK, Run
  <2>2. run[r].tx # NoTx => txs[run[r].tx].state # "unused"
    BY DEF LeaseInv
  <2>3. QED
    BY <1>1, <2>1, <2>2, TxPays
<1>4. Passable(run[r].child) => Passable(run[r].child)'
  BY <1>2 DEF Passable
<1> QED BY <1>1, <1>2, <1>3, <1>4 DEF OnTrack, Passable

\* The lease of a run that sends outlasts the run.
LEMMA SenderHoldsLease ==
  ASSUME TypeOK, SkipInv, NEW r \in Runs, Sends(r)
  PROVE  ~LeaseExpired(row)
<1>1. run[r].life \in Nat /\ row.age \in Nat /\ RunLife \in Nat /\ Lease \in Nat
      /\ RunLife <= Lease
  BY Numbers, TimingAssumption DEF TypeOK, Run, Row
<1>2. run[r].life < RunLife
  BY DEF SkipInv, OnTrack, Sends, Unrecorded
<1>3. row.age <= run[r].life
  BY DEF Sends
<1> QED BY <1>1, <1>2, <1>3 DEF LeaseExpired

\* A run that takes a job back finds a hash that speaks for its child.
LEMMA FetchOnTrack ==
  ASSUME TypeOK, SkipInv, NEW r \in Runs, Fetch(r)
  PROVE  OnTrack(r)'
<1> DEFINE interrupted == row.status = "executing" /\ row.hash # NoTx
<1>1. /\ run'[r].pc = IF interrupted THEN "settle" ELSE "ledger"
      /\ run'[r].tx = IF interrupted THEN row.hash ELSE NoTx
      /\ run'[r].op = "none" /\ run'[r].life = 0 /\ run'[r].child = row.child
  BY DEF Fetch, TypeOK, IdleRun
<1>2. txs' = txs /\ consumed' = consumed /\ ~IsInFlight(row)
  BY DEF Fetch, chain
<1>3. interrupted => Passable(row.child) \/ txs[row.hash].child = row.child
  BY <1>2, SenderHoldsLease DEF SkipInv, HashIsCurrent, IsInFlight
<1>4. 0 < RunLife
  BY TimingAssumption
<1> QED BY <1>1, <1>2, <1>3, <1>4 DEF OnTrack, Passable

\* A known outcome is recorded only for a child the chain has consumed.
LEMMA OutcomeOnTrack ==
  ASSUME TypeOK, SkipInv, NEW r \in Runs, SettleKnown(r) \/ PollKnown(r)
  PROVE  OnTrack(r)'
<1>1. /\ run[r] \in Run /\ OnTrack(r) /\ txs' = txs /\ consumed' = consumed
      /\ run[r].pc \in {"settle", "poll"} /\ IsKnown(run[r].tx)
      /\ run'[r] = [run[r] EXCEPT !.pc = "write", !.op = OutcomeOf(run[r].tx)]
  BY MovedRun DEF SettleKnown, PollKnown, SkipInv, TypeOK, chain
<1>2. /\ run'[r].pc = "write" /\ run'[r].op = OutcomeOf(run[r].tx)
      /\ run'[r].child = run[r].child /\ run'[r].life = run[r].life
  BY <1>1 DEF Run
<1>3. OutcomeOf(run[r].tx) \in {"record", "fail"}
      /\ (OutcomeOf(run[r].tx) = "record" => txs[run[r].tx].state = "success")
  BY <1>1 DEF OutcomeOf, IsKnown
<1>4. run[r].tx \in Hashes
      /\ (Passable(run[r].child) \/ txs[run[r].tx].child = run[r].child)
  BY <1>1 DEF OnTrack, Run
<1>5. txs[run[r].tx].state = "success" => Passable(run[r].child)
  BY <1>4 DEF SkipInv, Passable
<1> QED BY <1>1, <1>2, <1>3, <1>5 DEF OnTrack, Passable

\* What a run follows was sent for its child.
LEMMA SendOnTrack ==
  ASSUME TypeOK, SkipInv, NEW r \in Runs, NEW h \in Hashes,
         Submit(r, h) \/ NotPending(r, h)
  PROVE  OnTrack(r)'
<1>1. run[r] \in Run /\ OnTrack(r) /\ consumed' = consumed /\ run[r].pc = "submit"
      /\ h # NoTx
  BY Numbers DEF Submit, NotPending, SkipInv, TypeOK, chain
<1>2. CASE Submit(r, h)
  <2>1. run'[r] = [run[r] EXCEPT !.pc = "sent", !.op = "none", !.tx = h]
    BY <1>2 DEF Submit, Follow, TypeOK
  <2>2. txs'[h].child = run[r].child
    BY <1>2 DEF Submit, Sent, TypeOK
  <2>3. QED
    BY <1>1, <2>1, <2>2 DEF OnTrack, Run
<1>3. CASE NotPending(r, h)
  <2>1. \E op \in {"reject", "retry", "pending"}, g \in {h, NoTx} :
          run'[r] = [run[r] EXCEPT !.pc = "rejected", !.op = op, !.tx = g]
    BY <1>3 DEF NotPending, Follow, TypeOK
  <2>2. QED
    BY <1>1, <2>1 DEF OnTrack, Run
<1> QED BY <1>2, <1>3

\* OnTrack is preserved by every step.
LEMMA OnTrackStep ==
  ASSUME Recording, TypeOK, LeaseInv, SkipInv, [Next]_vars, NEW r \in Runs
  PROVE  OnTrack(r)'
<1> USE DEF chain
<1>a. run[r] \in Run /\ run \in [Runs -> Run] /\ OnTrack(r) /\ ~cancelled
  BY DEF TypeOK, SkipInv
<1>1. CASE run'[r] = IdleRun
  BY <1>1 DEF OnTrack, IdleRun
<1>2. CASE Tick
  <2>1. run'[r] = AgedRun(r) /\ UNCHANGED <<consumed, window>>
    BY <1>2 DEF Tick
  <2>2. CASE r \in DyingRuns
    BY <1>1, <2>1, <2>2 DEF AgedRun
  <2>3. CASE run[r].pc = "idle"
    BY <1>1, <2>1, <2>3, StaysOnTrack DEF AgedRun
  <2>4. CASE r \notin DyingRuns /\ run[r].pc # "idle"
    <3>1. run'[r] = [run[r] EXCEPT !.life = @ + 1]
      BY <2>1, <2>4 DEF AgedRun
    <3>2. /\ run'[r].pc = run[r].pc /\ run'[r].op = run[r].op
          /\ run'[r].tx = run[r].tx /\ run'[r].child = run[r].child
          /\ run'[r].life = run[r].life + 1
      BY <3>1, <1>a DEF Run
    <3>3. run[r].life + 1 < RunLife
      BY <2>4, <1>a, Numbers DEF DyingRuns, Run
    <3>4. run[r].tx # NoTx => txs'[run[r].tx].child = txs[run[r].tx].child
      <4>1. run[r].tx \in Hashes \cup {NoTx}
            /\ (run[r].tx # NoTx => txs[run[r].tx].state # "unused")
        BY <1>a DEF LeaseInv, Run
      <4>2. QED
        BY <4>1, TxPays DEF SkipInv
    <3>5. QED
      BY <1>a, <2>1, <3>2, <3>3, <3>4 DEF OnTrack, Passable
  <2>5. QED
    BY <2>2, <2>3, <2>4
<1>3. CASE SettleUnknown(r)
  <2>1. run'[r] = [run[r] EXCEPT !.pc = "ledger"] /\ run[r].pc = "settle"
        /\ consumed' = consumed
    BY <1>3, <1>a, MovedRun DEF SettleUnknown
  <2>2. QED
    BY <1>a, <2>1 DEF OnTrack, Passable, Run
<1>4. CASE ReadLedger(r)
  <2>1. /\ run[r].pc = "ledger" /\ UNCHANGED <<consumed, window>>
        /\ \/ /\ run'[r] = [run[r] EXCEPT !.pc = "intent"]
              /\ window = "open"
           \/ \E op \in {"limit", "early", "late"} :
                run'[r] = [run[r] EXCEPT !.pc = "write", !.op = op]
    BY <1>4, <1>a, MovedRun DEF ReadLedger
  <2>2. QED
    BY <1>a, <2>1 DEF OnTrack, Passable, Run
<1>5. CASE ReadIntent(r)
  <2>1. /\ run'[r] = [run[r] EXCEPT !.pc = "child", !.seen = Cardinality(consumed),
                                    !.op = "none"]
        /\ run[r].pc = "intent" /\ UNCHANGED <<consumed, window>>
    BY <1>5, <1>a, MovedRun DEF ReadIntent
  <2>2. QED
    BY <1>a, <2>1 DEF OnTrack, Passable, Run
<1>6. CASE ReadChild(r)
  <2>1. /\ run[r].pc = "child" /\ UNCHANGED <<consumed, window>>
        /\ \/ run'[r] = [run[r] EXCEPT !.pc = "claim"]
           \/ /\ run'[r] = [run[r] EXCEPT !.pc = "write", !.op = "advance"]
              /\ run[r].child \in consumed
    BY <1>6, <1>a, MovedRun DEF ReadChild, OnTrack
  <2>2. QED
    BY <1>a, <2>1 DEF OnTrack, Passable, Run
<1>7. CASE Claim(r)
  <2>1. /\ run[r].pc = "claim" /\ UNCHANGED <<consumed, window>>
        /\ run'[r] = IdleRun \/ run'[r] = [run[r] EXCEPT !.pc = "submit"]
    BY <1>7, <1>a, MovedRun DEF Claim
  <2>2. QED
    BY <1>a, <1>1, <2>1 DEF OnTrack, Passable, Run
<1>8. CASE RecordHash(r)
  <2>1. /\ run[r].pc = "sent" /\ UNCHANGED <<consumed, window, txs>>
        /\ run'[r] = [run[r] EXCEPT !.pc = "poll"]
    BY <1>8, <1>a, MovedRun DEF RecordHash
  <2>2. QED
    BY <1>a, <2>1 DEF OnTrack, Passable, Run
<1>9. CASE PollGone(r) \/ PollTimeout(r)
  <2>1. /\ run[r].pc = "poll" /\ consumed' = consumed
        /\ run'[r] = [run[r] EXCEPT !.pc = "write", !.op = "pending"]
    BY <1>9, <1>a, MovedRun DEF PollGone, PollTimeout
  <2>2. QED
    BY <1>a, <2>1 DEF OnTrack, Passable, Run
<1>10. CASE Refused(r) \/ Write(r) \/ Interrupt(r)
  BY <1>1, <1>10, <1>a, MovedRun DEF Refused, Write, Interrupt
<1> QED
  BY <1>2, <1>3, <1>4, <1>5, <1>6, <1>7, <1>8, <1>9, <1>10, OtherRuns, StaysOnTrack,
     FetchOnTrack, OutcomeOnTrack, SendOnTrack

\* What the writes that end a run do to the row.
LEMMA Written ==
  ASSUME TypeOK, NEW r \in Runs, Write(r)
  PROVE  \/ row' = row /\ row.child # run[r].child
         \/ /\ row'.status \notin {"none", "executing", "executed"}
            /\ row'.child = row.child /\ row'.count = row.count
         \/ /\ run[r].op = "cancelled" /\ row'.status = "blocked"
            /\ row'.child = row.child
         \/ /\ run[r].op = "advance" /\ row.child = run[r].child
            /\ row' = Stamped(Advanced(run[r].seen))
         \/ /\ run[r].op = "record" /\ row.child = run[r].child
            /\ row' = Stamped(Recorded(run[r].tx))
<1>a. row \in Row
  BY DEF TypeOK
<1>1. CASE WriteUnconditional(r)
  BY <1>1, <1>a DEF WriteUnconditional, UpdateRelayerJob, Stamped, Row
<1>2. CASE WriteForChild(r)
  BY <1>2, <1>a DEF WriteForChild, UpdateForChild, Stamped, Row
<1> QED BY <1>1, <1>2 DEF Write

\* The row after the two writes that move the cursor.
LEMMA CursorMoves ==
  ASSUME TypeOK, NEW seen \in Nat, NEW h \in Hashes \cup {NoTx}
  PROVE  /\ Stamped(Advanced(seen)).child = row.child + 1
         /\ Stamped(Advanced(seen)).count = IF seen > row.count THEN seen ELSE row.count
         /\ Stamped(Advanced(seen)).status = StatusAt(seen)
         /\ Stamped(Recorded(h)).child = row.child + 1
         /\ Stamped(Recorded(h)).count = row.count + 1
         /\ Stamped(Recorded(h)).status = StatusAt(row.count + 1)
<1>1. row \in Row
  BY DEF TypeOK
<1>2. \A n \in Nat : StatusAt(n) \in {"executed", "ready"}
  BY DEF StatusAt
<1>3. /\ Stamped(Advanced(seen)).child = row.child + 1
      /\ Stamped(Advanced(seen)).count = IF seen > row.count THEN seen ELSE row.count
      /\ Stamped(Advanced(seen)).status = StatusAt(seen)
  BY <1>1 DEF Stamped, Advanced, Row
<1>4. /\ Stamped(Recorded(h)).child = row.child + 1
      /\ Stamped(Recorded(h)).count = row.count + 1
      /\ Stamped(Recorded(h)).status = StatusAt(row.count + 1)
  BY <1>1 DEF Stamped, Recorded, Row
<1> QED BY <1>3, <1>4

\* What a step does to the cursor, and when.
LEMMA RowChanges ==
  ASSUME TypeOK, [Next]_vars
  PROVE  \/ row' = row
         \/ row.status = "none" /\ row' = NewRow
         \/ Tick /\ row' = AgedRow
         \/ \E r \in Runs : Claim(r) \/ RecordHash(r) \/ Write(r)
<1> USE DEF chain
<1>1. CASE UNCHANGED vars
  BY <1>1 DEF vars
<1>2. CASE Next
  BY <1>2, StepCases
  DEF Queue, Fetch, SettleKnown, SettleUnknown, ReadLedger, ReadIntent, ReadChild,
      Submit, NotPending, Refused, PollKnown, PollGone, PollTimeout, Interrupt,
      Include, IncludeFailed, OpenWindow, CloseWindow, Cancel, Tick
<1> QED BY <1>1, <1>2

\* The cursor moves by one, past the child a run acted on.
LEMMA CursorStep ==
  ASSUME TypeOK, [Next]_vars
  PROVE  \/ row'.child = row.child
         \/ row.status = "none" /\ row' = NewRow
         \/ /\ row'.child = row.child + 1 /\ row'.status # "executing"
            /\ \E r \in Runs : /\ run[r].op \in {"advance", "record"}
                               /\ run[r].child = row.child
<1>a. row \in Row
  BY DEF TypeOK
<1>1. ASSUME NEW r \in Runs, Claim(r) \/ RecordHash(r) PROVE row'.child = row.child
  BY <1>1, <1>a DEF Claim, RecordHash, UpdateRelayerJob, UpdateForChild, Stamped, Row
<1>2. ASSUME NEW r \in Runs, Write(r)
      PROVE  \/ row'.child = row.child
             \/ /\ row'.child = row.child + 1 /\ row'.status # "executing"
                /\ run[r].op \in {"advance", "record"} /\ run[r].child = row.child
  <2>1. run[r].seen \in Nat /\ run[r].tx \in Hashes \cup {NoTx}
    BY DEF TypeOK, Run
  <2>2. \A n : StatusAt(n) # "executing"
    BY DEF StatusAt
  <2>3. QED
    BY <1>2, <2>1, <2>2, Written, CursorMoves
<1>3. AgedRow.child = row.child
  BY <1>a DEF AgedRow, Row
<1> QED BY <1>1, <1>2, <1>3, RowChanges

\* The cursor only passes what it may.
LEMMA NoneSkippedStep ==
  ASSUME Recording, TypeOK, SkipInv, [Next]_vars
  PROVE  NoChildSkipped'
<1>1. consumed \subseteq consumed' /\ row.child \in Nat /\ MaxExec \in Nat
  BY ChainStep, Numbers DEF TypeOK, Row
<1>2. \A c \in 1..MaxExec : c < row.child => c \in consumed
  BY DEF SkipInv, NoChildSkipped
<1>3. CASE row'.child = row.child
  BY <1>1, <1>2, <1>3 DEF NoChildSkipped
<1>4. CASE row' = NewRow
  <2>1. row'.child = 1
    BY <1>4 DEF NewRow
  <2>2. QED
    BY <2>1 DEF NoChildSkipped
<1>5. ASSUME NEW r \in Runs, row'.child = row.child + 1,
             run[r].op \in {"advance", "record"}, run[r].child = row.child
      PROVE  NoChildSkipped'
  <2>1. Passable(row.child)
    BY <1>5 DEF SkipInv, OnTrack
  <2>2. \A c \in 1..MaxExec : c < row.child + 1 => c < row.child \/ c = row.child
    BY <1>1
  <2>3. \A c \in 1..MaxExec : c < row.child + 1 => c \in consumed
    BY <1>1, <1>2, <2>1, <2>2 DEF Passable
  <2>4. QED
    BY <1>1, <1>5, <2>3 DEF NoChildSkipped
<1> QED BY <1>3, <1>4, <1>5, CursorStep

\* A child the registry refuses may be passed.
LEMMA RefusedIsPassable ==
  ASSUME TypeOK, ChildInv, SkipInv, NEW r \in Runs, Refused(r), run[r].child = row.child
  PROVE  Passable(row.child)
<1>1. run[r].pc = "submit" /\ ~Executable(row.child) /\ window = "open" /\ ~cancelled
  BY DEF Refused, SkipInv, OnTrack
<1>2. row.child \in Nat /\ MaxExec \in Nat /\ IsFiniteSet(consumed)
  BY Numbers DEF TypeOK, Row
<1>3. consumed \subseteq 1..row.child /\ row.child >= 1
  BY <1>1 DEF ChildInv, NeverPaidAhead
<1>4. SUFFICES ASSUME row.child \notin consumed, row.child <= MaxExec PROVE FALSE
  BY <1>2 DEF Passable
<1>5. consumed \subseteq 1..(row.child - 1)
  BY <1>2, <1>3, <1>4
<1>6. 1 \in Int /\ row.child - 1 \in Int
  BY <1>2
<1>7. IsFiniteSet(1..(row.child - 1)) /\ Cardinality(1..(row.child - 1)) = row.child - 1
  <2>1. IsFiniteSet(1..(row.child - 1))
        /\ Cardinality(1..(row.child - 1)) =
             IF 1 > row.child - 1 THEN 0 ELSE row.child - 1 - 1 + 1
    BY <1>6, FS_Interval
  <2>2. QED
    BY <1>2, <1>3, <2>1
<1>8. Cardinality(consumed) \in Nat /\ Cardinality(consumed) <= row.child - 1
  <2>1. Cardinality(consumed) <= Cardinality(1..(row.child - 1))
    BY <1>5, <1>7, FS_Subset
  <2>2. QED
    BY <1>2, <1>7, <2>1, FS_CardinalityType
<1> QED BY <1>1, <1>2, <1>4, <1>8 DEF Executable

\* A run that sends goes on sending, or it records its hash, ends, or is
\* refused a child that may be passed.
LEMMA SenderMoves ==
  ASSUME Recording, TypeOK, ChildInv, SkipInv, [Next]_vars, NEW r \in Runs, Sends(r),
         row' = row \/ (Tick /\ row' = AgedRow)
  PROVE  Passable(row.child) \/ Sends(r)' \/ RecordHash(r) \/ Write(r)
<1> USE DEF chain
<1>a. /\ run[r] \in Run /\ run \in [Runs -> Run] /\ row \in Row
      /\ run[r].pc \in Unrecorded /\ run[r].pc # "idle"
      /\ run[r].child = row.child /\ row.age <= run[r].life
  BY DEF TypeOK, Sends, Unrecorded
<1>1. CASE run'[r] = run[r] /\ row' = row
  BY <1>1, <1>a DEF Sends
<1>2. CASE Tick
  <2>1. r \notin DyingRuns
    BY <1>2, <1>a DEF Tick, Recording
  <2>2. run'[r] = [run[r] EXCEPT !.life = @ + 1] /\ row' = AgedRow
    BY <1>2, <1>a, <2>1 DEF Tick, AgedRun
  <2>3. run'[r].life = run[r].life + 1 /\ run'[r].pc = run[r].pc
        /\ run'[r].child = run[r].child
    BY <1>a, <2>2 DEF Run
  <2>4. row'.child = row.child /\ row'.age <= row.age + 1 /\ row'.age \in Nat
        /\ row.age \in Nat /\ run[r].life \in Nat
    BY <1>a, <2>2, Numbers DEF AgedRow, Row, Run
  <2>5. QED
    BY <1>a, <2>3, <2>4 DEF Sends
<1>3. ASSUME NEW h \in Hashes, Submit(r, h) \/ NotPending(r, h), row' = row
      PROVE  Sends(r)'
  <2>1. \E p \in {"sent", "rejected"}, op \in Ops, g \in Hashes \cup {NoTx} :
          run'[r] = [run[r] EXCEPT !.pc = p, !.op = op, !.tx = g]
    BY <1>3, <1>a DEF Submit, NotPending, Follow, Ops
  <2>2. run'[r].pc \in Unrecorded /\ run'[r].child = run[r].child
        /\ run'[r].life = run[r].life
    BY <1>a, <2>1 DEF Run, Unrecorded
  <2>3. QED
    BY <1>3, <1>a, <2>2 DEF Sends
<1>4. CASE Refused(r)
  BY <1>4, <1>a, RefusedIsPassable
<1>5. run[r].pc \in {"submit", "sent", "rejected"} /\ run[r].pc \notin InterruptPoints
  BY <1>a DEF Unrecorded, Recording
<1>6. ~Fetch(r) /\ ~SettleKnown(r) /\ ~SettleUnknown(r) /\ ~ReadLedger(r) /\ ~ReadIntent(r)
      /\ ~ReadChild(r) /\ ~Claim(r) /\ ~PollKnown(r) /\ ~PollGone(r) /\ ~PollTimeout(r)
      /\ ~Interrupt(r)
  BY <1>5 DEF Fetch, SettleKnown, SettleUnknown, ReadLedger, ReadIntent, ReadChild, Claim,
              PollKnown, PollGone, PollTimeout, Interrupt
<1> QED
  <2>1. CASE Tick
    BY <1>2, <2>1
  <2>2. CASE ~Tick
    <3>1. row' = row
      BY <2>2
    <3>2. QED
      BY <1>1, <1>3, <1>4, <1>6, <2>2, <3>1, OtherRuns
  <2>3. QED
    BY <2>1, <2>2

\* The hash a run records is that of the child of the row.
LEMMA RecordedIsCurrent ==
  ASSUME TypeOK, SkipInv, NEW r \in Runs, RecordHash(r), run[r].child = row.child
  PROVE  HashIsCurrent'
<1>1. run[r] \in Run /\ row \in Row /\ run[r].pc = "sent" /\ OnTrack(r) /\ txs' = txs
  BY DEF RecordHash, SkipInv, TypeOK
<1>2. row'.hash = run[r].tx /\ row'.child = row.child
  BY <1>1 DEF RecordHash, UpdateForChild, Stamped, Row
<1>3. txs'[row'.hash].child = row'.child
  BY <1>1, <1>2 DEF OnTrack
<1> QED BY <1>3 DEF HashIsCurrent

\* HashIsCurrent is preserved by every step.
LEMMA HashStep ==
  ASSUME Recording, TypeOK, ChildInv, LeaseInv, SkipInv, [Next]_vars
  PROVE  HashIsCurrent'
<1>a. /\ run \in [Runs -> Run] /\ row \in Row /\ HashIsCurrent
      /\ consumed \subseteq consumed'
  BY ChainStep DEF TypeOK, SkipInv
<1>1. CASE row' = row \/ (Tick /\ row' = AgedRow)
  <2>1. row'.status = row.status /\ row'.hash = row.hash /\ row'.child = row.child
    BY <1>1, <1>a DEF AgedRow, Row
  <2>2. SUFFICES ASSUME row.status = "executing", row.hash # NoTx PROVE HashIsCurrent'
    BY <2>1 DEF HashIsCurrent
  <2>3. CASE Passable(row.child)
    BY <1>a, <2>1, <2>3 DEF HashIsCurrent, Passable
  <2>4. CASE txs[row.hash].child = row.child
    <3>1. row.hash \in Hashes /\ txs[row.hash].state # "unused"
      BY <1>a, <2>2 DEF LeaseInv, Row
    <3>2. txs'[row.hash].child = txs[row.hash].child
      BY <3>1, TxPays DEF SkipInv
    <3>3. QED
      BY <2>1, <2>4, <3>2 DEF HashIsCurrent
  <2>5. ASSUME NEW r \in Runs, Sends(r) PROVE HashIsCurrent'
    <3>1. run[r].child = row.child
      BY <2>5 DEF Sends
    <3>2. CASE Sends(r)'
      BY <3>2 DEF HashIsCurrent
    <3>3. CASE RecordHash(r)
      BY <3>1, <3>3, RecordedIsCurrent
    <3>4. CASE Write(r)
      <4>1. row'.status # "executing"
        <5>1. \A n : StatusAt(n) # "executing"
          BY DEF StatusAt
        <5>2. run[r].seen \in Nat /\ run[r].tx \in Hashes \cup {NoTx}
          BY DEF TypeOK, Run
        <5>3. QED
          BY <3>1, <3>4, <5>1, <5>2, Written, CursorMoves
      <4>2. QED
        BY <4>1 DEF HashIsCurrent
    <3>5. QED
      BY <1>1, <2>3, <2>5, <3>2, <3>3, <3>4, SenderMoves
  <2>6. QED
    BY <1>a, <2>2, <2>3, <2>4, <2>5 DEF HashIsCurrent
<1>2. CASE row' = NewRow
  BY <1>2 DEF HashIsCurrent, NewRow
<1>3. ASSUME NEW r \in Runs, Claim(r) PROVE HashIsCurrent'
  <2>1. CASE row' = row
    BY <1>1, <2>1
  <2>2. CASE row' # row
    <3>1. row'.age = 0 /\ row'.child = row.child /\ row.child = run[r].child
      BY <1>3, <1>a, <2>2 DEF Claim, MayClaim, UpdateRelayerJob, Stamped, Row
    <3>2. run'[r] = [run[r] EXCEPT !.pc = "submit"]
      BY <1>3, <1>a, <2>2 DEF Claim, Goto
    <3>3. run'[r].pc = "submit" /\ run'[r].child = run[r].child /\ 0 <= run'[r].life
      BY <1>a, <3>2 DEF Run
    <3>4. Sends(r)'
      BY <3>1, <3>3 DEF Sends, Unrecorded
    <3>5. QED
      BY <3>4 DEF HashIsCurrent
  <2>3. QED
    BY <2>1, <2>2
<1>4. ASSUME NEW r \in Runs, RecordHash(r) PROVE HashIsCurrent'
  <2>1. CASE run[r].child = row.child
    BY <1>4, <2>1, RecordedIsCurrent
  <2>2. CASE run[r].child # row.child
    BY <1>1, <1>4, <2>2 DEF RecordHash, UpdateForChild
  <2>3. QED
    BY <2>1, <2>2
<1>5. ASSUME NEW r \in Runs, Write(r) PROVE HashIsCurrent'
  <2>1. CASE row' = row
    BY <1>1, <2>1
  <2>2. CASE row'.status # "executing"
    BY <2>2 DEF HashIsCurrent
  <2>3. row' = row \/ row'.status # "executing"
    <3>1. \A n : StatusAt(n) # "executing"
      BY DEF StatusAt
    <3>2. run[r].seen \in Nat /\ run[r].tx \in Hashes \cup {NoTx}
      BY DEF TypeOK, Run
    <3>3. QED
      BY <1>5, <3>1, <3>2, Written, CursorMoves
  <2>4. QED
    BY <2>1, <2>2, <2>3
<1> QED BY <1>1, <1>2, <1>3, <1>4, <1>5, RowChanges

LEMMA SkipStep == Recording /\ RelayerInv /\ SkipInv /\ [Next]_vars => SkipInv'
<1> SUFFICES ASSUME Recording, RelayerInv, SkipInv, [Next]_vars PROVE SkipInv'
  OBVIOUS
<1>1. TypeOK /\ ChildInv /\ LeaseInv
  BY DEF RelayerInv
<1>2. cancelled' = cancelled
  BY <1>1, ChainStep
<1>3. \A h \in Hashes : txs'[h].state = "success" => txs'[h].child \in consumed'
  BY <1>1, TxPays DEF SkipInv
<1>4. \A r \in Runs : OnTrack(r)'
  BY <1>1, OnTrackStep
<1> QED BY <1>1, <1>2, <1>3, <1>4, HashStep, NoneSkippedStep DEF SkipInv

LEMMA InitSkip == Init => SkipInv
<1> SUFFICES ASSUME Init PROVE SkipInv
  OBVIOUS
<1>1. MaxExec \in Nat
  BY Numbers
<1>2. NoChildSkipped
  BY <1>1 DEF Init, NoChildSkipped
<1>3. \A r \in Runs : OnTrack(r)
  BY DEF Init, OnTrack, IdleRun
<1>4. HashIsCurrent
  BY DEF Init, HashIsCurrent
<1> QED BY <1>2, <1>3, <1>4 DEF Init, SkipInv

-----------------------------------------------------------------------------
(* CountNotAhead and ExecutedOnlyWhenPaid, in the same environments.       *)

\* A run whose copy of the job is full writes nothing but its end.
Knows(r) ==
  /\ run[r].pc # "idle" /\ run[r].child = row.child =>
       (run[r].full <=> row.count >= MaxExec)
  /\ run[r].full => /\ run[r].pc \in {"idle", "ledger", "write"}
                    /\ run[r].op \in {"none", "limit"}
  /\ run[r].seen <= row.child /\ run[r].seen <= Cardinality(consumed)

\* The count stays behind the cursor and inside the limit, below it while an
\* execution is in flight.
CountInv ==
  /\ row.status = "none" => row.count = 0
  /\ row.status # "none" => row.count < row.child
  /\ row.count <= MaxExec
  /\ row.status = "executing" => row.count < MaxExec
  /\ Cardinality(consumed) <= MaxExec
  /\ \A r \in Runs : Knows(r)
  /\ ExecutedOnlyWhenPaid

\* The registry consumes one child at a time and no more than the limit.
LEMMA PaidWithinLimit ==
  ASSUME TypeOK, Cardinality(consumed) <= MaxExec, [Next]_vars
  PROVE  /\ Cardinality(consumed') <= MaxExec
         /\ Cardinality(consumed) <= Cardinality(consumed')
         /\ Cardinality(consumed) \in Nat /\ Cardinality(consumed') \in Nat
<1> USE DEF chain
<1>a. IsFiniteSet(consumed) /\ IsFiniteSet(consumed') /\ MaxExec \in Nat
      /\ Cardinality(consumed) \in Nat /\ Cardinality(consumed') \in Nat
  BY TypeStep, Numbers, FS_CardinalityType DEF TypeOK
<1>1. \/ consumed' = consumed
      \/ \E c : Executable(c) /\ consumed' = consumed \cup {c}
  <2>1. CASE UNCHANGED vars
    BY <2>1 DEF vars
  <2>2. CASE Next
    BY <2>2, StepCases
    DEF Queue, Fetch, SettleKnown, SettleUnknown, ReadLedger, ReadIntent, ReadChild,
        Claim, Submit, NotPending, Refused, RecordHash, PollKnown, PollGone,
        PollTimeout, Write, Interrupt, Include, IncludeFailed, OpenWindow,
        CloseWindow, Cancel, Tick
  <2>3. QED
    BY <2>1, <2>2
<1>2. ASSUME NEW c, Executable(c), consumed' = consumed \cup {c}
      PROVE  Cardinality(consumed') = Cardinality(consumed) + 1
             /\ Cardinality(consumed) < MaxExec
  BY <1>2, <1>a, FS_AddElement DEF Executable
<1> QED BY <1>1, <1>2, <1>a

\* A count behind the cursor and inside the limit is one of paid executions.
LEMMA CountIsPaid ==
  ASSUME TypeOK, NoChildSkipped, NEW n \in Nat, n <= MaxExec, n = 0 \/ n < row.child
  PROVE  n <= Cardinality(consumed)
<1>1. IsFiniteSet(consumed) /\ row.child \in Nat /\ MaxExec \in Nat
  BY Numbers DEF TypeOK, Row
<1>2. 1..n \subseteq consumed
  BY <1>1 DEF NoChildSkipped
<1>3. 1 \in Int /\ n \in Int
  OBVIOUS
<1>4. Cardinality(1..n) = IF 1 > n THEN 0 ELSE n - 1 + 1
  BY <1>3, FS_Interval
<1>5. Cardinality(1..n) <= Cardinality(consumed)
  BY <1>1, <1>2, FS_Subset
<1> QED BY <1>4, <1>5

\* What a step does to the count and the cursor.
LEMMA CountStep ==
  ASSUME Recording, RelayerInv, SkipInv, CountInv, [Next]_vars
  PROVE  \/ row'.child = row.child /\ row'.count = row.count
            /\ (row'.status = "none" <=> row.status = "none")
            /\ (row'.status = "executed" => row.status = "executed")
            /\ (row'.status = "executing" => row.count < MaxExec)
         \/ row.status = "none" /\ row' = NewRow
         \/ /\ row'.child = row.child + 1 /\ row'.status \in {"ready", "executed"}
            /\ row.count <= row'.count /\ row'.count <= row.child /\ row'.count <= MaxExec
            /\ row'.status = "executed" =>
                 row'.count >= MaxExec
<1> USE DEF RelayerInv, CountInv
<1>a. row \in Row /\ row.child \in Nat /\ row.count \in Nat /\ MaxExec \in Nat
      /\ (row.status = "none" <=> row.child = 0)
  BY Numbers DEF TypeOK, Row, ChildInv
<1>1. CASE row' = row
  BY <1>1
<1>2. CASE Tick /\ row' = AgedRow
  <2>1. AgedRow.child = row.child /\ AgedRow.count = row.count /\ AgedRow.status = row.status
    BY <1>a DEF AgedRow, Row
  <2>2. QED
    BY <1>2, <2>1
<1>3. ASSUME NEW r \in Runs, row.child = run[r].child, run[r].pc \in {"claim", "sent"}
      PROVE  row.count < MaxExec /\ row.status # "none"
  <2>1. ~run[r].full /\ row.status # "none"
    BY <1>3, <1>a DEF Knows, ChildInv, TypeOK, Run
  <2>2. QED
    BY <1>3, <1>a, <2>1 DEF Knows
<1>4. ASSUME NEW r \in Runs, Claim(r) \/ RecordHash(r), row' # row
      PROVE  /\ row'.child = row.child /\ row'.count = row.count /\ row'.status = "executing"
             /\ row.count < MaxExec /\ row.status # "none"
  <2>1. row.child = run[r].child /\ run[r].pc \in {"claim", "sent"}
    BY <1>4 DEF Claim, RecordHash, MayClaim, UpdateForChild
  <2>2. row'.child = row.child /\ row'.count = row.count /\ row'.status = "executing"
    BY <1>4, <1>a, <2>1 DEF Claim, RecordHash, UpdateRelayerJob, UpdateForChild, Stamped, Row
  <2>3. QED
    BY <1>3, <2>1, <2>2
<1>5. ASSUME NEW r \in Runs, Write(r), row' # row, row.status # "none"
      PROVE  \/ /\ row'.child = row.child /\ row'.count = row.count
                /\ row'.status \notin {"none", "executing", "executed"}
             \/ /\ row'.child = row.child + 1 /\ row'.status \in {"ready", "executed"}
                /\ row.count <= row'.count /\ row'.count <= row.child /\ row'.count <= MaxExec
                /\ row'.status = "executed" => row'.count >= MaxExec
  <2>1. run[r].seen \in Nat /\ run[r].tx \in Hashes \cup {NoTx} /\ run[r].op # "cancelled"
        /\ run[r].pc # "idle"
    BY <1>5 DEF TypeOK, Run, SkipInv, OnTrack, Write
  <2>2. CASE run[r].op = "advance" /\ row' = Stamped(Advanced(run[r].seen))
    <3>1. /\ row'.child = row.child + 1 /\ row'.status = StatusAt(run[r].seen)
          /\ row'.count = IF run[r].seen > row.count THEN run[r].seen ELSE row.count
      BY <2>1, <2>2, CursorMoves
    <3>2. run[r].seen <= row.child /\ run[r].seen <= MaxExec
      <4>1. run[r].seen <= row.child /\ run[r].seen <= Cardinality(consumed)
        BY DEF Knows
      <4>2. Cardinality(consumed) \in Nat
        BY FS_CardinalityType DEF TypeOK
      <4>3. QED
        BY <1>a, <2>1, <4>1, <4>2
    <3>3. row.count < row.child
      BY <1>5
    <3>4. QED
      BY <1>a, <2>1, <3>1, <3>2, <3>3 DEF StatusAt
  <2>3. CASE run[r].op = "record" /\ row.child = run[r].child
             /\ row' = Stamped(Recorded(run[r].tx))
    <3>1. /\ row'.child = row.child + 1 /\ row'.status = StatusAt(row.count + 1)
          /\ row'.count = row.count + 1
      BY <2>1, <2>3, CursorMoves
    <3>2. row.count < MaxExec
      BY <1>a, <2>1, <2>3 DEF Knows
    <3>3. row.count < row.child
      BY <1>5
    <3>4. QED
      BY <1>a, <3>1, <3>2, <3>3 DEF StatusAt
  <2>4. QED
    BY <1>5, <2>1, <2>2, <2>3, Written
<1>6. ASSUME NEW r \in Runs, Write(r) PROVE row.status # "none"
  BY <1>6, <1>a DEF Write, ChildInv, TypeOK, Run
<1> QED BY <1>1, <1>2, <1>4, <1>5, <1>6, RowChanges

\* What a run reads of the count is not ahead of the chain, nor of the cursor.
LEMMA KnowsStep ==
  ASSUME Recording, RelayerInv, SkipInv, CountInv, [Next]_vars, NEW r \in Runs
  PROVE  Knows(r)'
<1> USE DEF RelayerInv, CountInv, chain
<1>a. /\ row \in Row /\ row' \in Row /\ run[r] \in Run /\ run \in [Runs -> Run]
      /\ row.child \in Nat /\ row'.child \in Nat /\ row.count \in Nat /\ row'.count \in Nat
      /\ MaxExec \in Nat /\ run[r].seen \in Nat /\ run[r].child \in Nat
      /\ run[r].child <= row.child /\ Knows(r)
  BY TypeStep, Numbers DEF TypeOK, Row, Run, ChildInv
<1>b. /\ Cardinality(consumed) <= Cardinality(consumed')
      /\ Cardinality(consumed) \in Nat /\ Cardinality(consumed') \in Nat
  BY PaidWithinLimit
<1>c. /\ row.child <= row'.child
      /\ row'.child = row.child => row'.count = row.count
  <2>1. row.status = "none" => row.child = 0
    BY DEF ChildInv
  <2>2. CASE row.status = "none" /\ row' = NewRow
    BY <2>1, <2>2 DEF NewRow
  <2>3. QED
    BY <1>a, <2>2, CountStep
<1>1. run'[r] = IdleRun => Knows(r)'
  BY <1>a, <1>b DEF Knows, IdleRun
<1>2. ASSUME run'[r].child = run[r].child, run'[r].full = run[r].full,
             run'[r].seen = run[r].seen, run[r].pc # "idle" \/ run'[r].pc = "idle",
             run[r].full => /\ run'[r].pc \in {"idle", "ledger", "write"}
                            /\ run'[r].op \in {"none", "limit"}
      PROVE  Knows(r)'
  BY <1>2, <1>a, <1>b, <1>c DEF Knows
<1>3. run'[r] = run[r] => Knows(r)'
  BY <1>2, <1>a DEF Knows
<1>4. CASE Tick
  <2>1. run'[r] = AgedRun(r)
    BY <1>4 DEF Tick
  <2>2. CASE run'[r] # IdleRun /\ run'[r] # run[r]
    <3>1. run'[r] = [run[r] EXCEPT !.life = @ + 1] /\ run[r].pc # "idle"
      BY <2>1, <2>2 DEF AgedRun
    <3>2. QED
      BY <1>2, <1>a, <3>1 DEF Knows, Run
  <2>3. QED
    BY <1>1, <1>3, <2>2
<1>5. CASE Fetch(r)
  <2>1. /\ run'[r].child = row.child
        /\ run'[r].full <=> row.count >= MaxExec
        /\ run'[r].op = "none" /\ run'[r].seen = 0 /\ row' = row
        /\ run'[r].pc \in {"settle", "ledger"}
        /\ run'[r].pc = "settle" => row.status = "executing"
    BY <1>5, <1>a DEF Fetch, IdleRun
  <2>2. run'[r].pc = "settle" => ~(row.count >= MaxExec)
    BY <1>a, <2>1
  <2>3. QED
    BY <1>a, <1>b, <2>1, <2>2 DEF Knows
<1>6. CASE ReadIntent(r)
  <2>1. /\ run'[r] = [run[r] EXCEPT !.pc = "child", !.seen = Cardinality(consumed),
                                    !.op = IF cancelled THEN "cancelled" ELSE "none"]
        /\ run[r].pc = "intent" /\ row' = row /\ consumed' = consumed
    BY <1>6, <1>a, MovedRun DEF ReadIntent
  <2>2. /\ run'[r].child = run[r].child /\ run'[r].full = run[r].full
        /\ run'[r].seen = Cardinality(consumed) /\ ~run[r].full
    BY <1>a, <2>1 DEF Run, Knows
  <2>3. Cardinality(consumed) <= row.child
    <3>1. consumed \subseteq 1..row.child /\ 1 \in Int /\ row.child \in Int
      BY <1>a DEF ChildInv, NeverPaidAhead
    <3>2. IsFiniteSet(1..row.child)
          /\ Cardinality(1..row.child) = IF 1 > row.child THEN 0 ELSE row.child - 1 + 1
      BY <3>1, FS_Interval
    <3>3. Cardinality(consumed) <= Cardinality(1..row.child)
      BY <3>1, <3>2, FS_Subset
    <3>4. QED
      BY <1>a, <1>b, <3>2, <3>3
  <2>4. QED
    BY <1>a, <1>b, <2>1, <2>2, <2>3 DEF Knows
<1>7. CASE ReadLedger(r)
  <2>1. /\ run[r].pc = "ledger"
        /\ \/ run'[r] = [run[r] EXCEPT !.pc = "write", !.op = "limit"]
           \/ /\ ~run[r].full
              /\ \E p \in {"write", "intent"}, op \in Ops :
                   run'[r] = [run[r] EXCEPT !.pc = p, !.op = op]
    <3>1. ASSUME Goto(r, "intent")
          PROVE  run'[r] = [run[r] EXCEPT !.pc = "intent", !.op = run[r].op]
                 /\ run[r].op \in Ops
      BY <3>1, <1>a DEF Goto, Run
    <3>2. {"early", "late"} \subseteq Ops
      BY DEF Ops
    <3>3. QED
      BY <1>7, <1>a, <3>1, <3>2, MovedRun DEF ReadLedger
  <2>2. /\ run'[r].child = run[r].child /\ run'[r].full = run[r].full
        /\ run'[r].seen = run[r].seen
        /\ run[r].full => run'[r].pc = "write" /\ run'[r].op = "limit"
    <3>0. run[r] \in Run
      BY <1>a
    <3>1. CASE run'[r] = [run[r] EXCEPT !.pc = "write", !.op = "limit"]
      BY <3>0, <3>1 DEF Run
    <3>2. ASSUME NEW p \in {"write", "intent"}, NEW op \in Ops, ~run[r].full,
                 run'[r] = [run[r] EXCEPT !.pc = p, !.op = op]
          PROVE  run'[r].child = run[r].child /\ run'[r].full = run[r].full
                 /\ run'[r].seen = run[r].seen
      BY <3>0, <3>2 DEF Run
    <3>3. QED
      BY <2>1, <3>1, <3>2
  <2>3. QED
    BY <1>2, <2>1, <2>2
<1>8. ASSUME Moves(r), run[r].pc \notin {"idle", "ledger", "write"} PROVE Knows(r)'
  <2>1. ~run[r].full
    BY <1>8, <1>a DEF Knows
  <2>2. \/ run'[r] = IdleRun
        \/ /\ run'[r].child = run[r].child /\ run'[r].full = run[r].full
           /\ run'[r].seen = run[r].seen
    <3>1. CASE \E p \in RunPoints : Goto(r, p)
      BY <1>a, <3>1 DEF Goto, Run
    <3>2. CASE \E op \in Ops : DecideOn(r, op)
      BY <1>a, <3>2 DEF DecideOn, Run
    <3>3. CASE \E p \in RunPoints, op \in Ops, h \in Hashes \cup {NoTx} : Follow(r, h, p, op)
      BY <1>a, <3>3 DEF Follow, Run
    <3>4. CASE Finish(r)
      BY <1>a, <3>4, MovedRun
    <3>5. QED
      BY <1>8, <3>1, <3>2, <3>3, <3>4 DEF Moves
  <2>3. QED
    BY <1>1, <1>2, <1>8, <2>1, <2>2
<1>9. CASE \/ SettleKnown(r) \/ SettleUnknown(r) \/ ReadChild(r) \/ Claim(r)
           \/ (\E h \in Hashes : Submit(r, h) \/ NotPending(r, h))
           \/ RecordHash(r) \/ PollKnown(r) \/ PollGone(r) \/ PollTimeout(r)
  <2>1. run[r].pc \notin {"idle", "ledger", "write"}
    BY <1>9 DEF SettleKnown, SettleUnknown, ReadChild, Claim, Submit, NotPending,
                RecordHash, PollKnown, PollGone, PollTimeout
  <2>2. QED
    BY <1>8, <1>9, <2>1, RunMoves
<1>10. CASE Refused(r) \/ Write(r) \/ Interrupt(r)
  BY <1>1, <1>10, <1>a, MovedRun DEF Refused, Write, Interrupt
<1> QED
  BY <1>3, <1>4, <1>5, <1>6, <1>7, <1>9, <1>10, OtherRuns

\* CountInv is preserved by every step.
LEMMA CountedStep == Recording /\ RelayerInv /\ SkipInv /\ CountInv /\ [Next]_vars => CountInv'
<1> SUFFICES ASSUME Recording, RelayerInv, SkipInv, CountInv, [Next]_vars PROVE CountInv'
  OBVIOUS
<1>a. /\ TypeOK /\ TypeOK' /\ ChildInv /\ NoChildSkipped'
      /\ row.child \in Nat /\ row.count \in Nat /\ row'.count \in Nat /\ row'.child \in Nat
      /\ MaxExec \in Nat /\ MaxExec > 0
  BY TypeStep, SkipStep, Numbers, BoundsAssumption DEF RelayerInv, SkipInv, TypeOK, Row
<1>1. Cardinality(consumed') <= MaxExec /\ Cardinality(consumed) <= Cardinality(consumed')
      /\ Cardinality(consumed) \in Nat /\ Cardinality(consumed') \in Nat
  BY <1>a, PaidWithinLimit DEF CountInv
<1>2. /\ row'.status = "none" => row'.count = 0
      /\ row'.status # "none" => row'.count < row'.child
      /\ row'.count <= MaxExec
      /\ row'.status = "executing" => row'.count < MaxExec
      /\ row'.status = "executed" => row.status = "executed" \/ row'.count >= MaxExec
  BY <1>a, CountStep DEF CountInv, NewRow
<1>3. ExecutedOnlyWhenPaid'
  <2>1. SUFFICES ASSUME row'.status = "executed" PROVE Cardinality(consumed') = MaxExec
    BY DEF ExecutedOnlyWhenPaid
  <2>2. CASE row.status = "executed"
    BY <1>1, <1>a, <2>2 DEF CountInv, ExecutedOnlyWhenPaid
  <2>3. CASE row'.count >= MaxExec
    <3>1. row'.count <= Cardinality(consumed')
      <4>1. row'.count < row'.child
        BY <1>2, <2>1
      <4>2. IsFiniteSet(consumed') /\ 1..row'.count \subseteq consumed'
        BY <1>a, <1>2, <4>1 DEF NoChildSkipped, TypeOK
      <4>3. Cardinality(1..row'.count) <= Cardinality(consumed')
        BY <4>2, FS_Subset
      <4>4. 1 \in Int /\ row'.count \in Int
        BY <1>a
      <4>5. Cardinality(1..row'.count) =
              IF 1 > row'.count THEN 0 ELSE row'.count - 1 + 1
        BY <4>4, FS_Interval
      <4>6. QED
        BY <1>a, <4>3, <4>5
    <3>2. QED
      BY <1>1, <1>a, <2>3, <3>1
  <2>4. QED
    BY <1>2, <2>1, <2>2, <2>3
<1>4. \A r \in Runs : Knows(r)'
  BY KnowsStep
<1> QED BY <1>1, <1>2, <1>3, <1>4 DEF CountInv

LEMMA InitCount == Init => CountInv
<1> SUFFICES ASSUME Init PROVE CountInv
  OBVIOUS
<1>1. MaxExec \in Nat /\ Cardinality(consumed) = 0 /\ row.child = 0 /\ row.count = 0
      /\ row.status = "none"
  BY Numbers, FS_EmptySet DEF Init
<1>2. \A r \in Runs : Knows(r)
  BY <1>1 DEF Init, Knows, IdleRun
<1> QED BY <1>1, <1>2 DEF CountInv, ExecutedOnlyWhenPaid

\* The inductive invariant of a relayer that loses no run before its hash is
\* recorded.
THEOREM RecordingInvariant == Recording => (Spec => [](RelayerInv /\ SkipInv /\ CountInv))
<1> SUFFICES ASSUME Recording PROVE Spec => [](RelayerInv /\ SkipInv /\ CountInv)
  OBVIOUS
<1> DEFINE Inv == RelayerInv /\ SkipInv /\ CountInv
<1>1. Init => Inv
  BY InitInv, InitSkip, InitCount
<1>2. Inv /\ [Next]_vars => Inv'
  BY SkipStep, CountedStep, TypeStep, ChildStep, LeaseStep DEF RelayerInv
<1>3. QED
  BY <1>1, <1>2, PTL DEF Spec

\* There the cursor passes only children the chain has consumed, for any
\* number of runs, however the outcomes, the polls and the clock fall
\* (settleInterruptedSubmission, the txHash the claim keeps).
THEOREM NoneIsSkipped == Recording => (Spec => []NoChildSkipped)
<1>1. RelayerInv /\ SkipInv /\ CountInv => NoChildSkipped
  BY DEF SkipInv
<1>2. QED
  BY <1>1, RecordingInvariant, PTL

\* There the store counts no execution the chain has not made, although the
\* count is taken from the chain or added to by a run with an older copy
\* (recordExecution, the advance past a consumed child).
THEOREM CountIsOfPayments == Recording => (Spec => []CountNotAhead)
<1>1. RelayerInv /\ SkipInv /\ CountInv => CountNotAhead
  <2>1. SUFFICES ASSUME RelayerInv, SkipInv, CountInv PROVE CountNotAhead
    OBVIOUS
  <2>2. TypeOK /\ NoChildSkipped /\ row.count \in Nat
        /\ row.count <= MaxExec /\ (row.count = 0 \/ row.count < row.child)
    BY <2>1 DEF RelayerInv, SkipInv, CountInv, TypeOK, Row
  <2>3. QED
    BY <2>2, CountIsPaid DEF CountNotAhead
<1>2. QED
  BY <1>1, RecordingInvariant, PTL

\* There a job is reported executed only when the chain has made every
\* execution of the intent.
THEOREM ExecutedIsPaid == Recording => (Spec => []ExecutedOnlyWhenPaid)
<1>1. RelayerInv /\ SkipInv /\ CountInv => ExecutedOnlyWhenPaid
  BY DEF CountInv
<1>2. QED
  BY <1>1, RecordingInvariant, PTL

-----------------------------------------------------------------------------
(* TerminalIsFinal, where the batch alone runs the job and neither the     *)
(* owner nor the end of the window intervenes.  A run by hand, a           *)
(* cancellation or a closed window reports a job blocked whatever the row  *)
(* holds by then, and a payment still in flight is recorded over that.     *)

BatchOnly == ConsoleRuns = {} /\ ~MayCancel /\ ~MayClose

\* A run under way has nothing unconditional to write, and the job it acts on
\* is done only once the cursor is past the child of every run.
FinalInv ==
  /\ row.status # "blocked" /\ ~cancelled
  /\ \A r \in Runs : run[r].pc # "idle" =>
       /\ window = "open" /\ ~run[r].full
       /\ run[r].op \notin {"limit", "early", "late", "cancelled"}
       /\ row.status = "executed" => run[r].child < row.child

\* The batch takes only jobs that are due.
LEMMA TakesDueOnly ==
  ASSUME BatchOnly, TypeOK, [Next]_vars, NEW r \in Runs,
         run[r].pc = "idle", run'[r].pc # "idle"
  PROVE  Fetch(r) /\ IsDue(row)
<1>a. run \in [Runs -> Run]
  BY DEF TypeOK
<1>1. CASE \E s \in Runs : FetchDue(s)
  <2>1. PICK s \in Runs : FetchDue(s)
    BY <1>1
  <2>2. \E x : run' = [run EXCEPT ![s] = x]
    BY <2>1 DEF FetchDue, Fetch
  <2>3. s = r
    BY <1>a, <2>2
  <2>4. QED
    BY <2>1, <2>3 DEF FetchDue
<1>2. CASE ~\E s \in Runs : FetchDue(s)
  <2>1. ~\E s \in Runs : FetchById(s)
    BY DEF FetchById, BatchOnly
  <2>2. CASE UNCHANGED vars \/ Queue \/ OpenWindow \/ CloseWindow \/ Cancel
             \/ \E h \in Hashes : Include(h) \/ IncludeFailed(h)
    BY <2>2 DEF vars, Queue, OpenWindow, CloseWindow, Cancel, Include, IncludeFailed
  <2>3. CASE Tick
    BY <2>3 DEF Tick, AgedRun, DyingRuns, IdleRun
  <2>4. ASSUME NEW s \in Runs, run[s].pc # "idle", Moves(s) PROVE FALSE
    <3>1. s # r
      BY <2>4
    <3>2. QED
      BY <1>a, <2>4, <3>1, MoveIsLocal
  <2>5. ASSUME NEW s \in Runs, ReadIntent(s) PROVE FALSE
    <3>1. s # r
      BY <2>5 DEF ReadIntent
    <3>2. QED
      BY <1>a, <2>5, <3>1 DEF ReadIntent
  <2>6. QED
    BY <1>2, <2>1, <2>2, <2>3, <2>4, <2>5, RunMoves DEF Next, RunStep
<1> QED BY <1>1, <1>2

\* What the batch cannot undo: the intent stays open and is not cancelled.
LEMMA StaysOpen ==
  ASSUME BatchOnly, [Next]_vars
  PROVE  /\ cancelled' = cancelled
         /\ window = "open" => window' = "open"
<1> USE DEF chain
<1>1. CASE UNCHANGED vars
  BY <1>1 DEF vars
<1>2. CASE Next
  BY <1>2, StepCases
  DEF BatchOnly, Queue, Fetch, SettleKnown, SettleUnknown, ReadLedger, ReadIntent,
      ReadChild, Claim, Submit, NotPending, Refused, RecordHash, PollKnown, PollGone,
      PollTimeout, Write, Interrupt, Include, IncludeFailed, OpenWindow,
      CloseWindow, Cancel, Tick
<1> QED BY <1>1, <1>2

\* A run decides on nothing that is written whatever the row holds.
LEMMA DecidesGuarded ==
  ASSUME BatchOnly, TypeOK, FinalInv, [Next]_vars, NEW r \in Runs,
         run[r].pc # "idle", run'[r].pc # "idle"
  PROVE  /\ run'[r].full = run[r].full /\ run'[r].child = run[r].child
         /\ run'[r].op \notin {"limit", "early", "late", "cancelled"}
<1> USE DEF chain
<1>a. /\ run \in [Runs -> Run] /\ run[r] \in Run /\ ~cancelled /\ window = "open"
      /\ ~run[r].full /\ run[r].op \notin {"limit", "early", "late", "cancelled"}
  BY DEF TypeOK, FinalInv
<1>1. CASE run'[r] = run[r]
  BY <1>1, <1>a
<1>2. CASE Tick
  <2>1. run'[r] = AgedRun(r) /\ r \notin DyingRuns
    BY <1>2, <1>a DEF Tick, AgedRun, IdleRun
  <2>2. run'[r] = [run[r] EXCEPT !.life = @ + 1]
    BY <2>1 DEF AgedRun
  <2>3. QED
    BY <1>a, <2>2 DEF Run
<1>3. CASE ReadIntent(r)
  <2>1. run'[r] = [run[r] EXCEPT !.pc = "child", !.seen = Cardinality(consumed),
                                 !.op = "none"]
    BY <1>3, <1>a, MovedRun
  <2>2. QED
    BY <1>a, <2>1 DEF Run
<1>4. ASSUME NEW h \in Hashes, Submit(r, h) \/ NotPending(r, h)
      PROVE  /\ run'[r].full = run[r].full /\ run'[r].child = run[r].child
             /\ run'[r].op \in {"none", "reject", "retry", "pending"}
  <2>1. \E p \in {"sent", "rejected"}, op \in {"none", "reject", "retry", "pending"},
           g \in {h, NoTx} : Follow(r, g, p, op)
    BY <1>4 DEF Submit, NotPending
  <2>2. QED
    BY <1>a, <2>1 DEF Follow, Run
<1>5. ASSUME \E p : run'[r] = [run[r] EXCEPT !.pc = p]
      PROVE  /\ run'[r].full = run[r].full /\ run'[r].child = run[r].child
             /\ run'[r].op = run[r].op
  BY <1>5, <1>a DEF Run
<1>6. ASSUME \E op \in {"advance", "record", "fail", "pending"} :
               run'[r] = [run[r] EXCEPT !.pc = "write", !.op = op]
      PROVE  /\ run'[r].full = run[r].full /\ run'[r].child = run[r].child
             /\ run'[r].op \in {"advance", "record", "fail", "pending"}
  BY <1>6, <1>a DEF Run
<1>7. CASE SettleKnown(r) \/ PollKnown(r) \/ PollGone(r) \/ PollTimeout(r)
  <2>1. \E op \in {"record", "fail", "pending"} : DecideOn(r, op)
    BY <1>7, OutcomeType DEF SettleKnown, PollKnown, PollGone, PollTimeout
  <2>2. QED
    BY <1>6, <1>a, <2>1, MovedRun
<1>8. CASE SettleUnknown(r) \/ ReadLedger(r) \/ ReadChild(r) \/ RecordHash(r)
  <2>1. DecideOn(r, "advance") \/ \E p : Goto(r, p)
    BY <1>8, <1>a DEF SettleUnknown, ReadLedger, ReadChild, RecordHash
  <2>2. QED
    BY <1>5, <1>6, <1>a, <2>1, MovedRun
<1>9. CASE Claim(r) \/ Refused(r) \/ Write(r) \/ Interrupt(r)
  <2>1. Goto(r, "submit") \/ Finish(r)
    BY <1>9 DEF Claim, Refused, Write, Interrupt
  <2>2. ~Finish(r)
    <3>1. Finish(r) => run'[r] = IdleRun
      BY <1>a, MovedRun
    <3>2. QED
      BY <3>1 DEF IdleRun
  <2>3. QED
    BY <1>5, <1>a, <2>1, <2>2, MovedRun
<1>10. ~Fetch(r)
  BY DEF Fetch
<1> QED BY <1>1, <1>2, <1>3, <1>4, <1>7, <1>8, <1>9, <1>10, OtherRuns

\* A job that is done is not written again, and no job is reported blocked.
LEMMA DoneIsLeft ==
  ASSUME BatchOnly, TypeOK, FinalInv, [Next]_vars
  PROVE  /\ row.status = "executed" => row' = row
         /\ row'.status # "blocked"
         /\ row'.status = "executed" /\ row.status # "executed" =>
              row'.child = row.child + 1
<1>a. row \in Row /\ row.status # "blocked"
  BY DEF TypeOK, FinalInv
<1>1. CASE row' = row
  BY <1>1, <1>a
<1>2. CASE row.status = "none" /\ row' = NewRow
  BY <1>2 DEF NewRow
<1>3. CASE Tick /\ row' = AgedRow
  <2>1. AgedRow.status = row.status
        /\ (row.status # "executing" => AgedRow = row)
    BY <1>a DEF AgedRow, Row
  <2>2. QED
    BY <1>3, <1>a, <2>1
<1>4. ASSUME NEW r \in Runs, Claim(r)
      PROVE  row' = row \/ (~IsTerminal(row) /\ row'.status = "executing")
  BY <1>4, <1>a DEF Claim, MayClaim, UpdateRelayerJob, Stamped, Row
<1>5. ASSUME NEW r \in Runs, RecordHash(r)
      PROVE  row' = row \/ (row.status # "executed" /\ row'.status = "executing")
  <2>1. run[r].pc # "idle" /\ run[r].child \in Nat /\ row.child \in Nat
    BY <1>5 DEF RecordHash, TypeOK, Run, Row
  <2>2. row.status = "executed" => run[r].child < row.child
    BY <2>1 DEF FinalInv
  <2>3. QED
    BY <1>5, <1>a, <2>1, <2>2 DEF RecordHash, UpdateForChild, Stamped, Row
<1>6. ASSUME NEW r \in Runs, Write(r), row' # row
      PROVE  /\ row.status # "executed" /\ row'.status # "blocked"
             /\ row'.status = "executed" => row'.child = row.child + 1
  <2>1. /\ run[r].pc # "idle" /\ run[r].child \in Nat /\ row.child \in Nat
        /\ run[r].seen \in Nat /\ run[r].tx \in Hashes \cup {NoTx}
    BY <1>6 DEF Write, TypeOK, Run, Row
  <2>2. /\ run[r].op \notin {"limit", "early", "late", "cancelled"}
        /\ row.status = "executed" => run[r].child < row.child
    BY <2>1 DEF FinalInv
  <2>3. WriteForChild(r)
    BY <1>6, <2>2 DEF Write, WriteUnconditional
  <2>4. row.child = run[r].child
    BY <1>6, <2>3 DEF WriteForChild, UpdateForChild
  <2>5. row'.status \in {"failed", "ready"}
        \/ row' = Stamped(Advanced(run[r].seen)) \/ row' = Stamped(Recorded(run[r].tx))
    BY <1>a, <2>3, <2>4 DEF WriteForChild, UpdateForChild, Stamped, Row
  <2>6. \A n \in Nat : StatusAt(n) \in {"executed", "ready"}
    BY DEF StatusAt
  <2>7. row.count + 1 \in Nat
    BY <1>a DEF Row
  <2>8. row'.status # "blocked" /\ (row'.status = "executed" => row'.child = row.child + 1)
    BY <2>1, <2>5, <2>6, <2>7, CursorMoves
  <2>9. QED
    BY <2>1, <2>2, <2>4, <2>8
<1> QED BY <1>1, <1>2, <1>3, <1>4, <1>5, <1>6, <1>a, RowChanges DEF IsTerminal

\* FinalInv is preserved by every step.
LEMMA FinalStep == BatchOnly /\ TypeOK /\ ChildInv /\ FinalInv /\ [Next]_vars => FinalInv'
<1> SUFFICES ASSUME BatchOnly, TypeOK, ChildInv, FinalInv, [Next]_vars PROVE FinalInv'
  OBVIOUS
<1>1. row'.status # "blocked" /\ ~cancelled'
  BY DoneIsLeft, StaysOpen DEF FinalInv
<1>2. ASSUME NEW r \in Runs, run'[r].pc # "idle", run[r].pc # "idle"
      PROVE  /\ window' = "open" /\ ~run'[r].full
             /\ run'[r].op \notin {"limit", "early", "late", "cancelled"}
             /\ row'.status = "executed" => run'[r].child < row'.child
  <2>1. window' = "open" /\ ~run[r].full
    BY <1>2, StaysOpen DEF FinalInv
  <2>2. /\ run'[r].full = run[r].full /\ run'[r].child = run[r].child
        /\ run'[r].op \notin {"limit", "early", "late", "cancelled"}
    BY <1>2, DecidesGuarded
  <2>3. run[r].child \in Nat /\ row.child \in Nat /\ run[r].child <= row.child
    BY DEF TypeOK, ChildInv, Run, Row
  <2>4. row.status = "executed" => run[r].child < row.child
    BY <1>2 DEF FinalInv
  <2>5. row'.status = "executed" => run[r].child < row'.child
    BY <2>3, <2>4, DoneIsLeft
  <2>6. QED
    BY <2>1, <2>2, <2>5
<1>3. ASSUME NEW r \in Runs, run'[r].pc # "idle", run[r].pc = "idle"
      PROVE  /\ window' = "open" /\ ~run'[r].full
             /\ run'[r].op \notin {"limit", "early", "late", "cancelled"}
             /\ row'.status # "executed"
  <2>1. Fetch(r) /\ IsDue(row)
    BY <1>3, TakesDueOnly
  <2>2. window' = window /\ row' = row /\ window = "open" /\ row.count < MaxExec
        /\ row.status # "executed" /\ row.count \in Nat /\ MaxExec \in Nat
    BY <2>1, Numbers DEF Fetch, IsDue, IsTerminal, chain, TypeOK, Row
  <2>3. (run'[r].full <=> row.count >= MaxExec) /\ run'[r].op = "none"
    BY <2>1 DEF Fetch, TypeOK, IdleRun
  <2>4. ~(row.count >= MaxExec)
    BY <2>2
  <2>5. QED
    BY <2>2, <2>3, <2>4
<1> QED BY <1>1, <1>2, <1>3 DEF FinalInv

\* There a job that is reported done stays as reported: no run that overlaps
\* the last payment writes its own, older outcome over it (updateForChild).
THEOREM DoneIsFinal == BatchOnly => (Spec => TerminalIsFinal)
<1> SUFFICES ASSUME BatchOnly PROVE Spec => TerminalIsFinal
  OBVIOUS
<1>1. Init => FinalInv
  <2>1. IdleRun.pc = "idle"
    BY DEF IdleRun
  <2>2. QED
    BY <2>1 DEF Init, FinalInv
<1>2. FinalInv /\ RelayerInv /\ [Next]_vars => FinalInv'
  BY FinalStep DEF RelayerInv
<1>3. FinalInv /\ RelayerInv /\ [Next]_vars
        => [IsTerminal(row) => row'.status = row.status]_vars
  <2>1. SUFFICES ASSUME FinalInv, RelayerInv, [Next]_vars, IsTerminal(row)
                 PROVE  row'.status = row.status
    OBVIOUS
  <2>2. row.status = "executed"
    BY <2>1 DEF IsTerminal, FinalInv
  <2>3. QED
    BY <2>1, <2>2, DoneIsLeft DEF RelayerInv
<1>4. QED
  BY <1>1, <1>2, <1>3, RelayerInvariant, PTL DEF Spec, TerminalIsFinal

-----------------------------------------------------------------------------
(* OneRunSubmits and OneLiveTransaction, where no run is lost, no          *)
(* submission is refused or late, and the window has opened before the job *)
(* is queued.  The owner may cancel, the window may close and the RPC may  *)
(* forget.                                                                 *)

Undisturbed == MaxFaults = 0 /\ "before" \notin StartWindows

\* From its claim on a run submits; it may still write that it failed.
Submits(r) == run[r].pc \in {"submit", "sent", "poll"}
Acts(r) == Submits(r) \/ (run[r].pc = "write" /\ run[r].op = "fail")

\* The registry refuses every further child, and every run under way that
\* reaches the end of its checks has seen it.
Over == cancelled \/ window = "closed"
SeenOver(r) ==
  /\ ~Submits(r) /\ run[r].pc # "claim"
  /\ run[r].pc = "intent" => cancelled
  /\ run[r].pc = "child" => run[r].op = "cancelled"
Quiet == Over /\ \A r \in Runs : SeenOver(r)

NoFault ==
  /\ window # "before"
  /\ \A h \in Hashes : txs[h].state # "gone"
  /\ \A r \in Runs : /\ run[r].pc # "rejected"
                     /\ run[r].op \notin {"early", "reject", "retry", "pending"}
                     /\ run[r].pc # "idle" => run[r].life < RunLife

\* No run outlives the lease it was under way for.
Outlived ==
  IsInFlight(row) => \A r \in Runs : run[r].pc # "idle" => row.age <= run[r].life

\* The one transaction that can still land is followed, and will be accepted
\* unless the intent is over.
Followed ==
  /\ \A r \in Runs : run[r].pc \in {"sent", "poll"} =>
       run[r].tx \in Hashes /\ txs[run[r].tx].child = run[r].child
  /\ \A h \in Hashes : txs[h].state = "failed" => Over
  /\ \A h \in Hashes : txs[h].state = "success" => txs[h].child \in consumed
  /\ \A h \in Hashes : txs[h].state = "pending" =>
       /\ txs[h].child \notin consumed /\ Cardinality(consumed) < MaxExec
       /\ \E r \in Runs : run[r].pc \in {"sent", "poll"} /\ run[r].tx = h
  /\ \A g, h \in Hashes :
       txs[g].state = "pending" /\ txs[h].state = "pending" => g = h

\* What a run settles or records is of a child that cannot be paid again.
Decided ==
  \A r \in Runs :
    /\ run[r].pc = "settle" =>
         /\ run[r].tx # NoTx /\ ~Executable(run[r].child)
         /\ txs[run[r].tx].state # "pending"
         /\ txs[run[r].tx].state = "failed" => Quiet
    /\ run[r].op \in {"record", "advance"} => ~Executable(run[r].child)

\* A job is in flight for the sake of a run that submits its child; when its
\* lease expires the child cannot be paid any more.
Held ==
  row.status = "executing" =>
    ~Executable(row.child) \/ \E r \in Runs : Submits(r) /\ run[r].child = row.child
Expired ==
  LeaseExpired(row) =>
    /\ ~Executable(row.child)
    /\ row.hash # NoTx /\ txs[row.hash].state = "failed" => Quiet

\* The runs that act do so on different children, and a run that acts on the
\* child of the job keeps the others from claiming it.
Guarded ==
  \A r \in Runs : Acts(r) /\ run[r].child = row.child => IsTerminal(row) \/ IsInFlight(row)
Apart ==
  \A r, s \in Runs : r # s /\ Acts(r) /\ Acts(s) => run[r].child # run[s].child
Current ==
  \A r \in Runs : Submits(r) /\ Executable(run[r].child) => run[r].child = row.child

AloneInv ==
  /\ NoFault /\ Outlived /\ Followed /\ Decided /\ Held /\ Expired /\ Current
  /\ Quiet \/ (Guarded /\ Apart)

\* Without faults nothing is put off, lost or late, and no instance dies.
LEMMA CalmStep ==
  ASSUME Undisturbed, TypeOK, [Next]_vars
  PROVE  /\ \A r \in Runs : ~PollTimeout(r) /\ ~Interrupt(r)
         /\ \A r \in Runs, h \in Hashes : ~NotPending(r, h)
         /\ \A h \in Hashes : ~IncludeFailed(h)
         /\ Tick => DyingRuns = {} /\ LapsingTxs = {}
<1>1. faults = 0 /\ MaxFaults = 0
  BY DEF Undisturbed, TypeOK
<1>2. ASSUME Tick PROVE DyingRuns = {} /\ LapsingTxs = {}
  <2>1. IsFiniteSet(Runs) /\ IsFiniteSet(Hashes)
    <3>1. IsFiniteSet(Runs)
      BY RunsAssumption, FS_Union DEF Runs
    <3>2. 1 \in Int /\ MaxTx \in Int
      BY Numbers
    <3>3. IsFiniteSet(Hashes)
      BY <3>2, FS_Interval DEF Hashes
    <3>4. QED
      BY <3>1, <3>3
  <2>2. IsFiniteSet(DyingRuns) /\ IsFiniteSet(LapsingTxs)
    <3>1. DyingRuns \subseteq Runs /\ LapsingTxs \subseteq Hashes
      BY DEF DyingRuns, LapsingTxs
    <3>2. QED
      BY <2>1, <3>1, FS_Subset
  <2>3. Cardinality(DyingRuns) \in Nat /\ Cardinality(LapsingTxs) \in Nat
    BY <2>2, FS_CardinalityType
  <2>4. 0 + Cardinality(DyingRuns) + Cardinality(LapsingTxs) <= 0
    BY <1>1, <1>2 DEF Tick
  <2>5. Cardinality(DyingRuns) = 0 /\ Cardinality(LapsingTxs) = 0
    BY <2>3, <2>4
  <2>6. QED
    BY <2>2, <2>5, FS_EmptySet
<1> QED BY <1>1, <1>2 DEF PollTimeout, Interrupt, NotPending, IncludeFailed

\* What a run becomes when it goes on with the job it has.
To(r, p, op) ==
  /\ run'[r].pc = p /\ run'[r].op = op
  /\ run'[r].child = run[r].child /\ run'[r].tx = run[r].tx

\* The moves of To are those of the model.
LEMMA MovesTo ==
  ASSUME TypeOK, NEW r \in Runs
  PROVE  /\ \A p : Goto(r, p) => To(r, p, run[r].op)
         /\ \A op : DecideOn(r, op) => To(r, "write", op)
         /\ ReadIntent(r) => To(r, "child", IF cancelled THEN "cancelled" ELSE "none")
         /\ Finish(r) => run'[r] = IdleRun
<1>a. run[r] \in Run /\ run \in [Runs -> Run]
  BY DEF TypeOK
<1>1. ASSUME NEW p, Goto(r, p) PROVE To(r, p, run[r].op)
  BY <1>1, <1>a DEF Goto, Run, To
<1>2. ASSUME NEW op, DecideOn(r, op) PROVE To(r, "write", op)
  BY <1>2, <1>a DEF DecideOn, Run, To
<1>3. ASSUME ReadIntent(r) PROVE To(r, "child", IF cancelled THEN "cancelled" ELSE "none")
  <2>1. run'[r] = [run[r] EXCEPT !.pc = "child",
           !.seen = Cardinality(consumed), !.op = IF cancelled THEN "cancelled" ELSE "none"]
    BY <1>3, <1>a, MovedRun
  <2>2. QED
    BY <2>1, <1>a DEF Run, To
<1>4. Finish(r) => run'[r] = IdleRun
  BY <1>a, MovedRun
<1> QED BY <1>1, <1>2, <1>3, <1>4

\* The steps of one run where there are no faults.
LEMMA CalmRun ==
  ASSUME Undisturbed, TypeOK, NoFault, Followed, [Next]_vars, NEW r \in Runs
  PROVE  \/ To(r, run[r].pc, run[r].op)
         \/ /\ run'[r] = IdleRun /\ run[r].pc \in {"claim", "submit", "write"}
            /\ run[r].pc = "submit" => ~Executable(run[r].child)
         \/ /\ Fetch(r) /\ run'[r].child = row.child /\ run'[r].op = "none"
            /\ \/ run'[r].pc = "ledger"
               \/ /\ run'[r].pc = "settle" /\ run'[r].tx = row.hash
                  /\ LeaseExpired(row) /\ row.hash # NoTx
         \/ run[r].pc = "settle" /\ To(r, "ledger", run[r].op)
         \/ /\ run[r].pc \in {"settle", "poll"} /\ IsKnown(run[r].tx)
            /\ To(r, "write", OutcomeOf(run[r].tx))
         \/ run[r].pc = "ledger" /\ \E op \in {"limit", "late"} : To(r, "write", op)
         \/ run[r].pc = "ledger" /\ window = "open" /\ To(r, "intent", run[r].op)
         \/ /\ run[r].pc = "intent"
            /\ To(r, "child", IF cancelled THEN "cancelled" ELSE "none")
         \/ run[r].pc = "child" /\ run[r].op = "cancelled" /\ To(r, "write", "cancelled")
         \/ /\ run[r].pc = "child" /\ run[r].child \in consumed
            /\ To(r, "write", "advance")
         \/ run[r].pc = "child" /\ run[r].op = "none" /\ To(r, "claim", "none")
         \/ Claim(r) /\ MayClaim(r) /\ run[r].pc = "claim" /\ To(r, "submit", run[r].op)
         \/ /\ run[r].pc = "submit" /\ run'[r].pc = "sent" /\ run'[r].op = "none"
            /\ run'[r].child = run[r].child
            /\ run'[r].tx \in Hashes /\ Submit(r, run'[r].tx)
         \/ RecordHash(r) /\ run[r].pc = "sent" /\ To(r, "poll", run[r].op)
<1>a. run[r] \in Run /\ run \in [Runs -> Run]
  BY DEF TypeOK
<1>1. CASE run'[r] = run[r]
  BY <1>1 DEF To
<1>2. CASE Tick
  <2>1. run'[r] = AgedRun(r) /\ r \notin DyingRuns
    BY <1>2, CalmStep DEF Tick
  <2>2. run'[r] = run[r] \/ run'[r] = [run[r] EXCEPT !.life = @ + 1]
    BY <2>1 DEF AgedRun
  <2>3. QED
    BY <1>a, <2>2 DEF Run, To
<1>3. CASE Fetch(r)
  <2>1. /\ run'[r].child = row.child /\ run'[r].op = "none"
        /\ \/ run'[r].pc = "ledger"
           \/ /\ run'[r].pc = "settle" /\ run'[r].tx = row.hash
              /\ row.status = "executing" /\ row.hash # NoTx
    BY <1>3, <1>a DEF Fetch, IdleRun
  <2>2. ~IsInFlight(row)
    BY <1>3 DEF Fetch
  <2>3. QED
    BY <1>3, <2>1, <2>2 DEF IsInFlight
<1>4. CASE SettleKnown(r) \/ SettleUnknown(r) \/ PollKnown(r) \/ ReadIntent(r) \/ ReadChild(r)
  BY <1>4, MovesTo DEF SettleKnown, SettleUnknown, PollKnown, ReadIntent, ReadChild
<1>5. CASE ReadLedger(r)
  BY <1>5, MovesTo DEF ReadLedger, NoFault
<1>6. CASE Claim(r)
  BY <1>6, MovesTo DEF Claim
<1>7. CASE Refused(r)
  BY <1>7, MovesTo DEF Refused
<1>8. CASE RecordHash(r)
  BY <1>8, MovesTo DEF RecordHash
<1>9. CASE Write(r)
  BY <1>9, MovesTo DEF Write, NoFault
<1>10. CASE PollGone(r)
  BY <1>10 DEF PollGone, NoFault, Followed
<1>11. ASSUME NEW h \in Hashes, Submit(r, h)
       PROVE  /\ run[r].pc = "submit" /\ run'[r].pc = "sent" /\ run'[r].op = "none"
              /\ run'[r].child = run[r].child /\ run'[r].tx = h
  BY <1>11, <1>a DEF Submit, Follow, Run
<1> QED
  BY <1>1, <1>2, <1>3, <1>4, <1>5, <1>6, <1>7, <1>8, <1>9, <1>10, <1>11, CalmStep, OtherRuns

\* How long a run has been under way after a step.
LEMMA CalmLife ==
  ASSUME Undisturbed, TypeOK, NoFault, [Next]_vars, NEW r \in Runs, run'[r].pc # "idle"
  PROVE  \/ ~Tick /\ run[r].pc # "idle" /\ run'[r].life = run[r].life
         \/ /\ Tick /\ run[r].pc # "idle" /\ run'[r].life = run[r].life + 1
            /\ run[r].life + 1 < RunLife
         \/ Fetch(r) /\ run'[r].life = 0 /\ row' = row
<1>a. run[r] \in Run /\ run \in [Runs -> Run] /\ run[r].life \in Nat /\ RunLife \in Nat
  BY Numbers DEF TypeOK, Run
<1>1. CASE Tick
  <2>1. run'[r] = AgedRun(r) /\ r \notin DyingRuns
    BY <1>1, CalmStep DEF Tick
  <2>2. run[r].pc # "idle" /\ run'[r] = [run[r] EXCEPT !.life = @ + 1]
    BY <2>1 DEF AgedRun
  <2>3. run'[r].life = run[r].life + 1
    BY <1>a, <2>2 DEF Run
  <2>4. ~(run[r].life + 1 >= RunLife)
    BY <2>1, <2>2 DEF DyingRuns
  <2>5. QED
    BY <1>1, <1>a, <2>2, <2>3, <2>4
<1>2. CASE Fetch(r)
  BY <1>2, <1>a DEF Fetch, IdleRun
<1>3. CASE ~Tick /\ run'[r] = run[r]
  BY <1>3
<1>4. ASSUME Moves(r) PROVE run'[r].life = run[r].life \/ run'[r] = IdleRun
  <2>1. CASE \E p \in RunPoints : Goto(r, p)
    BY <1>a, <2>1 DEF Goto, Run
  <2>2. CASE \E op \in Ops : DecideOn(r, op)
    BY <1>a, <2>2 DEF DecideOn, Run
  <2>3. CASE \E p \in RunPoints, op \in Ops, h \in Hashes \cup {NoTx} : Follow(r, h, p, op)
    BY <1>a, <2>3 DEF Follow, Run
  <2>4. CASE Finish(r)
    BY <1>a, <2>4, MovedRun
  <2>5. QED
    BY <1>4, <2>1, <2>2, <2>3, <2>4 DEF Moves
<1>5. CASE ReadIntent(r) /\ ~Tick
  <2>1. run[r].pc # "idle"
        /\ run'[r] = [run[r] EXCEPT !.pc = "child", !.seen = Cardinality(consumed),
                                    !.op = IF cancelled THEN "cancelled" ELSE "none"]
    BY <1>5, <1>a, MovedRun DEF ReadIntent
  <2>2. QED
    BY <1>5, <1>a, <2>1 DEF Run
<1>6. IdleRun.pc = "idle"
  BY DEF IdleRun
<1> QED BY <1>1, <1>2, <1>3, <1>4, <1>5, <1>6, OtherRuns, RunMoves

\* What the chain has refused once it refuses from then on.
LEMMA Lost ==
  ASSUME TypeOK, window # "before", [Next]_vars
  PROVE  /\ window' # "before" /\ consumed \subseteq consumed'
         /\ cancelled => cancelled'
         /\ Over => Over'
         /\ \A c : Executable(c)' => Executable(c)
<1> USE DEF chain
<1>0. \/ UNCHANGED chain \/ OpenWindow \/ CloseWindow \/ Cancel
      \/ \E h \in Hashes : Include(h)
  <2>1. CASE UNCHANGED vars
    BY <2>1 DEF vars
  <2>2. CASE Next
    BY <2>2, StepCases
    DEF Queue, Fetch, SettleKnown, SettleUnknown, ReadLedger, ReadIntent, ReadChild,
        Claim, Submit, NotPending, Refused, RecordHash, PollKnown, PollGone,
        PollTimeout, Write, Interrupt, IncludeFailed, Tick
  <2>3. QED
    BY <2>1, <2>2
<1>1. /\ cancelled => cancelled'
      /\ window' # "before" /\ (window = "closed" => window' = "closed")
      /\ consumed \subseteq consumed'
  <2>1. cancelled' = cancelled \/ Cancel
    BY <1>0 DEF OpenWindow, CloseWindow, Include
  <2>2. window' # "before" /\ (window = "closed" => window' = "closed")
    BY <1>0 DEF OpenWindow, CloseWindow, Cancel, Include
  <2>3. consumed \subseteq consumed'
    BY <1>0 DEF OpenWindow, CloseWindow, Cancel, Include
  <2>4. QED
    BY <2>1, <2>2, <2>3 DEF Cancel
<1>2. window \in Windows /\ window' \in Windows
  BY TypeStep DEF TypeOK
<1>3. window' = "open" => window = "open"
  BY <1>1, <1>2 DEF Windows
<1>4. Cardinality(consumed) <= Cardinality(consumed')
      /\ Cardinality(consumed) \in Nat /\ Cardinality(consumed') \in Nat /\ MaxExec \in Nat
  <2>1. IsFiniteSet(consumed) /\ IsFiniteSet(consumed')
    BY TypeStep DEF TypeOK
  <2>2. QED
    BY <1>1, <2>1, FS_Subset, FS_CardinalityType, Numbers
<1>5. ASSUME NEW c, Executable(c)' PROVE Executable(c)
  BY <1>1, <1>3, <1>4, <1>5 DEF Executable
<1> QED BY <1>1, <1>5 DEF Over

\* Once every run has seen that the intent is over, none acts any more.
LEMMA QuietStep ==
  ASSUME Undisturbed, TypeOK, NoFault, Followed, Quiet, [Next]_vars
  PROVE  Quiet'
<1>1. Over' /\ (cancelled => cancelled') /\ (window = "open" => cancelled)
  BY Lost DEF Quiet, NoFault, Over
<1>2. ASSUME NEW r \in Runs PROVE SeenOver(r)'
  <2>1. SeenOver(r)
    BY DEF Quiet
  <2>2. To(r, run[r].pc, run[r].op) => SeenOver(r)'
    BY <1>1, <2>1 DEF SeenOver, Submits, To
  <2>3. run'[r] = IdleRun => SeenOver(r)'
    BY DEF SeenOver, Submits, IdleRun
  <2>4. run'[r].pc \in {"ledger", "settle", "write"} => SeenOver(r)'
    BY DEF SeenOver, Submits
  <2>5. run[r].pc = "ledger" /\ window = "open" /\ To(r, "intent", run[r].op) => SeenOver(r)'
    BY <1>1 DEF SeenOver, Submits, To
  <2>6. run[r].pc = "intent" /\ To(r, "child", IF cancelled THEN "cancelled" ELSE "none")
          => SeenOver(r)'
    BY <1>1, <2>1 DEF SeenOver, Submits, To
  <2>7. /\ run[r].pc = "child" => run[r].op = "cancelled"
        /\ run[r].pc \notin {"submit", "sent", "poll", "claim"}
    BY <2>1 DEF SeenOver, Submits
  <2>8. QED
    BY <2>2, <2>3, <2>4, <2>5, <2>6, <2>7, CalmRun DEF To
<1> QED BY <1>1, <1>2 DEF Quiet

\* Without faults the row changes as follows.
LEMMA CalmRow ==
  ASSUME Undisturbed, TypeOK, NoFault, [Next]_vars
  PROVE  \/ row' = row
         \/ row.status = "none" /\ row' = NewRow
         \/ Tick /\ row' = AgedRow
         \/ \E s \in Runs :
              /\ Claim(s) /\ MayClaim(s)
              /\ row'.child = row.child /\ row'.hash = row.hash
              /\ row'.status = "executing" /\ row'.age = 0
         \/ \E s \in Runs :
              /\ RecordHash(s) /\ row.child = run[s].child
              /\ row'.child = row.child /\ row'.hash = run[s].tx
              /\ row'.status = "executing" /\ row'.age = 0
         \/ \E s \in Runs :
              /\ Write(s) /\ run'[s] = IdleRun /\ run[s].pc = "write"
              /\ \/ row'.child = row.child /\ row'.status = "blocked"
                 \/ /\ run[s].op = "fail" /\ row.child = run[s].child
                    /\ row'.child = row.child /\ row'.status = "failed"
                 \/ /\ run[s].op \in {"advance", "record"} /\ row.child = run[s].child
                    /\ row'.child = row.child + 1 /\ row'.status \in {"ready", "executed"}
<1>a. row \in Row
  BY DEF TypeOK
<1>1. ASSUME NEW s \in Runs, Claim(s), row' # row
      PROVE  /\ MayClaim(s) /\ row'.child = row.child /\ row'.hash = row.hash
             /\ row'.status = "executing" /\ row'.age = 0
  BY <1>1, <1>a DEF Claim, UpdateRelayerJob, Stamped, Row
<1>2. ASSUME NEW s \in Runs, RecordHash(s), row' # row
      PROVE  /\ row.child = run[s].child
             /\ row'.child = row.child /\ row'.hash = run[s].tx
             /\ row'.status = "executing" /\ row'.age = 0
  BY <1>2, <1>a DEF RecordHash, UpdateForChild, Stamped, Row
<1>3. ASSUME NEW s \in Runs, Write(s), row' # row
      PROVE  /\ run'[s] = IdleRun /\ run[s].pc = "write"
             /\ \/ row'.child = row.child /\ row'.status = "blocked"
                \/ /\ run[s].op = "fail" /\ row.child = run[s].child
                   /\ row'.child = row.child /\ row'.status = "failed"
                \/ /\ run[s].op \in {"advance", "record"} /\ row.child = run[s].child
                   /\ row'.child = row.child + 1 /\ row'.status \in {"ready", "executed"}
  <2>1. /\ run'[s] = IdleRun /\ run[s].pc = "write"
        /\ run[s].op \notin {"early", "reject", "retry", "pending"}
        /\ run[s].seen \in Nat /\ run[s].tx \in Hashes \cup {NoTx}
    BY <1>3, MovesTo DEF Write, NoFault, TypeOK, Run
  <2>2. CASE WriteUnconditional(s)
    BY <1>a, <2>1, <2>2 DEF WriteUnconditional, UpdateRelayerJob, Stamped, Row
  <2>3. CASE WriteForChild(s)
    <3>1. row.child = run[s].child
      BY <1>3, <2>3 DEF WriteForChild, UpdateForChild
    <3>2. CASE run[s].op = "fail"
      BY <1>a, <2>1, <2>3, <3>1, <3>2 DEF WriteForChild, UpdateForChild, Stamped, Row
    <3>3. CASE run[s].op = "advance" /\ row' = Stamped(Advanced(run[s].seen))
      <4>1. row'.child = row.child + 1 /\ row'.status = StatusAt(run[s].seen)
        BY <2>1, <3>3, CursorMoves
      <4>2. QED
        BY <2>1, <3>1, <3>3, <4>1 DEF StatusAt
    <3>4. CASE run[s].op = "record" /\ row' = Stamped(Recorded(run[s].tx))
      <4>1. row'.child = row.child + 1 /\ row'.status = StatusAt(row.count + 1)
        BY <2>1, <3>4, CursorMoves
      <4>2. QED
        BY <2>1, <3>1, <3>4, <4>1 DEF StatusAt
    <3>5. QED
      BY <2>1, <2>3, <3>1, <3>2, <3>3, <3>4 DEF WriteForChild, UpdateForChild
  <2>4. QED
    BY <1>3, <2>2, <2>3 DEF Write
<1> QED BY <1>1, <1>2, <1>3, RowChanges

\* A run that submits goes on, or leaves a child that cannot be paid again.
LEMMA SubmitsOn ==
  ASSUME Undisturbed, TypeOK, NoFault, Followed, [Next]_vars, NEW r \in Runs, Submits(r)
  PROVE  \/ Submits(r)' /\ run'[r].child = run[r].child
         \/ ~Executable(run[r].child)
<1>1. CASE run[r].pc = "poll" /\ IsKnown(run[r].tx)
  <2>1. run[r].tx \in Hashes /\ txs[run[r].tx].child = run[r].child
    BY <1>1 DEF Followed
  <2>2. CASE txs[run[r].tx].state = "success"
    BY <2>1, <2>2 DEF Followed, Executable
  <2>3. CASE txs[run[r].tx].state = "failed"
    BY <2>1, <2>3 DEF Followed, Executable, Over
  <2>4. QED
    BY <1>1, <2>2, <2>3 DEF IsKnown
<1>2. To(r, run[r].pc, run[r].op) => Submits(r)' /\ run'[r].child = run[r].child
  BY DEF To, Submits
<1>3. run'[r].pc = "sent" \/ To(r, "poll", run[r].op) => Submits(r)'
  BY DEF To, Submits
<1>4. run[r].pc \in {"submit", "sent", "poll"} /\ ~Fetch(r) /\ ~Claim(r)
  BY DEF Submits, Fetch, Claim
<1> QED BY <1>1, <1>2, <1>3, <1>4, CalmRun DEF To

\* A run acts on the child it acted on, or has just claimed the job.
LEMMA WhoActs ==
  ASSUME Undisturbed, TypeOK, AloneInv, ~Quiet, [Next]_vars, NEW r \in Runs, Acts(r)'
  PROVE  \/ /\ Acts(r) /\ run'[r].child = run[r].child
            /\ Submits(r)' => Submits(r)
         \/ /\ Claim(r) /\ MayClaim(r) /\ run[r].pc = "claim"
            /\ run'[r].child = run[r].child /\ run'[r].pc = "submit"
<1>a. NoFault /\ Followed
  BY DEF AloneInv
<1>1. CASE To(r, run[r].pc, run[r].op)
  BY <1>1 DEF To, Acts, Submits
<1>2. run'[r] # IdleRun /\ run'[r].pc \notin {"ledger", "settle", "intent", "child", "claim"}
  BY DEF Acts, Submits, IdleRun
<1>3. CASE run[r].pc \in {"settle", "poll"} /\ IsKnown(run[r].tx)
           /\ To(r, "write", OutcomeOf(run[r].tx))
  <2>1. OutcomeOf(run[r].tx) = "fail" /\ run'[r].child = run[r].child
        /\ run'[r].pc = "write"
    BY <1>3 DEF To, Acts, Submits
  <2>2. txs[run[r].tx].state = "failed"
    BY <1>3, <2>1 DEF OutcomeOf, IsKnown
  <2>3. run[r].pc # "settle"
    BY <2>2 DEF AloneInv, Decided
  <2>4. QED
    BY <1>3, <2>1, <2>3 DEF Acts, Submits
<1>4. ASSUME NEW op \in {"limit", "late", "cancelled", "advance"} PROVE ~To(r, "write", op)
  BY DEF To, Acts, Submits
<1>5. CASE run[r].pc = "submit" /\ run'[r].pc = "sent" /\ run'[r].child = run[r].child
  BY <1>5 DEF Acts, Submits
<1>6. CASE RecordHash(r) /\ run[r].pc = "sent" /\ To(r, "poll", run[r].op)
  BY <1>6 DEF Acts, Submits, To
<1> QED BY <1>a, <1>1, <1>2, <1>3, <1>4, <1>5, <1>6, CalmRun DEF To

\* Only one run moves in a step.
LEMMA OthersStay ==
  ASSUME TypeOK, NEW s \in Runs, NEW r \in Runs, r # s,
         Claim(s) \/ RecordHash(s) \/ Write(s) \/ \E h \in Hashes : Submit(s, h)
  PROVE  run'[r] = run[r]
<1>1. run \in [Runs -> Run]
  BY DEF TypeOK
<1>2. Moves(s)
  BY RunMoves
<1> QED BY <1>1, <1>2, MoveIsLocal

\* Apart is preserved while the intent is not over for everyone.
LEMMA ApartStep ==
  ASSUME Undisturbed, TypeOK, AloneInv, Guarded, Apart, ~Quiet, [Next]_vars
  PROVE  Apart'
<1> SUFFICES ASSUME NEW r \in Runs, NEW s \in Runs, r # s, Acts(r)', Acts(s)'
             PROVE  run'[r].child # run'[s].child
  BY DEF Apart
<1>1. ASSUME NEW p \in Runs, NEW q \in Runs, p # q, Claim(p), MayClaim(p), Acts(q)',
             run[p].pc = "claim"
      PROVE  run[p].child # run'[q].child
  <2>1. run'[q] = run[q] /\ Acts(q)
    BY <1>1, OthersStay DEF Acts, Submits
  <2>2. row.child = run[p].child /\ ~IsTerminal(row) /\ ~IsInFlight(row)
    BY <1>1 DEF MayClaim
  <2>3. QED
    BY <2>1, <2>2 DEF Guarded
<1>2. CASE Acts(r) /\ Acts(s) /\ run'[r].child = run[r].child /\ run'[s].child = run[s].child
  BY <1>2 DEF Apart
<1> QED BY <1>1, <1>2, WhoActs

\* Guarded is preserved while the intent is not over for everyone.
LEMMA GuardedStep ==
  ASSUME Undisturbed, TypeOK, ChildInv, AloneInv, Guarded, Apart, ~Quiet, [Next]_vars
  PROVE  Guarded'
<1> SUFFICES ASSUME NEW r \in Runs, Acts(r)', run'[r].child = row'.child
             PROVE  IsTerminal(row') \/ IsInFlight(row')
  BY DEF Guarded, IsTerminal, IsInFlight, LeaseExpired
<1>a. /\ run[r].child \in Nat /\ row.child \in Nat /\ run[r].child <= row.child
      /\ run[r].pc # "idle" => run[r].child >= 1
      /\ row.status = "none" => row.child = 0
      /\ row.age \in Nat /\ Lease \in Nat /\ Lease > 0 /\ run[r].life \in Nat
      /\ RunLife \in Nat /\ RunLife <= Lease /\ row \in Row
  BY TimingAssumption DEF TypeOK, ChildInv, Run, Row
<1>b. run[r].pc # "idle" /\ run'[r].child = run[r].child
  BY WhoActs DEF Acts, Submits
<1>1. ASSUME row'.status = "executing", row'.age = 0 PROVE IsInFlight(row')
  BY <1>1, <1>a DEF IsInFlight, LeaseExpired
<1>2. CASE Claim(r) /\ MayClaim(r)
  <2>1. row'.status = "executing" /\ row'.age = 0
    BY <1>2, <1>a DEF Claim, UpdateRelayerJob, Stamped, Row
  <2>2. QED
    BY <1>1, <2>1
<1>3. CASE Acts(r)
  <2>1. CASE row' = row
    BY <1>3, <1>b, <2>1 DEF Guarded
  <2>2. CASE row.status = "none" /\ row' = NewRow
    BY <1>a, <1>b, <2>2 DEF NewRow
  <2>3. CASE Tick /\ row' = AgedRow
    <3>1. row'.child = row.child /\ row'.status = row.status
      BY <1>a, <2>3 DEF AgedRow, Row
    <3>2. IsTerminal(row) \/ IsInFlight(row)
      BY <1>3, <1>b, <3>1 DEF Guarded
    <3>3. CASE IsInFlight(row)
      <4>1. row.age <= run[r].life
        BY <1>b, <3>3 DEF AloneInv, Outlived
      <4>2. run'[r].pc # "idle"
        BY DEF Acts, Submits
      <4>3. run[r].life + 1 < RunLife
        BY <1>b, <2>3, <4>2, CalmLife DEF AloneInv, Fetch
      <4>4. row'.age = row.age + 1
        BY <1>a, <2>3, <3>3, <4>1, <4>3 DEF AgedRow, IsInFlight, LeaseExpired, Row
      <4>5. ~(row'.age >= Lease)
        BY <1>a, <4>1, <4>3, <4>4
      <4>6. QED
        BY <3>1, <3>3, <4>5 DEF IsInFlight, LeaseExpired
    <3>4. QED
      BY <3>1, <3>2, <3>3 DEF IsTerminal
  <2>4. CASE row'.status = "executing" /\ row'.age = 0
    BY <1>1, <2>4
  <2>5. ASSUME NEW s \in Runs, Write(s), run'[s] = IdleRun, run[s].pc = "write"
        PROVE  /\ ~(run[s].op = "fail" /\ row.child = run[s].child /\ row'.child = row.child)
               /\ row'.child # row.child + 1
    <3>1. s # r
      BY <2>5 DEF Acts, Submits, IdleRun
    <3>2. run[s].op = "fail" => run[s].child # run[r].child
      BY <1>3, <2>5, <3>1 DEF Apart, Acts
    <3>3. QED
      BY <1>a, <1>b, <3>2
  <2>6. row'.status = "blocked" => IsTerminal(row')
    BY DEF IsTerminal
  <2>7. QED
    BY <2>1, <2>2, <2>3, <2>4, <2>5, <2>6, CalmRow DEF AloneInv
<1> QED BY <1>2, <1>3, WhoActs

\* What AloneInv says where the registry still accepts a child.
LEMMA CurrentStep ==
  ASSUME Undisturbed, TypeOK, ChildInv, AloneInv, [Next]_vars
  PROVE  Current'
<1> SUFFICES ASSUME NEW r \in Runs, Submits(r)', Executable(run[r].child)'
             PROVE  run'[r].child = row'.child
  BY DEF Current, Executable
<1>a. /\ run[r].child \in Nat /\ row.child \in Nat /\ run[r].child <= row.child
      /\ run[r].pc # "idle" => run[r].child >= 1
      /\ row.status = "none" => row.child = 0 /\ row \in Row
  BY DEF TypeOK, ChildInv, Run, Row
<1>b. Executable(run'[r].child) /\ ~Quiet
  BY Lost DEF AloneInv, NoFault, Quiet, Over, Executable
<1>1. \/ Submits(r) /\ run'[r].child = run[r].child
      \/ /\ Claim(r) /\ MayClaim(r) /\ run[r].pc = "claim"
         /\ run'[r].child = run[r].child
  BY <1>b, WhoActs DEF Acts
<1>2. run'[r].child = row.child /\ run[r].pc # "idle"
  BY <1>1, <1>b DEF AloneInv, Current, MayClaim, Submits
<1>3. AgedRow.child = row.child
  BY DEF AgedRow, TypeOK, Row
<1>4. ASSUME NEW s \in Runs, run[s].op \in {"advance", "record"}, row.child = run[s].child
      PROVE  FALSE
  BY <1>b, <1>2, <1>4 DEF AloneInv, Decided
<1> QED BY <1>1, <1>2, <1>3, <1>4, <1>a, CalmRow DEF AloneInv

\* The row is executing after a step because it was, for a run that still
\* submits or for a child that is gone; or a run has just taken it.
LEMMA HeldStep ==
  ASSUME Undisturbed, TypeOK, AloneInv, [Next]_vars
  PROVE  Held'
<1> SUFFICES ASSUME row'.status = "executing", Executable(row.child)'
             PROVE  \E r \in Runs : Submits(r)' /\ run'[r].child = row'.child
  BY DEF Held, Executable
<1>1. Executable(row'.child)
  BY Lost DEF AloneInv, NoFault, Executable
<1>2. CASE row.status = "executing" /\ row'.child = row.child
  <2>1. PICK r \in Runs : Submits(r) /\ run[r].child = row.child
    BY <1>1, <1>2 DEF AloneInv, Held
  <2>2. Submits(r)' /\ run'[r].child = run[r].child
    BY <1>1, <1>2, <2>1, SubmitsOn DEF AloneInv
  <2>3. QED
    BY <1>2, <2>1, <2>2
<1>3. ASSUME NEW s \in Runs, Claim(s), MayClaim(s), row'.child = row.child
      PROVE  Submits(s)' /\ run'[s].child = row'.child
  <2>1. ~IsInFlight(row) /\ row.child = run[s].child
    BY <1>3 DEF MayClaim
  <2>2. Goto(s, "submit")
    BY <1>3 DEF Claim
  <2>3. To(s, "submit", run[s].op)
    BY <2>2, MovesTo
  <2>4. QED
    BY <1>3, <2>1, <2>3 DEF To, Submits
<1>4. ASSUME NEW s \in Runs, RecordHash(s), row.child = run[s].child, row'.child = row.child
      PROVE  Submits(s)' /\ run'[s].child = row'.child
  <2>1. To(s, "poll", run[s].op)
    BY <1>4, MovesTo DEF RecordHash
  <2>2. QED
    BY <1>4, <2>1 DEF To, Submits
<1>5. AgedRow.child = row.child /\ AgedRow.status = row.status
  BY DEF AgedRow, TypeOK, Row
<1>6. NewRow.status # "executing"
  BY DEF NewRow
<1> QED BY <1>2, <1>3, <1>4, <1>5, <1>6, CalmRow DEF AloneInv

\* The job ages with the runs.
LEMMA OutlivedStep ==
  ASSUME Undisturbed, TypeOK, AloneInv, [Next]_vars
  PROVE  Outlived'
<1> SUFFICES ASSUME IsInFlight(row'), NEW r \in Runs, run'[r].pc # "idle"
             PROVE  row'.age <= run'[r].life
  BY DEF Outlived, IsInFlight, LeaseExpired
<1>a. /\ row \in Row /\ row.age \in Nat /\ row'.age \in Nat /\ run[r].life \in Nat
      /\ run'[r].life \in Nat /\ Lease \in Nat
      /\ row'.status = "executing" /\ ~(row'.age >= Lease)
  <2>1. run[r] \in Run /\ run'[r] \in Run /\ row \in Row /\ row' \in Row
    BY TypeStep DEF TypeOK
  <2>2. row'.status = "executing" /\ ~(row'.age >= Lease)
    BY DEF IsInFlight, LeaseExpired
  <2>3. QED
    BY <2>1, <2>2, Numbers DEF Run, Row
<1>1. CASE row' = row /\ ~Tick
  <2>1. ~Fetch(r)
    BY <1>1 DEF Fetch
  <2>2. run[r].pc # "idle" /\ run'[r].life = run[r].life
    BY <1>1, <2>1, CalmLife DEF AloneInv
  <2>3. QED
    BY <1>1, <2>2 DEF AloneInv, Outlived
<1>2. CASE Tick /\ row' = AgedRow
  <2>1. row.status = "executing" /\ row'.age = row.age + 1
    BY <1>2, <1>a DEF AgedRow, Row
  <2>2. IsInFlight(row)
    BY <1>a, <2>1 DEF IsInFlight, LeaseExpired
  <2>3. ~Fetch(r)
    BY <2>2 DEF Fetch
  <2>4. run[r].pc # "idle" /\ run'[r].life = run[r].life + 1
    BY <1>2, <2>3, CalmLife DEF AloneInv
  <2>5. row.age <= run[r].life
    BY <2>2, <2>4 DEF AloneInv, Outlived
  <2>6. QED
    BY <1>a, <2>1, <2>4, <2>5
<1>3. CASE row'.age = 0
  BY <1>a, <1>3
<1>4. CASE Tick
  BY <1>2, <1>4 DEF Tick
<1>5. NewRow.status # "executing"
  BY DEF NewRow
<1> QED BY <1>1, <1>2, <1>3, <1>4, <1>5, <1>a, CalmRow DEF AloneInv

\* A lease expires when every run is over, and then stays expired for a child
\* that cannot be paid.
LEMMA ExpiredStep ==
  ASSUME Undisturbed, RelayerInv, AloneInv, [Next]_vars
  PROVE  Expired'
<1> SUFFICES ASSUME LeaseExpired(row')
             PROVE  /\ ~Executable(row.child)'
                    /\ row'.hash # NoTx /\ txs'[row'.hash].state = "failed" => Quiet'
  BY DEF Expired, LeaseExpired, Executable
<1> USE DEF RelayerInv
<1>a. /\ row \in Row /\ row.age \in Nat /\ Lease \in Nat /\ Lease > 0
      /\ RunLife \in Nat /\ RunLife <= Lease
      /\ row'.status = "executing" /\ row'.age >= Lease
      /\ row.hash \in Hashes \cup {NoTx}
  BY TimingAssumption DEF TypeOK, Row, LeaseExpired
<1>1. row'.age # 0 /\ row' # NewRow
  BY <1>a DEF NewRow
<1>2. /\ row'.child = row.child /\ row'.hash = row.hash /\ row.status = "executing"
      /\ row' = row \/ (Tick /\ row' = AgedRow)
  <2>1. row' = row \/ (Tick /\ row' = AgedRow)
    BY <1>a, <1>1, CalmRow DEF AloneInv
  <2>2. AgedRow.child = row.child /\ AgedRow.hash = row.hash /\ AgedRow.status = row.status
    BY <1>a DEF AgedRow, Row
  <2>3. QED
    BY <1>a, <2>1, <2>2
<1>3. CASE LeaseExpired(row)
  <2>1. ~Executable(row.child) /\ (row.hash # NoTx /\ txs[row.hash].state = "failed" => Quiet)
    BY <1>3 DEF AloneInv, Expired
  <2>2. ~Executable(row.child)'
    BY <1>2, <2>1, Lost DEF AloneInv, NoFault, Executable
  <2>3. ASSUME row.hash # NoTx, txs'[row.hash].state = "failed" PROVE txs[row.hash].state = "failed"
    <3>1. row.hash \in Hashes /\ txs[row.hash].state # "unused"
      BY <1>a, <2>3 DEF LeaseInv
    <3>2. txs[row.hash].state # "pending"
      <4>1. SUFFICES ASSUME txs[row.hash].state = "pending" PROVE FALSE
        OBVIOUS
      <4>2. txs[row.hash].age < TxTimeout /\ row.age <= txs[row.hash].age
        BY <1>2, <2>3, <3>1, <4>1 DEF LeaseInv
      <4>3. row.age >= Lease /\ txs[row.hash].age \in Nat
        BY <1>3, <3>1 DEF LeaseExpired, TypeOK, Tx
      <4>4. QED
        BY <1>a, <4>2, <4>3, TimingAssumption
    <3>3. AgedTx(row.hash) = txs[row.hash]
      BY <3>1, <3>2 DEF AgedTx, LapsingTxs
    <3>4. QED
      BY <2>3, <3>1, <3>2, <3>3, TxStep
  <2>4. QED
    BY <1>2, <2>1, <2>2, <2>3, QuietStep DEF AloneInv
<1>4. CASE ~LeaseExpired(row)
  <2>1. Tick /\ row' = AgedRow /\ IsInFlight(row)
    BY <1>a, <1>2, <1>4 DEF IsInFlight, LeaseExpired
  <2>2. row'.age = row.age + 1
    BY <1>a, <1>2, <1>4, <2>1 DEF AgedRow, Row, LeaseExpired
  <2>3. ASSUME NEW r \in Runs, run[r].pc # "idle" PROVE FALSE
    <3>1. row.age <= run[r].life /\ run[r].life \in Nat
      BY <2>1, <2>3 DEF AloneInv, Outlived, TypeOK, Run
    <3>2. r \in DyingRuns
      BY <1>a, <2>2, <2>3, <3>1 DEF DyingRuns
    <3>3. QED
      BY <2>1, <3>2, CalmStep
  <2>4. \A r \in Runs : ~Submits(r) /\ SeenOver(r)
    BY <2>3 DEF Submits, SeenOver
  <2>5. ~Executable(row.child)
    BY <1>2, <2>4 DEF AloneInv, Held
  <2>6. ~Executable(row.child)'
    BY <1>2, <2>5, Lost DEF AloneInv, NoFault, Executable
  <2>7. ASSUME row.hash # NoTx, txs'[row.hash].state = "failed" PROVE Quiet
    <3>1. txs'[row.hash] = AgedTx(row.hash) /\ row.hash \in Hashes
      BY <1>a, <2>1, <2>7 DEF Tick
    <3>2. txs[row.hash].state = "failed"
      BY <2>1, <2>7, <3>1, CalmStep DEF AgedTx, TypeOK, Tx
    <3>3. QED
      BY <2>4, <3>1, <3>2 DEF AloneInv, Followed, Quiet
  <2>8. QED
    BY <1>2, <2>6, <2>7, QuietStep DEF AloneInv
<1> QED BY <1>3, <1>4

\* A hash once sent that a step finds failed had failed, or could still land.
LEMMA FailedStep ==
  ASSUME Undisturbed, TypeOK, [Next]_vars, NEW h \in Hashes,
         txs[h].state \notin {"unused", "pending"}
  PROVE  txs'[h].state = txs[h].state
<1>1. AgedTx(h) = txs[h]
  BY DEF AgedTx, LapsingTxs
<1> QED BY <1>1, TxStep

\* What a run has decided on stays true of its child.
LEMMA DecidedStep ==
  ASSUME Undisturbed, RelayerInv, AloneInv, [Next]_vars
  PROVE  Decided'
<1> USE DEF RelayerInv
<1> SUFFICES ASSUME NEW r \in Runs
             PROVE  /\ run'[r].pc = "settle" =>
                         /\ run'[r].tx # NoTx /\ ~Executable(run[r].child)'
                         /\ txs'[run'[r].tx].state # "pending"
                         /\ txs'[run'[r].tx].state = "failed" => Quiet'
                    /\ run'[r].op \in {"record", "advance"} => ~Executable(run[r].child)'
  BY DEF Decided, Executable
<1>a. /\ run[r].tx \in Hashes \cup {NoTx} /\ row.hash \in Hashes \cup {NoTx}
      /\ \A c : Executable(c)' => Executable(c)
      /\ Quiet => Quiet'
      /\ \A h \in Hashes : txs[h].state \notin {"unused", "pending"} =>
           txs'[h].state = txs[h].state
  BY Lost, QuietStep, FailedStep DEF TypeOK, Run, Row, AloneInv, NoFault
<1>1. CASE Fetch(r) /\ run'[r].child = row.child /\ run'[r].op = "none"
           /\ \/ run'[r].pc = "ledger"
              \/ /\ run'[r].pc = "settle" /\ run'[r].tx = row.hash
                 /\ LeaseExpired(row) /\ row.hash # NoTx
  <2>1. CASE run'[r].pc = "settle"
    <3>1. /\ ~Executable(row.child) /\ row.hash \in Hashes
          /\ txs[row.hash].state = "failed" => Quiet
      BY <1>1, <1>a, <2>1 DEF AloneInv, Expired
    <3>2. txs[row.hash].state \notin {"unused", "pending"}
      <4>1. txs[row.hash].state # "unused"
        BY <1>1, <2>1, <3>1 DEF LeaseInv
      <4>2. SUFFICES ASSUME txs[row.hash].state = "pending" PROVE FALSE
        BY <4>1
      <4>3. txs[row.hash].age < TxTimeout /\ row.age <= txs[row.hash].age /\ row.age >= Lease
        BY <1>1, <2>1, <3>1, <4>2 DEF LeaseInv, LeaseExpired
      <4>4. txs[row.hash].age \in Nat /\ row.age \in Nat
        BY <3>1 DEF TypeOK, Tx, Row
      <4>5. QED
        BY <4>3, <4>4, TimingAssumption
    <3>3. QED
      BY <1>1, <1>a, <2>1, <3>1, <3>2 DEF Executable
  <2>2. QED
    BY <1>1, <2>1
<1>2. ASSUME run[r].pc = "settle" PROVE /\ ~Executable(run[r].child)
                                        /\ run[r].tx \in Hashes
                                        /\ txs[run[r].tx].state \notin {"unused", "pending"}
                                        /\ txs[run[r].tx].state = "failed" => Quiet
  BY <1>2, <1>a DEF AloneInv, Decided, LeaseInv
<1>3. run[r].op \in {"record", "advance"} => ~Executable(run[r].child)
  BY DEF AloneInv, Decided
<1>4. ASSUME NEW p, To(r, p, run[r].op), p = "settle" => run[r].pc = "settle"
      PROVE  /\ run'[r].pc = "settle" =>
                         /\ run'[r].tx # NoTx /\ ~Executable(run[r].child)'
                         /\ txs'[run'[r].tx].state # "pending"
                         /\ txs'[run'[r].tx].state = "failed" => Quiet'
             /\ run'[r].op \in {"record", "advance"} => ~Executable(run[r].child)'
  <2>1. run'[r].child = run[r].child /\ run'[r].tx = run[r].tx /\ run'[r].op = run[r].op
        /\ (run'[r].pc = "settle" => run[r].pc = "settle")
    BY <1>4 DEF To
  <2>2. Executable(run[r].child)' => Executable(run[r].child)
    BY <1>a, <2>1 DEF Executable
  <2>3. NoTx \notin Hashes
    BY Numbers
  <2>4. QED
    BY <1>a, <1>2, <1>3, <2>1, <2>2, <2>3
<1>5. ASSUME run[r].pc \in {"settle", "poll"}, IsKnown(run[r].tx),
             To(r, "write", OutcomeOf(run[r].tx)), run'[r].op \in {"record", "advance"}
      PROVE  ~Executable(run[r].child)'
  <2>1. txs[run[r].tx].state = "success" /\ run'[r].child = run[r].child
    BY <1>5 DEF To, OutcomeOf, IsKnown
  <2>2. ~Executable(run[r].child)
    <3>1. CASE run[r].pc = "settle"
      BY <1>2, <3>1
    <3>2. CASE run[r].pc = "poll"
      BY <2>1, <3>2 DEF AloneInv, Followed, Executable
    <3>3. QED
      BY <1>5, <3>1, <3>2
  <2>3. QED
    BY <1>a, <2>1, <2>2 DEF Executable
<1>6. ASSUME run[r].child \in consumed, To(r, "write", "advance")
      PROVE  ~Executable(run[r].child)'
  <2>1. ~Executable(run[r].child) /\ run'[r].child = run[r].child
    BY <1>6 DEF Executable, To
  <2>2. QED
    BY <1>a, <2>1 DEF Executable
<1>7. /\ run'[r] = IdleRun => run'[r].pc = "idle" /\ run'[r].op = "none"
      /\ \A p, op : To(r, p, op) => run'[r].pc = p /\ run'[r].op = op
  BY DEF IdleRun, To
<1> QED BY <1>1, <1>4, <1>5, <1>6, <1>7, CalmRun DEF AloneInv

\* Where nothing is put off, a transaction changes as it is sent and as a
\* ledger includes it.
LEMMA CalmTx ==
  ASSUME Undisturbed, TypeOK, [Next]_vars
  PROVE  \/ /\ consumed' = consumed
            /\ \A h \in Hashes : /\ txs'[h].state = txs[h].state
                                 /\ txs'[h].child = txs[h].child
         \/ /\ consumed' = consumed
            /\ \E r \in Runs, g \in Hashes :
                 /\ Submit(r, g)
                 /\ txs'[g].state = "pending" /\ txs'[g].child = run[r].child
                 /\ \A h \in Hashes \ {g} : txs'[h] = txs[h]
         \/ \E g \in Hashes :
              /\ txs[g].state = "pending" /\ txs'[g].child = txs[g].child
              /\ \/ /\ Executable(txs[g].child) /\ txs'[g].state = "success"
                    /\ consumed' = consumed \cup {txs[g].child}
                 \/ /\ ~Executable(txs[g].child) /\ txs'[g].state = "failed"
                    /\ consumed' = consumed
              /\ \A h \in Hashes \ {g} : txs'[h] = txs[h]
<1> USE DEF chain
<1>a. txs \in [Hashes -> Tx]
  BY DEF TypeOK
<1>1. ASSUME NEW r \in Runs, NEW g \in Hashes, Submit(r, g)
      PROVE  /\ txs'[g].state = "pending" /\ txs'[g].child = run[r].child
             /\ \A h \in Hashes \ {g} : txs'[h] = txs[h]
             /\ consumed' = consumed
  BY <1>1, <1>a DEF Submit, Sent
<1>2. ASSUME NEW g \in Hashes, Include(g)
      PROVE  /\ txs[g].state = "pending" /\ txs'[g].child = txs[g].child
             /\ \/ /\ Executable(txs[g].child) /\ txs'[g].state = "success"
                   /\ consumed' = consumed \cup {txs[g].child}
                \/ /\ ~Executable(txs[g].child) /\ txs'[g].state = "failed"
                   /\ consumed' = consumed
             /\ \A h \in Hashes \ {g} : txs'[h] = txs[h]
  BY <1>2, <1>a DEF Include, Tx
<1>3. CASE Tick
  <2>1. ASSUME NEW h \in Hashes
        PROVE  txs'[h].state = txs[h].state /\ txs'[h].child = txs[h].child
    <3>1. txs'[h] = AgedTx(h) /\ h \notin LapsingTxs /\ txs[h] \in Tx
      BY <1>3, <1>a, CalmStep DEF Tick
    <3>2. QED
      BY <3>1 DEF AgedTx, Tx
  <2>2. consumed' = consumed
    BY <1>3 DEF Tick
  <2>3. QED
    BY <2>1, <2>2
<1>4. \/ txs' = txs /\ consumed' = consumed
      \/ Tick
      \/ \E r \in Runs, g \in Hashes : Submit(r, g)
      \/ \E g \in Hashes : Include(g)
  <2>1. CASE UNCHANGED vars
    BY <2>1 DEF vars
  <2>2. CASE Next
    BY <2>2, StepCases, CalmStep
    DEF Queue, Fetch, SettleKnown, SettleUnknown, ReadLedger, ReadIntent, ReadChild,
        Claim, Refused, RecordHash, PollKnown, PollGone, Write,
        OpenWindow, CloseWindow, Cancel
  <2>3. QED
    BY <2>1, <2>2
<1> QED BY <1>1, <1>2, <1>3, <1>4

\* The transaction a run follows is one it sent for its child.
LEMMA FollowedRun ==
  ASSUME Undisturbed, RelayerInv, AloneInv, [Next]_vars, NEW r \in Runs,
         run'[r].pc \in {"sent", "poll"}
  PROVE  run'[r].tx \in Hashes /\ txs'[run'[r].tx].child = run'[r].child
<1> USE DEF RelayerInv
<1>1. ASSUME run[r].pc \in {"sent", "poll"}, run'[r].tx = run[r].tx,
             run'[r].child = run[r].child
      PROVE  run'[r].tx \in Hashes /\ txs'[run'[r].tx].child = run'[r].child
  <2>1. run[r].tx \in Hashes /\ txs[run[r].tx].child = run[r].child
    BY <1>1 DEF AloneInv, Followed
  <2>2. txs[run[r].tx].state # "unused" /\ run[r].tx # NoTx
    BY <2>1, Numbers DEF LeaseInv
  <2>3. txs'[run[r].tx].child = txs[run[r].tx].child
    BY <2>1, <2>2, TxPays DEF AloneInv, Followed
  <2>4. QED
    BY <1>1, <2>1, <2>3
<1>2. ASSUME NEW h \in Hashes, Submit(r, h), run'[r].tx = h,
             run'[r].child = run[r].child
      PROVE  txs'[h].child = run'[r].child
  BY <1>2 DEF Submit, Sent, TypeOK
<1>3. IdleRun.pc = "idle"
  BY DEF IdleRun
<1> QED BY <1>1, <1>2, <1>3, CalmRun DEF To, AloneInv

\* A transaction fails only when the intent is over.
LEMMA FailsWhenOver ==
  ASSUME Undisturbed, TypeOK, AloneInv, [Next]_vars, NEW h \in Hashes,
         txs'[h].state = "failed"
  PROVE  Over'
<1>1. Over => Over'
  BY Lost DEF AloneInv, NoFault
<1>2. txs[h].state = "failed" => Over
  BY DEF AloneInv, Followed
<1>3. ASSUME txs[h].state = "pending", ~Executable(txs[h].child) PROVE Over
  <2>1. txs[h].child \notin consumed /\ Cardinality(consumed) < MaxExec
    BY <1>3 DEF AloneInv, Followed
  <2>2. window \in {"open", "closed"}
    BY DEF AloneInv, NoFault, TypeOK, Windows
  <2>3. QED
    BY <1>3, <2>1, <2>2 DEF Executable, Over
<1> QED BY <1>1, <1>2, <1>3, CalmTx

\* No second transaction is sent while one can still land.
LEMMA SentAlone ==
  ASSUME Undisturbed, TypeOK, AloneInv, NEW r \in Runs, NEW h \in Hashes, Submit(r, h),
         NEW g \in Hashes
  PROVE  txs[g].state # "pending"
<1>1. SUFFICES ASSUME txs[g].state = "pending" PROVE FALSE
  OBVIOUS
<1>2. Executable(run[r].child) /\ run[r].pc = "submit"
  BY DEF Submit
<1>3. PICK s \in Runs : run[s].pc \in {"sent", "poll"} /\ run[s].tx = g
  BY <1>1 DEF AloneInv, Followed
<1>4. Executable(run[s].child)
  BY <1>1, <1>2, <1>3 DEF AloneInv, Followed, Executable
<1>5. run[r].child = row.child /\ run[s].child = row.child
  BY <1>2, <1>3, <1>4 DEF AloneInv, Current, Submits
<1>6. r # s /\ Acts(r) /\ Acts(s) /\ ~Quiet
  BY <1>2, <1>3 DEF Acts, Submits, Quiet, Over, Executable
<1> QED BY <1>5, <1>6 DEF AloneInv, Apart

\* A transaction that can still land is for a child the registry accepts.
LEMMA PendingStep ==
  ASSUME Undisturbed, TypeOK, AloneInv, [Next]_vars, NEW h \in Hashes,
         txs'[h].state = "pending"
  PROVE  /\ txs'[h].child \notin consumed' /\ Cardinality(consumed') < MaxExec
         /\ \E r \in Runs : run'[r].pc \in {"sent", "poll"} /\ run'[r].tx = h
<1>1. ASSUME NEW r \in Runs, Submit(r, h), consumed' = consumed,
             txs'[h].child = run[r].child
      PROVE  /\ txs'[h].child \notin consumed' /\ Cardinality(consumed') < MaxExec
             /\ run'[r].pc \in {"sent", "poll"} /\ run'[r].tx = h
  <2>1. Executable(run[r].child) /\ Follow(r, h, "sent", "none")
    BY <1>1 DEF Submit
  <2>2. run'[r].pc = "sent" /\ run'[r].tx = h
    BY <2>1 DEF Follow, TypeOK, Run
  <2>3. QED
    BY <1>1, <2>1, <2>2 DEF Executable
<1>2. ASSUME txs[h].state = "pending", txs'[h].child = txs[h].child, consumed' = consumed
      PROVE  /\ txs'[h].child \notin consumed' /\ Cardinality(consumed') < MaxExec
             /\ \E r \in Runs : run'[r].pc \in {"sent", "poll"} /\ run'[r].tx = h
  <2>1. PICK r \in Runs : run[r].pc \in {"sent", "poll"} /\ run[r].tx = h
    BY <1>2 DEF AloneInv, Followed
  <2>2. ~IsKnown(run[r].tx)
    BY <1>2, <2>1 DEF IsKnown
  <2>3. IdleRun.pc = "idle" /\ ~Fetch(r)
    BY <2>1 DEF IdleRun, Fetch
  <2>4. run'[r].pc \in {"sent", "poll"} /\ run'[r].tx = h
    BY <2>1, <2>2, <2>3, CalmRun DEF To, AloneInv
  <2>5. QED
    BY <1>2, <2>4 DEF AloneInv, Followed
<1>3. ASSUME NEW g \in Hashes, txs[g].state = "pending", txs'[g].state # "pending",
             \A k \in Hashes \ {g} : txs'[k] = txs[k]
      PROVE  FALSE
  <2>1. g # h /\ txs[h].state = "pending"
    BY <1>3
  <2>2. QED
    BY <1>3, <2>1 DEF AloneInv, Followed
<1>4. CASE consumed' = consumed /\ txs'[h].state = txs[h].state
           /\ txs'[h].child = txs[h].child
  BY <1>2, <1>4
<1>5. ASSUME NEW r \in Runs, NEW g \in Hashes, Submit(r, g), consumed' = consumed,
             txs'[g].child = run[r].child, \A k \in Hashes \ {g} : txs'[k] = txs[k]
      PROVE  /\ txs'[h].child \notin consumed' /\ Cardinality(consumed') < MaxExec
             /\ \E s \in Runs : run'[s].pc \in {"sent", "poll"} /\ run'[s].tx = h
  <2>1. CASE g = h
    BY <1>1, <1>5, <2>1
  <2>2. CASE g # h
    BY <1>2, <1>5, <2>2
  <2>3. QED
    BY <2>1, <2>2
<1> QED BY <1>3, <1>4, <1>5, CalmTx

\* Followed is preserved by every step.
LEMMA FollowedStep ==
  ASSUME Undisturbed, RelayerInv, AloneInv, [Next]_vars
  PROVE  Followed'
<1> USE DEF RelayerInv
<1>1. \A h \in Hashes : txs'[h].state = "success" => txs'[h].child \in consumed'
  BY TxPays DEF AloneInv, Followed
<1>2. ASSUME NEW g \in Hashes, NEW h \in Hashes,
             txs'[g].state = "pending", txs'[h].state = "pending"
      PROVE  g = h
  <2>1. CASE \A k \in Hashes : txs'[k].state = "pending" => txs[k].state = "pending"
    BY <1>2, <2>1 DEF AloneInv, Followed
  <2>2. ASSUME NEW r \in Runs, NEW k \in Hashes, Submit(r, k),
               \A f \in Hashes \ {k} : txs'[f] = txs[f]
        PROVE  g = h
    BY <1>2, <2>2, SentAlone
  <2>3. QED
    BY <2>1, <2>2, CalmTx
<1> QED BY <1>1, <1>2, FollowedRun, FailsWhenOver, PendingStep DEF Followed

\* No fault appears.
LEMMA NoFaultStep ==
  ASSUME Undisturbed, TypeOK, AloneInv, [Next]_vars
  PROVE  NoFault'
<1>a. NoFault /\ Followed /\ \A r \in Runs : run[r].life \in Nat
  BY DEF AloneInv, TypeOK, Run
<1>1. window' # "before"
  BY <1>a, Lost DEF NoFault
<1>2. \A h \in Hashes : txs'[h].state # "gone"
  BY <1>a, CalmTx DEF NoFault
<1>3. ASSUME NEW r \in Runs
      PROVE  /\ run'[r].pc # "rejected"
             /\ run'[r].op \notin {"early", "reject", "retry", "pending"}
  <2>1. run[r].pc # "rejected" /\ run[r].op \notin {"early", "reject", "retry", "pending"}
    BY <1>a DEF NoFault
  <2>2. IdleRun.pc = "idle" /\ IdleRun.op = "none"
    BY DEF IdleRun
  <2>3. \A h : IsKnown(h) => OutcomeOf(h) \in {"record", "fail"}
    BY OutcomeType
  <2>4. QED
    BY <1>a, <2>1, <2>2, <2>3, CalmRun DEF To
<1>4. ASSUME NEW r \in Runs, run'[r].pc # "idle" PROVE run'[r].life < RunLife
  <2>1. RunLife > 0 /\ RunLife \in Nat
    BY TimingAssumption
  <2>2. QED
    BY <1>a, <1>4, <2>1, CalmLife DEF NoFault
<1> QED BY <1>1, <1>2, <1>3, <1>4 DEF NoFault

\* AloneInv is preserved by every step.
LEMMA AloneStep ==
  Undisturbed /\ RelayerInv /\ AloneInv /\ [Next]_vars => AloneInv'
<1> SUFFICES ASSUME Undisturbed, RelayerInv, AloneInv, [Next]_vars PROVE AloneInv'
  OBVIOUS
<1>1. TypeOK /\ ChildInv
  BY DEF RelayerInv
<1>2. NoFault' /\ Outlived' /\ Followed' /\ Decided' /\ Held' /\ Expired' /\ Current'
  BY <1>1, NoFaultStep, OutlivedStep, FollowedStep, DecidedStep, HeldStep, ExpiredStep,
     CurrentStep
<1>3. Quiet => Quiet'
  BY <1>1, QuietStep DEF AloneInv
<1>4. ~Quiet => Guarded' /\ Apart'
  BY <1>1, GuardedStep, ApartStep DEF AloneInv
<1> QED BY <1>2, <1>3, <1>4 DEF AloneInv

LEMMA InitAlone == Undisturbed /\ Init => AloneInv
<1> SUFFICES ASSUME Undisturbed, Init PROVE AloneInv
  OBVIOUS
<1>1. IdleRun.pc = "idle" /\ IdleRun.op = "none" /\ IdleRun.child = 0
  BY DEF IdleRun
<1>2. /\ window # "before" /\ row.status = "none"
      /\ \A r \in Runs : run[r] = IdleRun
      /\ \A h \in Hashes : txs[h].state = "unused"
  BY DEF Init, Undisturbed
<1>3. NoFault
  BY <1>1, <1>2 DEF NoFault
<1>4. Outlived /\ Followed /\ Decided /\ Held /\ Expired
  BY <1>1, <1>2
  DEF Outlived, Followed, Decided, Held, Expired, IsInFlight, LeaseExpired
<1>5. Current /\ Guarded /\ Apart
  BY <1>1, <1>2 DEF Current, Guarded, Apart, Acts, Submits
<1> QED BY <1>3, <1>4, <1>5 DEF AloneInv

\* The inductive invariant of an undisturbed relayer, for any number of runs
\* by the batch and by hand.
THEOREM UndisturbedInvariant == Undisturbed => (Spec => [](RelayerInv /\ AloneInv))
<1> SUFFICES ASSUME Undisturbed PROVE Spec => [](RelayerInv /\ AloneInv)
  OBVIOUS
<1> DEFINE Inv == RelayerInv /\ AloneInv
<1>1. Init => Inv
  BY InitInv, InitAlone
<1>2. Inv /\ [Next]_vars => Inv'
  BY AloneStep, TypeStep, ChildStep, LeaseStep DEF RelayerInv
<1>3. QED
  BY <1>1, <1>2, PTL DEF Spec

\* There, of the runs that overlap, one submits a child and sees it through,
\* although a run decides whether to claim on a job others have written since
\* (executor.ts, the claim).
THEOREM OneSubmits == Undisturbed => (Spec => []OneRunSubmits)
<1>1. RelayerInv /\ AloneInv => OneRunSubmits
  <2>1. SUFFICES ASSUME AloneInv, NEW r \in Runs, NEW s \in Runs, r # s,
                        Submitting(r), Submitting(s)
                 PROVE  run[r].child # run[s].child
    BY DEF OneRunSubmits
  <2>2. Submits(r) /\ Submits(s)
    BY <2>1 DEF AloneInv, NoFault, Submitting, Submits, Unrecorded
  <2>3. ~Quiet
    BY <2>2 DEF Quiet, SeenOver
  <2>4. QED
    BY <2>1, <2>2, <2>3 DEF AloneInv, Apart, Acts
<1>2. QED
  BY <1>1, UndisturbedInvariant, PTL

\* There no child has two transactions that can still land: no second is sent
\* while a first, for any child, can.
THEOREM OneLands == Undisturbed => (Spec => []OneLiveTransaction)
<1>1. RelayerInv /\ AloneInv => OneLiveTransaction
  BY DEF AloneInv, Followed, OneLiveTransaction
<1>2. QED
  BY <1>1, UndisturbedInvariant, PTL

-----------------------------------------------------------------------------
(* The relayer implements ScheduledPayments, where no run is lost before   *)
(* its hash is recorded and nothing but the count and the children makes   *)
(* the registry refuse.                                                    *)

\* A job is reported executed only when the cursor is past the schedule.
DoneIsPassed == row.status = "executed" => row.child > MaxExec

\* The chain has paid the executions the cursor is past, and perhaps the one
\* it has come to.
LEMMA PaidSoFar ==
  ASSUME RelayerInv, SkipInv, CountInv
  PROVE  /\ Passed \in Nat /\ Passed <= MaxExec
         /\ Cardinality(consumed) \in Nat /\ Cardinality(consumed) <= MaxExec
         /\ row.child \in 1..MaxExec =>
              Cardinality(consumed) =
                IF row.child \in consumed THEN row.child ELSE row.child - 1
         /\ row.child = 0 => consumed = {}
         /\ row.child > MaxExec => Cardinality(consumed) = MaxExec
<1>a. /\ row.child \in Nat /\ MaxExec \in Nat /\ MaxExec > 0 /\ IsFiniteSet(consumed)
      /\ consumed \subseteq 1..row.child /\ Cardinality(consumed) <= MaxExec
      /\ \A c \in 1..MaxExec : c < row.child => c \in consumed
  BY BoundsAssumption
  DEF RelayerInv, TypeOK, ChildInv, NeverPaidAhead, SkipInv, NoChildSkipped, CountInv, Row
<1>1. Cardinality(consumed) \in Nat
  BY <1>a, FS_CardinalityType
<1>2. Passed \in Nat /\ Passed <= MaxExec
  BY <1>a DEF Passed
<1>3. ASSUME NEW n \in Nat PROVE Cardinality(1..n) = n
  <2>1. 1 \in Int /\ n \in Int
    OBVIOUS
  <2>2. Cardinality(1..n) = IF 1 > n THEN 0 ELSE n - 1 + 1
    BY <2>1, FS_Interval
  <2>3. QED
    BY <2>2
<1>4. CASE row.child \in 1..MaxExec
  <2>1. CASE row.child \in consumed
    <3>1. consumed = 1..row.child
      <4>1. 1..row.child \subseteq consumed
        BY <1>a, <1>4, <2>1
      <4>2. QED
        BY <1>a, <4>1
    <3>2. Cardinality(1..row.child) = row.child
      BY <1>3, <1>a
    <3>3. Cardinality(consumed) = row.child
      BY <3>1, <3>2
    <3>4. QED
      BY <1>1, <1>2, <1>4, <1>a, <2>1, <3>3
  <2>2. CASE row.child \notin consumed
    <3>0. row.child - 1 \in Nat
      BY <1>a, <1>4
    <3>1. consumed = 1..(row.child - 1)
      <4>1. 1..(row.child - 1) \subseteq consumed
        BY <1>a, <1>4
      <4>2. \A c \in 1..row.child : c = row.child \/ c \in 1..(row.child - 1)
        BY <1>a, <1>4
      <4>3. consumed \subseteq 1..(row.child - 1)
        BY <1>a, <2>2, <4>2
      <4>4. QED
        BY <4>1, <4>3
    <3>2. Cardinality(1..(row.child - 1)) = row.child - 1
      BY <1>3, <3>0
    <3>3. Cardinality(consumed) = row.child - 1
      BY <3>1, <3>2
    <3>4. QED
      BY <1>1, <1>2, <1>4, <1>a, <2>2, <3>3
  <2>3. QED
    BY <2>1, <2>2
<1>5. CASE row.child = 0
  BY <1>1, <1>2, <1>5, <1>a
<1>6. CASE row.child > MaxExec
  <2>1. 1..MaxExec \subseteq consumed
    BY <1>a, <1>6
  <2>2. Cardinality(1..MaxExec) <= Cardinality(consumed)
    BY <1>a, <2>1, FS_Subset
  <2>3. Cardinality(1..MaxExec) = MaxExec
    BY <1>3, <1>a
  <2>4. QED
    BY <1>1, <1>2, <1>6, <1>a, <2>2, <2>3
<1> QED BY <1>4, <1>5, <1>6, <1>a

\* The child the registry accepts is the one the cursor has come to.
LEMMA PaysInOrder ==
  ASSUME RelayerInv, SkipInv, CountInv, NEW h \in Hashes,
         txs[h].state = "pending", Executable(txs[h].child)
  PROVE  txs[h].child = row.child /\ row.child \in 1..MaxExec
<1>a. /\ row.child \in Nat /\ MaxExec \in Nat
      /\ txs[h].child \in 1..row.child
      /\ txs[h].child \notin consumed /\ Cardinality(consumed) < MaxExec
      /\ \A c \in 1..MaxExec : c < row.child => c \in consumed
  BY Numbers
  DEF RelayerInv, TypeOK, ChildInv, SkipInv, NoChildSkipped, Row, Executable
<1>1. Cardinality(consumed) \in Nat /\ (row.child > MaxExec => Cardinality(consumed) = MaxExec)
  BY PaidSoFar
<1>2. ~(row.child > MaxExec)
  BY <1>1, <1>a
<1> QED BY <1>2, <1>a

\* DoneIsPassed is preserved by every step.
LEMMA DoneIsPassedStep ==
  ASSUME Recording, RelayerInv, SkipInv, CountInv, DoneIsPassed, [Next]_vars
  PROVE  DoneIsPassed'
<1>a. /\ row.child \in Nat /\ row.count \in Nat /\ row'.count \in Nat /\ MaxExec \in Nat
      /\ row'.child \in Nat
  BY TypeStep, Numbers DEF RelayerInv, TypeOK, Row
<1>1. NewRow.status # "executed"
  BY DEF NewRow
<1> QED BY <1>1, <1>a, CountStep DEF DoneIsPassed

\* A step of the chain pays one execution; the store and the chain never
\* change together.
LEMMA PayStep ==
  ASSUME Recording, RelayerInv, SkipInv, CountInv, [Next]_vars, consumed' # consumed
  PROVE  Payments!Pay
<1> USE DEF chain
<1>1. row' = row /\ \E h \in Hashes :
           txs[h].state = "pending" /\ Executable(txs[h].child)
           /\ consumed' = consumed \cup {txs[h].child}
  <2>1. CASE UNCHANGED vars
    BY <2>1 DEF vars
  <2>2. CASE Next
    BY <2>2, StepCases
    DEF Queue, Fetch, SettleKnown, SettleUnknown, ReadLedger, ReadIntent, ReadChild,
        Claim, Submit, NotPending, Refused, RecordHash, PollKnown, PollGone,
        PollTimeout, Write, Interrupt, Include, IncludeFailed, OpenWindow,
        CloseWindow, Cancel, Tick
  <2>3. QED
    BY <2>1, <2>2
<1>2. PICK h \in Hashes : txs[h].state = "pending" /\ Executable(txs[h].child)
                          /\ consumed' = consumed \cup {txs[h].child}
  BY <1>1
<1>3. row.child \in 1..MaxExec /\ row.child \notin consumed
      /\ consumed' = consumed \cup {row.child}
  BY <1>2, PaysInOrder DEF Executable
<1>4. Cardinality(consumed) = row.child - 1 /\ Passed = row.child - 1
  BY <1>3, PaidSoFar, Numbers DEF Passed
<1>5. Cardinality(consumed') = Cardinality(consumed) + 1
  <2>1. IsFiniteSet(consumed)
    BY DEF RelayerInv, TypeOK
  <2>2. QED
    BY <1>3, <2>1, FS_AddElement
<1>6. Passed' = Passed /\ row'.status = row.status
  BY <1>1 DEF Passed
<1>7. Cardinality(consumed) < MaxExec
  BY <1>2 DEF Executable
<1> QED BY <1>1, <1>4, <1>5, <1>6, <1>7 DEF Payments!Pay

\* A step of the store passes one paid execution, changes what it reports of a
\* schedule it has passed, or shows nothing.
LEMMA PassStep ==
  ASSUME Recording, RelayerInv, SkipInv, CountInv, DoneIsPassed, [Next]_vars,
         consumed' = consumed
  PROVE  [Payments!Pass \/ Payments!Report]_(Payments!paymentVars)
<1>a. /\ row.child \in Nat /\ row'.child \in Nat /\ MaxExec \in Nat /\ MaxExec > 0
      /\ row.status = "none" => row.child = 0
      /\ row.status # "none" => row.child >= 1
  BY TypeStep, BoundsAssumption DEF RelayerInv, TypeOK, ChildInv, Row
<1>b. /\ row.status = "executed" => row.child > MaxExec
      /\ row'.status = "executed" => row'.child > MaxExec
  BY DoneIsPassedStep DEF DoneIsPassed
<1>1. CASE row'.child = row.child
  <2>1. Passed' = Passed
    BY <1>1 DEF Passed
  <2>2. CASE row.child > MaxExec
    <3>1. Passed = MaxExec
      BY <1>a, <2>2 DEF Passed
    <3>2. Payments!Report
      BY <2>1, <3>1 DEF Payments!Report
    <3>3. QED
      BY <3>2
  <2>3. CASE ~(row.child > MaxExec)
    <3>1. (row'.status = "executed") = (row.status = "executed")
      BY <1>1, <1>b, <2>3
    <3>2. QED
      BY <2>1, <3>1 DEF Payments!paymentVars
  <2>4. QED
    BY <2>2, <2>3
<1>2. CASE row.status = "none" /\ row' = NewRow
  <2>1. row.child = 0 /\ row'.child = 1 /\ row'.status = "scheduled"
    BY <1>2, <1>a DEF NewRow
  <2>2. Passed = 0 /\ Passed' = 0
    BY <1>a, <2>1 DEF Passed
  <2>3. (row'.status = "executed") = (row.status = "executed")
    BY <1>2, <2>1
  <2>4. QED
    BY <2>2, <2>3 DEF Payments!paymentVars
<1>3. ASSUME NEW r \in Runs, row'.child = row.child + 1,
             run[r].op \in {"advance", "record"}, run[r].child = row.child,
             row.status # "none"
      PROVE  Payments!Pass \/ Payments!Report \/ UNCHANGED Payments!paymentVars
  <2>1. Passable(row.child) /\ row.child >= 1
    BY <1>3, <1>a DEF SkipInv, OnTrack
  <2>2. CASE row.child > MaxExec
    <3>1. Passed = MaxExec /\ Passed' = MaxExec
      BY <1>3, <1>a, <2>2 DEF Passed
    <3>2. QED
      BY <3>1 DEF Payments!Report
  <2>3. CASE row.child <= MaxExec
    <3>1. row.child \in consumed /\ row.child \in 1..MaxExec
      BY <1>a, <2>1, <2>3 DEF Passable
    <3>2. Cardinality(consumed) = row.child
      BY <3>1, PaidSoFar
    <3>3. Passed = row.child - 1 /\ Passed' = row.child
      BY <1>3, <1>a, <3>1 DEF Passed
    <3>4. row'.status = "executed" => Passed' = MaxExec
      BY <1>3, <1>a, <1>b, <2>3, <3>3
    <3>5. QED
      BY <1>a, <3>2, <3>3, <3>4 DEF Payments!Pass
  <2>4. QED
    BY <1>a, <2>2, <2>3
<1>4. ASSUME row.status = "none", row'.child # row.child PROVE row' = NewRow
  <2>1. AgedRow.child = row.child
    BY DEF AgedRow, RelayerInv, TypeOK, Row
  <2>2. ASSUME NEW r \in Runs, Claim(r) \/ RecordHash(r) \/ Write(r) PROVE FALSE
    <3>1. run[r].pc # "idle"
      BY <2>2 DEF Claim, RecordHash, Write
    <3>2. run[r].child >= 1 /\ run[r].child <= row.child /\ run[r].child \in Nat
      BY <3>1 DEF RelayerInv, ChildInv, TypeOK, Run
    <3>3. QED
      BY <1>4, <1>a, <3>2
  <2>3. QED
    BY <1>4, <2>1, <2>2, RowChanges DEF RelayerInv
<1>5. \/ row'.child = row.child
      \/ row.status = "none" /\ row' = NewRow
      \/ /\ row'.child = row.child + 1 /\ row.status # "none"
         /\ \E r \in Runs : /\ run[r].op \in {"advance", "record"}
                            /\ run[r].child = row.child
  BY <1>4, CursorStep DEF RelayerInv
<1> QED BY <1>1, <1>2, <1>3, <1>5

LEMMA PaymentInitially == Init => Payments!PaymentInit
<1> SUFFICES ASSUME Init PROVE Payments!PaymentInit
  OBVIOUS
<1>1. row.child = 0 /\ row.status = "none" /\ consumed = {}
  BY DEF Init
<1>2. Cardinality(consumed) = 0
  BY <1>1, FS_EmptySet
<1>3. Passed = 0
  BY <1>1 DEF Passed
<1> QED BY <1>1, <1>2, <1>3 DEF Payments!PaymentInit

\* Where no run is lost before its hash is recorded, the chain and the store
\* together do what ScheduledPayments says, for any number of runs and any
\* limit: each execution is paid once, in its turn, and passed once it is paid,
\* whatever runs overlap, are lost and are repeated (recordSubmittedTxHash,
\* settleInterruptedSubmission, recordExecution).
THEOREM RelayerPaysInLockstep == Recording => (Spec => InLockstep)
<1> SUFFICES ASSUME Recording PROVE Spec => InLockstep
  OBVIOUS
<1> DEFINE Inv == RelayerInv /\ SkipInv /\ CountInv
<1>1. Init => DoneIsPassed
  BY DEF Init, DoneIsPassed
<1>2. Inv /\ DoneIsPassed /\ [Next]_vars => DoneIsPassed'
  BY DoneIsPassedStep
<1>3. Inv /\ DoneIsPassed /\ [Next]_vars => [Payments!PaymentNext]_(Payments!paymentVars)
  <2>1. CASE consumed' # consumed
    BY <2>1, PayStep DEF Payments!PaymentNext
  <2>2. CASE consumed' = consumed
    BY <2>2, PassStep DEF Payments!PaymentNext
  <2>3. QED
    BY <2>1, <2>2
<1>4. Init => Payments!PaymentInit
  BY PaymentInitially
<1>5. Spec => []Inv
  BY RecordingInvariant
<1>6. QED
  BY <1>1, <1>2, <1>3, <1>4, <1>5, PTL DEF Spec, InLockstep, Payments!PaymentSpec
=============================================================================
