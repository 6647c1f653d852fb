------------------------- MODULE RelayerBatchProofs -------------------------
(***************************************************************************)
(* Overlapping batches, for any jobs, batches and limit: the claim keeps   *)
(* two of them out of one job, whatever each has listed.                   *)
(* And what a batch lists stays within its limit, names no job twice, and  *)
(* no job is paid beyond its executions.                                   *)
(***************************************************************************)
EXTENDS RelayerBatch, TLAPS

\* A job's run is claimed by the batch that put it in its lease; the lease
\* does not run out before the batch is through with it.
ClaimHolds ==
  \A b \in Batches :
    claimed[b] => /\ Working(b) /\ Current(b) \in Jobs
                  /\ state[Current(b)] = "executing"

BatchInv ==
  /\ state \in [Jobs -> {"none", "due", "executing", "terminal"}]
  /\ claimed \in [Batches -> BOOLEAN]
  /\ todo = [b \in Batches |-> todo[b]]
  /\ ClaimHolds
  /\ OneBatchPerJob

-----------------------------------------------------------------------------

LEMMA InitHolds == Init => BatchInv
BY DEF Init, BatchInv, ClaimHolds, OneBatchPerJob

\* A step outside the batches, of a job none of them has claimed.
LEMMA JobKeeps ==
  ASSUME BatchInv, NEW j \in Jobs, UNCHANGED <<todo, claimed>>,
         NEW s \in {"none", "due", "executing", "terminal"},
         state' = [state EXCEPT ![j] = s],
         \A b \in Batches : claimed[b] => Current(b) # j
  PROVE  BatchInv'
BY DEF BatchInv, ClaimHolds, OneBatchPerJob, Working, Current

\* A batch that leaves its job, with a state for it that is not the lease's.
LEMMA LeavingKeeps ==
  ASSUME BatchInv, NEW b \in Batches, Working(b), NEW rest,
         todo' = [todo EXCEPT ![b] = rest],
         claimed' = [claimed EXCEPT ![b] = FALSE],
         \/ UNCHANGED state
         \/ /\ claimed[b]
            /\ \E s \in {"due", "terminal"} : state' = [state EXCEPT ![Current(b)] = s]
  PROVE  BatchInv'
<1>1. /\ claimed' \in [Batches -> BOOLEAN] /\ ~claimed'[b]
      /\ \A c \in Batches : c # b => claimed'[c] = claimed[c] /\ todo'[c] = todo[c]
      /\ todo' = [c \in Batches |-> todo'[c]]
  BY DEF BatchInv
<1>2. /\ state' \in [Jobs -> {"none", "due", "executing", "terminal"}]
      /\ \A c \in Batches : c # b /\ claimed[c] => state'[Current(c)] = "executing"
  <2>1. CASE UNCHANGED state
    BY <2>1 DEF BatchInv, ClaimHolds
  <2>2. CASE claimed[b] /\ \E s \in {"due", "terminal"} : state' = [state EXCEPT ![Current(b)] = s]
    <3>1. PICK s \in {"due", "terminal"} : state' = [state EXCEPT ![Current(b)] = s]
      BY <2>2
    <3>2. \A c \in Batches : c # b /\ claimed[c] =>
            /\ Current(c) # Current(b) /\ Current(c) \in Jobs
            /\ state[Current(c)] = "executing"
      BY <2>2 DEF BatchInv, ClaimHolds, OneBatchPerJob
    <3> QED BY <3>1, <3>2 DEF BatchInv
  <2> QED BY <2>1, <2>2
<1>3. \A c \in Batches : claimed'[c] =>
        c # b /\ claimed[c] /\ Working(c)' /\ Current(c)' = Current(c)
  BY <1>1 DEF BatchInv, ClaimHolds, Working, Current
<1>4. ClaimHolds'
  BY <1>2, <1>3 DEF BatchInv, ClaimHolds
<1>5. OneBatchPerJob'
  BY <1>3 DEF BatchInv, OneBatchPerJob
<1> QED BY <1>1, <1>2, <1>4, <1>5 DEF BatchInv

LEMMA ClaimKeeps == ASSUME BatchInv, NEW b \in Batches, Claim(b) PROVE BatchInv'
<1> DEFINE j == Current(b)
<1>1. /\ j \in Jobs /\ state[j] = "due" /\ ~claimed[b] /\ Working(b)
      /\ state' = [state EXCEPT ![j] = "executing"]
      /\ claimed' = [claimed EXCEPT ![b] = TRUE]
      /\ UNCHANGED todo
  BY DEF Claim, IsDue, Due
<1>2. \A c \in Batches : claimed[c] => Current(c) # j /\ Current(c) \in Jobs
  BY <1>1 DEF BatchInv, ClaimHolds
<1> HIDE DEF j
<1>3. /\ \A c \in Batches : Current(c)' = Current(c) /\ Working(c)' = Working(c)
      /\ Current(b) = j
  BY <1>1 DEF Current, Working, j
<1>4. /\ claimed' \in [Batches -> BOOLEAN] /\ claimed'[b]
      /\ \A c \in Batches : c # b => claimed'[c] = claimed[c]
      /\ state' \in [Jobs -> {"none", "due", "executing", "terminal"}]
      /\ state'[j] = "executing" /\ \A i \in Jobs : i # j => state'[i] = state[i]
  BY <1>1 DEF BatchInv
<1>5. ClaimHolds'
  BY <1>1, <1>2, <1>3, <1>4 DEF BatchInv, ClaimHolds
<1>6. OneBatchPerJob'
  BY <1>2, <1>3, <1>4 DEF BatchInv, OneBatchPerJob
<1> QED BY <1>1, <1>4, <1>5, <1>6 DEF BatchInv

\* A batch lists only when it has nothing left, and so has no claim.
LEMMA ListKeeps == ASSUME BatchInv, NEW b \in Batches, List(b) PROVE BatchInv'
<1>1. /\ ~claimed[b] /\ UNCHANGED <<state, claimed>>
      /\ todo' = [c \in Batches |-> todo'[c]]
      /\ \A c \in Batches : c # b => todo'[c] = todo[c]
  BY DEF List, Starts, BatchInv, ClaimHolds, Working
<1>2. \A c \in Batches : claimed[c] => Current(c)' = Current(c) /\ Working(c)' = Working(c)
  BY <1>1 DEF Current, Working
<1> QED BY <1>1, <1>2 DEF BatchInv, ClaimHolds, OneBatchPerJob

LEMMA NextHolds == ASSUME BatchInv, [Next]_vars PROVE BatchInv'
<1>1. ASSUME NEW j \in Jobs, Queue(j) PROVE BatchInv'
  <2>1. \A b \in Batches : claimed[b] => Current(b) # j
    BY <1>1 DEF Queue, BatchInv, ClaimHolds
  <2> QED BY <1>1, <2>1, JobKeeps DEF Queue
<1>2. ASSUME NEW j \in Jobs, LeaseExpires(j) PROVE BatchInv'
  BY <1>2, JobKeeps DEF LeaseExpires
<1>3. ASSUME NEW b \in Batches, List(b) PROVE BatchInv'
  BY <1>3, ListKeeps
<1>4. ASSUME NEW b \in Batches, Claim(b) PROVE BatchInv'
  BY <1>4, ClaimKeeps
<1>5. ASSUME NEW b \in Batches, LeaveAlone(b) PROVE BatchInv'
  <2>1. claimed' = [claimed EXCEPT ![b] = FALSE]
    BY <1>5 DEF LeaveAlone, BatchInv
  <2> QED BY <1>5, <2>1, LeavingKeeps DEF LeaveAlone, NextJob
<1>6. ASSUME NEW b \in Batches, Paid(b) PROVE BatchInv'
  <2>1. \E s \in {"due", "terminal"} : state' = [state EXCEPT ![Current(b)] = s]
    BY <1>6 DEF Paid
  <2> QED BY <1>6, <2>1, LeavingKeeps DEF Paid, NextJob
<1>7. ASSUME NEW b \in Batches, PutOff(b) PROVE BatchInv'
  BY <1>7, LeavingKeeps DEF PutOff, NextJob
<1>8. ASSUME NEW b \in Batches, Refused(b) \/ ThrowUnresolved(b) \/ Throw(b) PROVE BatchInv'
  BY <1>8, LeavingKeeps DEF Refused, ThrowUnresolved, Throw, End
<1>9. CASE \/ UNCHANGED vars
           \/ Reconfigure \/ \E j \in Jobs : Register(j)
  <2>1. UNCHANGED <<state, claimed, todo>>
    BY <1>9 DEF vars, Reconfigure, Register
  <2> QED BY <2>1 DEF BatchInv, ClaimHolds, OneBatchPerJob, Working, Current
<1> QED BY <1>1, <1>2, <1>3, <1>4, <1>5, <1>6, <1>7, <1>8, <1>9 DEF Next, Step

-----------------------------------------------------------------------------
\* The inductive invariant of the batches: who has claimed a job has it first
\* in its list and in its lease, and nobody else has.
THEOREM BatchInvariant == Spec => []BatchInv
<1>1. Init => BatchInv
  BY InitHolds
<1>2. BatchInv /\ [Next]_vars => BatchInv'
  BY NextHolds
<1> QED BY <1>1, <1>2, PTL DEF Spec

\* Two batches are never inside one job (executor.ts, the claim), for any
\* number of batches, jobs listed twice, and exceptions that end a batch.
THEOREM BatchesKeepApart == Spec => []OneBatchPerJob
BY BatchInvariant, PTL DEF BatchInv

-----------------------------------------------------------------------------
(* TypeOK: the order of the jobs, the lists and what is left of each job.  *)

\* A batch lists queued jobs only.
ListsQueued == \A b \in Batches : \A i \in DOMAIN todo[b] : todo[b][i] \in Queued

\* A job has an execution left until it is terminal.
LeftInv == \A j \in Jobs : state[j] = "terminal" <=> left[j] = 0

ListInv == TypeOK /\ BatchInv /\ ListsQueued /\ LeftInv

\* A write makes its job the latest, and keeps the order of the others.
LEMMA TouchOrders ==
  ASSUME Ordered, NEW j \in Jobs, Touch(j), Queued' = Queued \cup {j}
  PROVE  Ordered'
<1> DEFINE Q == Queued  R == later
<1>1. /\ R \subseteq Q \X Q
      /\ \A a, c \in Q : a # c => (<<a, c>> \in R <=> <<c, a>> \notin R)
      /\ \A a, c, d \in Q : <<a, c>> \in R /\ <<c, d>> \in R => <<a, d>> \in R
      /\ \A a \in Q : <<a, a>> \notin R
  BY DEF Ordered
<1>2. later' = (R \ (Jobs \X {j})) \cup ({j} \X (Q \ {j}))
  BY DEF Touch
<1>3. Q \subseteq Jobs
  BY DEF Queued
<1> HIDE DEF Q, R
<1>4. Queued' = Q \cup {j}
  BY DEF Q
<1>5. \A a, c \in Q \cup {j} :
        <<a, c>> \in later' <=> c # j /\ (a = j \/ <<a, c>> \in R)
  <2> SUFFICES ASSUME NEW a \in Q \cup {j}, NEW c \in Q \cup {j}
               PROVE  <<a, c>> \in later' <=> c # j /\ (a = j \/ <<a, c>> \in R)
    OBVIOUS
  <2>1. <<a, c>> \in Jobs \X {j} <=> c = j
    BY <1>3
  <2>2. <<a, c>> \in {j} \X (Q \ {j}) <=> a = j /\ c # j
    OBVIOUS
  <2>3. QED
    BY <1>2, <2>1, <2>2
<1>6. later' \subseteq Queued' \X Queued'
  <2>1. R \subseteq Queued' \X Queued'
    BY <1>1, <1>4
  <2>2. {j} \X (Q \ {j}) \subseteq Queued' \X Queued'
    BY <1>4
  <2>3. QED
    BY <1>2, <2>1, <2>2
<1>7. \A a, c \in Queued' : a # c => (<<a, c>> \in later' <=> <<c, a>> \notin later')
  BY <1>1, <1>4, <1>5
<1>8. \A a, c, d \in Queued' :
        <<a, c>> \in later' /\ <<c, d>> \in later' => <<a, d>> \in later'
  BY <1>1, <1>4, <1>5
<1>9. \A a \in Queued' : <<a, a>> \notin later'
  BY <1>1, <1>4, <1>5
<1> QED BY <1>6, <1>7, <1>8, <1>9 DEF Ordered

\* What a batch lists: at most n due jobs, none of them twice.
LEMMA ListingIsOfDue ==
  ASSUME Ordered, NEW n \in Nat, NEW due \in Listings(n)
  PROVE  /\ due \in Seq(Jobs) /\ Len(due) <= n /\ IsInjective(due)
         /\ \A i \in DOMAIN due : due[i] \in Due
<1>1. PICK m \in 0..n : due \in [1..m -> Due]
  BY DEF Listings, SeqOf
<1>2. /\ m \in Nat /\ m <= n /\ Due \subseteq Jobs /\ Due \subseteq Queued /\ DOMAIN due = 1..m
  BY <1>1 DEF Due, Queued
<1>3. due \in Seq(Jobs) /\ Len(due) = m
  BY <1>1, <1>2
<1>4. \A i, k \in DOMAIN due : i < k => due[i] # due[k]
  <2>1. \A i, k \in DOMAIN due : i < k => <<due[i], due[k]>> \in later
    BY DEF Listings
  <2>2. \A i \in DOMAIN due : due[i] \in Queued
    BY <1>1, <1>2
  <2>3. QED
    BY <2>1, <2>2 DEF Ordered
<1>5. IsInjective(due)
  BY <1>2, <1>4 DEF IsInjective
<1> QED BY <1>1, <1>2, <1>3, <1>5

\* A batch that is through with a job keeps the rest of its list as it was.
LEMMA RestOfList ==
  ASSUME NEW s \in Seq(Jobs), s # << >>, IsInjective(s)
  PROVE  /\ Tail(s) \in Seq(Jobs) /\ Len(Tail(s)) <= Len(s) /\ IsInjective(Tail(s))
         /\ \A i \in DOMAIN Tail(s) : i + 1 \in DOMAIN s /\ Tail(s)[i] = s[i + 1]
<1>1. /\ Tail(s) \in Seq(Jobs) /\ Len(s) \in Nat /\ Len(s) # 0
      /\ Len(Tail(s)) = Len(s) - 1
      /\ DOMAIN s = 1..Len(s) /\ DOMAIN Tail(s) = 1..(Len(s) - 1)
  OBVIOUS
<1>2. \A i \in DOMAIN Tail(s) : i + 1 \in DOMAIN s /\ Tail(s)[i] = s[i + 1]
  BY <1>1
<1>3. IsInjective(Tail(s))
  BY <1>1, <1>2 DEF IsInjective
<1> QED BY <1>1, <1>2, <1>3

LEMMA InitLists == Init => ListInv
<1> SUFFICES ASSUME Init PROVE ListInv
  OBVIOUS
<1>1. Queued = {} /\ Ordered
  BY DEF Init, Queued, Ordered
<1>2. /\ MaxExec \in Nat /\ MaxExec # 0 /\ MaxFaults \in Nat /\ Limit \in Nat
      /\ LeaseRuns \in Nat
  BY BatchAssumption
<1>3. \A b \in Batches : todo[b] = << >>
  BY DEF Init
<1>4. \A b \in Batches : Len(todo[b]) <= Limit /\ IsInjective(todo[b]) /\ DOMAIN todo[b] = {}
  BY <1>2, <1>3 DEF IsInjective
<1>5. TypeOK
  BY <1>1, <1>2, <1>4 DEF Init, TypeOK
<1>6. ListsQueued
  BY <1>4 DEF ListsQueued
<1>7. LeftInv
  BY <1>2 DEF Init, LeftInv
<1> QED BY <1>5, <1>6, <1>7, InitHolds DEF ListInv

\* The parts of ListInv that are about the lists.
ListsOK ==
  /\ todo \in [Batches -> Seq(Jobs)]
  /\ \A b \in Batches : Len(todo[b]) <= Limit /\ IsInjective(todo[b])
  /\ ListsQueued

\* A queued job stays queued.
LEMMA StaysQueued == ASSUME ListInv, [Next]_vars PROVE Queued \subseteq Queued'
<1> SUFFICES ASSUME NEW k \in Queued PROVE k \in Queued'
  OBVIOUS
<1>1. /\ k \in Jobs /\ state[k] # "none"
      /\ state \in [Jobs -> {"none", "due", "executing", "terminal"}]
  BY DEF Queued, ListInv, TypeOK
<1>2. ASSUME NEW j \in Jobs, Queue(j) \/ LeaseExpires(j) \/ Register(j) PROVE state'[k] # "none"
  BY <1>1, <1>2 DEF Queue, LeaseExpires, Register
<1>3. ASSUME NEW b \in Batches, Step(b) \/ PutOff(b) \/ Throw(b) PROVE state'[k] # "none"
  BY <1>1, <1>3
  DEF Step, List, Starts, Claim, LeaveAlone, Paid, Refused, ThrowUnresolved, PutOff, Throw, End
<1>4. CASE UNCHANGED vars \/ Reconfigure
  BY <1>1, <1>4 DEF vars, Reconfigure, Queued
<1> QED BY <1>1, <1>2, <1>3, <1>4 DEF Next, Queued

\* One batch lists, is through with a job, or ends.
LEMMA ListsKeep ==
  ASSUME ListInv, Queued \subseteq Queued', NEW b \in Batches, NEW s,
         todo' = [todo EXCEPT ![b] = s],
         s \in Seq(Jobs), Len(s) <= Limit, IsInjective(s),
         \A i \in DOMAIN s : s[i] \in Queued
  PROVE  ListsOK'
<1>1. todo \in [Batches -> Seq(Jobs)]
  BY DEF ListInv, TypeOK
<1>2. todo' \in [Batches -> Seq(Jobs)] /\ todo'[b] = s
  BY <1>1
<1>3. \A c \in Batches : c # b => todo'[c] = todo[c]
  BY <1>1
<1>4. \A c \in Batches : Len(todo'[c]) <= Limit /\ IsInjective(todo'[c])
  BY <1>2, <1>3 DEF ListInv, TypeOK
<1>5. \A c \in Batches : \A i \in DOMAIN todo'[c] : todo'[c][i] \in Queued'
  BY <1>2, <1>3 DEF ListInv, ListsQueued
<1> QED BY <1>2, <1>4, <1>5 DEF ListsOK, ListsQueued

LEMMA ListStep == ASSUME ListInv, [Next]_vars PROVE ListsOK'
<1>1. Queued \subseteq Queued' /\ Limit \in Nat
  BY StaysQueued, BatchAssumption
<1>2. CASE UNCHANGED todo
  BY <1>1, <1>2 DEF ListsOK, ListInv, TypeOK, ListsQueued
<1>3. ASSUME NEW b \in Batches, List(b) PROVE ListsOK'
  <2>1. PICK due \in Listings(Limit) : todo' = [todo EXCEPT ![b] = due]
    BY <1>3 DEF List
  <2>2. /\ due \in Seq(Jobs) /\ Len(due) <= Limit /\ IsInjective(due)
        /\ \A i \in DOMAIN due : due[i] \in Due
    BY <1>1, ListingIsOfDue DEF ListInv, TypeOK
  <2>3. Due \subseteq Queued
    BY DEF Due, Queued
  <2>4. QED
    BY <1>1, <2>1, <2>2, <2>3, ListsKeep
<1>4. ASSUME NEW b \in Batches, Working(b), NextJob(b) PROVE ListsOK'
  <2> DEFINE s == todo[b]
  <2>1. /\ s \in Seq(Jobs) /\ s # << >> /\ IsInjective(s) /\ Len(s) <= Limit
        /\ \A i \in DOMAIN s : s[i] \in Queued
    BY <1>4 DEF ListInv, TypeOK, ListsQueued, Working
  <2>2. todo' = [todo EXCEPT ![b] = Tail(s)]
    BY <1>4 DEF NextJob
  <2> HIDE DEF s
  <2>3. /\ Tail(s) \in Seq(Jobs) /\ Len(Tail(s)) <= Len(s) /\ IsInjective(Tail(s))
        /\ \A i \in DOMAIN Tail(s) : i + 1 \in DOMAIN s /\ Tail(s)[i] = s[i + 1]
    BY <2>1, RestOfList
  <2>4. Len(s) \in Nat /\ Len(Tail(s)) \in Nat
    BY <2>1, <2>3
  <2>5. Len(Tail(s)) <= Limit /\ \A i \in DOMAIN Tail(s) : Tail(s)[i] \in Queued
    BY <1>1, <2>1, <2>3, <2>4
  <2>6. QED
    BY <1>1, <2>2, <2>3, <2>5, ListsKeep
<1>5. ASSUME NEW b \in Batches, End(b) PROVE ListsOK'
  <2>1. /\ << >> \in Seq(Jobs) /\ Len(<< >>) <= Limit /\ IsInjective(<< >>)
        /\ DOMAIN << >> = {}
    BY <1>1 DEF IsInjective
  <2>2. todo' = [todo EXCEPT ![b] = << >>]
    BY <1>5 DEF End
  <2>3. QED
    BY <1>1, <2>1, <2>2, ListsKeep
<1>6. ASSUME NEW b \in Batches, Step(b) \/ PutOff(b) \/ Throw(b)
      PROVE \/ UNCHANGED todo \/ List(b) \/ (Working(b) /\ NextJob(b)) \/ End(b)
  <2>1. Claim(b) => UNCHANGED todo
    BY DEF Claim
  <2>2. LeaveAlone(b) => Working(b) /\ NextJob(b)
    BY DEF LeaveAlone
  <2>3. Paid(b) => Working(b) /\ NextJob(b)
    BY DEF Paid
  <2>4. PutOff(b) => Working(b) /\ NextJob(b)
    BY DEF PutOff
  <2>5. Refused(b) \/ ThrowUnresolved(b) \/ Throw(b) => End(b)
    BY DEF Refused, ThrowUnresolved, Throw
  <2>6. QED
    BY <1>6, <2>1, <2>2, <2>3, <2>4, <2>5 DEF Step
<1>7. ASSUME NEW j \in Jobs, Queue(j) \/ LeaseExpires(j) \/ Register(j) PROVE UNCHANGED todo
  BY <1>7 DEF Queue, LeaseExpires, Register
<1>8. ASSUME Reconfigure PROVE UNCHANGED todo
  BY <1>8 DEF Reconfigure
<1> QED BY <1>2, <1>3, <1>4, <1>5, <1>6, <1>7, <1>8 DEF Next, vars

\* The order is that of the queued jobs.
LEMMA OrderStep == ASSUME ListInv, [Next]_vars PROVE Ordered'
<1>a. /\ state \in [Jobs -> {"none", "due", "executing", "terminal"}] /\ Ordered
      /\ \A b \in Batches :
           claimed[b] => Current(b) \in Jobs /\ state[Current(b)] = "executing"
  BY DEF ListInv, TypeOK, BatchInv, ClaimHolds
<1>1. ASSUME UNCHANGED later, Queued' = Queued PROVE Ordered'
  BY <1>1, <1>a DEF Ordered
<1>2. CASE UNCHANGED <<later, state>>
  BY <1>1, <1>2 DEF Queued
<1>3. ASSUME NEW j \in Jobs, Queue(j) PROVE Ordered'
  <2>1. Queued' = Queued \cup {j}
    BY <1>3, <1>a DEF Queue, Queued
  <2>2. QED
    BY <1>3, <1>a, <2>1, TouchOrders DEF Queue
<1>4. ASSUME NEW j \in Jobs, LeaseExpires(j) PROVE Ordered'
  <2>1. Queued' = Queued /\ UNCHANGED later
    BY <1>4, <1>a DEF LeaseExpires, Queued
  <2>2. QED
    BY <1>1, <2>1
<1>5. ASSUME NEW b \in Batches, Claim(b) \/ Paid(b) \/ PutOff(b) PROVE Ordered'
  <2> DEFINE j == Current(b)
  <2>1. j \in Jobs /\ state[j] # "none" /\ Touch(j)
    BY <1>5, <1>a DEF Claim, Paid, PutOff, IsDue, Due
  <2>2. \E q \in {"due", "executing", "terminal"} : state' = [state EXCEPT ![j] = q]
    BY <1>5 DEF Claim, Paid, PutOff
  <2> HIDE DEF j
  <2>3. Queued' = Queued \cup {j}
    BY <1>a, <2>1, <2>2 DEF Queued
  <2>4. QED
    BY <1>a, <2>1, <2>3, TouchOrders
<1>6. ASSUME NEW b \in Batches,
             \/ List(b) \/ LeaveAlone(b)
             \/ Refused(b) \/ ThrowUnresolved(b) \/ Throw(b)
      PROVE  UNCHANGED <<later, state>>
  BY <1>6 DEF List, Starts, LeaveAlone, Refused, ThrowUnresolved, Throw, End
<1>7. CASE Reconfigure \/ \E j \in Jobs : Register(j)
  <2>1. UNCHANGED <<later, state>>
    BY <1>7 DEF Reconfigure, Register
  <2>2. QED
    BY <1>2, <2>1
<1> QED BY <1>2, <1>3, <1>4, <1>5, <1>6, <1>7 DEF Next, Step, vars

\* A job is paid only while it has an execution left, and is terminal with
\* the last.
LEMMA LeftStep ==
  ASSUME ListInv, [Next]_vars
  PROVE  /\ LeftInv' /\ left' \in [Jobs -> 0..MaxExec]
         /\ state' \in [Jobs -> {"none", "due", "executing", "terminal"}]
<1>a. /\ state \in [Jobs -> {"none", "due", "executing", "terminal"}]
      /\ left \in [Jobs -> 0..MaxExec] /\ MaxExec \in Nat
      /\ \A j \in Jobs : state[j] = "terminal" <=> left[j] = 0
      /\ \A b \in Batches :
           claimed[b] => Current(b) \in Jobs /\ state[Current(b)] = "executing"
  BY BatchAssumption DEF ListInv, TypeOK, LeftInv, BatchInv, ClaimHolds
<1>1. CASE UNCHANGED <<state, left>>
  BY <1>1, <1>a DEF LeftInv
<1>2. ASSUME NEW j \in Jobs, NEW q \in {"due", "executing"}, UNCHANGED left,
             state' = [state EXCEPT ![j] = q], state[j] # "terminal"
      PROVE  /\ LeftInv' /\ left' \in [Jobs -> 0..MaxExec]
             /\ state' \in [Jobs -> {"none", "due", "executing", "terminal"}]
  BY <1>2, <1>a DEF LeftInv
<1>3. ASSUME NEW j \in Jobs, Queue(j) \/ LeaseExpires(j)
      PROVE  /\ state' = [state EXCEPT ![j] = "due"] /\ UNCHANGED left
             /\ state[j] # "terminal"
  BY <1>3, <1>a DEF Queue, LeaseExpires
<1>4. ASSUME NEW b \in Batches, Claim(b) \/ PutOff(b)
      PROVE  /\ Current(b) \in Jobs /\ UNCHANGED left /\ state[Current(b)] # "terminal"
             /\ \E q \in {"due", "executing"} : state' = [state EXCEPT ![Current(b)] = q]
  BY <1>4, <1>a DEF Claim, PutOff, IsDue, Due
<1>5. ASSUME NEW b \in Batches, Paid(b)
      PROVE  /\ LeftInv' /\ left' \in [Jobs -> 0..MaxExec]
             /\ state' \in [Jobs -> {"none", "due", "executing", "terminal"}]
  <2> DEFINE j == Current(b)
  <2>1. j \in Jobs /\ state[j] = "executing" /\ left[j] \in 1..MaxExec
    BY <1>5, <1>a DEF Paid
  <2>2. /\ left' = [left EXCEPT ![j] = left[j] - 1]
        /\ state' = [state EXCEPT ![j] = IF left[j] = 1 THEN "terminal" ELSE "due"]
    BY <1>5 DEF Paid
  <2> HIDE DEF j
  <2>3. left'[j] = left[j] - 1 /\ left[j] - 1 \in 0..MaxExec
    BY <1>a, <2>1, <2>2
  <2>4. state'[j] = "terminal" <=> left'[j] = 0
    BY <1>a, <2>1, <2>2, <2>3
  <2>5. \A k \in Jobs : k # j => left'[k] = left[k] /\ state'[k] = state[k]
    BY <1>a, <2>2
  <2>6. left' \in [Jobs -> 0..MaxExec]
    BY <1>a, <2>2, <2>3
  <2>7. state' \in [Jobs -> {"none", "due", "executing", "terminal"}]
    BY <1>a, <2>2
  <2>8. LeftInv'
    BY <1>a, <2>4, <2>5 DEF LeftInv
  <2>9. QED
    BY <2>6, <2>7, <2>8
<1>6. ASSUME NEW b \in Batches,
             \/ List(b) \/ LeaveAlone(b)
             \/ Refused(b) \/ ThrowUnresolved(b) \/ Throw(b)
      PROVE  UNCHANGED <<left, state>>
  BY <1>6 DEF List, Starts, LeaveAlone, Refused, ThrowUnresolved, Throw, End
<1>7. CASE Reconfigure \/ \E j \in Jobs : Register(j)
  <2>1. UNCHANGED <<left, state>>
    BY <1>7 DEF Reconfigure, Register
  <2>2. QED
    BY <1>1, <2>1
<1> QED BY <1>1, <1>2, <1>3, <1>4, <1>5, <1>6, <1>7 DEF Next, Step, vars

\* What the batches wait for, where the treasuries are, and the faults so far.
LEMMA OutsideStep ==
  ASSUME ListInv, [Next]_vars
  PROVE  /\ waited' \in [Jobs -> 0..LeaseRuns] /\ faults' \in 0..MaxFaults
         /\ treasury' \in [Jobs -> {"default", "registered", "nowhere"}]
<1>a. /\ waited \in [Jobs -> 0..LeaseRuns] /\ LeaseRuns \in Nat
      /\ treasury \in [Jobs -> {"default", "registered", "nowhere"}]
      /\ faults \in 0..MaxFaults /\ MaxFaults \in Nat
  BY BatchAssumption DEF ListInv, TypeOK
<1>1. ASSUME NEW j \in Jobs, Queue(j) \/ LeaseExpires(j)
      PROVE  UNCHANGED <<waited, treasury, faults>>
  BY <1>1 DEF Queue, LeaseExpires
<1>2. CASE Reconfigure \/ \E j \in Jobs : Register(j)
  <2>1. UNCHANGED <<waited, faults>>
    BY <1>2 DEF Reconfigure, Register
  <2>2. treasury' \in [Jobs -> {"default", "registered", "nowhere"}]
    BY <1>2, <1>a DEF Reconfigure, Register
  <2>3. QED
    BY <1>a, <2>1, <2>2
<1>3. ASSUME NEW b \in Batches, List(b)
      PROVE  waited' \in [Jobs -> 0..LeaseRuns] /\ UNCHANGED <<treasury, faults>>
  <2>1. /\ waited' = [j \in Jobs |-> IF state[j] = "executing" /\ waited[j] < LeaseRuns
                                    THEN waited[j] + 1 ELSE waited[j]]
        /\ UNCHANGED <<treasury, faults>>
    BY <1>3 DEF List, Starts
  <2>2. \A j \in Jobs : /\ waited[j] \in 0..LeaseRuns
                        /\ waited[j] < LeaseRuns => waited[j] + 1 \in 0..LeaseRuns
    BY <1>a
  <2>3. QED
    BY <2>1, <2>2
<1>4. ASSUME NEW b \in Batches, Claim(b)
      PROVE  waited' \in [Jobs -> 0..LeaseRuns] /\ UNCHANGED <<treasury, faults>>
  <2>1. 0 \in 0..LeaseRuns
    BY <1>a
  <2>2. waited' = [waited EXCEPT ![Current(b)] = 0] /\ UNCHANGED <<treasury, faults>>
    BY <1>4 DEF Claim
  <2>3. QED
    BY <1>a, <2>1, <2>2
<1>5. ASSUME NEW b \in Batches,
             LeaveAlone(b) \/ Paid(b) \/ Refused(b) \/ ThrowUnresolved(b)
      PROVE  UNCHANGED <<waited, treasury, faults>>
  BY <1>5 DEF LeaveAlone, Paid, Refused, ThrowUnresolved, End
<1>6. ASSUME NEW b \in Batches, PutOff(b) \/ Throw(b)
      PROVE  UNCHANGED <<waited, treasury>> /\ faults < MaxFaults /\ faults' = faults + 1
  BY <1>6 DEF PutOff, Throw, End
<1>7. CASE UNCHANGED vars
  BY <1>a, <1>7 DEF vars
<1> QED BY <1>a, <1>1, <1>2, <1>3, <1>4, <1>5, <1>6, <1>7 DEF Next, Step

\* The inductive invariant of the lists: each batch has at most its limit of
\* queued jobs, none of them twice, and a job is terminal just when it has no
\* execution left.
THEOREM ListInvariant == Spec => []ListInv
<1>1. Init => ListInv
  BY InitLists
<1>2. ListInv /\ [Next]_vars => ListInv'
  <2> SUFFICES ASSUME ListInv, [Next]_vars PROVE ListInv'
    OBVIOUS
  <2>1. BatchInv'
    BY NextHolds DEF ListInv
  <2>2. claimed' \in [Batches -> BOOLEAN]
    BY <2>1 DEF BatchInv
  <2>3. QED
    BY <2>1, <2>2, ListStep, OrderStep, LeftStep, OutsideStep DEF ListInv, TypeOK, ListsOK
<1>3. QED
  BY <1>1, <1>2, PTL DEF Spec

\* For any jobs, batches and limit, a batch has at most its limit of jobs,
\* none of them twice, the order by updatedAt is one, and no job is paid more
\* often than it has executions (runDueRelayerJobs).
THEOREM BatchesKeepTheirLists == Spec => []TypeOK
  BY ListInvariant, PTL DEF ListInv
=============================================================================
