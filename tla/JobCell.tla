------------------------------ MODULE JobCell ------------------------------
(***************************************************************************)
(* What the job store promises about one row of relayer_jobs: the row is   *)
(* created once, and every update of it is one indivisible step that is    *)
(* applied to the job the store holds at that moment, declines on seeing   *)
(* that job, or does nothing.  Module Relayer relies on no more than this. *)
(***************************************************************************)
CONSTANTS
  Callers,   \* store calls that can be under way at the same time
  Jobs,      \* the values a job record can take
  NewJob,    \* the record createRelayerJob inserts
  NoJob,     \* there is no row
  Updates,   \* the names of the update functions the executor passes
  Declined,  \* what an update function returns to write nothing (null)
  Updated    \* Updated[u][j]: what update function u makes of job j

VARIABLES
  job,     \* the job, or NoJob
  asked,   \* per caller: the update it has asked for and not been answered
  answer   \* per caller: what its last call came back with

cellVars == <<job, asked, answer>>

NoUpdate == "none"

CellInit ==
  /\ job = NoJob
  /\ asked = [c \in Callers |-> NoUpdate]
  /\ answer = [c \in Callers |-> "none"]

\* createRelayerJob: a second create finds the job and leaves it alone.
CellCreate ==
  /\ job' = IF job = NoJob THEN NewJob ELSE job
  /\ UNCHANGED <<asked, answer>>

Ask(c, u) ==
  /\ asked[c] = NoUpdate
  /\ asked' = [asked EXCEPT ![c] = u]
  /\ answer' = [answer EXCEPT ![c] = "none"]
  /\ UNCHANGED job

Answer(c, with) ==
  /\ asked' = [asked EXCEPT ![c] = NoUpdate]
  /\ answer' = [answer EXCEPT ![c] = with]

\* The change can be made and its answer lost on the way back.
Apply(c) ==
  /\ asked[c] \in Updates
  /\ job \in Jobs
  /\ Updated[asked[c]][job] \in Jobs
  /\ job' = Updated[asked[c]][job]
  /\ \E with \in {"applied", "threw"} : Answer(c, with)

Decline(c) ==
  /\ asked[c] \in Updates
  /\ job \in Jobs
  /\ Updated[asked[c]][job] = Declined
  /\ Answer(c, "declined")
  /\ UNCHANGED job

Throw(c) ==
  /\ asked[c] \in Updates
  /\ Answer(c, "threw")
  /\ UNCHANGED job

CellNext ==
  \/ CellCreate
  \/ \E c \in Callers : \/ \E u \in Updates : Ask(c, u)
                        \/ Apply(c) \/ Decline(c) \/ Throw(c)

CellSpec == CellInit /\ [][CellNext]_cellVars
=============================================================================
