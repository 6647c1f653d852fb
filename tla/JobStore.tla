------------------------------ MODULE JobStore -----------------------------
(***************************************************************************)
(* One row of relayer_jobs behind tryUpdateRelayerJob: a SELECT, the       *)
(* update function applied in the caller's memory, and an UPDATE that      *)
(* matches only the version the SELECT returned.  The two statements are   *)
(* separate requests, so any other caller's may fall between them; a       *)
(* caller whose UPDATE matches no row starts again, UPDATE_RETRIES times.  *)
(***************************************************************************)
EXTENDS Integers

CONSTANTS Callers, Jobs, NewJob, NoJob, Updates, Declined, Updated,
          UpdateRetries,  \* UPDATE_RETRIES
          MaxVersion      \* bound: writes over the behaviour

ASSUME StoreAssumption ==
  /\ NewJob \in Jobs
  /\ NoJob \notin Jobs
  /\ Declined \notin Jobs
  /\ Updated \in [Updates -> [Jobs -> Jobs \cup {Declined}]]
  /\ "none" \notin Updates
  /\ UpdateRetries \in Nat \ {0}
  /\ MaxVersion \in Nat

VARIABLES
  stored,    \* [job, version]: the row
  asked,     \* per caller: the update function of the call under way
  answer,    \* per caller: how its last call ended
  selected,  \* per caller: the row its last SELECT returned
  attempt,   \* per caller: UPDATEs that matched no row, in this call
  before     \* per caller: the version the row had when the call began

vars == <<stored, asked, answer, selected, attempt, before>>

Row == [job : Jobs \cup {NoJob}, version : 0..MaxVersion]

NoRow == [job |-> NoJob, version |-> 0]

TypeOK ==
  /\ stored \in Row
  /\ asked \in [Callers -> Updates \cup {"none"}]
  /\ answer \in [Callers -> {"none", "applied", "declined", "threw"}]
  /\ selected \in [Callers -> Row]
  /\ attempt \in [Callers -> 0..UpdateRetries]
  /\ before \in [Callers -> 0..MaxVersion]

Init ==
  /\ stored = NoRow
  /\ asked = [c \in Callers |-> "none"]
  /\ answer = [c \in Callers |-> "none"]
  /\ selected = [c \in Callers |-> NoRow]
  /\ attempt = [c \in Callers |-> 0]
  /\ before = [c \in Callers |-> 0]

\* Mutant: INSERT without ON CONFLICT DO NOTHING, as an upsert.
CreateRelayerJob_Upsert ==
  /\ stored' = [stored EXCEPT !.job = NewJob]
  /\ UNCHANGED <<asked, answer, selected, attempt, before>>

\* INSERT ... ON CONFLICT DO NOTHING, then the row is read back.
CreateRelayerJob ==
  /\ stored' = IF stored.job = NoJob THEN [stored EXCEPT !.job = NewJob] ELSE stored
  /\ UNCHANGED <<asked, answer, selected, attempt, before>>

TryUpdateRelayerJob(c, u) ==
  /\ asked[c] = "none"
  /\ asked' = [asked EXCEPT ![c] = u]
  /\ answer' = [answer EXCEPT ![c] = "none"]
  /\ attempt' = [attempt EXCEPT ![c] = 0]
  /\ before' = [before EXCEPT ![c] = stored.version]
  /\ UNCHANGED <<stored, selected>>

Return(c, how) ==
  /\ asked' = [asked EXCEPT ![c] = "none"]
  /\ answer' = [answer EXCEPT ![c] = how]
  /\ selected' = [selected EXCEPT ![c] = NoRow]

HasSelected(c) == selected[c].job # NoJob

\* The SELECT of one attempt.  No row: the call throws.  The update declines
\* on what was read: the call ends.  Otherwise the UPDATE is next.
Select(c) ==
  /\ asked[c] \in Updates
  /\ ~HasSelected(c)
  /\ \/ stored.job = NoJob /\ Return(c, "threw")
     \/ stored.job # NoJob /\ Updated[asked[c]][stored.job] = Declined
        /\ Return(c, "declined")
     \/ /\ stored.job # NoJob /\ Updated[asked[c]][stored.job] # Declined
        /\ selected' = [selected EXCEPT ![c] = stored]
        /\ UNCHANGED <<asked, answer>>
  /\ UNCHANGED <<stored, attempt, before>>

\* Mutant: the UPDATE's WHERE names the key only.
Matches_KeyOnly(c) == TRUE

\* The UPDATE matches the row: it is the version that was selected.
Matches(c) == stored.version = selected[c].version

\* It commits; the answer may still be lost on the way back.
UpdateRow(c) ==
  /\ HasSelected(c)
  /\ Matches(c)
  /\ stored.version < MaxVersion
  /\ stored' = [job |-> Updated[asked[c]][selected[c].job],
                version |-> stored.version + 1]
  /\ \E how \in {"applied", "threw"} : Return(c, how)
  /\ UNCHANGED <<attempt, before>>

\* Mutant: one lost race uses up two attempts.
LoseRace_CountedTwice(c) ==
  /\ HasSelected(c)
  /\ ~Matches(c)
  /\ attempt' = [attempt EXCEPT ![c] = @ + 2]
  /\ IF attempt[c] + 2 < UpdateRetries
     THEN /\ selected' = [selected EXCEPT ![c] = NoRow]
          /\ UNCHANGED <<asked, answer>>
     ELSE Return(c, "threw")
  /\ UNCHANGED <<stored, before>>

\* The UPDATE matches nothing: another attempt, or the last one was lost.
LoseRace(c) ==
  /\ HasSelected(c)
  /\ ~Matches(c)
  /\ attempt' = [attempt EXCEPT ![c] = @ + 1]
  /\ IF attempt[c] + 1 < UpdateRetries
     THEN /\ selected' = [selected EXCEPT ![c] = NoRow]
          /\ UNCHANGED <<asked, answer>>
     ELSE Return(c, "threw")
  /\ UNCHANGED <<stored, before>>

\* The database request fails or the process dies before the UPDATE commits.
Abort(c) ==
  /\ asked[c] \in Updates
  /\ Return(c, "threw")
  /\ UNCHANGED <<stored, attempt, before>>

Next ==
  \/ CreateRelayerJob
  \/ \E c \in Callers :
       \/ \E u \in Updates : TryUpdateRelayerJob(c, u)
       \/ Select(c) \/ UpdateRow(c) \/ LoseRace(c) \/ Abort(c)

Spec == Init /\ [][Next]_vars

-----------------------------------------------------------------------------
(* Properties.                                                             *)

\* A SELECT that is still current read the job that is still there: what the
\* update function was applied to is what its UPDATE replaces.  This is what
\* the version column is for, and why no writer's change is lost.
SelectedIsStored ==
  \A c \in Callers :
    HasSelected(c) => \/ selected[c].version < stored.version
                      \/ selected[c] = stored

\* A caller loses a race only to a write another caller has made since the
\* call began, so a call that gives up after UPDATE_RETRIES attempts has been
\* overtaken by that many writes: contention never stops everybody.
LostToAnotherWrite ==
  \A c \in Callers :
    /\ asked[c] # "none" => attempt[c] <= stored.version - before[c]
    /\ HasSelected(c) => attempt[c] <= selected[c].version - before[c]

\* The store keeps the promise of JobCell: every call is one atomic
\* read-modify-write of the job, or no change at all.
Cell == INSTANCE JobCell WITH job <- stored.job
CellSpec == Cell!CellSpec
=============================================================================
