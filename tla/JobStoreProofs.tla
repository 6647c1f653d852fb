--------------------------- MODULE JobStoreProofs --------------------------
(***************************************************************************)
(* JobStore implements JobCell, for any number of callers, any job values, *)
(* any update functions and any number of attempts.                        *)
(***************************************************************************)
EXTENDS JobStore, TLAPS

\* The strengthening: while a selection stands its caller's call is under
\* way, what it selected exists and its update does not decline it; a call
\* under way has attempts left.
CallInv ==
  \A c \in Callers :
    /\ HasSelected(c) => /\ asked[c] \in Updates
                         /\ selected[c].job \in Jobs
                         /\ Updated[asked[c]][selected[c].job] \in Jobs
    /\ asked[c] \in Updates => attempt[c] < UpdateRetries

StoreInv == TypeOK /\ CallInv /\ SelectedIsStored /\ LostToAnotherWrite

\* What an update function makes of a job is a job unless it declines.
LEMMA UpdatedType ==
  ASSUME NEW u \in Updates, NEW j \in Jobs, Updated[u][j] # Declined
  PROVE  Updated[u][j] \in Jobs
  BY StoreAssumption

LEMMA InitInv == Init => StoreInv
  BY StoreAssumption
  DEF Init, StoreInv, TypeOK, CallInv, SelectedIsStored, LostToAnotherWrite,
      HasSelected, Row, NoRow

-----------------------------------------------------------------------------
\* Ending a call leaves nothing selected by it.
LEMMA ReturnType ==
  ASSUME TypeOK, NEW c \in Callers, NEW how \in {"applied", "declined", "threw"},
         Return(c, how)
  PROVE  /\ asked' \in [Callers -> Updates \cup {"none"}]
         /\ answer' \in [Callers -> {"none", "applied", "declined", "threw"}]
         /\ selected' \in [Callers -> Row]
<1>1. NoRow \in Row
  BY StoreAssumption DEF NoRow, Row
<1>2. QED
  BY <1>1 DEF Return, TypeOK

\* Type correctness is preserved by every step of the store.
LEMMA TypeStep == TypeOK /\ CallInv /\ [Next]_vars => TypeOK'
<1> SUFFICES ASSUME TypeOK, CallInv, [Next]_vars PROVE TypeOK'
  OBVIOUS
<1>0. NoRow \in Row
  BY StoreAssumption DEF NoRow, Row
<1>1. CASE CreateRelayerJob
  BY <1>1, StoreAssumption DEF CreateRelayerJob, TypeOK, Row
<1>2. ASSUME NEW c \in Callers, NEW u \in Updates, TryUpdateRelayerJob(c, u)
      PROVE  TypeOK'
  <2>1. stored.version \in 0..MaxVersion /\ 0 \in 0..UpdateRetries
    BY StoreAssumption DEF TypeOK, Row
  <2>2. QED
    BY <1>2, <2>1 DEF TryUpdateRelayerJob, TypeOK
<1>3. ASSUME NEW c \in Callers, Select(c) PROVE TypeOK'
  <2>1. CASE Return(c, "threw")
    BY <1>3, <2>1, ReturnType DEF Select, TypeOK
  <2>2. CASE Return(c, "declined")
    BY <1>3, <2>2, ReturnType DEF Select, TypeOK
  <2>3. CASE /\ selected' = [selected EXCEPT ![c] = stored]
             /\ UNCHANGED <<asked, answer>>
    BY <1>3, <2>3 DEF Select, TypeOK
  <2>4. QED
    BY <1>3, <2>1, <2>2, <2>3 DEF Select
<1>4. ASSUME NEW c \in Callers, UpdateRow(c) PROVE TypeOK'
  <2>1. Updated[asked[c]][selected[c].job] \in Jobs
    BY <1>4 DEF UpdateRow, CallInv
  <2>2. stored.version \in 0..MaxVersion /\ stored.version < MaxVersion
    BY <1>4 DEF UpdateRow, TypeOK, Row
  <2>3. stored.version + 1 \in 0..MaxVersion
    BY <2>2, StoreAssumption
  <2>4. stored' \in Row
    BY <1>4, <2>1, <2>3 DEF UpdateRow, Row
  <2>5. PICK how \in {"applied", "threw"} : Return(c, how)
    BY <1>4 DEF UpdateRow
  <2>6. QED
    BY <1>4, <2>4, <2>5, ReturnType DEF UpdateRow, TypeOK
<1>5. ASSUME NEW c \in Callers, LoseRace(c) PROVE TypeOK'
  <2>1. attempt' \in [Callers -> 0..UpdateRetries]
    <3>1. attempt[c] + 1 \in 0..UpdateRetries
      BY <1>5, StoreAssumption DEF LoseRace, CallInv, TypeOK
    <3>2. QED
      BY <1>5, <3>1 DEF LoseRace, TypeOK
  <2>2. CASE attempt[c] + 1 < UpdateRetries
    BY <1>5, <1>0, <2>1, <2>2 DEF LoseRace, TypeOK
  <2>3. CASE ~(attempt[c] + 1 < UpdateRetries)
    BY <1>5, <2>1, <2>3, ReturnType DEF LoseRace, TypeOK
  <2>4. QED
    BY <2>2, <2>3
<1>6. ASSUME NEW c \in Callers, Abort(c) PROVE TypeOK'
  BY <1>6, ReturnType DEF Abort, TypeOK
<1>7. CASE UNCHANGED vars
  BY <1>7 DEF vars, TypeOK
<1>8. QED
  BY <1>1, <1>2, <1>3, <1>4, <1>5, <1>6, <1>7 DEF Next

\* What holds of the calls under way is preserved.
LEMMA CallStep == TypeOK /\ CallInv /\ [Next]_vars => CallInv'
<1> SUFFICES ASSUME TypeOK, CallInv, [Next]_vars PROVE CallInv'
  OBVIOUS
<1>0. NoRow.job = NoJob /\ "none" \notin Updates
  BY StoreAssumption DEF NoRow
<1>a. ASSUME NEW c \in Callers, NEW how \in {"applied", "declined", "threw"},
             Return(c, how),
             \A d \in Callers : d # c => attempt'[d] = attempt[d]
      PROVE  CallInv'
  BY <1>0, <1>a DEF Return, CallInv, HasSelected, TypeOK
<1>1. CASE CreateRelayerJob
  BY <1>1 DEF CreateRelayerJob, CallInv, HasSelected
<1>2. ASSUME NEW c \in Callers, NEW u \in Updates, TryUpdateRelayerJob(c, u)
      PROVE  CallInv'
  <2>1. asked[c] \notin Updates /\ ~HasSelected(c)
    BY <1>0, <1>2 DEF TryUpdateRelayerJob, CallInv
  <2>2. \A d \in Callers : HasSelected(d)' = HasSelected(d)
    BY <1>2 DEF TryUpdateRelayerJob, HasSelected
  <2>3. 0 < UpdateRetries
    BY StoreAssumption
  <2>4. QED
    BY <1>2, <2>1, <2>2, <2>3 DEF TryUpdateRelayerJob, CallInv, TypeOK
<1>3. ASSUME NEW c \in Callers, Select(c) PROVE CallInv'
  <2>1. CASE Return(c, "threw")
    BY <1>3, <1>a, <2>1 DEF Select
  <2>2. CASE Return(c, "declined")
    BY <1>3, <1>a, <2>2 DEF Select
  <2>3. CASE /\ stored.job # NoJob /\ Updated[asked[c]][stored.job] # Declined
             /\ selected' = [selected EXCEPT ![c] = stored]
             /\ UNCHANGED <<asked, answer>>
    <3>1. stored.job \in Jobs
      BY <2>3 DEF TypeOK, Row
    <3>2. Updated[asked[c]][stored.job] \in Jobs
      BY <1>3, <2>3, <3>1, UpdatedType DEF Select
    <3>3. QED
      BY <1>3, <2>3, <3>1, <3>2 DEF Select, CallInv, HasSelected, TypeOK
  <2>4. QED
    BY <1>3, <2>1, <2>2, <2>3 DEF Select
<1>4. ASSUME NEW c \in Callers, UpdateRow(c) PROVE CallInv'
  <2>1. PICK how \in {"applied", "threw"} : Return(c, how)
    BY <1>4 DEF UpdateRow
  <2>2. QED
    BY <1>4, <1>a, <2>1 DEF UpdateRow
<1>5. ASSUME NEW c \in Callers, LoseRace(c) PROVE CallInv'
  <2>1. \A d \in Callers : d # c => attempt'[d] = attempt[d]
    BY <1>5 DEF LoseRace, TypeOK
  <2>2. CASE attempt[c] + 1 < UpdateRetries
    BY <1>0, <1>5, <2>2 DEF LoseRace, CallInv, HasSelected, TypeOK
  <2>3. CASE ~(attempt[c] + 1 < UpdateRetries)
    BY <1>5, <1>a, <2>1, <2>3 DEF LoseRace
  <2>4. QED
    BY <2>2, <2>3
<1>6. ASSUME NEW c \in Callers, Abort(c) PROVE CallInv'
  BY <1>6, <1>a DEF Abort
<1>7. CASE UNCHANGED vars
  BY <1>7 DEF vars, CallInv, HasSelected
<1>8. QED
  BY <1>1, <1>2, <1>3, <1>4, <1>5, <1>6, <1>7 DEF Next

-----------------------------------------------------------------------------
(* No update is lost.                                                      *)

LEMMA SelectedStep ==
  TypeOK /\ SelectedIsStored /\ [Next]_vars => SelectedIsStored'
<1> SUFFICES ASSUME TypeOK, SelectedIsStored, [Next]_vars PROVE SelectedIsStored'
  OBVIOUS
<1>0. NoRow.job = NoJob
  BY DEF NoRow
<1>a. ASSUME NEW c \in Callers, NEW how \in {"applied", "declined", "threw"},
             Return(c, how),
             stored' = stored \/ stored'.version = stored.version + 1
      PROVE  SelectedIsStored'
  <2>1. \A d \in Callers : HasSelected(d)' => HasSelected(d) /\ selected'[d] = selected[d]
    BY <1>0, <1>a DEF Return, HasSelected, TypeOK
  <2>2. \A d \in Callers : selected[d].version \in Int /\ stored.version \in Int
    BY StoreAssumption DEF TypeOK, Row
  <2>3. CASE stored' = stored
    BY <2>1, <2>3 DEF SelectedIsStored
  <2>4. CASE stored'.version = stored.version + 1
    <3>1. \A d \in Callers : HasSelected(d) => selected[d].version < stored.version + 1
      BY <2>2 DEF SelectedIsStored
    <3>2. QED
      BY <2>1, <2>4, <3>1 DEF SelectedIsStored
  <2>5. QED
    BY <1>a, <2>3, <2>4
<1>1. CASE CreateRelayerJob
  <2>1. stored'.version = stored.version
    BY <1>1 DEF CreateRelayerJob, TypeOK, Row
  <2>2. stored.job # NoJob => stored' = stored
    BY <1>1 DEF CreateRelayerJob
  <2>3. QED
    BY <1>1, <2>1, <2>2 DEF CreateRelayerJob, SelectedIsStored, HasSelected
<1>2. ASSUME NEW c \in Callers, NEW u \in Updates, TryUpdateRelayerJob(c, u)
      PROVE  SelectedIsStored'
  BY <1>2 DEF TryUpdateRelayerJob, SelectedIsStored, HasSelected
<1>3. ASSUME NEW c \in Callers, Select(c) PROVE SelectedIsStored'
  <2>1. CASE Return(c, "threw")
    BY <1>3, <1>a, <2>1 DEF Select
  <2>2. CASE Return(c, "declined")
    BY <1>3, <1>a, <2>2 DEF Select
  <2>3. CASE selected' = [selected EXCEPT ![c] = stored]
    BY <1>3, <2>3 DEF Select, SelectedIsStored, HasSelected, TypeOK
  <2>4. QED
    BY <1>3, <2>1, <2>2, <2>3 DEF Select
<1>4. ASSUME NEW c \in Callers, UpdateRow(c) PROVE SelectedIsStored'
  <2>1. PICK how \in {"applied", "threw"} : Return(c, how)
    BY <1>4 DEF UpdateRow
  <2>2. stored'.version = stored.version + 1
    BY <1>4 DEF UpdateRow
  <2>3. QED
    BY <1>a, <2>1, <2>2
<1>5. ASSUME NEW c \in Callers, LoseRace(c) PROVE SelectedIsStored'
  <2>1. CASE attempt[c] + 1 < UpdateRetries
    BY <1>0, <1>5, <2>1 DEF LoseRace, SelectedIsStored, HasSelected, TypeOK
  <2>2. CASE ~(attempt[c] + 1 < UpdateRetries)
    BY <1>5, <1>a, <2>2 DEF LoseRace
  <2>3. QED
    BY <2>1, <2>2
<1>6. ASSUME NEW c \in Callers, Abort(c) PROVE SelectedIsStored'
  BY <1>6, <1>a DEF Abort
<1>7. CASE UNCHANGED vars
  BY <1>7 DEF vars, SelectedIsStored, HasSelected
<1>8. QED
  BY <1>1, <1>2, <1>3, <1>4, <1>5, <1>6, <1>7 DEF Next

\* No two rows of one version differ: an UPDATE whose version matches
\* replaces the very job its SELECT returned.
LEMMA MatchIsCurrent ==
  ASSUME TypeOK, SelectedIsStored, NEW c \in Callers, HasSelected(c), Matches(c)
  PROVE  selected[c] = stored
<1>1. stored.version \in Int
  BY StoreAssumption DEF TypeOK, Row
<1>2. QED
  BY <1>1 DEF SelectedIsStored, Matches

-----------------------------------------------------------------------------
(* Races are lost to writes.                                               *)

LEMMA LostStep ==
  TypeOK /\ CallInv /\ SelectedIsStored /\ LostToAnotherWrite /\ [Next]_vars
    => LostToAnotherWrite'
<1> SUFFICES ASSUME TypeOK, CallInv, SelectedIsStored, LostToAnotherWrite, [Next]_vars
             PROVE  LostToAnotherWrite'
  OBVIOUS
<1>0. NoRow.job = NoJob /\ "none" \notin Updates
  BY StoreAssumption DEF NoRow
<1>t. /\ stored.version \in Int
      /\ \A d \in Callers : /\ selected[d].version \in Int
                            /\ attempt[d] \in Int /\ before[d] \in Int
  BY StoreAssumption DEF TypeOK, Row
<1>a. ASSUME NEW c \in Callers, NEW how \in {"applied", "declined", "threw"},
             Return(c, how), before' = before,
             \A d \in Callers : d # c => attempt'[d] = attempt[d],
             stored' = stored \/ stored'.version = stored.version + 1
      PROVE  LostToAnotherWrite'
  <2>1. \A d \in Callers : HasSelected(d)' => d # c /\ HasSelected(d) /\ selected'[d] = selected[d]
    BY <1>0, <1>a DEF Return, HasSelected, TypeOK
  <2>2. \A d \in Callers : asked'[d] # "none" => d # c /\ asked[d] # "none"
    BY <1>a DEF Return, TypeOK
  <2>3. stored'.version >= stored.version /\ stored'.version \in Int
    BY <1>a, <1>t
  <2>4. ASSUME NEW d \in Callers, asked'[d] # "none"
        PROVE  attempt'[d] <= stored'.version - before'[d]
    <3>1. attempt[d] <= stored.version - before[d] /\ attempt'[d] = attempt[d]
      BY <1>a, <2>2, <2>4 DEF LostToAnotherWrite
    <3>2. QED
      BY <1>a, <1>t, <2>3, <3>1
  <2>5. ASSUME NEW d \in Callers, HasSelected(d)'
        PROVE  attempt'[d] <= selected'[d].version - before'[d]
    BY <1>a, <2>1, <2>5 DEF LostToAnotherWrite
  <2>6. QED
    BY <2>4, <2>5 DEF LostToAnotherWrite
<1>1. CASE CreateRelayerJob
  <2>1. stored'.version = stored.version
    BY <1>1 DEF CreateRelayerJob, TypeOK, Row
  <2>2. QED
    BY <1>1, <2>1 DEF CreateRelayerJob, LostToAnotherWrite, HasSelected
<1>2. ASSUME NEW c \in Callers, NEW u \in Updates, TryUpdateRelayerJob(c, u)
      PROVE  LostToAnotherWrite'
  <2>1. ~HasSelected(c)
    BY <1>0, <1>2 DEF TryUpdateRelayerJob, CallInv
  <2>2. 0 <= stored.version - stored.version
    BY <1>t
  <2>3. QED
    BY <1>2, <2>1, <2>2 DEF TryUpdateRelayerJob, LostToAnotherWrite, HasSelected, TypeOK
<1>3. ASSUME NEW c \in Callers, Select(c) PROVE LostToAnotherWrite'
  <2>1. CASE Return(c, "threw")
    BY <1>3, <1>a, <2>1 DEF Select
  <2>2. CASE Return(c, "declined")
    BY <1>3, <1>a, <2>2 DEF Select
  <2>3. CASE selected' = [selected EXCEPT ![c] = stored] /\ UNCHANGED <<asked, answer>>
    BY <1>0, <1>3, <2>3 DEF Select, LostToAnotherWrite, HasSelected, TypeOK
  <2>4. QED
    BY <1>3, <2>1, <2>2, <2>3 DEF Select
<1>4. ASSUME NEW c \in Callers, UpdateRow(c) PROVE LostToAnotherWrite'
  <2>1. PICK how \in {"applied", "threw"} : Return(c, how)
    BY <1>4 DEF UpdateRow
  <2>2. stored'.version = stored.version + 1
    BY <1>4 DEF UpdateRow
  <2>3. QED
    BY <1>4, <1>a, <2>1, <2>2 DEF UpdateRow
<1>5. ASSUME NEW c \in Callers, LoseRace(c) PROVE LostToAnotherWrite'
  <2>1. selected[c].version + 1 <= stored.version
    BY <1>5, <1>t DEF LoseRace, Matches, SelectedIsStored
  <2>2. attempt[c] + 1 <= stored.version - before[c]
    BY <1>5, <1>t, <2>1 DEF LoseRace, LostToAnotherWrite
  <2>3. attempt' = [attempt EXCEPT ![c] = @ + 1]
    BY <1>5 DEF LoseRace
  <2>4. CASE attempt[c] + 1 < UpdateRetries
    BY <1>0, <1>5, <2>2, <2>3, <2>4 DEF LoseRace, LostToAnotherWrite, HasSelected, TypeOK
  <2>5. CASE ~(attempt[c] + 1 < UpdateRetries)
    BY <1>5, <1>a, <2>3, <2>5 DEF LoseRace, TypeOK
  <2>6. QED
    BY <2>4, <2>5
<1>6. ASSUME NEW c \in Callers, Abort(c) PROVE LostToAnotherWrite'
  BY <1>6, <1>a DEF Abort
<1>7. CASE UNCHANGED vars
  BY <1>7 DEF vars, LostToAnotherWrite, HasSelected
<1>8. QED
  BY <1>1, <1>2, <1>3, <1>4, <1>5, <1>6, <1>7 DEF Next

-----------------------------------------------------------------------------
(* The invariants of the store, for all values of the constants: types,    *)
(* the version-guarded selection and the cause of every lost race          *)
(* (tryUpdateRelayerJob).                                                  *)
THEOREM StoreInvariant == Spec => []StoreInv
<1>1. Init => StoreInv
  BY InitInv
<1>2. StoreInv /\ [Next]_vars => StoreInv'
  BY TypeStep, CallStep, SelectedStep, LostStep DEF StoreInv
<1>3. QED
  BY <1>1, <1>2, PTL DEF Spec

\* Every variable keeps its type.
THEOREM StoreTypeOK == Spec => []TypeOK
  BY StoreInvariant, PTL DEF StoreInv

\* A selection that is still current read the job that is still stored: the
\* UPDATE of tryUpdateRelayerJob never replaces a job it has not seen.
THEOREM NoUpdateLost == Spec => []SelectedIsStored
  BY StoreInvariant, PTL DEF StoreInv

\* A call gives up only after as many writes by others as it had attempts.
THEOREM GivesUpToProgress == Spec => []LostToAnotherWrite
  BY StoreInvariant, PTL DEF StoreInv

-----------------------------------------------------------------------------
(* Refinement.                                                             *)

LEMMA CellInitially == Init => Cell!CellInit
  BY DEF Init, Cell!CellInit, NoRow, Cell!NoUpdate

\* Every step of the store is one step of the cell, or changes nothing the
\* cell shows.
LEMMA CellStep == StoreInv /\ [Next]_vars => [Cell!CellNext]_(Cell!cellVars)
<1> SUFFICES ASSUME StoreInv, [Next]_vars PROVE [Cell!CellNext]_(Cell!cellVars)
  OBVIOUS
<1> USE DEF StoreInv, Cell!cellVars
<1>t. ASSUME NEW c \in Callers, asked[c] \in Updates, Return(c, "threw"), stored' = stored
      PROVE  Cell!CellNext
  BY <1>t DEF Return, Cell!CellNext, Cell!Throw, Cell!Answer, Cell!NoUpdate
<1>1. CASE CreateRelayerJob
  <2>1. stored'.job = IF stored.job = NoJob THEN NewJob ELSE stored.job
    BY <1>1 DEF CreateRelayerJob, TypeOK, Row
  <2>2. QED
    BY <1>1, <2>1 DEF CreateRelayerJob, Cell!CellNext, Cell!CellCreate
<1>2. ASSUME NEW c \in Callers, NEW u \in Updates, TryUpdateRelayerJob(c, u)
      PROVE  Cell!CellNext
  BY <1>2 DEF TryUpdateRelayerJob, Cell!CellNext, Cell!Ask, Cell!NoUpdate
<1>3. ASSUME NEW c \in Callers, Select(c) PROVE [Cell!CellNext]_(Cell!cellVars)
  <2>1. CASE Return(c, "threw")
    BY <1>3, <1>t, <2>1 DEF Select
  <2>2. CASE /\ stored.job # NoJob /\ Updated[asked[c]][stored.job] = Declined
             /\ Return(c, "declined")
    <3>1. stored.job \in Jobs
      BY <2>2 DEF TypeOK, Row
    <3>2. Cell!Decline(c)
      BY <1>3, <2>2, <3>1 DEF Select, Return, Cell!Decline, Cell!Answer, Cell!NoUpdate
    <3>3. QED
      BY <3>2 DEF Cell!CellNext
  <2>3. CASE UNCHANGED <<asked, answer>>
    BY <1>3, <2>3 DEF Select
  <2>4. QED
    BY <1>3, <2>1, <2>2, <2>3 DEF Select
<1>4. ASSUME NEW c \in Callers, UpdateRow(c) PROVE Cell!CellNext
  <2>1. PICK how \in {"applied", "threw"} : Return(c, how)
    BY <1>4 DEF UpdateRow
  <2>2. selected[c] = stored /\ HasSelected(c)
    BY <1>4, MatchIsCurrent DEF UpdateRow
  <2>3. /\ asked[c] \in Updates
        /\ stored.job \in Jobs
        /\ Updated[asked[c]][stored.job] \in Jobs
    BY <2>2 DEF CallInv
  <2>4. stored'.job = Updated[asked[c]][stored.job]
    BY <1>4, <2>2 DEF UpdateRow
  <2>5. Cell!Answer(c, how)
    BY <2>1 DEF Return, Cell!Answer, Cell!NoUpdate
  <2>6. Cell!Apply(c)
    BY <2>3, <2>4, <2>5 DEF Cell!Apply
  <2>7. QED
    BY <2>6 DEF Cell!CellNext
<1>5. ASSUME NEW c \in Callers, LoseRace(c) PROVE [Cell!CellNext]_(Cell!cellVars)
  <2>1. CASE attempt[c] + 1 < UpdateRetries
    BY <1>5, <2>1 DEF LoseRace
  <2>2. CASE ~(attempt[c] + 1 < UpdateRetries)
    <3>1. asked[c] \in Updates
      BY <1>5 DEF LoseRace, CallInv
    <3>2. QED
      BY <1>5, <1>t, <2>2, <3>1 DEF LoseRace
  <2>3. QED
    BY <2>1, <2>2
<1>6. ASSUME NEW c \in Callers, Abort(c) PROVE Cell!CellNext
  BY <1>6, <1>t DEF Abort
<1>7. CASE UNCHANGED vars
  BY <1>7 DEF vars
<1>8. QED
  BY <1>1, <1>2, <1>3, <1>4, <1>5, <1>6, <1>7 DEF Next

\* The version-guarded SELECT and UPDATE of tryUpdateRelayerJob implement an
\* atomic read-modify-write of the job.
THEOREM StoreImplementsCell == Spec => CellSpec
<1>1. Init => Cell!CellInit
  BY CellInitially
<1>2. StoreInv /\ [Next]_vars => [Cell!CellNext]_(Cell!cellVars)
  BY CellStep
<1>3. QED
  BY <1>1, <1>2, StoreInvariant, PTL DEF Spec, CellSpec, Cell!CellSpec
=============================================================================
