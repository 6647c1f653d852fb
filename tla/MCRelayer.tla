------------------------------ MODULE MCRelayer -----------------------------
(***************************************************************************)
(* Relayer for TLC: the environments a run is checked in.                  *)
(***************************************************************************)
EXTENDS Relayer, TLC

\* A run may be lost at any await, at those the code provides for, or never.
AnyPoint == RunPoints
RecordedPoints == RunPoints \ Unrecorded
NoPoint == {}

Symmetry == Permutations(CronRuns)
=============================================================================
