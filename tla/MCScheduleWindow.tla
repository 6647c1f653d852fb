-------------------------- MODULE MCScheduleWindow --------------------------
(***************************************************************************)
(* An instance of ScheduleWindow: ledgers of two seconds, windows of two   *)
(* ledgers, moments in the past, within a ledger and beyond one.           *)
(***************************************************************************)
EXTENDS ScheduleWindow

PickedMoments == {-5, 1, 3}
=============================================================================
