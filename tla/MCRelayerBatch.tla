--------------------------- MODULE MCRelayerBatch ---------------------------
(***************************************************************************)
(* RelayerBatch for TLC: three jobs, one or two overlapping batches.       *)
(***************************************************************************)
EXTENDS RelayerBatch

CONSTANTS j1, j2, j3

MCJobs == {j1, j2, j3}
NoJobs == {}
FirstJob == {j1}
SecondJob == {j2}
=============================================================================
