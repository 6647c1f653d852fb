----------------------------- MODULE MCJobStore ----------------------------
(***************************************************************************)
(* JobStore for TLC: the part of a job record the executor's update        *)
(* functions look at, and three of those functions.                        *)
(***************************************************************************)
EXTENDS JobStore, TLC

CONSTANTS c1, c2, c3

MCCallers == {c1, c2, c3}

MCJobs == [child : 1..2, status : {"scheduled", "executing", "blocked"}]

MCNewJob == [child |-> 1, status |-> "scheduled"]

MCUpdates == {"claim", "record", "block"}

\* claim declines unless the job is free; record is updateForChild for child
\* 1; block is one of the unconditional writes.
MCUpdated ==
  [u \in MCUpdates |->
    [j \in MCJobs |->
      CASE u = "claim" /\ j.status = "scheduled" -> [j EXCEPT !.status = "executing"]
        [] u = "claim" /\ j.status # "scheduled" -> Declined
        [] u = "record" /\ j.child = 1 -> [child |-> 2, status |-> "scheduled"]
        [] u = "record" /\ j.child # 1 -> Declined
        [] u = "block" -> [j EXCEPT !.status = "blocked"]]]

Symmetry == Permutations(MCCallers)
=============================================================================
