-------------------------- MODULE ScheduledPayments -------------------------
(***************************************************************************)
(* What the relayer promises about one scheduled payment: the executions   *)
(* are paid one after another, none before the store has passed the one    *)
(* before it, none twice and none beyond the limit, and the store reports  *)
(* the job done only once it has passed them all.                          *)
(***************************************************************************)
EXTENDS Integers

CONSTANT MaxExec  \* max_executions of the intent

VARIABLES
  paid,    \* how many executions the chain has paid
  passed,  \* how many of them the store's cursor has passed
  done     \* whether the store reports the job executed

paymentVars == <<paid, passed, done>>

PaymentInit == paid = 0 /\ passed = 0 /\ done = FALSE

\* The chain pays the next execution: the one the store has come to.
Pay ==
  /\ paid = passed
  /\ paid < MaxExec
  /\ paid' = paid + 1
  /\ UNCHANGED <<passed, done>>

\* The store passes an execution that is paid, and may report the last.
Pass ==
  /\ passed < paid
  /\ passed' = passed + 1
  /\ done' \in BOOLEAN
  /\ done' => passed' = MaxExec
  /\ UNCHANGED paid

\* Of a job it has passed altogether the store may change its report: a run
\* by hand that finds the limit used up reports the job blocked.
Report ==
  /\ passed = MaxExec
  /\ done' \in BOOLEAN
  /\ UNCHANGED <<paid, passed>>

PaymentNext == Pay \/ Pass \/ Report

PaymentSpec == PaymentInit /\ [][PaymentNext]_paymentVars
=============================================================================
