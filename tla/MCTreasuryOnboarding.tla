------------------------- MODULE MCTreasuryOnboarding -------------------------
(***************************************************************************)
(* TreasuryOnboarding for TLC: every kind of write, three transactions of  *)
(* one wish, and a poll longer than a transaction's validity, as in the    *)
(* code (ninety polls of two seconds against 120 s).  AdvisedSpec is an    *)
(* operator who does what the notices say, and nothing else by hand.       *)
(***************************************************************************)
EXTENDS TreasuryOnboarding

\* The operator takes another key only when told that the form's is used, and
\* does not load the page again.
Advised == form'.hand # form.hand => told = "spent" /\ UNCHANGED told

AdvisedSpec == OnboardingInit /\ [][OnboardingNext /\ Advised]_allVars

\* An operator who takes another nonce only when the console tells them to
\* ("Generate another nonce before preparing this payment", payment-section.tsx
\* 119; stellarClient.ts 1254-1259, 1302-1307) pays once.
AdvisedPaysOnce == kind \in {"payment", "split"} => AtMostOne
=============================================================================
