--------------------------- MODULE MCTreasuryRules ---------------------------
(***************************************************************************)
(* TreasuryRules for TLC: two operators on a treasury that has one of them *)
(* as its signer, once behind a policy; c is a signer no console can read. *)
(***************************************************************************)
EXTENDS TreasuryRules

CONSTANTS a, b, c

MCOperators == {a, b}
MCReadable == {a, b}
MCAddresses == {a, b, c}
MCFirstRules ==
  [r \in 0..1 |-> [signers |-> {a}, gated |-> r = 0, applies |-> TRUE]]
MCEnding == {1}
=============================================================================
