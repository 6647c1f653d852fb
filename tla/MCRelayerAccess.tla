--------------------------- MODULE MCRelayerAccess ---------------------------
(***************************************************************************)
(* RelayerAccess for TLC: two tabs of a browser whose wallet holds two     *)
(* accounts, and a treasury with a rule of each kind.                      *)
(***************************************************************************)
EXTENDS RelayerAccess, TLC

CONSTANTS a, b

Symmetry == Permutations(Tabs)

MCAddresses == {a, b}
MCRules == {"default", "limited", "adapter"}
MCSigners == [r \in MCRules |-> IF r = "default" THEN {a} ELSE {b}]
MCValidUntil == [r \in MCRules |-> IF r = "limited" THEN 2 ELSE NoEnd]
MCCovers == {"default", "limited"}
=============================================================================
