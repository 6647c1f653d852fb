--------------------------- MODULE MCPolicyConsole ---------------------------
(***************************************************************************)
(* PolicyConsole for TLC: caps at, above and below a power of ten, and one *)
(* with no power of ten above it that is an i128.                          *)
(***************************************************************************)
EXTENDS PolicyConsole
=============================================================================
