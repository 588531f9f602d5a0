--------------------------- MODULE MCSecurityProbe ---------------------------
(***************************************************************************)
(* Counts on both sides of every boundary the validator tests: negative,   *)
(* none, one and several.                                                  *)
(***************************************************************************)
EXTENDS SecurityProbe

MCCounts == -1 .. 2
=============================================================================
