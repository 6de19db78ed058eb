------------------------------ MODULE MCMcpCall ------------------------------
(***************************************************************************)
(* Instances of McpCall for TLC.                                           *)
(***************************************************************************)
EXTENDS McpCall, TLC

\* For an instance that checks safety alone.
Symmetry == Permutations(Call)
=============================================================================
