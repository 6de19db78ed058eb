---------------------------- MODULE MCOwnedGroup ----------------------------
(***************************************************************************)
(* Instances of OwnedGroup for TLC.                                        *)
(***************************************************************************)
EXTENDS OwnedGroup, TLC

\* For an instance that checks safety alone.
Symmetry == Permutations(Pid \ {Leader})
=============================================================================
