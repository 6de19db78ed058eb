----------------------------- MODULE MCPublished -----------------------------
(***************************************************************************)
(* Instances of Published for TLC.                                         *)
(***************************************************************************)
EXTENDS Published, TLC

Symmetry == Permutations(Publisher) \cup Permutations(Profile) \cup Permutations(Peer)
=============================================================================
