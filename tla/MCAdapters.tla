------------------------------ MODULE MCAdapters ------------------------------
(***************************************************************************)
(* Instances of Adapters for TLC.                                          *)
(***************************************************************************)
EXTENDS Adapters

\* /proc may be read and process handles be opened.
Allowing == {"os_error"}
=============================================================================
