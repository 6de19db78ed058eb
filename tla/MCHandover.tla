------------------------------ MODULE MCHandover ------------------------------
(***************************************************************************)
(* Instances of Handover for TLC.                                          *)
(***************************************************************************)
EXTENDS Handover

\* /proc hides the processes of other users, or a handle is refused.
Refusing == {"permission_denied", "os_error"}
=============================================================================
