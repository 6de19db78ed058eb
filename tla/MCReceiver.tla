----------------------------- MODULE MCReceiver -----------------------------
(***************************************************************************)
(* Instances of Receiver for TLC.                                          *)
(***************************************************************************)
EXTENDS Receiver, TLC

CONSTANTS d1, d2

At(d, check, socket) == [dir |-> d, check |-> check, socket |-> socket]

\* Two directories for one session: one checks the mailbox and its binding gains
\* a socket, the other uses the codex command and checks nothing.
Meeting == {At(d1, TRUE, FALSE), At(d1, TRUE, TRUE), At(d2, FALSE, FALSE)}

\* One directory that checks the mailbox, to whose binding a socket is added.
Checked == {At(d1, TRUE, FALSE), At(d1, TRUE, TRUE)}

Symmetry == Permutations(Process)
=============================================================================
