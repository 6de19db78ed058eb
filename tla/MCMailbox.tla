------------------------------ MODULE MCMailbox ------------------------------
(***************************************************************************)
(* Instances of Mailbox for TLC.  alice's client queues notices and can    *)
(* withdraw them (Codex), bob's cannot (Claude, OpenCode), carol has none  *)
(* (pull).                                                                 *)
(***************************************************************************)
EXTENDS Mailbox, TLC

CONSTANTS alice, bob, carol, m1, m2, m3, text, other

J(op, actor, to, id, body, notify, wait) ==
  [op |-> op, actor |-> actor, to |-> to, id |-> id, body |-> body,
   notify |-> notify, wait |-> wait]

Send(a, b, m, body) == J("send", a, b, m, body, TRUE, FALSE)
SendAndWait(a, b, m, body) == J("send", a, b, m, body, TRUE, TRUE)
Reply(a, m, body) == J("reply", a, None, m, body, TRUE, FALSE)
AckOf(a, m) == J("ack", a, None, m, None, FALSE, FALSE)
WaitFor(a, m) == J("wait", a, None, m, None, FALSE, TRUE)

\* One request from bob to alice, retried, contradicted and acknowledged
\* while its notice is on the way (alice's queue can be cleaned), and answered
\* by two commands at once, in the same words, in others, or by the wrong peer.
Quiet(j) == [j EXCEPT !.notify = FALSE]

NoticeJobs ==
  {Send(bob, alice, m1, text), Send(bob, alice, m1, other), AckOf(alice, m1),
   Quiet(Reply(alice, m1, text)), Quiet(Reply(alice, m1, other)),
   Quiet(Reply(bob, m1, text))}

\* A request from alice to bob and its answer back to alice, whose wait may
\* return it first; the answer's id is fresh, so it is the other one.
AnswerJobs ==
  {SendAndWait(alice, bob, m1, text), WaitFor(alice, m1),
   Reply(bob, m1, text), AckOf(alice, m2)}

\* Saves that meet: two answers to one request, answers by the wrong peer and
\* to an answer, an id used twice, a peer without a client.
SaveJobs ==
  {Send(alice, carol, m1, text), Quiet(Send(carol, alice, m1, text)),
   Quiet(Send(alice, carol, None, text)),
   Quiet(Reply(carol, m1, text)), Quiet(Reply(carol, m1, other)),
   Quiet(Reply(alice, m1, text)), Quiet(Reply(alice, m2, text)),
   WaitFor(carol, m1)}

\* All of these, with an acknowledged request and one sent again with other words.
AllJobs == AnswerJobs \cup SaveJobs \cup {AckOf(bob, m1), Send(bob, alice, m1, other)}

\* The commands are alike, and so are the ids no job names.
Symmetry == Permutations(Command) \cup Permutations(Id \ {m1})
=============================================================================
