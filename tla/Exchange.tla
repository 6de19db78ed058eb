------------------------------ MODULE Exchange ------------------------------
(***************************************************************************)
(* What the mailbox promises its agents, with no processes, transactions,  *)
(* retries or crashes in it:                                               *)
(*                                                                         *)
(*   - a saved message never changes, and only its recipient's             *)
(*     acknowledgment is ever added to it;                                 *)
(*   - a request has at most one answer, which goes back the way the       *)
(*     request came;                                                       *)
(*   - a retired peer is part of no new request;                           *)
(*   - a message is announced to its recipient's client at most once, and  *)
(*     only after the announcement was claimed;                            *)
(*   - what is reported of it stays, and "submitted" is said of no         *)
(*     announcement that was not made.  "submission_unknown" promises      *)
(*     nothing: the announcement was made, may come yet, or never will.    *)
(*     After "not_submitted" none was made and none comes, unless the      *)
(*     report misjudged a client whose notices can be removed (Codex).     *)
(*                                                                         *)
(* Mailbox.tla is shown to implement this specification.                   *)
(***************************************************************************)

CONSTANTS
  Peer,     \* the registered agents
  Native,   \* those with a client that can be notified
  Removable,\* those whose client can remove a notice again
  Id,       \* message ids
  Body,     \* message texts
  None      \* the absent value

VARIABLES
  post,     \* what was saved under each id, or None
  read,     \* ids their recipients have acknowledged
  account,  \* what the mailbox says of each id's announcement
  written,  \* ids announced to a client
  misjudged,\* ids reported not_submitted that were announced, or may be yet
  closed    \* retired peers

vars == <<post, read, account, written, misjudged, closed>>

Post == [sender: Peer, recipient: Peer, parent: Id \cup {None}, body: Body]

Account ==
  {"unclaimed", "claimed", "not_submitted", "submission_unknown", "submitted"}

TypeOK ==
  /\ post \in [Id -> Post \cup {None}]
  /\ read \in SUBSET Id
  /\ account \in [Id -> Account]
  /\ written \in SUBSET Id
  /\ misjudged \in SUBSET Id
  /\ closed \in SUBSET Peer

Init ==
  /\ post = [m \in Id |-> None]
  /\ read = {}
  /\ account = [m \in Id |-> "unclaimed"]
  /\ written = {}
  /\ misjudged = {}
  /\ closed = {}

-----------------------------------------------------------------------------
SendRequest(m, p) ==
  /\ post[m] = None
  /\ p.parent = None
  /\ p.sender # p.recipient
  /\ {p.sender, p.recipient} \cap closed = {}
  /\ post' = [post EXCEPT ![m] = p]
  /\ UNCHANGED <<read, account, written, misjudged, closed>>

Answer(m, p) ==
  /\ post[m] = None
  /\ p.parent # None
  /\ post[p.parent] # None
  /\ post[p.parent].parent = None
  /\ p.sender = post[p.parent].recipient
  /\ p.recipient = post[p.parent].sender
  /\ \A a \in Id : post[a] # None => post[a].parent # p.parent
  /\ post' = [post EXCEPT ![m] = p]
  /\ UNCHANGED <<read, account, written, misjudged, closed>>

Acknowledge(m) ==
  /\ post[m] # None
  /\ read' = read \cup {m}
  /\ UNCHANGED <<post, account, written, misjudged, closed>>

Claim(m) ==
  /\ post[m] # None
  /\ post[m].recipient \in Native
  /\ account[m] = "unclaimed"
  /\ m \notin read
  /\ account' = [account EXCEPT ![m] = "claimed"]
  /\ UNCHANGED <<post, read, written, misjudged, closed>>

\* It may come late: after its process is gone, or after an unknown outcome.
Announce(m) ==
  /\ account[m] \in {"claimed", "submission_unknown"} \/ m \in misjudged
  /\ m \notin written
  /\ written' = written \cup {m}
  /\ UNCHANGED <<post, read, account, misjudged, closed>>

Report(m, s) ==
  /\ account[m] = "claimed"
  /\ s = "submitted" => m \in written
  /\ s = "not_submitted" => m \notin written
  /\ account' = [account EXCEPT ![m] = s]
  /\ UNCHANGED <<post, read, written, misjudged, closed>>

\* The denial of an announcement that was made, or may come yet.
Misjudge(m) ==
  /\ account[m] = "claimed"
  /\ post[m].recipient \in Removable
  /\ account' = [account EXCEPT ![m] = "not_submitted"]
  /\ misjudged' = misjudged \cup {m}
  /\ UNCHANGED <<post, read, written, closed>>

Retire(p) ==
  /\ closed' = closed \cup {p}
  /\ UNCHANGED <<post, read, account, written, misjudged>>

Restore(p) ==
  /\ closed' = closed \ {p}
  /\ UNCHANGED <<post, read, account, written, misjudged>>

\* What is saved under m is named by post' itself, so that no step has to try
\* every post there could be.
Next ==
  \/ \E m \in Id :
       post[m] = None /\ \E p \in {post'[m]} \cap Post : SendRequest(m, p) \/ Answer(m, p)
  \/ \E m \in Id : Acknowledge(m) \/ Claim(m) \/ Announce(m) \/ Misjudge(m)
  \/ \E m \in Id, s \in {"not_submitted", "submission_unknown", "submitted"} :
       Report(m, s)
  \/ \E p \in Peer : Retire(p) \/ Restore(p)

Spec == Init /\ [][Next]_vars
=============================================================================
