------------------------------- MODULE Mailbox -------------------------------
(***************************************************************************)
(* The mailbox: one SQLite file that separate htalk processes share, and   *)
(* the one notification each message may cause in its recipient's client.  *)
(*                                                                         *)
(* A command is one htalk process.  It runs once, from its arguments (a    *)
(* job) to an exit code, in steps as long as the code's transactions and   *)
(* client calls: between two of them any step of another command may come. *)
(* A step that only reads (load, skip_reason) and one that writes (an      *)
(* UPDATE, an INSERT inside BEGIN IMMEDIATE) are both atomic, as SQLite    *)
(* makes them.                                                             *)
(*                                                                         *)
(* A client call that ends without an answer, or with its process, may     *)
(* leave something behind: a codex command that was not killed, a request  *)
(* that was written in part.  Its notice is then "coming", and may still   *)
(* reach the client at any later time, or never.                           *)
(*                                                                         *)
(* Stop(c) is every way a command ends early: the process is killed, an    *)
(* interrupt is noticed, or a database call returns an error (the lock     *)
(* stayed busy for five seconds, the disk failed).  The errors the code    *)
(* survives are disjuncts of the step they hit.                            *)
(*                                                                         *)
(* A message body, a time and a receipt are abstracted: a body to the      *)
(* equality that conflicts are decided by, a time to whether it is set, a  *)
(* notification detail to the values the code compares.  Peers are         *)
(* constants: they are registered once and never change address or         *)
(* delivery; only their retirement is state.                               *)
(***************************************************************************)
EXTENDS Naturals

CONSTANTS
  Peer,       \* registered agents
  Native,     \* peers with delivery 'native'; the others are 'pull'
  Removable,  \* native peers whose client can withdraw a queued notice (Codex)
  Id,         \* message ids
  Body,       \* message texts
  Command,    \* htalk processes
  Jobs,       \* the argument lists they may be started with
  None        \* SQL NULL, or a value a command does not have yet

Job ==
  [op: {"send", "reply", "ack", "wait"}, actor: Peer, to: Peer \cup {None},
   id: Id \cup {None}, body: Body \cup {None}, notify: BOOLEAN, wait: BOOLEAN]

Submission == {"not_submitted", "submission_unknown", "submitted"}

SkipReasons ==
  {"pull_only", "acknowledged_before_notification",
   "returned_by_recipient_wait", "recipient_retired"}

\* "none" is NULL, "other" any receipt or error text.
Detail == SkipReasons \cup {"none", "other"}

Row ==
  [sender: Peer, recipient: Peer, parent: Id \cup {None}, body: Body,
   acked: BOOLEAN, submission: Submission, detail: Detail,
   started: BOOLEAN, finished: BOOLEAN, returned: BOOLEAN]

Outcome == [submission: Submission, detail: Detail]

\* The part of a row that is settled when it is saved.
Content == [sender: Peer, recipient: Peer, parent: Id \cup {None}, body: Body]

\* A job has the arguments its subcommand requires.
ASSUME JobsAssumption ==
  /\ Jobs \subseteq Job
  /\ \A j \in Jobs :
       /\ j.op = "send" => j.to # None
       /\ j.op # "send" => j.id # None
       /\ j.op \in {"send", "reply"} => j.body # None

ASSUME ConstantsAssumption ==
  /\ Native \subseteq Peer
  /\ Removable \subseteq Native
  /\ None \notin Id \cup Peer \cup Body \cup Row \cup Content \cup Job \cup Outcome
  /\ None \notin SkipReasons

VARIABLES
  messages,  \* the messages table: the row under each id, or None
  retired,   \* the names in retired_peers
  job,       \* what each command was started with, or None
  pc,        \* the next step of each command
  subject,   \* the message a command saved, or was given
  created,   \* whether its save inserted that message
  outcome,   \* what its notification attempt came to, or None
  view,      \* the row of its subject as last read from the store, or None
  answer,    \* the reply read with that row, or None
  notice,    \* where each message's notice is: an external client holds it
  crossings, \* history: how often a notice for each message reached a client
  overdue,   \* history: commands whose checks of the client ended after the
             \* message was already acknowledged or its answer returned
  abandoned, \* history: messages a removal of whose notice was cut short
  mistold    \* history: messages whose call was told as not_submitted though it
             \* had queued the notice or still might

store == <<messages, retired>>
locals == <<subject, created, outcome, view, answer>>
client == <<notice, crossings>>
history == <<overdue, abandoned, mistold>>
vars == <<messages, retired, job, pc, subject, created, outcome, view, answer,
          notice, crossings, overdue, abandoned, mistold>>

Label ==
  {"idle", "save", "claim", "grace", "preflight", "check", "write", "record",
   "recheck", "dismiss", "wait", "poll", "receipt", "finish", "ack",
   "exit0", "exit2", "stopped"}

Ended == {"exit0", "exit2", "stopped"}

TypeOK ==
  /\ messages \in [Id -> Row \cup {None}]
  /\ retired \in SUBSET Peer
  /\ job \in [Command -> Jobs \cup {None}]
  /\ pc \in [Command -> Label]
  /\ subject \in [Command -> Id \cup {None}]
  /\ created \in [Command -> BOOLEAN]
  /\ outcome \in [Command -> Outcome \cup {None}]
  /\ view \in [Command -> Row \cup {None}]
  /\ answer \in [Command -> Id \cup {None}]
  /\ notice \in [Id -> {"none", "coming", "queued", "handed", "removed"}]
  /\ crossings \in [Id -> Nat]
  /\ overdue \in SUBSET Command
  /\ abandoned \in SUBSET Id
  /\ mistold \in SUBSET Id

Init ==
  /\ messages = [m \in Id |-> None]
  /\ retired = {}
  /\ job = [c \in Command |-> None]
  /\ pc = [c \in Command |-> "idle"]
  /\ subject = [c \in Command |-> None]
  /\ created = [c \in Command |-> FALSE]
  /\ outcome = [c \in Command |-> None]
  /\ view = [c \in Command |-> None]
  /\ answer = [c \in Command |-> None]
  /\ notice = [m \in Id |-> "none"]
  /\ crossings = [m \in Id |-> 0]
  /\ overdue = {}
  /\ abandoned = {}
  /\ mistold = {}

-----------------------------------------------------------------------------
(* Reading the store.                                                      *)

Saved(m) == messages[m] # None

IsAnswer(m) == messages[m].parent # None

Replies(m) == {r \in Id : Saved(r) /\ messages[r].parent = m}

\* The reply that load() reads with a message.
ReplyOf(m) == IF Replies(m) = {} THEN None ELSE CHOOSE r \in Replies(m) : TRUE

\* Proof in the store that the recipient needs no notice.
Evidence(m) ==
  \/ messages[m].acked
  \/ IsAnswer(m) /\ messages[m].returned

\* MUTANT of SkipReason: a registered wait is taken for a returned answer.
SkipReasonFromHint(m) ==
  IF messages[m].acked THEN "acknowledged_before_notification"
  ELSE IF \E c \in Command : pc[c] = "poll" /\ subject[c] = messages[m].parent
    THEN "returned_by_recipient_wait"
  ELSE IF messages[m].recipient \in retired THEN "recipient_retired"
  ELSE None

\* Why a claimed notice is no longer needed, or None.
SkipReason(m) ==
  IF messages[m].acked THEN "acknowledged_before_notification"
  ELSE IF IsAnswer(m) /\ messages[m].returned THEN "returned_by_recipient_wait"
  ELSE IF messages[m].recipient \in retired THEN "recipient_retired"
  ELSE None

Goto(c, from, to) ==
  /\ pc[c] = from
  /\ pc' = [pc EXCEPT ![c] = to]

\* A read of message m leaves its row and its reply with command c.
Read(c, m) ==
  /\ view' = [view EXCEPT ![c] = messages[m]]
  /\ answer' = [answer EXCEPT ![c] = ReplyOf(m)]

-----------------------------------------------------------------------------
(* Starting a command.                                                     *)

FirstStep == [send |-> "save", reply |-> "save", ack |-> "ack", wait |-> "wait"]

Start(c, j) ==
  /\ Goto(c, "idle", FirstStep[j.op])
  /\ job' = [job EXCEPT ![c] = j]
  /\ subject' = [subject EXCEPT ![c] = IF j.op \in {"ack", "wait"} THEN j.id ELSE None]
  /\ UNCHANGED <<store, created, outcome, view, answer, client, history>>

-----------------------------------------------------------------------------
(* Saving: one BEGIN IMMEDIATE transaction.                                *)

\* The request a reply job answers; a send has none.
Parent(j) == IF j.op = "reply" THEN j.id ELSE None

\* reply takes its recipient from the request, which never changes.
Recipient(j) == IF j.op = "reply" THEN messages[j.id].sender ELSE j.to

NewRow(j) ==
  [sender |-> j.actor, recipient |-> Recipient(j), parent |-> Parent(j),
   body |-> j.body, acked |-> FALSE, submission |-> "not_submitted",
   detail |-> IF Recipient(j) \in Native THEN "none" ELSE "pull_only",
   started |-> FALSE, finished |-> FALSE, returned |-> FALSE]

\* The job's addresses are ones it may use.
Addressed(j) ==
  IF j.op = "reply"
  THEN /\ Saved(j.id)
       /\ ~IsAnswer(j.id)
       /\ j.actor = messages[j.id].recipient
  ELSE j.actor # j.to

\* MUTANT of Existing: an answer is looked for by its words.
ExistingSameWords(j) ==
  IF j.op = "reply"
  THEN IF \E r \in Replies(j.id) : messages[r].body = j.body THEN ReplyOf(j.id) ELSE None
  ELSE IF j.id # None /\ Saved(j.id) THEN j.id
  ELSE None

\* The message already saved for this job: the request's answer, or the
\* message under the id the caller gave.
Existing(j) ==
  IF j.op = "reply" THEN ReplyOf(j.id)
  ELSE IF j.id # None /\ Saved(j.id) THEN j.id
  ELSE None

SameContent(j, m) ==
  IF j.op = "reply"
  THEN messages[m].body = j.body
  ELSE /\ messages[m].sender = j.actor
       /\ messages[m].recipient = j.to
       /\ messages[m].body = j.body
       /\ ~IsAnswer(m)

\* Only a new request is refused: a saved one can still be answered.
RefusedAsRetired(j) ==
  j.op = "send" /\ {j.actor, j.to} \cap retired # {}

Insertable(j) ==
  /\ Addressed(j)
  /\ Existing(j) = None
  /\ ~RefusedAsRetired(j)

\* What save reports as created.
Creates(j) == Existing(j) = None

\* What send does once its message is saved.
AfterSave(j) ==
  IF Creates(j) /\ j.notify THEN "claim" ELSE IF j.wait THEN "wait" ELSE "finish"

\* A reply's id, and a send's when none is given, is a fresh UUID.
FreshIds(j) ==
  IF j.op = "send" /\ j.id # None THEN {j.id} ELSE {m \in Id : ~Saved(m)}

SaveNew(c) ==
  /\ Goto(c, "save", AfterSave(job[c]))
  /\ Insertable(job[c])
  /\ \E m \in FreshIds(job[c]) :
       /\ messages' = [messages EXCEPT ![m] = NewRow(job[c])]
       /\ subject' = [subject EXCEPT ![c] = m]
  /\ created' = [created EXCEPT ![c] = Creates(job[c])]
  /\ UNCHANGED <<retired, job, outcome, view, answer, client, history>>

\* A retry finds what it saved before.
SaveExisting(c) ==
  /\ Goto(c, "save", AfterSave(job[c]))
  /\ Addressed(job[c])
  /\ Existing(job[c]) # None
  /\ SameContent(job[c], Existing(job[c]))
  /\ subject' = [subject EXCEPT ![c] = Existing(job[c])]
  /\ created' = [created EXCEPT ![c] = Creates(job[c])]
  /\ UNCHANGED <<store, job, outcome, view, answer, client, history>>

SaveRefused(c) ==
  /\ Goto(c, "save", "stopped")
  /\ \/ ~Addressed(job[c])
     \/ Existing(job[c]) # None /\ ~SameContent(job[c], Existing(job[c]))
     \/ Existing(job[c]) = None /\ RefusedAsRetired(job[c])
  /\ UNCHANGED <<store, job, locals, client, history>>

-----------------------------------------------------------------------------
(* Notifying: claim, wait, check, write, record, clean up.                 *)

\* The claim is durable before the client boundary is crossed; only one
\* command's UPDATE can find notification_started_at null.
Claimable(m) ==
  /\ ~messages[m].started
  /\ ~messages[m].acked
  /\ messages[m].recipient \in Native

\* MUTANT of Claimed: unknown is recorded when the client fails, not before.
ClaimedLater(row) == [row EXCEPT !.started = TRUE]

Claimed(row) ==
  [row EXCEPT !.submission = "submission_unknown", !.started = TRUE]

AfterNotice(j) == IF j.wait THEN "wait" ELSE "finish"

Claim(c) ==
  /\ Goto(c, "claim", "grace")
  /\ Claimable(subject[c])
  /\ messages' = [messages EXCEPT ![subject[c]] = Claimed(@)]
  /\ UNCHANGED <<retired, job, locals, client, history>>

ClaimRefused(c) ==
  /\ Goto(c, "claim", AfterNotice(job[c]))
  /\ ~Claimable(subject[c])
  /\ Read(c, subject[c])
  /\ UNCHANGED <<store, job, subject, created, outcome, client, history>>

Decide(c, submission, detail) ==
  outcome' = [outcome EXCEPT ![c] = [submission |-> submission, detail |-> detail]]

\* A registered wait of the recipient keeps the command in "grace" for up to
\* a second; what ends it is either a reason read from the store ...
GraceSkip(c) ==
  /\ Goto(c, "grace", "record")
  /\ SkipReason(subject[c]) # None
  /\ Decide(c, "not_submitted", SkipReason(subject[c]))
  /\ UNCHANGED <<store, job, subject, created, view, answer, client, history>>

\* ... or the end of that second with none, or a store that cannot be read.
GraceOver(c) ==
  /\ Goto(c, "grace", "preflight")
  /\ UNCHANGED <<store, job, locals, client, history>>

\* The adapter identifies the exact client session, which may take seconds.
PreflightPassed(c) ==
  /\ Goto(c, "preflight", "check")
  /\ overdue' = IF Evidence(subject[c]) THEN overdue \cup {c} ELSE overdue
  /\ UNCHANGED <<store, job, locals, client, abandoned, mistold>>

PreflightFailed(c) ==
  /\ Goto(c, "preflight", "record")
  /\ Decide(c, "not_submitted", "other")
  /\ UNCHANGED <<store, job, subject, created, view, answer, client, history>>

\* MUTANT of Needed: evidence is trusted as it was before the client was probed.
NeededBefore(m) == messages[m].recipient \notin retired

\* The adapter's last look at the store before it writes.
Needed(m) == SkipReason(m) = None

CheckPassed(c) ==
  /\ Goto(c, "check", "write")
  /\ Needed(subject[c])
  /\ UNCHANGED <<store, job, locals, client, history>>

CheckSkipped(c) ==
  /\ Goto(c, "check", "record")
  /\ SkipReason(subject[c]) # None
  /\ Decide(c, "not_submitted", SkipReason(subject[c]))
  /\ UNCHANGED <<store, job, subject, created, view, answer, client, history>>

CheckUnreadable(c) ==
  /\ Goto(c, "check", "record")
  /\ Decide(c, "not_submitted", "other")
  /\ UNCHANGED <<store, job, subject, created, view, answer, client, history>>

\* The one client call: where it leaves the notice, and what the adapter says of
\* it.  A call that brought no usable receipt is unknown, and the notice may
\* still come; one the client never took, or rejected, is not_submitted.
ClientResults ==
  {[left |-> "reached", said |-> "submitted"],
   [left |-> "reached", said |-> "submission_unknown"],
   [left |-> "coming", said |-> "submission_unknown"],
   [left |-> "none", said |-> "not_submitted"]}

\* The codex command that ran but could not be owned or ended is told by the
\* code of one that could not be started (capture.rs:46), and so taken for a
\* denial (codex/mod.rs:297).
MistoldResults ==
  {[left |-> "reached", said |-> "not_submitted"],
   [left |-> "coming", said |-> "not_submitted"]}

ResultsFor(m) ==
  ClientResults \cup IF messages[m].recipient \in Removable THEN MistoldResults ELSE {}

Reach(m) ==
  /\ crossings' = [crossings EXCEPT ![m] = @ + 1]
  /\ notice' = [notice EXCEPT ![m] =
                  IF messages[m].recipient \in Removable THEN "queued" ELSE "handed"]

\* What a call that nobody follows any more leaves to come.
Leave(m) == notice' = [notice EXCEPT ![m] = "coming"] /\ UNCHANGED crossings

Left(m, r) ==
  \/ r.left = "reached" /\ Reach(m)
  \/ r.left = "coming" /\ Leave(m)
  \/ r.left = "none" /\ UNCHANGED client

\* MUTANT of AfterWrite: an unclear result is tried again.
AfterWriteRetry(r) == IF r.said = "submission_unknown" THEN "write" ELSE "record"

\* One call, whatever came of it.
AfterWrite(r) == "record"

Write(c) ==
  /\ pc[c] = "write"
  /\ \E r \in ResultsFor(subject[c]) :
       /\ pc' = [pc EXCEPT ![c] = AfterWrite(r)]
       /\ Decide(c, r.said, "other")
       /\ Left(subject[c], r)
       /\ mistold' = IF r \in MistoldResults THEN mistold \cup {subject[c]} ELSE mistold
  /\ UNCHANGED <<store, job, subject, created, view, answer, overdue, abandoned>>

Recorded(row, o) ==
  [row EXCEPT !.submission = o.submission, !.detail = o.detail, !.finished = TRUE]

Record(c) ==
  /\ Goto(c, "record", "recheck")
  /\ messages' = [messages EXCEPT ![subject[c]] = Recorded(@, outcome[c])]
  /\ UNCHANGED <<retired, job, locals, client, history>>

\* MUTANT of AfterRecheck: only the acknowledger cleans up.
AfterRecheckByAcker(c) ==
  IF job[c].op = "ack" THEN "dismiss" ELSE AfterNotice(job[c])

\* The row is read again: an acknowledged message's notice is dismissed by
\* whoever finds both the acknowledgment and the receipt.
AfterRecheck(c) ==
  IF messages[subject[c]].acked THEN "dismiss"
  ELSE AfterNotice(job[c])

Recheck(c) ==
  /\ Goto(c, "recheck", AfterRecheck(c))
  /\ Read(c, subject[c])
  /\ UNCHANGED <<store, job, subject, created, outcome, client, history>>

\* What the row as read allows: without a completion receipt removal is
\* pending, without a queue receipt there is nothing to remove.
Dismissible(c) ==
  LET r == view[c] IN
  /\ r.recipient \in Removable
  /\ ~(r.started /\ ~r.finished)
  /\ r.submission = "submitted"

AfterDismiss(c) == IF job[c].op = "ack" THEN "finish" ELSE AfterNotice(job[c])

DismissNothing(c) ==
  /\ Goto(c, "dismiss", AfterDismiss(c))
  /\ ~Dismissible(c)
  /\ UNCHANGED <<store, job, locals, client, history>>

Withdraw(m) == [notice EXCEPT ![m] = IF @ = "queued" THEN "removed" ELSE @]

\* "removed", or "absent" when the client has already taken the notice.
DismissDone(c) ==
  /\ Goto(c, "dismiss", AfterDismiss(c))
  /\ Dismissible(c)
  /\ notice' = Withdraw(subject[c])
  /\ UNCHANGED <<store, job, locals, crossings, history>>

\* "unavailable" when the client was not asked, "unknown" when it was and gave
\* no usable receipt: it may have removed the notice or not.
DismissFailed(c) ==
  /\ Goto(c, "dismiss", AfterDismiss(c))
  /\ Dismissible(c)
  /\ notice' \in {notice, Withdraw(subject[c])}
  /\ abandoned' = abandoned \cup {subject[c]}
  /\ UNCHANGED <<store, job, locals, crossings, overdue, mistold>>

-----------------------------------------------------------------------------
(* Acknowledging.                                                          *)

ToRecipient(c) ==
  LET m == subject[c] IN Saved(m) /\ messages[m].recipient = job[c].actor

Ack(c) ==
  /\ Goto(c, "ack", "recheck")
  /\ ToRecipient(c)
  /\ messages' = [messages EXCEPT ![subject[c]].acked = TRUE]
  /\ UNCHANGED <<retired, job, locals, client, history>>

AckRefused(c) ==
  /\ Goto(c, "ack", "stopped")
  /\ ~ToRecipient(c)
  /\ UNCHANGED <<store, job, locals, client, history>>

-----------------------------------------------------------------------------
(* Waiting for an answer.                                                  *)

OwnRequest(c) ==
  LET m == subject[c] IN
  /\ Saved(m)
  /\ messages[m].sender = job[c].actor
  /\ ~IsAnswer(m)

WaitOpened(c) ==
  /\ Goto(c, "wait", IF ReplyOf(subject[c]) = None THEN "poll" ELSE "receipt")
  /\ OwnRequest(c)
  /\ Read(c, subject[c])
  /\ UNCHANGED <<store, job, subject, created, outcome, client, history>>

WaitRefused(c) ==
  /\ Goto(c, "wait", "stopped")
  /\ ~OwnRequest(c)
  /\ UNCHANGED <<store, job, locals, client, history>>

PollAnswered(c) ==
  /\ Goto(c, "poll", "receipt")
  /\ ReplyOf(subject[c]) # None
  /\ Read(c, subject[c])
  /\ UNCHANGED <<store, job, subject, created, outcome, client, history>>

\* MUTANT of PollTimeout: the deadline is looked at before the read.
PollDeadlineFirst(c) ==
  /\ Goto(c, "poll", "finish")
  /\ UNCHANGED <<store, job, locals, client, history>>

\* The deadline is looked at only after a read that found no reply.
PollTimeout(c) ==
  /\ Goto(c, "poll", "finish")
  /\ ReplyOf(subject[c]) = None
  /\ Read(c, subject[c])
  /\ UNCHANGED <<store, job, subject, created, outcome, client, history>>

\* The receipt is recorded if the writer lock is free ...
Receipt(c) ==
  /\ Goto(c, "receipt", "finish")
  /\ messages' = [messages EXCEPT ![answer[c]].returned = TRUE]
  /\ UNCHANGED <<retired, job, locals, client, history>>

\* ... and the answer is returned either way.
ReceiptSkipped(c) ==
  /\ Goto(c, "receipt", "finish")
  /\ UNCHANGED <<store, job, locals, client, history>>

-----------------------------------------------------------------------------
(* Ending.                                                                 *)

\* MUTANT of Unconfirmed: an unknown result counts as a submission.
UnconfirmedUnlessTried(c) ==
  /\ created[c] /\ job[c].notify
  /\ answer[c] = None
  /\ view[c].submission = "not_submitted"
  /\ ~view[c].acked
  /\ view[c].detail \notin SkipReasons

\* A notification that was due and is neither confirmed nor made needless.
Unconfirmed(c) ==
  /\ created[c] /\ job[c].notify
  /\ answer[c] = None
  /\ view[c].submission # "submitted"
  /\ ~view[c].acked
  /\ view[c].detail \notin SkipReasons

\* Locals nobody reads any more are forgotten.
Forget(c) ==
  /\ outcome' = [outcome EXCEPT ![c] = None]
  /\ view' = [view EXCEPT ![c] = None]

Finish(c) ==
  /\ Goto(c, "finish", IF Unconfirmed(c) THEN "exit2" ELSE "exit0")
  /\ Forget(c)
  /\ UNCHANGED <<store, job, subject, created, answer, client, history>>

\* The command ends where it is: killed, interrupted, or on a database error.
\* The client call it has under way is not called back.
Stop(c) ==
  /\ pc[c] \notin Ended \cup {"idle"}
  /\ IF pc[c] = "write" THEN Leave(subject[c]) ELSE UNCHANGED client
  /\ pc' = [pc EXCEPT ![c] = "stopped"]
  /\ Forget(c)
  /\ abandoned' = IF pc[c] \in {"recheck", "dismiss"}
                  THEN abandoned \cup {subject[c]} ELSE abandoned
  /\ UNCHANGED <<store, job, subject, created, answer, overdue, mistold>>

-----------------------------------------------------------------------------
(* Peers and clients.                                                      *)

\* peer retire and peer restore: one statement each.
Retire(p) ==
  /\ p \notin retired
  /\ retired' = retired \cup {p}
  /\ UNCHANGED <<messages, job, pc, locals, client, history>>

Restore(p) ==
  /\ p \in retired
  /\ retired' = retired \ {p}
  /\ UNCHANGED <<messages, job, pc, locals, client, history>>

\* What a call left behind takes effect.
LateCrossing(m) ==
  /\ notice[m] = "coming"
  /\ Reach(m)
  /\ UNCHANGED <<store, job, pc, locals, history>>

\* The client hands a queued notice to its session.
ClientTakes(m) ==
  /\ notice[m] = "queued"
  /\ notice' = [notice EXCEPT ![m] = "handed"]
  /\ UNCHANGED <<store, job, pc, locals, crossings, history>>

-----------------------------------------------------------------------------
Save(c) == SaveNew(c) \/ SaveExisting(c) \/ SaveRefused(c)

Notify(c) ==
  \/ Claim(c) \/ ClaimRefused(c)
  \/ GraceSkip(c) \/ GraceOver(c)
  \/ PreflightPassed(c) \/ PreflightFailed(c)
  \/ CheckPassed(c) \/ CheckSkipped(c) \/ CheckUnreadable(c)
  \/ Write(c) \/ Record(c)

Dismiss(c) ==
  Recheck(c) \/ DismissNothing(c) \/ DismissDone(c) \/ DismissFailed(c)

Acknowledge(c) == Ack(c) \/ AckRefused(c)

Wait(c) ==
  \/ WaitOpened(c) \/ WaitRefused(c)
  \/ PollAnswered(c) \/ PollTimeout(c)
  \/ Receipt(c) \/ ReceiptSkipped(c)

\* What a command does by itself once started.
Step(c) ==
  Save(c) \/ Notify(c) \/ Dismiss(c) \/ Acknowledge(c) \/ Wait(c) \/ Finish(c)

Next ==
  \/ \E c \in Command : Step(c) \/ Stop(c) \/ \E j \in Jobs : Start(c, j)
  \/ \E p \in Peer : Retire(p) \/ Restore(p)
  \/ \E m \in Id : LateCrossing(m) \/ ClientTakes(m)

Spec == Init /\ [][Next]_vars

\* A running process takes its next step: every wait in the code has a
\* deadline (the lock budget, the grace, the client timeouts, the poll's own).
FairSpec == Spec /\ \A c \in Command : WF_vars(Step(c))
-----------------------------------------------------------------------------
(* What the mailbox gets right.                                            *)

\* A message's notice reaches a client at most once, whatever is retried,
\* interrupted, killed or timed out, and whatever a call left behind does later
\* (notify_once claims before it writes).
AtMostOneNotice == \A m \in Id : crossings[m] <= 1

\* The saved report never misleads its reader: a notice that reached the
\* client, or may still, was claimed first and is not reported not_submitted,
\* and one reported submitted did reach it (claim, client call and record are
\* three separate steps and the process may die between any two).  The code has
\* one exception, the denial notify_cli makes of a codex command that ran
\* (codex/mod.rs:297).
ReportTruthful ==
  \A m \in Id :
    /\ crossings[m] > 0 \/ notice[m] = "coming" =>
         /\ Saved(m) /\ messages[m].started
         /\ messages[m].submission # "not_submitted" \/ m \in mistold
    /\ Saved(m) /\ messages[m].submission = "submitted" => crossings[m] > 0

\* An acknowledgment, or an answer its requester's wait returned, that was
\* saved before the adapter had finished identifying the client stops the
\* notice: the last check reads the store after the slow probe, not before.
NoNoticeAfterEvidence ==
  \A c \in Command : c \in overdue => crossings[subject[c]] = 0

\* Sender and acknowledger race: the one submits a notice while the other
\* acknowledges.  Whoever comes second removes the queued notice, so none is
\* left behind with its acknowledgment and its receipt both saved, unless the
\* removal itself was cut short.
NoLeftoverNotice ==
  \A m \in Id :
    notice[m] = "queued" /\ messages[m].acked /\ messages[m].submission = "submitted"
    => \/ m \in abandoned
       \/ \E c \in Command : subject[c] = m /\ pc[c] \in {"recheck", "dismiss"}

\* A wait command read this answer for the peer that asked.
Returned(m) ==
  \E c \in Command :
    /\ answer[c] = m
    /\ job[c].op = "wait" \/ job[c].wait
    /\ job[c].actor = messages[m].recipient

\* A notice is given up only on evidence: an answer counted as returned was
\* read by a wait of its own recipient, never merely awaited by one.
SkippedOnEvidence ==
  \A m \in Id :
    Saved(m) =>
      /\ messages[m].returned => IsAnswer(m) /\ Returned(m)
      /\ messages[m].detail = "returned_by_recipient_wait" => messages[m].returned
      /\ messages[m].detail = "acknowledged_before_notification" => messages[m].acked

\* A save reports created to one command only, so a retry under the same id,
\* or of the same reply, never starts a second notification.
OneCreator ==
  \A c, d \in Command :
    created[c] /\ created[d] /\ subject[c] = subject[d] => c = d

\* A send that was to notify and exits 0 left its message with the client,
\* acknowledged or answered, or with evidence that no notice was needed.
ExitZeroMeansConfirmed ==
  \A c \in Command :
    pc[c] = "exit0" /\ created[c] /\ job[c].notify =>
      LET m == subject[c] IN
      \/ crossings[m] > 0
      \/ messages[m].acked
      \/ Replies(m) # {}
      \/ messages[m].detail \in SkipReasons

-----------------------------------------------------------------------------
(* Why: what every step of a command may rely on.                          *)

\* Where a command holds a message that is in the store.
Holding ==
  {"claim", "grace", "preflight", "check", "write", "record",
   "recheck", "dismiss", "poll", "receipt", "finish"}

\* Where a command has claimed the notice and not yet recorded its outcome.
Claiming == {"grace", "preflight", "check", "write", "record"}

\* What each place in a command says of its local state.
ControlInv ==
  \A c \in Command :
    /\ pc[c] # "idle" => job[c] # None
    /\ pc[c] \in {"idle", "save"} => ~created[c]
    /\ pc[c] = "save" => job[c].op \in {"send", "reply"}
    /\ created[c] => subject[c] \in Id /\ Saved(subject[c])
    /\ pc[c] \in {"ack", "wait"} => subject[c] \in Id
    /\ pc[c] \in Holding => subject[c] \in Id /\ Saved(subject[c])
    /\ pc[c] \in Claiming \cup {"claim"} => created[c]
    /\ pc[c] = "receipt" => answer[c] \in Id /\ Saved(answer[c])
    /\ pc[c] = "dismiss" => view[c] # None

\* Between claim and record the row says "unknown"; what is to be recorded
\* agrees with what the client holds.
ClaimInv ==
  \A c \in Command :
    LET m == subject[c] IN
    /\ pc[c] \in Claiming =>
         /\ messages[m].started
         /\ ~messages[m].finished
         /\ messages[m].submission = "submission_unknown"
    /\ pc[c] \in Claiming \ {"record"} => crossings[m] = 0 /\ notice[m] # "coming"
    /\ pc[c] = "record" =>
         /\ outcome[c] # None
         /\ outcome[c].submission = "submitted" => crossings[m] > 0
         /\ outcome[c].submission = "not_submitted" =>
              m \in mistold \/ (crossings[m] = 0 /\ notice[m] # "coming")

ReportInv ==
  \A m \in Id :
    /\ crossings[m] \in {0, 1}
    /\ notice[m] = "coming" => crossings[m] = 0
    /\ crossings[m] = 1 \/ notice[m] = "coming" =>
         /\ Saved(m) /\ messages[m].started
         /\ messages[m].submission # "not_submitted" \/ m \in mistold
    /\ m \in mistold => Saved(m) /\ messages[m].recipient \in Removable
    /\ Saved(m) /\ messages[m].submission = "submitted" =>
         crossings[m] = 1 /\ messages[m].finished
    /\ Saved(m) /\ messages[m].finished => messages[m].started

EvidenceInv ==
  \A c \in overdue :
    /\ created[c] /\ Evidence(subject[c])
    /\ crossings[subject[c]] = 0 /\ notice[subject[c]] # "coming"
    /\ pc[c] \notin {"idle", "save", "claim", "grace", "preflight", "write"}

\* The command that still has to remove a queued notice has not read its row
\* yet, or has read it whole.
LeftoverInv ==
  \A m \in Id :
    notice[m] = "queued" =>
      /\ crossings[m] = 1
      /\ messages[m].recipient \in Removable
      /\ messages[m].acked /\ messages[m].submission = "submitted" =>
           \/ m \in abandoned
           \/ \E c \in Command :
                /\ subject[c] = m
                /\ \/ pc[c] = "recheck"
                   \/ pc[c] = "dismiss" /\ Dismissible(c)

IInv ==
  /\ TypeOK
  /\ ControlInv
  /\ OneCreator
  /\ ClaimInv
  /\ ReportInv
  /\ EvidenceInv
  /\ LeftoverInv

-----------------------------------------------------------------------------
(* Why: what was read, by whom, and what became of it.                     *)

\* What a command holds of an answer is a reply to its message; before it has
\* its message it holds none.
AnswerInv ==
  \A c \in Command :
    /\ pc[c] \in {"idle", "save"} \cup Claiming \cup {"claim"} => view[c] = None
    /\ pc[c] \in {"idle", "save"} => answer[c] = None
    /\ answer[c] # None => answer[c] \in Replies(subject[c])

\* An answer goes to the peer that asked, and only that peer waits for it.
WaitInv ==
  /\ \A m \in Id :
       Saved(m) /\ IsAnswer(m) =>
         /\ messages[m].parent \in Id /\ Saved(messages[m].parent)
         /\ messages[m].recipient = messages[messages[m].parent].sender
  /\ \A c \in Command :
       /\ pc[c] \in {"wait", "poll", "receipt"} => job[c].op = "wait" \/ job[c].wait
       /\ pc[c] \in {"poll", "receipt"} => OwnRequest(c)

\* The command that returned an answer has nothing more to read.
ReturnedFor(m) ==
  \E c \in Command :
    /\ pc[c] \in Ended \cup {"finish"}
    /\ answer[c] = m
    /\ job[c].op = "wait" \/ job[c].wait
    /\ job[c].actor = messages[m].recipient

ReturnInv ==
  \A m \in Id : Saved(m) /\ messages[m].returned => IsAnswer(m) /\ ReturnedFor(m)

\* A reason that is to be recorded, or is, is a fact of the row.
FactOf(detail, m) ==
  /\ detail = "returned_by_recipient_wait" => messages[m].returned
  /\ detail = "acknowledged_before_notification" => messages[m].acked

DetailInv ==
  /\ \A m \in Id : Saved(m) => FactOf(messages[m].detail, m)
  /\ \A c \in Command : pc[c] = "record" => FactOf(outcome[c].detail, subject[c])

\* What a command that notified has read of its row still holds: the row's
\* report is its own, and marks and replies stay.
ViewInv ==
  \A c \in Command : created[c] /\ job[c].notify =>
    /\ pc[c] \in {"dismiss", "wait", "poll", "receipt", "finish"} => view[c] # None
    /\ view[c] # None =>
         /\ view[c].submission = "submitted" => crossings[subject[c]] > 0
         /\ view[c].acked => messages[subject[c]].acked
         /\ view[c].detail = messages[subject[c]].detail

AccountInv ==
  AnswerInv /\ WaitInv /\ ReturnInv /\ DetailInv /\ ViewInv /\ ExitZeroMeansConfirmed

-----------------------------------------------------------------------------
(* The mailbox implements Exchange.                                        *)

PostOf(m) ==
  IF Saved(m)
  THEN [sender |-> messages[m].sender, recipient |-> messages[m].recipient,
        parent |-> messages[m].parent, body |-> messages[m].body]
  ELSE None

AccountOf(m) ==
  IF ~Saved(m) \/ ~messages[m].started THEN "unclaimed"
  ELSE IF ~messages[m].finished THEN "claimed"
  ELSE messages[m].submission

Promised ==
  INSTANCE Exchange WITH
    post <- [m \in Id |-> PostOf(m)],
    read <- {m \in Id : Saved(m) /\ messages[m].acked},
    account <- [m \in Id |-> AccountOf(m)],
    written <- {m \in Id : crossings[m] > 0},
    misjudged <- {m \in mistold : AccountOf(m) = "not_submitted"},
    closed <- retired

\* Every step of every command is a step Exchange allows, or none of its own:
\* what was saved is immutable, a request has one answer with mirrored
\* addresses, retirement is decided with the insertion, and a report is final;
\* no notice follows a true denial.
ImplementsExchange == Promised!Spec

-----------------------------------------------------------------------------
(* What must happen.                                                       *)

\* Every command ends.
CommandsEnd == \A c \in Command : pc[c] # "idle" ~> pc[c] \in Ended

\* A reply saved while a wait polls its request is returned by that wait, or
\* the wait is cut short; it never times out past a saved reply.
PollFindsReply ==
  \A c \in Command :
    (pc[c] = "poll" /\ ReplyOf(subject[c]) # None)
      ~> (answer[c] # None \/ pc[c] = "stopped")

\* No command hangs its agent's tool call, and no wait misses its reply.
Liveness == CommandsEnd /\ PollFindsReply
=============================================================================
