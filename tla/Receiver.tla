------------------------------- MODULE Receiver -------------------------------
(***************************************************************************)
(* htalk receive: a process that follows a remote mailbox's watch stream   *)
(* and queues one notice per message in one saved Codex session.           *)
(*                                                                         *)
(* Its only memory across restarts is state.json in its state directory:   *)
(* the binding, the id of a submission that is in progress (pending) and   *)
(* the ids known to be submitted (receipts).  The file is replaced by      *)
(* write, fsync, rename, fsync of the directory; until the last of these   *)
(* a power loss may bring the previous file back.                          *)
(*                                                                         *)
(* A process is a receiver, a "receive rebind" or a "receive status" of    *)
(* one directory.  All directories here serve the same Codex session.  A   *)
(* submission runs on a thread of its own, so a stop request can come      *)
(* while it is under way.  A call that ends without an answer, or with its *)
(* receiver, may leave the codex command or a written request behind,      *)
(* which still queues its notice later (an orphan).                        *)
(*                                                                         *)
(* The mailbox is remote: its messages are numbered by seq, and each may   *)
(* become completed (acknowledged answer, answered request) at any time.   *)
(***************************************************************************)
EXTENDS Naturals, FiniteSets

CONSTANTS
  Process,    \* htalk receive processes
  Dir,        \* state directories
  Last,       \* bound: the messages are 1..Last
  MaxServer,  \* bound: how many sockets the Codex server binds one after another
  MaxDrops,   \* bound: how often watch streams end or mailbox checks are out of reach
  MaxMistold, \* bound: how many messages a call tells wrongly, each once
  Starts,     \* the arguments receivers are started with
  None,       \* no message, process or file
  Torn        \* a directory with state.tmp and no state.json

Seq == 1..Last

\* 0 is no --codex-socket: the codex command is used instead.
Socket == 0..MaxServer

Argument == [dir: Dir, check: BOOLEAN, socket: BOOLEAN]

Binding == [check: BOOLEAN, socket: Socket]

State == [binding: Binding, pending: Seq \cup {None}, receipts: SUBSET Seq]

ASSUME ReceiverAssumption ==
  /\ Last \in Nat /\ MaxServer \in Nat \ {0} /\ MaxDrops \in Nat /\ MaxMistold \in Nat
  /\ Starts \subseteq Argument
  /\ None \notin Seq \cup Process \cup State
  /\ Torn \notin State \cup {None}

VARIABLES
  disk,      \* what each directory shows: a State, None or Torn
  durable,   \* what it would show after a power loss, unless disk reached it
  owner,     \* who holds each directory's lock exclusively
  readers,   \* who holds it shared
  session,   \* who holds the lock of the Codex session
  pc,        \* what each process does next
  dir,       \* the directory it works on
  mem,       \* the state it loaded and keeps up to date
  after,     \* where it goes on when its save is durable
  item,      \* the message it handles
  position,  \* the seq of the last event read from its stream
  call,      \* how far its submission has come
  said,      \* what a status process has said of a pending message
  server,    \* which socket the Codex server listens on now
  completed, \* messages that need no notice any more
  drops,     \* how many streams have ended
  queued,    \* history: notices queued in the session, by directory and message
  orphans,   \* how many calls nobody follows any more may still queue theirs
  mistold    \* history: messages a call told as not_submitted though its codex
             \* command had run, and had queued the notice or still might

files == <<disk, durable>>
locks == <<owner, readers, session>>
locals == <<dir, mem, after, item, position, call, said>>
world == <<server, completed, drops>>
history == <<queued, orphans, mistold>>
vars == <<disk, durable, owner, readers, session, pc, dir, mem, after, item,
          position, call, said, server, completed, drops, queued, orphans, mistold>>

Label ==
  {"off", "open", "create", "load", "sync", "probe", "connect", "stream", "check",
   "intend", "submit", "leave", "join", "delay", "reopen", "rebind", "status",
   "reported"}

TypeOK ==
  /\ disk \in [Dir -> State \cup {None, Torn}]
  /\ durable \in [Dir -> State \cup {None, Torn}]
  /\ owner \in [Dir -> Process \cup {None}]
  /\ readers \in [Dir -> SUBSET Process]
  /\ session \in Process \cup {None}
  /\ pc \in [Process -> Label]
  /\ dir \in [Process -> Dir \cup {None}]
  /\ mem \in [Process -> State \cup {None}]
  /\ after \in [Process -> Label]
  /\ item \in [Process -> Seq \cup {None}]
  /\ position \in [Process -> 0..Last]
  /\ call \in [Process -> {"none", "running", "reached", "submitted",
                           "submission_unknown", "not_submitted"}]
  /\ said \in [Process -> {"nothing", "unknown", "in_flight"}]
  /\ server \in 1..MaxServer
  /\ completed \in SUBSET Seq
  /\ drops \in 0..MaxDrops
  /\ queued \in [Dir -> [Seq -> Nat]]
  /\ orphans \in [Dir -> [Seq -> Nat]]
  /\ mistold \in SUBSET (Dir \X Seq)

Init ==
  /\ disk = [d \in Dir |-> None] /\ durable = disk
  /\ owner = [d \in Dir |-> None]
  /\ readers = [d \in Dir |-> {}]
  /\ session = None
  /\ pc = [p \in Process |-> "off"]
  /\ dir = [p \in Process |-> None]
  /\ mem = [p \in Process |-> None]
  /\ after = [p \in Process |-> "off"]
  /\ item = [p \in Process |-> None]
  /\ position = [p \in Process |-> 0]
  /\ call = [p \in Process |-> "none"]
  /\ said = [p \in Process |-> "nothing"]
  /\ server = 1
  /\ completed = {}
  /\ drops = 0
  /\ queued = [d \in Dir |-> [m \in Seq |-> 0]]
  /\ orphans = queued
  /\ mistold = {}

-----------------------------------------------------------------------------
Goto(p, from, to) ==
  /\ pc[p] = from
  /\ pc' = [pc EXCEPT ![p] = to]

\* A process that ends drops its locks and what it had in memory.
End(p) ==
  /\ pc' = [pc EXCEPT ![p] = "off"]
  /\ owner' = [d \in Dir |-> IF owner[d] = p THEN None ELSE owner[d]]
  /\ readers' = [d \in Dir |-> readers[d] \ {p}]
  /\ session' = IF session = p THEN None ELSE session
  /\ dir' = [dir EXCEPT ![p] = None]
  /\ mem' = [mem EXCEPT ![p] = None]
  /\ after' = [after EXCEPT ![p] = "off"]
  /\ item' = [item EXCEPT ![p] = None]
  /\ position' = [position EXCEPT ![p] = 0]
  /\ call' = [call EXCEPT ![p] = "none"]
  /\ said' = [said EXCEPT ![p] = "nothing"]

\* The file is replaced; the directory has still to be synced.
Save(p, state, next) ==
  /\ disk' = [disk EXCEPT ![dir[p]] = state]
  /\ mem' = [mem EXCEPT ![p] = state]
  /\ pc' = [pc EXCEPT ![p] = "sync"]
  /\ after' = [after EXCEPT ![p] = next]

Sync(p) ==
  /\ Goto(p, "sync", after[p])
  /\ durable' = [durable EXCEPT ![dir[p]] = disk[dir[p]]]
  /\ UNCHANGED <<disk, locks, locals, world, history>>

-----------------------------------------------------------------------------
(* Starting: the directory's lock, the saved binding, the pending message. *)

\* The bindings a start may ask for: its socket is found before the lock is
\* taken, so the server may have been replaced since.
Asked(a) == [check: {a.check}, socket: IF a.socket THEN 1..server ELSE {0}]

\* A first checker and a first socket may be added to a saved binding.
Extended(saved, asked) ==
  [check |-> saved.check \/ asked.check,
   socket |-> IF saved.socket = 0 THEN asked.socket ELSE saved.socket]

Free(d) == owner[d] = None /\ readers[d] = {}

Take(p, d) ==
  /\ Free(d)
  /\ owner' = [owner EXCEPT ![d] = p]
  /\ dir' = [dir EXCEPT ![p] = d]

\* The lock comes first, even of a start that will be refused.
Start(p, a) ==
  /\ Goto(p, "off", "open")
  /\ Take(p, a.dir)
  /\ \E asked \in Asked(a) :
       mem' = [mem EXCEPT ![p] = [binding |-> asked, pending |-> None, receipts |-> {}]]
  /\ UNCHANGED <<files, readers, session, after, item, position, call, said, world, history>>

OpenNew(p) ==
  /\ Goto(p, "open", "create")
  /\ disk[dir[p]] = None
  /\ UNCHANGED <<files, locks, locals, world, history>>

Create(p) ==
  /\ pc[p] = "create"
  /\ Save(p, mem[p], "probe")
  /\ UNCHANGED <<durable, locks, dir, item, position, call, said, world, history>>

\* MUTANT of Resumable: a receiver starts over a pending message.
ResumablePending(saved, asked) == Extended(saved.binding, asked) = asked

\* Everything else exits at once and leaves the file as it is: a changed
\* binding, and a submission whose outcome nobody knows.
Resumable(saved, asked) ==
  /\ Extended(saved.binding, asked) = asked
  /\ saved.pending = None

\* MUTANT of Resumed: a changed binding starts a new ledger.
ResumedAnew(saved, asked) ==
  IF saved.binding = asked THEN saved
  ELSE [binding |-> asked, pending |-> None, receipts |-> {}]

Resumed(saved, asked) == [saved EXCEPT !.binding = asked]

OpenSaved(p) ==
  /\ Goto(p, "open", "load")
  /\ disk[dir[p]] \in State
  /\ Resumable(disk[dir[p]], mem[p].binding)
  /\ mem' = [mem EXCEPT ![p] = Resumed(disk[dir[p]], mem[p].binding)]
  /\ UNCHANGED <<files, locks, dir, after, item, position, call, said, world, history>>

\* A directory with anything else in it is refused as well.
OpenRefused(p) ==
  /\ pc[p] = "open"
  /\ disk[dir[p]] # None
  /\ disk[dir[p]] \in State => ~Resumable(disk[dir[p]], mem[p].binding)
  /\ End(p)
  /\ UNCHANGED <<files, world, history>>

Load(p) ==
  /\ pc[p] = "load"
  /\ IF mem[p] # disk[dir[p]]
     THEN Save(p, mem[p], "probe")
     ELSE Goto(p, "load", "probe") /\ UNCHANGED <<disk, mem, after>>
  /\ UNCHANGED <<durable, locks, dir, item, position, call, said, world, history>>

\* MUTANT of SessionFree: the session's lock is not looked at.
SessionFreeAlways == TRUE

SessionFree == session = None

\* The client answers for the saved session, and no other receiver has it.
Probe(p) ==
  /\ Goto(p, "probe", "connect")
  /\ SessionFree
  /\ session' = p
  /\ UNCHANGED <<files, owner, readers, locals, world, history>>

-----------------------------------------------------------------------------
(* Following the stream.                                                   *)

\* MUTANT of Connect: a new stream goes on where the last one ended.
ConnectAfterLast(p) ==
  /\ Goto(p, "connect", "stream")
  /\ UNCHANGED <<files, locks, locals, world, history>>

\* A new connection lists everything that is open from the beginning.
Connect(p) ==
  /\ Goto(p, "connect", "stream")
  /\ position' = [position EXCEPT ![p] = 0]
  /\ UNCHANGED <<files, locks, dir, mem, after, item, call, said, world, history>>

Seen(p, m) == m \in mem[p].receipts

\* The stream lists every message not completed, in order of seq; an event in
\* it may have become stale before it is read.
ReadEvent(p) ==
  /\ pc[p] = "stream"
  /\ \E m \in Seq :
       /\ m > position[p]
       /\ \A n \in Seq : position[p] < n /\ n < m => n \in completed
       /\ position' = [position EXCEPT ![p] = m]
       /\ item' = [item EXCEPT ![p] = IF Seen(p, m) THEN None ELSE m]
       /\ pc' = [pc EXCEPT ![p] =
            IF Seen(p, m) THEN "stream"
            ELSE IF mem[p].binding.check THEN "check" ELSE "intend"]
  /\ UNCHANGED <<files, locks, dir, mem, after, call, said, world, history>>

\* The mailbox is asked again; without its answer the stream is opened anew.
CheckCurrent(p) ==
  /\ Goto(p, "check", IF item[p] \in completed THEN "stream" ELSE "intend")
  /\ UNCHANGED <<files, locks, locals, world, history>>

\* The stream ends, or the check cannot be made.
Disconnect(p) ==
  /\ pc[p] \in {"stream", "check"}
  /\ drops < MaxDrops
  /\ drops' = drops + 1
  /\ pc' = [pc EXCEPT ![p] = "delay"]
  /\ UNCHANGED <<files, locks, locals, server, completed, history>>

Reconnect(p) ==
  /\ Goto(p, "delay", "connect")
  /\ UNCHANGED <<files, locks, locals, world, history>>

-----------------------------------------------------------------------------
(* Submitting a notice.                                                    *)

\* MUTANT of AfterIntend: the call is made before the directory is synced.
AfterIntendUnsynced(p) ==
  /\ disk' = [disk EXCEPT ![dir[p]] = [mem[p] EXCEPT !.pending = item[p]]]
  /\ mem' = [mem EXCEPT ![p].pending = item[p]]
  /\ pc' = [pc EXCEPT ![p] = "submit"]
  /\ UNCHANGED after

AfterIntend(p) == Save(p, [mem[p] EXCEPT !.pending = item[p]], "submit")

\* The intent is durable before anything is written to the client.
Intend(p) ==
  /\ pc[p] = "intend"
  /\ AfterIntend(p)
  /\ UNCHANGED <<durable, locks, dir, item, position, call, said, world, history>>

Submit(p) ==
  /\ pc[p] = "submit"
  /\ call[p] = "none"
  /\ call' = [call EXCEPT ![p] = "running"]
  /\ UNCHANGED <<files, locks, pc, dir, mem, after, item, position, said, world, history>>

Queue(d, m) == queued' = [queued EXCEPT ![d][m] = @ + 1]

\* A bound socket must still be the one that was captured; what may come
\* between that look and the write is in Rpc.
Reachable(s) == s \in {0, server}

\* The client takes the notice.
Reach(p) ==
  /\ call[p] = "running"
  /\ Reachable(mem[p].binding.socket)
  /\ call' = [call EXCEPT ![p] = "reached"]
  /\ Queue(dir[p], item[p])
  /\ UNCHANGED <<files, locks, pc, dir, mem, after, item, position, said, world,
                 orphans, mistold>>

\* Without a socket the codex command is run.  run_command tells of a command it
\* could not own or end by the code of one it could not start, and notify_cli
\* takes both for not_submitted.
ByCommand(p) == mem[p].binding.socket = 0

\* What a call can learn of a notice that was taken, and of one that was not.
Results(p) ==
  IF call[p] = "running" THEN {"not_submitted", "submission_unknown"}
  ELSE {"submitted", "submission_unknown"}
         \cup (IF ByCommand(p) THEN {"not_submitted"} ELSE {})

\* An orphan may be left by a call that ends without knowing.
Leaves(p, o) ==
  call[p] = "running" /\ (o = "submission_unknown" \/ ByCommand(p))

Orphaned(p) == [orphans EXCEPT ![dir[p]][item[p]] = @ + 1]

Return(p) ==
  /\ call[p] \in {"running", "reached"}
  /\ \E o \in Results(p), left \in BOOLEAN :
       /\ left => Leaves(p, o)
       /\ call' = [call EXCEPT ![p] = o]
       /\ orphans' = IF left THEN Orphaned(p) ELSE orphans
       /\ IF o = "not_submitted" /\ (left \/ call[p] = "reached")
          THEN /\ <<dir[p], item[p]>> \notin mistold
               /\ Cardinality(mistold) < MaxMistold
               /\ mistold' = mistold \cup {<<dir[p], item[p]>>}
          ELSE UNCHANGED mistold
  /\ UNCHANGED <<files, locks, pc, dir, mem, after, item, position, said, world, queued>>

Outcome == {"submitted", "submission_unknown", "not_submitted"}

\* An unknown outcome stays pending.
Recorded(s, m, o) ==
  CASE o = "submitted" -> [s EXCEPT !.receipts = @ \cup {m}, !.pending = None]
    [] o = "not_submitted" -> [s EXCEPT !.pending = None]
    [] OTHER -> s

\* Only a confirmed notice lets the receiver go on.
Record(p) ==
  /\ pc[p] = "submit"
  /\ call[p] \in Outcome
  /\ Save(p, Recorded(mem[p], item[p], call[p]),
          IF call[p] = "submitted" THEN "stream" ELSE "leave")
  /\ call' = [call EXCEPT ![p] = "none"]
  /\ UNCHANGED <<durable, locks, dir, item, position, said, world, history>>

Leave(p) ==
  /\ pc[p] = "leave"
  /\ End(p)
  /\ UNCHANGED <<files, world, history>>

-----------------------------------------------------------------------------
(* Ending.                                                                 *)

\* SIGTERM or SIGINT at an await: a submission under way is joined first, and
\* its outcome is dropped.
StopRequested(p) ==
  /\ \/ /\ pc[p] \in {"stream", "check", "delay"}
        /\ End(p)
     \/ /\ pc[p] = "submit" /\ call[p] # "none"
        /\ pc' = [pc EXCEPT ![p] = "join"]
        /\ UNCHANGED <<locks, locals>>
  /\ UNCHANGED <<files, world, history>>

Joined(p) ==
  /\ pc[p] = "join"
  /\ call[p] \in Outcome
  /\ End(p)
  /\ UNCHANGED <<files, world, history>>

\* An error ends the process: a client or mailbox that answers wrongly, a
\* session that another receiver owns, a file that cannot be written.
Fail(p) ==
  /\ pc[p] \in {"open", "create", "load", "sync", "probe", "connect", "stream",
                "check", "intend", "reopen", "rebind"} \/ (pc[p] = "submit" /\ call[p] \in Outcome)
  /\ disk' \in IF pc[p] = "create" THEN {disk, [disk EXCEPT ![dir[p]] = Torn]}
               ELSE {disk}
  /\ End(p)
  /\ UNCHANGED <<durable, world, history>>

\* The process is killed; the codex command it runs, or what it has written to
\* the socket, is not.
Kill(p) ==
  /\ pc[p] # "off"
  /\ disk' \in IF pc[p] = "create" THEN {disk, [disk EXCEPT ![dir[p]] = Torn]}
               ELSE {disk}
  /\ orphans' = IF call[p] = "running" THEN Orphaned(p) ELSE orphans
  /\ End(p)
  /\ UNCHANGED <<durable, world, queued, mistold>>

OrphanQueues(d, m) ==
  /\ orphans[d][m] > 0
  /\ orphans' = [orphans EXCEPT ![d][m] = @ - 1]
  /\ Queue(d, m)
  /\ UNCHANGED <<files, locks, pc, locals, world, mistold>>

\* Every process is gone, and a rename that was not synced may be.
PowerLoss ==
  /\ \E d \in Dir : disk[d] # durable[d]
  /\ disk' \in {disk, durable}
  /\ durable' = disk'
  /\ owner' = [d \in Dir |-> None]
  /\ readers' = [d \in Dir |-> {}]
  /\ session' = None
  /\ pc' = [p \in Process |-> "off"]
  /\ dir' = [p \in Process |-> None]
  /\ mem' = [p \in Process |-> None]
  /\ after' = [p \in Process |-> "off"]
  /\ item' = [p \in Process |-> None]
  /\ position' = [p \in Process |-> 0]
  /\ call' = [p \in Process |-> "none"]
  /\ said' = [p \in Process |-> "nothing"]
  /\ orphans' = [d \in Dir |-> [m \in Seq |-> 0]]
  /\ UNCHANGED <<world, queued, mistold>>

-----------------------------------------------------------------------------
(* Maintenance commands.                                                   *)

\* receive rebind: the lock first, then the file, and the socket found now
\* replaces the saved one ...
RebindStart(p, d) ==
  /\ Goto(p, "off", "reopen")
  /\ disk[d] # None
  /\ Take(p, d)
  /\ UNCHANGED <<files, readers, session, mem, after, item, position, call, said, world, history>>

Rebindable(saved) == saved.pending = None /\ saved.binding.socket # 0

RebindOpened(p) ==
  /\ Goto(p, "reopen", "rebind")
  /\ disk[dir[p]] \in State
  /\ Rebindable(disk[dir[p]])
  /\ mem' = [mem EXCEPT ![p] = [disk[dir[p]] EXCEPT !.binding.socket = server]]
  /\ UNCHANGED <<files, locks, dir, after, item, position, call, said, world, history>>

RebindRefused(p) ==
  /\ pc[p] = "reopen"
  /\ disk[dir[p]] \in State => ~Rebindable(disk[dir[p]])
  /\ End(p)
  /\ UNCHANGED <<files, world, history>>

\* ... once the server behind it has answered and it is still the same one.
RebindFinish(p) ==
  /\ pc[p] = "rebind"
  /\ mem[p].binding.socket = server
  /\ IF mem[p] # disk[dir[p]]
     THEN Save(p, mem[p], "leave")
     ELSE Goto(p, "rebind", "leave") /\ UNCHANGED <<disk, mem, after>>
  /\ UNCHANGED <<durable, locks, dir, item, position, call, said, world, history>>

\* receive status: it takes the lock shared if it can, and holds it ...
StatusStart(p, d) ==
  /\ Goto(p, "off", "status")
  /\ disk[d] \in State
  /\ readers' = IF owner[d] = None THEN [readers EXCEPT ![d] = @ \cup {p}] ELSE readers
  /\ dir' = [dir EXCEPT ![p] = d]
  /\ UNCHANGED <<files, owner, session, mem, after, item, position, call, said, world, history>>

\* MUTANT of Judged: the lock is not asked for.
JudgedByFile(p) == "unknown"

\* What it says of a pending message: nobody can be submitting it, or somebody may be.
Judged(p) == IF p \in readers[dir[p]] THEN "unknown" ELSE "in_flight"

\* ... until it has read the file.
StatusRead(p) ==
  /\ Goto(p, "status", "reported")
  /\ said' = [said EXCEPT ![p] =
       IF disk[dir[p]].pending = None THEN "nothing" ELSE Judged(p)]
  /\ readers' = [readers EXCEPT ![dir[p]] = @ \ {p}]
  /\ UNCHANGED <<files, owner, session, dir, mem, after, item, position, call, world, history>>

StatusEnd(p) ==
  /\ pc[p] = "reported"
  /\ End(p)
  /\ UNCHANGED <<files, world, history>>

-----------------------------------------------------------------------------
(* The world: a server that comes back on a new socket, messages that are  *)
(* acknowledged or answered by other means.                                *)

ServerRestarts ==
  /\ server < MaxServer
  /\ server' = server + 1
  /\ UNCHANGED <<files, locks, pc, locals, completed, drops, history>>

Complete(m) ==
  /\ m \notin completed
  /\ completed' = completed \cup {m}
  /\ UNCHANGED <<files, locks, pc, locals, server, drops, history>>

-----------------------------------------------------------------------------
Receive(p) ==
  \/ OpenNew(p) \/ OpenSaved(p) \/ OpenRefused(p)
  \/ Create(p) \/ Load(p) \/ Sync(p) \/ Probe(p)
  \/ Connect(p) \/ ReadEvent(p) \/ CheckCurrent(p) \/ Disconnect(p) \/ Reconnect(p)
  \/ Intend(p) \/ Submit(p) \/ Reach(p) \/ Return(p) \/ Record(p)
  \/ Leave(p) \/ Joined(p)

Next ==
  \/ \E p \in Process :
       \/ Receive(p) \/ StopRequested(p) \/ Fail(p) \/ Kill(p)
       \/ RebindOpened(p) \/ RebindRefused(p) \/ RebindFinish(p)
       \/ StatusRead(p) \/ StatusEnd(p)
       \/ \E a \in Starts : Start(p, a)
       \/ \E d \in Dir : RebindStart(p, d) \/ StatusStart(p, d)
  \/ \E d \in Dir, m \in Seq : OrphanQueues(d, m)
  \/ \E m \in Seq : Complete(m)
  \/ PowerLoss \/ ServerRestarts

Spec == Init /\ [][Next]_vars

\* A receiver that runs takes its next step: every client call and mailbox
\* check has a deadline, and a stream with an event left delivers it or ends.
FairSpec == Spec /\ \A p \in Process : WF_vars(Receive(p))

-----------------------------------------------------------------------------
(* What the receiver gets right.                                           *)

\* One directory queues a message's notice at most once, however often its
\* receiver is stopped, killed, restarted or cut off, and whatever a power
\* loss takes back of its file.  The code has one exception: a notice of the
\* codex command that was told as not_submitted (codex/mod.rs:297) is no longer
\* pending, and a restarted receiver submits it again.
NotifiedOnce ==
  \A d \in Dir, m \in Seq : queued[d][m] <= 1 \/ <<d, m>> \in mistold

\* The file of directory d, and the one a power loss would bring back, name
\* message m as pending or as submitted.
Knows(d, m) ==
  \A file \in {disk[d], durable[d]} :
    file \in State /\ (m \in file.receipts \/ file.pending = m)

\* A notice that is in the session's queue, or may still come there, is known to
\* the file, and to the file a power loss would bring back, as pending or as
\* submitted; the one that was told as not_submitted excepted.
LedgerKnows ==
  \A d \in Dir, m \in Seq :
    queued[d][m] > 0 \/ orphans[d][m] > 0 => Knows(d, m) \/ <<d, m>> \in mistold

\* A receipt is never wrong: it names a notice that is in the queue.
ReceiptsAreTrue ==
  \A d \in Dir : disk[d] \in State =>
    \A m \in disk[d].receipts : queued[d][m] > 0

\* Two receivers with different directories never have a call to the one session
\* under way together, a stopped one's last call included.  What a killed one or
\* an unknown outcome left behind is nobody's call any more, and may overlap.
OneSubmission ==
  \A p, q \in Process : call[p] # "none" /\ call[q] # "none" => p = q

\* Who holds the lock of directory d, if anybody, only looks at the file yet.
Looking == {"open", "reopen"}
Idle(d) == owner[d] # None => pc[owner[d]] \in Looking

\* Once status has called a pending outcome unknown, it stays so: the message
\* stays pending, and who still takes the directory's lock looks at the file and
\* is refused.  Nothing is said of a call that was left behind: its notice may
\* come yet, which is why the outcome is unknown.
UnknownIsFinal ==
  \A p \in Process : said[p] = "unknown" =>
    disk[dir[p]].pending # None /\ Idle(dir[p])

\* A receipt that is durable is never forgotten, whatever is added to the
\* binding, rebound, or lost with the power.
ReceiptsKept ==
  [][\A d \in Dir : durable[d] \in State =>
       durable'[d] \in State /\ durable[d].receipts \subseteq durable'[d].receipts]_vars

\* A message in the stream's list is queued or completed by other means, or
\* the receiver has ended, as long as streams do not end for ever.
NoticeArrives ==
  \A p \in Process, m \in Seq :
    pc[p] = "stream" ~>
      \/ m \in completed
      \/ \E d \in Dir : queued[d][m] > 0
      \/ pc[p] = "off"

-----------------------------------------------------------------------------
(* Why: the inductive invariant.                                           *)

Owning == Label \ {"off", "status", "reported"}

\* It holds the lock of the Codex session.
Serving(p) ==
  \/ pc[p] \in {"connect", "stream", "check", "intend", "submit", "join", "delay"}
  \/ pc[p] = "sync" /\ after[p] \in {"stream", "submit"}

\* Its intent to submit is in the file.
Intended(p) == pc[p] \in {"submit", "join"} \/ (pc[p] = "sync" /\ after[p] = "submit")

\* Locks are held where the place in the program says, and by one process; what
\* status has called unknown nobody can take up.
LockInv(p) ==
  /\ pc[p] \in Owning => dir[p] \in Dir /\ owner[dir[p]] = p
  /\ \A d \in Dir : owner[d] = p => pc[p] \in Owning /\ dir[p] = d
  /\ \A d \in Dir : p \in readers[d] => pc[p] = "status" /\ dir[p] = d /\ owner[d] = None
  /\ Serving(p) => session = p
  /\ pc[p] \in {"status", "reported"} => dir[p] \in Dir /\ disk[dir[p]] \in State
  /\ said[p] # "nothing" => pc[p] = "reported"
  /\ said[p] = "unknown" => disk[dir[p]].pending # None /\ Idle(dir[p])

\* What a process has loaded is the file; what it is about to add to the file is
\* in neither set of the ledger yet.
MemInv(p) ==
  /\ pc[p] \in Owning \ {"reopen"} => mem[p] \in State
  /\ pc[p] = "open" => mem[p].pending = None /\ mem[p].receipts = {}
  /\ pc[p] = "create" =>
       disk[dir[p]] = None /\ mem[p].pending = None /\ mem[p].receipts = {}
  /\ pc[p] \in {"load", "rebind"} =>
       /\ disk[dir[p]] \in State /\ disk[dir[p]].pending = None
       /\ mem[p].pending = None /\ mem[p].receipts = disk[dir[p]].receipts
  /\ pc[p] \in Owning \ (Looking \cup {"create", "load", "rebind"}) => disk[dir[p]] = mem[p]
  /\ pc[p] = "sync" => after[p] \in {"probe", "stream", "submit", "leave"}
  /\ \/ pc[p] \in {"probe", "connect", "stream", "check", "intend", "delay"}
     \/ pc[p] = "sync" /\ after[p] \in {"probe", "stream"}
     => mem[p].pending = None
  /\ pc[p] \in {"check", "intend"} \/ Intended(p) =>
       item[p] \in Seq /\ item[p] \notin mem[p].receipts
  /\ Intended(p) => mem[p].pending = item[p]
  /\ pc[p] \in {"submit", "join"} => durable[dir[p]] = disk[dir[p]]

\* A submission is under way between two saves, and the queue has its notice if
\* the client took it; before, and of a true denial, nothing is in the queue or
\* on its way.
CallInv(p) ==
  /\ call[p] # "none" => pc[p] \in {"submit", "join"}
  /\ pc[p] = "join" => call[p] # "none"
  /\ Intended(p) /\ call[p] \in {"none", "running", "not_submitted"} =>
       \/ <<dir[p], item[p]>> \in mistold
       \/ queued[dir[p]][item[p]] = 0 /\ orphans[dir[p]][item[p]] = 0
  /\ call[p] \in {"reached", "submitted"} => queued[dir[p]][item[p]] > 0

\* The two files of a directory and the queue: what may be in the queue is in
\* both, what is in the receipts is in the queue.
DirInv(d) ==
  /\ durable[d] \in State => disk[d] \in State /\ durable[d].receipts \subseteq disk[d].receipts
  /\ disk[d] \in State => \A m \in disk[d].receipts : queued[d][m] > 0
  /\ \A m \in Seq : <<d, m>> \notin mistold =>
       /\ queued[d][m] + orphans[d][m] <= 1
       /\ queued[d][m] > 0 \/ orphans[d][m] > 0 => Knows(d, m)

\* No inductive part can be left out: files, locks, places and the queue move
\* together.
IInv ==
  /\ TypeOK
  /\ \A p \in Process : LockInv(p) /\ MemInv(p) /\ CallInv(p)
  /\ \A d \in Dir : DirInv(d)
=============================================================================
