# Specifications of htalk

htalk lets coding agents exchange messages: one SQLite mailbox, a command line
that every agent runs in processes of its own, notices that are queued in
the session of the agent a message is for, and an MCP server that forwards commands
to a mailbox elsewhere. These modules specify the parts whose correctness depends
on the order of steps in several processes.

| Modules | What they specify |
|---|---|
| `Mailbox`, `Exchange` | the store and the notification of a message, step by step; what it promises |
| `WriteTurn` | the turn of contended sends |
| `Schema` | opening a mailbox of an older version |
| `Store` | the last two as they are checked and proved: a behaviour is of one of them |
| `Receiver` | `htalk receive`: notices for a mailbox elsewhere, with a ledger of its own |
| `Prompt`, `Handover`, `Rpc`, `Adapters` | one notice through each client's adapter; the three together |
| `OneAttempt` | what a call that is sent once promises; the adapters and `McpCall` implement it |
| `OwnedGroup` | a child process in a group of its own, and the end of the group |
| `McpCall` | a tool call that is forwarded to another machine's server |
| `Published` | publishing a mailbox, and a client's call to it |
| `Paging` | `watch` and the pages of `inbox`, `sent` and a published inbox |
| `Grace` | an answer and the waits for it, with a clock |
| `...Proofs` | theorems proved with TLAPS, in eight modules: see *Proofs* below |
| `MC...` | instances for TLC, each with its configurations |

`PROJECT.json` lists the runs, the lines each definition translates, the
hazards and the theorems.

Check a run with `tlc -config MCMailboxNotice.cfg MCMailbox.tla`, the proofs of a
module with `tlapm MailboxProofs.tla`.

## The system

| Part | Source (`src/src/`) | State | Operations |
|---|---|---|---|
| store | `store.rs`, `notify.rs`, `commands/mail.rs`, `commands/read.rs` | tables `messages`, `peers`, `retired_peers`, `waits` | save, notify_once, ack, wait, retire, restore, page |
| write turn | `write_turn.rs` | an flock on a directory beside the database, a thread-local mode, a helper thread | acquire, release |
| schema | `schema.rs` | `user_version`, tables, a directory of copies | check, upgrade, backup |
| client adapters | `adapters/{codex,claude,opencode}` | none; the client holds the queue | preflight, submit, dismiss |
| Codex connection | `adapters/codex/{rpc,discovery,state}.rs` | one connection | request with a deadline, scan |
| Codex receiver | `adapters/codex/receive.rs` | `state.json`, its lock, the session lock | receive, rebind, status |
| owned processes | `os/` | pinned processes of a group | start, end, capture |
| MCP server | `mcp.rs` | running calls, cancellation | serve, remote call, child command |
| catalog | `catalog/` | a file of published profiles, trust | publish, unpublish, directory, page, call |
| identity | `identity.rs`, `discovery.rs` | none | who is calling |

How they meet:

- A **send** takes the write turn if the mailbox is busy, upgrades the file if it
  is old, saves in one `BEGIN IMMEDIATE` transaction, gives the turn back,
  claims the notice with an `UPDATE` that one process wins, lets the adapter
  identify the client session (seconds), looks at the store a last time, makes
  one client call, records what came of it, and removes the notice again if the
  recipient has acknowledged meanwhile.
- A **wait** registers itself, polls for the answer, and leaves a receipt on the
  answer it returns. An answer's sender gives such a wait a moment and drops its
  notice when the receipt is there.
- An **ack** sets one column and removes the notice if it is still queued.
- An **adapter** runs a client's command or asks its server. The command is started
  in a process group of its own, and the group is ended before the adapter
  returns.
- A **receiver** reads the `watch` stream of a mailbox elsewhere and submits to the
  Codex session through the same adapter. It has no row to record in, so it keeps
  a ledger of its own.
- A **remote call** goes from one htalk MCP server through a connector (ssh, or a
  process of the same machine) to another, which checks that it still serves what
  the caller has selected and runs the command line as its child.
- A process may be killed between any two of these steps. Nothing runs in the
  background that would finish them; a retry is a new process.

## What is hard, and what must hold

`PROJECT.json` has one entry for each hazard, with its line and the properties that
are about it. In short:

*Store.* Claim, client call and record cannot be one transaction. So: a notice
reaches the client once (`AtMostOneNotice`); the report is never wrong but where the
adapter was told wrongly (`ReportTruthful`); an acknowledgment that came in time stops it
(`NoNoticeAfterEvidence`) and one that came late removes it (`NoLeftoverNotice`);
a notice is given up on evidence only (`SkippedOnEvidence`), and a wait with time
left is given that time (`NoticeWaitsForItsWait`); the exit code says which of all
this happened (`ExitZeroMeansConfirmed`); retries and meeting saves implement one
exchange (`ImplementsExchange`); commands end and waits find what is there
(`Liveness`).

*Write turn.* A busy send is run twice, a helper thread outlives the wait for it:
saved once (`SavedOnce`), the turn is kept by nobody (`TurnOnlyUntilSaved`), one
process uses the short pauses (`HeirsHoldTheTurn`), a stuck turn delays and does
not stop (`SendsEnd`).

*Schema.* Many processes open the old file together, older releases write to it,
power fails: copied durably first (`UpgradeIsBackedUp`), consistent copies
(`CopiesAreWhole`), no copies of what is refused (`RefusedLeavesNoCopy`).

*Receiver.* Its ledger is written before and after a call it does not control:
no message is notified twice by a directory (`NotifiedOnce`), the ledger knows of
every notice there may be (`LedgerKnows`), both but for the finding below; one
receiver's call at a time per session (`OneSubmission`), `status` does not call unknown
what is in flight (`UnknownIsFinal`), receipts survive (`ReceiptsKept`), messages arrive
(`NoticeArrives`).

*Adapters.* A hand-over can fail before, during and after it: whatever is told is
true of every server, now and later (`IsOneAttempt`,
`CodexAndClaudeAreOneAttempt`), a prompt offered to two addresses is accepted once
(`OneServer`), a notice goes to the store, the listener and the request it is meant
for (`OnlyInOwnedStore`, `OwnConnectionOnly`), and every operation returns
(`NotifyReturns`). One of the codes is ambiguous: see the finding below.

*Owned processes.* Members fork, leave and exit, process ids are used again: no
stranger is signalled (`NoStranger`), a cleanup that succeeds has ended the group
(`OnlyNewbornsSurvive`, which also says how far), and it ends (`Ends`).

*Remote calls.* A deadline, a cancellation, a shutdown and the answer race: nothing that
may have run is told as not run, and no result changes after it is told
(`IsOneAttempt`); an ended server leaves nothing running (`NothingOutlivesItsServer`);
calls are answered and endpoints leave (`Liveness`).

*Catalog.* What a call was checked against is changed before it runs: a command is
for the peer that was chosen, under a binding that was valid while the call was under
way (`ScopeHeld`), bindings are never given a new meaning (`BindingsArePinned`), and
no publisher undoes another one's change (`NoLostPublication`).

*Paging.* Messages are saved, answered and acknowledged between two pages: nothing is
passed over (`NothingPassedOver`), pages are whole (`PagesAreWhole`), and what stays
open is shown (`ShownInTheEnd`).

## Mailbox and Exchange

`Mailbox.tla` has one `pc` per command. A step is one transaction, one
autocommitted statement, one read, or one client call.

| Steps (`pc`) | Code |
|---|---|
| `save` | `Store::save`, `BEGIN IMMEDIATE` to commit |
| `claim` | the claiming `UPDATE` in `notify_once` |
| `grace` | `skip_after_grace` |
| `preflight`, `check`, `write` | an adapter's `notify`: identify the session, `skip()`, the call |
| `record` | the final `UPDATE` of `notify_once` |
| `recheck`, `dismiss` | `get` and `dismiss_acknowledged` |
| `ack` | the `UPDATE` of `Store::ack` |
| `wait`, `poll`, `receipt` | `Store::wait`, `return_wait_answer` |
| `finish` | the exit code of `commands/mail.rs` |

`messages` is the table and `retired` the retired peers. `notice` is the recipient's
client, an external program: *queued* (Codex, and it can be removed), *handed* to
the session, *removed*; or *coming*, when a call was left behind that may still bring
it there. `crossings` counts the notices that reached the client and, with `overdue`,
`abandoned` and `mistold`, is a history variable: no step reads one.

Abstractions. A body counts by equality only. A timestamp is whether it is set. The
notification detail keeps the values the code compares; every other text is
`"other"`. The client call ends in one of four ways (`ClientResults`): the notice was
taken and that is known, or not known; it was not taken, and that is known; or nobody
knows, and it may still come. To these the code adds the answers of the finding
below (`MistoldResults`): a codex command that ran, and queued the notice or still
may, is told as `not_submitted`. They are possible for every Codex recipient, and
`mistold` remembers the messages they were given for. A command that ends during its
call leaves the notice coming as well (`Stop`). `LateCrossing` is a codex family or a
half-written request that takes effect after its call: any number of steps later, or
never. Reads that precede
a save are not steps, because the rows they read never change in those columns.
A registered wait has no row here: all it does is to delay, and `GraceSkip` and
`GraceOver` are both possible at any time; `Grace` has the rows and the clock. Peers
keep their address and delivery. `Stop` is a kill, an interrupt, or an error of the
database; errors that the code survives are disjuncts of their step
(`CheckUnreadable`, `ReceiptSkipped`, `DismissFailed`).

`Exchange.tla` promises: saved messages do not change; a request has one answer,
which goes back where it came from; retired peers take part in no new request; an
announcement is claimed first and made once at most, and "submitted" is said of none
that was not made. "submission_unknown" promises nothing: the announcement may come
after the report. After "not_submitted" none comes, unless the report `Misjudge`d a
client whose notices can be removed, which is the finding. The refinement (`Promised`
in `Mailbox.tla`) maps the four columns of a notification to one account: unclaimed,
claimed, or its outcome.

`ReportTruthful` has the messages of `mistold` as its exception: of these the
code's report is false, and of no other. `NoLeftoverNotice` is about reports of
*submitted*; a notice that comes after an unknown report is removed by nobody, since the
code asks for no removal without a receipt. It has an exception, as the code has: a removal that is itself killed
or that the client does not answer (`abandoned`). `ExitZeroMeansConfirmed` has the
alternatives the code checks, as the exit code is decided from rows read earlier.

| Run | Instance | Shows |
|---|---|---|
| `notice` | three ids, three commands out of send, contradicting send, ack, two different replies and a wrong one; Codex recipient | the five invariants about one notice, the refinement |
| `answer` | two ids, a pull peer, two commands out of every kind of save, wait, reply and ack | giving up an answer's notice, liveness |

A hazard here is between the command that notifies, one that acknowledges, returns
or retries, and a retirement: three commands let all three meet, and any command
after them finds a store the first ones left. Two ids are a request and its
answer, the longest chain the code allows; the third id of `notice` is for a second
answer to the same request, which the refinement forbids. `notice` uses the symmetry of
the commands and of the ids that no job names, which no definition tells apart;
`answer` checks liveness and does not.

*Fairness.* `FairSpec` asks for weak fairness of each command's `Step`: a running
process goes on, because every wait in the code has a deadline (the busy budget of
five seconds, the grace of one, the adapters' timeouts, the wait's own). Nothing
is asked of clients, retirement, or `Stop`. The poll's deadline is not a clock:
`PollTimeout` may come at any poll that found no answer, so a wait ends in every
fair behaviour and the other half of `Liveness` says that it reads before it gives
up.

*Proofs.* `MailboxProofs` proves, for all values of the constants that satisfy
`ConstantsAssumption` and `JobsAssumption`, that `IInv` is inductive, that
`AccountInv` is inductive with it, and that the two imply each safety invariant.
Its last part proves the refinement. No invariant alone is inductive.
`AtMostOneNotice` needs to know that a command about to write is the only one that
may, that is: it created the message (`OneCreator`), and no earlier step has crossed
(`ClaimInv`). `ReportTruthful` needs the row to be *unknown* from claim to record.
`NoLeftoverNotice` needs the argument of the code's own comment: whoever is second,
of record and ack, reads both (`LeftoverInv`: some command that still has to read
the row, or that read it whole, is on its way). `SkippedOnEvidence` needs that the
wait which returned an answer has nothing more to read (`ReturnInv`), and that the
recipient of an answer is the sender of its request (`WaitInv`).
`ExitZeroMeansConfirmed` needs that what a sender has read of its row still holds
when it exits: marks and replies stay, and the reason in the row is its own, since
only the creator of a message records one (`ViewInv`). There is a lemma for each
part and each group of steps, over step lemmas that say what an action changes. The
refinement uses `IInv` for what the guards of `Exchange` ask: `Announce` that the
message is not yet written and its account *claimed*, *submission_unknown* or misjudged
(a notice that is *coming* is not one that was truly denied: `ReportInv`), `Report` that
the outcome agrees with the client. `misjudged` is `mistold` once the report is in the
row.

## Grace

The waits table and the clock that `Mailbox` leaves out: waits register themselves
with their deadline, poll, leave their row when killed, and rows that are long over
are purged; the notice of the answer asks for the latest registration and waits, for a
second at most, for a receipt. The clock moves only when nobody is due: what the
module shows is about processes that are not starved for longer than a pause
between polls. It is explored in the run `reading`, in units of that pause:
`Gap = 2` units, a grace of `Span = 3`, waits of up to `Longest = 4`, rows kept for
`Keep = 1`, and `MaxTime = 5`. These keep the order of the constants of the code
(a poll fits into the grace, a wait may be longer than it) and let a wait end
before, in and after a grace; `Keep` is small so that rows are purged at all.

`NoticeWaitsForItsWait` says that a wait which is alive and has time for another poll
when the notice is claimed keeps the notice from being sent, unless it is killed or
its receipt cannot be written; and that a stale row delays the notice by a second at
most and never skips it. A wait with less than one pause left may get
a notice that it did not need; the property does not promise otherwise, nor does
the code.

`ReadingProofs` proves it for any number of waits and whatever the constants are, as
long as a pause is positive and shorter than the grace (`TimesAssumption`). The
invariant is an argument about deadlines: a wait that polls is due within a pause
(`WaitInv`); the grace ends a second after the claim at most, and time does not
pass its end while the notice waits (`EndInv`); so a wait that was relied on, whose
deadline was more than a pause away, is due before the grace ends and finds the
answer then, as the answer was saved before the claim (`ReliedInv`). That
the end is late enough needs the *latest* registration (`LatestIsLast`), and that
numbers with a bound have a greatest one (`Greatest`, from the well-foundedness of
the natural numbers).

## WriteTurn

`pc` is the send: `begin` (the first `BEGIN IMMEDIATE`), `write`, `saved`, `later` and
`last` (writes without a turn), `acquire` (polling for the lock). `mode` is the
thread-local `MODE`, `helper` the thread in `flock`, `turn` the lock: it belongs to an
open file, which moves from the helper through the channel to the send, so
`turn = s` with `helper[s]` says where. Five seconds are a step that is possible at
any time. The run `turn` has two sends and another writer: one may hold the turn or
give it up while the other queues or gives up. `Fairness` has the send (its waits have
deadlines) and a helper that has the lock; it does not have the grant of a lock, since
a turn may be held for as long as its holder lives, and `SendsEnd` holds all the
same. The code's "waiting" flag is not modelled: a process sends once, so it is never
contended.

`StoreProofs` proves the three safety properties, as `Store` states them of its
instance `Turn`, for every set of senders.
`SavedOnce` needs that a send in its first write is not *fresh* any more
(`AttemptInv`); the two about the turn need to know where the open file is: with a
helper that has the lock, in the channel only while the send still polls it, and
never with a send that has not queued (`HelperInv`).

## Schema

A command reads the version, begins the transaction, reads it again, inspects, copies
in two reads (the pages of a backup are not read at once), publishes, syncs, and
upgrades in one step. The file is a version, whether it is sound, and a revision
that processes of older releases advance while the lock is free. `synced` is what
power loss leaves of the copies. Three commands and two revisions let two of them
race while a third is killed half-way; a killed command starts anew. Initially the
file has any version 0 to 4, sound or not.

`StoreProofs` proves the three invariants of the run, for any number of commands and
revisions, and that the file is upgraded once. `LockInv` carries the argument: whoever
is past the recheck holds the writer lock, so the version and the rows it read are
still those of the file, the pages it copied are of one moment, and what it synced is
what it upgrades. `VersionInv` says that nothing has been upgraded while the file is
not current.

## Receiver

A process is a receiver, a rebind or a status command. `disk` is what a directory
shows, `durable` what it may show after a power loss between rename and sync of the
directory. The three locks are `owner` and `readers` (state directory, exclusive and
shared) and `session`. The submission runs beside the process: `call` goes from
*running* to *reached* to an outcome, while a stop request moves `pc` to `join`.
A call that ends without knowing, or with its killed receiver, may leave a codex
command or a half-written request that still queues its notice; `orphans` counts them.
The stream restarts from the first open message on each connection. A start and a
rebind take the lock before they look at the file, so one that will be refused
holds it for a moment (*open*, *reopen*). A call by the codex command may be told as
`not_submitted` though the command ran (`Results`, the finding below): the receiver then
clears the pending message, saves and ends, and one started later submits the message
again. `mistold` remembers such messages, each once; `MaxMistold` bounds how many. Which
listener a call connects to, and what may come between that look and the write,
is `Rpc`'s; here `Reach` is the whole call as seen from the queue.

| Run | Instance | Shows |
|---|---|---|
| `receiver` | two processes, two directories, one message, one server, one call that denies wrongly | what several processes could break: `NotifiedOnce`, `OneSubmission`, `UnknownIsFinal` |
| `receiver_ledger` | one process after another, one directory, two messages, an added socket, a server that is replaced once, two lost streams, one call that denies wrongly | what crashes and changes of the binding could break: `LedgerKnows`, `ReceiptsKept`; and `NoticeArrives` |

The bounds are as small as shows, in the one run, two receivers of one session with each
other's leftovers, and in the other a socket that changed under a binding, and a
reconnect after a reconnect with a message behind another one. The proofs are about
all of it together. `FairSpec` is fair to the receiver only, and `MaxDrops` is its
assumption that streams do not end for ever.

`NotifiedOnce` is about one directory. Two directories of one session each queue a
notice of the same message; the code does not promise otherwise. It and `LedgerKnows`
except the messages of `mistold`, and TLC finds a message queued twice when the
exception is taken away. `OneSubmission` is about receivers that run, a stopped one's
joined call included: what a killed one left behind may overlap with the next call, as
no lock follows it. `UnknownIsFinal` says of a pending message which `status` called
unknown that it stays pending and that no process gets further with the directory
than to look at its file; a call that was left behind may still queue the notice.

`ReceiverProofs` proves all safety properties of the two runs, and that receipts are
true, for any number of processes, directories, messages and servers. `IInv` has a part
for each of what a process relies on: `LockInv` (which lock a place in the program holds), `MemInv` (what
is loaded is what is in the file, and what is about to be added is in neither set of
the ledger), `CallInv` (a submission is under way between two saves) and `DirInv` (the
two files of a directory, the queue and the orphans, of every message that was not
told wrongly). No part can be left out: that the file
knows of a notice is true because it was saved before the call, that it is still
the file that was saved because of the lock, and that the lock is held because of
the place in the program. Steps that look alike share a lemma: those that change no
file (`Quietly`), that save, that end and that take a directory.

## Prompt, Handover, Rpc and Adapters

Each is one operation of one adapter, from the first look to the outcome, with the
client's program around it. All implement `OneAttempt`: the effect happens at most
once, *denied* is told only of what never happens, *done* only of what has
happened, and everything else is *unknown*. Time is not modelled: a deadline
may pass at any moment.

- `Prompt` is OpenCode: the three GETs, the last look, the addresses of the server's
  name, and the POST by its parts (head, first read of the body, rest, answer). Two
  addresses may be two servers, and what was handed to a connection arrives whether
  or not the client still waits for it.
- `Handover` is what is handed over without a protocol: Claude Code's frame on its
  socket, which may be written in part, and `codex queue` with `run_command` around
  it. The command's family may outlive its leader and queue as long as one of it is
  left. `LateErrors` are the codes with which `run_command` may fail after the start.
- `Rpc` is the app server: the listener is checked, connected to and checked again;
  requests are numbered; the server handles what was written in any order, replies or
  not, and sends frames of its own with any number. A request that was written in
  part may be completed when the connection closes. Operations are add, delete,
  delete through a server of the client's own, a look at a session, and a scan, which
  goes on after a frame it cannot use.
- `Adapters` explores the three in one run: each behaviour uses one of them and the
  others stay at their start. Two addresses, two stores, a listener that is
  replaced twice, four requests and two stray frames at once: two of each is what it
  takes to mistake one for another, four requests let a scan be late twice. The
  fairness is that the adapter runs (`Notify`, `Client` or `Refuse`, and the clock of
  `Timeout`); no server has to answer, and no failure comes to the adapter's help.

`AdaptersProofs` proves all of it but `NotifyReturns`, for any addresses, stores,
listeners and numbers of requests. An operation of `Adapters` is a behaviour of each
of the three modules (`AdapterIsEach`), two of which stand still, so that each is
proved by itself:

- *Prompt*: nothing was handed over until `asked` is set, and to one address from then
  on (`BodyInv`). So one server at most accepts the prompt, `Prompt` implements
  `OneAttempt`, and an interrupt before any of the body was handed over keeps the
  prompt from every server.
- *Handover*: what queues a notice is a family that `codex queue` has started, in
  the captured store when the receiver bound one, and a frame is Claude Code's
  (`EffectInv`); `run_command` returns a failure to start, of which no process is left,
  or a failure after the start, or all of the output (`ResultInv`). `OnlyInOwnedStore`
  follows. That `Handover` implements `OneAttempt` holds if no error after the start
  has a code of a failure to start (`StartErrorsTell`, a hypothesis of
  `HandingIsOneAttempt` and `CodexAndClaude`): `Allowing` satisfies it and `Refusing`
  does not, which is the finding below. `OnlyInOwnedStore` needs no such hypothesis.
- *Rpc*: until `attempted` is set nothing that changes the queue was written, whole or in
  part (`WireInv`); a result is of the request it names, and of the change only if the
  change was made (`FrameInv`); the connection is to a listener that was there, and to
  the selected one from the second look on (`ListenerInv`).

The refinements map the client's side to `effect` and the outcome to `verdict`. After
a denial `OneAttempt` has no step in which the effect begins: that no server, family or
connection can still bring it about is the part that needs the invariants.

### Finding

`handover_proc` runs `Handover` with `LateErrors <- Refusing`: a system where /proc hides
other users' processes, or where a process handle is refused. TLC finds a notice
that `codex queue` has queued and that is told as `not_submitted`. `notify_cli`
(`codex/mod.rs:297`) takes `permission_denied` from `run_command` for a command that
could not be started; `run_command` returns the same code when it cannot own or end
the group of a command that ran. The comment above it says "Spawn failures precede
submission; anything after the process starts is uncertain." In the mailbox the
sender's record is then false, and nobody notifies again. `htalk receive` clears its
pending message on that answer (`receive.rs:434-437`), so a receiver that is started
again queues the notice a second time. `Mailbox` and `Receiver` have this answer, and
their properties name it as their exception. The run `adapters` has
`LateErrors <- Allowing`, where those errors have a code of their own, and so cannot
meet it: `NotSubmittedIsNotQueued` of `handover_proc` is the one property that finds it.

## OwnedGroup

The kernel's process table with few ids, so that they are used again, and the owner's
thread: it checks that the child leads its group, and ends the group in rounds. A round
lists /proc one id at a time, pins each member with a pidfd, looks again whether
the listed process is still the one that it pinned, and signals through the pins.
`since` is when a round began: what starts after it may be missed by its listing.
Members fork, leave the group, change owner (a setuid program, which the
owner may not signal) and exit at any moment; unrelated processes take free ids.
SIGKILL is modelled by `doomed`: the member does nothing more and exits when it exits.

`NoStranger` rests on what the code's comments say: a child that is not reaped keeps
its id, and so the number of its group, from use; a second look after the pin
compares the start time. `OnlyNewbornsSurvive` is as much as the code achieves: a
member that was forked while the last round was looking survives a cleanup that
succeeded. Two process ids and three births let an id be used again between list,
pin and look, and a member be forked in every round. `FairSpec` has the
owner's thread and the clock; no process has to exit, so `Ends` shows that
the four seconds bound the cleanup whatever the members do.

`OwnedGroupProofs` proves the two invariants for any ids and births, and that `wait`
after a cleanup that succeeded does not block (`WaitReturns`). The invariant:
the child is in the table until it is reaped (`Anchored`), its group has no stranger
(`OnlyKinInGroup`), an identity once seen names no other process later (`Known`), and
what was in the group when the round began is pinned once the listing is past
it (`Reached`).

## McpCall

Both ends of forwarded tool calls: the harness's server (`run_remote_checked`,
`Ask` to `Cleanup`), the connection, and the endpoint's server with `run_child` and the
CLI process it starts. `wire` and `reply` are what is in the pipes: a request that was
sent can be read after the other side has closed. Any call may be cancelled, cut short
by its deadline, by a lost connection or by a shutdown, at any step; the cleanup of
a connector on the same machine may kill the endpoint.

`IsOneAttempt` says of the answer what `OneAttempt` says of every call sent once:
answers that deny (`Denials`) are true and stay true (the background task of the
transport, which may still send a request after its call was abandoned, is not modelled:
such a call is answered as unknown); a result is the account of a CLI
process that ended by itself. `FairSpec` has the two servers, and
separately that the endpoint notices the end of its input; it has no connector, no
CLI process and no reply. The run has one call: calls share only the server's
shutdown, and `McpCallProofs` proves the safety properties and the refinement for any
number of them, from an invariant that is a conjunction over the calls.

## Published

A catalogue file, publishers that lock, load, edit and replace it, and one client: it
reads the directory, selects a profile, compares what an endpoint serves with what it
selected, sends the call, and is checked there once more before the command runs.
Generations and binding ids are fresh numbers. Others retire and restore
peers, replace the mailbox at the catalogue's path, and remove the file.

The check and the command are two steps, and the catalogue may change between them.
So `ScopeHeld` does not say that the binding is in force when the command runs: it
says that, at a moment while the call was under way, the catalogue of that
generation had this binding, that the mailbox it was made for, by device and inode,
was at the path, and that neither peer was retired throughout; and the
command is for the peer of the chosen profile. `seen`, `alive` and `present` record that
and are read by no step. A mailbox that takes the place of another one may have its
inode, which the code cannot tell (`ReplaceMailbox`). Two publishers of two profiles and two peers meet the client;
`MaxId = 4` gives ids for two more publications, or for a new file and one, and
`MaxChange = 1` one change by others. Without the comparison of the stamp (`Loadable`)
TLC finds `ScopeHeld` violated.

`PublishedProofs` proves the three properties for any number of publishers, profiles,
peers, ids and changes. `CopyInv`: the publisher that has the lock has a copy
of the file that is there, edited in its own profile only, unless the file was
removed; `NoLostPublication` is this at the save. `FreshInv`: ids in any catalogue
that can still be read, whether in the file, in a copy, or in what a call
has read, have been given out, so that a new one binds nothing else. `CallInv`: what
the endpoint reads while the call is under way is among `seen`, so a check that
passes finds the chosen entry there, for a mailbox among `present`, and a peer that it finds active was so from the
beginning, as `alive` only loses members. `ScopeHeld` follows from the last two.

## Paging

One reader and the messages that are saved while it reads. `watch` follows the inbox
for good; `inbox`, `sent` and a published inbox have pages that a caller follows to the
end. A page is one snapshot. Sequence numbers are given out when a row is inserted
and committed later, but SQLite lets one transaction write at a time: messages are
committed in the order they are numbered, which `NothingPassedOver` needs. A number
is used again after a rollback. `Limit = 2` and `MaxSeq = 4` give two full pages.
`PagesAreWhole` says that every page but the last is full (`FullPages`), which a
filter after the limit would break, besides order, repetition and what is listed.
`ShownInTheEnd` is under weak fairness of the reader, which assumes that a busy
database lets it read in the end, as `watch` tries again.

`ReadingProofs` proves `NothingPassedOver` and `PagesAreWhole` for pages of any size
and any number of messages. Only the last number can be of a transaction that
has not committed (`StoreInv`): so no message appears behind the cursor, and what is
behind it was shown (`PassedInv`). A page goes on from the cursor and leaves out
nothing up to its end (`PageInv`): what is inserted while it is shown comes after it.
Where a page is to be read, whole pages were listed (`FullInv`).
A list from the newest message is not complete in this sense, as messages come in front
of its first page; it is complete about what was there at that page (`Due`). That
`Ordered(Rest)` has a member, and so that a page can always be read, is not needed for
safety and is what TLC checks with `ShownInTheEnd`.

`MCReading` explores `Paging` and `Grace` in one run: a behaviour is of one of them.

## Runs

| Run | Distinct states | Shows |
|---|---|---|
| `notice` | 454,000 | one notice, three commands: refinement |
| `answer` | 221,000 | saves and waits, with liveness |
| `turn` | 15,000 | contended sends, with liveness |
| `schema` | 65,000 | three commands open one old file |
| `receiver` | 768,000 | two processes, two directories |
| `receiver_ledger` | 193,000 | one directory's file; messages arrive |
| `adapters` | 28,000 | the three adapters, with `NotifyReturns` |
| `handover_proc` | | the finding |
| `group` | 587,000 | one cleanup, with `Ends` |
| `mcp` | 2,900 | one call, with liveness |
| `published` | 1,524,000 | publishers and a client's call |
| `reading` | 692,000 | pages and waits, with `ShownInTheEnd` |

Each property of these runs has a mutant in `PROJECT.json`: a definition as a plausible
slip would have it (defined next to it, and marked `MUTANT of`), with which TLC finds
the property violated. Types are part of each proved `IInv`, and of `OnlyInOwnedStore`,
`OwnConnectionOnly`, `BindingsArePinned`, `PagesAreWhole` and `NoticeWaitsForItsWait`.

`CHECK_DEADLOCK FALSE` is set where the system stops: sends, commands that open
the file, adapters, cleanups, calls and waits end, bounded ids and times run out, and
a directory left with `state.tmp` alone is refused for good. Only the two runs of
`MCMailbox` go on for ever, as peers are retired and restored.

## Proofs

| Module | Proves, for all constants |
|---|---|
| `MailboxProofs` | the safety of `notice` and `answer`; `Mailbox` implements `Exchange` |
| `StoreProofs` | the safety of `schema` and of `turn` |
| `ReceiverProofs` | the safety of `receiver` and `receiver_ledger` |
| `AdaptersProofs` | the safety of `adapters`; `Prompt`, `Handover` and `Rpc` implement `OneAttempt` |
| `OwnedGroupProofs` | the safety of `group` |
| `McpCallProofs` | the safety of `mcp`; remote calls implement `OneAttempt` |
| `PublishedProofs` | the safety of `published` |
| `ReadingProofs` | the safety of `reading` |

Every safety property, action property and refinement that a passing run checks is
proved; see `theorems` in `PROJECT.json`. Each component has an inductive invariant
(`IInv`, at the end of its module, under *Why*), and its proof a lemma for each group of
steps and each part of the invariant that the group can disturb. TLC has checked
each `IInv` on the instances of the runs.

The proofs assume what the modules assume of their constants: that `None` and the
like are not among the values they stand beside, that bounds are natural numbers, that
a page has a place, that a pause is shorter than the grace. TLC evaluates these
for every run. The theorems that a denial of Claude Code's frame
or of `codex queue` is true have one more hypothesis, `StartErrorsTell`, which is what
the finding is about. The bounds of the models (`MaxSeq`, `MaxId`, `MaxTime`, ...) are
arbitrary in the proofs.

Model-checked only:

- liveness (`Liveness`, `SendsEnd`, `NoticeArrives`, `NotifyReturns`, `Ends`,
  `ShownInTheEnd`), which needs fairness and ENABLED, out of the prover's reach;
- that the modules' steps can be taken at all, which the runs show by taking each.

## Plan

Left, in this order:

1. for the liveness properties, what can be proved without ENABLED: that each operation
   goes forward, so that nothing but a wait for others can keep it from its end;
2. registration of peers that meets registration, retirement and a change of address;
3. larger instances of `published` (two clients, more changes) and of `receiver` (two
   messages in two directories, a server that is replaced).

## Not modelled

- *Identity, discovery of sessions and of machines, ssh*: they parse the output of
  other programs once per command and keep no state that two steps could disagree
  about. That a session is identified is a choice in `preflight`.
- *Arguments, errors, output, guidance*: parsing, wording and layout.
- *Registration and migration of peers*: peers are constants; only retirement is
  state.
- *Trust of a catalogue* (`trust.rs`): a file that is written once.
- *macOS and Windows groups*: there the system ends the group as a whole.
- *Integrations and scripts* beside the program.

SQLite's transactions and `flock` are taken to be what their documentation says. File
system calls other than rename and sync are atomic.
