----------------------------- MODULE OwnedGroup -----------------------------
(***************************************************************************)
(* A child process started in a process group of its own, and the cleanup  *)
(* that ends the group: OwnedGroup (src/os/linux/group.rs) with its two    *)
(* blocking callers, run_command (src/os/capture.rs) and the stdio         *)
(* app-server connection (src/adapters/codex/rpc.rs).                      *)
(*                                                                         *)
(* The child's unreaped process id reserves the number of its group.  The  *)
(* cleanup lists /proc one process id at a time, pins each member with a   *)
(* pidfd, looks again, and signals through the pinned handles only.        *)
(* Meanwhile the members fork, leave, exec a setuid program and exit, and  *)
(* the kernel gives freed process ids to unrelated processes.              *)
(***************************************************************************)
EXTENDS Naturals

CONSTANTS
  Pid,        \* process ids, few enough to be used again
  Leader,     \* the process id of the child
  MaxBirths,  \* bound: how many processes start after the child
  None        \* no process, no handle

ASSUME LeaderAssumption == Leader \in Pid
ASSUME BirthsAssumption == MaxBirths \in Nat

VARIABLES
  table,    \* the kernel's process table
  births,   \* how many processes were started: the clock of starttime
  caller,   \* which function owns the child
  pc,       \* where it is
  dropping, \* the close of a connection is that of its Drop
  clock,    \* the cleanup runs for under two seconds, under four, longer
  value,    \* the signal of this round
  since,    \* the births when this round began
  todo,     \* process ids that this round's listing of /proc has yet to reach
  found,    \* the member that the listing is at
  handle,   \* the process that the pidfd just opened refers to
  members,  \* the pinned members
  left,     \* the members that this round has yet to signal
  active,   \* this round saw a member alive
  stranger  \* a signal reached a process that the child is no ancestor of

kernel == <<table, births>>
look == <<todo, found, handle, left, active>>
round == <<value, since, look>>
vars == <<kernel, caller, pc, dropping, clock, round, members, stranger>>

Task(start, group, kin) ==
  [start |-> start, group |-> group, ours |-> TRUE, kin |-> kin,
   state |-> "running", doomed |-> FALSE]

Tasks == [start: Nat, group: BOOLEAN, ours: BOOLEAN, kin: BOOLEAN,
          state: {"running", "zombie"}, doomed: BOOLEAN]
Identity == Pid \X Nat

ASSUME NoneAssumption == None \notin Tasks /\ None \notin Identity

\* The process that had this id and start time still has its /proc entry.
Present(id) == /\ table[id[1]] # None
               /\ table[id[1]].start = id[2]

Alive(id) == Present(id) /\ table[id[1]].state = "running"

Child == <<Leader, 0>>
AnchorHolds == Present(Child) /\ table[Leader].group
Exited == ~Alive(Child)

Init ==
  /\ table = [p \in Pid |-> IF p = Leader THEN Task(0, TRUE, TRUE) ELSE None]
  /\ births = 0
  /\ caller \in {"capture", "stdio"}
  /\ pc = "inspect"
  /\ dropping = FALSE
  /\ clock = 0
  /\ value = "TERM" /\ since = 0 /\ todo = {}
  /\ found = None /\ handle = None
  /\ members = {} /\ left = {} /\ active = FALSE
  /\ stranger = FALSE

-----------------------------------------------------------------------------
(* What the other processes do.                                            *)

\* An id is free when no process and no process group has it.
Free(p) == /\ births < MaxBirths
           /\ table[p] = None
           /\ p = Leader =>
                \A q \in Pid: table[q] # None => ~table[q].group

Change(p, task) == /\ table' = [table EXCEPT ![p] = task]
                   /\ UNCHANGED births

Fork(p, q) ==
  /\ table[p] # None /\ table[p].kin
  /\ table[p].state = "running" /\ ~table[p].doomed
  /\ Free(q)
  /\ births' = births + 1
  /\ table' = [table EXCEPT ![q] =
                 [Task(births + 1, table[p].group, TRUE)
                    EXCEPT !.ours = table[p].ours]]

\* An unrelated process; with the child's id it can lead a group of its number.
Stray(q, group) ==
  /\ Free(q)
  /\ group => q = Leader
  /\ births' = births + 1
  /\ table' = [table EXCEPT ![q] = Task(births + 1, group, FALSE)]

Leave(p) ==
  /\ table[p] # None /\ table[p].kin /\ table[p].group
  /\ table[p].state = "running" /\ ~table[p].doomed
  /\ Change(p, [table[p] EXCEPT !.group = FALSE])

ChangeOwner(p) ==
  /\ table[p] # None /\ table[p].kin /\ table[p].ours
  /\ table[p].state = "running" /\ ~table[p].doomed
  /\ Change(p, [table[p] EXCEPT !.ours = FALSE])

\* The child stays in the table until it is reaped.  What exits elsewhere is
\* reaped by its own parent or by init: a zombie and a gone process are one to
\* a pidfd, and the id of the former is not yet used again.
Exit(p) ==
  /\ table[p] # None /\ table[p].state = "running"
  /\ Change(p, IF p = Leader /\ Present(Child)
               THEN [table[p] EXCEPT !.state = "zombie"]
               ELSE None)

Others ==
  /\ pc # "ended"
  /\ \/ \E p, q \in Pid: Fork(p, q)
     \/ \E q \in Pid, group \in BOOLEAN: Stray(q, group)
     \/ \E p \in Pid: Leave(p) \/ ChangeOwner(p) \/ Exit(p)
  /\ UNCHANGED <<caller, pc, dropping, clock, round, members, stranger>>

-----------------------------------------------------------------------------
(* The callers.                                                            *)

Goto(next) == pc' = next
Unsignalled == UNCHANGED <<kernel, stranger>>

\* The signal reaches whichever process the handle refers to, if it lives.
SendTo(id, signal) ==
  IF Alive(id)
  THEN /\ table' = [table EXCEPT ![id[1]].doomed = @ \/ signal = "KILL"]
       /\ stranger' = (stranger \/ ~table[id[1]].kin)
       /\ UNCHANGED births
  ELSE Unsignalled

Inspect ==
  /\ pc = "inspect"
  /\ Goto(IF AnchorHolds THEN "own" ELSE "refused")
  /\ UNCHANGED <<caller, dropping, clock, round, members>> /\ Unsignalled

Own ==
  /\ pc = "own"
  /\ \/ AnchorHolds /\ Goto("running")
     \/ Goto("refused")       \* no pidfd, or the child has left its group
  /\ UNCHANGED <<caller, dropping, clock, round, members>> /\ Unsignalled

\* No group is owned: only the child itself is killed.
Refused ==
  /\ pc = "refused"
  /\ Goto("reap")
  /\ SendTo(Child, "KILL")
  /\ UNCHANGED <<caller, dropping, clock, round, members>>

\* The child is reaped if it ends within the bound; then the call gives up.
Reap ==
  /\ pc = "reap"
  /\ Goto("ended")
  /\ \/ Present(Child) /\ Exited /\ Change(Leader, None) /\ UNCHANGED stranger
     \/ Unsignalled
  /\ UNCHANGED <<caller, dropping, clock, round, members>>

StartFinish ==
  /\ Goto("anchor")
  /\ clock' = 0
  /\ UNCHANGED <<caller, round, members>> /\ Unsignalled

\* What a round has looked at does not outlive it; the pinned members do.
Forgotten == /\ todo' = {} /\ found' = None /\ handle' = None
             /\ left' = {} /\ active' = FALSE /\ value' = "TERM"

\* run_command: the output is complete, or the deadline, an interrupt or a
\* failed read ends the run.  A handle that cannot be polled ends it too.
CaptureEnds ==
  /\ pc = "running" /\ caller = "capture"
  /\ StartFinish
  /\ UNCHANGED dropping

HandleFails ==
  /\ pc = "running" /\ caller = "capture"
  /\ Goto("reap")
  /\ SendTo(Child, "KILL")
  /\ UNCHANGED <<caller, dropping, clock, round, members>>

\* Rpc::close, called by its user or by Drop; a failed close is tried again by
\* Drop.  The grace after the end of input only waits.
Close ==
  /\ caller = "stdio"
  /\ \/ pc = "running" /\ dropping' \in BOOLEAN
     \/ pc = "failed" /\ dropping' = TRUE
  /\ StartFinish

Fail ==
  /\ Forgotten /\ since' = 0
  /\ \/ /\ caller = "capture"
        /\ Goto("reap") /\ SendTo(Child, "KILL")
     \/ /\ caller = "stdio" /\ dropping
        /\ Goto("ended") /\ SendTo(Child, "KILL")
     \/ /\ caller = "stdio" /\ ~dropping
        /\ Goto("failed") /\ Unsignalled

Succeed ==
  IF caller = "stdio" /\ ~Exited
  THEN Fail
  ELSE Forgotten /\ UNCHANGED since /\ Goto("wait") /\ Unsignalled

Wait ==
  /\ pc = "wait"
  /\ Present(Child) /\ Exited
  /\ Change(Leader, None)
  /\ Goto("ended")
  /\ UNCHANGED <<caller, dropping, clock, round, members, stranger>>

-----------------------------------------------------------------------------
(* One cleanup: rounds of listing, pinning and signalling.                 *)

Signal(at) == IF at = 0 THEN "TERM" ELSE "KILL"

Begin ==
  /\ pc = "anchor"
  /\ IF AnchorHolds
     THEN /\ value' = Signal(clock)
          /\ since' = births
          /\ todo' = Pid
          /\ Goto("scan") /\ Unsignalled
          /\ UNCHANGED <<found, handle, left, active>>
     ELSE Fail
  /\ UNCHANGED <<caller, dropping, clock, members>>

\* MUTANT of Passed: the group is listed once.
PassedOnceListed(p) == table[p] # None => ~table[p].group \/ members # {}

\* A process that is gone, in another group or pinned already is passed over;
\* one that started after the listing may not be in it.
Passed(p) == table[p] # None => \/ ~table[p].group
                                 \/ <<p, table[p].start>> \in members

Missable(p) == table[p] # None => table[p].start > since

Visit(p) ==
  /\ pc = "scan" /\ p \in todo
  /\ todo' = todo \ {p}
  /\ \/ /\ Passed(p) \/ Missable(p)
        /\ UNCHANGED <<pc, found>>
     \/ /\ ~Passed(p)
        /\ Goto("pin") /\ found' = <<p, table[p].start>>
  /\ UNCHANGED <<caller, dropping, clock, value, since, handle, left, active, members>>
  /\ Unsignalled

\* The owner is read and the pidfd opened by process id, whoever has it now.
Pin ==
  /\ pc = "pin"
  /\ LET task == table[found[1]] IN
       \/ /\ task = None
          /\ Goto("scan") /\ found' = None /\ Unsignalled
          /\ UNCHANGED <<value, since, todo, handle, left, active>>
       \/ /\ task # None /\ ~task.ours
          /\ Fail
       \/ /\ task # None /\ task.ours
          /\ handle' = <<found[1], task.start>>
          /\ Goto("verify") /\ Unsignalled
          /\ UNCHANGED <<value, since, todo, found, left, active>>
  /\ UNCHANGED <<caller, dropping, clock, members>>

\* MUTANT of Verified: whatever was pinned becomes a member.
VerifiedBlindly == found \in Identity

\* The id still names the process that was listed, in the same group.
Verified == Present(found) /\ table[found[1]].group

Verify ==
  /\ pc = "verify"
  /\ Goto("scan")
  /\ members' = IF Verified THEN members \cup {handle} ELSE members
  /\ found' = None /\ handle' = None
  /\ UNCHANGED <<caller, dropping, clock, value, since, todo, left, active>>
  /\ Unsignalled

\* /proc, an entry of it or a handle cannot be read.
Unreadable ==
  /\ pc \in {"anchor", "scan", "pin", "verify", "signal"}
  /\ Fail
  /\ UNCHANGED <<caller, dropping, clock, members>>

Listed ==
  /\ pc = "scan" /\ todo = {}
  /\ IF AnchorHolds
     THEN /\ left' = members
          /\ Goto("signal") /\ Unsignalled
          /\ UNCHANGED <<value, since, todo, found, handle, active>>
     ELSE Fail
  /\ UNCHANGED <<caller, dropping, clock, members>>

SignalMember(id) ==
  /\ pc = "signal" /\ id \in left
  /\ left' = left \ {id}
  /\ active' = (active \/ Alive(id))
  /\ SendTo(id, value)
  /\ UNCHANGED <<caller, pc, dropping, clock, value, since, todo, found, handle, members>>

\* MUTANT of GivesUp: rounds go on while a member lives.
GivesUpNever == clock > 2

GivesUp == clock = 2

RoundEnds ==
  /\ pc = "signal" /\ left = {}
  /\ \/ ~active /\ Succeed
     \/ active /\ GivesUp /\ Fail
     \/ active /\ ~GivesUp
        /\ Forgotten /\ since' = 0 /\ Goto("anchor") /\ Unsignalled
  /\ UNCHANGED <<caller, dropping, clock, members>>

Tick ==
  /\ pc \in {"anchor", "scan", "pin", "verify", "signal"}
  /\ clock < 2
  /\ clock' = clock + 1
  /\ UNCHANGED <<kernel, caller, pc, dropping, round, members, stranger>>

Step ==
  \/ Inspect \/ Own \/ Refused \/ Reap
  \/ CaptureEnds \/ HandleFails \/ Close \/ Wait
  \/ Begin \/ Pin \/ Verify \/ Unreadable \/ Listed \/ RoundEnds
  \/ \E p \in Pid: Visit(p)
  \/ \E id \in left: SignalMember(id)

Next == Step \/ Tick \/ Others

Spec == Init /\ [][Next]_vars

\* The owner's thread runs and time passes; nobody makes a process exit.
FairSpec == Spec /\ WF_vars(Step) /\ WF_vars(Tick)

-----------------------------------------------------------------------------
(* Correctness.                                                            *)

Places == {"inspect", "own", "refused", "reap", "running", "failed", "wait", "ended",
           "anchor", "scan", "pin", "verify", "signal"}

TypeOK ==
  /\ table \in [Pid -> Tasks \cup {None}]
  /\ births \in 0..MaxBirths
  /\ caller \in {"capture", "stdio"}
  /\ pc \in Places
  /\ dropping \in BOOLEAN
  /\ clock \in 0..2
  /\ value \in {"TERM", "KILL"}
  /\ since \in 0..MaxBirths
  /\ todo \subseteq Pid
  /\ found \in Identity \cup {None}
  /\ handle \in Identity \cup {None}
  /\ members \subseteq Identity
  /\ left \subseteq members
  /\ active \in BOOLEAN
  /\ stranger \in BOOLEAN

\* No signal ever reaches a process that the child did not start, however
\* process ids are used again (group.rs: the anchor, the second look, the pidfds).
NoStranger == ~stranger

\* child.wait() after a cleanup that succeeded never blocks: the child is dead
\* and still unreaped (capture.rs:44, rpc.rs:473).
WaitReturns == pc = "wait" => Present(Child) /\ Exited

\* A cleanup that succeeded leaves no member of the group running, but those
\* that were forked while its last round was looking (group.rs:198-256).
OnlyNewbornsSurvive ==
  pc = "wait" => \A p \in Pid: /\ table[p] # None
                               /\ table[p].group
                               /\ table[p].state = "running"
                               => table[p].start > since

\* Whatever the members do, the owner is done with them in the end: every
\* wait of capture.rs and group.rs is bounded and the last one cannot block.
Ends == <>(pc = "ended")
-----------------------------------------------------------------------------
(* Why: the inductive invariant.                                           *)

\* The child keeps its id until the end, so its group number is not reused.
Anchored == pc # "ended" => Present(Child)

OnlyKinInGroup ==
  pc # "ended" => \A p \in Pid: table[p] # None /\ table[p].group => table[p].kin

\* An identity seen at one time never names another process later.
NotReused(id) == /\ id[2] <= births
                 /\ Present(id) => table[id[1]].kin

Known ==
  /\ \A p \in Pid: table[p] # None => table[p].start <= births
  /\ NotReused(Child)
  /\ \A id \in members: NotReused(id)
  /\ since <= births

Found ==
  pc \in {"pin", "verify"} =>
    /\ found # None /\ NotReused(found)
    /\ found[1] \notin todo
    /\ table[found[1]] # None =>
         /\ found[2] <= table[found[1]].start
         /\ table[found[1]].start <= since => table[found[1]].start = found[2]

Handled ==
  pc = "verify" =>
    /\ handle # None
    /\ handle[1] = found[1] /\ found[2] <= handle[2] /\ handle[2] <= births
    /\ table[found[1]] # None => handle[2] <= table[found[1]].start

\* What was in the group when the round began is pinned once it was reached.
Covered(p) ==
  table[p] # None /\ table[p].group /\ table[p].start <= since =>
    <<p, table[p].start>> \in members

Reached ==
  /\ pc = "scan" => \A p \in Pid \ todo: Covered(p)
  /\ pc \in {"pin", "verify"} => \A p \in Pid \ (todo \cup {found[1]}): Covered(p)
  /\ pc = "signal" => /\ \A p \in Pid: Covered(p)
                      /\ Child \in members
                      /\ \A id \in members \ left: active \/ ~Alive(id)

IInv == /\ TypeOK /\ Anchored /\ OnlyKinInGroup /\ Known /\ Found /\ Handled
        /\ Reached /\ NoStranger /\ WaitReturns /\ OnlyNewbornsSurvive
=============================================================================
