------------------------------- MODULE WriteTurn -------------------------------
(***************************************************************************)
(* The turn that contended sends take before their first write.            *)
(*                                                                         *)
(* A send first tries to write at once.  If the mailbox is busy and        *)
(* nothing has been written, it queues for an flock on a directory beside  *)
(* the database, and tries again as the heir of that turn or, when it did  *)
(* not get it in five seconds, like any other writer.  A helper thread     *)
(* blocks in flock; the send polls a channel for the lock it obtains and   *)
(* may have given up by then.                                              *)
(*                                                                         *)
(* A sender is one htalk process, so it has one helper at most.  A wait    *)
(* that runs out its five seconds is a step that may come at any time.     *)
(***************************************************************************)
EXTENDS Naturals

CONSTANTS
  Sender,  \* htalk processes that send or reply
  Other,   \* every process that writes without a turn: ack, wait, peer add
  None     \* nobody

\* Assumed where the module is used: holders that the locks tell apart.
Distinct == None \notin Sender \cup {Other} /\ Other \notin Sender

VARIABLES
  pc,           \* what each send does next
  mode,         \* what a busy mailbox means to it
  second,       \* whether it is in its second attempt
  helper,       \* how far its helper thread has come
  turn,         \* whose open directory holds the lock, by helper, channel or send
  writer,       \* who holds SQLite's writer lock
  interrupted,  \* who has been interrupted
  saved         \* history: how many messages each send has inserted

vars == <<pc, mode, second, helper, turn, writer, interrupted, saved>>

Mode == {"normal", "fresh", "heir"}

TypeOK ==
  /\ pc \in [Sender -> {"idle", "begin", "write", "saved", "later", "last", "acquire", "ended"}]
  /\ mode \in [Sender -> Mode]
  /\ second \in [Sender -> BOOLEAN]
  /\ helper \in [Sender -> {"none", "asking", "granted", "sent"}]
  /\ turn \in Sender \cup {None}
  /\ writer \in Sender \cup {Other, None}
  /\ interrupted \in [Sender -> BOOLEAN]
  /\ saved \in [Sender -> Nat]

Init ==
  /\ pc = [s \in Sender |-> "idle"]
  /\ mode = [s \in Sender |-> "normal"]
  /\ second = [s \in Sender |-> FALSE]
  /\ helper = [s \in Sender |-> "none"]
  /\ turn = None
  /\ writer = None
  /\ interrupted = [s \in Sender |-> FALSE]
  /\ saved = [s \in Sender |-> 0]

-----------------------------------------------------------------------------
Goto(s, from, to) ==
  /\ pc[s] = from
  /\ pc' = [pc EXCEPT ![s] = to]

SetMode(s, m) == mode' = [mode EXCEPT ![s] = m]

Freed(lock, s) == IF lock = s THEN None ELSE lock

\* The process ends: its transaction rolls back, its files are closed.
End(s) ==
  /\ pc' = [pc EXCEPT ![s] = "ended"]
  /\ helper' = [helper EXCEPT ![s] = "none"]
  /\ turn' = Freed(turn, s)
  /\ writer' = Freed(writer, s)
  /\ UNCHANGED <<mode, second, interrupted, saved>>

Start(s) ==
  /\ Goto(s, "idle", "begin")
  /\ SetMode(s, "fresh")
  /\ UNCHANGED <<second, helper, turn, writer, interrupted, saved>>

\* An old mailbox is upgraded before the message is written to it.
Upgrade(s) ==
  /\ pc[s] = "begin" /\ mode[s] # "normal"
  /\ writer = None
  /\ SetMode(s, "normal")
  /\ UNCHANGED <<pc, second, helper, turn, writer, interrupted, saved>>

\* BEGIN IMMEDIATE; from here on a busy mailbox is waited for.
Begin(s) ==
  /\ Goto(s, "begin", "write")
  /\ writer = None
  /\ writer' = s
  /\ SetMode(s, "normal")
  /\ UNCHANGED <<second, helper, turn, interrupted, saved>>

Commit(s) ==
  /\ Goto(s, "write", "saved")
  /\ writer' = None
  /\ \E inserted \in {0, 1} : saved' = [saved EXCEPT ![s] = @ + inserted]
  /\ UNCHANGED <<mode, second, helper, turn, interrupted>>

\* A helper that still asks holds nothing yet; one that has the lock keeps it
\* until it finds nobody to send it to.
TurnAfterSave(s) == IF helper[s] = "none" THEN Freed(turn, s) ELSE turn

\* The turn is given back before the message is notified or waited on.
Release(s) ==
  /\ Goto(s, "saved", "later")
  /\ turn' = TurnAfterSave(s)
  /\ UNCHANGED <<mode, second, helper, writer, interrupted, saved>>

\* A later write of one statement: the claim of the notice, its record, a wait.
WriteLater(s) ==
  /\ Goto(s, "later", "last")
  /\ writer = None
  /\ UNCHANGED <<mode, second, helper, turn, writer, interrupted, saved>>

Finish(s) ==
  /\ pc[s] \in {"later", "last"}
  /\ End(s)

-----------------------------------------------------------------------------
(* A busy mailbox.                                                         *)

\* The busy error is raised at once for a fresh send, else after five seconds,
\* at the first write or at a later one.
BusyError(s) == pc[s] \in {"begin", "later"} /\ writer # None

\* MUTANT of Retriable: every busy error of a first attempt is retried.
RetriableAlways(s) == ~second[s]

\* Only before the first write of the first attempt.
Retriable(s) == ~second[s] /\ mode[s] = "fresh"

Fails(s) ==
  /\ BusyError(s)
  /\ ~Retriable(s) \/ interrupted[s]
  /\ End(s)

\* The helper starts to ask for the lock.
Queue(s) ==
  /\ BusyError(s)
  /\ Retriable(s) /\ ~interrupted[s]
  /\ pc' = [pc EXCEPT ![s] = "acquire"]
  /\ helper' = [helper EXCEPT ![s] = "asking"]
  /\ UNCHANGED <<mode, second, turn, writer, interrupted, saved>>

\* No directory or no thread: the send goes on without a turn.
QueueUnavailable(s) ==
  /\ BusyError(s)
  /\ Retriable(s) /\ ~interrupted[s]
  /\ pc' = [pc EXCEPT ![s] = "begin"]
  /\ SetMode(s, "normal")
  /\ second' = [second EXCEPT ![s] = TRUE]
  /\ UNCHANGED <<helper, turn, writer, interrupted, saved>>

HelperLocks(s) ==
  /\ helper[s] = "asking"
  /\ turn = None
  /\ turn' = s
  /\ helper' = [helper EXCEPT ![s] = "granted"]
  /\ UNCHANGED <<pc, mode, second, writer, interrupted, saved>>

\* MUTANT of TurnAfterSend: a lock that comes too late stays with its thread.
TurnAfterSendKept(s) == turn

\* Nobody receives a lock that comes too late: it is dropped.
TurnAfterSend(s) == IF pc[s] = "acquire" THEN turn ELSE None

HelperSends(s) ==
  /\ helper[s] = "granted"
  /\ turn' = TurnAfterSend(s)
  /\ helper' = [helper EXCEPT ![s] = IF pc[s] = "acquire" THEN "sent" ELSE "none"]
  /\ UNCHANGED <<pc, mode, second, writer, interrupted, saved>>

\* MUTANT of ModeOf: a send that gave up polls like the turn's holder.
ModeHeir(held) == "heir"

ModeOf(held) == IF held THEN "heir" ELSE "normal"

SecondAttempt(s, held) ==
  /\ Goto(s, "acquire", "begin")
  /\ SetMode(s, ModeOf(held))
  /\ second' = [second EXCEPT ![s] = TRUE]
  /\ UNCHANGED <<writer, interrupted, saved>>

Receive(s) ==
  /\ helper[s] = "sent"
  /\ helper' = [helper EXCEPT ![s] = "none"]
  /\ UNCHANGED turn
  /\ SecondAttempt(s, TRUE)

\* MUTANT of GiveUp: the wait for the turn has no deadline.
GiveUpNever(s) == FALSE

\* Five seconds are over, or the helper could not lock; what is in the channel
\* is closed with it.
GiveUp(s) ==
  /\ IF helper[s] = "sent"
     THEN helper' = [helper EXCEPT ![s] = "none"] /\ turn' = Freed(turn, s)
     ELSE UNCHANGED <<helper, turn>>
  /\ SecondAttempt(s, FALSE)

-----------------------------------------------------------------------------
Interrupt(s) ==
  /\ pc[s] \notin {"idle", "ended"}
  /\ ~interrupted[s]
  /\ interrupted' = [interrupted EXCEPT ![s] = TRUE]
  /\ UNCHANGED <<pc, mode, second, helper, turn, writer, saved>>

\* An interrupt is noticed between the steps, and while waiting for the turn.
InterruptNoticed(s) ==
  /\ pc[s] \in {"acquire", "begin", "later"}
  /\ interrupted[s]
  /\ End(s)

\* A refused message, a failed write or a kill ends the process anywhere.
Stop(s) ==
  /\ pc[s] \notin {"idle", "ended"}
  /\ End(s)

OtherWrites ==
  /\ \/ writer = None /\ writer' = Other
     \/ writer = Other /\ writer' = None
  /\ UNCHANGED <<pc, mode, second, helper, turn, interrupted, saved>>

\* What a send does by itself.
Send(s) ==
  \/ Upgrade(s) \/ Begin(s) \/ Commit(s) \/ Release(s) \/ WriteLater(s)
  \/ Finish(s) \/ Fails(s) \/ Queue(s) \/ QueueUnavailable(s) \/ Receive(s) \/ GiveUp(s)
  \/ InterruptNoticed(s)

Helper(s) == HelperLocks(s) \/ HelperSends(s)

Next ==
  \/ \E s \in Sender : Start(s) \/ Send(s) \/ Helper(s) \/ Interrupt(s) \/ Stop(s)
  \/ OtherWrites

Spec == Init /\ [][Next]_vars

\* Every wait of a send has a deadline, so it takes its next step; so does a
\* helper whose lock is free.
Fairness == \A s \in Sender : WF_vars(Send(s)) /\ WF_vars(HelperSends(s))

-----------------------------------------------------------------------------
(* What the turn gets right.                                               *)

\* A send inserts one message at most, however it was queued and retried: the
\* second attempt starts only if the first has begun no write.
SavedOnce == \A s \in Sender : saved[s] <= 1

\* A turn stands between a send and its own save only: nobody keeps it while
\* notifying or waiting, but for the instant in which a late helper drops it.
TurnOnlyUntilSaved ==
  turn # None =>
    \/ pc[turn] \in {"acquire", "begin", "write", "saved"}
    \/ helper[turn] = "granted"

\* One send at a time competes for the writer lock with the short pauses of
\* the turn's holder, and it is the holder.
HeirsHoldTheTurn == \A s \in Sender : mode[s] = "heir" /\ pc[s] = "begin" => turn = s

-----------------------------------------------------------------------------
(* Why.                                                                    *)

\* Nothing has been saved until a transaction commits, and a send that has
\* begun one no longer counts as fresh.
AttemptInv ==
  \A s \in Sender :
    /\ pc[s] \in {"idle", "begin", "write", "acquire"} => saved[s] = 0
    /\ pc[s] \in {"write", "saved", "later", "last"} => mode[s] = "normal"
    /\ mode[s] = "heir" => second[s] /\ helper[s] = "none"

\* Where the lock is, and that only a send which has queued meets its helper.
HelperInv ==
  \A s \in Sender :
    /\ helper[s] = "asking" => turn # s
    /\ helper[s] \in {"granted", "sent"} => turn = s
    /\ helper[s] = "sent" => pc[s] = "acquire"
    /\ pc[s] # "acquire" /\ ~second[s] => turn # s /\ helper[s] = "none"

IInv ==
  /\ TypeOK
  /\ AttemptInv
  /\ HelperInv
  /\ SavedOnce
  /\ TurnOnlyUntilSaved
  /\ HeirsHoldTheTurn

-----------------------------------------------------------------------------
(* What must happen.                                                       *)

\* Every send ends, whether the turn is free or not.
SendsEnd == \A s \in Sender : pc[s] # "idle" ~> pc[s] = "ended"
=============================================================================
