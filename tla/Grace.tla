-------------------------------- MODULE Grace --------------------------------
(***************************************************************************)
(* An answer that is saved while its asker waits for it (src/store.rs      *)
(* wait, Registration, wait_deadline, skip_after_grace): the waits are     *)
(* registered, the notice of the answer gives the latest of them up to a   *)
(* second to return it, and a wait that was killed leaves its row.  Time   *)
(* is counted in units of a poll's pause; who is due acts before the next  *)
(* unit, so what is shown here holds for processes that are not starved.   *)
(***************************************************************************)
EXTENDS Integers, FiniteSets

CONSTANTS
  Waiter,   \* waits of the one request by its sender
  Gap,      \* pause between two polls (100 ms), positive and shorter than the grace
  Span,     \* WAIT_GRACE (1 s)
  Longest,  \* a wait's seconds at most (45)
  Keep,     \* how long a row outlives its wait (60 s)
  MaxTime   \* when the clock stops

VARIABLES
  now,       \* the clock
  answered,  \* the answer is saved
  receipt,   \* wait_returned_at is set
  until,     \* the row of each wait, or -1
  waiter,    \* where each wait is
  deadline,  \* when it ends
  due,       \* when it polls next
  failed,    \* waits that could not write their receipt
  notice,    \* where the notice of the answer is
  claimed,   \* when it was claimed
  end,       \* when its grace ends
  relied     \* waits that had time for a poll when it was claimed

waits == <<until, waiter, deadline, due, failed>>
notifier == <<notice, claimed, end, relied>>
vars == <<now, answered, receipt, waits, notifier>>

Init ==
  /\ now = 0 /\ answered = FALSE /\ receipt = FALSE
  /\ until = [w \in Waiter |-> -1] /\ waiter = [w \in Waiter |-> "new"]
  /\ deadline = [w \in Waiter |-> 0] /\ due = [w \in Waiter |-> 0]
  /\ failed = {}
  /\ notice = "none" /\ claimed = 0 /\ end = 0 /\ relied = {}

-----------------------------------------------------------------------------
(* wait.                                                                   *)

Moves(w, from, to) == /\ waiter[w] = from
                      /\ waiter' = [waiter EXCEPT ![w] = to]
                      /\ UNCHANGED <<now, answered, notifier>>

\* An answer that is there already is returned without a registration.
FindAnswer(w) ==
  /\ answered /\ Moves(w, "new", "record")
  /\ UNCHANGED <<receipt, until, deadline, due, failed>>

\* Rows that are long over are removed on the way.
Purged == {v \in Waiter: until[v] >= 0 /\ until[v] < now - Keep}

\* A wait of no seconds looks once and is not registered.
Register(w) ==
  /\ ~answered /\ Moves(w, "new", "poll")
  /\ \E seconds \in 0..Longest:
       /\ deadline' = [deadline EXCEPT ![w] = now + seconds]
       /\ until' = IF seconds = 0 THEN until
                   ELSE [v \in Waiter |-> IF v = w THEN now + seconds
                                          ELSE IF v \in Purged THEN -1 ELSE until[v]]
  /\ due' = [due EXCEPT ![w] = now]
  /\ UNCHANGED <<receipt, failed>>

PollAnswered(w) ==
  /\ due[w] <= now /\ answered /\ Moves(w, "poll", "record")
  /\ UNCHANGED <<receipt, until, deadline, due, failed>>

\* The last poll is at the deadline.
NextPoll(w) == IF now + Gap < deadline[w] THEN now + Gap ELSE deadline[w]

PollAgain(w) ==
  /\ due[w] <= now /\ ~answered /\ now < deadline[w] /\ Moves(w, "poll", "poll")
  /\ due' = [due EXCEPT ![w] = NextPoll(w)]
  /\ UNCHANGED <<receipt, until, deadline, failed>>

PollTimeout(w) ==
  /\ due[w] <= now /\ ~answered /\ now >= deadline[w] /\ Moves(w, "poll", "drop")
  /\ UNCHANGED <<receipt, until, deadline, due, failed>>

\* A busy writer does not delay the answer; its receipt is not written then.
Record(w) ==
  /\ Moves(w, "record", "drop")
  /\ \/ receipt' = TRUE /\ UNCHANGED failed
     \/ failed' = failed \cup {w} /\ UNCHANGED receipt
  /\ UNCHANGED <<until, deadline, due>>

\* The row goes however the wait ends, if the writer is not busy.
Drop(w) ==
  /\ Moves(w, "drop", "done")
  /\ until' \in {until, [until EXCEPT ![w] = -1]}
  /\ UNCHANGED <<receipt, deadline, due, failed>>

Kill(w) ==
  /\ waiter[w] \in {"poll", "record", "drop"} /\ Moves(w, waiter[w], "killed")
  /\ UNCHANGED <<receipt, until, deadline, due, failed>>

-----------------------------------------------------------------------------
(* The notice of the answer.                                               *)

SaveAnswer ==
  /\ notice = "none"
  /\ answered' = TRUE /\ notice' = "claim"
  /\ UNCHANGED <<now, receipt, waits, claimed, end, relied>>

Registered == {w \in Waiter: until[w] >= 0}

\* MUTANT of Latest: the first registration is asked for.
LatestEarliest == CHOOSE t \in {until[w]: w \in Registered}: \A w \in Registered: t <= until[w]

Latest == CHOOSE t \in {until[w]: w \in Registered}: \A w \in Registered: t >= until[w]

\* What is left of the latest wait, a second at most.
Allowed == IF Registered = {} \/ Latest < now THEN 0
           ELSE IF Latest - now > Span THEN Span ELSE Latest - now

\* A wait that is alive and whose deadline leaves it another poll.
Relied == {w \in Registered: waiter[w] = "poll" /\ deadline[w] > now + Gap}

Claim ==
  /\ notice = "claim"
  /\ notice' = "grace" /\ claimed' = now /\ end' = now + Allowed /\ relied' = Relied
  /\ UNCHANGED <<now, answered, receipt, waits>>

\* The receipt is evidence; a registration alone never is.
Skip ==
  /\ notice \in {"grace", "final"} /\ receipt
  /\ notice' = "skipped"
  /\ UNCHANGED <<now, answered, receipt, waits, claimed, end, relied>>

GraceOver ==
  /\ notice = "grace" /\ ~receipt /\ now >= end
  /\ notice' = "final"
  /\ UNCHANGED <<now, answered, receipt, waits, claimed, end, relied>>

\* The adapter's last look at the mailbox finds nothing.
Submit ==
  /\ notice = "final" /\ ~receipt
  /\ notice' = "sent"
  /\ UNCHANGED <<now, answered, receipt, waits, claimed, end, relied>>

-----------------------------------------------------------------------------
(* Time.                                                                   *)

Pending == \/ \E w \in Waiter: \/ waiter[w] = "poll" /\ due[w] <= now
                               \/ waiter[w] \in {"record", "drop"}
           \/ notice \in {"claim", "final"}
           \/ notice = "grace" /\ (receipt \/ now >= end)

Tick == /\ now < MaxTime /\ ~Pending
        /\ now' = now + 1
        /\ UNCHANGED <<answered, receipt, waits, notifier>>

Wait(w) == \/ FindAnswer(w) \/ Register(w) \/ PollAnswered(w) \/ PollAgain(w)
           \/ PollTimeout(w) \/ Record(w) \/ Drop(w)

Notify == Claim \/ Skip \/ GraceOver \/ Submit

Next == (\E w \in Waiter: Wait(w) \/ Kill(w)) \/ SaveAnswer \/ Notify \/ Tick

Spec == Init /\ [][Next]_vars

-----------------------------------------------------------------------------
(* Correctness.                                                            *)

TypeOK ==
  /\ now \in 0..MaxTime /\ answered \in BOOLEAN /\ receipt \in BOOLEAN
  /\ until \in [Waiter -> -1..MaxTime + Longest]
  /\ waiter \in [Waiter -> {"new", "poll", "record", "drop", "done", "killed"}]
  /\ \A w \in Waiter: due[w] <= deadline[w]
  /\ failed \subseteq Waiter /\ relied \subseteq Waiter
  /\ notice \in {"none", "claim", "grace", "final", "skipped", "sent"}

\* No notice is sent of an answer that a wait has had time to return, unless the
\* wait was killed or its receipt could not be written (store.rs:538-552).
NoNeedlessNotice ==
  notice = "sent" => \A w \in relied: waiter[w] = "killed" \/ w \in failed

\* "A stale registration only costs this bounded wait; it never skips by itself"
\* (store.rs:539): the notice is decided within a second of its claim, and left
\* out only if a wait has returned the answer.
StaleRowsOnlyDelay ==
  /\ notice \in {"grace", "final"} => now <= claimed + Span
  /\ notice = "skipped" => \E w \in Waiter: waiter[w] \in {"drop", "done", "killed"}

-----------------------------------------------------------------------------
(* Why: the inductive invariant.                                           *)

\* A wait that polls does so within a pause, and its row says when it ends.
WaitInv ==
  /\ deadline \in [Waiter -> 0..MaxTime + Longest] /\ due \in [Waiter -> 0..MaxTime + Longest]
  /\ \A w \in Waiter: waiter[w] = "poll" => /\ now <= due[w] /\ due[w] <= now + Gap
                                            /\ until[w] \in {-1, deadline[w]}
  /\ \A w \in Waiter: waiter[w] = "new" => until[w] = -1
  /\ receipt => \E w \in Waiter: waiter[w] \in {"drop", "done", "killed"}

\* The grace is a second at most, and time does not pass its end.
EndInv ==
  /\ answered <=> notice # "none"
  /\ claimed \in 0..MaxTime /\ end \in claimed..claimed + Span
  /\ notice \in {"grace", "final"} => now <= end
  /\ notice = "skipped" => receipt

\* What became of a wait: an end that left no receipt, or a receipt.
Over(w) == receipt \/ waiter[w] = "killed" \/ w \in failed

\* A wait that is relied on polls before the grace ends, and does not poll again.
ReliedInv ==
  /\ notice = "grace" => \A w \in relied: \/ waiter[w] = "poll" /\ due[w] < end
                                          \/ waiter[w] = "record" /\ now < end
                                          \/ Over(w)
  /\ notice = "final" => \A w \in relied: Over(w)

IInv == TypeOK /\ WaitInv /\ EndInv /\ ReliedInv /\ NoNeedlessNotice
=============================================================================
