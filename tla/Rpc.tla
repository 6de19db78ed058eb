--------------------------------- MODULE Rpc ---------------------------------
(***************************************************************************)
(* One operation of a Codex app server over one connection:                *)
(* src/adapters/codex/rpc.rs, with the operations of codex/mod.rs (add and *)
(* delete a queued notice, look at a session) and the loop of reads of     *)
(* codex/discovery.rs.  Requests are numbered; the server may answer late, *)
(* in any order or never, and sends requests of its own with any number.   *)
(***************************************************************************)
EXTENDS Naturals, FiniteSets

CONSTANTS
  MaxListener,  \* how often the listener is replaced
  MaxCall,      \* requests of a scan, three at least
  MaxStray,     \* frames of the server's own that wait to be read
  None          \* no outcome, no connection, no bound listener

Op == {"add", "delete", "deleteCli", "probe", "scan"}

VARIABLES
  op,         \* what the connection is for
  bound,      \* the listener that the owner has selected
  receipt,    \* for a delete: how the notice was queued
  listener,   \* the instance at the path of the socket
  place,      \* where the operation is
  conn,       \* the instance it is connected to
  counter,    \* the last request
  attempted,  \* the request that changes the queue may have begun
  result,     \* what the operation has got
  outcome,    \* what the caller is told
  partial,    \* a request that is written in part
  wire,       \* requests that the server has not handled
  frames,     \* frames that the client has not read
  effect,     \* whether the queue was changed
  taken       \* for each request, the one whose reply was taken for its own

fixed == <<op, bound, receipt>>
client == <<place, conn, counter, attempted, result, outcome, partial, taken>>
vars == <<fixed, listener, client, wire, frames, effect>>

\* The request that changes the queue: initialize is 1 and thread/read is 2.
Change == CASE op \in {"add", "delete"} -> 3 [] op = "deleteCli" -> 2 [] OTHER -> 0

Last == CASE Change > 0 -> Change [] op = "probe" -> 2 [] OTHER -> MaxCall

Init ==
  /\ op \in Op
  /\ bound \in IF op \in {"add", "probe"} THEN {None, 0} ELSE {None}
  /\ receipt \in IF op \in {"delete", "deleteCli"}
                 THEN {"socket", "cli", "pending", "none"} ELSE {"none"}
  /\ listener \in 0..MaxListener
  /\ place = IF op \in {"delete", "deleteCli"} THEN "receipt" ELSE "check"
  /\ conn = None /\ counter = 0 /\ attempted = FALSE
  /\ result = "none" /\ outcome = None
  /\ partial = 0 /\ wire = {} /\ frames = {} /\ effect = "none"
  /\ taken = [n \in 1..MaxCall |-> 0]

-----------------------------------------------------------------------------
(* Opening.                                                                *)

\* Only a receipt of the same kind of address names a record of its queue.
Confirmed == receipt = IF op = "delete" THEN "socket" ELSE "cli"

Receipt ==
  /\ place = "receipt"
  /\ IF Confirmed THEN place' = "check" /\ UNCHANGED outcome
     ELSE place' = "done" /\ outcome' = IF receipt = "pending" THEN "pending" ELSE "skipped"
  /\ UNCHANGED <<fixed, listener, conn, counter, attempted, result, partial, taken,
                 wire, frames, effect>>

SameListener == bound = None \/ listener = bound

Check ==
  /\ place = "check" /\ SameListener
  /\ place' = "connect"
  /\ UNCHANGED <<fixed, listener, conn, counter, attempted, result, outcome, partial,
                 taken, wire, frames, effect>>

\* The instance that listens now, or a process of the client's own.
Connect ==
  /\ place = "connect"
  /\ place' = "recheck" /\ conn' = listener
  /\ UNCHANGED <<fixed, listener, counter, attempted, result, outcome, partial, taken,
                 wire, frames, effect>>

\* MUTANT of Recheck: the listener is not looked at again.
RecheckNever ==
  /\ place = "recheck"
  /\ place' = "call"
  /\ UNCHANGED <<fixed, listener, conn, counter, attempted, result, outcome, partial,
                 taken, wire, frames, effect>>

Recheck ==
  /\ place = "recheck" /\ SameListener
  /\ place' = "call"
  /\ UNCHANGED <<fixed, listener, conn, counter, attempted, result, outcome, partial,
                 taken, wire, frames, effect>>

\* No socket, another owner, a changed listener, no handshake, no process.
Refuse ==
  /\ place \in {"check", "connect", "recheck"}
  /\ place' = "close" /\ result' = "failed"
  /\ UNCHANGED <<fixed, listener, conn, counter, attempted, outcome, partial, taken,
                 wire, frames, effect>>

-----------------------------------------------------------------------------
(* Calls.                                                                  *)

\* MUTANT of Attempted: the attempt is not noted before the call.
AttemptedLater == attempted

Attempted == attempted \/ counter + 1 = Change

Send ==
  /\ place = "call"
  /\ place' = "recv" /\ counter' = counter + 1 /\ attempted' = Attempted
  /\ wire' = wire \cup {counter + 1}
  /\ UNCHANGED <<fixed, listener, conn, result, outcome, partial, taken, frames, effect>>

\* The deadline, an interrupt or the other end stops the writing.
SendFails ==
  /\ place = "call"
  /\ place' = "close" /\ counter' = counter + 1 /\ attempted' = Attempted
  /\ result' = "failed"
  /\ partial' \in {0, counter + 1}
  /\ UNCHANGED <<fixed, listener, conn, outcome, taken, wire, frames, effect>>

\* The mailbox wants no notice any more, the session is not the peer's, or
\* the notification "initialized" cannot be written.
Skip ==
  /\ place = "call" /\ counter > 0
  /\ place' = "close" /\ result' = "failed"
  /\ UNCHANGED <<fixed, listener, conn, counter, attempted, outcome, partial, taken,
                 wire, frames, effect>>

SameId(f) == f.id = counter

\* A scan counts a record that it cannot use and goes on, after the list.
Tolerates == op = "scan" /\ counter > 2

Answered(ok) ==
  IF (ok \/ Tolerates) /\ counter < Last THEN place' = "call" /\ UNCHANGED result
  ELSE place' = "close" /\ result' = IF ok \/ Tolerates THEN "ok" ELSE "failed"

\* A look at a selected listener counts if that one is still there.
Usable == op = "probe" /\ counter = Last => SameListener

\* A frame that is no JSON fails the call, one for another id is skipped.
Recv ==
  /\ place = "recv"
  /\ \E f \in frames:
       /\ frames' = frames \ {f}
       /\ CASE f.kind = "junk" -> Answered(FALSE) /\ UNCHANGED taken
            [] f.kind # "junk" /\ ~SameId(f) -> UNCHANGED <<place, result, taken>>
            [] f.kind \in {"error", "request"} /\ SameId(f) ->
                 Answered(FALSE) /\ UNCHANGED taken
            [] f.kind = "result" /\ SameId(f) ->
                 /\ taken' = [taken EXCEPT ![counter] = f.of]
                 /\ Answered(FALSE) \/ (Usable /\ Answered(TRUE))
  /\ UNCHANGED <<fixed, listener, conn, counter, attempted, outcome, partial, wire, effect>>

\* MUTANT of Expired: time is looked at only when nothing is there to read.
ExpiredIfQuiet == frames = {}

Expired == TRUE

\* Ten seconds for a call, or an interrupt.
Timeout ==
  /\ place = "recv" /\ Expired
  /\ place' = "close" /\ result' = "failed"
  /\ UNCHANGED <<fixed, listener, conn, counter, attempted, outcome, partial, taken,
                 wire, frames, effect>>

\* The other end closed, or a line is longer than a frame may be.
Broken ==
  /\ place = "recv"
  /\ place' = "close" /\ result' = "failed"
  /\ UNCHANGED <<fixed, listener, conn, counter, attempted, outcome, partial, taken,
                 wire, frames, effect>>

\* Closing flushes what was written in part.
Close ==
  /\ place = "close" /\ op # "deleteCli"
  /\ place' = "tell" /\ partial' = 0 /\ frames' = {}
  /\ wire' \in {wire, IF partial = 0 THEN wire ELSE wire \cup {partial}}
  /\ UNCHANGED <<fixed, listener, conn, counter, attempted, result, outcome, taken, effect>>

\* A server of the client's own sees the end of its input, ...
HangUp ==
  /\ place = "close" /\ op = "deleteCli"
  /\ place' = "grace" /\ partial' = 0 /\ frames' = {}
  /\ wire' \in {wire, IF partial = 0 THEN wire ELSE wire \cup {partial}}
  /\ UNCHANGED <<fixed, listener, conn, counter, attempted, result, outcome, taken, effect>>

\* ... and is ended after a second, if it can be.
EndServer ==
  /\ place = "grace"
  /\ place' = "tell" /\ wire' \in {wire, {}}
  /\ UNCHANGED <<fixed, listener, conn, counter, attempted, result, outcome, partial,
                 taken, frames, effect>>

Tell ==
  /\ place = "tell"
  /\ place' = "done"
  /\ outcome' = IF result = "ok" THEN "done" ELSE IF attempted THEN "unknown" ELSE "denied"
  /\ UNCHANGED <<fixed, listener, conn, counter, attempted, result, partial, taken,
                 wire, frames, effect>>

-----------------------------------------------------------------------------
(* The server and its owner.                                               *)

\* A result is sent after the queue was changed, an error whether or not.
Handle(n) ==
  /\ n \in wire /\ wire' = wire \ {n}
  /\ effect' \in IF n = Change THEN {effect, "ended"} ELSE {effect}
  /\ \/ UNCHANGED frames
     \/ /\ place \in {"call", "recv"}
        /\ \E k \in {"result", "error"}:
             /\ k = "result" /\ n = Change => effect' = "ended"
             /\ frames' = frames \cup {[id |-> n, of |-> n, kind |-> k]}
  /\ UNCHANGED <<fixed, listener, client>>

StrayFrames == {f \in frames: f.of = 0}

Stray ==
  /\ place \in {"call", "recv"} /\ Cardinality(StrayFrames) < MaxStray
  /\ \E f \in [id: 1..MaxCall, of: {0}, kind: {"request"}] \cup
             [id: {0}, of: {0}, kind: {"junk"}]: frames' = frames \cup {f}
  /\ UNCHANGED <<fixed, listener, client, wire, effect>>

\* A new instance has another inode or another time of change.
Replace ==
  /\ listener < MaxListener /\ listener' = listener + 1
  /\ UNCHANGED <<fixed, client, wire, frames, effect>>

-----------------------------------------------------------------------------
Client == \/ Receipt \/ Check \/ Connect \/ Recheck \/ Send \/ Recv \/ Close
          \/ HangUp \/ EndServer \/ Tell

Fails == Refuse \/ SendFails \/ Skip \/ Broken

Next == Client \/ Fails \/ Timeout \/ Stray \/ Replace \/ (\E n \in wire: Handle(n))

Spec == Init /\ [][Next]_vars

\* The command runs and the clock goes on; the server need not do anything.
FairSpec == Spec /\ WF_vars(Client \/ Refuse) /\ WF_vars(Timeout)

-----------------------------------------------------------------------------
(* Correctness.                                                            *)

Frames == [id: 1..MaxCall, of: 0..MaxCall, kind: {"result", "error", "request"}] \cup
          [id: {0}, of: {0}, kind: {"junk"}]

TypeOK ==
  /\ op \in Op /\ bound \in {None, 0}
  /\ receipt \in {"socket", "cli", "pending", "none"}
  /\ listener \in 0..MaxListener /\ conn \in {None} \cup 0..MaxListener
  /\ place \in {"receipt", "check", "connect", "recheck", "call", "recv", "close",
                "grace", "tell", "done"}
  /\ counter \in 0..MaxCall /\ attempted \in BOOLEAN
  /\ result \in {"none", "ok", "failed"}
  /\ outcome \in {None, "done", "denied", "unknown", "pending", "skipped"}
  /\ partial \in 0..MaxCall /\ wire \subseteq 1..MaxCall /\ frames \subseteq Frames
  /\ effect \in {"none", "ended"}
  /\ taken \in [1..MaxCall -> 0..MaxCall]

\* What a call returns is the server's reply to that very request, though a
\* scan goes on after a frame it cannot use and the late reply is still to come
\* (rpc.rs:209-231).
OwnReply == \A n \in 1..MaxCall: taken[n] \in {0, n}

\* No request is written to another listener than the selected one, whatever
\* replaced it around the connection (rpc.rs:108-117).
BoundToListener == bound # None /\ (wire # {} \/ counter > 0) => conn = bound

\* A delete is asked for only with a receipt of the same queue, though the peer
\* was registered anew with another kind of address (mod.rs:117-134).
OnlyConfirmedReceipts ==
  op \in {"delete", "deleteCli"} /\ counter > 0 =>
    receipt = IF op = "delete" THEN "socket" ELSE "cli"

\* The change of the queue and what is told of it, as OneAttempt has them.
Effect == [c \in {"change"} |-> effect]
Verdict == [c \in {"change"} |->
  IF Change = 0 THEN None
  ELSE IF outcome \in {"pending", "skipped"} THEN "denied" ELSE outcome]

Attempts == INSTANCE OneAttempt
              WITH Call <- {"change"}, effect <- Effect, verdict <- Verdict

\* Adding and deleting happen at most once and are told truthfully: a write
\* that timed out, and is completed as the connection closes, is unknown.
IsOneAttempt == Attempts!Spec

\* Every operation ends, though the server never answers or never stops
\* talking (rpc.rs:209-211, 344-353).
Ends == <>(place = "done")

-----------------------------------------------------------------------------
(* Why: the inductive invariant.                                           *)

Deletes == op \in {"delete", "deleteCli"}

\* Nothing is written before the listener was looked at again, nor without the
\* receipt that a delete needs.
PlaceInv ==
  /\ place \in {"receipt", "check", "connect", "recheck"} => counter = 0
  /\ place = "call" => counter < Last
  /\ place = "recv" => counter \in 1..Last
  /\ counter <= Last
  /\ outcome # None <=> place = "done"
  /\ Deletes /\ (place \in {"check", "connect", "recheck", "call"} \/ counter > 0) => Confirmed

\* The connection is to an instance that listened, and to the selected one when
\* it was still there after connecting.
ListenerInv ==
  /\ conn # None => conn <= listener
  /\ place \in {"recheck", "call", "recv"} => conn # None
  /\ bound # None /\ (place \in {"call", "recv"} \/ counter > 0) => conn = bound

\* What is written was numbered, and what was written of the change was noted.
WireInv ==
  /\ wire \subseteq 1..counter /\ partial <= counter
  /\ Change > 0 => (attempted <=> counter >= Change)
  /\ Change = 0 => ~attempted

\* A result is of the request it names, and of the change only when that was made.
FrameInv ==
  \A f \in frames: f.kind = "result" =>
    /\ f.of = f.id /\ f.id \in 1..counter
    /\ f.id = Change => effect = "ended"

OutcomeInv ==
  /\ effect = "ended" => attempted
  /\ result = "ok" /\ Change > 0 => effect = "ended"
  /\ outcome = "done" => result = "ok"
  /\ outcome \in {"denied", "pending", "skipped"} => ~attempted

IInv == TypeOK /\ PlaceInv /\ ListenerInv /\ WireInv /\ FrameInv /\ OwnReply /\ OutcomeInv
=============================================================================
