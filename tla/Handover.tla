------------------------------- MODULE Handover -------------------------------
(***************************************************************************)
(* One notice that is handed over without a protocol: to Claude Code as a  *)
(* frame on its socket (src/adapters/claude.rs), to Codex by its command   *)
(* codex queue (src/adapters/codex/mod.rs).  Both run a command of the     *)
(* client with os/capture.rs: claude agents only lists sessions, while     *)
(* codex queue is the hand-over itself, and its family of processes may    *)
(* outlive the attempt to end it.                                          *)
(***************************************************************************)
EXTENDS Naturals

CONSTANTS
  Store,       \* Codex state databases
  Owned,       \* the one of Store that a receiver has captured
  LateErrors,  \* how run_command may fail after the process was started
  None         \* no outcome, no output, not queued

\* The codes of a command that could not be started; any other is os_error.
StartErrors == {"file_not_found", "permission_denied"}

VARIABLES
  harness,  \* "claude" or "codex"
  bound,    \* the attempt is a receiver's, for the captured store
  current,  \* the database that the environment names
  place,    \* where notify is
  outcome,  \* what it returns
  family,   \* the processes of the command
  output,   \* what the command printed
  result,   \* what run_command returns
  queued,   \* the store whose queue has the notice
  frame     \* what of the frame is in the session's socket

run == <<family, output, result>>
vars == <<harness, bound, current, place, outcome, run, queued, frame>>

Init ==
  /\ harness \in {"claude", "codex"}
  /\ bound \in IF harness = "codex" THEN BOOLEAN ELSE {FALSE}
  /\ current \in Store
  /\ place = IF harness = "claude" THEN "spawn" ELSE "check"
  /\ outcome = None
  /\ family = "none" /\ output = "nothing" /\ result = None
  /\ queued = None /\ frame = "nothing"

Goto(next) == place' = next /\ UNCHANGED outcome

Return(what) == place' = "done" /\ outcome' = what

-----------------------------------------------------------------------------
(* run_command.                                                            *)

\* A command that is not there, may not be run, or cannot be run just now.
SpawnFails ==
  /\ place = "spawn"
  /\ \E e \in StartErrors \cup {"os_error"}: result' = [error |-> e, started |-> FALSE]
  /\ Goto("parse")
  /\ UNCHANGED <<harness, bound, current, family, output, queued, frame>>

Spawn ==
  /\ place = "spawn"
  /\ family' = "running"
  /\ Goto("capture")
  /\ UNCHANGED <<harness, bound, current, output, result, queued, frame>>

LateFailure == \E e \in LateErrors: result' = [error |-> e, started |-> TRUE]

\* The group cannot be owned, the leader not be watched, or the group not be
\* ended: the leader is killed, and its descendants may go on.
Abandon ==
  /\ place \in {"capture", "finish", "stop"}
  /\ LateFailure
  /\ Goto("parse")
  /\ UNCHANGED <<harness, bound, current, family, output, queued, frame>>

\* The process exited and its output is read to the end.
Captured ==
  /\ place = "capture" /\ family \in {"exited", "ended"}
  /\ Goto("finish")
  /\ UNCHANGED <<harness, bound, current, run, queued, frame>>

\* 30 s for the queue, 10 s for the list of sessions.
Expired == TRUE

\* The deadline passed, an interrupt came, or a pipe could not be read.
Stopped ==
  /\ place = "capture" /\ Expired
  /\ Goto("stop")
  /\ UNCHANGED <<harness, bound, current, run, queued, frame>>

\* The group is ended, newborns of the last round excepted (OwnedGroup).
Finish ==
  /\ place \in {"finish", "stop"}
  /\ family' \in {"ended", family}
  /\ IF place = "finish" THEN result' = [output |-> output]
     ELSE \E e \in {"interrupted", "command_timed_out", "os_error"}:
            result' = [error |-> e, started |-> TRUE]
  /\ Goto("parse")
  /\ UNCHANGED <<harness, bound, current, output, queued, frame>>

-----------------------------------------------------------------------------
(* notify_cli.                                                             *)

\* A receiver's attempt is for the store it has captured.
Allowed == bound => current = Owned

\* The saved session is the peer's, and the mailbox still wants the notice.
Check ==
  /\ place = "check"
  /\ \/ Return("not_submitted")
     \/ Allowed /\ Goto("spawn")
  /\ UNCHANGED <<harness, bound, current, run, queued, frame>>

\* MUTANT of Target: the command finds the database by itself.
TargetFound == current

\* The command is told the captured store; without one it finds the database.
Target == IF bound THEN Owned ELSE current

HasReceipt == "output" \in DOMAIN result /\ result.output = "receipt"

SaysQueued == HasReceipt

NotStarted == "error" \in DOMAIN result /\ result.error \in StartErrors

ParseQueue ==
  /\ place = "parse" /\ harness = "codex"
  /\ \/ SaysQueued /\ Return("submitted")
     \/ NotStarted /\ Return("not_submitted")
     \/ ~SaysQueued /\ ~NotStarted /\ Return("unknown")
     \/ HasReceipt /\ Return("unknown")     \* of another thread, or no id
  /\ UNCHANGED <<harness, bound, current, run, queued, frame>>

-----------------------------------------------------------------------------
(* claude.rs: notify.                                                      *)

\* The one live session is listed, and its metadata names an owned socket.
ParseAgents ==
  /\ place = "parse" /\ harness = "claude"
  /\ \/ Return("not_submitted")
     \/ "output" \in DOMAIN result /\ Goto("connect")
  /\ UNCHANGED <<harness, bound, current, run, queued, frame>>

\* Connecting, and the last look at the mailbox.
Connect ==
  /\ place = "connect"
  /\ Return("not_submitted") \/ Goto("write")
  /\ UNCHANGED <<harness, bound, current, run, queued, frame>>

Unwritten == "unknown"

Write ==
  /\ place = "write"
  /\ frame' \in {"nothing", "part", "whole"}
  /\ Goto("written")
  /\ UNCHANGED <<harness, bound, current, run, queued>>

Written ==
  /\ place = "written"
  /\ Return(IF frame = "whole" THEN "submitted" ELSE Unwritten)
  /\ UNCHANGED <<harness, bound, current, run, queued, frame>>

-----------------------------------------------------------------------------
(* Around it.                                                              *)

\* codex queue: any process of the family can do it, as long as one is left.
Queue ==
  /\ harness = "codex" /\ family \in {"running", "exited"} /\ queued = None
  /\ queued' = Target
  /\ UNCHANGED <<harness, bound, current, place, outcome, run, frame>>

\* The receipt is printed after the notice is queued.
PrintLine ==
  /\ family \in {"running", "exited"} /\ output = "nothing" /\ place = "capture"
  /\ \E what \in {"receipt", "other"}:
       /\ what = "receipt" => queued # None
       /\ output' = what
  /\ UNCHANGED <<harness, bound, current, place, outcome, family, result, queued, frame>>

\* The leader exits, alone or as the last of the family.
LeaderExits ==
  /\ family = "running"
  /\ family' \in {"exited", "ended"}
  /\ UNCHANGED <<harness, bound, current, place, outcome, output, result, queued, frame>>

\* The environment's database becomes another one.
StoreMoves ==
  /\ current' \in Store
  /\ UNCHANGED <<harness, bound, place, outcome, run, queued, frame>>

-----------------------------------------------------------------------------
Notify == \/ SpawnFails \/ Spawn \/ Captured \/ Stopped \/ Finish
          \/ Check \/ ParseQueue \/ ParseAgents \/ Connect \/ Write
          \/ Written

Next == Notify \/ Abandon \/ Queue \/ PrintLine \/ LeaderExits \/ StoreMoves

Spec == Init /\ [][Next]_vars

\* The command runs; the processes it started need not do anything, and no
\* failure comes to its help.
FairSpec == Spec /\ WF_vars(Notify)

-----------------------------------------------------------------------------
(* Correctness.                                                            *)

Errors == StartErrors \cup LateErrors \cup {"os_error", "interrupted", "command_timed_out"}

TypeOK ==
  /\ harness \in {"claude", "codex"} /\ bound \in BOOLEAN /\ current \in Store
  /\ place \in {"check", "spawn", "capture", "finish", "stop", "parse", "connect",
                "write", "written", "done"}
  /\ outcome \in {None, "submitted", "not_submitted", "unknown"}
  /\ outcome # None <=> place = "done"
  /\ family \in {"none", "running", "exited", "ended"}
  /\ output \in {"nothing", "receipt", "other"}
  /\ result \in {None} \cup [output: {"nothing", "receipt", "other"}]
                       \cup [error: Errors, started: BOOLEAN]
  /\ queued \in Store \cup {None}
  /\ frame \in {"nothing", "part", "whole"}

\* A receiver's notice is queued in the store whose session it holds, and in no
\* other, though the environment's database moves (codex/mod.rs:75-101).
OnlyInOwnedStore == bound /\ queued # None => queued = Owned

\* "Spawn failures precede submission; anything after the process starts is
\* uncertain" (codex/mod.rs:296): what is told as not submitted is not queued.
NotSubmittedIsNotQueued == outcome = "not_submitted" => queued = None

\* The notice and what is told of it, as OneAttempt has them.
Effect == [n \in {"notice"} |->
  IF queued # None \/ frame = "whole" THEN "ended"
  ELSE IF frame = "part" THEN "begun" ELSE "none"]
Verdict == [n \in {"notice"} |->
  CASE outcome = "submitted" -> "done"
    [] outcome = "not_submitted" -> "denied"
    [] outcome = "unknown" -> "unknown"
    [] OTHER -> None]

Attempts == INSTANCE OneAttempt
              WITH Call <- {"notice"}, effect <- Effect, verdict <- Verdict

\* The notice is handed over once and told truthfully, as long as nothing after
\* the start fails with the code of a command that could not be started.
IsOneAttempt == Attempts!Spec

\* notify returns, though the command never ends (capture.rs:109-117).
Returns == <>(place = "done")

-----------------------------------------------------------------------------
(* Why: the inductive invariant.                                           *)

\* What each place of notify may rely on: which harness gets there, and that no
\* process is there before the command is started.
PlaceInv ==
  /\ bound => harness = "codex"
  /\ place = "check" => harness = "codex"
  /\ place \in {"connect", "write", "written"} => harness = "claude"
  /\ place \in {"check", "spawn"} => family = "none"

\* What run_command returns: a failure to start, of which no process is left,
\* one after the start, or all of the output.
ResultInv ==
  place = "parse" =>
    \/ /\ result \in [error: StartErrors \cup {"os_error"}, started: {FALSE}]
       /\ family = "none"
    \/ result \in [error: LateErrors \cup {"os_error", "interrupted", "command_timed_out"},
                  started: {TRUE}]
    \/ result = [output |-> output]

\* The notice is queued by the family of codex queue, the frame is of Claude Code.
EffectInv ==
  /\ queued # None => harness = "codex" /\ family # "none"
  /\ bound /\ queued # None => queued = Owned
  /\ output = "receipt" => queued # None
  /\ frame # "nothing" => harness = "claude" /\ place \in {"written", "done"}
  /\ outcome = "submitted" => queued # None \/ frame = "whole"

IInv == TypeOK /\ PlaceInv /\ ResultInv /\ EffectInv

\* What is told as not submitted is not on its way, if the codes tell a failure to
\* start from a later one.
DeniedInv ==
  outcome = "not_submitted" =>
    queued = None /\ frame = "nothing" /\ (harness = "claude" \/ family = "none")
=============================================================================
