-------------------------------- MODULE Prompt --------------------------------
(***************************************************************************)
(* One notice to an OpenCode session (src/adapters/opencode.rs): three     *)
(* GETs, the last look at the mailbox, and one POST that is offered to the *)
(* loopback addresses of the server's name, one after another, as long as  *)
(* none of them can have received it.  Two addresses may be two servers,   *)
(* and what was handed to a connection can arrive after the client gave up.*)
(***************************************************************************)
EXTENDS Naturals

CONSTANTS
  Address,  \* loopback addresses of the server's name
  None      \* no address, no outcome, no answer

VARIABLES
  place,        \* where notify is
  rest,         \* addresses that were not tried
  at,           \* the address that is being tried
  asked,        \* some of the prompt's body was handed over
  interrupted,  \* the command was told to stop
  early,        \* ... before any of the body was handed over
  outcome,      \* what notify returns
  wire,         \* what of the request is on the way to each server
  decided,      \* what each server made of it
  answer        \* the answer on its way back

client == <<place, rest, at, asked, outcome>>
signals == <<interrupted, early>>
servers == <<wire, decided, answer>>
vars == <<client, signals, servers>>

ASSUME NoneAssumption ==
  None \notin Address \cup {"submitted", "not_submitted", "unknown", "denied", "done"}

Init ==
  /\ place = "health" /\ rest = {} /\ at = None /\ asked = FALSE
  /\ interrupted = FALSE /\ early = FALSE
  /\ outcome = None
  /\ wire = [a \in Address |-> "nothing"]
  /\ decided = [a \in Address |-> "nothing"]
  /\ answer = [a \in Address |-> "nothing"]

-----------------------------------------------------------------------------
(* notify: preflight.                                                      *)

Goto(next) == place' = next /\ UNCHANGED outcome

Return(result) == place' = "done" /\ outcome' = result

\* A GET that fails in any way, or says that the session is not there, ends it.
Ask(step, next) ==
  /\ place = step
  /\ Goto(next) \/ Return("not_submitted")
  /\ UNCHANGED <<rest, at, asked, signals, servers>>

Health == Ask("health", "session")
SessionInfo == Ask("session", "status")
StatusMap == Ask("status", "skip")
Skip == Ask("skip", "check")

Check ==
  /\ place = "check"
  /\ IF interrupted THEN Return("not_submitted") ELSE Goto("resolve")
  /\ UNCHANGED <<rest, at, asked, signals, servers>>

\* The credentials are read, and the name is resolved.
Resolve ==
  /\ place = "resolve"
  /\ \/ Return("not_submitted") /\ UNCHANGED rest
     \/ Goto("next") /\ rest' \in SUBSET Address
  /\ UNCHANGED <<at, asked, signals, servers>>

-----------------------------------------------------------------------------
(* request and exchange.                                                   *)

Untried(a) == rest \ {a}

NextAddress ==
  /\ place = "next"
  /\ \/ /\ rest = {} /\ Return("not_submitted") /\ UNCHANGED <<rest, at>>
     \/ \E a \in rest: at' = a /\ rest' = Untried(a) /\ Goto("connect")
  /\ UNCHANGED <<asked, signals, servers>>

\* MUTANT of TriesNext: an address that cannot be reached is skipped at any time.
TriesNextAnyway(class) == class = "unreachable"

TriesNext(class) == ~asked /\ class = "unreachable"

Uncertain(class) == asked

\* A failure after the handshake can be of any class, that of an address out of
\* reach included.
Classes == {"unreachable", "timed_out", "other"}

Failed(class) ==
  IF TriesNext(class) THEN Goto("next")
  ELSE Return(IF Uncertain(class) THEN "unknown" ELSE "not_submitted")

\* A timeout, a lost connection, an interrupt, a broken answer.
Fail ==
  /\ place \in {"connect", "head", "body", "sending", "answer"}
  /\ \E class \in Classes: Failed(class)
  /\ UNCHANGED <<rest, at, asked, signals, servers>>

Connect ==
  /\ place = "connect"
  /\ Goto("head")
  /\ UNCHANGED <<rest, at, asked, signals, servers>>

SendHead ==
  /\ place = "head"
  /\ wire' = [wire EXCEPT ![at] = "head"]
  /\ Goto("body")
  /\ UNCHANGED <<rest, at, asked, signals, decided, answer>>

MayHandOver == ~interrupted

\* The first read of the body.
HandOver ==
  /\ place = "body"
  /\ MayHandOver
  /\ asked' = TRUE
  /\ wire' = [wire EXCEPT ![at] = "part"]
  /\ Goto("sending")
  /\ UNCHANGED <<rest, at, signals, decided, answer>>

SendBody ==
  /\ place = "sending"
  /\ wire' = [wire EXCEPT ![at] = "whole"]
  /\ Goto("answer")
  /\ UNCHANGED <<rest, at, asked, signals, decided, answer>>

\* MUTANT of OutcomeOf: an answer of the server is an answer of the session.
OutcomeOfAny(status) == IF status = "204" THEN "submitted" ELSE "not_submitted"

OutcomeOf(status) ==
  CASE status = "204" -> "submitted"
    [] status = "4xx" -> "not_submitted"
    [] OTHER -> "unknown"

ReadAnswer ==
  /\ place = "answer" /\ answer[at] # "nothing"
  /\ Return(OutcomeOf(answer[at]))
  /\ UNCHANGED <<rest, at, asked, signals, servers>>

-----------------------------------------------------------------------------
(* Around it: the signal and the servers.                                  *)

Interrupt ==
  /\ ~interrupted
  /\ interrupted' = TRUE /\ early' = ~asked
  /\ UNCHANGED <<client, servers>>

\* Only a whole prompt can be accepted; a server may refuse before.
Decide(a) ==
  /\ wire[a] # "nothing" /\ decided[a] = "nothing"
  /\ \E what \in {"accepted", "refused"}:
       /\ what = "accepted" => wire[a] = "whole"
       /\ decided' = [decided EXCEPT ![a] = what]
  /\ UNCHANGED <<client, signals, wire, answer>>

\* 204 is of a prompt that was accepted and 4xx of one that was refused; any
\* other status says neither.
Respond(a) ==
  /\ decided[a] # "nothing" /\ answer[a] = "nothing"
  /\ \E status \in {"204", "4xx", "other"}:
       /\ status = "204" => decided[a] = "accepted"
       /\ status = "4xx" => decided[a] = "refused"
       /\ answer' = [answer EXCEPT ![a] = status]
  /\ UNCHANGED <<client, signals, wire, decided>>

-----------------------------------------------------------------------------
Notify == \/ Health \/ SessionInfo \/ StatusMap \/ Skip \/ Check \/ Resolve
          \/ NextAddress \/ Connect \/ SendHead \/ HandOver \/ SendBody \/ ReadAnswer \/ Fail

Next == Notify \/ Interrupt \/ \E a \in Address: Decide(a) \/ Respond(a)

Spec == Init /\ [][Next]_vars

\* The command runs; a server need not answer.
FairSpec == Spec /\ WF_vars(Notify)

-----------------------------------------------------------------------------
(* Correctness.                                                            *)

TypeOK ==
  /\ place \in {"health", "session", "status", "skip", "check", "resolve", "next",
                "connect", "head", "body", "sending", "answer", "done"}
  /\ rest \subseteq Address /\ at \in Address \cup {None}
  /\ asked \in BOOLEAN /\ interrupted \in BOOLEAN /\ early \in BOOLEAN
  /\ outcome \in {None, "submitted", "not_submitted", "unknown"}
  /\ wire \in [Address -> {"nothing", "head", "part", "whole"}]
  /\ decided \in [Address -> {"nothing", "accepted", "refused"}]
  /\ answer \in [Address -> {"nothing", "204", "4xx", "other"}]

\* However many addresses were offered the prompt, one server at most accepts it
\* (opencode.rs:413-414: "the next one is no
\* second attempt").
OneServer ==
  \A a, b \in Address: decided[a] = "accepted" /\ decided[b] = "accepted" => a = b

\* An interrupt that came before any of the body was handed over keeps the
\* prompt from every server, then and later (opencode.rs:194-202).
InterruptKeepsPrompt == early => \A a \in Address: decided[a] # "accepted"

\* The prompt and what is told of it, as OneAttempt has them.
Effect == [n \in {"prompt"} |->
  IF \E a \in Address: decided[a] = "accepted" THEN "ended" ELSE "none"]
Verdict == [n \in {"prompt"} |->
  CASE outcome = "submitted" -> "done"
    [] outcome = "not_submitted" -> "denied"
    [] outcome = "unknown" -> "unknown"
    [] OTHER -> None]

Attempts == INSTANCE OneAttempt
              WITH Call <- {"prompt"}, effect <- Effect, verdict <- Verdict

\* The notice is sent once and told truthfully: not_submitted only of a prompt
\* that no server accepts, now or later (opencode.rs:8-10, 35).
IsOneAttempt == Attempts!Spec

\* notify returns, though no server answers.
Returns == <>(place = "done")

-----------------------------------------------------------------------------
(* Why: the inductive invariant.                                           *)

\* Nothing was handed over: no server has a body.
Unsent == \A a \in Address: wire[a] \in {"nothing", "head"} /\ decided[a] # "accepted"

\* What each place of notify may rely on.
PlaceInv ==
  /\ place \in {"connect", "head", "body", "sending", "answer"} => at \in Address
  /\ place \in {"sending", "answer"} => asked
  /\ place \notin {"sending", "answer", "done"} => ~asked
  /\ outcome # None <=> place = "done"

\* What was handed over, was to one address.
BodyInv ==
  /\ ~asked => Unsent
  /\ asked => at \in Address
  /\ \A a \in Address:
       /\ a # at => wire[a] \in {"nothing", "head"}
       /\ decided[a] = "accepted" => wire[a] = "whole"
       /\ answer[a] = "204" => decided[a] = "accepted"
       /\ answer[a] = "4xx" => decided[a] = "refused"

OutcomeInv ==
  /\ outcome = "submitted" => asked /\ decided[at] = "accepted"
  /\ outcome = "not_submitted" => ~asked \/ decided[at] = "refused"

IInv == TypeOK /\ PlaceInv /\ BodyInv /\ OutcomeInv /\ (early => interrupted /\ ~asked)
=============================================================================
