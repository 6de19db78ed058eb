------------------------------- MODULE McpCall -------------------------------
(***************************************************************************)
(* Tool calls of an MCP server that forwards them to a remote mailbox      *)
(* (src/mcp.rs).  The harness's server runs run_remote_checked for each    *)
(* call: it starts a connector, and over it speaks to another htalk mcp,   *)
(* the endpoint, which runs the command with run_child as a CLI process.   *)
(* Requests are cancelled, servers terminated and left by their clients,   *)
(* deadlines pass and connections end at every step of this chain, while   *)
(* what is in a pipe can still be read.                                    *)
(***************************************************************************)
EXTENDS Naturals

CONSTANTS
  Call,  \* tool calls
  None   \* no answer

VARIABLES
  server,     \* the harness's server
  call,       \* where each call is in run_remote_checked
  cancelled,  \* the request was cancelled
  attempted,  \* the flag set before the request is written
  result,     \* the endpoint's answer, while the call may still lose it
  answer,     \* the answer of the tool
  link,       \* the connection through the connector
  wire,       \* the request
  expected,   \* the endpoint is the one that the catalog published
  endpoint,   \* the endpoint's server
  child,      \* where the endpoint is in run_child
  output,     \* what it captured
  cli,        \* the CLI process
  runs,       \* how many CLI processes ran for the call
  saved,      \* the command wrote to the mailbox
  reply       \* the endpoint's answer on its way

here == <<server, call, cancelled, attempted, result, answer>>
there == <<endpoint, child, output, cli, runs, saved, reply>>
vars == <<here, link, wire, expected, there>>

\* Answers that say that the command did not run.
Denials == {"refused", "cancelled", "not_started", "unowned", "unsent", "denied"}
Replies == {"result", "denied", "error"}
Answers == Denials \cup Replies \cup {"unknown", "uncertain"}

ASSUME NoneAssumption == None \notin Answers

Init ==
  /\ server = "serving"
  /\ call = [c \in Call |-> "idle"]
  /\ cancelled = [c \in Call |-> FALSE]
  /\ attempted = [c \in Call |-> FALSE]
  /\ result = [c \in Call |-> None]
  /\ answer = [c \in Call |-> None]
  /\ link = [c \in Call |-> "none"]
  /\ wire = [c \in Call |-> "none"]
  /\ expected \in [Call -> BOOLEAN]
  /\ endpoint = [c \in Call |-> "none"]
  /\ child = [c \in Call |-> "none"]
  /\ output = [c \in Call |-> "none"]
  /\ cli = [c \in Call |-> "none"]
  /\ runs = [c \in Call |-> 0]
  /\ saved = [c \in Call |-> FALSE]
  /\ reply = [c \in Call |-> None]

-----------------------------------------------------------------------------
(* The harness's server: one call.                                         *)

Goto(c, next) == call' = [call EXCEPT ![c] = next]

Answer(c, text) == /\ Goto(c, "answered")
                   /\ answer' = [answer EXCEPT ![c] = text]

\* The tool parses the command and refuses what is out of its scope.
Ask(c) ==
  /\ server = "serving" /\ call[c] = "idle"
  /\ \/ Answer(c, "refused")
     \/ Goto(c, "begin") /\ UNCHANGED answer
  /\ UNCHANGED <<server, cancelled, attempted, result, link, wire, expected, there>>

Cancel(c) ==
  /\ call[c] \notin {"idle", "answered"} /\ ~cancelled[c]
  /\ cancelled' = [cancelled EXCEPT ![c] = TRUE]
  /\ UNCHANGED <<server, call, attempted, result, answer, link, wire, expected, there>>

Stopped(c) == cancelled[c] \/ server # "serving"

Begin(c) ==
  /\ call[c] = "begin"
  /\ \/ /\ Stopped(c)
        /\ Answer(c, "cancelled") /\ UNCHANGED link
     \/ /\ ~Stopped(c)
        /\ \/ \E denial \in {"refused", "not_started", "unowned"}: Answer(c, denial)
              /\ UNCHANGED link
           \/ /\ Goto(c, "handshake") /\ link' = [link EXCEPT ![c] = "open"]
              /\ UNCHANGED answer
  /\ UNCHANGED <<server, cancelled, attempted, result, wire, expected, there>>

Expected(c) == endpoint[c] = "serving" /\ expected[c]

\* The handshake is done and the endpoint is the expected one.
Attempt(c) ==
  /\ call[c] = "handshake" /\ link[c] = "open"
  /\ Expected(c)
  /\ attempted' = [attempted EXCEPT ![c] = TRUE]
  /\ wire' = [wire EXCEPT ![c] = "queued"]
  /\ Goto(c, "calling")
  /\ UNCHANGED <<server, cancelled, result, answer, link, expected, there>>

Transmit(c) ==
  /\ call[c] = "calling" /\ link[c] = "open" /\ wire[c] = "queued"
  /\ wire' = [wire EXCEPT ![c] = "sent"]
  /\ UNCHANGED <<here, link, expected, there>>

TakeReply(c) ==
  /\ call[c] = "calling" /\ link[c] = "open" /\ reply[c] # None
  /\ result' = [result EXCEPT ![c] = reply[c]]
  /\ Goto(c, "closing")
  /\ UNCHANGED <<server, cancelled, attempted, answer, link, wire, expected, there>>

Closed(c) == [link EXCEPT ![c] = "shut"]

\* The client closed the connection after the reply.
Complete(c) ==
  /\ call[c] = "closing"
  /\ Goto(c, "cleanup")
  /\ link' = Closed(c)
  /\ UNCHANGED <<server, cancelled, attempted, result, answer, wire, expected, there>>

\* MUTANT of CutShort: the call has no deadline.
CutShortOnRequest(c) == call[c] \in {"handshake", "calling", "closing"} /\ Stopped(c)

\* Any time: the deadline passes or the exchange fails.  A cancellation and a
\* shutdown do it too; a reply that was taken is lost with the exchange.
CutShort(c) == call[c] \in {"handshake", "calling", "closing"}

Abandon(c) ==
  /\ CutShort(c)
  /\ result' = [result EXCEPT ![c] = None]
  /\ Goto(c, "cleanup")
  /\ link' = Closed(c)
  /\ UNCHANGED <<server, cancelled, attempted, answer, wire, expected, there>>

\* MUTANT of Final: whatever failed was not sent.
FinalUnsent(c) == IF result[c] # None THEN result[c] ELSE "unsent"

Final(c) ==
  IF result[c] # None THEN result[c]
  ELSE IF attempted[c] THEN "unknown" ELSE "unsent"

\* The connector's group is ended and the connector reaped, or that failed.
Cleanup(c) ==
  /\ call[c] = "cleanup"
  /\ \/ Answer(c, Final(c))
     \/ Answer(c, "uncertain")
  /\ UNCHANGED <<server, cancelled, attempted, result, link, wire, expected, there>>

\* MUTANT of Drained: the server does not wait for its calls.
DrainedAtOnce(states) == TRUE

Drained(states) == states \subseteq {"idle", "none", "answered", "done"}

\* The client left or SIGTERM came; SIGINT is ignored.
Shutdown ==
  /\ server = "serving"
  /\ server' = "closing"
  /\ UNCHANGED <<call, cancelled, attempted, result, answer, link, wire, expected, there>>

Exit ==
  /\ server = "closing"
  /\ Drained({call[c]: c \in Call})
  /\ server' = "ended"
  /\ UNCHANGED <<call, cancelled, attempted, result, answer, link, wire, expected, there>>

-----------------------------------------------------------------------------
(* The endpoint: a server of its own for every connection.                 *)

Turn(c, next) == child' = [child EXCEPT ![c] = next]

Respond(c, text) ==
  /\ Turn(c, "done")
  /\ reply' = [reply EXCEPT ![c] = IF endpoint[c] = "serving" THEN text ELSE @]

EndpointStarts(c) ==
  /\ endpoint[c] = "none" /\ link[c] = "open"
  /\ endpoint' = [endpoint EXCEPT ![c] = "serving"]
  /\ UNCHANGED <<here, link, wire, expected, child, output, cli, runs, saved, reply>>

Consumed(c) == [wire EXCEPT ![c] = "read"]

\* What was sent can be read after the other side has closed.
Receive(c) ==
  /\ endpoint[c] = "serving" /\ wire[c] = "sent" /\ child[c] \in {"none", "done"}
  /\ wire' = Consumed(c)
  /\ \/ Respond(c, "denied")       \* out of the tool's scope
     \/ Turn(c, "begin") /\ UNCHANGED reply
  /\ UNCHANGED <<here, link, expected, endpoint, output, cli, runs, saved>>

EndpointCloses(c) ==
  /\ endpoint[c] = "serving" /\ link[c] = "shut"
  /\ endpoint' = [endpoint EXCEPT ![c] = "closing"]
  /\ UNCHANGED <<here, link, wire, expected, child, output, cli, runs, saved, reply>>

\* The cleanup of a connector on the same machine ends the endpoint, in the
\* end with SIGKILL; its CLI process is in a group of its own.
EndpointKilled(c) ==
  /\ call[c] = "cleanup" /\ endpoint[c] \in {"serving", "closing"}
  /\ endpoint' = [endpoint EXCEPT ![c] = "killed"]
  /\ UNCHANGED <<here, link, wire, expected, child, output, cli, runs, saved, reply>>

EndpointEnds(c) ==
  /\ endpoint[c] = "closing"
  /\ Drained({child[c]})
  /\ endpoint' = [endpoint EXCEPT ![c] = "ended"]
  /\ UNCHANGED <<here, link, wire, expected, child, output, cli, runs, saved, reply>>

Up(c) == endpoint[c] \in {"serving", "closing"}

ChildBegins(c) ==
  /\ Up(c) /\ child[c] = "begin"
  /\ \/ /\ endpoint[c] = "closing"
        /\ Respond(c, "denied") /\ UNCHANGED <<cli, runs>>
     \/ /\ endpoint[c] = "serving"
        /\ \/ Respond(c, "denied") /\ UNCHANGED <<cli, runs>>    \* not spawned
           \/ /\ \/ Turn(c, "capture") /\ UNCHANGED reply
                    /\ cli' = [cli EXCEPT ![c] = "running"]
                 \/ Respond(c, "error")                           \* not owned
                    /\ cli' = [cli EXCEPT ![c] = "killed"]
              /\ runs' = [runs EXCEPT ![c] = @ + 1]
  /\ UNCHANGED <<here, link, wire, expected, endpoint, output, saved>>

\* The output is complete, or a stream of it is too long or unreadable.
ChildCaptures(c) ==
  /\ Up(c) /\ child[c] \in {"capture", "grace"}
  /\ \/ /\ cli[c] = "exited" /\ output' = [output EXCEPT ![c] = "complete"]
     \/ output' = [output EXCEPT ![c] = "failed"]
  /\ Turn(c, "cleanup")
  /\ UNCHANGED <<here, link, wire, expected, endpoint, cli, runs, saved, reply>>

\* The request is cancelled, the server stops or the deadline passes.
ChildInterrupts(c) ==
  /\ Up(c) /\ child[c] = "capture"
  /\ Turn(c, "grace")
  /\ cli' = [cli EXCEPT ![c] = IF @ = "running" THEN "interrupted" ELSE @]
  /\ UNCHANGED <<here, link, wire, expected, endpoint, output, runs, saved, reply>>

\* Output that is complete holds the CLI's own account, unless it is no JSON.
Said(c) == IF output[c] = "complete" THEN {"result", "error"} ELSE {"error"}

\* The group is ended and the CLI reaped; if that fails the answer says so.
ChildCleansUp(c) ==
  /\ Up(c) /\ child[c] = "cleanup"
  /\ \E text \in Said(c) \cup {"error"}: Respond(c, text)
  /\ cli' = [cli EXCEPT ![c] = IF @ \in {"running", "interrupted"} THEN "killed" ELSE @]
  /\ UNCHANGED <<here, link, wire, expected, endpoint, output, runs, saved>>

Save(c) ==
  /\ cli[c] \in {"running", "interrupted"} /\ ~saved[c]
  /\ saved' = [saved EXCEPT ![c] = TRUE]
  /\ UNCHANGED <<here, link, wire, expected, endpoint, child, output, cli, runs, reply>>

CliExits(c) ==
  /\ cli[c] \in {"running", "interrupted"}
  /\ cli' = [cli EXCEPT ![c] = "exited"]
  /\ UNCHANGED <<here, link, wire, expected, endpoint, child, output, runs, saved, reply>>

-----------------------------------------------------------------------------
Client(c) == \/ Begin(c) \/ Attempt(c) \/ Transmit(c) \/ TakeReply(c)
             \/ Complete(c) \/ Abandon(c) \/ Cleanup(c)

Child(c) == ChildBegins(c) \/ ChildCaptures(c) \/ ChildInterrupts(c) \/ ChildCleansUp(c)

Endpoint(c) == Receive(c) \/ EndpointCloses(c) \/ EndpointEnds(c) \/ Child(c)

Next ==
  \/ Shutdown \/ Exit
  \/ \E c \in Call: \/ Ask(c) \/ Cancel(c) \/ Client(c)
                    \/ EndpointStarts(c) \/ EndpointKilled(c) \/ Endpoint(c)
                    \/ Save(c) \/ CliExits(c)

Spec == Init /\ [][Next]_vars

\* Both servers run; nobody has to answer, and no process has to exit.
FairSpec ==
  /\ Spec
  /\ \A c \in Call: WF_vars(Client(c)) /\ WF_vars(Endpoint(c))
                    /\ WF_vars(EndpointCloses(c))

-----------------------------------------------------------------------------
(* Correctness.                                                            *)

TypeOK ==
  /\ server \in {"serving", "closing", "ended"}
  /\ call \in [Call -> {"idle", "begin", "handshake", "calling", "closing", "cleanup",
                        "answered"}]
  /\ cancelled \in [Call -> BOOLEAN] /\ attempted \in [Call -> BOOLEAN]
  /\ result \in [Call -> Replies \cup {None}]
  /\ answer \in [Call -> Answers \cup {None}]
  /\ link \in [Call -> {"none", "open", "shut"}]
  /\ wire \in [Call -> {"none", "queued", "sent", "read"}]
  /\ expected \in [Call -> BOOLEAN]
  /\ endpoint \in [Call -> {"none", "serving", "closing", "ended", "killed"}]
  /\ child \in [Call -> {"none", "begin", "capture", "grace", "cleanup", "done"}]
  /\ output \in [Call -> {"none", "complete", "failed"}]
  /\ cli \in [Call -> {"none", "running", "interrupted", "exited", "killed"}]
  /\ runs \in [Call -> 0..1]
  /\ saved \in [Call -> BOOLEAN]
  /\ reply \in [Call -> Replies \cup {None}]

\* An answer that says that no command was sent or run is true, and stays
\* true whatever is still in the pipes (mcp.rs:400-404, 425).
NoFalseDenial ==
  \A c \in Call: answer[c] \in Denials =>
                   runs[c] = 0 /\ ~saved[c] /\ child[c] \in {"none", "done"}

\* A result is the account of a CLI process that ended by itself, so that it
\* does not change after it was told (mcp.rs:441-496).
ResultIsFinal ==
  \A c \in Call: answer[c] = "result" => cli[c] = "exited" /\ child[c] = "done"

\* A call runs at most one command, and none at an endpoint that is not the
\* expected one (mcp.rs:354-371; "sent once", mcp.rs:71).
RunsOnceWhereExpected ==
  \A c \in Call: runs[c] > 0 => runs[c] = 1 /\ expected[c] /\ attempted[c]

\* A server that ended in order leaves nothing behind: no call of it is open and
\* no CLI process of it runs (mcp.rs:532-534).
NothingOutlivesItsServer ==
  /\ server = "ended" => \A c \in Call: call[c] \in {"idle", "answered"}
  /\ \A c \in Call: endpoint[c] = "ended" => cli[c] \notin {"running", "interrupted"}

\* The commands and what is told of them, as OneAttempt has them.
Effect == [c \in Call |-> IF runs[c] = 0 THEN "none"
                         ELSE IF cli[c] = "exited" THEN "ended" ELSE "begun"]
Verdict == [c \in Call |-> IF answer[c] = None THEN None
                          ELSE IF answer[c] \in Denials THEN "denied"
                          ELSE IF answer[c] = "result" THEN "done" ELSE "unknown"]

Attempts == INSTANCE OneAttempt WITH effect <- Effect, verdict <- Verdict

\* The remote tool call is a call sent once, told as OneAttempt says.
IsOneAttempt == Attempts!Spec

\* Every call is answered, whatever the connector and the endpoint do.
EveryCallAnswered == \A c \in Call: call[c] = "begin" ~> call[c] = "answered"

\* When the call is over, so is its endpoint, in the end.
EndpointLeaves ==
  \A c \in Call: (call[c] = "answered" /\ endpoint[c] \in {"serving", "closing"})
                   ~> endpoint[c] \in {"ended", "killed"}

\* Neither the caller nor the endpoint is left hanging.
Liveness == EveryCallAnswered /\ EndpointLeaves

-----------------------------------------------------------------------------
(* Why: the inductive invariant, call by call.                             *)

ClientInv(c) ==
  /\ answer[c] # None <=> call[c] = "answered"
  /\ call[c] \in {"idle", "begin"} => link[c] = "none"
  /\ call[c] \in {"idle", "begin", "handshake"} => ~attempted[c]
  /\ link[c] = "none" => endpoint[c] = "none" /\ ~attempted[c]
  /\ attempted[c] => expected[c]
  /\ wire[c] # "none" => attempted[c]
  /\ result[c] # None => result[c] = reply[c]
  /\ answer[c] \in {"refused", "cancelled", "not_started", "unowned"} => link[c] = "none"
  /\ answer[c] = "unsent" => ~attempted[c]
  /\ answer[c] \in Replies => answer[c] = reply[c]

EndpointInv(c) ==
  /\ wire[c] # "read" => child[c] = "none"
  /\ child[c] = "none" => reply[c] = None
  /\ child[c] \in {"none", "begin"} => runs[c] = 0
  /\ child[c] \in {"none", "begin", "done"} => cli[c] \notin {"running", "interrupted"}
  /\ runs[c] = 0 <=> cli[c] = "none"
  /\ saved[c] => runs[c] = 1
  /\ output[c] = "complete" => cli[c] = "exited"
  /\ reply[c] # None => child[c] = "done"
  /\ reply[c] = "denied" => runs[c] = 0
  /\ reply[c] = "result" => cli[c] = "exited"
  /\ endpoint[c] = "ended" => child[c] \in {"none", "done"}

CallInv(c) == ClientInv(c) /\ EndpointInv(c)

IInv ==
  /\ TypeOK
  /\ \A c \in Call: CallInv(c)
  /\ server = "ended" => \A c \in Call: call[c] \in {"idle", "answered"}
=============================================================================
