--------------------------- MODULE McpCallProofs ---------------------------
(***************************************************************************)
(* Proofs about McpCall, for any set of calls: the inductive invariant,    *)
(* the four safety properties, and that the calls implement OneAttempt.    *)
(* An invariant speaks of one call at a time and an action changes one     *)
(* call, so every action has the same five steps.                          *)
(***************************************************************************)
EXTENDS McpCall, TLAPS

\* Nothing of a call changes.
Same(d) ==
  /\ call'[d] = call[d] /\ attempted'[d] = attempted[d] /\ result'[d] = result[d]
  /\ answer'[d] = answer[d] /\ link'[d] = link[d] /\ wire'[d] = wire[d]
  /\ expected'[d] = expected[d] /\ endpoint'[d] = endpoint[d] /\ child'[d] = child[d]
  /\ output'[d] = output[d] /\ cli'[d] = cli[d] /\ runs'[d] = runs[d]
  /\ saved'[d] = saved[d] /\ reply'[d] = reply[d]

\* A call of which nothing changes keeps its invariant.
LEMMA Untouched ==
  ASSUME NEW d \in Call, CallInv(d), Same(d)
  PROVE  CallInv(d)'
<1>1. ClientInv(d)'
  BY DEF CallInv, ClientInv, Same
<1>2. EndpointInv(d)'
  BY DEF CallInv, EndpointInv, Same
<1>3. QED BY <1>1, <1>2 DEF CallInv

-----------------------------------------------------------------------------
(* Every action keeps the invariant.                                       *)

\* A call that is refused by the tool has no connector.
LEMMA AskKeeps ==
  ASSUME IInv, NEW c \in Call, Ask(c)
  PROVE  IInv' /\ \A d \in Call: d # c => Same(d)
<1> USE NoneAssumption DEF Denials, Replies, Answers
<1>1. TypeOK'
  BY DEF IInv, TypeOK, Ask, Answer, Goto, here, there
<1>2. ASSUME NEW d \in Call, d # c PROVE Same(d)
  BY <1>2 DEF IInv, TypeOK, Same, Ask, Answer, Goto, here, there
<1>3. ClientInv(c)'
  BY DEF IInv, CallInv, ClientInv, EndpointInv, TypeOK, Ask, Answer, Goto, here, there
<1>4. EndpointInv(c)'
  BY DEF IInv, CallInv, EndpointInv, TypeOK, Ask, Answer, Goto, here, there
<1>5. (server = "ended" => \A d \in Call: call[d] \in {"idle", "answered"})'
  BY DEF IInv, TypeOK, Ask, Answer, Goto, here, there
<1>6. QED BY <1>1, <1>2, <1>3, <1>4, <1>5, Untouched DEF IInv, CallInv

\* A cancellation only sets a flag.
LEMMA CancelKeeps ==
  ASSUME IInv, NEW c \in Call, Cancel(c)
  PROVE  IInv' /\ \A d \in Call: d # c => Same(d)
<1> USE NoneAssumption DEF Denials, Replies, Answers
<1>1. TypeOK'
  BY DEF IInv, TypeOK, Cancel, here, there
<1>2. ASSUME NEW d \in Call, d # c PROVE Same(d)
  BY <1>2 DEF IInv, TypeOK, Same, Cancel, here, there
<1>3. ClientInv(c)'
  BY DEF IInv, CallInv, ClientInv, EndpointInv, TypeOK, Cancel, here, there
<1>4. EndpointInv(c)'
  BY DEF IInv, CallInv, EndpointInv, TypeOK, Cancel, here, there
<1>5. (server = "ended" => \A d \in Call: call[d] \in {"idle", "answered"})'
  BY DEF IInv, TypeOK, Cancel, here, there
<1>6. QED BY <1>1, <1>2, <1>3, <1>4, <1>5, Untouched DEF IInv, CallInv

\* A call that is answered before its connector runs leaves link at none.
LEMMA BeginKeeps ==
  ASSUME IInv, NEW c \in Call, Begin(c)
  PROVE  IInv' /\ \A d \in Call: d # c => Same(d)
<1> USE NoneAssumption DEF Denials, Replies, Answers
<1>1. TypeOK'
  BY DEF IInv, TypeOK, Begin, Answer, Goto, Stopped, here, there
<1>2. ASSUME NEW d \in Call, d # c PROVE Same(d)
  BY <1>2 DEF IInv, TypeOK, Same, Begin, Answer, Goto, Stopped, here, there
<1>3. ClientInv(c)'
  BY DEF IInv, CallInv, ClientInv, EndpointInv, TypeOK, Begin, Answer, Goto, Stopped, here, there
<1>4. EndpointInv(c)'
  BY DEF IInv, CallInv, EndpointInv, TypeOK, Begin, Answer, Goto, Stopped, here, there
<1>5. (server = "ended" => \A d \in Call: call[d] \in {"idle", "answered"})'
  BY DEF IInv, TypeOK, Begin, Answer, Goto, Stopped, here, there
<1>6. QED BY <1>1, <1>2, <1>3, <1>4, <1>5, Untouched DEF IInv, CallInv

\* The request is written after the flag, to the expected endpoint only.
LEMMA AttemptKeeps ==
  ASSUME IInv, NEW c \in Call, Attempt(c)
  PROVE  IInv' /\ \A d \in Call: d # c => Same(d)
<1> USE NoneAssumption DEF Denials, Replies, Answers
<1>1. TypeOK'
  BY DEF IInv, TypeOK, Attempt, Goto, Expected, here, there
<1>2. ASSUME NEW d \in Call, d # c PROVE Same(d)
  BY <1>2 DEF IInv, TypeOK, Same, Attempt, Goto, Expected, here, there
<1>3. ClientInv(c)'
  BY DEF IInv, CallInv, ClientInv, EndpointInv, TypeOK, Attempt, Goto, Expected, here, there
<1>4. EndpointInv(c)'
  BY DEF IInv, CallInv, ClientInv, EndpointInv, TypeOK, Attempt, Goto, Expected, here, there
<1>5. (server = "ended" => \A d \in Call: call[d] \in {"idle", "answered"})'
  BY DEF IInv, TypeOK, Attempt, Goto, Expected, here, there
<1>6. QED BY <1>1, <1>2, <1>3, <1>4, <1>5, Untouched DEF IInv, CallInv

\* The request is on its way, with the flag still set.
LEMMA TransmitKeeps ==
  ASSUME IInv, NEW c \in Call, Transmit(c)
  PROVE  IInv' /\ \A d \in Call: d # c => Same(d)
<1> USE NoneAssumption DEF Denials, Replies, Answers
<1>1. TypeOK'
  BY DEF IInv, TypeOK, Transmit, here, there
<1>2. ASSUME NEW d \in Call, d # c PROVE Same(d)
  BY <1>2 DEF IInv, TypeOK, Same, Transmit, here, there
<1>3. ClientInv(c)'
  BY DEF IInv, CallInv, ClientInv, EndpointInv, TypeOK, Transmit, here, there
<1>4. EndpointInv(c)'
  BY DEF IInv, CallInv, EndpointInv, TypeOK, Transmit, here, there
<1>5. (server = "ended" => \A d \in Call: call[d] \in {"idle", "answered"})'
  BY DEF IInv, TypeOK, Transmit, here, there
<1>6. QED BY <1>1, <1>2, <1>3, <1>4, <1>5, Untouched DEF IInv, CallInv

\* The result that is held is the endpoint's reply.
LEMMA TakeReplyKeeps ==
  ASSUME IInv, NEW c \in Call, TakeReply(c)
  PROVE  IInv' /\ \A d \in Call: d # c => Same(d)
<1> USE NoneAssumption DEF Denials, Replies, Answers
<1>1. TypeOK'
  BY DEF IInv, TypeOK, TakeReply, Goto, here, there
<1>2. ASSUME NEW d \in Call, d # c PROVE Same(d)
  BY <1>2 DEF IInv, TypeOK, Same, TakeReply, Goto, here, there
<1>3. ClientInv(c)'
  BY DEF IInv, CallInv, ClientInv, EndpointInv, TypeOK, TakeReply, Goto, here, there
<1>4. EndpointInv(c)'
  BY DEF IInv, CallInv, EndpointInv, TypeOK, TakeReply, Goto, here, there
<1>5. (server = "ended" => \A d \in Call: call[d] \in {"idle", "answered"})'
  BY DEF IInv, TypeOK, TakeReply, Goto, here, there
<1>6. QED BY <1>1, <1>2, <1>3, <1>4, <1>5, Untouched DEF IInv, CallInv

\* Closing after the reply loses nothing.
LEMMA CompleteKeeps ==
  ASSUME IInv, NEW c \in Call, Complete(c)
  PROVE  IInv' /\ \A d \in Call: d # c => Same(d)
<1> USE NoneAssumption DEF Denials, Replies, Answers
<1>1. TypeOK'
  BY DEF IInv, TypeOK, Complete, Goto, Closed, here, there
<1>2. ASSUME NEW d \in Call, d # c PROVE Same(d)
  BY <1>2 DEF IInv, TypeOK, Same, Complete, Goto, Closed, here, there
<1>3. ClientInv(c)'
  BY DEF IInv, CallInv, ClientInv, EndpointInv, TypeOK, Complete, Goto, Closed, here, there
<1>4. EndpointInv(c)'
  BY DEF IInv, CallInv, EndpointInv, TypeOK, Complete, Goto, Closed, here, there
<1>5. (server = "ended" => \A d \in Call: call[d] \in {"idle", "answered"})'
  BY DEF IInv, TypeOK, Complete, Goto, Closed, here, there
<1>6. QED BY <1>1, <1>2, <1>3, <1>4, <1>5, Untouched DEF IInv, CallInv

\* What is dropped with the exchange is the result, never the flag.
LEMMA AbandonKeeps ==
  ASSUME IInv, NEW c \in Call, Abandon(c)
  PROVE  IInv' /\ \A d \in Call: d # c => Same(d)
<1> USE NoneAssumption DEF Denials, Replies, Answers
<1>1. TypeOK'
  BY DEF IInv, TypeOK, Abandon, Goto, Closed, CutShort, here, there
<1>2. ASSUME NEW d \in Call, d # c PROVE Same(d)
  BY <1>2 DEF IInv, TypeOK, Same, Abandon, Goto, Closed, CutShort, here, there
<1>3. ClientInv(c)'
  BY DEF IInv, CallInv, ClientInv, EndpointInv, TypeOK, Abandon, Goto, Closed, CutShort, here, there
<1>4. EndpointInv(c)'
  BY DEF IInv, CallInv, EndpointInv, TypeOK, Abandon, Goto, Closed, CutShort, here, there
<1>5. (server = "ended" => \A d \in Call: call[d] \in {"idle", "answered"})'
  BY DEF IInv, TypeOK, Abandon, Goto, Closed, CutShort, here, there
<1>6. QED BY <1>1, <1>2, <1>3, <1>4, <1>5, Untouched DEF IInv, CallInv

\* The answer is the held result, or says what the flag says.
LEMMA CleanupKeeps ==
  ASSUME IInv, NEW c \in Call, Cleanup(c)
  PROVE  IInv' /\ \A d \in Call: d # c => Same(d)
<1> USE NoneAssumption DEF Denials, Replies, Answers
<1>1. TypeOK'
  BY DEF IInv, TypeOK, Cleanup, Answer, Goto, Final, here, there
<1>2. ASSUME NEW d \in Call, d # c PROVE Same(d)
  BY <1>2 DEF IInv, TypeOK, Same, Cleanup, Answer, Goto, Final, here, there
<1>3. ClientInv(c)'
  BY DEF IInv, CallInv, ClientInv, EndpointInv, TypeOK, Cleanup, Answer, Goto, Final, here, there
<1>4. EndpointInv(c)'
  BY DEF IInv, CallInv, EndpointInv, TypeOK, Cleanup, Answer, Goto, Final, here, there
<1>5. (server = "ended" => \A d \in Call: call[d] \in {"idle", "answered"})'
  BY DEF IInv, TypeOK, Cleanup, Answer, Goto, Final, here, there
<1>6. QED BY <1>1, <1>2, <1>3, <1>4, <1>5, Untouched DEF IInv, CallInv

\* An endpoint runs only behind an open connection.
LEMMA EndpointStartsKeeps ==
  ASSUME IInv, NEW c \in Call, EndpointStarts(c)
  PROVE  IInv' /\ \A d \in Call: d # c => Same(d)
<1> USE NoneAssumption DEF Denials, Replies, Answers
<1>1. TypeOK'
  BY DEF IInv, TypeOK, EndpointStarts, here, there
<1>2. ASSUME NEW d \in Call, d # c PROVE Same(d)
  BY <1>2 DEF IInv, TypeOK, Same, EndpointStarts, here, there
<1>3. ClientInv(c)'
  BY DEF IInv, CallInv, ClientInv, EndpointInv, TypeOK, EndpointStarts, here, there
<1>4. EndpointInv(c)'
  BY DEF IInv, CallInv, EndpointInv, TypeOK, EndpointStarts, here, there
<1>5. (server = "ended" => \A d \in Call: call[d] \in {"idle", "answered"})'
  BY DEF IInv, TypeOK, EndpointStarts, here, there
<1>6. QED BY <1>1, <1>2, <1>3, <1>4, <1>5, Untouched DEF IInv, CallInv

\* A request is read once, so its command has not run yet.
LEMMA ReceiveKeeps ==
  ASSUME IInv, NEW c \in Call, Receive(c)
  PROVE  IInv' /\ \A d \in Call: d # c => Same(d)
<1> USE NoneAssumption DEF Denials, Replies, Answers
<1>1. TypeOK'
  BY DEF IInv, TypeOK, Receive, Consumed, Respond, Turn, here, there
<1>2. ASSUME NEW d \in Call, d # c PROVE Same(d)
  BY <1>2 DEF IInv, TypeOK, Same, Receive, Consumed, Respond, Turn, here, there
<1>3. ClientInv(c)'
  BY DEF IInv, CallInv, ClientInv, EndpointInv, TypeOK, Receive, Consumed, Respond, Turn, here, there
<1>4. EndpointInv(c)'
  BY DEF IInv, CallInv, EndpointInv, TypeOK, Receive, Consumed, Respond, Turn, here, there
<1>5. (server = "ended" => \A d \in Call: call[d] \in {"idle", "answered"})'
  BY DEF IInv, TypeOK, Receive, Consumed, Respond, Turn, here, there
<1>6. QED BY <1>1, <1>2, <1>3, <1>4, <1>5, Untouched DEF IInv, CallInv

\* An endpoint that closes keeps its command.
LEMMA EndpointClosesKeeps ==
  ASSUME IInv, NEW c \in Call, EndpointCloses(c)
  PROVE  IInv' /\ \A d \in Call: d # c => Same(d)
<1> USE NoneAssumption DEF Denials, Replies, Answers
<1>1. TypeOK'
  BY DEF IInv, TypeOK, EndpointCloses, here, there
<1>2. ASSUME NEW d \in Call, d # c PROVE Same(d)
  BY <1>2 DEF IInv, TypeOK, Same, EndpointCloses, here, there
<1>3. ClientInv(c)'
  BY DEF IInv, CallInv, ClientInv, EndpointInv, TypeOK, EndpointCloses, here, there
<1>4. EndpointInv(c)'
  BY DEF IInv, CallInv, EndpointInv, TypeOK, EndpointCloses, here, there
<1>5. (server = "ended" => \A d \in Call: call[d] \in {"idle", "answered"})'
  BY DEF IInv, TypeOK, EndpointCloses, here, there
<1>6. QED BY <1>1, <1>2, <1>3, <1>4, <1>5, Untouched DEF IInv, CallInv

\* An endpoint that is killed is not one that ended in order.
LEMMA EndpointKilledKeeps ==
  ASSUME IInv, NEW c \in Call, EndpointKilled(c)
  PROVE  IInv' /\ \A d \in Call: d # c => Same(d)
<1> USE NoneAssumption DEF Denials, Replies, Answers
<1>1. TypeOK'
  BY DEF IInv, TypeOK, EndpointKilled, here, there
<1>2. ASSUME NEW d \in Call, d # c PROVE Same(d)
  BY <1>2 DEF IInv, TypeOK, Same, EndpointKilled, here, there
<1>3. ClientInv(c)'
  BY DEF IInv, CallInv, ClientInv, EndpointInv, TypeOK, EndpointKilled, here, there
<1>4. EndpointInv(c)'
  BY DEF IInv, CallInv, EndpointInv, TypeOK, EndpointKilled, here, there
<1>5. (server = "ended" => \A d \in Call: call[d] \in {"idle", "answered"})'
  BY DEF IInv, TypeOK, EndpointKilled, here, there
<1>6. QED BY <1>1, <1>2, <1>3, <1>4, <1>5, Untouched DEF IInv, CallInv

\* An endpoint ends in order only after its command.
LEMMA EndpointEndsKeeps ==
  ASSUME IInv, NEW c \in Call, EndpointEnds(c)
  PROVE  IInv' /\ \A d \in Call: d # c => Same(d)
<1> USE NoneAssumption DEF Denials, Replies, Answers
<1>1. TypeOK'
  BY DEF IInv, TypeOK, EndpointEnds, Drained, here, there
<1>2. ASSUME NEW d \in Call, d # c PROVE Same(d)
  BY <1>2 DEF IInv, TypeOK, Same, EndpointEnds, Drained, here, there
<1>3. ClientInv(c)'
  BY DEF IInv, CallInv, ClientInv, EndpointInv, TypeOK, EndpointEnds, Drained, here, there
<1>4. EndpointInv(c)'
  BY DEF IInv, CallInv, EndpointInv, TypeOK, EndpointEnds, Drained, here, there
<1>5. (server = "ended" => \A d \in Call: call[d] \in {"idle", "answered"})'
  BY DEF IInv, TypeOK, EndpointEnds, Drained, here, there
<1>6. QED BY <1>1, <1>2, <1>3, <1>4, <1>5, Untouched DEF IInv, CallInv

\* The command that begins is the first of its call.
LEMMA ChildBeginsKeeps ==
  ASSUME IInv, NEW c \in Call, ChildBegins(c)
  PROVE  IInv' /\ \A d \in Call: d # c => Same(d)
<1> USE NoneAssumption DEF Denials, Replies, Answers
<1>1. TypeOK'
  <2>1. runs[c] = 0
    BY DEF IInv, CallInv, EndpointInv, ChildBegins
  <2>2. runs' \in [Call -> 0..1]
    BY <2>1 DEF IInv, TypeOK, ChildBegins, there
  <2>3. child' \in [Call -> {"none", "begin", "capture", "grace", "cleanup", "done"}]
        /\ cli' \in [Call -> {"none", "running", "interrupted", "exited", "killed"}]
        /\ reply' \in [Call -> Replies \cup {None}]
    BY DEF IInv, TypeOK, ChildBegins, Respond, Turn
  <2>4. QED BY <2>2, <2>3 DEF IInv, TypeOK, ChildBegins, here, there
<1>2. ASSUME NEW d \in Call, d # c PROVE Same(d)
  BY <1>2 DEF IInv, TypeOK, Same, ChildBegins, Up, Respond, Turn, here, there
<1>3. ClientInv(c)'
  BY DEF IInv, CallInv, ClientInv, EndpointInv, TypeOK, ChildBegins, Up, Respond, Turn, here, there
<1>4. EndpointInv(c)'
  BY DEF IInv, CallInv, EndpointInv, TypeOK, ChildBegins, Up, Respond, Turn, here, there
<1>5. (server = "ended" => \A d \in Call: call[d] \in {"idle", "answered"})'
  BY DEF IInv, TypeOK, ChildBegins, Up, Respond, Turn, here, there
<1>6. QED BY <1>1, <1>2, <1>3, <1>4, <1>5, Untouched DEF IInv, CallInv

\* Output is complete only of a process that exited.
LEMMA ChildCapturesKeeps ==
  ASSUME IInv, NEW c \in Call, ChildCaptures(c)
  PROVE  IInv' /\ \A d \in Call: d # c => Same(d)
<1> USE NoneAssumption DEF Denials, Replies, Answers
<1>1. TypeOK'
  BY DEF IInv, TypeOK, ChildCaptures, Up, Turn, here, there
<1>2. ASSUME NEW d \in Call, d # c PROVE Same(d)
  BY <1>2 DEF IInv, TypeOK, Same, ChildCaptures, Up, Turn, here, there
<1>3. ClientInv(c)'
  BY DEF IInv, CallInv, ClientInv, EndpointInv, TypeOK, ChildCaptures, Up, Turn, here, there
<1>4. EndpointInv(c)'
  BY DEF IInv, CallInv, EndpointInv, TypeOK, ChildCaptures, Up, Turn, here, there
<1>5. (server = "ended" => \A d \in Call: call[d] \in {"idle", "answered"})'
  BY DEF IInv, TypeOK, ChildCaptures, Up, Turn, here, there
<1>6. QED BY <1>1, <1>2, <1>3, <1>4, <1>5, Untouched DEF IInv, CallInv

\* An interrupted process still runs.
LEMMA ChildInterruptsKeeps ==
  ASSUME IInv, NEW c \in Call, ChildInterrupts(c)
  PROVE  IInv' /\ \A d \in Call: d # c => Same(d)
<1> USE NoneAssumption DEF Denials, Replies, Answers
<1>1. TypeOK'
  BY DEF IInv, TypeOK, ChildInterrupts, Up, Turn, here, there
<1>2. ASSUME NEW d \in Call, d # c PROVE Same(d)
  BY <1>2 DEF IInv, TypeOK, Same, ChildInterrupts, Up, Turn, here, there
<1>3. ClientInv(c)'
  BY DEF IInv, CallInv, ClientInv, EndpointInv, TypeOK, ChildInterrupts, Up, Turn, here, there
<1>4. EndpointInv(c)'
  BY DEF IInv, CallInv, EndpointInv, TypeOK, ChildInterrupts, Up, Turn, here, there
<1>5. (server = "ended" => \A d \in Call: call[d] \in {"idle", "answered"})'
  BY DEF IInv, TypeOK, ChildInterrupts, Up, Turn, here, there
<1>6. QED BY <1>1, <1>2, <1>3, <1>4, <1>5, Untouched DEF IInv, CallInv

\* A result is told of complete output only, and nothing runs after it.
LEMMA ChildCleansUpKeeps ==
  ASSUME IInv, NEW c \in Call, ChildCleansUp(c)
  PROVE  IInv' /\ \A d \in Call: d # c => Same(d)
<1> USE NoneAssumption DEF Denials, Replies, Answers
<1>1. TypeOK'
  BY DEF IInv, TypeOK, ChildCleansUp, Up, Respond, Turn, Said, here, there
<1>2. ASSUME NEW d \in Call, d # c PROVE Same(d)
  BY <1>2 DEF IInv, TypeOK, Same, ChildCleansUp, Up, Respond, Turn, Said, here, there
<1>3. ClientInv(c)'
  BY DEF IInv, CallInv, ClientInv, EndpointInv, TypeOK, ChildCleansUp, Up, Respond, Turn, Said, here, there
<1>4. EndpointInv(c)'
  BY DEF IInv, CallInv, EndpointInv, TypeOK, ChildCleansUp, Up, Respond, Turn, Said, here, there
<1>5. (server = "ended" => \A d \in Call: call[d] \in {"idle", "answered"})'
  BY DEF IInv, TypeOK, ChildCleansUp, Up, Respond, Turn, Said, here, there
<1>6. QED BY <1>1, <1>2, <1>3, <1>4, <1>5, Untouched DEF IInv, CallInv

\* Only a command that runs writes.
LEMMA SaveKeeps ==
  ASSUME IInv, NEW c \in Call, Save(c)
  PROVE  IInv' /\ \A d \in Call: d # c => Same(d)
<1> USE NoneAssumption DEF Denials, Replies, Answers
<1>1. TypeOK'
  BY DEF IInv, TypeOK, Save, here, there
<1>2. ASSUME NEW d \in Call, d # c PROVE Same(d)
  BY <1>2 DEF IInv, TypeOK, Same, Save, here, there
<1>3. ClientInv(c)'
  BY DEF IInv, CallInv, ClientInv, EndpointInv, TypeOK, Save, here, there
<1>4. EndpointInv(c)'
  BY DEF IInv, CallInv, EndpointInv, TypeOK, Save, here, there
<1>5. (server = "ended" => \A d \in Call: call[d] \in {"idle", "answered"})'
  BY DEF IInv, TypeOK, Save, here, there
<1>6. QED BY <1>1, <1>2, <1>3, <1>4, <1>5, Untouched DEF IInv, CallInv

\* A process that exits has been started.
LEMMA CliExitsKeeps ==
  ASSUME IInv, NEW c \in Call, CliExits(c)
  PROVE  IInv' /\ \A d \in Call: d # c => Same(d)
<1> USE NoneAssumption DEF Denials, Replies, Answers
<1>1. TypeOK'
  BY DEF IInv, TypeOK, CliExits, here, there
<1>2. ASSUME NEW d \in Call, d # c PROVE Same(d)
  BY <1>2 DEF IInv, TypeOK, Same, CliExits, here, there
<1>3. ClientInv(c)'
  BY DEF IInv, CallInv, ClientInv, EndpointInv, TypeOK, CliExits, here, there
<1>4. EndpointInv(c)'
  BY DEF IInv, CallInv, EndpointInv, TypeOK, CliExits, here, there
<1>5. (server = "ended" => \A d \in Call: call[d] \in {"idle", "answered"})'
  BY DEF IInv, TypeOK, CliExits, here, there
<1>6. QED BY <1>1, <1>2, <1>3, <1>4, <1>5, Untouched DEF IInv, CallInv

\* Shutting down changes no call, and a server ends when it has none open.
LEMMA ServerKeeps ==
  ASSUME IInv, Shutdown \/ Exit
  PROVE  IInv'
<1>1. TypeOK'
  BY DEF IInv, TypeOK, Shutdown, Exit, here, there
<1>2. ASSUME NEW d \in Call PROVE CallInv(d)'
  <2>1. Same(d)
    BY DEF Same, Shutdown, Exit, here, there
  <2>2. QED BY <2>1, Untouched DEF IInv
<1>3. (server = "ended" => \A d \in Call: call[d] \in {"idle", "answered"})'
  <2>1. CASE Shutdown
    BY <2>1 DEF Shutdown
  <2>2. CASE Exit
    <3>1. \A d \in Call: call[d] \in {"idle", "none", "answered", "done"}
      BY <2>2 DEF Exit, Drained
    <3>2. QED BY <2>2, <3>1 DEF Exit, IInv, TypeOK
  <2>3. QED BY <2>1, <2>2
<1>4. QED BY <1>1, <1>2, <1>3 DEF IInv

\* The servers start with no call.
LEMMA InitKeeps == Init => IInv
<1> SUFFICES ASSUME Init PROVE IInv
  OBVIOUS
<1>1. TypeOK
  BY DEF Init, TypeOK
<1>2. ASSUME NEW c \in Call PROVE ClientInv(c) /\ EndpointInv(c)
  BY NoneAssumption DEF Init, ClientInv, EndpointInv, Answers, Denials, Replies
<1>3. QED BY <1>1, <1>2 DEF IInv, CallInv, Init

\* The inductive invariant holds (McpCall!IInv): what each place of a call and
\* of its endpoint may rely on.
THEOREM Inductive == Spec => []IInv
<1>1. ASSUME IInv, [Next]_vars PROVE IInv'
  <2>1. CASE UNCHANGED vars
    <3>1. TypeOK'
      BY <1>1, <2>1 DEF IInv, TypeOK, vars, here, there
    <3>2. ASSUME NEW d \in Call PROVE CallInv(d)'
      <4>1. Same(d)
        BY <2>1 DEF Same, vars, here, there
      <4>2. QED BY <1>1, <4>1, Untouched DEF IInv
    <3>3. QED BY <1>1, <2>1, <3>1, <3>2 DEF IInv, vars, here
  <2>2. CASE Shutdown \/ Exit
    BY <1>1, <2>2, ServerKeeps
  <2>3. ASSUME NEW c \in Call, Ask(c) \/ Cancel(c) \/ Client(c) PROVE IInv'
    BY <1>1, <2>3, AskKeeps, CancelKeeps, BeginKeeps, AttemptKeeps, TransmitKeeps,
       TakeReplyKeeps, CompleteKeeps, AbandonKeeps, CleanupKeeps DEF Client
  <2>4. ASSUME NEW c \in Call, EndpointStarts(c) \/ EndpointKilled(c) \/ Endpoint(c)
        PROVE  IInv'
    BY <1>1, <2>4, EndpointStartsKeeps, EndpointKilledKeeps, ReceiveKeeps,
       EndpointClosesKeeps, EndpointEndsKeeps, ChildBeginsKeeps, ChildCapturesKeeps,
       ChildInterruptsKeeps, ChildCleansUpKeeps DEF Endpoint, Child
  <2>5. ASSUME NEW c \in Call, Save(c) \/ CliExits(c) PROVE IInv'
    BY <1>1, <2>5, SaveKeeps, CliExitsKeeps
  <2>6. QED BY <1>1, <2>1, <2>2, <2>3, <2>4, <2>5 DEF Next
<1>2. QED BY <1>1, InitKeeps, PTL DEF Spec

-----------------------------------------------------------------------------
(* The properties.                                                         *)

\* An answer that denies the command is about one that never began.
LEMMA DenialsAreTrue ==
  ASSUME IInv, NEW c \in Call, answer[c] \in Denials
  PROVE  runs[c] = 0 /\ ~saved[c] /\ child[c] \in {"none", "done"}
<1>1. CallInv(c) /\ runs[c] \in 0..1 /\ saved[c] \in BOOLEAN
  BY DEF IInv, TypeOK
<1>2. CASE answer[c] = "denied"
  BY <1>1, <1>2, NoneAssumption
    DEF CallInv, ClientInv, EndpointInv, Replies, Answers
<1>3. CASE answer[c] # "denied"
  <2>1. ~attempted[c]
    BY <1>1, <1>3 DEF CallInv, ClientInv, Denials
  <2>2. child[c] = "none"
    BY <1>1, <2>1 DEF CallInv, ClientInv, EndpointInv
  <2>3. QED BY <1>1, <2>2 DEF CallInv, EndpointInv
<1>4. QED BY <1>2, <1>3

\* The same of the next state.
LEMMA DenialsAreTruePrimed ==
  ASSUME IInv', NEW c \in Call, answer'[c] \in Denials
  PROVE  runs'[c] = 0
<1>1. CallInv(c)' /\ (answer[c] \in Denials)'
  BY DEF IInv, Denials
<1>2. CASE answer'[c] = "denied"
  BY <1>1, <1>2, NoneAssumption DEF CallInv, ClientInv, EndpointInv, Replies, Answers
<1>3. CASE answer'[c] # "denied"
  BY <1>1, <1>3 DEF CallInv, ClientInv, EndpointInv, Denials
<1>4. QED BY <1>2, <1>3

\* A denial is true whatever is still in the pipes (McpCall!NoFalseDenial).
THEOREM DenialsStayTrue == Spec => []NoFalseDenial
<1>1. IInv => NoFalseDenial
  BY DenialsAreTrue DEF NoFalseDenial
<1>2. QED BY <1>1, Inductive, PTL

\* A result is of a process that exited by itself (McpCall!ResultIsFinal).
THEOREM ResultsAreFinal == Spec => []ResultIsFinal
<1>1. ASSUME IInv PROVE ResultIsFinal
  <2>1. ASSUME NEW c \in Call, answer[c] = "result"
        PROVE  cli[c] = "exited" /\ child[c] = "done"
    <3>1. CallInv(c)
      BY <1>1 DEF IInv
    <3>2. reply[c] = "result"
      BY <2>1, <3>1 DEF CallInv, ClientInv, Replies
    <3>3. QED BY <3>1, <3>2, NoneAssumption
      DEF CallInv, EndpointInv, Answers, Replies
  <2>2. QED BY <2>1 DEF ResultIsFinal
<1>2. QED BY <1>1, Inductive, PTL

\* One command at most, at the expected endpoint (McpCall!RunsOnceWhereExpected).
THEOREM OneCommand == Spec => []RunsOnceWhereExpected
<1>1. ASSUME IInv PROVE RunsOnceWhereExpected
  <2>1. ASSUME NEW c \in Call, runs[c] > 0
        PROVE  runs[c] = 1 /\ expected[c] /\ attempted[c]
    <3>1. CallInv(c) /\ runs[c] \in 0..1
      BY <1>1 DEF IInv, TypeOK
    <3>2. runs[c] = 1
      BY <2>1, <3>1
    <3>3. wire[c] # "none"
      BY <3>1, <3>2 DEF CallInv, EndpointInv
    <3>4. QED BY <3>1, <3>2, <3>3 DEF CallInv, ClientInv
  <2>2. QED BY <2>1 DEF RunsOnceWhereExpected
<1>2. QED BY <1>1, Inductive, PTL

\* A server that ended in order left no call and no process
\* (McpCall!NothingOutlivesItsServer).
THEOREM ServersLeaveNothing == Spec => []NothingOutlivesItsServer
<1>1. IInv => NothingOutlivesItsServer
  BY DEF IInv, CallInv, EndpointInv, NothingOutlivesItsServer
<1>2. QED BY <1>1, Inductive, PTL

-----------------------------------------------------------------------------
(* The calls implement OneAttempt.                                         *)

\* What OneAttempt sees of one call.
EffectOf(c) == IF runs[c] = 0 THEN "none"
               ELSE IF cli[c] = "exited" THEN "ended" ELSE "begun"
VerdictOf(c) == IF answer[c] = None THEN None
                ELSE IF answer[c] \in Denials THEN "denied"
                ELSE IF answer[c] = "result" THEN "done" ELSE "unknown"

\* Effect and Verdict are these, call by call.
LEMMA Pointwise == Effect = [c \in Call |-> EffectOf(c)]
                   /\ Verdict = [c \in Call |-> VerdictOf(c)]
BY DEF Effect, Verdict, EffectOf, VerdictOf

\* What has not changed of a call has not changed for OneAttempt.
LEMMA SameSeen ==
  ASSUME NEW d \in Call, Same(d)
  PROVE  EffectOf(d)' = EffectOf(d) /\ VerdictOf(d)' = VerdictOf(d)
BY DEF Same, EffectOf, VerdictOf

\* A step of one call shows in its own effect and verdict.
LEMMA Shows ==
  ASSUME NEW c \in Call, \A d \in Call: d # c => Same(d)
  PROVE  /\ Effect' = [Effect EXCEPT ![c] = EffectOf(c)']
         /\ Verdict' = [Verdict EXCEPT ![c] = VerdictOf(c)']
<1>1. \A d \in Call: d # c => EffectOf(d)' = EffectOf(d) /\ VerdictOf(d)' = VerdictOf(d)
  BY SameSeen
<1>2. Effect' = [d \in Call |-> EffectOf(d)'] /\ Verdict' = [d \in Call |-> VerdictOf(d)']
  BY DEF Effect, Verdict, EffectOf, VerdictOf
<1>3. QED BY <1>1, <1>2, Pointwise

\* A step of one call that shows in neither is a stutter.
LEMMA Stutter ==
  ASSUME NEW c \in Call, \A d \in Call: d # c => Same(d),
         EffectOf(c)' = EffectOf(c), VerdictOf(c)' = VerdictOf(c)
  PROVE  UNCHANGED <<Effect, Verdict>>
BY Shows, Pointwise

\* To tell a denial, a result or a doubt of a call that was told nothing is an
\* action of OneAttempt.
LEMMA Tells ==
  ASSUME IInv, NEW c \in Call, \A d \in Call: d # c => Same(d),
         call[c] # "answered", answer'[c] \in Answers,
         runs'[c] = runs[c], cli'[c] = cli[c],
         answer'[c] \in Denials => runs[c] = 0,
         answer'[c] = "result" => runs[c] # 0 /\ cli[c] = "exited"
  PROVE  Attempts!Next
<1>1. Effect[c] = EffectOf(c) /\ Verdict[c] = None
  BY Pointwise, NoneAssumption DEF IInv, CallInv, ClientInv, VerdictOf
<1>2. Effect' = Effect /\ Verdict' = [Verdict EXCEPT ![c] = VerdictOf(c)']
  <2>1. EffectOf(c)' = EffectOf(c)
    BY DEF EffectOf
  <2>2. QED BY <1>1, <2>1, Shows, Pointwise
<1>3. CASE answer'[c] \in Denials
  <2>1. VerdictOf(c)' = "denied" /\ EffectOf(c) = "none"
    BY <1>3, NoneAssumption DEF VerdictOf, EffectOf, Answers
  <2>2. Attempts!Deny(c)
    BY <1>1, <1>2, <2>1 DEF Attempts!Deny, Attempts!Tell
  <2>3. QED BY <2>2 DEF Attempts!Next
<1>4. CASE answer'[c] = "result"
  <2>1. VerdictOf(c)' = "done" /\ EffectOf(c) = "ended"
    BY <1>4, NoneAssumption DEF VerdictOf, EffectOf, Answers, Denials, Replies
  <2>2. Attempts!Report(c)
    BY <1>1, <1>2, <2>1 DEF Attempts!Report, Attempts!Tell
  <2>3. QED BY <2>2 DEF Attempts!Next
<1>5. CASE answer'[c] \notin Denials /\ answer'[c] # "result"
  <2>1. VerdictOf(c)' = "unknown"
    BY <1>5, NoneAssumption DEF VerdictOf
  <2>2. Attempts!Doubt(c)
    BY <1>1, <1>2, <2>1 DEF Attempts!Doubt, Attempts!Tell
  <2>3. QED BY <2>2 DEF Attempts!Next
<1>6. QED BY <1>3, <1>4, <1>5

\* Most steps neither answer, nor start a process, nor see one exit.
LEMMA QuietSteps ==
  ASSUME IInv, NEW c \in Call,
         \/ Cancel(c) \/ Attempt(c) \/ Transmit(c) \/ TakeReply(c) \/ Complete(c)
         \/ Abandon(c) \/ EndpointStarts(c) \/ Receive(c) \/ EndpointCloses(c)
         \/ EndpointKilled(c) \/ EndpointEnds(c) \/ ChildCaptures(c)
         \/ ChildInterrupts(c) \/ ChildCleansUp(c) \/ Save(c)
  PROVE  UNCHANGED <<Effect, Verdict>>
<1>1. answer' = answer /\ runs' = runs
  BY DEF Cancel, Attempt, Transmit, TakeReply, Complete, Abandon, EndpointStarts,
     Receive, EndpointCloses, EndpointKilled, EndpointEnds, ChildCaptures,
     ChildInterrupts, ChildCleansUp, Save, here, there
<1>2. cli'[c] = "exited" <=> cli[c] = "exited"
  BY DEF Cancel, Attempt, Transmit, TakeReply, Complete, Abandon, EndpointStarts,
     Receive, EndpointCloses, EndpointKilled, EndpointEnds, ChildCaptures,
     ChildInterrupts, ChildCleansUp, Save, here, there, IInv, TypeOK
<1>3. \A d \in Call: d # c => Same(d)
  BY CancelKeeps, AttemptKeeps, TransmitKeeps, TakeReplyKeeps, CompleteKeeps,
     AbandonKeeps, EndpointStartsKeeps, ReceiveKeeps, EndpointClosesKeeps,
     EndpointKilledKeeps, EndpointEndsKeeps, ChildCapturesKeeps,
     ChildInterruptsKeeps, ChildCleansUpKeeps, SaveKeeps
<1>4. EffectOf(c)' = EffectOf(c) /\ VerdictOf(c)' = VerdictOf(c)
  BY <1>1, <1>2 DEF EffectOf, VerdictOf
<1>5. QED BY <1>3, <1>4, Stutter

\* A call that is refused or cannot be sent is denied, and truly.
LEMMA DenyingSteps ==
  ASSUME IInv, NEW c \in Call, Ask(c) \/ Begin(c)
  PROVE  Attempts!Next \/ UNCHANGED <<Effect, Verdict>>
<1>1. runs' = runs /\ cli' = cli /\ call[c] # "answered" /\ runs[c] = 0
  <2>1. call[c] \in {"idle", "begin"}
    BY DEF Ask, Begin
  <2>2. wire[c] = "none" /\ child[c] = "none"
    BY <2>1 DEF IInv, CallInv, ClientInv, EndpointInv
  <2>3. QED BY <2>1, <2>2 DEF Ask, Begin, there, IInv, CallInv, EndpointInv
<1>2. \A d \in Call: d # c => Same(d)
  BY AskKeeps, BeginKeeps
<1>3. CASE answer' = answer
  <2>1. EffectOf(c)' = EffectOf(c) /\ VerdictOf(c)' = VerdictOf(c)
    BY <1>1, <1>3 DEF EffectOf, VerdictOf
  <2>2. QED BY <1>2, <2>1, Stutter
<1>4. CASE answer' # answer
  <2>1. answer'[c] \in Denials
    BY <1>4 DEF Ask, Begin, Answer, Denials, IInv, TypeOK
  <2>2. answer'[c] \in Answers /\ answer'[c] # "result"
    BY <2>1 DEF Answers, Denials
  <2>3. QED BY <1>1, <1>2, <2>1, <2>2, Tells
<1>5. QED BY <1>3, <1>4

\* A call that is over is told its result, a doubt, or a denial that holds.
LEMMA CleanupTells ==
  ASSUME IInv, NEW c \in Call, Cleanup(c)
  PROVE  Attempts!Next
<1>1. call[c] # "answered" /\ runs' = runs /\ cli' = cli /\ CallInv(c)
  BY DEF Cleanup, there, IInv
<1>2. IInv' /\ \A d \in Call: d # c => Same(d)
  BY CleanupKeeps
<1>3. answer'[c] \in Answers
  BY DEF Cleanup, Answer, Final, Answers, Denials, Replies, IInv, TypeOK
<1>4. answer'[c] \in Denials => runs[c] = 0
  <2>1. ASSUME answer'[c] \in Denials PROVE runs'[c] = 0
    BY <1>2, <2>1, DenialsAreTruePrimed
  <2>2. QED BY <1>1, <2>1
<1>5. answer'[c] = "result" => runs[c] # 0 /\ cli[c] = "exited"
  <2>1. answer'[c] = "result" => reply[c] = "result"
    BY <1>1 DEF Cleanup, Answer, Final, IInv, TypeOK, CallInv, ClientInv, Replies
  <2>2. reply[c] = "result" => cli[c] = "exited" /\ runs[c] # 0
    BY <1>1 DEF CallInv, EndpointInv
  <2>3. QED BY <2>1, <2>2
<1>6. QED BY <1>1, <1>2, <1>3, <1>4, <1>5, Tells

\* A command that begins is the first of a call that was not denied.
LEMMA BeginningRuns ==
  ASSUME IInv, NEW c \in Call, ChildBegins(c)
  PROVE  Attempts!Next \/ UNCHANGED <<Effect, Verdict>>
<1>1. answer' = answer /\ child[c] = "begin" /\ CallInv(c)
  BY DEF ChildBegins, here, IInv
<1>2. \A d \in Call: d # c => Same(d)
  BY ChildBeginsKeeps
<1>3. runs[c] = 0 /\ answer[c] \notin Denials
  BY <1>1, DenialsAreTrue DEF CallInv, EndpointInv
<1>4. VerdictOf(c)' = VerdictOf(c) /\ Effect[c] = "none" /\ Verdict[c] = VerdictOf(c)
  BY <1>1, <1>3, Pointwise DEF VerdictOf, EffectOf
<1>5. CASE runs' = runs
  <2>1. EffectOf(c)' = EffectOf(c)
    BY <1>3, <1>5 DEF EffectOf
  <2>2. QED BY <1>2, <1>4, <2>1, Stutter
<1>6. CASE runs' # runs
  <2>1. runs'[c] = 1 /\ cli'[c] # "exited"
    BY <1>3, <1>6 DEF ChildBegins, IInv, TypeOK
  <2>2. EffectOf(c)' = "begun" /\ VerdictOf(c) # "denied"
    BY <1>3, <2>1, NoneAssumption DEF EffectOf, VerdictOf, Answers, Denials
  <2>3. Effect' = [Effect EXCEPT ![c] = "begun"] /\ Verdict' = Verdict
    BY <1>2, <1>4, <2>2, Shows, Pointwise
  <2>4. Attempts!Run(c)
    BY <1>4, <2>2, <2>3 DEF Attempts!Run
  <2>5. QED BY <2>4 DEF Attempts!Next
<1>7. QED BY <1>5, <1>6

\* The exit of a process ends the command.
LEMMA ExitEnds ==
  ASSUME IInv, NEW c \in Call, CliExits(c)
  PROVE  Attempts!Next
<1>1. answer' = answer /\ runs' = runs /\ cli'[c] = "exited"
      /\ cli[c] \in {"running", "interrupted"} /\ runs[c] # 0
  BY DEF CliExits, here, there, IInv, TypeOK, CallInv, EndpointInv
<1>2. \A d \in Call: d # c => Same(d)
  BY CliExitsKeeps
<1>3. EffectOf(c) = "begun" /\ EffectOf(c)' = "ended" /\ VerdictOf(c)' = VerdictOf(c)
  BY <1>1 DEF EffectOf, VerdictOf
<1>4. Attempts!End(c)
  BY <1>2, <1>3, Shows, Pointwise DEF Attempts!End
<1>5. QED BY <1>4 DEF Attempts!Next

\* A remote tool call is sent once and told truthfully, whatever fails
\* (McpCall!IsOneAttempt): every step of the two servers and of the command is a
\* step of OneAttempt or a stutter.
THEOREM CallsAreOneAttempt == Spec => IsOneAttempt
<1>1. Init => Attempts!Init
  BY DEF Init, Attempts!Init, Effect, Verdict
<1>2. ASSUME IInv, [Next]_vars PROVE [Attempts!Next]_<<Effect, Verdict>>
  <2>1. CASE UNCHANGED vars \/ Shutdown \/ Exit
    BY <2>1 DEF vars, here, there, Shutdown, Exit, Effect, Verdict
  <2>2. ASSUME NEW c \in Call, Ask(c) \/ Cancel(c) \/ Client(c)
        PROVE  [Attempts!Next]_<<Effect, Verdict>>
    BY <1>2, <2>2, DenyingSteps, CleanupTells, QuietSteps DEF Client
  <2>3. ASSUME NEW c \in Call, EndpointStarts(c) \/ EndpointKilled(c) \/ Endpoint(c)
        PROVE  [Attempts!Next]_<<Effect, Verdict>>
    BY <1>2, <2>3, BeginningRuns, QuietSteps DEF Endpoint, Child
  <2>4. ASSUME NEW c \in Call, Save(c) \/ CliExits(c)
        PROVE  [Attempts!Next]_<<Effect, Verdict>>
    BY <1>2, <2>4, QuietSteps, ExitEnds
  <2>5. QED BY <1>2, <2>1, <2>2, <2>3, <2>4 DEF Next
<1>3. QED BY <1>1, <1>2, Inductive, PTL DEF Spec, IsOneAttempt, Attempts!Spec
=============================================================================
