---------------------------- MODULE AdaptersProofs ----------------------------
(***************************************************************************)
(* Proofs about the adapters, for any addresses, databases and requests.   *)
(* Each of Prompt, Handover and Rpc has its inductive invariant, with the  *)
(* properties that follow from it, and implements OneAttempt; an operation *)
(* of Adapters is a behaviour of each of them.                             *)
(***************************************************************************)
EXTENDS Adapters, TLAPS

-----------------------------------------------------------------------------
(* A request to OpenCode.                                                  *)

\* The preflight, up to the choice of an address, hands over nothing.
LEMMA PreflightKeeps ==
  ASSUME IInv, Health \/ SessionInfo \/ StatusMap \/ Skip \/ Check \/ Resolve
               \/ NextAddress
  PROVE  IInv'
<1> USE NoneAssumption DEF Health, SessionInfo, StatusMap, Skip, Check, Resolve,
      NextAddress, Untried, Ask, Goto, Return
<1>1. UNCHANGED <<asked, signals, servers>> /\ ~asked
  BY DEF IInv, PlaceInv
<1>2. TypeOK'
  BY <1>1 DEF IInv, TypeOK, signals, servers
<1>3. PlaceInv'
  BY <1>1 DEF IInv, TypeOK, PlaceInv, signals, servers
<1>4. BodyInv'
  BY <1>1 DEF IInv, BodyInv, Unsent, signals, servers
<1>5. OutcomeInv'
  BY <1>1 DEF IInv, PlaceInv, OutcomeInv, signals, servers
<1>6. QED BY <1>1, <1>2, <1>3, <1>4, <1>5 DEF IInv, signals

\* The steps of an exchange write to the address that is tried only.
LEMMA SendingKeeps ==
  ASSUME IInv, Connect \/ SendHead \/ HandOver \/ SendBody
  PROVE  IInv'
<1> USE NoneAssumption DEF Connect, SendHead, HandOver, SendBody, Goto
<1>1. UNCHANGED <<signals, outcome, decided, answer, at, rest>> /\ at \in Address
  BY DEF IInv, PlaceInv, servers
<1>2. TypeOK'
  BY <1>1 DEF IInv, TypeOK, signals, servers
<1>3. PlaceInv'
  BY <1>1 DEF IInv, TypeOK, PlaceInv
<1>4. BodyInv'
  BY <1>1 DEF IInv, TypeOK, PlaceInv, BodyInv, Unsent, servers
<1>5. OutcomeInv'
  BY <1>1 DEF IInv, PlaceInv, OutcomeInv
<1>6. (early => interrupted /\ ~asked)'
  BY <1>1 DEF IInv, signals, MayHandOver
<1>7. QED BY <1>2, <1>3, <1>4, <1>5, <1>6 DEF IInv

\* A failure is told as not_submitted only while nothing was handed over, and an
\* answer as what the server decided.
LEMMA EndingKeeps ==
  ASSUME IInv, Fail \/ ReadAnswer
  PROVE  IInv'
<1> USE NoneAssumption DEF Fail, ReadAnswer, Failed, TriesNext, Uncertain, OutcomeOf,
      Goto, Return
<1>1. UNCHANGED <<rest, at, asked, signals, servers>>
  OBVIOUS
<1>2. TypeOK'
  BY <1>1 DEF IInv, TypeOK, signals, servers
<1>3. PlaceInv'
  BY <1>1 DEF IInv, TypeOK, PlaceInv
<1>4. BodyInv'
  BY <1>1 DEF IInv, BodyInv, Unsent, servers
<1>5. OutcomeInv'
  <2>1. CASE Fail
    BY <1>1, <2>1 DEF IInv, PlaceInv, OutcomeInv, servers
  <2>2. CASE ReadAnswer
    BY <1>1, <2>2 DEF IInv, PlaceInv, BodyInv, OutcomeInv, servers
  <2>3. QED BY <2>1, <2>2
<1>6. QED BY <1>1, <1>2, <1>3, <1>4, <1>5 DEF IInv, signals

\* The signal and the servers leave the client's account alone.
LEMMA AroundKeeps ==
  ASSUME IInv, Interrupt \/ \E a \in Address: Decide(a) \/ Respond(a)
  PROVE  IInv'
<1>1. UNCHANGED client
  BY DEF Interrupt, Decide, Respond
<1>2. CASE Interrupt
  <2>1. TypeOK' /\ PlaceInv' /\ OutcomeInv'
    BY <1>1, <1>2 DEF IInv, TypeOK, PlaceInv, OutcomeInv, Interrupt, client, servers
  <2>2. BodyInv'
    BY <1>1, <1>2 DEF IInv, BodyInv, Unsent, Interrupt, client, servers
  <2>3. (early => interrupted /\ ~asked)'
    BY <1>1, <1>2 DEF IInv, TypeOK, Interrupt, client
  <2>4. QED BY <2>1, <2>2, <2>3 DEF IInv
<1>3. ASSUME NEW a \in Address, Decide(a) PROVE IInv'
  <2>1. TypeOK' /\ PlaceInv'
    BY <1>1, <1>3 DEF IInv, TypeOK, PlaceInv, Decide, client, signals
  <2>2. BodyInv'
    BY <1>1, <1>3 DEF IInv, TypeOK, BodyInv, Unsent, Decide, client
  <2>3. OutcomeInv'
    BY <1>1, <1>3, NoneAssumption DEF IInv, TypeOK, BodyInv, OutcomeInv, Decide, client
  <2>4. QED BY <1>1, <1>3, <2>1, <2>2, <2>3 DEF IInv, Decide, client, signals
<1>4. ASSUME NEW a \in Address, Respond(a) PROVE IInv'
  <2>1. TypeOK' /\ PlaceInv' /\ OutcomeInv'
    BY <1>1, <1>4 DEF IInv, TypeOK, PlaceInv, OutcomeInv, Respond, client, signals
  <2>2. BodyInv'
    BY <1>1, <1>4 DEF IInv, TypeOK, BodyInv, Unsent, Respond, client
  <2>3. QED BY <1>1, <1>4, <2>1, <2>2 DEF IInv, Respond, client, signals
<1>5. QED BY <1>2, <1>3, <1>4

\* The inductive invariant holds (Prompt!IInv): what each place of notify may rely
\* on, and that a body was handed to one address only.
THEOREM Inductive == Spec => []IInv
<1>1. Init => IInv
  BY NoneAssumption DEF Init, IInv, TypeOK, PlaceInv, BodyInv, Unsent, OutcomeInv
<1>2. ASSUME IInv, [Next]_vars PROVE IInv'
  <2>1. CASE UNCHANGED vars
    BY <1>2, <2>1 DEF IInv, TypeOK, PlaceInv, BodyInv, Unsent, OutcomeInv, vars, client,
       signals, servers
  <2>2. CASE Notify
    BY <1>2, <2>2, PreflightKeeps, SendingKeeps, EndingKeeps DEF Notify
  <2>3. CASE Interrupt \/ \E a \in Address: Decide(a) \/ Respond(a)
    BY <1>2, <2>3, AroundKeeps
  <2>4. QED BY <1>2, <2>1, <2>2, <2>3 DEF Next
<1>3. QED BY <1>1, <1>2, PTL DEF Spec

\* A server that accepts is the one that is tried, and has the body.
LEMMA Accepting ==
  ASSUME IInv, NEW a \in Address, decided[a] = "accepted"
  PROVE  a = at /\ asked
BY DEF IInv, BodyInv, Unsent

\* One server at most accepts the prompt (Prompt!OneServer).
THEOREM NoSecondServer == Spec => []OneServer
<1>1. IInv => OneServer
  BY Accepting DEF OneServer
<1>2. QED BY <1>1, Inductive, PTL

\* An early interrupt keeps the prompt from every server
\* (Prompt!InterruptKeepsPrompt).
THEOREM EarlyInterrupts == Spec => []InterruptKeepsPrompt
<1>1. IInv => InterruptKeepsPrompt
  BY Accepting DEF InterruptKeepsPrompt, IInv
<1>2. QED BY <1>1, Inductive, PTL

-----------------------------------------------------------------------------
(* The prompt implements OneAttempt.                                       *)

\* What OneAttempt sees of the prompt.
Accepted == \E a \in Address: decided[a] = "accepted"
Told == CASE outcome = "submitted" -> "done"
          [] outcome = "not_submitted" -> "denied"
          [] outcome = "unknown" -> "unknown"
          [] OTHER -> None

\* Effect and Verdict are these.
LEMMA Seen ==
  /\ Effect = [n \in {"prompt"} |-> IF Accepted THEN "ended" ELSE "none"]
  /\ Verdict = [n \in {"prompt"} |-> Told]
BY DEF Effect, Verdict, Accepted, Told

\* To return is to tell the truth of a prompt of which nothing was told.
LEMMA ReturnTells ==
  ASSUME IInv, IInv', UNCHANGED servers, outcome = None, outcome' # None
  PROVE  Attempts!Next
<1>1. Accepted' = Accepted /\ Effect' = Effect /\ Told = None
  BY NoneAssumption, Seen DEF Accepted, Told, servers, Effect
<1>2. Verdict["prompt"] = None /\ Verdict' = [Verdict EXCEPT !["prompt"] = Told']
  BY <1>1, Seen DEF Verdict, Told
<1>3. CASE outcome' = "submitted"
  <2>1. Accepted'
    BY <1>3, NoneAssumption DEF IInv, BodyInv, OutcomeInv, Accepted
  <2>2. Effect["prompt"] = "ended" /\ Told' = "done"
    BY <1>1, <1>3, <2>1, Seen DEF Told
  <2>3. Attempts!Report("prompt")
    BY <1>1, <1>2, <2>2 DEF Attempts!Report, Attempts!Tell
  <2>4. QED BY <2>3 DEF Attempts!Next
<1>4. CASE outcome' = "not_submitted"
  <2>1. ~Accepted'
    BY <1>4 DEF IInv, BodyInv, Unsent, OutcomeInv, Accepted
  <2>2. Effect["prompt"] = "none" /\ Told' = "denied"
    BY <1>1, <1>4, <2>1, Seen DEF Told
  <2>3. Attempts!Deny("prompt")
    BY <1>1, <1>2, <2>2 DEF Attempts!Deny, Attempts!Tell
  <2>4. QED BY <2>3 DEF Attempts!Next
<1>5. CASE outcome' = "unknown"
  <2>1. Told' = "unknown"
    BY <1>5 DEF Told
  <2>2. Attempts!Doubt("prompt")
    BY <1>1, <1>2, <2>1 DEF Attempts!Doubt, Attempts!Tell
  <2>3. QED BY <2>2 DEF Attempts!Next
<1>6. QED BY <1>3, <1>4, <1>5 DEF IInv, TypeOK

\* A step that returns nothing and decides nothing is a stutter.
LEMMA Stutter ==
  ASSUME decided' = decided, outcome' = outcome
  PROVE  UNCHANGED <<Effect, Verdict>>
BY DEF Effect, Verdict

\* A server that accepts runs the call, of which nothing was denied.
LEMMA DecideRuns ==
  ASSUME IInv, IInv', NEW a \in Address, Decide(a)
  PROVE  Attempts!Next \/ UNCHANGED <<Effect, Verdict>>
<1>1. outcome' = outcome /\ Verdict' = Verdict /\ at' = at /\ asked' = asked
  BY DEF Decide, client, Verdict
<1>2. CASE decided'[a] = "refused"
  <2>1. \A b \in Address: decided'[b] = "accepted" <=> decided[b] = "accepted"
    BY <1>2 DEF Decide, IInv, TypeOK
  <2>2. Effect' = Effect
    BY <2>1 DEF Effect
  <2>3. QED BY <1>1, <2>2
<1>3. CASE decided'[a] = "accepted"
  <2>1. Accepted' /\ a = at /\ asked
    BY <1>1, <1>3 DEF Accepted, IInv, BodyInv, Unsent
  <2>2. outcome # "not_submitted" /\ outcome # "submitted"
    BY <1>1, <2>1 DEF IInv, OutcomeInv, Decide
  <2>3. ~Accepted
    BY <2>1, Accepting DEF Accepted, Decide
  <2>4. Effect["prompt"] = "none" /\ Effect' = [Effect EXCEPT !["prompt"] = "ended"]
    BY <2>1, <2>3, Seen DEF Effect, Accepted
  <2>5. Verdict["prompt"] # "denied"
    BY <2>2, NoneAssumption, Seen DEF Told, IInv, TypeOK
  <2>6. Attempts!Run("prompt")
    BY <1>1, <2>4, <2>5 DEF Attempts!Run
  <2>7. QED BY <2>6 DEF Attempts!Next
<1>4. QED BY <1>2, <1>3 DEF Decide, IInv, TypeOK

\* A notice to OpenCode is sent once and told truthfully (Prompt!IsOneAttempt).
THEOREM PromptIsOneAttempt == Spec => IsOneAttempt
<1>1. ASSUME Init PROVE Attempts!Init
  <2>1. ~Accepted /\ Told = None
    BY <1>1, NoneAssumption DEF Init, Accepted, Told
  <2>2. QED BY <2>1, Seen DEF Attempts!Init
<1>2. ASSUME IInv, IInv', [Next]_vars PROVE [Attempts!Next]_<<Effect, Verdict>>
  <2>1. CASE UNCHANGED vars \/ Interrupt \/ \E a \in Address: Respond(a)
    <3>1. decided' = decided /\ outcome' = outcome
      BY <2>1 DEF vars, client, servers, Interrupt, Respond
    <3>2. QED BY <3>1, Stutter
  <2>2. ASSUME NEW a \in Address, Decide(a) PROVE [Attempts!Next]_<<Effect, Verdict>>
    BY <1>2, <2>2, DecideRuns
  <2>3. CASE Notify
    <3>1. decided' = decided
      BY <2>3 DEF Notify, Health, SessionInfo, StatusMap, Skip, Check, Resolve,
         NextAddress, Connect, SendHead, HandOver, SendBody, ReadAnswer, Fail, Ask,
         servers
    <3>2. CASE outcome' = outcome
      BY <3>1, <3>2, Stutter
    <3>3. CASE outcome' # outcome
      <4>1. place # "done" /\ UNCHANGED servers
        BY <2>3, <3>3 DEF Notify, Health, SessionInfo, StatusMap, Skip, Check, Resolve,
           NextAddress, Connect, SendHead, HandOver, SendBody, ReadAnswer, Fail, Ask,
           Goto
      <4>2. outcome = None /\ outcome' # None
        BY <1>2, <3>3, <4>1 DEF IInv, PlaceInv
      <4>3. QED BY <1>2, <4>1, <4>2, ReturnTells
    <3>4. QED BY <3>2, <3>3
  <2>4. QED BY <1>2, <2>1, <2>2, <2>3 DEF Next
<1>3. QED BY <1>1, <1>2, Inductive, PTL DEF Spec, IsOneAttempt, Attempts!Spec

-----------------------------------------------------------------------------
(* A notice that is handed over without a protocol.                        *)

\* What run_command is about to return was a failure to start, one after the start,
\* or what was printed.
LEMMA CommandResult ==
  ASSUME Handing!IInv, \/ Handing!SpawnFails \/ Handing!Spawn \/ Handing!Abandon
                       \/ Handing!Captured \/ Handing!Stopped \/ Handing!Finish
  PROVE  /\ hresult' \in {None} \cup [output: {"nothing", "receipt", "other"}]
                                \cup [error: Handing!Errors, started: BOOLEAN]
         /\ Handing!ResultInv'
<1> USE DEF Handing!IInv, Handing!Goto, Handing!run
<1> DEFINE Failure == [error: LateErrors \cup {"os_error", "interrupted", "command_timed_out"},
                       started: {TRUE}]
<1>1. CASE Handing!SpawnFails
  BY <1>1 DEF Handing!SpawnFails, Handing!TypeOK, Handing!PlaceInv, Handing!ResultInv,
     Handing!Errors
<1>2. CASE Handing!Spawn \/ Handing!Captured \/ Handing!Stopped
  BY <1>2 DEF Handing!Spawn, Handing!Captured, Handing!Stopped, Handing!TypeOK,
     Handing!ResultInv
<1>3. ASSUME hplace' = "parse", hresult' \in Failure
      PROVE  /\ hresult' \in [error: Handing!Errors, started: BOOLEAN]
             /\ Handing!ResultInv'
  <2>1. Handing!ResultInv'
    BY <1>3 DEF Handing!ResultInv
  <2>2. hresult' \in [error: Handing!Errors, started: BOOLEAN]
    BY <1>3 DEF Handing!Errors
  <2>3. QED BY <2>1, <2>2
<1>4. CASE Handing!Abandon
  <2>1. PICK e \in LateErrors: hresult' = [error |-> e, started |-> TRUE]
    BY <1>4 DEF Handing!Abandon, Handing!LateFailure
  <2>2. hplace' = "parse" /\ hresult' \in Failure
    BY <1>4, <2>1 DEF Handing!Abandon
  <2>3. QED BY <1>3, <2>2
<1>5. CASE Handing!Finish /\ hplace = "stop"
  <2>1. PICK e \in {"interrupted", "command_timed_out", "os_error"}:
          hresult' = [error |-> e, started |-> TRUE]
    BY <1>5 DEF Handing!Finish
  <2>2. hplace' = "parse" /\ hresult' \in Failure
    BY <1>5, <2>1 DEF Handing!Finish
  <2>3. QED BY <1>3, <2>2
<1>6. CASE Handing!Finish /\ hplace = "finish"
  <2>1. hresult' = [output |-> output] /\ output' = output
    BY <1>6 DEF Handing!Finish
  <2>2. output \in {"nothing", "receipt", "other"}
    BY DEF Handing!TypeOK
  <2>3. QED BY <2>1, <2>2 DEF Handing!ResultInv
<1>7. QED BY <1>1, <1>2, <1>4, <1>5, <1>6 DEF Handing!Finish

\* The command that notify runs decides nothing by itself.
LEMMA CommandKeeps ==
  ASSUME Handing!IInv, \/ Handing!SpawnFails \/ Handing!Spawn \/ Handing!Abandon
                       \/ Handing!Captured \/ Handing!Stopped \/ Handing!Finish
  PROVE  Handing!IInv' /\ (Handing!DeniedInv => Handing!DeniedInv')
<1> USE NoneAssumption DEF Handing!SpawnFails, Handing!Spawn, Handing!Abandon,
      Handing!Captured, Handing!Stopped, Handing!Finish, Handing!Goto, Handing!run
<1>1. UNCHANGED <<harness, hbound, current, houtcome, output, queued, frame>>
  OBVIOUS
<1>2. hplace # "done" /\ hplace' \in {"capture", "finish", "stop", "parse"}
  OBVIOUS
<1>3. /\ family' \in {"none", "running", "exited", "ended"}
      /\ family' = "none" => family = "none"
  BY DEF Handing!IInv, Handing!TypeOK
<1>4. Handing!TypeOK'
  BY <1>1, <1>2, <1>3, CommandResult DEF Handing!IInv, Handing!TypeOK
<1>5. Handing!PlaceInv'
  BY <1>1, <1>2 DEF Handing!IInv, Handing!PlaceInv
<1>6. Handing!EffectInv'
  BY <1>1, <1>2, <1>3 DEF Handing!IInv, Handing!TypeOK, Handing!EffectInv
<1>7. houtcome = None
  BY <1>2 DEF Handing!IInv, Handing!TypeOK
<1>8. QED BY <1>1, <1>4, <1>5, <1>6, <1>7, CommandResult DEF Handing!IInv, Handing!DeniedInv

\* What notify itself does changes neither the command nor its queue.
LEMMA NotifyKeeps ==
  ASSUME Handing!IInv, \/ Handing!Check \/ Handing!ParseQueue \/ Handing!ParseAgents
                       \/ Handing!Connect \/ Handing!Written
  PROVE  Handing!IInv'
<1> USE NoneAssumption DEF Handing!Check, Handing!ParseQueue, Handing!ParseAgents,
      Handing!Connect, Handing!Written, Handing!Goto, Handing!Return, Handing!run
<1>1. UNCHANGED <<harness, hbound, current, family, output, hresult, queued, frame>>
  OBVIOUS
<1>2. hplace' \in {"spawn", "connect", "write", "done"}
  OBVIOUS
<1>3. Handing!TypeOK'
  BY <1>1 DEF Handing!IInv, Handing!TypeOK, Handing!Unwritten
<1>4. Handing!PlaceInv'
  BY <1>1, <1>2 DEF Handing!IInv, Handing!PlaceInv
<1>5. Handing!ResultInv'
  BY <1>2 DEF Handing!ResultInv
<1>6. houtcome' = "submitted" => queued # None \/ frame = "whole"
  <2>1. CASE Handing!ParseQueue /\ Handing!SaysQueued
    <3>1. "output" \in DOMAIN hresult /\ hresult.output = "receipt" /\ hplace = "parse"
      BY <2>1 DEF Handing!SaysQueued, Handing!HasReceipt
    <3>2. \A E, B: \A r \in [error: E, started: B]: "output" \notin DOMAIN r
      OBVIOUS
    <3>3. hresult = [output |-> output]
      BY <3>1, <3>2 DEF Handing!IInv, Handing!ResultInv
    <3>4. output = "receipt"
      BY <3>1, <3>3
    <3>5. QED BY <3>4 DEF Handing!IInv, Handing!EffectInv
  <2>2. CASE ~(Handing!ParseQueue /\ Handing!SaysQueued)
    BY <2>2 DEF Handing!IInv, Handing!TypeOK, Handing!Unwritten
  <2>3. QED BY <2>1, <2>2
<1>7. Handing!EffectInv'
  BY <1>1, <1>2, <1>6 DEF Handing!IInv, Handing!EffectInv
<1>8. QED BY <1>3, <1>4, <1>5, <1>7 DEF Handing!IInv

\* The frame, the family of the command and the environment's database.
LEMMA AroundHandingKeeps ==
  ASSUME Handing!IInv, \/ Handing!Write \/ Handing!Queue \/ Handing!PrintLine
                       \/ Handing!LeaderExits \/ Handing!StoreMoves
  PROVE  Handing!IInv' /\ (Handing!DeniedInv => Handing!DeniedInv')
<1> USE NoneAssumption, OwnedAssumption DEF Handing!Goto, Handing!run
<1>1. CASE Handing!Write
  BY <1>1 DEF Handing!Write, Handing!IInv, Handing!TypeOK, Handing!PlaceInv,
     Handing!ResultInv, Handing!EffectInv, Handing!DeniedInv
<1>2. CASE Handing!Queue
  <2>1. Handing!Target \in Store
    BY DEF Handing!IInv, Handing!TypeOK, Handing!Target
  <2>2. UNCHANGED <<harness, hbound, current, hplace, houtcome, family, output, hresult, frame>>
    BY <1>2 DEF Handing!Queue
  <2>6. Handing!TypeOK'
    BY <1>2, <2>1, <2>2 DEF Handing!Queue, Handing!IInv, Handing!TypeOK
  <2>7. Handing!PlaceInv' /\ Handing!ResultInv'
    BY <2>2 DEF Handing!IInv, Handing!PlaceInv, Handing!ResultInv
  <2>3. Handing!EffectInv'
    BY <1>2, <2>1 DEF Handing!Queue, Handing!Target, Handing!IInv, Handing!EffectInv
  <2>4. Handing!DeniedInv => Handing!DeniedInv'
    BY <1>2 DEF Handing!Queue, Handing!DeniedInv
  <2>5. QED BY <2>3, <2>4, <2>6, <2>7 DEF Handing!IInv
<1>3. CASE Handing!PrintLine
  <2>1. Handing!TypeOK' /\ Handing!PlaceInv' /\ Handing!ResultInv'
    BY <1>3 DEF Handing!PrintLine, Handing!IInv, Handing!TypeOK, Handing!PlaceInv,
       Handing!ResultInv
  <2>2. Handing!EffectInv' /\ (Handing!DeniedInv => Handing!DeniedInv')
    BY <1>3 DEF Handing!PrintLine, Handing!IInv, Handing!EffectInv, Handing!DeniedInv
  <2>3. QED BY <2>1, <2>2 DEF Handing!IInv
<1>4. CASE Handing!LeaderExits \/ Handing!StoreMoves
  <2>1. /\ UNCHANGED <<harness, hbound, hplace, houtcome, output, hresult, queued, frame>>
        /\ family # "none" => family' # "none"
        /\ family = "none" => family' = "none"
    BY <1>4 DEF Handing!LeaderExits, Handing!StoreMoves
  <2>2. Handing!TypeOK'
    BY <1>4, <2>1 DEF Handing!LeaderExits, Handing!StoreMoves, Handing!IInv, Handing!TypeOK
  <2>3. Handing!PlaceInv' /\ Handing!ResultInv'
    BY <2>1 DEF Handing!IInv, Handing!PlaceInv, Handing!ResultInv
  <2>4. Handing!EffectInv' /\ (Handing!DeniedInv => Handing!DeniedInv')
    BY <2>1 DEF Handing!IInv, Handing!EffectInv, Handing!DeniedInv
  <2>5. QED BY <2>2, <2>3, <2>4 DEF Handing!IInv
<1>5. QED BY <1>1, <1>2, <1>3, <1>4

\* The inductive invariant of a hand-over holds (Handover!IInv): a notice is queued
\* by the family of codex queue only, in the captured store if there is one.
THEOREM HandingInductive == Handing!Spec => []Handing!IInv
<1>1. Handing!Init => Handing!IInv
  BY NoneAssumption, OwnedAssumption DEF Handing!Init, Handing!IInv, Handing!TypeOK,
     Handing!PlaceInv, Handing!ResultInv, Handing!EffectInv, Handing!run
<1>2. ASSUME Handing!IInv, [Handing!Next]_Handing!vars PROVE Handing!IInv'
  <2>1. CASE UNCHANGED Handing!vars
    <3>1. Handing!TypeOK'
      BY <1>2, <2>1 DEF Handing!vars, Handing!run, Handing!IInv, Handing!TypeOK
    <3>2. Handing!PlaceInv' /\ Handing!ResultInv' /\ Handing!EffectInv'
      BY <1>2, <2>1 DEF Handing!vars, Handing!run, Handing!IInv, Handing!PlaceInv,
         Handing!ResultInv, Handing!EffectInv
    <3>3. QED BY <3>1, <3>2 DEF Handing!IInv
  <2>2. CASE Handing!Next
    BY <1>2, <2>2, CommandKeeps, NotifyKeeps, AroundHandingKeeps
       DEF Handing!Next, Handing!Notify
  <2>3. QED BY <1>2, <2>1, <2>2
<1>3. QED BY <1>1, <1>2, PTL DEF Handing!Spec

\* A code of a command that could not be started is not of a later failure.
StartErrorsTell == LateErrors \cap Handing!StartErrors = {}

\* A notice that is told as not submitted was not started, or not written.
LEMMA NotifyDenies ==
  ASSUME StartErrorsTell, Handing!IInv,
         \/ Handing!Check \/ Handing!ParseQueue \/ Handing!ParseAgents
         \/ Handing!Connect \/ Handing!Written
  PROVE  Handing!DeniedInv'
<1> USE NoneAssumption DEF Handing!Goto, Handing!Return, Handing!run, Handing!IInv
<1>1. hplace # "done" /\ houtcome = None /\ UNCHANGED <<harness, family, queued, frame>>
  BY DEF Handing!Check, Handing!ParseQueue, Handing!ParseAgents, Handing!Connect,
     Handing!Written, Handing!TypeOK
<1>2. SUFFICES ASSUME houtcome' = "not_submitted"
               PROVE  queued = None /\ frame = "nothing" /\ (harness = "claude" \/ family = "none")
  BY <1>1 DEF Handing!DeniedInv
<1>3. CASE Handing!Check
  BY <1>3 DEF Handing!Check, Handing!PlaceInv, Handing!EffectInv
<1>4. CASE Handing!ParseAgents \/ Handing!Connect
  BY <1>4 DEF Handing!ParseAgents, Handing!Connect, Handing!PlaceInv, Handing!EffectInv
<1>5. CASE Handing!Written
  BY <1>1, <1>2, <1>5 DEF Handing!Written, Handing!Unwritten
<1>6. CASE Handing!ParseQueue
  <2>1. Handing!NotStarted /\ hplace = "parse" /\ harness = "codex"
    BY <1>1, <1>2, <1>6 DEF Handing!ParseQueue
  <2>2. \A e \in Handing!StartErrors:
          e \notin LateErrors \cup {"os_error", "interrupted", "command_timed_out"}
    BY DEF StartErrorsTell, Handing!StartErrors
  <2>3. \A L: hresult \in [error: L, started: {TRUE}] => hresult.error \in L
    OBVIOUS
  <2>4. "error" \notin DOMAIN [output |-> output]
    OBVIOUS
  <2>5. family = "none"
    BY <2>1, <2>2, <2>3, <2>4 DEF Handing!NotStarted, Handing!ResultInv
  <2>6. QED BY <2>1, <2>5 DEF Handing!EffectInv
<1>7. QED BY <1>3, <1>4, <1>5, <1>6

\* Nothing that is told as not submitted is on its way, if the codes tell a failure
\* to start from a later one (Handover!DeniedInv).
THEOREM HandingDenies ==
  ASSUME StartErrorsTell
  PROVE  Handing!Spec => []Handing!DeniedInv
<1>1. Handing!Init => Handing!DeniedInv
  BY NoneAssumption DEF Handing!Init, Handing!DeniedInv
<1>2. ASSUME StartErrorsTell, Handing!IInv, Handing!DeniedInv, [Handing!Next]_Handing!vars
      PROVE  Handing!DeniedInv'
  <2>1. CASE UNCHANGED Handing!vars
    BY <1>2, <2>1 DEF Handing!vars, Handing!run, Handing!DeniedInv
  <2>2. CASE Handing!Next
    BY <1>2, <2>2, CommandKeeps, NotifyDenies, AroundHandingKeeps
       DEF Handing!Next, Handing!Notify
  <2>3. QED BY <1>2, <2>1, <2>2
<1>3. QED BY <1>1, <1>2, HandingInductive, PTL DEF Handing!Spec

-----------------------------------------------------------------------------
(* The hand-over implements OneAttempt.                                    *)

\* What OneAttempt sees of a notice that is handed over.
HandedOver == IF queued # None \/ frame = "whole" THEN "ended"
              ELSE IF frame = "part" THEN "begun" ELSE "none"
HandingTold == CASE houtcome = "submitted" -> "done"
                 [] houtcome = "not_submitted" -> "denied"
                 [] houtcome = "unknown" -> "unknown"
                 [] OTHER -> None

\* Effect and Verdict of Handover are these.
LEMMA HandingSeen ==
  /\ Handing!Effect = [n \in {"notice"} |-> HandedOver]
  /\ Handing!Verdict = [n \in {"notice"} |-> HandingTold]
BY DEF Handing!Effect, Handing!Verdict, HandedOver, HandingTold

\* To return is to tell the truth of a notice of which nothing was told.
LEMMA HandingTells ==
  ASSUME Handing!IInv, Handing!IInv', Handing!DeniedInv',
         UNCHANGED <<queued, frame>>, houtcome = None, houtcome' # None
  PROVE  Handing!Attempts!Next
<1>1. Handing!Effect' = Handing!Effect /\ HandedOver' = HandedOver /\ HandingTold = None
  BY NoneAssumption DEF Handing!Effect, HandedOver, HandingTold
<1>2. /\ Handing!Verdict["notice"] = None
      /\ Handing!Verdict' = [Handing!Verdict EXCEPT !["notice"] = HandingTold']
      /\ Handing!Effect["notice"] = HandedOver
  BY <1>1, HandingSeen DEF Handing!Verdict, HandingTold
<1>3. CASE houtcome' = "submitted"
  <2>1. HandedOver = "ended" /\ HandingTold' = "done"
    BY <1>1, <1>3 DEF Handing!IInv, Handing!EffectInv, HandedOver, HandingTold
  <2>2. Handing!Attempts!Report("notice")
    BY <1>1, <1>2, <2>1 DEF Handing!Attempts!Report, Handing!Attempts!Tell
  <2>3. QED BY <2>2 DEF Handing!Attempts!Next
<1>4. CASE houtcome' = "not_submitted"
  <2>1. HandedOver = "none" /\ HandingTold' = "denied"
    BY <1>1, <1>4 DEF Handing!DeniedInv, HandedOver, HandingTold
  <2>2. Handing!Attempts!Deny("notice")
    BY <1>1, <1>2, <2>1 DEF Handing!Attempts!Deny, Handing!Attempts!Tell
  <2>3. QED BY <2>2 DEF Handing!Attempts!Next
<1>5. CASE houtcome' = "unknown"
  <2>1. HandingTold' = "unknown"
    BY <1>5 DEF HandingTold
  <2>2. Handing!Attempts!Doubt("notice")
    BY <1>1, <1>2, <2>1 DEF Handing!Attempts!Doubt, Handing!Attempts!Tell
  <2>3. QED BY <2>2 DEF Handing!Attempts!Next
<1>6. QED BY <1>3, <1>4, <1>5 DEF Handing!IInv, Handing!TypeOK

\* A step that hands over nothing and returns nothing is a stutter.
LEMMA HandingStutter ==
  ASSUME UNCHANGED <<queued, frame, houtcome>>
  PROVE  UNCHANGED <<Handing!Effect, Handing!Verdict>>
BY DEF Handing!Effect, Handing!Verdict

\* What is handed over is a notice that nothing had of before, and was not denied.
LEMMA HandingRuns ==
  ASSUME Handing!IInv, Handing!IInv', Handing!DeniedInv, Handing!Queue \/ Handing!Write
  PROVE  Handing!Attempts!Next \/ UNCHANGED <<Handing!Effect, Handing!Verdict>>
<1>1. houtcome' = houtcome
  BY DEF Handing!Queue, Handing!Write, Handing!Goto
<1>2. houtcome # "not_submitted" /\ queued = None /\ frame = "nothing"
  BY NoneAssumption DEF Handing!Queue, Handing!Write, Handing!IInv, Handing!TypeOK,
     Handing!PlaceInv, Handing!EffectInv, Handing!DeniedInv
<1>3. /\ Handing!Verdict' = Handing!Verdict /\ Handing!Verdict["notice"] # "denied"
      /\ Handing!Effect["notice"] = "none" /\ HandedOver = "none"
      /\ Handing!Effect' = [Handing!Effect EXCEPT !["notice"] = HandedOver']
  BY <1>1, <1>2, NoneAssumption, HandingSeen DEF Handing!Effect, Handing!Verdict,
     HandedOver, HandingTold
<1>4. CASE HandedOver' = "none"
  BY <1>1, <1>3, <1>4, HandingSeen
<1>5. CASE HandedOver' \in {"begun", "ended"}
  <2>1. Handing!Attempts!Run("notice")
    BY <1>3, <1>5 DEF Handing!Attempts!Run
  <2>2. QED BY <2>1 DEF Handing!Attempts!Next
<1>6. QED BY <1>4, <1>5 DEF HandedOver

\* A notice to Claude Code, or by codex queue, is handed over once and told
\* truthfully (Handover!IsOneAttempt).
THEOREM HandingIsOneAttempt ==
  ASSUME StartErrorsTell
  PROVE  Handing!Spec => Handing!IsOneAttempt
<1>1. ASSUME Handing!Init PROVE Handing!Attempts!Init
  <2>1. HandedOver = "none" /\ HandingTold = None
    BY <1>1, NoneAssumption DEF Handing!Init, HandedOver, HandingTold
  <2>2. QED BY <2>1, HandingSeen DEF Handing!Attempts!Init
<1>2. ASSUME Handing!IInv, Handing!IInv', Handing!DeniedInv, Handing!DeniedInv',
             [Handing!Next]_Handing!vars
      PROVE  [Handing!Attempts!Next]_<<Handing!Effect, Handing!Verdict>>
  <2>1. CASE Handing!Queue \/ Handing!Write
    BY <1>2, <2>1, HandingRuns
  <2>2. CASE \/ UNCHANGED Handing!vars \/ Handing!Abandon \/ Handing!PrintLine
             \/ Handing!LeaderExits \/ Handing!StoreMoves
    <3>1. UNCHANGED <<queued, frame, houtcome>>
      BY <2>2 DEF Handing!vars, Handing!Abandon, Handing!PrintLine, Handing!LeaderExits,
         Handing!StoreMoves, Handing!Goto
    <3>2. QED BY <3>1, HandingStutter
  <2>3. CASE Handing!Notify /\ ~Handing!Write
    <3>1. /\ UNCHANGED <<queued, frame>>
          /\ houtcome' = houtcome \/ hplace # "done"
      BY <2>3 DEF Handing!Notify, Handing!SpawnFails, Handing!Spawn, Handing!Captured,
         Handing!Stopped, Handing!Finish, Handing!Check, Handing!ParseQueue,
         Handing!ParseAgents, Handing!Connect, Handing!Written, Handing!run,
         Handing!Goto
    <3>2. CASE houtcome' = houtcome
      BY <3>1, <3>2, HandingStutter
    <3>3. CASE houtcome' # houtcome
      <4>1. houtcome = None /\ houtcome' # None
        BY <1>2, <3>1, <3>3 DEF Handing!IInv, Handing!TypeOK
      <4>2. QED BY <1>2, <3>1, <4>1, HandingTells
    <3>4. QED BY <3>2, <3>3
  <2>4. QED BY <1>2, <2>1, <2>2, <2>3 DEF Handing!Next
<1>3. QED BY <1>1, <1>2, HandingInductive, HandingDenies, PTL
          DEF Handing!Spec, Handing!IsOneAttempt, Handing!Attempts!Spec

-----------------------------------------------------------------------------
(* An operation of a Codex app server.                                     *)

\* The requests of an operation: the change, if there is one, is the last.
LEMMA Requests ==
  ASSUME op \in Asking!Op
  PROVE  /\ Asking!Change \in {0, 2, 3} /\ Asking!Last \in 1..MaxCall
         /\ Asking!Change > 0 => Asking!Last = Asking!Change
         /\ op = "scan" => Asking!Change = 0
         /\ Asking!Deletes => Asking!Change > 0
BY RpcAssumption DEF Asking!Op, Asking!Change, Asking!Last, Asking!Deletes

\* They are of the operation alone, as is the receipt that it needs.
LEMMA RequestsKept ==
  ASSUME UNCHANGED <<op, rbound, receipt>>
  PROVE  UNCHANGED <<Asking!Change, Asking!Last, Asking!Deletes, Asking!Confirmed>>
BY DEF Asking!Change, Asking!Last, Asking!Deletes, Asking!Confirmed

\* Opening a connection writes nothing, and is of the selected listener when the
\* second look at it succeeds.
LEMMA OpeningKeeps ==
  ASSUME Asking!IInv, \/ Asking!Receipt \/ Asking!Check \/ Asking!Connect
                      \/ Asking!Recheck \/ Asking!Refuse
  PROVE  Asking!IInv'
<1> USE NoneAssumption, RpcAssumption DEF Asking!IInv, Asking!Receipt, Asking!Check,
      Asking!Connect, Asking!Recheck, Asking!Refuse, Asking!fixed
<1>1. /\ UNCHANGED <<op, rbound, receipt, listener, counter, attempted, partial, taken, rwire,
                     frames, effect>>
      /\ counter = 0 /\ rplace # "done"
  BY DEF Asking!PlaceInv
<1>2. /\ UNCHANGED <<Asking!Change, Asking!Last, Asking!Deletes, Asking!Confirmed>>
      /\ Asking!Last \in 1..MaxCall
  BY <1>1, Requests, RequestsKept DEF Asking!TypeOK
<1>3. ~attempted /\ (Asking!Change > 0 => counter < Asking!Change)
  BY <1>1, Requests DEF Asking!TypeOK, Asking!WireInv
<1>4. Asking!TypeOK'
  BY <1>1 DEF Asking!TypeOK
<1>5. Asking!PlaceInv'
  BY <1>1, <1>2, Requests DEF Asking!TypeOK, Asking!PlaceInv, Asking!Deletes, Asking!Confirmed
<1>6. Asking!ListenerInv'
  BY <1>1 DEF Asking!TypeOK, Asking!ListenerInv, Asking!SameListener
<1>7. Asking!WireInv' /\ Asking!FrameInv' /\ Asking!OwnReply'
  BY <1>1, <1>2 DEF Asking!WireInv, Asking!FrameInv, Asking!OwnReply
<1>8. Asking!OutcomeInv'
  BY <1>1, <1>2, <1>3 DEF Asking!OutcomeInv, Asking!PlaceInv
<1>9. QED BY <1>4, <1>5, <1>6, <1>7, <1>8

\* A request is numbered, and that of the change noted, as it is written or not.
LEMMA SendingRequestKeeps ==
  ASSUME Asking!IInv, Asking!Send \/ Asking!SendFails \/ Asking!Skip
  PROVE  Asking!IInv'
<1> USE DEF Asking!IInv
<1>1. /\ UNCHANGED <<op, rbound, receipt, listener, conn, routcome, taken, frames, effect>>
      /\ rplace = "call" /\ rplace' \in {"recv", "close"}
      /\ rresult' \in {rresult, "failed"}
  BY DEF Asking!Send, Asking!SendFails, Asking!Skip, Asking!fixed
<1>2. counter \in Nat /\ counter < Asking!Last /\ counter < MaxCall /\ MaxCall \in Nat
  BY <1>1, Requests, RpcAssumption DEF Asking!TypeOK, Asking!PlaceInv
<1>3. /\ UNCHANGED <<Asking!Change, Asking!Last, Asking!Deletes, Asking!Confirmed>>
      /\ Asking!Last \in 1..MaxCall /\ Asking!Change \in {0, 2, 3}
      /\ Asking!Change > 0 => Asking!Last = Asking!Change
  BY <1>1, Requests, RequestsKept DEF Asking!TypeOK
<1>4. \/ /\ counter' = counter + 1
         /\ attempted' = (attempted \/ counter + 1 = Asking!Change)
         /\ rwire' \in {rwire, rwire \cup {counter + 1}}
         /\ partial' \in {partial, 0, counter + 1}
      \/ rplace' = "close" /\ UNCHANGED <<counter, attempted, rwire, partial>>
  BY DEF Asking!Send, Asking!SendFails, Asking!Skip, Asking!Attempted
<1>5. counter' \in {counter, counter + 1} /\ (rplace' = "recv" => counter' = counter + 1)
  BY <1>1, <1>4
<1>6. attempted' \in BOOLEAN
  BY <1>4 DEF Asking!TypeOK
<1>7. /\ rwire' \subseteq 1..counter' /\ partial' <= counter'
      /\ partial' \in Nat /\ counter' \in 0..MaxCall
  <2>1. rwire \subseteq 1..counter /\ partial \in Nat /\ partial <= counter
    BY DEF Asking!TypeOK, Asking!WireInv
  <2>2. CASE counter' = counter + 1
    <3>1. rwire' \subseteq rwire \cup {counter + 1} /\ partial' \in {partial, 0, counter + 1}
      BY <1>4
    <3>2. rwire \cup {counter + 1} \subseteq 1..(counter + 1)
      BY <1>2, <2>1
    <3>3. QED BY <1>2, <2>1, <2>2, <3>1, <3>2
  <2>3. CASE UNCHANGED <<counter, rwire, partial>>
    BY <1>2, <2>1, <2>3
  <2>4. QED BY <1>4, <2>2, <2>3
<1>8. Asking!TypeOK'
  <2>1. partial' \in 0..MaxCall /\ rwire' \subseteq 1..MaxCall
    BY <1>2, <1>7
  <2>2. QED BY <1>1, <1>6, <1>7, <2>1 DEF Asking!TypeOK
<1>9. Asking!PlaceInv'
  BY <1>1, <1>2, <1>3, <1>5 DEF Asking!PlaceInv
<1>10. Asking!ListenerInv'
  BY <1>1 DEF Asking!ListenerInv
<1>11. Asking!WireInv'
  <2>1. /\ Asking!Change > 0 => (attempted' <=> counter' >= Asking!Change)
        /\ Asking!Change = 0 => ~attempted'
    <3>1. \/ counter' = counter + 1 /\ (attempted' <=> attempted \/ counter + 1 = Asking!Change)
          \/ counter' = counter /\ (attempted' <=> attempted)
      BY <1>4
    <3>2. QED BY <1>2, <1>3, <3>1 DEF Asking!WireInv
  <2>2. QED BY <1>3, <1>7, <2>1 DEF Asking!WireInv
<1>12. Asking!FrameInv' /\ Asking!OwnReply'
  BY <1>1, <1>2, <1>3, <1>5 DEF Asking!TypeOK, Asking!FrameInv, Asking!OwnReply
<1>13. Asking!OutcomeInv'
  <2>1. effect = "ended" => attempted'
    BY <1>4 DEF Asking!OutcomeInv
  <2>2. routcome = None
    BY <1>1 DEF Asking!PlaceInv
  <2>3. QED BY <1>1, <1>3, <2>1, <2>2, NoneAssumption, RpcAssumption DEF Asking!OutcomeInv
<1>14. QED BY <1>8, <1>9, <1>10, <1>11, <1>12, <1>13

\* What is read is of the last request, or is not taken for its reply.
LEMMA RecvKeeps ==
  ASSUME Asking!IInv, Asking!Recv
  PROVE  Asking!IInv'
<1> USE NoneAssumption, RpcAssumption DEF Asking!IInv, Asking!fixed
<1>1. PICK f \in frames:
        /\ frames' = frames \ {f}
        /\ \/ /\ f.kind = "result" /\ f.id = counter
              /\ taken' = [taken EXCEPT ![counter] = f.of]
              /\ Asking!Answered(FALSE) \/ Asking!Answered(TRUE)
           \/ taken' = taken /\ Asking!Answered(FALSE)
           \/ UNCHANGED <<rplace, rresult, taken>>
  <2>1. \A f \in frames: f.kind \in {"result", "error", "request", "junk"}
    BY DEF Asking!TypeOK, Asking!Frames
  <2>2. QED BY <2>1 DEF Asking!Recv, Asking!SameId
<1>2. /\ UNCHANGED <<op, rbound, receipt, listener, conn, counter, attempted, routcome,
                     partial, rwire, effect>>
      /\ rplace = "recv" /\ counter \in 1..Asking!Last
  BY DEF Asking!Recv, Asking!PlaceInv
<1>3. /\ UNCHANGED <<Asking!Change, Asking!Last, Asking!Deletes, Asking!Confirmed>>
      /\ Asking!Last \in 1..MaxCall /\ Asking!Change \in {0, 2, 3}
      /\ Asking!Change > 0 => Asking!Last = Asking!Change
      /\ op = "scan" => Asking!Change = 0
  BY <1>2, Requests, RequestsKept DEF Asking!TypeOK
<1>4. \/ UNCHANGED <<rplace, rresult>>
      \/ rplace' = "call" /\ counter < Asking!Last /\ rresult' = rresult
      \/ rplace' = "close" /\ rresult' \in {"ok", "failed"}
  BY <1>1 DEF Asking!Answered
<1>5. f.kind = "result" => f.of = f.id
  BY <1>1 DEF Asking!FrameInv
<1>6. counter \in 1..MaxCall
  BY <1>2, <1>3
<1>7. taken' = taken \/ taken' = [taken EXCEPT ![counter] = counter]
  BY <1>1, <1>5
<1>8. Asking!TypeOK'
  <2>1. taken' \in [1..MaxCall -> 0..MaxCall]
    BY <1>6, <1>7 DEF Asking!TypeOK
  <2>2. /\ frames' \subseteq Asking!Frames
        /\ rplace' \in {"recv", "call", "close"} /\ rresult' \in {"none", "ok", "failed"}
    BY <1>1, <1>2, <1>4 DEF Asking!TypeOK
  <2>3. QED BY <1>2, <2>1, <2>2 DEF Asking!TypeOK
<1>9. Asking!PlaceInv'
  BY <1>2, <1>3, <1>4 DEF Asking!PlaceInv
<1>10. Asking!ListenerInv'
  BY <1>2, <1>4 DEF Asking!ListenerInv
<1>11. Asking!WireInv' /\ Asking!FrameInv'
  BY <1>1, <1>2, <1>3 DEF Asking!WireInv, Asking!FrameInv
<1>12. Asking!OwnReply'
  BY <1>6, <1>7 DEF Asking!OwnReply, Asking!TypeOK
<1>13. rresult' = "ok" /\ Asking!Change > 0 => effect = "ended"
  <2>1. SUFFICES ASSUME rresult' = "ok", Asking!Change > 0, rresult # "ok"
                 PROVE  effect = "ended"
    BY DEF Asking!OutcomeInv
  <2>2. ~Asking!Answered(FALSE)
    BY <1>3, <2>1 DEF Asking!Answered, Asking!Tolerates
  <2>3. f.kind = "result" /\ f.id = counter /\ counter >= Asking!Last
    BY <1>1, <1>2, <1>3, <2>1, <2>2 DEF Asking!Answered
  <2>4. f.id = Asking!Change
    BY <1>2, <1>3, <2>1, <2>3
  <2>5. QED BY <1>1, <2>3, <2>4 DEF Asking!FrameInv
<1>14. Asking!OutcomeInv'
  BY <1>2, <1>3, <1>13 DEF Asking!OutcomeInv, Asking!PlaceInv
<1>15. QED BY <1>8, <1>9, <1>10, <1>11, <1>12, <1>14

\* Giving up and closing write nothing that was not numbered.
LEMMA ClosingKeeps ==
  ASSUME Asking!IInv, \/ Asking!Timeout \/ Asking!Broken \/ Asking!Close
                      \/ Asking!HangUp \/ Asking!EndServer
  PROVE  Asking!IInv'
<1> USE NoneAssumption, RpcAssumption DEF Asking!IInv, Asking!Timeout, Asking!Broken,
      Asking!Close, Asking!HangUp, Asking!EndServer, Asking!fixed
<1>1. /\ UNCHANGED <<op, rbound, receipt, listener, conn, counter, attempted, routcome, taken,
                     effect>>
      /\ rplace \notin {"done", "receipt", "check", "connect", "recheck"}
      /\ rplace' \in {"close", "grace", "tell"}
      /\ rresult' \in {rresult, "failed"}
      /\ partial' \in {partial, 0} /\ frames' \subseteq frames
      /\ rwire' \subseteq IF partial = 0 THEN rwire ELSE rwire \cup {partial}
  OBVIOUS
<1>2. /\ UNCHANGED <<Asking!Change, Asking!Last, Asking!Deletes, Asking!Confirmed>>
      /\ Asking!Last \in 1..MaxCall
  BY <1>1, Requests, RequestsKept DEF Asking!TypeOK
<1>3. Asking!TypeOK'
  BY <1>1 DEF Asking!TypeOK
<1>4. Asking!PlaceInv' /\ Asking!ListenerInv'
  BY <1>1, <1>2 DEF Asking!PlaceInv, Asking!ListenerInv
<1>5. Asking!WireInv'
  BY <1>1, <1>2 DEF Asking!TypeOK, Asking!WireInv
<1>6. Asking!FrameInv' /\ Asking!OwnReply'
  BY <1>1, <1>2 DEF Asking!FrameInv, Asking!OwnReply
<1>7. Asking!OutcomeInv'
  BY <1>1, <1>2 DEF Asking!OutcomeInv, Asking!PlaceInv
<1>8. QED BY <1>3, <1>4, <1>5, <1>6, <1>7

\* What is told is what the operation has got, or that the change was not begun.
LEMMA TellKeeps ==
  ASSUME Asking!IInv, Asking!Tell
  PROVE  Asking!IInv'
<1> USE NoneAssumption, RpcAssumption DEF Asking!IInv, Asking!Tell, Asking!fixed
<1>1. /\ UNCHANGED <<op, rbound, receipt, listener, conn, counter, attempted, rresult, taken,
                     partial, rwire, frames, effect>>
      /\ rplace' = "done"
      /\ routcome' = IF rresult = "ok" THEN "done" ELSE IF attempted THEN "unknown"
                     ELSE "denied"
  OBVIOUS
<1>2. UNCHANGED <<Asking!Change, Asking!Last, Asking!Deletes, Asking!Confirmed>>
  BY <1>1, RequestsKept
<1>3. Asking!TypeOK'
  BY <1>1 DEF Asking!TypeOK
<1>4. Asking!PlaceInv' /\ Asking!ListenerInv'
  BY <1>1, <1>2 DEF Asking!PlaceInv, Asking!ListenerInv
<1>5. Asking!WireInv' /\ Asking!FrameInv' /\ Asking!OwnReply'
  BY <1>1, <1>2 DEF Asking!WireInv, Asking!FrameInv, Asking!OwnReply
<1>6. Asking!OutcomeInv'
  BY <1>1, <1>2 DEF Asking!OutcomeInv
<1>7. QED BY <1>3, <1>4, <1>5, <1>6

\* The server, and whoever replaces it.
LEMMA ServerKeeps ==
  ASSUME Asking!IInv, Asking!Stray \/ Asking!Replace \/ \E n \in rwire: Asking!Handle(n)
  PROVE  Asking!IInv'
<1> USE NoneAssumption, RpcAssumption DEF Asking!IInv, Asking!fixed, Asking!client
<1>1. /\ UNCHANGED <<op, rbound, receipt, rplace, conn, counter, attempted, rresult, routcome,
                     partial, taken>>
      /\ listener' \in {listener, listener + 1} /\ rwire' \subseteq rwire
      /\ effect = "ended" => effect' = "ended"
  BY DEF Asking!Stray, Asking!Replace, Asking!Handle, Asking!TypeOK
<1>2. /\ UNCHANGED <<Asking!Change, Asking!Last, Asking!Deletes, Asking!Confirmed>>
      /\ Asking!Last \in 1..MaxCall /\ Asking!Change \in {0, 2, 3}
  BY <1>1, Requests, RequestsKept DEF Asking!TypeOK
<1>3. Asking!PlaceInv' /\ Asking!WireInv' /\ Asking!OwnReply'
  BY <1>1, <1>2 DEF Asking!PlaceInv, Asking!WireInv, Asking!OwnReply
<1>4. Asking!ListenerInv'
  BY <1>1 DEF Asking!ListenerInv, Asking!TypeOK
<1>5. CASE Asking!Replace
  <2>1. UNCHANGED <<rwire, frames, effect>> /\ listener' \in 0..MaxListener
    BY <1>5 DEF Asking!Replace, Asking!TypeOK
  <2>2. Asking!TypeOK'
    BY <1>1, <2>1 DEF Asking!TypeOK
  <2>3. Asking!FrameInv' /\ Asking!OutcomeInv'
    BY <1>1, <1>2, <2>1 DEF Asking!FrameInv, Asking!OutcomeInv
  <2>4. QED BY <1>3, <1>4, <2>2, <2>3
<1>6. CASE Asking!Stray
  <2>1. PICK f \in [id: 1..MaxCall, of: {0}, kind: {"request"}] \cup
                   [id: {0}, of: {0}, kind: {"junk"}]: frames' = frames \cup {f}
    BY <1>6 DEF Asking!Stray
  <2>2. f \in Asking!Frames /\ f.kind # "result"
    BY <2>1 DEF Asking!Frames
  <2>3. UNCHANGED <<listener, rwire, effect>>
    BY <1>6 DEF Asking!Stray
  <2>4. Asking!TypeOK'
    BY <1>1, <2>1, <2>2, <2>3 DEF Asking!TypeOK
  <2>5. Asking!FrameInv' /\ Asking!OutcomeInv'
    BY <1>1, <1>2, <2>1, <2>2, <2>3 DEF Asking!FrameInv, Asking!OutcomeInv
  <2>6. QED BY <1>3, <1>4, <2>4, <2>5
<1>7. ASSUME NEW n \in rwire, Asking!Handle(n) PROVE Asking!IInv'
  <2>1. /\ listener' = listener /\ n \in 1..MaxCall /\ n \in 1..counter
        /\ effect' \in {"none", "ended"}
        /\ effect' # effect => n = Asking!Change
    BY <1>7 DEF Asking!Handle, Asking!TypeOK, Asking!WireInv
  <2>2. \/ frames' = frames
        \/ \E k \in {"result", "error"}:
             /\ k = "result" /\ n = Asking!Change => effect' = "ended"
             /\ frames' = frames \cup {[id |-> n, of |-> n, kind |-> k]}
    BY <1>7 DEF Asking!Handle
  <2>3. \A k \in {"result", "error"}: [id |-> n, of |-> n, kind |-> k] \in Asking!Frames
    BY <2>1 DEF Asking!Frames
  <2>4. Asking!TypeOK'
    <3>1. frames' \subseteq Asking!Frames
      BY <2>2, <2>3 DEF Asking!TypeOK
    <3>2. rwire' \subseteq 1..MaxCall
      BY <1>1 DEF Asking!TypeOK
    <3>3. UNCHANGED <<op, rbound, receipt, listener, rplace, conn, counter, attempted, rresult,
                      routcome, partial, taken>>
      BY <1>1, <2>1
    <3>4. effect' \in {"none", "ended"}
      BY <2>1
    <3>5. QED BY <3>1, <3>2, <3>3, <3>4 DEF Asking!TypeOK
  <2>5. Asking!FrameInv'
    BY <1>1, <1>2, <2>1, <2>2 DEF Asking!FrameInv
  <2>6. effect' = "ended" => attempted
    BY <2>1, <1>2 DEF Asking!OutcomeInv, Asking!WireInv, Asking!TypeOK
  <2>7. Asking!OutcomeInv'
    BY <1>1, <1>2, <2>6 DEF Asking!OutcomeInv
  <2>8. QED BY <1>3, <1>4, <2>4, <2>5, <2>7
<1>8. QED BY <1>5, <1>6, <1>7

\* The inductive invariant of an operation of the app server holds (Rpc!IInv).
THEOREM AskingInductive == Asking!Spec => []Asking!IInv
<1>1. ASSUME Asking!Init PROVE Asking!IInv
  <2>1. Asking!TypeOK
    <3>1. taken \in [1..MaxCall -> 0..MaxCall] /\ counter \in 0..MaxCall /\ partial \in 0..MaxCall
      BY <1>1, RpcAssumption DEF Asking!Init
    <3>2. op \in Asking!Op /\ rbound \in {None, 0} /\ receipt \in {"socket", "cli", "pending", "none"}
      BY <1>1 DEF Asking!Init
    <3>3. /\ listener \in 0..MaxListener /\ conn = None /\ routcome = None
          /\ attempted \in BOOLEAN /\ rwire = {} /\ frames = {}
          /\ effect \in {"none", "ended"} /\ rresult \in {"none", "ok", "failed"}
          /\ rplace \in {"receipt", "check"}
      BY <1>1 DEF Asking!Init
    <3>4. QED BY <3>1, <3>2, <3>3 DEF Asking!TypeOK
  <2>2. Asking!Last \in 1..MaxCall /\ Asking!Change \in {0, 2, 3}
    BY <2>1, Requests DEF Asking!TypeOK
  <2>3. Asking!PlaceInv
    BY <1>1, <2>2, RpcAssumption DEF Asking!Init, Asking!PlaceInv, Asking!Deletes
  <2>4. Asking!ListenerInv /\ Asking!WireInv /\ Asking!FrameInv /\ Asking!OwnReply
    BY <1>1, <2>2 DEF Asking!Init, Asking!ListenerInv, Asking!WireInv, Asking!FrameInv,
       Asking!OwnReply
  <2>5. Asking!OutcomeInv
    BY <1>1, RpcAssumption DEF Asking!Init, Asking!OutcomeInv
  <2>6. QED BY <2>1, <2>3, <2>4, <2>5 DEF Asking!IInv
<1>2. ASSUME Asking!IInv, [Asking!Next]_Asking!vars PROVE Asking!IInv'
  <2>1. CASE UNCHANGED Asking!vars
    <3>1. UNCHANGED <<op, rbound, receipt, listener, rplace, conn, counter, attempted, rresult,
                      routcome, partial, rwire, frames, effect, taken>>
      BY <2>1 DEF Asking!vars, Asking!fixed, Asking!client
    <3>2. UNCHANGED <<Asking!Change, Asking!Last, Asking!Deletes, Asking!Confirmed>>
      BY <3>1, RequestsKept
    <3>3. Asking!TypeOK'
      BY <1>2, <3>1 DEF Asking!IInv, Asking!TypeOK
    <3>4. Asking!PlaceInv' /\ Asking!ListenerInv' /\ Asking!WireInv'
      BY <1>2, <3>1, <3>2 DEF Asking!IInv, Asking!PlaceInv, Asking!ListenerInv, Asking!WireInv
    <3>5. Asking!FrameInv' /\ Asking!OwnReply' /\ Asking!OutcomeInv'
      BY <1>2, <3>1, <3>2 DEF Asking!IInv, Asking!FrameInv, Asking!OwnReply, Asking!OutcomeInv
    <3>6. QED BY <3>3, <3>4, <3>5 DEF Asking!IInv
  <2>2. CASE Asking!Next
    BY <1>2, <2>2, OpeningKeeps, SendingRequestKeeps, RecvKeeps, ClosingKeeps, TellKeeps,
       ServerKeeps DEF Asking!Next, Asking!Client, Asking!Fails
  <2>3. QED BY <1>2, <2>1, <2>2
<1>3. QED BY <1>1, <1>2, PTL DEF Asking!Spec

-----------------------------------------------------------------------------
(* An operation of the app server implements OneAttempt.                   *)

\* What OneAttempt sees of what is told of the change.
AskingTold == IF Asking!Change = 0 THEN None
              ELSE IF routcome \in {"pending", "skipped"} THEN "denied" ELSE routcome

\* Effect and Verdict of Rpc are these.
LEMMA AskingSeen ==
  /\ Asking!Effect = [c \in {"change"} |-> effect]
  /\ Asking!Verdict = [c \in {"change"} |-> AskingTold]
BY DEF Asking!Effect, Asking!Verdict, AskingTold

\* A step that changes no queue and tells nothing is a stutter.
LEMMA AskingStutter ==
  ASSUME UNCHANGED <<op, effect, routcome>>
  PROVE  UNCHANGED <<Asking!Effect, Asking!Verdict>>
BY DEF Asking!Effect, Asking!Verdict, Asking!Change

\* To tell an outcome is to tell the truth of a change of which nothing was told.
LEMMA AskingTells ==
  ASSUME Asking!IInv, Asking!IInv', UNCHANGED <<op, rbound, receipt, effect, attempted>>,
         routcome = None, routcome' # None
  PROVE  Asking!Attempts!Next \/ UNCHANGED <<Asking!Effect, Asking!Verdict>>
<1>1. UNCHANGED Asking!Change /\ Asking!Change \in {0, 2, 3}
  BY RequestsKept, Requests DEF Asking!IInv, Asking!TypeOK
<1>2. CASE Asking!Change = 0
  <2>1. UNCHANGED <<effect, AskingTold>>
    BY <1>1, <1>2 DEF AskingTold
  <2>2. QED BY <2>1, AskingSeen DEF Asking!Effect, Asking!Verdict, AskingTold
<1>3. CASE Asking!Change > 0
  <2>1. /\ Asking!Verdict["change"] = None /\ Asking!Effect' = Asking!Effect
        /\ Asking!Verdict' = [Asking!Verdict EXCEPT !["change"] = AskingTold']
        /\ Asking!Effect["change"] = effect
    BY <1>1, <1>3, RpcAssumption, AskingSeen DEF Asking!Effect, Asking!Verdict, AskingTold
  <2>2. CASE routcome' = "done"
    <3>1. effect = "ended" /\ AskingTold' = "done"
      BY <1>1, <1>3, <2>2 DEF Asking!IInv, Asking!OutcomeInv, AskingTold
    <3>2. Asking!Attempts!Report("change")
      BY <2>1, <3>1 DEF Asking!Attempts!Report, Asking!Attempts!Tell
    <3>3. QED BY <3>2 DEF Asking!Attempts!Next
  <2>3. CASE routcome' \in {"denied", "pending", "skipped"}
    <3>1. effect = "none" /\ AskingTold' = "denied"
      BY <1>1, <1>3, <2>3 DEF Asking!IInv, Asking!TypeOK, Asking!OutcomeInv, AskingTold
    <3>2. Asking!Attempts!Deny("change")
      BY <2>1, <3>1 DEF Asking!Attempts!Deny, Asking!Attempts!Tell
    <3>3. QED BY <3>2 DEF Asking!Attempts!Next
  <2>4. CASE routcome' = "unknown"
    <3>1. AskingTold' = "unknown"
      BY <1>1, <1>3, <2>4 DEF AskingTold
    <3>2. Asking!Attempts!Doubt("change")
      BY <2>1, <3>1 DEF Asking!Attempts!Doubt, Asking!Attempts!Tell
    <3>3. QED BY <3>2 DEF Asking!Attempts!Next
  <2>5. QED BY <2>2, <2>3, <2>4 DEF Asking!IInv, Asking!TypeOK
<1>4. QED BY <1>1, <1>2, <1>3

\* The server makes a change that was asked for, and of that nothing was denied.
LEMMA AskingRuns ==
  ASSUME Asking!IInv, Asking!IInv', NEW n \in rwire, Asking!Handle(n)
  PROVE  Asking!Attempts!Next \/ UNCHANGED <<Asking!Effect, Asking!Verdict>>
<1>1. UNCHANGED <<op, rbound, receipt, routcome, attempted>>
  BY DEF Asking!Handle, Asking!fixed, Asking!client
<1>2. UNCHANGED Asking!Change /\ Asking!Change \in {0, 2, 3}
  BY <1>1, RequestsKept, Requests DEF Asking!IInv, Asking!TypeOK
<1>3. CASE effect' = effect
  BY <1>1, <1>3, AskingStutter
<1>4. CASE effect' # effect
  <2>1. effect = "none" /\ effect' = "ended" /\ attempted
    BY <1>1, <1>4 DEF Asking!Handle, Asking!IInv, Asking!TypeOK, Asking!OutcomeInv
  <2>2. routcome \notin {"denied", "pending", "skipped"}
    BY <2>1 DEF Asking!IInv, Asking!OutcomeInv
  <2>3. Asking!Verdict' = Asking!Verdict /\ Asking!Verdict["change"] # "denied"
    BY <1>1, <1>2, <2>2, RpcAssumption, AskingSeen DEF Asking!Verdict, AskingTold
  <2>4. /\ Asking!Effect["change"] = "none"
        /\ Asking!Effect' = [Asking!Effect EXCEPT !["change"] = "ended"]
    BY <2>1, AskingSeen DEF Asking!Effect
  <2>5. Asking!Attempts!Run("change")
    BY <2>3, <2>4 DEF Asking!Attempts!Run
  <2>6. QED BY <2>5 DEF Asking!Attempts!Next
<1>5. QED BY <1>3, <1>4

\* A queue is changed once and that is told truthfully (Rpc!IsOneAttempt).
THEOREM AskingIsOneAttempt == Asking!Spec => Asking!IsOneAttempt
<1>1. ASSUME Asking!Init PROVE Asking!Attempts!Init
  <2>1. effect = "none" /\ AskingTold = None
    BY <1>1, RpcAssumption DEF Asking!Init, AskingTold
  <2>2. QED BY <2>1, AskingSeen DEF Asking!Attempts!Init
<1>2. ASSUME Asking!IInv, Asking!IInv', [Asking!Next]_Asking!vars
      PROVE  [Asking!Attempts!Next]_<<Asking!Effect, Asking!Verdict>>
  <2>1. CASE Asking!Receipt \/ Asking!Tell
    <3>1. UNCHANGED <<op, rbound, receipt, effect, attempted>> /\ rplace # "done"
      BY <2>1 DEF Asking!Receipt, Asking!Tell, Asking!fixed
    <3>2. CASE routcome' = routcome
      BY <3>1, <3>2, AskingStutter
    <3>3. CASE routcome' # routcome
      BY <1>2, <3>1, <3>3, AskingTells DEF Asking!IInv, Asking!PlaceInv
    <3>4. QED BY <3>2, <3>3
  <2>2. ASSUME NEW n \in rwire, Asking!Handle(n)
        PROVE  [Asking!Attempts!Next]_<<Asking!Effect, Asking!Verdict>>
    BY <1>2, <2>2, AskingRuns
  <2>3. CASE \/ UNCHANGED Asking!vars \/ Asking!Check \/ Asking!Connect \/ Asking!Recheck
             \/ Asking!Send \/ Asking!Recv \/ Asking!Close \/ Asking!HangUp
             \/ Asking!EndServer \/ Asking!Fails \/ Asking!Timeout \/ Asking!Stray
             \/ Asking!Replace
    <3>1. UNCHANGED <<op, effect, routcome>>
      BY <2>3 DEF Asking!vars, Asking!fixed, Asking!client, Asking!Check, Asking!Connect,
         Asking!Recheck, Asking!Send, Asking!Recv, Asking!Close, Asking!HangUp,
         Asking!EndServer, Asking!Fails, Asking!Refuse, Asking!SendFails, Asking!Skip,
         Asking!Broken, Asking!Timeout, Asking!Stray, Asking!Replace
    <3>2. QED BY <3>1, AskingStutter
  <2>4. QED BY <1>2, <2>1, <2>2, <2>3 DEF Asking!Next, Asking!Client
<1>3. QED BY <1>1, <1>2, AskingInductive, PTL
          DEF Asking!Spec, Asking!IsOneAttempt, Asking!Attempts!Spec

-----------------------------------------------------------------------------
(* The adapter of the recipient's harness.                                 *)

\* An operation of the adapters is one of each module, which it may never use
\* (Adapters!AdapterSpec).
THEOREM AdapterIsEach == AdapterSpec => Spec /\ Handing!Spec /\ Asking!Spec
<1>1. AdapterInit => Init /\ Handing!Init /\ Asking!Init
  BY DEF AdapterInit
<1>2. ASSUME [AdapterNext]_allvars
      PROVE  [Next]_vars /\ [Handing!Next]_Handing!vars /\ [Asking!Next]_Asking!vars
  <2>1. \/ Next \/ UNCHANGED vars
    BY <1>2 DEF AdapterNext, UsesOpenCode, UsesHandover, UsesAppServer, allvars
  <2>2. Handing!Next \/ UNCHANGED handing
    BY <1>2 DEF AdapterNext, UsesOpenCode, UsesHandover, UsesAppServer, allvars
  <2>3. Asking!Next \/ UNCHANGED asking
    BY <1>2 DEF AdapterNext, UsesOpenCode, UsesHandover, UsesAppServer, allvars
  <2>4. UNCHANGED handing => UNCHANGED Handing!vars
    BY DEF handing, Handing!vars, Handing!run
  <2>5. UNCHANGED asking => UNCHANGED Asking!vars
    BY DEF asking, Asking!vars, Asking!fixed, Asking!client
  <2>6. QED BY <2>1, <2>2, <2>3, <2>4, <2>5
<1>3. QED BY <1>1, <1>2, PTL DEF AdapterSpec, Spec, Handing!Spec, Asking!Spec

\* One server at most accepts a prompt (Prompt!OneServer).
THEOREM AdapterOneServer == AdapterSpec => []OneServer
BY AdapterIsEach, NoSecondServer, PTL

\* A prompt is sent once and told truthfully, whichever adapter is used
\* (Prompt!IsOneAttempt).
THEOREM AdapterPrompts == AdapterSpec => IsOneAttempt
BY AdapterIsEach, PromptIsOneAttempt, PTL

\* A receiver's notice is queued in the store it has captured, and in no other
\* (Adapters!OnlyInOwnedStore).
THEOREM OwnedStoreOnly == AdapterSpec => []OnlyInOwnedStore
<1>1. Handing!IInv => OnlyInOwnedStore
  BY DEF Handing!IInv, Handing!EffectInv, OnlyInOwnedStore, Handing!OnlyInOwnedStore
<1>2. QED BY <1>1, AdapterIsEach, HandingInductive, PTL

\* A call returns its own reply, on a connection to the selected listener, and a
\* delete has its receipt (Adapters!OwnConnectionOnly).
THEOREM OwnConnection == AdapterSpec => []OwnConnectionOnly
<1>1. ASSUME Asking!IInv PROVE OwnConnectionOnly
  <2>1. Asking!TypeOK /\ Asking!OwnReply
    BY <1>1 DEF Asking!IInv
  <2>2. Asking!BoundToListener
    <3>1. rwire # {} => counter > 0
      <4>1. rwire \subseteq 1..counter /\ counter \in Nat
        BY <1>1 DEF Asking!IInv, Asking!TypeOK, Asking!WireInv
      <4>2. ASSUME NEW n \in rwire PROVE counter > 0
        BY <4>1
      <4>3. QED BY <4>2
    <3>2. QED BY <1>1, <3>1 DEF Asking!IInv, Asking!ListenerInv, Asking!BoundToListener
  <2>3. Asking!OnlyConfirmedReceipts
    BY <1>1 DEF Asking!IInv, Asking!PlaceInv, Asking!Deletes, Asking!Confirmed,
       Asking!OnlyConfirmedReceipts
  <2>4. QED BY <2>1, <2>2, <2>3 DEF OwnConnectionOnly
<1>2. QED BY <1>1, AdapterIsEach, AskingInductive, PTL

\* What Claude Code and Codex are handed, told to queue or asked to change happens
\* once and is told truthfully, if a code of a command that could not be started is
\* not of a later failure (Adapters!CodexAndClaudeAreOneAttempt).
THEOREM CodexAndClaude ==
  ASSUME StartErrorsTell
  PROVE  AdapterSpec => CodexAndClaudeAreOneAttempt
<1>1. Handing!Spec => Handing!IsOneAttempt
  BY HandingIsOneAttempt
<1>2. QED BY <1>1, AdapterIsEach, AskingIsOneAttempt, PTL DEF CodexAndClaudeAreOneAttempt
=============================================================================
