---------------------------- MODULE MailboxProofs ----------------------------
(***************************************************************************)
(* Mailbox proved for every set of peers, ids, texts, commands and jobs.   *)
(* IInv, the conjunction of what the places in a command say (ControlInv,  *)
(* ClaimInv) and of what the store and the client then say of each other   *)
(* (OneCreator, ReportInv, EvidenceInv, LeftoverInv), is inductive; with   *)
(* it AccountInv is, of what commands have read and tell; and every step   *)
(* is one of Exchange or a stutter there.                                  *)
(***************************************************************************)
EXTENDS Mailbox, TLAPS

-----------------------------------------------------------------------------
(* Rows and reads.                                                         *)

\* The four ways a row changes leave a row.
LEMMA RowUpdates ==
  ASSUME NEW r \in Row
  PROVE  /\ Claimed(r) \in Row
         /\ [r EXCEPT !.acked = TRUE] \in Row
         /\ [r EXCEPT !.returned = TRUE] \in Row
BY DEF Claimed, Row, Submission

LEMMA RecordedRow ==
  ASSUME NEW r \in Row, NEW o \in Outcome
  PROVE  Recorded(r, o) \in Row
BY DEF Recorded, Row, Outcome

\* A reply that is read is a saved message.
LEMMA ReplyOfSaved ==
  ASSUME NEW m
  PROVE  /\ ReplyOf(m) \in Id \cup {None}
         /\ ReplyOf(m) # None => ReplyOf(m) \in Id /\ Saved(ReplyOf(m))
BY DEF ReplyOf, Replies

\* What a retry finds is a saved message.
LEMMA ExistingSaved ==
  ASSUME NEW j \in Jobs, Existing(j) # None
  PROVE  Existing(j) \in Id /\ Saved(Existing(j))
BY JobsAssumption, ReplyOfSaved DEF Existing, Job

\* What save inserts is a row.
LEMMA NewRowIsRow ==
  ASSUME TypeOK, NEW j \in Jobs, j.op \in {"send", "reply"}, Addressed(j)
  PROVE  NewRow(j) \in Row
BY JobsAssumption, ConstantsAssumption
DEF NewRow, Row, Job, Parent, Recipient, Addressed, Saved, IsAnswer, TypeOK,
    Submission, Detail, SkipReasons

\* A skip reason is a detail.
LEMMA SkipReasonIsDetail ==
  ASSUME NEW m, SkipReason(m) # None
  PROVE  SkipReason(m) \in Detail
BY DEF SkipReason, Detail, SkipReasons

\* Where a command holds a message, that message has a row.
LEMMA HeldRow ==
  ASSUME TypeOK, ControlInv, NEW c \in Command, pc[c] \in Holding
  PROVE  subject[c] \in Id /\ messages[subject[c]] \in Row
BY DEF TypeOK, ControlInv, Saved

-----------------------------------------------------------------------------
(* Types.                                                                  *)

\* A row replaced by a row keeps the table a table.
LEMMA TableUpdate ==
  ASSUME TypeOK, NEW m \in Id, NEW r \in Row,
         messages' = [messages EXCEPT ![m] = r]
  PROVE  messages' \in [Id -> Row \cup {None}]
BY DEF TypeOK

\* What a call, or what it left behind, makes of a client.
LEMMA ClientTypes ==
  ASSUME TypeOK, NEW m \in Id, Reach(m) \/ Leave(m) \/ UNCHANGED client
  PROVE  /\ crossings' \in [Id -> Nat]
         /\ notice' \in [Id -> {"none", "coming", "queued", "handed", "removed"}]
BY DEF Reach, Leave, client, TypeOK

LEMMA TypeStep ==
  ASSUME TypeOK, ControlInv, ClaimInv, [Next]_vars
  PROVE  TypeOK'
<1> USE ConstantsAssumption DEF Goto, store, locals, client, history, Label
<1>1. ASSUME NEW c \in Command, NEW j \in Jobs, Start(c, j) PROVE TypeOK'
  BY <1>1, JobsAssumption DEF Start, FirstStep, TypeOK, Job
<1>2. ASSUME NEW c \in Command, SaveNew(c) PROVE TypeOK'
  <2>1. job[c] \in Jobs /\ Addressed(job[c])
    BY <1>2 DEF TypeOK, ControlInv, SaveNew, Insertable
  <2>2. PICK m \in FreshIds(job[c]) :
          /\ messages' = [messages EXCEPT ![m] = NewRow(job[c])]
          /\ subject' = [subject EXCEPT ![c] = m]
    BY <1>2 DEF SaveNew
  <2>3. m \in Id
    BY <2>1, JobsAssumption DEF FreshIds, Job
  <2>4. messages' \in [Id -> Row \cup {None}]
    BY <1>2, <2>1, <2>2, <2>3, NewRowIsRow, TableUpdate DEF ControlInv, SaveNew
  <2>5. QED
    BY <1>2, <2>2, <2>3, <2>4
    DEF SaveNew, AfterSave, Creates, TypeOK
<1>3. ASSUME NEW c \in Command, SaveExisting(c) \/ SaveRefused(c) PROVE TypeOK'
  BY <1>3, ExistingSaved
  DEF SaveExisting, SaveRefused, AfterSave, Creates, ControlInv, TypeOK
<1>4. ASSUME NEW c \in Command, Claim(c) PROVE TypeOK'
  <2>1. subject[c] \in Id /\ messages[subject[c]] \in Row
    BY <1>4, HeldRow DEF Claim, Holding
  <2>2. QED
    BY <1>4, <2>1, RowUpdates, TableUpdate DEF Claim, TypeOK
<1>5. ASSUME NEW c \in Command,
             ClaimRefused(c) \/ GraceSkip(c) \/ GraceOver(c)
      PROVE  TypeOK'
  BY <1>5, ReplyOfSaved, SkipReasonIsDetail, HeldRow
  DEF ClaimRefused, GraceSkip, GraceOver, Read, Decide, AfterNotice, Holding,
      Outcome, Submission, TypeOK
<1>6. ASSUME NEW c \in Command,
             \/ PreflightPassed(c) \/ PreflightFailed(c)
             \/ CheckPassed(c) \/ CheckSkipped(c) \/ CheckUnreadable(c)
      PROVE  TypeOK'
  BY <1>6, SkipReasonIsDetail
  DEF PreflightPassed, PreflightFailed, CheckPassed, CheckSkipped,
      CheckUnreadable, Decide, Outcome, Submission, Detail, TypeOK
<1>7. ASSUME NEW c \in Command, Write(c) PROVE TypeOK'
  <2>1. subject[c] \in Id
    BY <1>7, HeldRow DEF Write, Holding
  <2>2. PICK r \in ResultsFor(subject[c]) :
          /\ pc' = [pc EXCEPT ![c] = AfterWrite(r)]
          /\ Decide(c, r.said, "other")
          /\ Left(subject[c], r)
          /\ mistold' \in {mistold, mistold \cup {subject[c]}}
    BY <1>7 DEF Write
  <2>3. r.said \in Submission
    BY DEF ResultsFor, ClientResults, MistoldResults, Submission
  <2>4. outcome' \in [Command -> Outcome \cup {None}]
    BY <2>2, <2>3 DEF Decide, Outcome, Detail, TypeOK
  <2>5. /\ crossings' \in [Id -> Nat]
        /\ notice' \in [Id -> {"none", "coming", "queued", "handed", "removed"}]
    BY <2>1, <2>2, ClientTypes DEF Left
  <2>6. mistold' \in SUBSET Id
    BY <2>1, <2>2 DEF TypeOK
  <2>7. pc' \in [Command -> Label]
    BY <2>2 DEF AfterWrite, TypeOK
  <2>8. QED
    BY <1>7, <2>4, <2>5, <2>6, <2>7 DEF Write, TypeOK
<1>8. ASSUME NEW c \in Command, Record(c) PROVE TypeOK'
  <2>1. subject[c] \in Id /\ messages[subject[c]] \in Row
    BY <1>8, HeldRow DEF Record, Holding
  <2>2. outcome[c] \in Outcome
    BY <1>8 DEF Record, ClaimInv, TypeOK
  <2>3. QED
    BY <1>8, <2>1, <2>2, RecordedRow, TableUpdate DEF Record, TypeOK
<1>9. ASSUME NEW c \in Command, Dismiss(c) PROVE TypeOK'
  BY <1>9, ReplyOfSaved, HeldRow
  DEF Dismiss, Recheck, DismissNothing, DismissDone, DismissFailed, Withdraw, Read,
      AfterRecheck, AfterNotice, AfterDismiss, Holding, TypeOK
<1>10. ASSUME NEW c \in Command, Ack(c) PROVE TypeOK'
  <2>1. subject[c] \in Id /\ messages[subject[c]] \in Row
    BY <1>10 DEF Ack, ToRecipient, Saved, ControlInv, TypeOK
  <2>2. QED
    BY <1>10, <2>1, RowUpdates, TableUpdate DEF Ack, TypeOK
<1>11. ASSUME NEW c \in Command, Receipt(c) PROVE TypeOK'
  <2>1. answer[c] \in Id /\ messages[answer[c]] \in Row
    BY <1>11 DEF Receipt, Saved, ControlInv, TypeOK
  <2>2. QED
    BY <1>11, <2>1, RowUpdates, TableUpdate DEF Receipt, TypeOK
<1>12. ASSUME NEW c \in Command,
              \/ AckRefused(c) \/ WaitOpened(c) \/ WaitRefused(c)
              \/ PollAnswered(c) \/ PollTimeout(c) \/ ReceiptSkipped(c)
       PROVE  TypeOK'
  BY <1>12, ReplyOfSaved, HeldRow
  DEF AckRefused, WaitOpened, WaitRefused, PollAnswered, PollTimeout,
      ReceiptSkipped, OwnRequest, Read, Saved, Holding, ControlInv, TypeOK
<1>13. ASSUME NEW c \in Command, Finish(c) PROVE TypeOK'
  BY <1>13, HeldRow DEF Finish, Forget, Holding, TypeOK
<1>14. ASSUME NEW c \in Command, Stop(c) PROVE TypeOK'
  <2>1. pc[c] \in {"write", "recheck", "dismiss"} => subject[c] \in Id
    BY HeldRow DEF Holding
  <2>2. /\ crossings' \in [Id -> Nat]
        /\ notice' \in [Id -> {"none", "coming", "queued", "handed", "removed"}]
    BY <1>14, <2>1, ClientTypes DEF Stop, TypeOK
  <2>3. QED
    BY <1>14, <2>1, <2>2 DEF Stop, Forget, TypeOK
<1>15. ASSUME NEW p \in Peer, Retire(p) \/ Restore(p) PROVE TypeOK'
  BY <1>15 DEF Retire, Restore, TypeOK
<1>16. ASSUME NEW m \in Id, ClientTakes(m) PROVE TypeOK'
  BY <1>16 DEF ClientTakes, TypeOK
<1>17. ASSUME NEW m \in Id, LateCrossing(m) PROVE TypeOK'
  BY <1>17, ClientTypes DEF LateCrossing, TypeOK
<1>18. CASE UNCHANGED vars
  BY <1>18 DEF vars, TypeOK
<1>19. QED
  BY <1>1, <1>2, <1>3, <1>4, <1>5, <1>6, <1>7, <1>8, <1>9, <1>10, <1>11,
     <1>12, <1>13, <1>14, <1>15, <1>18, <1>16, <1>17
  DEF Next, Step, Save, Notify, Acknowledge, Wait

-----------------------------------------------------------------------------
(* Control.                                                                *)

\* No call and nothing a call left behind moves; a queued notice may leave.
ClientQuiet ==
  /\ UNCHANGED <<crossings, mistold>>
  /\ \A m \in Id :
       \/ notice'[m] = notice[m]
       \/ notice[m] = "queued" /\ notice'[m] \in {"handed", "removed"}

\* The command whose client call ends, with an answer or with the command.
Calls(c) == pc[c] = "write" /\ (Write(c) \/ Stop(c))

\* Every step moves the table, a call, what a call left behind, or none of them.
LEMMA StepKinds ==
  ASSUME TypeOK, [Next]_vars
  PROVE  \/ messages' = messages /\ ClientQuiet
         \/ /\ UNCHANGED <<crossings, notice, mistold>>
            /\ \E c \in Command : SaveNew(c) \/ Claim(c) \/ Record(c) \/ Ack(c) \/ Receipt(c)
         \/ \E c \in Command : Calls(c)
         \/ \E m \in Id : LateCrossing(m)
<1> USE DEF store, client, history
<1>1. ASSUME NEW c \in Command, NEW j \in Jobs, Start(c, j)
      PROVE  UNCHANGED <<messages, crossings, notice, mistold>>
  BY <1>1 DEF Start
<1>2. ASSUME NEW c \in Command, SaveExisting(c) \/ SaveRefused(c)
      PROVE  UNCHANGED <<messages, crossings, notice, mistold>>
  BY <1>2 DEF SaveExisting, SaveRefused
<1>3. ASSUME NEW c \in Command,
             \/ ClaimRefused(c) \/ GraceSkip(c) \/ GraceOver(c)
             \/ PreflightPassed(c) \/ PreflightFailed(c)
             \/ CheckPassed(c) \/ CheckSkipped(c) \/ CheckUnreadable(c)
      PROVE  UNCHANGED <<messages, crossings, notice, mistold>>
  BY <1>3
  DEF ClaimRefused, GraceSkip, GraceOver, PreflightPassed, PreflightFailed,
      CheckPassed, CheckSkipped, CheckUnreadable
<1>4. ASSUME NEW c \in Command, Dismiss(c)
      PROVE  messages' = messages /\ ClientQuiet
  BY <1>4
  DEF Dismiss, Recheck, DismissNothing, DismissDone, DismissFailed, Withdraw,
      ClientQuiet, TypeOK
<1>5. ASSUME NEW c \in Command,
             \/ AckRefused(c) \/ WaitOpened(c) \/ WaitRefused(c)
             \/ PollAnswered(c) \/ PollTimeout(c) \/ ReceiptSkipped(c)
             \/ Finish(c)
      PROVE  UNCHANGED <<messages, crossings, notice, mistold>>
  BY <1>5
  DEF AckRefused, WaitOpened, WaitRefused, PollAnswered, PollTimeout,
      ReceiptSkipped, Finish
<1>6. ASSUME NEW c \in Command, Stop(c)
      PROVE  Calls(c) \/ UNCHANGED <<messages, crossings, notice, mistold>>
  BY <1>6 DEF Stop, Calls
<1>7. ASSUME NEW c \in Command, Write(c)
      PROVE  Calls(c)
  BY <1>7 DEF Write, Calls
<1>8. ASSUME NEW c \in Command,
             SaveNew(c) \/ Claim(c) \/ Record(c) \/ Ack(c) \/ Receipt(c)
      PROVE  UNCHANGED <<crossings, notice, mistold>>
  BY <1>8 DEF SaveNew, Claim, Record, Ack, Receipt
<1>9. ASSUME NEW p \in Peer, Retire(p) \/ Restore(p)
      PROVE  UNCHANGED <<messages, crossings, notice, mistold>>
  BY <1>9 DEF Retire, Restore
<1>10. ASSUME NEW m \in Id, ClientTakes(m)
       PROVE  messages' = messages /\ ClientQuiet
  BY <1>10 DEF ClientTakes, ClientQuiet, TypeOK
<1>11. CASE UNCHANGED vars
  BY <1>11 DEF vars, ClientQuiet
<1>12. UNCHANGED <<messages, crossings, notice, mistold>> => messages' = messages /\ ClientQuiet
  BY DEF ClientQuiet
<1>13. QED
  BY <1>1, <1>2, <1>3, <1>4, <1>5, <1>6, <1>7, <1>8, <1>9, <1>10, <1>11, <1>12
  DEF Next, Step, Save, Notify, Acknowledge, Wait

\* What becomes of a notice, of the one that is called for and of the others.
LEMMA ReachEffect ==
  ASSUME TypeOK, NEW m \in Id, Reach(m) \/ Leave(m) \/ UNCHANGED client
  PROVE  /\ \A k \in Id : k # m => crossings'[k] = crossings[k] /\ notice'[k] = notice[k]
         /\ \/ /\ crossings'[m] = crossings[m] + 1
               /\ notice'[m] \in {"queued", "handed"}
               /\ notice'[m] = "queued" => messages[m].recipient \in Removable
            \/ crossings'[m] = crossings[m] /\ notice'[m] \in {"coming", notice[m]}
BY DEF Reach, Leave, client, TypeOK

\* A call touches its own message's notice only.
LEMMA CallEffect ==
  ASSUME TypeOK, ControlInv, NEW c \in Command, Calls(c)
  PROVE  /\ subject[c] \in Id /\ messages[subject[c]] \in Row /\ Saved(subject[c])
         /\ UNCHANGED <<messages, retired>>
         /\ mistold' \in {mistold, mistold \cup {subject[c]}}
         /\ mistold' # mistold => messages[subject[c]].recipient \in Removable
         /\ Reach(subject[c]) \/ Leave(subject[c]) \/ UNCHANGED client
<1>1. subject[c] \in Id /\ messages[subject[c]] \in Row /\ Saved(subject[c])
  BY HeldRow, ConstantsAssumption DEF Calls, Holding, Saved
<1>2. CASE Write(c)
  <2>1. PICK r \in ResultsFor(subject[c]) :
          /\ Left(subject[c], r)
          /\ mistold' = IF r \in MistoldResults THEN mistold \cup {subject[c]} ELSE mistold
    BY <1>2 DEF Write
  <2>2. r \in MistoldResults => messages[subject[c]].recipient \in Removable
    BY DEF ResultsFor, ClientResults, MistoldResults
  <2>3. QED
    BY <1>1, <1>2, <2>1, <2>2 DEF Write, Left, store
<1>3. CASE Stop(c)
  BY <1>1, <1>3 DEF Stop, Calls, store
<1>4. QED
  BY <1>2, <1>3 DEF Calls

\* Only five actions touch the table.
LEMMA RowsFrame ==
  ASSUME TypeOK, [Next]_vars
  PROVE  \/ UNCHANGED messages
         \/ \E c \in Command :
              SaveNew(c) \/ Claim(c) \/ Record(c) \/ Ack(c) \/ Receipt(c)
<1>1. ASSUME NEW c \in Command, Calls(c) PROVE UNCHANGED messages
  BY <1>1 DEF Calls, Write, Stop, store
<1>2. ASSUME NEW m \in Id, LateCrossing(m) PROVE UNCHANGED messages
  BY <1>2 DEF LateCrossing, store
<1>3. QED
  BY <1>1, <1>2, StepKinds

\* A notice is queued, reaches its client or is left to come by its own command's
\* call, or comes late.
LEMMA NoticeFrame ==
  ASSUME TypeOK, ControlInv, [Next]_vars, NEW m \in Id,
         \/ crossings'[m] # crossings[m]
         \/ notice'[m] # notice[m] /\ notice'[m] \in {"coming", "queued"}
  PROVE  \/ \E c \in Command : Calls(c) /\ subject[c] = m
         \/ LateCrossing(m)
<1>1. ASSUME NEW c \in Command, Calls(c) PROVE subject[c] = m
  BY <1>1, CallEffect, ReachEffect
<1>2. ASSUME NEW k \in Id, LateCrossing(k) PROVE k = m
  BY <1>2, ReachEffect DEF LateCrossing
<1>3. ~ClientQuiet
  BY DEF ClientQuiet
<1>4. QED
  BY <1>1, <1>2, <1>3, StepKinds

\* What was told wrongly stays so, and what reached a client has reached it.
LEMMA TracesStay ==
  ASSUME TypeOK, ControlInv, [Next]_vars
  PROVE  /\ mistold \subseteq mistold'
         /\ \A m \in Id : crossings[m] > 0 => crossings'[m] > 0
<1>1. ASSUME NEW c \in Command, Calls(c)
      PROVE  mistold \subseteq mistold' /\ \A m \in Id : crossings[m] > 0 => crossings'[m] > 0
  <2>1. mistold \subseteq mistold' /\ subject[c] \in Id
    BY <1>1, CallEffect
  <2>2. \A m \in Id : crossings'[m] = crossings[m] \/ crossings'[m] = crossings[m] + 1
    BY <1>1, <2>1, CallEffect, ReachEffect
  <2>3. \A m \in Id : crossings[m] \in Nat
    BY DEF TypeOK
  <2>4. QED
    BY <2>1, <2>2, <2>3
<1>2. ASSUME NEW k \in Id, LateCrossing(k)
      PROVE  mistold \subseteq mistold' /\ \A m \in Id : crossings[m] > 0 => crossings'[m] > 0
  <2>1. mistold' = mistold
    BY <1>2 DEF LateCrossing, history
  <2>2. \A m \in Id : crossings'[m] = crossings[m] \/ crossings'[m] = crossings[m] + 1
    BY <1>2, ReachEffect DEF LateCrossing
  <2>3. \A m \in Id : crossings[m] \in Nat
    BY DEF TypeOK
  <2>4. QED
    BY <2>1, <2>2, <2>3
<1>3. QED
  BY <1>1, <1>2, StepKinds DEF ClientQuiet

\* No message is ever deleted.
LEMMA SavedStays ==
  ASSUME TypeOK, ControlInv, ClaimInv, [Next]_vars
  PROVE  \A m \in Id : Saved(m) => Saved(m)'
<1> USE ConstantsAssumption DEF Goto, Saved
<1>1. ASSUME NEW c \in Command, SaveNew(c)
      PROVE  \A m \in Id : Saved(m) => Saved(m)'
  <2>1. PICK m \in FreshIds(job[c]) : messages' = [messages EXCEPT ![m] = NewRow(job[c])]
    BY <1>1 DEF SaveNew
  <2>2. NewRow(job[c]) # None
    BY <1>1, NewRowIsRow DEF SaveNew, Insertable, ControlInv, TypeOK
  <2>3. QED
    BY <2>1, <2>2 DEF TypeOK
<1>2. ASSUME NEW c \in Command, Claim(c) \/ Record(c)
      PROVE  \A m \in Id : Saved(m) => Saved(m)'
  <2>1. subject[c] \in Id /\ messages[subject[c]] \in Row
    BY <1>2, HeldRow DEF Claim, Record, Holding
  <2>2. CASE Claim(c)
    <3>1. Claimed(messages[subject[c]]) \in Row
      BY <2>1, RowUpdates
    <3>2. QED
      BY <2>1, <2>2, <3>1 DEF Claim, TypeOK
  <2>3. CASE Record(c)
    <3>1. outcome[c] \in Outcome
      BY <2>3 DEF Record, ClaimInv, TypeOK
    <3>2. QED
      BY <2>1, <2>3, <3>1, RecordedRow DEF Record, TypeOK
  <2>4. QED
    BY <1>2, <2>2, <2>3
<1>3. ASSUME NEW c \in Command, Ack(c) \/ Receipt(c)
      PROVE  \A m \in Id : Saved(m) => Saved(m)'
  <2>1. CASE Ack(c)
    <3>1. messages[subject[c]] \in Row
      BY <2>1 DEF Ack, ToRecipient, ControlInv, TypeOK
    <3>2. QED
      BY <2>1, <3>1, RowUpdates DEF Ack, TypeOK
  <2>2. CASE Receipt(c)
    <3>1. messages[answer[c]] \in Row
      BY <2>2 DEF Receipt, ControlInv, TypeOK
    <3>2. QED
      BY <2>2, <3>1, RowUpdates DEF Receipt, TypeOK
  <2>3. QED
    BY <1>3, <2>1, <2>2
<1>4. QED
  BY <1>1, <1>2, <1>3, RowsFrame

LEMMA ControlStep ==
  ASSUME TypeOK, ControlInv, ClaimInv, [Next]_vars, TypeOK'
  PROVE  ControlInv'
<1> USE SavedStays, ConstantsAssumption
    DEF Goto, store, locals, client, history, Label, Holding, Claiming
<1>1. ASSUME NEW c \in Command, NEW j \in Jobs, Start(c, j) PROVE ControlInv'
  BY <1>1, JobsAssumption DEF Start, FirstStep, ControlInv, TypeOK, Job
<1>2. ASSUME NEW c \in Command, SaveNew(c) PROVE ControlInv'
  <2>1. PICK m \in FreshIds(job[c]) :
          /\ messages' = [messages EXCEPT ![m] = NewRow(job[c])]
          /\ subject' = [subject EXCEPT ![c] = m]
    BY <1>2 DEF SaveNew
  <2>2. m \in Id
    BY <1>2, JobsAssumption DEF FreshIds, ControlInv, SaveNew, TypeOK, Job
  <2>3. NewRow(job[c]) # None
    BY <1>2, NewRowIsRow DEF SaveNew, Insertable, ControlInv, TypeOK
  <2>4. Saved(m)'
    BY <2>1, <2>2, <2>3 DEF Saved, TypeOK
  <2>5. QED
    <3>1. ASSUME NEW d \in Command, d # c
          PROVE  UNCHANGED <<pc[d], job[d], subject[d], created[d], answer[d], view[d]>>
      BY <1>2, <2>1, <3>1 DEF SaveNew, TypeOK
    <3>2. /\ pc'[c] \in {"claim", "wait", "finish"}
          /\ pc'[c] = "claim" => created'[c]
          /\ job'[c] # None
          /\ subject'[c] = m
      <4>1. pc[c] = "save" /\ pc'[c] = AfterSave(job[c])
        BY <1>2 DEF SaveNew, TypeOK
      <4>2. created'[c] /\ job' = job
        <5>1. Creates(job[c])
          BY <1>2 DEF SaveNew, Insertable, Creates
        <5>2. created' = [created EXCEPT ![c] = Creates(job[c])] /\ job' = job
          BY <1>2 DEF SaveNew
        <5>3. QED
          BY <5>1, <5>2 DEF TypeOK
      <4>3. QED
        BY <2>1, <4>1, <4>2 DEF AfterSave, ControlInv, TypeOK
    <3>3. QED
      BY <2>2, <2>4, <3>1, <3>2 DEF ControlInv, TypeOK
<1>3. ASSUME NEW c \in Command, SaveExisting(c) \/ SaveRefused(c) PROVE ControlInv'
  BY <1>3, ExistingSaved
  DEF SaveExisting, SaveRefused, AfterSave, Creates, ControlInv, TypeOK
<1>4. ASSUME NEW c \in Command,
             \/ Claim(c) \/ ClaimRefused(c) \/ GraceSkip(c) \/ GraceOver(c)
      PROVE  ControlInv'
  BY <1>4
  DEF Claim, ClaimRefused, GraceSkip, GraceOver, Read, AfterNotice, ControlInv, TypeOK
<1>5. ASSUME NEW c \in Command,
             \/ PreflightPassed(c) \/ PreflightFailed(c)
             \/ CheckPassed(c) \/ CheckSkipped(c) \/ CheckUnreadable(c)
      PROVE  ControlInv'
  BY <1>5
  DEF PreflightPassed, PreflightFailed, CheckPassed, CheckSkipped,
      CheckUnreadable, ControlInv, TypeOK
<1>6. ASSUME NEW c \in Command, Write(c) \/ Record(c) PROVE ControlInv'
  BY <1>6 DEF Write, AfterWrite, Record, ControlInv, TypeOK
<1>7. ASSUME NEW c \in Command, Dismiss(c) PROVE ControlInv'
  BY <1>7, HeldRow
  DEF Dismiss, Recheck, DismissNothing, DismissDone, DismissFailed, Read,
      AfterRecheck, AfterNotice, AfterDismiss, ControlInv, TypeOK
<1>8. ASSUME NEW c \in Command, Acknowledge(c) PROVE ControlInv'
  BY <1>8 DEF Acknowledge, Ack, AckRefused, ToRecipient, ControlInv, TypeOK
<1>9. ASSUME NEW c \in Command, WaitOpened(c) \/ PollAnswered(c) PROVE ControlInv'
  <2>1. PICK r \in Id \cup {None} :
          r = ReplyOf(subject[c]) /\ (r # None => r \in Id /\ Saved(r)')
    BY ReplyOfSaved
  <2>2. QED
    BY <1>9, <2>1
    DEF WaitOpened, PollAnswered, OwnRequest, Read, ControlInv, TypeOK
<1>10. ASSUME NEW c \in Command,
              WaitRefused(c) \/ PollTimeout(c) \/ Receipt(c) \/ ReceiptSkipped(c)
       PROVE  ControlInv'
  BY <1>10
  DEF WaitRefused, PollTimeout, Receipt, ReceiptSkipped, Read, ControlInv, TypeOK
<1>11. ASSUME NEW c \in Command, Finish(c) \/ Stop(c) PROVE ControlInv'
  BY <1>11 DEF Finish, Stop, Forget, ControlInv, TypeOK
<1>12. ASSUME NEW p \in Peer, Retire(p) \/ Restore(p) PROVE ControlInv'
  BY <1>12 DEF Retire, Restore, ControlInv
<1>13. ASSUME NEW m \in Id, ClientTakes(m) \/ LateCrossing(m) PROVE ControlInv'
  BY <1>13 DEF ClientTakes, LateCrossing, ControlInv
<1>14. CASE UNCHANGED vars
  BY <1>14 DEF vars, ControlInv
<1>15. QED
  BY <1>1, <1>2, <1>3, <1>4, <1>5, <1>6, <1>7, <1>8, <1>9, <1>10, <1>11,
     <1>12, <1>13, <1>14
  DEF Next, Step, Save, Notify, Wait

-----------------------------------------------------------------------------
(* One creator, one claim, one report.                                     *)

\* Only starting and saving give a command its message.
LEMMA SubjectFrame ==
  ASSUME [Next]_vars
  PROVE  \/ UNCHANGED <<created, subject>>
         \/ \E c \in Command :
              \/ SaveNew(c) \/ SaveExisting(c) \/ \E j \in Jobs : Start(c, j)
<1> USE DEF locals
<1>1. ASSUME NEW c \in Command, SaveRefused(c) \/ Notify(c)
      PROVE  UNCHANGED <<created, subject>>
  BY <1>1
  DEF SaveRefused, Notify, Claim, ClaimRefused, GraceSkip, GraceOver,
      PreflightPassed, PreflightFailed, CheckPassed, CheckSkipped,
      CheckUnreadable, Write, Record
<1>2. ASSUME NEW c \in Command, Dismiss(c) \/ Acknowledge(c)
      PROVE  UNCHANGED <<created, subject>>
  BY <1>2
  DEF Dismiss, Recheck, DismissNothing, DismissDone, DismissFailed,
      Acknowledge, Ack, AckRefused
<1>3. ASSUME NEW c \in Command, Wait(c) \/ Finish(c) \/ Stop(c)
      PROVE  UNCHANGED <<created, subject>>
  BY <1>3
  DEF Wait, WaitOpened, WaitRefused, PollAnswered, PollTimeout, Receipt,
      ReceiptSkipped, Finish, Stop
<1>4. ASSUME NEW p \in Peer, Retire(p) \/ Restore(p)
      PROVE  UNCHANGED <<created, subject>>
  BY <1>4 DEF Retire, Restore
<1>5. ASSUME NEW m \in Id, ClientTakes(m) \/ LateCrossing(m)
      PROVE  UNCHANGED <<created, subject>>
  BY <1>5 DEF ClientTakes, LateCrossing
<1>6. CASE UNCHANGED vars
  BY <1>6 DEF vars
<1>7. QED
  BY <1>1, <1>2, <1>3, <1>4, <1>5, <1>6 DEF Next, Step, Save

\* The place and the locals of a command.
Local(d) ==
  <<pc[d], job[d], subject[d], created[d], outcome[d], view[d], answer[d]>>

\* One command moves at a time; the others keep their place and their locals.
LEMMA OneMoves ==
  ASSUME TypeOK, [Next]_vars
  PROVE  \/ UNCHANGED <<pc, job, locals>>
         \/ \E c \in Command :
              /\ Step(c) \/ Stop(c) \/ \E j \in Jobs : Start(c, j)
              /\ \A d \in Command : d # c =>
                   UNCHANGED Local(d)
<1> USE DEF Goto, locals, TypeOK, Local
<1>1. ASSUME NEW c \in Command, NEW j \in Jobs, Start(c, j), NEW d \in Command, d # c
      PROVE  UNCHANGED Local(d)
  BY <1>1 DEF Start
<1>2. ASSUME NEW c \in Command, Save(c), NEW d \in Command, d # c
      PROVE  UNCHANGED Local(d)
  BY <1>2 DEF Save, SaveNew, SaveExisting, SaveRefused
<1>3. ASSUME NEW c \in Command, Notify(c), NEW d \in Command, d # c
      PROVE  UNCHANGED Local(d)
  <2>1. CASE Claim(c) \/ ClaimRefused(c) \/ GraceSkip(c) \/ GraceOver(c)
    BY <1>3, <2>1 DEF Claim, ClaimRefused, GraceSkip, GraceOver, Read, Decide
  <2>2. CASE PreflightPassed(c) \/ PreflightFailed(c) \/ CheckPassed(c)
             \/ CheckSkipped(c) \/ CheckUnreadable(c)
    BY <1>3, <2>2
    DEF PreflightPassed, PreflightFailed, CheckPassed, CheckSkipped, CheckUnreadable, Decide
  <2>3. CASE Write(c) \/ Record(c)
    BY <1>3, <2>3 DEF Write, Record, Decide
  <2>4. QED
    BY <1>3, <2>1, <2>2, <2>3 DEF Notify
<1>4. ASSUME NEW c \in Command, Dismiss(c) \/ Acknowledge(c), NEW d \in Command, d # c
      PROVE  UNCHANGED Local(d)
  BY <1>4
  DEF Dismiss, Recheck, DismissNothing, DismissDone, DismissFailed, Read,
      Acknowledge, Ack, AckRefused
<1>5. ASSUME NEW c \in Command, Wait(c) \/ Finish(c) \/ Stop(c),
             NEW d \in Command, d # c
      PROVE  UNCHANGED Local(d)
  BY <1>5
  DEF Wait, WaitOpened, WaitRefused, PollAnswered, PollTimeout, Receipt,
      ReceiptSkipped, Read, Finish, Stop, Forget
<1>6. ASSUME NEW p \in Peer, Retire(p) \/ Restore(p)
      PROVE  UNCHANGED <<pc, job, locals>>
  BY <1>6 DEF Retire, Restore
<1>7. ASSUME NEW m \in Id, ClientTakes(m) \/ LateCrossing(m)
      PROVE  UNCHANGED <<pc, job, locals>>
  BY <1>7 DEF ClientTakes, LateCrossing
<1>8. CASE UNCHANGED vars
  BY <1>8 DEF vars
<1>9. QED
  BY <1>1, <1>2, <1>3, <1>4, <1>5, <1>6, <1>7, <1>8 DEF Next, Step

\* A saving command takes an id that no created message has.
LEMMA SaveNewFresh ==
  ASSUME TypeOK, ControlInv, NEW c \in Command, SaveNew(c)
  PROVE  \E m \in Id :
           /\ ~Saved(m)
           /\ messages' = [messages EXCEPT ![m] = NewRow(job[c])]
           /\ NewRow(job[c]) \in Row
           /\ subject' = [subject EXCEPT ![c] = m]
           /\ pc[c] = "save"
           /\ UNCHANGED <<crossings, notice, mistold>>
<1>1. PICK m \in FreshIds(job[c]) :
        /\ messages' = [messages EXCEPT ![m] = NewRow(job[c])]
        /\ subject' = [subject EXCEPT ![c] = m]
  BY DEF SaveNew
<1>2. /\ NewRow(job[c]) \in Row /\ pc[c] = "save" /\ job[c] \in Jobs
      /\ UNCHANGED <<crossings, notice, mistold>>
  BY NewRowIsRow DEF SaveNew, Insertable, Goto, ControlInv, TypeOK, client, history
<1>3. m \in Id /\ ~Saved(m)
  BY <1>2, ConstantsAssumption, JobsAssumption
  DEF FreshIds, SaveNew, Insertable, Existing, Job
<1>4. QED
  BY <1>1, <1>2, <1>3

LEMMA OneCreatorStep ==
  ASSUME TypeOK, ControlInv, OneCreator, [Next]_vars
  PROVE  OneCreator'
<1>1. ASSUME NEW c \in Command, SaveNew(c) PROVE OneCreator'
  <2>1. PICK m \in Id : ~Saved(m) /\ subject' = [subject EXCEPT ![c] = m]
    BY <1>1, SaveNewFresh
  <2>2. \A d \in Command : d # c => created'[d] = created[d]
    BY <1>1 DEF SaveNew, TypeOK
  <2>3. QED
    BY <2>1, <2>2 DEF OneCreator, ControlInv, TypeOK
<1>2. ASSUME NEW c \in Command, SaveExisting(c) PROVE OneCreator'
  BY <1>2 DEF SaveExisting, Creates, OneCreator, TypeOK
<1>3. ASSUME NEW c \in Command, NEW j \in Jobs, Start(c, j) PROVE OneCreator'
  BY <1>3 DEF Start, Goto, OneCreator, ControlInv, TypeOK
<1>4. CASE UNCHANGED <<created, subject>>
  BY <1>4 DEF OneCreator
<1>5. QED
  BY <1>1, <1>2, <1>3, <1>4, SubjectFrame

\* An acknowledgment or a wait's receipt leaves the rest of every row alone.
LEMMA MarkFrame ==
  ASSUME TypeOK, ControlInv, NEW c \in Command, Ack(c) \/ Receipt(c)
  PROVE  \A m \in Id :
           /\ Saved(m)' <=> Saved(m)
           /\ Saved(m) =>
                /\ messages'[m].started = messages[m].started
                /\ messages'[m].finished = messages[m].finished
                /\ messages'[m].submission = messages[m].submission
                /\ messages[m].acked => messages'[m].acked
                /\ messages[m].returned => messages'[m].returned
                /\ messages'[m].parent = messages[m].parent
                /\ messages'[m].recipient = messages[m].recipient
                /\ messages'[m].sender = messages[m].sender
                /\ messages'[m].body = messages[m].body
<1> USE ConstantsAssumption DEF Goto, Saved
<1>1. CASE Ack(c)
  <2>1. subject[c] \in Id /\ messages[subject[c]] \in Row
    BY <1>1 DEF Ack, ToRecipient, ControlInv, TypeOK
  <2>2. [messages[subject[c]] EXCEPT !.acked = TRUE] \in Row
    BY <2>1, RowUpdates
  <2>3. \A m \in Id : m # subject[c] => messages'[m] = messages[m]
    BY <1>1, <2>1 DEF Ack, TypeOK
  <2>4. messages'[subject[c]] = [messages[subject[c]] EXCEPT !.acked = TRUE]
    BY <1>1, <2>1 DEF Ack, TypeOK
  <2>5. QED
    BY <2>1, <2>2, <2>3, <2>4 DEF Row
<1>2. CASE Receipt(c)
  <2>1. answer[c] \in Id /\ messages[answer[c]] \in Row
    BY <1>2 DEF Receipt, ControlInv, TypeOK
  <2>2. [messages[answer[c]] EXCEPT !.returned = TRUE] \in Row
    BY <2>1, RowUpdates
  <2>3. \A m \in Id : m # answer[c] => messages'[m] = messages[m]
    BY <1>2, <2>1 DEF Receipt, TypeOK
  <2>4. messages'[answer[c]] = [messages[answer[c]] EXCEPT !.returned = TRUE]
    BY <1>2, <2>1 DEF Receipt, TypeOK
  <2>5. QED
    BY <2>1, <2>2, <2>3, <2>4 DEF Row
<1>3. QED
  BY <1>1, <1>2

LEMMA ReportStep ==
  ASSUME TypeOK, ControlInv, ClaimInv, ReportInv, [Next]_vars
  PROVE  ReportInv'
<1> USE ConstantsAssumption DEF Goto
<1>1. ASSUME NEW c \in Command, SaveNew(c) PROVE ReportInv'
  <2>1. PICK m \in Id :
          /\ ~Saved(m)
          /\ messages' = [messages EXCEPT ![m] = NewRow(job[c])]
          /\ UNCHANGED <<crossings, notice, mistold>>
    BY <1>1, SaveNewFresh
  <2>2. /\ NewRow(job[c]).submission = "not_submitted"
        /\ ~NewRow(job[c]).finished
    BY DEF NewRow
  <2>3. crossings[m] = 0 /\ notice[m] # "coming" /\ m \notin mistold
    BY <2>1 DEF ReportInv
  <2>4. QED
    BY <2>1, <2>2, <2>3 DEF ReportInv, Saved, TypeOK
<1>2. ASSUME NEW c \in Command, Claim(c) PROVE ReportInv'
  <2>1. subject[c] \in Id /\ messages[subject[c]] \in Row
    BY <1>2, HeldRow DEF Claim, Holding
  <2>2. /\ messages' = [messages EXCEPT ![subject[c]] = Claimed(messages[subject[c]])]
        /\ UNCHANGED <<crossings, notice, mistold>>
    BY <1>2 DEF Claim, client, history
  <2>3. LET r == Claimed(messages[subject[c]]) IN
        /\ r \in Row /\ r.started /\ r.submission = "submission_unknown"
        /\ r.finished = messages[subject[c]].finished
        /\ r.recipient = messages[subject[c]].recipient
    BY <2>1, RowUpdates DEF Claimed, Row
  <2>4. QED
    BY <2>1, <2>2, <2>3 DEF ReportInv, Saved, TypeOK
<1>3. ASSUME NEW c \in Command, Calls(c) PROVE ReportInv'
  <2> DEFINE m == subject[c]
  <2>1. /\ m \in Id /\ messages[m] \in Row /\ Saved(m) /\ pc[c] = "write"
        /\ messages' = messages
        /\ mistold' \in {mistold, mistold \cup {m}}
        /\ mistold' # mistold => messages[m].recipient \in Removable
    BY <1>3, CallEffect DEF Calls
  <2>2. /\ crossings[m] = 0
        /\ messages[m].started
        /\ messages[m].submission = "submission_unknown"
    BY <2>1 DEF ClaimInv, Claiming
  <2>3. \A k \in Id : k # m => crossings'[k] = crossings[k] /\ notice'[k] = notice[k]
    BY <1>3, CallEffect, ReachEffect
  <2>4. \/ crossings'[m] = 1 /\ notice'[m] # "coming"
        \/ crossings'[m] = 0
    BY <1>3, <2>1, <2>2, CallEffect, ReachEffect
  <2> HIDE DEF m
  <2>5. QED
    BY <2>1, <2>2, <2>3, <2>4 DEF ReportInv, Saved
<1>4. ASSUME NEW c \in Command, Record(c) PROVE ReportInv'
  <2>1. subject[c] \in Id /\ messages[subject[c]] \in Row /\ pc[c] = "record"
    BY <1>4, HeldRow DEF Record, Holding
  <2>2. /\ outcome[c] \in Outcome
        /\ messages[subject[c]].started
        /\ outcome[c].submission = "submitted" => crossings[subject[c]] = 1
        /\ outcome[c].submission = "not_submitted" =>
             \/ subject[c] \in mistold
             \/ crossings[subject[c]] = 0 /\ notice[subject[c]] # "coming"
    BY <2>1 DEF ClaimInv, Claiming, ReportInv, TypeOK
  <2>3. LET r == Recorded(messages[subject[c]], outcome[c]) IN
        /\ r \in Row /\ r.started /\ r.finished
        /\ r.submission = outcome[c].submission
        /\ r.recipient = messages[subject[c]].recipient
    BY <2>1, <2>2, RecordedRow DEF Recorded, Row
  <2>4. /\ messages' = [messages EXCEPT ![subject[c]] =
                          Recorded(messages[subject[c]], outcome[c])]
        /\ UNCHANGED <<crossings, notice, mistold>>
    BY <1>4 DEF Record, client, history
  <2>5. QED
    BY <2>1, <2>2, <2>3, <2>4 DEF ReportInv, Saved, TypeOK
<1>5. ASSUME NEW c \in Command, Ack(c) \/ Receipt(c) PROVE ReportInv'
  <2>1. UNCHANGED <<crossings, notice, mistold>>
    BY <1>5 DEF Ack, Receipt, client, history
  <2>2. QED
    BY <1>5, <2>1, MarkFrame DEF ReportInv
<1>6. ASSUME NEW m \in Id, LateCrossing(m) PROVE ReportInv'
  <2>1. notice[m] = "coming" /\ UNCHANGED <<messages, mistold>>
    BY <1>6 DEF LateCrossing, store, history
  <2>2. /\ Saved(m) /\ messages[m].started
        /\ messages[m].submission # "not_submitted" \/ m \in mistold
        /\ crossings[m] = 0
    BY <2>1 DEF ReportInv
  <2>3. \A k \in Id : k # m => crossings'[k] = crossings[k] /\ notice'[k] = notice[k]
    BY <1>6, ReachEffect DEF LateCrossing
  <2>4. crossings'[m] = 1 /\ notice'[m] # "coming"
    BY <1>6, <2>1, <2>2 DEF LateCrossing, Reach, TypeOK
  <2>5. QED
    BY <2>1, <2>2, <2>3, <2>4 DEF ReportInv, Saved
<1>7. CASE messages' = messages /\ ClientQuiet
  BY <1>7 DEF ReportInv, Saved, ClientQuiet
<1>8. QED
  BY <1>1, <1>2, <1>3, <1>4, <1>5, <1>6, <1>7, StepKinds

\* Two commands that hold claims hold them on different messages.
LEMMA ClaimsApart ==
  ASSUME ControlInv, OneCreator, NEW c \in Command, NEW d \in Command, c # d,
         pc[c] \in Claiming \cup {"claim"}, pc[d] \in Claiming \cup {"claim"}
  PROVE  subject[c] # subject[d]
BY DEF ControlInv, OneCreator

\* What ClaimInv says of one command.
ClaimOf(d) ==
  LET m == subject[d] IN
  /\ pc[d] \in Claiming =>
       /\ messages[m].started
       /\ ~messages[m].finished
       /\ messages[m].submission = "submission_unknown"
  /\ pc[d] \in Claiming \ {"record"} => crossings[m] = 0 /\ notice[m] # "coming"
  /\ pc[d] = "record" =>
       /\ outcome[d] # None
       /\ outcome[d].submission = "submitted" => crossings[m] > 0
       /\ outcome[d].submission = "not_submitted" =>
            m \in mistold \/ (crossings[m] = 0 /\ notice[m] # "coming")

\* A claimed row keeps its report until its own command records one.
LEMMA ClaimedRowStays ==
  ASSUME TypeOK, ControlInv, OneCreator, ClaimInv, [Next]_vars,
         NEW d \in Command, pc[d] \in Claiming, ~Record(d)
  PROVE  LET m == subject[d] IN
         /\ messages'[m].started = messages[m].started
         /\ messages'[m].finished = messages[m].finished
         /\ messages'[m].submission = messages[m].submission
<1> DEFINE m == subject[d]
<1>1. m \in Id /\ Saved(m) /\ messages[m] \in Row /\ messages[m].started
  BY HeldRow DEF Holding, Claiming, ControlInv, ClaimInv
<1>2. ASSUME NEW c \in Command, SaveNew(c) PROVE messages'[m] = messages[m]
  BY <1>1, <1>2, SaveNewFresh DEF TypeOK
<1>3. ASSUME NEW c \in Command, Claim(c) PROVE messages'[m] = messages[m]
  <2>1. subject[c] \in Id /\ subject[c] # m
    BY <1>1, <1>3, HeldRow DEF Claim, Claimable, Goto, Holding
  <2>2. QED
    BY <1>1, <1>3, <2>1 DEF Claim, TypeOK
<1>4. ASSUME NEW c \in Command, Record(c) PROVE messages'[m] = messages[m]
  <2>1. subject[c] \in Id /\ pc[c] = "record" /\ c # d
    BY <1>4, HeldRow DEF Record, Goto, Holding
  <2>2. subject[c] # m
    BY <2>1, ClaimsApart DEF Claiming
  <2>3. QED
    BY <1>1, <1>4, <2>1, <2>2 DEF Record, TypeOK
<1>5. ASSUME NEW c \in Command, Ack(c) \/ Receipt(c)
      PROVE  /\ messages'[m].started = messages[m].started
             /\ messages'[m].finished = messages[m].finished
             /\ messages'[m].submission = messages[m].submission
  BY <1>1, <1>5, MarkFrame
<1>6. QED
  BY <1>2, <1>3, <1>4, <1>5, RowsFrame

\* While a command has not called, nobody else's step moves its notice.
LEMMA ClaimedNoticeStays ==
  ASSUME TypeOK, ControlInv, OneCreator, ClaimInv, [Next]_vars,
         NEW d \in Command, pc[d] \in Claiming, ~Calls(d),
         crossings[subject[d]] = 0, notice[subject[d]] # "coming"
  PROVE  crossings'[subject[d]] = 0 /\ notice'[subject[d]] # "coming"
<1>1. subject[d] \in Id
  BY HeldRow DEF Holding, Claiming
<1>2. ASSUME NEW c \in Command, Calls(c) PROVE subject[c] # subject[d]
  <2>1. pc[c] = "write" /\ c # d
    BY <1>2 DEF Calls
  <2>2. QED
    BY <2>1, ClaimsApart DEF Claiming
<1>3. ~LateCrossing(subject[d])
  BY DEF LateCrossing
<1>4. QED
  BY <1>1, <1>2, <1>3, NoticeFrame

\* A command that stays where it is, or goes on towards its call.
LEMMA ClaimKept ==
  ASSUME TypeOK, ControlInv, OneCreator, ClaimInv, [Next]_vars,
         NEW d \in Command, pc[d] \in Claiming, ~Record(d), ~Calls(d),
         subject'[d] = subject[d],
         \/ pc'[d] = pc[d] /\ outcome'[d] = outcome[d]
         \/ pc[d] # "record" /\ pc'[d] \in Claiming \ {"record"}
         \/ /\ pc[d] # "record" /\ pc'[d] = "record"
            /\ outcome'[d] # None /\ outcome'[d].submission = "not_submitted"
  PROVE  ClaimOf(d)'
<1>1. ClaimOf(d) /\ subject[d] \in Id
  BY HeldRow DEF ClaimInv, ClaimOf, Holding, Claiming
<1>2. /\ messages'[subject[d]].started
      /\ ~messages'[subject[d]].finished
      /\ messages'[subject[d]].submission = "submission_unknown"
  BY <1>1, ClaimedRowStays DEF ClaimOf
<1>3. crossings[subject[d]] = 0 /\ notice[subject[d]] # "coming" =>
        crossings'[subject[d]] = 0 /\ notice'[subject[d]] # "coming"
  BY ClaimedNoticeStays
<1>4. /\ subject[d] \in mistold => subject[d] \in mistold'
      /\ crossings[subject[d]] > 0 => crossings'[subject[d]] > 0
  BY <1>1, TracesStay
<1>5. QED
  BY <1>1, <1>2, <1>3, <1>4 DEF ClaimOf

\* The call ends in what its command will record.
LEMMA CallEnds ==
  ASSUME TypeOK, ControlInv, OneCreator, ClaimInv, [Next]_vars,
         NEW d \in Command, Write(d)
  PROVE  ClaimOf(d)'
<1> DEFINE m == subject[d]
<1>1. /\ m \in Id /\ pc[d] = "write" /\ UNCHANGED <<messages, subject>>
      /\ messages[m] \in Row
  BY HeldRow DEF Write, Holding, store
<1>2. /\ crossings[m] = 0 /\ notice[m] # "coming"
      /\ messages[m].started /\ ~messages[m].finished
      /\ messages[m].submission = "submission_unknown"
  BY <1>1 DEF ClaimInv, Claiming
<1>3. PICK r \in ResultsFor(m) :
        /\ pc' = [pc EXCEPT ![d] = AfterWrite(r)]
        /\ Decide(d, r.said, "other")
        /\ Left(m, r)
        /\ mistold' = IF r \in MistoldResults THEN mistold \cup {m} ELSE mistold
  BY DEF Write
<1>4. pc'[d] = "record"
  BY <1>3 DEF AfterWrite, TypeOK
<1>5. outcome'[d] = [submission |-> r.said, detail |-> "other"]
  BY <1>3 DEF Decide, TypeOK
<1>6. r.said \in Submission
  BY DEF ResultsFor, ClientResults, MistoldResults, Submission
<1>7. outcome'[d] # None /\ outcome'[d].submission = r.said
  BY <1>5, <1>6, ConstantsAssumption DEF Outcome, Detail
<1>8. r.said = "submitted" => crossings'[m] > 0
  <2>1. ASSUME r.said = "submitted" PROVE Reach(m)
    BY <1>3, <2>1 DEF ResultsFor, ClientResults, MistoldResults, Left
  <2>2. QED
    BY <1>1, <1>2, <2>1 DEF Reach, TypeOK
<1>9. r.said = "not_submitted" =>
        m \in mistold' \/ (crossings'[m] = 0 /\ notice'[m] # "coming")
  <2>1. CASE r \in MistoldResults
    BY <1>3, <2>1
  <2>2. ASSUME r \notin MistoldResults, r.said = "not_submitted" PROVE UNCHANGED client
    BY <1>3, <2>2 DEF ResultsFor, ClientResults, Left
  <2>3. QED
    BY <1>2, <2>1, <2>2 DEF client
<1> HIDE DEF m
<1>10. QED
  BY <1>1, <1>2, <1>4, <1>7, <1>8, <1>9 DEF ClaimOf, m

LEMMA ClaimStep ==
  ASSUME TypeOK, ControlInv, OneCreator, ClaimInv, ReportInv, [Next]_vars
  PROVE  ClaimInv'
<1> SUFFICES ASSUME NEW d \in Command, pc'[d] \in Claiming PROVE ClaimOf(d)'
  BY DEF ClaimInv, ClaimOf, Claiming
<1> USE ConstantsAssumption DEF Goto, locals, TypeOK
<1>1. CASE UNCHANGED Local(d)
  <2>1. /\ pc'[d] = pc[d] /\ outcome'[d] = outcome[d] /\ subject'[d] = subject[d]
    BY <1>1 DEF Local
  <2>2. ~Record(d) /\ ~Calls(d)
    BY <2>1 DEF Record, Calls, Write, AfterWrite, Stop
  <2>3. QED
    BY <2>1, <2>2, ClaimKept
<1>2. CASE Claim(d)
  <2>1. subject[d] \in Id /\ messages[subject[d]] \in Row /\ pc'[d] = "grace"
    BY <1>2, HeldRow DEF Claim, Holding
  <2>2. LET q == Claimed(messages[subject[d]]) IN
        /\ q.started /\ q.submission = "submission_unknown"
        /\ q.finished = messages[subject[d]].finished
    BY <2>1 DEF Claimed, Row
  <2>3. ~messages[subject[d]].finished /\ crossings[subject[d]] = 0 /\ notice[subject[d]] # "coming"
    BY <1>2, <2>1 DEF Claim, Claimable, ReportInv, Saved
  <2>4. /\ UNCHANGED <<subject, crossings, notice>>
        /\ messages'[subject[d]] = Claimed(messages[subject[d]])
    BY <1>2, <2>1 DEF Claim, client
  <2>5. QED
    BY <2>1, <2>2, <2>3, <2>4 DEF ClaimOf, Claiming
<1>3. CASE Write(d)
  BY <1>3, CallEnds
<1>4. CASE \/ GraceSkip(d) \/ GraceOver(d)
           \/ PreflightPassed(d) \/ PreflightFailed(d)
           \/ CheckPassed(d) \/ CheckSkipped(d) \/ CheckUnreadable(d)
  <2>1. /\ pc[d] \in Claiming \ {"record", "write"}
        /\ subject'[d] = subject[d]
        /\ \/ pc'[d] \in Claiming \ {"record"}
           \/ /\ pc'[d] = "record"
              /\ outcome'[d] # None /\ outcome'[d].submission = "not_submitted"
    BY <1>4, SkipReasonIsDetail
    DEF GraceSkip, GraceOver, PreflightPassed, PreflightFailed, CheckPassed,
        CheckSkipped, CheckUnreadable, Decide, Claiming, Outcome, Submission, Detail
  <2>2. ~Record(d) /\ ~Calls(d)
    BY <2>1 DEF Record, Calls
  <2>3. QED
    BY <2>1, <2>2, ClaimKept
<1>5. CASE \/ \E j \in Jobs : Start(d, j)
           \/ Save(d) \/ ClaimRefused(d) \/ Record(d)
  BY <1>5, JobsAssumption
  DEF Start, FirstStep, Job, Save, SaveNew, SaveExisting, SaveRefused, AfterSave,
      ClaimRefused, AfterNotice, Record, Claiming
<1>6. CASE Dismiss(d) \/ Acknowledge(d)
  BY <1>6
  DEF Dismiss, Recheck, DismissNothing, DismissDone, DismissFailed, AfterRecheck,
      AfterDismiss, AfterNotice, Acknowledge, Ack, AckRefused, Claiming
<1>7. CASE Wait(d) \/ Finish(d) \/ Stop(d)
  BY <1>7
  DEF Wait, WaitOpened, WaitRefused, PollAnswered, PollTimeout, Receipt,
      ReceiptSkipped, Finish, Stop, Claiming
<1>8. QED
  BY <1>1, <1>2, <1>3, <1>4, <1>5, <1>6, <1>7, OneMoves DEF Step, Notify, Local

-----------------------------------------------------------------------------
(* Evidence.                                                               *)

\* What is saved stays as it was saved, and what was marked stays marked.
LEMMA RowHistory ==
  ASSUME TypeOK, ControlInv, ClaimInv, [Next]_vars
  PROVE  \A m \in Id : Saved(m) =>
           /\ messages'[m].parent = messages[m].parent
           /\ messages'[m].sender = messages[m].sender
           /\ messages'[m].recipient = messages[m].recipient
           /\ messages'[m].body = messages[m].body
           /\ messages[m].acked => messages'[m].acked
           /\ messages[m].returned => messages'[m].returned
<1> USE ConstantsAssumption
<1>1. ASSUME NEW c \in Command, SaveNew(c)
      PROVE  \A m \in Id : Saved(m) => messages'[m] = messages[m]
  BY <1>1, SaveNewFresh DEF TypeOK
<1>2. ASSUME NEW c \in Command, Claim(c) \/ Record(c), NEW m \in Id, Saved(m)
      PROVE  /\ messages'[m].parent = messages[m].parent
             /\ messages'[m].sender = messages[m].sender
             /\ messages'[m].recipient = messages[m].recipient
             /\ messages'[m].body = messages[m].body
             /\ messages'[m].acked = messages[m].acked
             /\ messages'[m].returned = messages[m].returned
  <2>1. subject[c] \in Id /\ messages[subject[c]] \in Row
    BY <1>2, HeldRow DEF Claim, Record, Goto, Holding
  <2>2. CASE m # subject[c]
    BY <1>2, <2>1, <2>2 DEF Claim, Record, TypeOK
  <2>3. CASE m = subject[c] /\ Claim(c)
    <3>1. messages'[m] = Claimed(messages[m])
      BY <2>1, <2>3 DEF Claim, TypeOK
    <3>2. QED
      BY <2>1, <2>3, <3>1 DEF Claimed, Row
  <2>4. CASE m = subject[c] /\ Record(c)
    <3>1. messages'[m] = Recorded(messages[m], outcome[c])
      BY <2>1, <2>4 DEF Record, TypeOK
    <3>2. QED
      BY <2>1, <2>4, <3>1 DEF Recorded, Row
  <2>5. QED
    BY <1>2, <2>2, <2>3, <2>4
<1>3. QED
  BY <1>1, <1>2, MarkFrame, RowsFrame

\* Evidence that a notice is needless is never withdrawn.
LEMMA EvidenceStays ==
  ASSUME TypeOK, ControlInv, ClaimInv, [Next]_vars
  PROVE  \A m \in Id : Saved(m) /\ Evidence(m) => Evidence(m)'
BY RowHistory DEF Evidence, IsAnswer

\* Up to the client call, whose last check comes right before it.
BeforeCall == {"idle", "save", "claim", "grace", "preflight", "write"}

\* A command that has left those places comes back to none of them except
\* from its last check.
LEMMA NoWayBack ==
  ASSUME TypeOK, [Next]_vars, NEW c \in Command, pc[c] \notin BeforeCall
  PROVE  pc'[c] \notin BeforeCall \/ CheckPassed(c)
<1> USE DEF Goto, BeforeCall, TypeOK
<1>1. CASE Save(c) \/ \E j \in Jobs : Start(c, j)
  BY <1>1 DEF Save, SaveNew, SaveExisting, SaveRefused, Start
<1>2. CASE Notify(c)
  BY <1>2
  DEF Notify, Claim, ClaimRefused, GraceSkip, GraceOver, PreflightPassed,
      PreflightFailed, CheckSkipped, CheckUnreadable, Write, Record
<1>3. CASE Dismiss(c) \/ Acknowledge(c)
  BY <1>3
  DEF Dismiss, Recheck, DismissNothing, DismissDone, DismissFailed,
      Acknowledge, Ack, AckRefused, AfterRecheck, AfterDismiss, AfterNotice
<1>4. CASE Wait(c)
  BY <1>4
  DEF Wait, WaitOpened, WaitRefused, PollAnswered, PollTimeout, Receipt,
      ReceiptSkipped
<1>5. CASE Finish(c) \/ Stop(c)
  BY <1>5 DEF Finish, Stop
<1>6. CASE pc'[c] = pc[c]
  BY <1>6
<1>7. QED
  BY <1>1, <1>2, <1>3, <1>4, <1>5, <1>6, OneMoves DEF Step, Local
LEMMA EvidenceStep ==
  ASSUME TypeOK, ControlInv, OneCreator, ClaimInv, EvidenceInv, [Next]_vars
  PROVE  EvidenceInv'
<1>1. SUFFICES ASSUME NEW c \in Command, c \in overdue'
               PROVE  /\ created'[c] /\ Evidence(subject[c])'
                      /\ crossings'[subject'[c]] = 0 /\ notice'[subject'[c]] # "coming"
                      /\ pc'[c] \notin BeforeCall
  <2>1. overdue' \subseteq Command
    <3>1. \/ overdue' = overdue
          \/ \E c \in Command : overdue' \subseteq overdue \cup {c}
      BY DEF Next, Step, Save, SaveNew, SaveExisting, SaveRefused, Notify, Claim,
         ClaimRefused, GraceSkip, GraceOver, PreflightPassed, PreflightFailed,
         CheckPassed, CheckSkipped, CheckUnreadable, Write, Record, Dismiss,
         Recheck, DismissNothing, DismissDone, DismissFailed, Acknowledge, Ack,
         AckRefused, Wait, WaitOpened, WaitRefused, PollAnswered, PollTimeout,
         Receipt, ReceiptSkipped, Finish, Stop, Start, Retire, Restore,
         ClientTakes, LateCrossing, history, vars
    <3>2. QED
      BY <3>1 DEF TypeOK
  <2>2. QED
    BY <2>1, <1>1 DEF EvidenceInv, BeforeCall
<1>2. CASE c \in overdue
  <2>1. /\ created[c] /\ Evidence(subject[c])
        /\ crossings[subject[c]] = 0 /\ notice[subject[c]] # "coming"
        /\ pc[c] \notin BeforeCall
        /\ subject[c] \in Id /\ Saved(subject[c])
    BY <1>2 DEF EvidenceInv, BeforeCall, ControlInv
  <2>2. ~CheckPassed(c)
    BY <2>1, ConstantsAssumption
    DEF CheckPassed, Needed, SkipReason, Evidence, SkipReasons
  <2>3. pc'[c] \notin BeforeCall
    BY <2>1, <2>2, NoWayBack
  <2>4. created'[c] /\ subject'[c] = subject[c]
    <3>1. ASSUME NEW d \in Command,
                 SaveNew(d) \/ SaveExisting(d) \/ \E j \in Jobs : Start(d, j)
          PROVE  d # c /\ created'[c] = created[c] /\ subject'[c] = subject[c]
      BY <2>1, <3>1 DEF SaveNew, SaveExisting, Start, Goto, BeforeCall, TypeOK
    <3>2. QED
      BY <2>1, <3>1, SubjectFrame
  <2>5. crossings'[subject[c]] = 0 /\ notice'[subject[c]] # "coming"
    <3>1. ASSUME NEW d \in Command, Calls(d), subject[d] = subject[c]
          PROVE  FALSE
      BY <2>1, <3>1 DEF Calls, ControlInv, OneCreator, Claiming, BeforeCall
    <3>2. ~LateCrossing(subject[c])
      BY <2>1 DEF LateCrossing
    <3>3. QED
      BY <2>1, <3>1, <3>2, NoticeFrame
  <2>6. QED
    BY <2>1, <2>3, <2>4, <2>5, EvidenceStays
<1>3. CASE c \notin overdue
  <2>1. PreflightPassed(c) /\ Evidence(subject[c])
    BY <1>1, <1>3
    DEF Next, Step, Save, SaveNew, SaveExisting, SaveRefused, Notify, Claim,
        ClaimRefused, GraceSkip, GraceOver, PreflightPassed, PreflightFailed,
        CheckPassed, CheckSkipped, CheckUnreadable, Write, Record, Dismiss,
        Recheck, DismissNothing, DismissDone, DismissFailed, Acknowledge, Ack,
        AckRefused, Wait, WaitOpened, WaitRefused, PollAnswered, PollTimeout,
        Receipt, ReceiptSkipped, Finish, Stop, Start, Retire, Restore,
        ClientTakes, LateCrossing, history, vars
  <2>2. /\ pc[c] = "preflight" /\ pc'[c] = "check"
        /\ UNCHANGED <<messages, created, subject, crossings, notice>>
    BY <2>1 DEF PreflightPassed, Goto, store, locals, client, TypeOK
  <2>3. created[c] /\ crossings[subject[c]] = 0 /\ notice[subject[c]] # "coming"
    BY <2>2 DEF ControlInv, ClaimInv, Claiming
  <2>4. QED
    BY <2>1, <2>2, <2>3 DEF Evidence, IsAnswer, BeforeCall
<1>4. QED
  BY <1>2, <1>3
-----------------------------------------------------------------------------
(* Queued notices.                                                         *)

\* A row becomes acknowledged and submitted by an acknowledgment or a record.
LEMMA SettledBy ==
  ASSUME TypeOK, ControlInv, [Next]_vars, NEW m \in Id, Saved(m),
         messages[m].started,
         messages'[m].acked, messages'[m].submission = "submitted",
         ~(messages[m].acked /\ messages[m].submission = "submitted")
  PROVE  \E c \in Command :
           subject[c] = m /\ subject'[c] = m /\ pc'[c] = "recheck"
<1> USE DEF Goto
<1>1. messages'[m] # messages[m]
  OBVIOUS
<1>2. ASSUME NEW c \in Command, SaveNew(c) PROVE FALSE
  BY <1>1, <1>2, SaveNewFresh DEF TypeOK
<1>3. ASSUME NEW c \in Command, Claim(c) PROVE FALSE
  <2>1. subject[c] \in Id /\ subject[c] # m
    BY <1>3, HeldRow DEF Claim, Claimable, Holding
  <2>2. QED
    BY <1>1, <1>3, <2>1 DEF Claim, TypeOK
<1>4. ASSUME NEW c \in Command, Receipt(c) PROVE FALSE
  <2>1. answer[c] \in Id /\ messages[answer[c]] \in Row
    BY <1>4, ConstantsAssumption DEF Receipt, ControlInv, Saved, TypeOK
  <2>2. answer[c] = m
    BY <1>1, <1>4, <2>1 DEF Receipt, TypeOK
  <2>3. messages'[m] = [messages[m] EXCEPT !.returned = TRUE]
    BY <1>4, <2>1, <2>2 DEF Receipt, TypeOK
  <2>4. messages'[m].acked = messages[m].acked
        /\ messages'[m].submission = messages[m].submission
    BY <2>1, <2>2, <2>3 DEF Row
  <2>5. QED
    BY <2>4
<1>5. ASSUME NEW c \in Command, Record(c) \/ Ack(c)
      PROVE  subject[c] = m /\ subject'[c] = m /\ pc'[c] = "recheck"
  <2>1. subject[c] \in Id
    BY <1>5, HeldRow DEF Record, Ack, Holding, ControlInv
  <2>2. subject[c] = m
    BY <1>1, <1>5, <2>1 DEF Record, Ack, TypeOK
  <2>3. QED
    BY <1>5, <2>2 DEF Record, Ack, locals, TypeOK
<1>6. QED
  BY <1>1, <1>2, <1>3, <1>4, <1>5, RowsFrame

\* A command that has this notice to remove, and will.
Removes(c, m) ==
  /\ subject[c] = m
  /\ \/ pc[c] = "recheck"
     \/ pc[c] = "dismiss" /\ Dismissible(c)

\* It goes on until the notice is removed or the removal is cut short.
LEMMA RemovalGoesOn ==
  ASSUME TypeOK, ControlInv, ReportInv, [Next]_vars, NEW c \in Command, NEW m \in Id,
         Removes(c, m), notice[m] = "queued", notice'[m] = "queued",
         messages[m].recipient \in Removable, Saved(m),
         messages[m].acked, messages[m].submission = "submitted"
  PROVE  Removes(c, m)' \/ m \in abandoned'
<1>1. CASE UNCHANGED <<pc[c], subject[c], view[c]>>
  BY <1>1 DEF Removes, Dismissible
<1>2. CASE Step(c) \/ Stop(c) \/ \E j \in Jobs : Start(c, j)
  <2>1. pc[c] \in {"recheck", "dismiss"} /\ subject[c] = m
    BY DEF Removes
  <2>2. CASE Recheck(c)
    <3>1. pc[c] = "recheck" /\ pc'[c] = "dismiss" /\ subject'[c] = m
      BY <2>1, <2>2 DEF Recheck, AfterRecheck, Goto, TypeOK
    <3>2. view'[c] = messages[m] /\ messages[m].finished
      BY <2>1, <2>2 DEF Recheck, Read, ReportInv, TypeOK
    <3>3. Dismissible(c)'
      BY <3>2 DEF Dismissible
    <3>4. QED
      BY <3>1, <3>3 DEF Removes
  <2>3. CASE DismissNothing(c)
    BY <2>3 DEF DismissNothing, Goto, Removes
  <2>4. CASE DismissDone(c)
    BY <2>1, <2>4 DEF DismissDone, Withdraw, TypeOK
  <2>5. CASE DismissFailed(c) \/ Stop(c)
    BY <2>1, <2>5 DEF DismissFailed, Stop
  <2>6. CASE Save(c) \/ Notify(c) \/ Acknowledge(c) \/ Wait(c) \/ Finish(c)
             \/ \E j \in Jobs : Start(c, j)
    BY <2>1, <2>6
    DEF Save, SaveNew, SaveExisting, SaveRefused, Notify, Claim, ClaimRefused,
        GraceSkip, GraceOver, PreflightPassed, PreflightFailed, CheckPassed,
        CheckSkipped, CheckUnreadable, Write, Record, Acknowledge, Ack,
        AckRefused, Wait, WaitOpened, WaitRefused, PollAnswered, PollTimeout,
        Receipt, ReceiptSkipped, Finish, Start, Goto
  <2>7. QED
    BY <1>2, <2>2, <2>3, <2>4, <2>5, <2>6 DEF Step, Dismiss
<1>3. QED
  BY <1>1, <1>2, OneMoves DEF Local, locals

LEMMA LeftoverStep ==
  ASSUME TypeOK, ControlInv, ClaimInv, ReportInv, LeftoverInv, [Next]_vars,
         NEW m \in Id, notice'[m] = "queued"
  PROVE  /\ crossings'[m] = 1
         /\ messages'[m].recipient \in Removable
         /\ messages'[m].acked /\ messages'[m].submission = "submitted" =>
              m \in abandoned' \/ \E c \in Command : Removes(c, m)'
<1>1. CASE notice[m] # "queued"
  <2>1. CASE LateCrossing(m)
    <3>1. notice[m] = "coming" /\ messages' = messages /\ crossings[m] = 0
      BY <2>1 DEF LateCrossing, store, ReportInv
    <3>2. crossings'[m] = 1 /\ messages[m].recipient \in Removable
      BY <2>1, <3>1, ReachEffect DEF LateCrossing, TypeOK
    <3>3. messages[m].submission # "submitted"
      BY <3>1 DEF ReportInv
    <3>4. QED
      BY <3>1, <3>2, <3>3
  <2>2. ASSUME NEW c \in Command, Calls(c), subject[c] = m
        PROVE  /\ crossings'[m] = 1 /\ messages'[m].recipient \in Removable
               /\ messages'[m].submission # "submitted"
    <3>1. crossings[m] = 0 /\ messages[m].submission = "submission_unknown"
      BY <2>2 DEF Calls, ClaimInv, Claiming
    <3>2. messages' = messages
      BY <2>2, CallEffect
    <3>3. crossings'[m] = 1 /\ messages[m].recipient \in Removable
      BY <1>1, <2>2, <3>1, CallEffect, ReachEffect
    <3>4. QED
      BY <3>1, <3>2, <3>3
  <2>3. QED
    BY <1>1, <2>1, <2>2, NoticeFrame
<1>2. CASE notice[m] = "queued"
  <2>1. /\ crossings[m] = 1
        /\ messages[m].recipient \in Removable
        /\ messages[m].acked /\ messages[m].submission = "submitted" =>
             m \in abandoned \/ \E c \in Command : Removes(c, m)
    BY <1>2 DEF LeftoverInv, Removes
  <2>2. Saved(m) /\ messages[m].started
    BY <2>1 DEF ReportInv
  <2>3. crossings'[m] = 1
    <3>1. ASSUME NEW c \in Command, Calls(c) PROVE subject[c] # m
      BY <2>1, <3>1 DEF Calls, ClaimInv, Claiming
    <3>2. ~LateCrossing(m)
      BY <1>2 DEF LateCrossing
    <3>3. QED
      BY <2>1, <3>1, <3>2, NoticeFrame
  <2>4. messages'[m].recipient \in Removable
    BY <2>1, <2>2, RowHistory
  <2>5. abandoned \subseteq abandoned'
    BY DEF Next, Step, Save, SaveNew, SaveExisting, SaveRefused, Notify, Claim,
       ClaimRefused, GraceSkip, GraceOver, PreflightPassed, PreflightFailed,
       CheckPassed, CheckSkipped, CheckUnreadable, Write, Record, Dismiss,
       Recheck, DismissNothing, DismissDone, DismissFailed, Acknowledge, Ack,
       AckRefused, Wait, WaitOpened, WaitRefused, PollAnswered, PollTimeout,
       Receipt, ReceiptSkipped, Finish, Stop, Start, Retire, Restore,
       ClientTakes, LateCrossing, history, vars
  <2>6. ASSUME messages'[m].acked, messages'[m].submission = "submitted"
        PROVE  m \in abandoned' \/ \E c \in Command : Removes(c, m)'
    <3>1. CASE messages[m].acked /\ messages[m].submission = "submitted"
      BY <1>2, <2>1, <2>2, <2>5, <3>1, RemovalGoesOn
    <3>2. CASE ~(messages[m].acked /\ messages[m].submission = "submitted")
      <4>1. PICK c \in Command :
              subject[c] = m /\ subject'[c] = m /\ pc'[c] = "recheck"
        BY <2>2, <2>6, <3>2, SettledBy
      <4>2. Removes(c, m)'
        BY <4>1 DEF Removes
      <4>3. QED
        BY <4>2
    <3>3. QED
      BY <3>1, <3>2
  <2>7. QED
    BY <2>3, <2>4, <2>6
<1>3. QED
  BY <1>1, <1>2

-----------------------------------------------------------------------------
(* The theorems.                                                           *)

\* Nothing is saved, started or notified at first.
LEMMA InitIInv == Init => IInv
BY ConstantsAssumption
DEF Init, IInv, TypeOK, ControlInv, OneCreator, ClaimInv, ReportInv, EvidenceInv,
    LeftoverInv, Saved, Label, Holding, Claiming

LEMMA StepIInv == IInv /\ [Next]_vars => IInv'
<1> SUFFICES ASSUME IInv, [Next]_vars PROVE IInv'
  OBVIOUS
<1>1. TypeOK'
  BY TypeStep DEF IInv
<1>2. ControlInv'
  BY <1>1, ControlStep DEF IInv
<1>3. OneCreator' /\ ClaimInv' /\ ReportInv' /\ EvidenceInv'
  BY OneCreatorStep, ClaimStep, ReportStep, EvidenceStep DEF IInv
<1>4. LeftoverInv'
  BY LeftoverStep DEF IInv, LeftoverInv, Removes, Dismissible
<1>5. QED
  BY <1>1, <1>2, <1>3, <1>4 DEF IInv

\* The inductive invariant: what each place in a command may rely on, and
\* what the store and the client then say of each other.
THEOREM Inductive == Spec => []IInv
BY InitIInv, StepIInv, PTL DEF Spec

\* Every variable keeps its type, whatever is sent, retried or interrupted.
THEOREM TypeCorrect == Spec => []TypeOK
<1>1. IInv => TypeOK
  BY DEF IInv
<1>2. QED
  BY <1>1, Inductive, PTL

\* No message's notice reaches a client twice (notify_once claims the row
\* before it calls the client and never gives the claim back).
THEOREM NeverTwice == Spec => []AtMostOneNotice
<1>1. IInv => AtMostOneNotice
  BY DEF IInv, ReportInv, AtMostOneNotice
<1>2. QED
  BY <1>1, Inductive, PTL

\* What the store reports of a notice that reached its client, or still may, is
\* never a denial, at any moment of any command, whichever step the process died
\* after, except where the adapter itself was told wrongly (codex/mod.rs:297).
THEOREM ReportsAreTrue == Spec => []ReportTruthful
<1>1. IInv => ReportTruthful
  BY DEF IInv, ReportInv, ReportTruthful
<1>2. QED
  BY <1>1, Inductive, PTL

\* A save says "created" once, so a retry never starts a second notice.
THEOREM CreatedOnce == Spec => []OneCreator
<1>1. IInv => OneCreator
  BY DEF IInv
<1>2. QED
  BY <1>1, Inductive, PTL

\* Evidence saved before the adapter's last check keeps the notice from the
\* client: the probe of the client may take as long as it likes.
THEOREM EvidenceStopsTheNotice == Spec => []NoNoticeAfterEvidence
<1>1. IInv => NoNoticeAfterEvidence
  BY DEF IInv, EvidenceInv, NoNoticeAfterEvidence
<1>2. QED
  BY <1>1, Inductive, PTL

\* Of a sender's record and an acknowledgment, whichever comes second removes
\* the queued notice.
THEOREM NothingIsLeftBehind == Spec => []NoLeftoverNotice
<1>1. IInv => NoLeftoverNotice
  BY DEF IInv, LeftoverInv, NoLeftoverNotice
<1>2. QED
  BY <1>1, Inductive, PTL

-----------------------------------------------------------------------------
(* Reasons and exit codes.                                                 *)

\* A reply stays a reply.
LEMMA RepliesStay ==
  ASSUME TypeOK, ControlInv, ClaimInv, [Next]_vars, NEW m, NEW r \in Replies(m)
  PROVE  r \in Replies(m)'
<1>1. r \in Id /\ Saved(r) /\ messages[r].parent = m
  BY DEF Replies
<1>2. Saved(r)' /\ messages'[r].parent = m
  BY <1>1, SavedStays, RowHistory
<1>3. QED
  BY <1>1, <1>2 DEF Replies

\* A row comes from a save.
LEMMA RowsBorn ==
  ASSUME TypeOK, ControlInv, ClaimInv, [Next]_vars, NEW m \in Id, ~Saved(m), Saved(m)'
  PROVE  \E c \in Command : /\ SaveNew(c) /\ job[c] \in Jobs
                            /\ messages'[m] = NewRow(job[c])
<1>1. ASSUME NEW c \in Command, Claim(c) \/ Record(c)
      PROVE  FALSE
  <2>1. subject[c] \in Id /\ messages[subject[c]] \in Row
    BY <1>1, HeldRow DEF Claim, Record, Goto, Holding
  <2>2. subject[c] # m
    BY <2>1, ConstantsAssumption DEF Saved
  <2>3. QED
    BY <1>1, <2>1, <2>2 DEF Claim, Record, Saved, TypeOK
<1>2. ASSUME NEW c \in Command, Ack(c) \/ Receipt(c)
      PROVE  FALSE
  BY <1>2, MarkFrame
<1>3. ASSUME NEW c \in Command, SaveNew(c)
      PROVE  job[c] \in Jobs /\ messages'[m] = NewRow(job[c])
  <2>1. job[c] \in Jobs
    BY <1>3 DEF SaveNew, Goto, ControlInv, TypeOK
  <2>2. PICK n \in Id : messages' = [messages EXCEPT ![n] = NewRow(job[c])]
    BY <1>3, SaveNewFresh
  <2>3. QED
    BY <2>1, <2>2 DEF Saved, TypeOK
<1>4. QED
  BY <1>1, <1>2, <1>3, RowsFrame DEF Saved

\* A reason is written by the record of its own command, a receipt by the wait
\* that returns the answer.
LEMMA RowMarks ==
  ASSUME TypeOK, ControlInv, ClaimInv, [Next]_vars, NEW m \in Id, Saved(m)
  PROVE  /\ messages'[m].detail # messages[m].detail =>
              \E c \in Command : /\ Record(c) /\ subject[c] = m
                                 /\ messages'[m].detail = outcome[c].detail
         /\ messages'[m].returned /\ ~messages[m].returned =>
              \E c \in Command : Receipt(c) /\ answer[c] = m
<1> DEFINE Same == /\ messages'[m].detail = messages[m].detail
                   /\ messages'[m].returned = messages[m].returned
<1>1. ASSUME NEW c \in Command, SaveNew(c) PROVE Same
  BY <1>1, SaveNewFresh DEF TypeOK
<1>2. ASSUME NEW c \in Command, Claim(c) PROVE Same
  <2>1. subject[c] \in Id /\ messages[subject[c]] \in Row
    BY <1>2, HeldRow DEF Claim, Goto, Holding
  <2>2. QED
    BY <1>2, <2>1 DEF Claim, Claimed, Row, TypeOK
<1>3. ASSUME NEW c \in Command, Record(c)
      PROVE  /\ messages'[m].returned = messages[m].returned
             /\ messages'[m].detail # messages[m].detail =>
                  subject[c] = m /\ messages'[m].detail = outcome[c].detail
  <2>1. subject[c] \in Id /\ messages[subject[c]] \in Row
    BY <1>3, HeldRow DEF Record, Goto, Holding
  <2>2. CASE subject[c] # m
    BY <1>3, <2>1, <2>2 DEF Record, TypeOK
  <2>3. CASE subject[c] = m
    <3>1. messages'[m] = Recorded(messages[m], outcome[c])
      BY <1>3, <2>3 DEF Record, TypeOK
    <3>2. QED
      BY <2>1, <2>3, <3>1 DEF Recorded, Row
  <2>4. QED
    BY <2>2, <2>3
<1>4. ASSUME NEW c \in Command, Ack(c) PROVE Same
  <2>1. subject[c] \in Id /\ messages[subject[c]] \in Row
    BY <1>4 DEF Ack, Goto, ToRecipient, ControlInv, Saved, TypeOK
  <2>2. QED
    BY <1>4, <2>1 DEF Ack, Row, TypeOK
<1>5. ASSUME NEW c \in Command, Receipt(c)
      PROVE  /\ messages'[m].detail = messages[m].detail
             /\ messages'[m].returned # messages[m].returned => answer[c] = m
  <2>1. answer[c] \in Id /\ messages[answer[c]] \in Row
    BY <1>5 DEF Receipt, Goto, ControlInv, Saved, TypeOK
  <2>2. QED
    BY <1>5, <2>1 DEF Receipt, Row, TypeOK
<1>6. QED
  BY <1>1, <1>2, <1>3, <1>4, <1>5, RowsFrame

\* Between two moves of a command the replies to its message stay.
LEMMA AnswerStep ==
  ASSUME TypeOK, ControlInv, ClaimInv, AnswerInv, [Next]_vars
  PROVE  AnswerInv'
<1> DEFINE Early(c) == pc[c] \in {"idle", "save"} \cup Claiming \cup {"claim"}
           Holds(c) == /\ Early(c) => view[c] = None
                       /\ pc[c] \in {"idle", "save"} => answer[c] = None
                       /\ answer[c] # None => answer[c] \in Replies(subject[c])
<1> SUFFICES ASSUME NEW c \in Command PROVE Holds(c)'
  BY DEF AnswerInv
<1>0. Holds(c)
  BY DEF AnswerInv
<1>1. CASE Local(c)' = Local(c)
  BY <1>0, <1>1, RepliesStay DEF Local
<1> USE DEF Goto, locals, store, client, history, Claiming, TypeOK
<1>2. ASSUME \/ \E j \in Jobs : Start(c, j)
             \/ Save(c)
      PROVE  Holds(c)'
  <2>1. view'[c] = None /\ answer'[c] = None
    BY <1>0, <1>2 DEF Start, Save, SaveNew, SaveExisting, SaveRefused
  <2>2. QED
    BY <2>1
<1>3. ASSUME \/ Claim(c) \/ GraceSkip(c) \/ GraceOver(c)
             \/ PreflightPassed(c) \/ PreflightFailed(c) \/ CheckPassed(c)
             \/ CheckSkipped(c) \/ CheckUnreadable(c) \/ Write(c) \/ Record(c)
      PROVE  Holds(c)'
  <2>1. view'[c] = view[c] /\ answer'[c] = answer[c] /\ subject'[c] = subject[c] /\ Early(c)
        /\ pc'[c] \notin {"idle", "save"}
    BY <1>3
    DEF Claim, GraceSkip, GraceOver, PreflightPassed, PreflightFailed, CheckPassed,
        CheckSkipped, CheckUnreadable, Write, AfterWrite, Record, Decide
  <2>2. QED
    BY <1>0, <2>1, RepliesStay
<1>4. ASSUME \/ ClaimRefused(c) \/ Recheck(c) \/ WaitOpened(c) \/ PollAnswered(c)
             \/ PollTimeout(c)
      PROVE  Holds(c)'
  <2>1. /\ pc'[c] \in {"wait", "finish", "dismiss", "poll", "receipt"}
        /\ answer'[c] = ReplyOf(subject[c])
        /\ messages' = messages /\ subject' = subject
    BY <1>4
    DEF ClaimRefused, Recheck, WaitOpened, PollAnswered, PollTimeout, Read,
        AfterNotice, AfterRecheck
  <2>2. ReplyOf(subject[c]) # None => ReplyOf(subject[c]) \in Replies(subject[c])
    BY DEF ReplyOf
  <2>3. Replies(subject[c])' = Replies(subject[c])
    BY <2>1 DEF Replies, Saved
  <2>4. QED
    BY <2>1, <2>2, <2>3
<1>5. ASSUME \/ DismissNothing(c) \/ DismissDone(c) \/ DismissFailed(c)
             \/ Acknowledge(c) \/ WaitRefused(c) \/ Receipt(c) \/ ReceiptSkipped(c)
             \/ Finish(c) \/ Stop(c)
      PROVE  Holds(c)'
  <2>1. /\ pc'[c] \in {"finish", "wait", "recheck", "stopped", "exit0", "exit2"}
        /\ answer'[c] = answer[c] /\ subject'[c] = subject[c]
    BY <1>5
    DEF DismissNothing, DismissDone, DismissFailed, AfterDismiss, AfterNotice,
        Acknowledge, Ack, AckRefused, WaitRefused, Receipt, ReceiptSkipped, Finish,
        Stop, Forget
  <2>2. QED
    BY <1>0, <2>1, RepliesStay
<1>6. QED
  BY <1>1, <1>2, <1>3, <1>4, <1>5, OneMoves
  DEF Step, Notify, Dismiss, Wait, Local

\* Only a request that is saved is answered, to the peer that sent it.
LEMMA AnswersReturn ==
  ASSUME TypeOK, ControlInv, ClaimInv, WaitInv, [Next]_vars,
         NEW m \in Id, Saved(m)', IsAnswer(m)'
  PROVE  /\ messages'[m].parent \in Id /\ Saved(messages[m].parent)'
         /\ messages'[m].recipient = messages'[messages'[m].parent].sender
<1>1. CASE Saved(m)
  <2>1. /\ messages'[m].parent = messages[m].parent
        /\ messages'[m].recipient = messages[m].recipient
    BY <1>1, RowHistory
  <2>2. /\ messages[m].parent \in Id /\ Saved(messages[m].parent)
        /\ messages[m].recipient = messages[messages[m].parent].sender
    BY <1>1, <2>1 DEF WaitInv, IsAnswer
  <2>3. QED
    BY <2>1, <2>2, SavedStays, RowHistory
<1>2. CASE ~Saved(m)
  <2>1. PICK c \in Command : /\ SaveNew(c) /\ job[c] \in Jobs
                             /\ messages'[m] = NewRow(job[c])
    BY <1>2, RowsBorn
  <2>2. Addressed(job[c])
    BY <2>1 DEF SaveNew, Insertable
  <2>3. /\ messages'[m].parent = Parent(job[c])
        /\ messages'[m].recipient = Recipient(job[c])
    BY <2>1 DEF NewRow
  <2>4. job[c].op = "reply" /\ Parent(job[c]) = job[c].id
    BY <2>3 DEF IsAnswer, Parent
  <2>5. job[c].id \in Id /\ Saved(job[c].id)
    BY <2>1, <2>2, <2>4, JobsAssumption DEF Addressed, Job
  <2>6. QED
    BY <2>3, <2>4, <2>5, SavedStays, RowHistory DEF Recipient
<1>3. QED
  BY <1>1, <1>2

LEMMA WaitStep ==
  ASSUME TypeOK, ControlInv, ClaimInv, WaitInv, [Next]_vars
  PROVE  WaitInv'
<1> DEFINE Waits(c) == job[c].op = "wait" \/ job[c].wait
           Holds(c) == /\ pc[c] \in {"wait", "poll", "receipt"} => Waits(c)
                       /\ pc[c] \in {"poll", "receipt"} => OwnRequest(c)
<1> SUFFICES ASSUME NEW c \in Command PROVE Holds(c)'
  BY AnswersReturn DEF WaitInv
<1>0. Holds(c)
  BY DEF WaitInv
<1>a. ASSUME OwnRequest(c), job'[c] = job[c], subject'[c] = subject[c], subject[c] \in Id
      PROVE  OwnRequest(c)'
  BY <1>a, SavedStays, RowHistory DEF OwnRequest, IsAnswer
<1>1. CASE Local(c)' = Local(c)
  <2>1. /\ pc'[c] = pc[c] /\ job'[c] = job[c] /\ subject'[c] = subject[c]
    BY <1>1 DEF Local
  <2>2. pc[c] \in {"poll", "receipt"} => subject[c] \in Id
    BY DEF ControlInv, Holding
  <2>3. QED
    BY <1>0, <1>a, <2>1, <2>2
<1> USE DEF Goto, locals, store, client, history, TypeOK
<1>2. ASSUME NEW j \in Jobs, Start(c, j) PROVE Holds(c)'
  BY <1>2, JobsAssumption DEF Start, FirstStep, Job
<1>3. ASSUME Save(c) PROVE Holds(c)'
  BY <1>3 DEF Save, SaveNew, SaveExisting, SaveRefused, AfterSave
<1>4. ASSUME Notify(c) PROVE Holds(c)'
  BY <1>4
  DEF Notify, Claim, ClaimRefused, GraceSkip, GraceOver, PreflightPassed, PreflightFailed,
      CheckPassed, CheckSkipped, CheckUnreadable, Write, AfterWrite, Record, AfterNotice
<1>5. ASSUME Dismiss(c) \/ Acknowledge(c) PROVE Holds(c)'
  BY <1>5
  DEF Dismiss, Recheck, DismissNothing, DismissDone, DismissFailed, AfterRecheck,
      AfterDismiss, AfterNotice, Acknowledge, Ack, AckRefused
<1>6. ASSUME WaitOpened(c) \/ PollAnswered(c) PROVE Holds(c)'
  <2>1. /\ pc[c] \in {"wait", "poll"} /\ pc'[c] \in {"poll", "receipt"}
        /\ UNCHANGED <<messages, job, subject>>
    BY <1>6 DEF WaitOpened, PollAnswered
  <2>2. OwnRequest(c)
    BY <1>0, <1>6 DEF WaitOpened, PollAnswered
  <2>3. QED
    BY <1>0, <2>1, <2>2 DEF OwnRequest, Saved, IsAnswer
<1>7. ASSUME WaitRefused(c) \/ PollTimeout(c) \/ Receipt(c) \/ ReceiptSkipped(c)
             \/ Finish(c) \/ Stop(c)
      PROVE  Holds(c)'
  BY <1>7 DEF WaitRefused, PollTimeout, Receipt, ReceiptSkipped, Finish, Stop
<1>8. QED
  BY <1>1, <1>2, <1>3, <1>4, <1>5, <1>6, <1>7, OneMoves DEF Step, Wait, Local

\* A command that has nothing more to read keeps what it has read.
LEMMA LateStays ==
  ASSUME TypeOK, [Next]_vars, NEW c \in Command, pc[c] \in Ended \cup {"finish"}
  PROVE  /\ pc'[c] \in Ended \cup {"finish"}
         /\ answer'[c] = answer[c] /\ job'[c] = job[c]
<1> USE DEF Goto, locals, Ended, TypeOK
<1>1. CASE Local(c)' = Local(c)
  BY <1>1 DEF Local
<1>2. CASE Finish(c) \/ Stop(c)
  BY <1>2 DEF Finish, Stop, Forget
<1>3. ASSUME Save(c) \/ \E j \in Jobs : Start(c, j) PROVE FALSE
  BY <1>3 DEF Save, SaveNew, SaveExisting, SaveRefused, Start
<1>4. ASSUME Notify(c) PROVE FALSE
  BY <1>4
  DEF Notify, Claim, ClaimRefused, GraceSkip, GraceOver, PreflightPassed, PreflightFailed,
      CheckPassed, CheckSkipped, CheckUnreadable, Write, Record
<1>5. ASSUME Dismiss(c) \/ Acknowledge(c) \/ Wait(c) PROVE FALSE
  BY <1>5
  DEF Dismiss, Recheck, DismissNothing, DismissDone, DismissFailed, Acknowledge, Ack,
      AckRefused, Wait, WaitOpened, WaitRefused, PollAnswered, PollTimeout, Receipt,
      ReceiptSkipped
<1>6. QED
  BY <1>1, <1>2, <1>3, <1>4, <1>5, OneMoves DEF Step, Local

LEMMA ReturnStep ==
  ASSUME TypeOK, ControlInv, ClaimInv, AnswerInv, WaitInv, ReturnInv, [Next]_vars
  PROVE  ReturnInv'
<1> SUFFICES ASSUME NEW m \in Id, Saved(m)', messages'[m].returned
             PROVE  IsAnswer(m)' /\ ReturnedFor(m)'
  BY DEF ReturnInv
<1>1. CASE Saved(m) /\ messages[m].returned
  <2>1. IsAnswer(m)
    BY <1>1 DEF ReturnInv
  <2>2. PICK c \in Command :
          /\ pc[c] \in Ended \cup {"finish"} /\ answer[c] = m
          /\ job[c].op = "wait" \/ job[c].wait
          /\ job[c].actor = messages[m].recipient
    BY <1>1 DEF ReturnInv, ReturnedFor
  <2>3. /\ messages'[m].parent = messages[m].parent
        /\ messages'[m].recipient = messages[m].recipient
    BY <1>1, RowHistory
  <2>4. QED
    BY <2>1, <2>2, <2>3, LateStays DEF ReturnedFor, IsAnswer
<1>2. CASE Saved(m) /\ ~messages[m].returned
  <2>1. PICK c \in Command : Receipt(c) /\ answer[c] = m
    BY <1>2, RowMarks
  <2>2. /\ pc[c] = "receipt" /\ pc'[c] = "finish"
        /\ job' = job /\ answer' = answer
    BY <2>1 DEF Receipt, Goto, locals, TypeOK
  <2>3. OwnRequest(c) /\ (job[c].op = "wait" \/ job[c].wait)
    BY <2>2 DEF WaitInv
  <2>4. subject[c] \in Id /\ messages[m].parent = subject[c]
    BY <2>1, <2>2, ConstantsAssumption DEF AnswerInv, Replies, ControlInv, Holding
  <2>5. IsAnswer(m) /\ job[c].actor = messages[m].recipient
    BY <1>2, <2>3, <2>4, ConstantsAssumption DEF IsAnswer, WaitInv, OwnRequest
  <2>6. /\ messages'[m].parent = messages[m].parent
        /\ messages'[m].recipient = messages[m].recipient
    BY <1>2, RowHistory
  <2>7. QED
    BY <2>1, <2>2, <2>3, <2>5, <2>6 DEF ReturnedFor, IsAnswer
<1>3. CASE ~Saved(m)
  <2>1. PICK c \in Command : messages'[m] = NewRow(job[c])
    BY <1>3, RowsBorn
  <2>2. ~messages'[m].returned
    BY <2>1 DEF NewRow
  <2>3. QED
    BY <2>2
<1>4. QED
  BY <1>1, <1>2, <1>3

\* What a check gives as its reason is a fact of the row.
LEMMA ReasonIsFact ==
  ASSUME NEW m
  PROVE  FactOf(SkipReason(m), m)
BY ConstantsAssumption DEF SkipReason, FactOf, SkipReasons

LEMMA DetailStep ==
  ASSUME TypeOK, ControlInv, ClaimInv, DetailInv, [Next]_vars
  PROVE  DetailInv'
<1>1. ASSUME NEW m \in Id, Saved(m)'
      PROVE  FactOf(messages[m].detail, m)'
  <2>1. CASE Saved(m) /\ messages'[m].detail = messages[m].detail
    BY <2>1, RowHistory DEF DetailInv, FactOf
  <2>2. CASE Saved(m) /\ messages'[m].detail # messages[m].detail
    <3>1. PICK c \in Command : /\ Record(c) /\ subject[c] = m
                               /\ messages'[m].detail = outcome[c].detail
      BY <2>2, RowMarks
    <3>2. FactOf(outcome[c].detail, m)
      BY <3>1 DEF Record, Goto, DetailInv
    <3>3. QED
      BY <2>2, <3>1, <3>2, RowHistory DEF FactOf
  <2>3. CASE ~Saved(m)
    <3>1. PICK c \in Command : messages'[m] = NewRow(job[c])
      BY <1>1, <2>3, RowsBorn
    <3>2. messages'[m].detail \in {"none", "pull_only"}
      BY <3>1 DEF NewRow
    <3>3. QED
      BY <3>2 DEF FactOf
  <2>4. QED
    BY <2>1, <2>2, <2>3
<1>2. ASSUME NEW c \in Command, pc'[c] = "record"
      PROVE  FactOf(outcome[c].detail, subject[c])'
  <2> USE DEF Goto, locals, store, Decide, TypeOK
  <2>1. CASE Local(c)' = Local(c)
    <3>1. /\ pc[c] = "record" /\ outcome'[c] = outcome[c] /\ subject'[c] = subject[c]
      BY <1>2, <2>1 DEF Local
    <3>2. FactOf(outcome[c].detail, subject[c]) /\ subject[c] \in Id /\ Saved(subject[c])
      BY <3>1 DEF DetailInv, ControlInv, Holding
    <3>3. QED
      BY <3>1, <3>2, RowHistory DEF FactOf
  <2>2. CASE GraceSkip(c) \/ CheckSkipped(c)
    <3>1. /\ outcome'[c].detail = SkipReason(subject[c])
          /\ UNCHANGED <<messages, subject>>
      BY <2>2 DEF GraceSkip, CheckSkipped
    <3>2. QED
      BY <3>1, ReasonIsFact DEF FactOf
  <2>3. CASE PreflightFailed(c) \/ CheckUnreadable(c) \/ Write(c)
    <3>1. outcome'[c].detail = "other"
      BY <2>3 DEF PreflightFailed, CheckUnreadable, Write
    <3>2. QED
      BY <3>1 DEF FactOf
  <2>4. ASSUME \/ \E j \in Jobs : Start(c, j)
               \/ Save(c) \/ Claim(c) \/ ClaimRefused(c) \/ GraceOver(c)
               \/ PreflightPassed(c) \/ CheckPassed(c) \/ Record(c)
        PROVE  FALSE
    BY <1>2, <2>4, JobsAssumption
    DEF Start, FirstStep, Job, Save, SaveNew, SaveExisting, SaveRefused, AfterSave, Claim,
        ClaimRefused, GraceOver, PreflightPassed, CheckPassed, Record, AfterNotice
  <2>5. ASSUME Dismiss(c) \/ Acknowledge(c) \/ Wait(c) \/ Finish(c) \/ Stop(c)
        PROVE  FALSE
    BY <1>2, <2>5
    DEF Dismiss, Recheck, DismissNothing, DismissDone, DismissFailed, AfterRecheck,
        AfterDismiss, AfterNotice, Acknowledge, Ack, AckRefused, Wait, WaitOpened,
        WaitRefused, PollAnswered, PollTimeout, Receipt, ReceiptSkipped, Finish, Stop
  <2>6. QED
    BY <2>1, <2>2, <2>3, <2>4, <2>5, OneMoves DEF Step, Notify, Local
<1>3. QED
  BY <1>1, <1>2 DEF DetailInv

\* The row of a command that does not claim it has its reason for good: only its
\* creator records one.
LEMMA ReasonStays ==
  ASSUME TypeOK, ControlInv, OneCreator, ClaimInv, [Next]_vars,
         NEW c \in Command, created[c], pc[c] # "record"
  PROVE  messages'[subject[c]].detail = messages[subject[c]].detail
<1>1. subject[c] \in Id /\ Saved(subject[c])
  BY DEF ControlInv
<1>2. ASSUME NEW d \in Command, Record(d), subject[d] = subject[c] PROVE FALSE
  <2>1. pc[d] = "record" /\ created[d]
    BY <1>2 DEF Record, Goto, ControlInv, Claiming
  <2>2. QED
    BY <1>2, <2>1 DEF OneCreator
<1>3. QED
  BY <1>1, <1>2, RowMarks

\* What a notifying command has read of its row, of the store as it is.
Told(c) ==
  /\ view[c].submission = "submitted" => crossings[subject[c]] > 0
  /\ view[c].acked => messages[subject[c]].acked
  /\ view[c].detail = messages[subject[c]].detail

LEMMA ToldStays ==
  ASSUME TypeOK, ControlInv, OneCreator, ClaimInv, [Next]_vars,
         NEW c \in Command, created[c], pc[c] # "record", Told(c),
         view'[c] = view[c], subject'[c] = subject[c]
  PROVE  Told(c)'
<1>1. subject[c] \in Id /\ Saved(subject[c])
  BY DEF ControlInv
<1>2. QED
  BY <1>1, ReasonStays, RowHistory, TracesStay DEF Told

\* A row that is read says what holds.
LEMMA ToldByRead ==
  ASSUME TypeOK, ControlInv, ReportInv, NEW c \in Command, created[c],
         Read(c, subject[c]), UNCHANGED <<messages, crossings, subject>>
  PROVE  view'[c] # None /\ Told(c)'
<1>1. subject[c] \in Id /\ Saved(subject[c])
  BY DEF ControlInv
<1>2. view'[c] = messages[subject[c]]
  BY DEF Read, TypeOK
<1>3. QED
  BY <1>1, <1>2 DEF Told, ReportInv, Saved

\* Places after the notice of a command that was to notify.
Later == {"dismiss", "wait", "poll", "receipt", "finish"}

LEMMA ViewStep ==
  ASSUME TypeOK, ControlInv, OneCreator, ClaimInv, ReportInv, AnswerInv, ViewInv,
         [Next]_vars
  PROVE  ViewInv'
<1> DEFINE Holds(c) == created[c] /\ job[c].notify =>
                         /\ pc[c] \in Later => view[c] # None
                         /\ view[c] # None => Told(c)
<1> SUFFICES ASSUME NEW c \in Command, created'[c], job'[c].notify
             PROVE  /\ pc'[c] \in Later => view'[c] # None
                    /\ view'[c] # None => Told(c)'
  BY DEF ViewInv, Told, Later
<1>0. Holds(c)
  BY DEF ViewInv, Told, Later
<1>a. pc[c] = "record" => view[c] = None
  BY DEF AnswerInv, Claiming
<1>b. ASSUME created[c], job[c].notify, view'[c] = view[c], subject'[c] = subject[c],
             pc'[c] \in Later => pc[c] \in Later \/ view[c] # None
      PROVE  /\ pc'[c] \in Later => view'[c] # None
             /\ view'[c] # None => Told(c)'
  BY <1>0, <1>a, <1>b, ToldStays
<1> USE DEF Goto, locals, client, store, TypeOK
<1>1. CASE Local(c)' = Local(c)
  <2>1. /\ created[c] /\ job[c].notify /\ view'[c] = view[c] /\ subject'[c] = subject[c]
        /\ pc'[c] = pc[c]
    BY <1>1 DEF Local
  <2>2. pc'[c] \in Later => pc[c] \in Later
    BY <2>1
  <2>3. QED
    BY <1>b, <2>1, <2>2
<1>2. ASSUME NEW j \in Jobs, Start(c, j) PROVE FALSE
  <2>1. pc[c] = "idle" /\ created'[c] = created[c]
    BY <1>2 DEF Start
  <2>2. QED
    BY <2>1 DEF ControlInv
<1>3. CASE Save(c)
  <2>1. pc[c] = "save" /\ view'[c] = view[c] /\ job' = job
    BY <1>3 DEF Save, SaveNew, SaveExisting, SaveRefused
  <2>2. view'[c] = None
    BY <2>1 DEF AnswerInv
  <2>3. pc'[c] \notin Later
    <3>1. CASE SaveNew(c)
      BY <2>1, <3>1 DEF SaveNew, Insertable, AfterSave, Creates, Later
    <3>2. CASE SaveExisting(c)
      BY <3>2 DEF SaveExisting, Creates
    <3>3. CASE SaveRefused(c)
      BY <3>3 DEF SaveRefused, Later
    <3>4. QED
      BY <1>3, <3>1, <3>2, <3>3 DEF Save
  <2>4. QED
    BY <2>2, <2>3
<1>4. CASE ClaimRefused(c) \/ Recheck(c) \/ WaitOpened(c) \/ PollAnswered(c)
           \/ PollTimeout(c)
  <2>1. /\ Read(c, subject[c]) /\ UNCHANGED <<messages, crossings, subject>>
        /\ created[c]
    BY <1>4 DEF ClaimRefused, Recheck, WaitOpened, PollAnswered, PollTimeout
  <2>2. QED
    BY <2>1, ToldByRead
<1>5. CASE \/ Claim(c) \/ GraceSkip(c) \/ GraceOver(c)
           \/ PreflightPassed(c) \/ PreflightFailed(c) \/ CheckPassed(c)
           \/ CheckSkipped(c) \/ CheckUnreadable(c) \/ Write(c) \/ Record(c)
           \/ Acknowledge(c) \/ WaitRefused(c)
  <2>1. /\ created[c] /\ job[c].notify /\ view'[c] = view[c] /\ subject'[c] = subject[c]
        /\ pc'[c] \notin Later
    BY <1>5
    DEF Claim, GraceSkip, GraceOver, PreflightPassed, PreflightFailed, CheckPassed,
        CheckSkipped, CheckUnreadable, Write, AfterWrite, Record, Decide, Acknowledge,
        Ack, AckRefused, WaitRefused, Later
  <2>2. QED
    BY <1>b, <2>1
<1>6. CASE \/ DismissNothing(c) \/ DismissDone(c) \/ DismissFailed(c)
           \/ Receipt(c) \/ ReceiptSkipped(c)
  <2>1. /\ created[c] /\ job[c].notify /\ view'[c] = view[c] /\ subject'[c] = subject[c]
        /\ pc[c] \in Later
    BY <1>6 DEF DismissNothing, DismissDone, DismissFailed, Receipt, ReceiptSkipped, Later
  <2>2. QED
    BY <1>b, <2>1
<1>7. CASE Finish(c) \/ Stop(c)
  BY <1>7 DEF Finish, Stop, Forget, Later
<1>8. QED
  BY <1>1, <1>2, <1>3, <1>4, <1>5, <1>6, <1>7, OneMoves
  DEF Step, Notify, Dismiss, Wait, Local

\* What exit 0 was told of, as it is in the store and at the client.
Account(c) ==
  LET m == subject[c] IN
  \/ crossings[m] > 0
  \/ messages[m].acked
  \/ Replies(m) # {}
  \/ messages[m].detail \in SkipReasons

LEMMA ExitStep ==
  ASSUME TypeOK, ControlInv, OneCreator, ClaimInv, AnswerInv, ViewInv,
         ExitZeroMeansConfirmed, [Next]_vars
  PROVE  ExitZeroMeansConfirmed'
<1> SUFFICES ASSUME NEW c \in Command, pc'[c] = "exit0", created'[c], job'[c].notify
             PROVE  Account(c)'
  BY DEF ExitZeroMeansConfirmed, Account
<1>a. ASSUME created[c], subject'[c] = subject[c], Account(c), pc[c] # "record"
      PROVE  Account(c)'
  <2>1. subject[c] \in Id /\ Saved(subject[c])
    BY <1>a DEF ControlInv
  <2>2. QED
    BY <1>a, <2>1, ReasonStays, RowHistory, TracesStay, RepliesStay DEF Account
<1> USE DEF Goto, locals, store, client, TypeOK
<1>1. CASE Local(c)' = Local(c)
  <2>1. /\ pc[c] = "exit0" /\ created[c] /\ job[c].notify /\ subject'[c] = subject[c]
    BY <1>1 DEF Local
  <2>2. Account(c)
    BY <2>1 DEF ExitZeroMeansConfirmed, Account
  <2>3. QED
    BY <1>a, <2>1, <2>2
<1>2. CASE Finish(c)
  <2>1. /\ created[c] /\ job[c].notify /\ subject'[c] = subject[c]
        /\ pc[c] = "finish" /\ ~Unconfirmed(c)
    BY <1>2 DEF Finish, Forget
  <2>2. /\ view[c].submission = "submitted" => crossings[subject[c]] > 0
        /\ view[c].acked => messages[subject[c]].acked
        /\ view[c].detail = messages[subject[c]].detail
    BY <2>1 DEF ViewInv
  <2>3. answer[c] # None => Replies(subject[c]) # {}
    BY DEF AnswerInv
  <2>4. Account(c)
    BY <2>1, <2>2, <2>3 DEF Unconfirmed, Account
  <2>5. QED
    BY <1>a, <2>1, <2>4
<1>3. ASSUME Stop(c) \/ Save(c) \/ \E j \in Jobs : Start(c, j)
      PROVE  FALSE
  BY <1>3, JobsAssumption
  DEF Stop, Save, SaveNew, SaveExisting, SaveRefused, AfterSave, Start, FirstStep, Job
<1>4. ASSUME Notify(c) \/ Dismiss(c) PROVE FALSE
  BY <1>4
  DEF Notify, Claim, ClaimRefused, GraceSkip, GraceOver, PreflightPassed, PreflightFailed,
      CheckPassed, CheckSkipped, CheckUnreadable, Write, AfterWrite, Record, AfterNotice,
      Dismiss, Recheck, DismissNothing, DismissDone, DismissFailed, AfterRecheck,
      AfterDismiss
<1>5. ASSUME Acknowledge(c) \/ Wait(c) PROVE FALSE
  BY <1>5
  DEF Acknowledge, Ack, AckRefused, Wait, WaitOpened, WaitRefused, PollAnswered,
      PollTimeout, Receipt, ReceiptSkipped
<1>6. QED
  BY <1>1, <1>2, <1>3, <1>4, <1>5, OneMoves DEF Step, Local

LEMMA InitAccountInv == Init => AccountInv
BY ConstantsAssumption
DEF Init, AccountInv, AnswerInv, WaitInv, ReturnInv, DetailInv, ViewInv,
    ExitZeroMeansConfirmed, Saved

\* What commands have read and told of the store stays true of it.
LEMMA AccountKept == Spec => []AccountInv
<1>1. IInv /\ AccountInv /\ [Next]_vars => AccountInv'
  BY AnswerStep, WaitStep, ReturnStep, DetailStep, ViewStep, ExitStep DEF IInv, AccountInv
<1>2. QED
  BY <1>1, InitAccountInv, Inductive, PTL DEF Spec

\* A notice is given up on evidence only: what counts as returned was read by a
\* wait of the peer that asked, what counts as acknowledged is.
THEOREM SkipsOnEvidence == Spec => []SkippedOnEvidence
<1>1. AccountInv => SkippedOnEvidence
  BY DEF AccountInv, ReturnInv, ReturnedFor, Returned, DetailInv, FactOf, SkippedOnEvidence
<1>2. QED
  BY <1>1, AccountKept, PTL

\* Exit 0 of a send that was to notify is never a lie, though it is decided from
\* rows that were read earlier.
THEOREM ExitZeroIsTrue == Spec => []ExitZeroMeansConfirmed
<1>1. AccountInv => ExitZeroMeansConfirmed
  BY DEF AccountInv
<1>2. QED
  BY <1>1, AccountKept, PTL

-----------------------------------------------------------------------------
(* Mailbox implements Exchange: a save, a claim, a client call, what a     *)
(* call left behind, a record, an acknowledgment and a retirement change   *)
(* what Exchange sees, each as one Exchange action does, and every other   *)
(* step is a stutter there.                                                *)

\* The abstract state, as ImplementsExchange substitutes it.
PostMap == [m \in Id |-> PostOf(m)]
ReadMap == {m \in Id : Saved(m) /\ messages[m].acked}
AccountMap == [m \in Id |-> AccountOf(m)]
WrittenMap == {m \in Id : crossings[m] > 0}
MisjudgedMap == {m \in mistold : AccountOf(m) = "not_submitted"}
Maps == <<PostMap, ReadMap, AccountMap, WrittenMap, MisjudgedMap, retired>>

\* What a row says to Exchange.
RowPost(r) ==
  [sender |-> r.sender, recipient |-> r.recipient, parent |-> r.parent, body |-> r.body]

RowAccount(r) ==
  IF ~r.started THEN "unclaimed" ELSE IF ~r.finished THEN "claimed" ELSE r.submission

\* Exchange sees a change of one row at its id only.
LEMMA RowMap ==
  ASSUME TypeOK, NEW k \in Id, NEW r \in Row,
         messages' = [messages EXCEPT ![k] = r]
  PROVE  /\ PostMap' = [PostMap EXCEPT ![k] = RowPost(r)]
         /\ AccountMap' = [AccountMap EXCEPT ![k] = RowAccount(r)]
         /\ ReadMap' = IF r.acked THEN ReadMap \cup {k} ELSE ReadMap \ {k}
<1> USE ConstantsAssumption DEF Saved, TypeOK
<1>1. r # None /\ messages'[k] = r
  OBVIOUS
<1>2. \A m \in Id : m # k => messages'[m] = messages[m]
  OBVIOUS
<1>3. PostOf(k)' = RowPost(r) /\ \A m \in Id : m # k => PostOf(m)' = PostOf(m)
  BY <1>1, <1>2 DEF PostOf, RowPost
<1>4. AccountOf(k)' = RowAccount(r) /\ \A m \in Id : m # k => AccountOf(m)' = AccountOf(m)
  BY <1>1, <1>2 DEF AccountOf, RowAccount
<1>5. PostMap' = [PostMap EXCEPT ![k] = RowPost(r)]
  BY <1>3 DEF PostMap
<1>6. AccountMap' = [AccountMap EXCEPT ![k] = RowAccount(r)]
  BY <1>4 DEF AccountMap
<1>7. ReadMap' = IF r.acked THEN ReadMap \cup {k} ELSE ReadMap \ {k}
  BY <1>1, <1>2 DEF ReadMap
<1>8. QED
  BY <1>5, <1>6, <1>7

\* What Exchange sees of a row that is there.
LEMMA RowSeen ==
  ASSUME TypeOK, NEW k \in Id, Saved(k)
  PROVE  /\ PostMap[k] = RowPost(messages[k])
         /\ AccountMap[k] = RowAccount(messages[k])
         /\ k \in ReadMap <=> messages[k].acked
         /\ k \in WrittenMap <=> crossings[k] > 0
         /\ messages[k] \in Row
         /\ PostMap[k] # None
<1> USE ConstantsAssumption DEF Saved, TypeOK
<1>1. PostMap[k] = RowPost(messages[k]) /\ AccountMap[k] = RowAccount(messages[k])
  BY DEF PostMap, AccountMap, PostOf, AccountOf, RowPost, RowAccount
<1>2. RowPost(messages[k]) \in Content /\ messages[k] \in Row
  BY DEF RowPost, Content, Row
<1>3. QED
  BY <1>1, <1>2 DEF ReadMap, WrittenMap

\* What Exchange sees posted is the content of a row that is there.
LEMMA PostSaved ==
  ASSUME NEW k \in Id, PostMap[k] # None
  PROVE  Saved(k)
BY DEF PostMap, PostOf

\* A denial misjudges where it is saved of a call that was mistold; Exchange
\* sees no change of the call itself, whose message is only claimed then.
LEMMA MisjudgedAt ==
  ASSUME TypeOK, NEW k \in Id, AccountMap[k] # "not_submitted",
         \A m \in Id : m # k => AccountMap'[m] = AccountMap[m],
         mistold' \in {mistold, mistold \cup {k}}
  PROVE  MisjudgedMap' = IF k \in mistold' /\ AccountMap'[k] = "not_submitted"
                         THEN MisjudgedMap \cup {k} ELSE MisjudgedMap
<1>1. mistold \subseteq Id /\ mistold' \subseteq Id
  BY DEF TypeOK
<1>2. \A m \in Id : AccountMap[m] = AccountOf(m)
  BY DEF AccountMap
<1>3. \A m \in Id : AccountMap'[m] = AccountOf(m)'
  BY DEF AccountMap
<1>4. MisjudgedMap = {m \in mistold : AccountMap[m] = "not_submitted"}
  BY <1>1, <1>2 DEF MisjudgedMap
<1>5. MisjudgedMap' = {m \in mistold' : AccountMap'[m] = "not_submitted"}
  BY <1>1, <1>3 DEF MisjudgedMap
<1>6. QED
  BY <1>1, <1>4, <1>5

\* The same rows, crossings and calls are the same exchange.
LEMMA SameMaps ==
  ASSUME UNCHANGED <<messages, crossings, mistold>>
  PROVE  UNCHANGED <<PostMap, ReadMap, AccountMap, WrittenMap, MisjudgedMap>>
BY DEF PostMap, PostOf, ReadMap, AccountMap, AccountOf, WrittenMap, MisjudgedMap, Saved

\* The initial store is an exchange in which nothing happened.
LEMMA InitMaps == Init => Promised!Init
BY DEF Init, Promised!Init, Saved, PostOf, AccountOf

\* A request or an answer.
LEMMA SaveMaps ==
  ASSUME TypeOK, ControlInv, ReportInv, NEW c \in Command, SaveNew(c)
  PROVE  \E m \in Id :
           /\ PostMap[m] = None
           /\ PostMap'[m] \in Promised!Post
           /\ Promised!SendRequest(m, PostMap'[m]) \/ Promised!Answer(m, PostMap'[m])
<1> DEFINE j == job[c]
           r == NewRow(j)
<1>1. PICK m \in Id :
        /\ ~Saved(m)
        /\ messages' = [messages EXCEPT ![m] = r]
        /\ r \in Row
        /\ UNCHANGED <<crossings, mistold>>
  BY SaveNewFresh DEF SaveNew, history
<1>2. /\ j \in Jobs /\ j.op \in {"send", "reply"} /\ Insertable(j)
      /\ retired' = retired
  BY ConstantsAssumption DEF SaveNew, Goto, ControlInv, TypeOK
<1>3. RowPost(r) \in Promised!Post
  BY <1>1 DEF RowPost, Row, Promised!Post
<1>4. PostMap[m] = None /\ AccountMap[m] = "unclaimed" /\ m \notin ReadMap
  BY <1>1 DEF PostMap, PostOf, AccountMap, AccountOf, ReadMap
<1>5. /\ RowPost(r).sender = j.actor
      /\ RowPost(r).recipient = Recipient(j)
      /\ RowPost(r).parent = Parent(j)
      /\ ~r.acked /\ RowAccount(r) = "unclaimed"
  BY DEF RowPost, RowAccount, NewRow
<1>6. PostMap' = [PostMap EXCEPT ![m] = RowPost(r)]
  BY <1>1, RowMap
<1>7. ReadMap' = ReadMap
  <2>1. ReadMap' = IF r.acked THEN ReadMap \cup {m} ELSE ReadMap \ {m}
    BY <1>1, RowMap
  <2>2. QED
    BY <1>4, <1>5, <2>1
<1>8. AccountMap' = AccountMap
  <2>1. AccountMap' = [AccountMap EXCEPT ![m] = "unclaimed"]
    BY <1>1, <1>5, RowMap
  <2>2. QED
    BY <2>1, <1>4 DEF AccountMap
<1>9. WrittenMap' = WrittenMap /\ MisjudgedMap' = MisjudgedMap
  <2>1. MisjudgedMap' = MisjudgedMap
    BY <1>1, <1>4, <1>8, MisjudgedAt
  <2>2. QED
    BY <1>1, <2>1 DEF WrittenMap
<1>10. PostMap'[m] = RowPost(r) /\ PostMap'[m] \in Promised!Post
  BY <1>3, <1>6 DEF PostMap
<1>11. CASE j.op = "send"
  <2>1. Parent(j) = None /\ Recipient(j) = j.to /\ j.actor # j.to
        /\ {j.actor, j.to} \cap retired = {}
    BY <1>2, <1>11 DEF Parent, Recipient, Insertable, Addressed, RefusedAsRetired
  <2>2. Promised!SendRequest(m, RowPost(r))
    BY <1>2, <1>4, <1>5, <1>6, <1>7, <1>8, <1>9, <2>1
    DEF Promised!SendRequest, PostMap, ReadMap, AccountMap, WrittenMap, MisjudgedMap
  <2>3. QED
    BY <1>4, <1>10, <2>2
<1>12. CASE j.op = "reply"
  <2>1. /\ j.id \in Id /\ Saved(j.id) /\ ~IsAnswer(j.id)
        /\ j.actor = messages[j.id].recipient
        /\ Parent(j) = j.id /\ Recipient(j) = messages[j.id].sender
    BY <1>2, <1>12, JobsAssumption
    DEF Insertable, Addressed, Parent, Recipient, Job
  <2>2. /\ PostMap[j.id] # None
        /\ PostMap[j.id].parent = None
        /\ j.actor = PostMap[j.id].recipient
        /\ Recipient(j) = PostMap[j.id].sender
    <3>1. PostMap[j.id] = RowPost(messages[j.id]) /\ PostMap[j.id] # None
      BY <2>1, RowSeen
    <3>2. QED
      BY <2>1, <3>1 DEF RowPost, IsAnswer
  <2>3. Replies(j.id) = {}
    BY <1>2, <1>12, ConstantsAssumption DEF Insertable, Existing, ReplyOf, Replies
  <2>4. ASSUME NEW a \in Id, PostMap[a] # None PROVE PostMap[a].parent # j.id
    <3>1. Saved(a)
      BY <2>4, PostSaved
    <3>2. messages[a].parent # j.id
      BY <2>3, <3>1 DEF Replies
    <3>3. QED
      <4>1. PostMap[a] = RowPost(messages[a])
        BY <3>1, RowSeen
      <4>2. QED
        BY <3>2, <4>1 DEF RowPost
  <2>5. Promised!Answer(m, RowPost(r))
    BY <1>2, <1>4, <1>5, <1>6, <1>7, <1>8, <1>9, <2>1, <2>2, <2>4, ConstantsAssumption
    DEF Promised!Answer, PostMap, ReadMap, AccountMap, WrittenMap, MisjudgedMap
  <2>6. QED
    BY <1>4, <1>10, <2>5
<1>13. QED
  BY <1>2, <1>11, <1>12

LEMMA ClaimMaps ==
  ASSUME TypeOK, ControlInv, ReportInv, NEW c \in Command, Claim(c)
  PROVE  subject[c] \in Id /\ Promised!Claim(subject[c])
<1> DEFINE m == subject[c]
           r == Claimed(messages[m])
<1>1. m \in Id /\ messages[m] \in Row /\ Saved(m)
  BY HeldRow DEF Claim, Goto, Holding, ControlInv
<1>2. /\ messages' = [messages EXCEPT ![m] = r]
      /\ ~messages[m].started /\ ~messages[m].acked /\ messages[m].recipient \in Native
      /\ retired' = retired /\ WrittenMap' = WrittenMap /\ mistold' = mistold
  BY DEF Claim, Claimable, client, history, WrittenMap
<1>3. ~messages[m].finished
  BY <1>1, <1>2 DEF ReportInv
<1>4. /\ r \in Row /\ RowPost(r) = RowPost(messages[m])
      /\ RowAccount(r) = "claimed" /\ ~r.acked
  <2>1. r \in Row
    BY <1>1, RowUpdates
  <2>2. /\ r.started /\ ~r.finished /\ ~r.acked
        /\ r.sender = messages[m].sender /\ r.recipient = messages[m].recipient
        /\ r.parent = messages[m].parent /\ r.body = messages[m].body
    BY <1>1, <1>2, <1>3 DEF Claimed, Row
  <2>3. QED
    BY <2>1, <2>2 DEF RowPost, RowAccount
<1>5. /\ PostMap[m] = RowPost(messages[m]) /\ PostMap[m] # None
      /\ AccountMap[m] = RowAccount(messages[m]) /\ m \notin ReadMap
  BY <1>1, <1>2, RowSeen
<1>6. /\ PostMap' = [PostMap EXCEPT ![m] = RowPost(r)]
      /\ AccountMap' = [AccountMap EXCEPT ![m] = RowAccount(r)]
      /\ ReadMap' = IF r.acked THEN ReadMap \cup {m} ELSE ReadMap \ {m}
  BY <1>1, <1>2, <1>4, RowMap
<1>7. PostMap' = PostMap /\ ReadMap' = ReadMap
  BY <1>4, <1>5, <1>6 DEF PostMap
<1>8. PostMap[m].recipient \in Native /\ AccountMap[m] = "unclaimed"
  BY <1>2, <1>5 DEF RowPost, RowAccount
<1>9. AccountMap' = [AccountMap EXCEPT ![m] = "claimed"]
  BY <1>4, <1>6
<1>10. MisjudgedMap' = MisjudgedMap
  <2>1. AccountMap'[m] = "claimed" /\ \A k \in Id : k # m => AccountMap'[k] = AccountMap[k]
    BY <1>1, <1>9 DEF AccountMap
  <2>2. QED
    BY <1>1, <1>2, <1>8, <2>1, MisjudgedAt
<1>11. QED
  BY <1>1, <1>2, <1>5, <1>7, <1>8, <1>9, <1>10
  DEF Promised!Claim, PostMap, ReadMap, AccountMap, WrittenMap, MisjudgedMap

\* The notice of a message that was claimed, or may still be announced, reaches
\* its client.
LEMMA ReachMaps ==
  ASSUME TypeOK, NEW m \in Id, Reach(m), crossings[m] = 0,
         UNCHANGED <<messages, retired, MisjudgedMap>>,
         AccountMap[m] \in {"claimed", "submission_unknown"} \/ m \in MisjudgedMap
  PROVE  Promised!Announce(m)
<1>1. WrittenMap' = WrittenMap \cup {m} /\ m \notin WrittenMap
  BY DEF Reach, WrittenMap, TypeOK
<1>2. PostMap' = PostMap /\ ReadMap' = ReadMap /\ AccountMap' = AccountMap
  BY DEF PostMap, PostOf, ReadMap, AccountMap, AccountOf, Saved
<1>3. QED
  BY <1>1, <1>2
  DEF Promised!Announce, PostMap, ReadMap, AccountMap, WrittenMap, MisjudgedMap

LEMMA CallMaps ==
  ASSUME TypeOK, ControlInv, ClaimInv, NEW c \in Command, Calls(c)
  PROVE  UNCHANGED Maps \/ \E m \in Id : Promised!Announce(m)
<1>1. PICK m \in Id : m = subject[c]
  BY CallEffect
<1>2. /\ Saved(m) /\ UNCHANGED <<messages, retired>>
      /\ mistold' \in {mistold, mistold \cup {m}}
      /\ Reach(m) \/ Leave(m) \/ UNCHANGED client
  BY <1>1, CallEffect
<1>3. crossings[m] = 0 /\ messages[m].started /\ ~messages[m].finished
  BY <1>1 DEF Calls, ClaimInv, Claiming
<1>4. AccountMap[m] = "claimed"
  BY <1>2, <1>3, RowSeen DEF RowAccount
<1>5. AccountMap' = AccountMap /\ PostMap' = PostMap /\ ReadMap' = ReadMap
  BY <1>2 DEF PostMap, PostOf, ReadMap, AccountMap, AccountOf, Saved
<1>6. MisjudgedMap' = MisjudgedMap
  BY <1>2, <1>4, <1>5, MisjudgedAt
<1>7. CASE Reach(m)
  BY <1>2, <1>3, <1>4, <1>6, <1>7, ReachMaps
<1>8. CASE UNCHANGED crossings
  BY <1>2, <1>5, <1>6, <1>8 DEF Maps, WrittenMap
<1>9. QED
  BY <1>2, <1>7, <1>8 DEF Leave, client

\* What a call left behind reaches the client late.
LEMMA LateMaps ==
  ASSUME TypeOK, ReportInv, NEW m \in Id, LateCrossing(m)
  PROVE  Promised!Announce(m)
<1>1. Reach(m) /\ UNCHANGED <<messages, retired, mistold>> /\ notice[m] = "coming"
  BY DEF LateCrossing, store, history
<1>2. /\ crossings[m] = 0 /\ Saved(m) /\ messages[m].started
      /\ messages[m].submission # "not_submitted" \/ m \in mistold
      /\ messages[m].submission # "submitted"
  BY <1>1 DEF ReportInv
<1>3. AccountMap[m] \in {"claimed", "submission_unknown"} \/ m \in MisjudgedMap
  <2>1. messages[m].submission \in Submission
    BY <1>2 DEF Saved, TypeOK, Row
  <2>2. QED
    BY <1>2, <2>1 DEF AccountMap, AccountOf, MisjudgedMap, Submission
<1>4. MisjudgedMap' = MisjudgedMap
  BY <1>1 DEF MisjudgedMap, AccountOf, Saved
<1>5. QED
  BY <1>1, <1>2, <1>3, <1>4, ReachMaps

LEMMA RecordMaps ==
  ASSUME TypeOK, ControlInv, ClaimInv, ReportInv, NEW c \in Command, Record(c)
  PROVE  /\ subject[c] \in Id /\ outcome[c].submission \in Submission
         /\ \/ Promised!Report(subject[c], outcome[c].submission)
            \/ Promised!Misjudge(subject[c])
<1> DEFINE m == subject[c]
           s == outcome[c].submission
           r == Recorded(messages[m], outcome[c])
<1>1. m \in Id /\ messages[m] \in Row /\ Saved(m) /\ pc[c] = "record"
  BY HeldRow DEF Record, Goto, Holding, ControlInv
<1>2. /\ outcome[c] \in Outcome
      /\ messages[m].started /\ ~messages[m].finished
      /\ s = "submitted" => crossings[m] > 0
      /\ s = "not_submitted" => crossings[m] = 0 \/ m \in mistold
      /\ m \in mistold => messages[m].recipient \in Removable
  BY <1>1 DEF ClaimInv, Claiming, ReportInv, TypeOK
<1>3. s \in Submission
  BY <1>2 DEF Outcome
<1>4. /\ messages' = [messages EXCEPT ![m] = r] /\ retired' = retired
      /\ WrittenMap' = WrittenMap /\ mistold' = mistold
  BY DEF Record, client, history, WrittenMap
<1>5. /\ r \in Row /\ RowPost(r) = RowPost(messages[m])
      /\ RowAccount(r) = s /\ r.acked = messages[m].acked
  <2>1. r \in Row
    BY <1>1, <1>2, RecordedRow
  <2>2. /\ r.started /\ r.finished /\ r.acked = messages[m].acked /\ r.submission = s
        /\ r.sender = messages[m].sender /\ r.recipient = messages[m].recipient
        /\ r.parent = messages[m].parent /\ r.body = messages[m].body
    BY <1>1, <1>2 DEF Recorded, Row
  <2>3. QED
    BY <2>1, <2>2 DEF RowPost, RowAccount
<1>6. /\ PostMap[m] = RowPost(messages[m]) /\ AccountMap[m] = RowAccount(messages[m])
      /\ m \in ReadMap <=> messages[m].acked
      /\ m \in WrittenMap <=> crossings[m] > 0
  BY <1>1, RowSeen
<1>7. /\ PostMap' = [PostMap EXCEPT ![m] = RowPost(r)]
      /\ AccountMap' = [AccountMap EXCEPT ![m] = RowAccount(r)]
      /\ ReadMap' = IF r.acked THEN ReadMap \cup {m} ELSE ReadMap \ {m}
  BY <1>1, <1>4, <1>5, RowMap
<1>8. PostMap' = PostMap
  BY <1>5, <1>6, <1>7 DEF PostMap
<1>9. ReadMap' = ReadMap
  BY <1>5, <1>6, <1>7
<1>10. AccountMap[m] = "claimed"
  BY <1>2, <1>6 DEF RowAccount
<1>11. AccountMap' = [AccountMap EXCEPT ![m] = s]
  BY <1>5, <1>7
<1>12. MisjudgedMap' = IF m \in mistold /\ s = "not_submitted"
                       THEN MisjudgedMap \cup {m} ELSE MisjudgedMap
  <2>1. AccountMap'[m] = s /\ \A k \in Id : k # m => AccountMap'[k] = AccountMap[k]
    BY <1>1, <1>11 DEF AccountMap
  <2>2. QED
    BY <1>1, <1>4, <1>10, <2>1, MisjudgedAt
<1>13. CASE m \in mistold /\ s = "not_submitted"
  <2>1. PostMap[m].recipient \in Removable
    BY <1>2, <1>6, <1>13 DEF RowPost
  <2>2. Promised!Misjudge(m)
    BY <1>1, <1>4, <1>8, <1>9, <1>10, <1>11, <1>12, <1>13, <2>1
    DEF Promised!Misjudge, PostMap, ReadMap, AccountMap, WrittenMap, MisjudgedMap
  <2>3. QED
    BY <1>1, <1>3, <2>2
<1>14. CASE ~(m \in mistold /\ s = "not_submitted")
  <2>1. (s = "submitted" => m \in WrittenMap) /\ (s = "not_submitted" => m \notin WrittenMap)
    BY <1>2, <1>6, <1>14 DEF TypeOK
  <2>2. Promised!Report(m, s)
    BY <1>1, <1>3, <1>4, <1>8, <1>9, <1>10, <1>11, <1>12, <1>14, <2>1
    DEF Promised!Report, PostMap, ReadMap, AccountMap, WrittenMap, MisjudgedMap
  <2>3. QED
    BY <1>1, <1>3, <2>2
<1>15. QED
  BY <1>13, <1>14

\* An acknowledgment is one in Exchange too; a wait's receipt is not seen there.
LEMMA MarkMaps ==
  ASSUME TypeOK, ControlInv, NEW c \in Command, Ack(c) \/ Receipt(c)
  PROVE  UNCHANGED Maps \/ \E m \in Id : Promised!Acknowledge(m)
<1>0. PICK m : m = IF Ack(c) THEN subject[c] ELSE answer[c]
  OBVIOUS
<1> DEFINE r == IF Ack(c) THEN [messages[m] EXCEPT !.acked = TRUE]
                ELSE [messages[m] EXCEPT !.returned = TRUE]
<1>1. m \in Id /\ messages[m] \in Row /\ Saved(m)
  <2>1. CASE Ack(c)
    BY <1>0, <2>1 DEF Ack, ToRecipient, Goto, Saved, ControlInv, TypeOK
  <2>2. CASE ~Ack(c)
    BY <1>0, <2>2 DEF Receipt, Goto, Saved, ControlInv, TypeOK
  <2>3. QED
    BY <2>1, <2>2
<1>2. /\ messages' = [messages EXCEPT ![m] = r] /\ retired' = retired
      /\ WrittenMap' = WrittenMap /\ mistold' = mistold
  <2>1. CASE Ack(c)
    <3>1. messages' = [messages EXCEPT ![subject[c]] = [messages[subject[c]] EXCEPT !.acked = TRUE]]
      BY <1>0, <1>1, <2>1 DEF Ack, TypeOK
    <3>2. QED
      BY <1>0, <2>1, <3>1 DEF Ack, client, history, WrittenMap
  <2>2. CASE ~Ack(c)
    <3>1. messages' = [messages EXCEPT ![answer[c]] = [messages[answer[c]] EXCEPT !.returned = TRUE]]
      BY <1>0, <1>1, <2>2 DEF Receipt, TypeOK
    <3>2. QED
      BY <1>0, <2>2, <3>1 DEF Receipt, client, history, WrittenMap
  <2>3. QED
    BY <2>1, <2>2
<1>3. /\ r \in Row /\ RowPost(r) = RowPost(messages[m])
      /\ RowAccount(r) = RowAccount(messages[m])
      /\ r.acked = (Ack(c) \/ messages[m].acked)
  <2>1. r \in Row
    BY <1>1, RowUpdates
  <2>2. CASE Ack(c)
    BY <1>1, <2>1, <2>2 DEF RowPost, RowAccount, Row
  <2>3. CASE ~Ack(c)
    BY <1>1, <2>1, <2>3 DEF RowPost, RowAccount, Row
  <2>4. QED
    BY <2>1, <2>2, <2>3
<1>4. /\ PostMap[m] = RowPost(messages[m]) /\ AccountMap[m] = RowAccount(messages[m])
      /\ m \in ReadMap <=> messages[m].acked
      /\ PostMap[m] # None
  BY <1>1, RowSeen
<1>5. /\ PostMap' = [PostMap EXCEPT ![m] = RowPost(r)]
      /\ AccountMap' = [AccountMap EXCEPT ![m] = RowAccount(r)]
      /\ ReadMap' = IF r.acked THEN ReadMap \cup {m} ELSE ReadMap \ {m}
  BY <1>1, <1>2, <1>3, RowMap
<1>6. PostMap' = PostMap /\ AccountMap' = AccountMap /\ MisjudgedMap' = MisjudgedMap
  <2>1. PostMap' = PostMap /\ AccountMap' = AccountMap
    BY <1>3, <1>4, <1>5 DEF PostMap, AccountMap
  <2>2. \A k \in Id : AccountOf(k)' = AccountOf(k)
    BY <2>1 DEF AccountMap
  <2>3. QED
    BY <1>2, <2>1, <2>2 DEF MisjudgedMap, TypeOK
<1>7. CASE Ack(c)
  <2>1. ReadMap' = ReadMap \cup {m}
    BY <1>3, <1>5, <1>7
  <2>2. QED
    BY <1>1, <1>2, <1>4, <1>6, <2>1
    DEF Promised!Acknowledge, PostMap, ReadMap, AccountMap, WrittenMap, MisjudgedMap
<1>8. CASE ~Ack(c)
  <2>1. ReadMap' = ReadMap
    BY <1>3, <1>4, <1>5, <1>8
  <2>2. QED
    BY <1>2, <1>6, <2>1 DEF Maps
<1>9. QED
  BY <1>7, <1>8

\* Nothing else touches the names of retired peers.
LEMMA RetiredFrame ==
  ASSUME [Next]_vars
  PROVE  \/ UNCHANGED retired
         \/ /\ UNCHANGED <<messages, crossings, mistold>>
            /\ \E p \in Peer : Retire(p) \/ Restore(p)
BY DEF Next, Step, Save, SaveNew, SaveExisting, SaveRefused, Notify, Claim,
   ClaimRefused, GraceSkip, GraceOver, PreflightPassed, PreflightFailed,
   CheckPassed, CheckSkipped, CheckUnreadable, Write, Record, Dismiss, Recheck,
   DismissNothing, DismissDone, DismissFailed, Acknowledge, Ack, AckRefused,
   Wait, WaitOpened, WaitRefused, PollAnswered, PollTimeout, Receipt,
   ReceiptSkipped, Finish, Stop, Start, Retire, Restore, LateCrossing,
   ClientTakes, store, client, history, vars

\* What Exchange does at one id.
LEMMA OnOneId ==
  ASSUME NEW m \in Id,
         \/ Promised!Acknowledge(m) \/ Promised!Claim(m)
         \/ Promised!Announce(m) \/ Promised!Misjudge(m)
  PROVE  Promised!Next
BY DEF Promised!Next

LEMMA StepMaps ==
  ASSUME IInv, [Next]_vars
  PROVE  Promised!Next \/ UNCHANGED Promised!vars
<1> USE DEF IInv
<1>1. ASSUME NEW c \in Command, SaveNew(c) PROVE Promised!Next
  BY <1>1, SaveMaps DEF Promised!Next, PostMap
<1>2. ASSUME NEW c \in Command, Claim(c) PROVE Promised!Next
  BY <1>2, ClaimMaps, OnOneId
<1>3. ASSUME NEW c \in Command, Record(c) PROVE Promised!Next
  BY <1>3, RecordMaps, OnOneId DEF Promised!Next, Submission
<1>4. ASSUME NEW c \in Command, Calls(c) \/ Ack(c) \/ Receipt(c)
      PROVE  Promised!Next \/ UNCHANGED Maps
  BY <1>4, CallMaps, MarkMaps, OnOneId
<1>5. ASSUME NEW m \in Id, LateCrossing(m) PROVE Promised!Next
  BY <1>5, LateMaps, OnOneId
<1>6. ASSUME NEW p \in Peer, Retire(p) \/ Restore(p) PROVE Promised!Next
  <2>1. UNCHANGED <<messages, crossings, mistold>>
    BY <1>6 DEF Retire, Restore, client, history
  <2>2. Promised!Retire(p) \/ Promised!Restore(p)
    BY <1>6, <2>1, SameMaps
    DEF Retire, Restore, Promised!Retire, Promised!Restore,
        PostMap, ReadMap, AccountMap, WrittenMap, MisjudgedMap
  <2>3. QED
    BY <2>2 DEF Promised!Next
<1>7. CASE UNCHANGED Maps
  BY <1>7 DEF Maps, Promised!vars, PostMap, ReadMap, AccountMap, WrittenMap, MisjudgedMap
<1>8. CASE UNCHANGED <<messages, crossings, mistold, retired>>
  BY <1>7, <1>8, SameMaps DEF Maps
<1>9. TypeOK
  OBVIOUS
<1>10. CASE messages' = messages /\ ClientQuiet
  BY <1>6, <1>8, <1>10, RetiredFrame DEF ClientQuiet
<1>11. QED
  BY <1>1, <1>2, <1>3, <1>4, <1>5, <1>9, <1>7, <1>10, StepKinds

\* Seen from outside, every command, whatever meets it, does one of the things
\* Exchange allows or nothing.
THEOREM MailboxImplementsExchange == Spec => ImplementsExchange
<1>1. IInv /\ [Next]_vars => [Promised!Next]_(Promised!vars)
  BY StepMaps
<1>2. QED
  BY <1>1, InitMaps, Inductive, PTL DEF Spec, ImplementsExchange, Promised!Spec
=============================================================================
