---------------------------- MODULE ReceiverProofs ----------------------------
(***************************************************************************)
(* Proofs about Receiver: the inductive invariant IInv and what follows    *)
(* from it for any number of processes, directories, messages and sockets. *)
(*                                                                         *)
(* A process shares with the others the files, the locks and the queue.    *)
(* Frame says when a step of another process leaves its part of IInv as it *)
(* is; Quietly, Saving, Ending and Taking say what the kinds of steps do   *)
(* to the others and to the directories; a lemma per action then looks at  *)
(* the process that takes it.                                              *)
(***************************************************************************)
EXTENDS Receiver, TLAPS

\* The part of IInv about one process.
ProcessInv(p) == LockInv(p) /\ MemInv(p) /\ CallInv(p)

\* A step of another process leaves q's place and memory alone.
Keeps(q) ==
  /\ pc'[q] = pc[q] /\ dir'[q] = dir[q] /\ mem'[q] = mem[q] /\ after'[q] = after[q]
  /\ item'[q] = item[q] /\ call'[q] = call[q] /\ said'[q] = said[q]

OthersKeep(p) == \A q \in Process \ {p} : Keeps(q)

\* What is in the queue stays there, and nothing new comes.
Followed(d, m) ==
  /\ queued[d][m] > 0 => queued'[d][m] > 0
  /\ queued[d][m] = 0 /\ orphans[d][m] = 0 => queued'[d][m] = 0 /\ orphans'[d][m] = 0
  /\ <<d, m>> \in mistold => <<d, m>> \in mistold'

\* And what q holds, and the files and queue of what it holds.
Untouched(q) ==
  /\ Keeps(q)
  /\ session = q => session' = q
  /\ \A d \in Dir :
       /\ owner'[d] = q <=> owner[d] = q
       /\ q \in readers'[d] <=> q \in readers[d]
       /\ q \in readers[d] => owner'[d] = None
       /\ owner[d] = q =>
            /\ disk'[d] = disk[d] /\ durable'[d] = durable[d]
            /\ \A m \in Seq : Followed(d, m)
       /\ disk[d] \in State => disk'[d] \in State
       /\ Idle(d) /\ disk[d] \in State /\ disk[d].pending # None =>
            Idle(d)' /\ disk'[d] = disk[d]

\* IInv after a step of p, but for p itself.
RestInv(p) ==
  /\ \A q \in Process \ {p} : ProcessInv(q)'
  /\ \A d \in Dir : DirInv(d)'

-----------------------------------------------------------------------------
(* The files.                                                              *)

\* None and Torn are no state, and None is no message and no process.
LEMMA Distinct ==
  /\ None \notin State /\ Torn \notin State /\ None \notin Seq /\ None \notin Process
  /\ Torn # None
BY ReceiverAssumption

\* The fields of a state.
LEMMA Fields ==
  ASSUME NEW s \in State
  PROVE  /\ s.pending \in Seq \cup {None} /\ s.receipts \in SUBSET Seq
         /\ s.binding \in Binding /\ s.binding.check \in BOOLEAN /\ s.binding.socket \in Socket
BY DEF State, Binding

\* A state with another pending message.
LEMMA WithPending ==
  ASSUME NEW s \in State, NEW m \in Seq \cup {None}
  PROVE  LET t == [s EXCEPT !.pending = m]
         IN  t \in State /\ t.pending = m /\ t.receipts = s.receipts
BY DEF State

\* A state with another binding.
LEMMA WithBinding ==
  ASSUME NEW s \in State, NEW b \in Binding
  PROVE  LET t == [s EXCEPT !.binding = b]
         IN  t \in State /\ t.pending = s.pending /\ t.receipts = s.receipts
BY DEF State

\* What is recorded of each outcome (Recorded).
LEMMA WithOutcome ==
  ASSUME NEW s \in State, NEW m \in Seq, NEW o \in Outcome
  PROVE  LET t == Recorded(s, m, o)
         IN  /\ t \in State
             /\ o = "submitted" => t.pending = None /\ t.receipts = s.receipts \cup {m}
             /\ o = "not_submitted" => t.pending = None /\ t.receipts = s.receipts
             /\ o = "submission_unknown" => t = s
BY DEF State, Recorded, Outcome

\* The bindings a start may ask for are such.
LEMMA AskedIsBinding ==
  ASSUME NEW a \in Starts, server \in 1..MaxServer
  PROVE  Asked(a) \subseteq Binding /\ a.dir \in Dir
BY ReceiverAssumption DEF Asked, Binding, Argument, Socket

-----------------------------------------------------------------------------
(* The others.                                                             *)

\* A process whose own part is left alone keeps its part of the invariant.
LEMMA Frame ==
  ASSUME TypeOK, NEW q \in Process, ProcessInv(q), Untouched(q)
  PROVE  ProcessInv(q)'
<1> USE DEF Untouched, Keeps
<1>0. pc[q] \in Label
  BY DEF TypeOK
<1>1. LockInv(q)'
  BY <1>0, Distinct DEF ProcessInv, LockInv, Serving, Owning, Label, TypeOK
<1>2. MemInv(q)'
  BY <1>0 DEF ProcessInv, MemInv, LockInv, Intended, Owning, Label
<1>3. CallInv(q)'
  BY <1>0 DEF ProcessInv, CallInv, LockInv, MemInv, Intended, Owning, Label, Followed, Outcome
<1>4. QED
  BY <1>1, <1>2, <1>3 DEF ProcessInv

\* The parts make up the invariant.
LEMMA Together ==
  ASSUME NEW p \in Process, TypeOK', ProcessInv(p)', RestInv(p)
  PROVE  IInv'
BY DEF IInv, RestInv, ProcessInv

\* A process that is off, or that only reports, has no lock and no call.
LEMMA Unlocked ==
  ASSUME IInv, NEW p \in Process, pc[p] \in {"off", "status", "reported"}
  PROVE  /\ call[p] = "none"
         /\ pc[p] # "reported" => said[p] = "nothing"
         /\ \A d \in Dir : owner[d] # p
         /\ pc[p] # "status" => \A d \in Dir : p \notin readers[d]
<1>1. LockInv(p)
  BY DEF IInv
<1>2. call[p] = "none"
  BY DEF IInv, CallInv
<1>3. QED
  BY <1>1, <1>2 DEF LockInv, Owning, Label

\* A step that changes the place and memory of one process, and at most takes the
\* session's lock, leaves the rest of the invariant alone; a process that goes on
\* from looking at a file has found nothing pending.
LEMMA Quietly ==
  ASSUME IInv, NEW p \in Process, OthersKeep(p),
         UNCHANGED <<files, owner, readers, history>>,
         session' = session \/ session = None,
         pc[p] \in Looking /\ disk[dir[p]] \in State => disk[dir[p]].pending = None
  PROVE  RestInv(p)
<1>0. ASSUME NEW d \in Dir, Idle(d), disk[d] \in State, disk[d].pending # None
      PROVE  Idle(d)'
  <2>1. CASE owner[d] = None
    BY <2>1 DEF Idle
  <2>2. CASE owner[d] = p
    BY <2>2, <1>0, Distinct DEF Idle, IInv, LockInv
  <2>3. CASE owner[d] \in Process \ {p}
    BY <2>3, <1>0 DEF Idle, OthersKeep, Keeps
  <2>4. QED
    BY <2>1, <2>2, <2>3 DEF IInv, TypeOK
<1>1. \A q \in Process \ {p} : Untouched(q)
  BY <1>0, Distinct DEF OthersKeep, Untouched, Followed, files, history, IInv, LockInv
<1>2. \A q \in Process \ {p} : ProcessInv(q)'
  BY <1>1, Frame DEF IInv, ProcessInv
<1>3. \A d \in Dir : DirInv(d)'
  BY DEF IInv, DirInv, Knows, files, history
<1>4. QED
  BY <1>2, <1>3 DEF RestInv

\* The owner of a directory replaces its file by one that forgets no receipt and
\* knows all that may be queued.
LEMMA Saving ==
  ASSUME IInv, NEW p \in Process, OthersKeep(p), pc[p] \in Owning \ Looking,
         NEW s \in State, disk' = [disk EXCEPT ![dir[p]] = s],
         UNCHANGED <<durable, locks, history>>,
         disk[dir[p]] \in State => disk[dir[p]].receipts \subseteq s.receipts,
         \A m \in Seq :
           <<dir[p], m>> \notin mistold /\ (queued[dir[p]][m] > 0 \/ orphans[dir[p]][m] > 0)
             => m \in s.receipts \/ s.pending = m,
         \A m \in s.receipts : queued[dir[p]][m] > 0
  PROVE  RestInv(p)
<1> USE DEF locks, history
<1>0. dir[p] \in Dir /\ owner[dir[p]] = p /\ p # None
  BY Distinct DEF IInv, LockInv
<1>a. \A d \in Dir : disk'[d] = IF d = dir[p] THEN s ELSE disk[d]
  BY <1>0 DEF IInv, TypeOK
<1>b. ASSUME NEW d \in Dir, Idle(d) PROVE d # dir[p] /\ Idle(d)'
  <2>1. d # dir[p] /\ owner[d] # p
    BY <1>0, <1>b DEF Idle, IInv, LockInv
  <2>2. owner[d] # None => owner[d] \in Process \ {p}
    BY <2>1 DEF IInv, TypeOK
  <2>3. QED
    BY <1>b, <2>1, <2>2 DEF Idle, OthersKeep, Keeps
<1>1. \A q \in Process \ {p} : Untouched(q)
  BY <1>0, <1>a, <1>b DEF OthersKeep, Untouched, Followed, IInv, LockInv
<1>2. \A q \in Process \ {p} : ProcessInv(q)'
  BY <1>1, Frame DEF IInv, ProcessInv
<1>3. ASSUME NEW d \in Dir PROVE DirInv(d)'
  <2>1. CASE d # dir[p]
    BY <2>1, <1>a DEF IInv, DirInv, Knows
  <2>2. CASE d = dir[p]
    BY <2>2, <1>0, <1>a DEF IInv, DirInv, Knows
  <2>3. QED
    BY <2>1, <2>2
<1>4. QED
  BY <1>2, <1>3 DEF RestInv

\* The queue and the calls left behind change: where they do, the message was told
\* wrongly, or nothing of it was there before and both files know of it.
LEMMA QueueStep ==
  ASSUME IInv, TypeOK', UNCHANGED durable,
         \A d \in Dir : disk'[d] = disk[d] \/ (disk[d] = None /\ disk'[d] = Torn),
         mistold \subseteq mistold',
         \A d \in Dir, m \in Seq : queued'[d][m] >= queued[d][m],
         \A d \in Dir, m \in Seq :
           \/ <<d, m>> \in mistold'
           \/ queued'[d][m] = queued[d][m] /\ orphans'[d][m] = orphans[d][m]
           \/ queued'[d][m] + orphans'[d][m] <= 1 /\ Knows(d, m)
  PROVE  \A d \in Dir : DirInv(d)'
<1>1. ASSUME NEW d \in Dir PROVE DirInv(d)'
  <2>1. ASSUME NEW m \in Seq, Knows(d, m) PROVE Knows(d, m)'
    BY <2>1, Distinct DEF Knows
  <2>2. durable'[d] \in State => disk'[d] \in State /\ durable'[d].receipts \subseteq disk'[d].receipts
    BY Distinct DEF IInv, DirInv
  <2>3. ASSUME disk'[d] \in State, NEW m \in disk'[d].receipts PROVE queued'[d][m] > 0
    <3>1. disk[d] \in State /\ m \in disk[d].receipts
      BY <2>3, Distinct
    <3>2. m \in Seq /\ queued[d][m] > 0
      BY <3>1, Fields DEF IInv, DirInv
    <3>3. queued[d][m] \in Nat /\ queued'[d][m] \in Nat /\ queued'[d][m] >= queued[d][m]
      BY <3>2 DEF IInv, TypeOK
    <3>4. QED
      BY <3>2, <3>3
  <2>4. ASSUME NEW m \in Seq, <<d, m>> \notin mistold'
        PROVE  /\ queued'[d][m] + orphans'[d][m] <= 1
               /\ queued'[d][m] > 0 \/ orphans'[d][m] > 0 => Knows(d, m)'
    <3>1. <<d, m>> \notin mistold
      BY <2>4
    <3>2. /\ queued[d][m] + orphans[d][m] <= 1
          /\ queued[d][m] > 0 \/ orphans[d][m] > 0 => Knows(d, m)
      BY <3>1 DEF IInv, DirInv
    <3>3. QED
      BY <2>1, <2>4, <3>2
  <2>5. QED
    BY <2>2, <2>3, <2>4 DEF DirInv
<1>2. QED
  BY <1>1

\* A process ends: its locks are free, and a half-made file may be left where there
\* was none.
LEMMA Ending ==
  ASSUME IInv, NEW p \in Process, End(p),
         disk' = disk \/ (pc[p] = "create" /\ disk' = [disk EXCEPT ![dir[p]] = Torn]),
         UNCHANGED <<durable, queued, mistold>>,
         \A d \in Dir, m \in Seq : owner[d] # p => orphans'[d][m] = orphans[d][m]
  PROVE  /\ \A q \in Process \ {p} : ProcessInv(q)'
         /\ ProcessInv(p)'
         /\ \A d \in Dir : disk'[d] = disk[d] \/ (disk[d] = None /\ disk'[d] = Torn)
<1>0. OthersKeep(p)
  BY DEF OthersKeep, Keeps, End, IInv, TypeOK
<1>a. ASSUME NEW d \in Dir
      PROVE  /\ owner'[d] = IF owner[d] = p THEN None ELSE owner[d]
             /\ readers'[d] = readers[d] \ {p}
  BY DEF End
<1>b. ASSUME NEW d \in Dir
      PROVE  disk'[d] = disk[d] \/ (owner[d] = p /\ disk[d] = None /\ disk'[d] = Torn)
  <2>1. pc[p] = "create" => dir[p] \in Dir /\ owner[dir[p]] = p /\ disk[dir[p]] = None
    BY DEF IInv, LockInv, MemInv, Owning, Label
  <2>2. QED
    BY <2>1 DEF IInv, TypeOK
<1>c. ASSUME NEW d \in Dir, Idle(d) PROVE Idle(d)'
  <2>1. owner'[d] # None => owner'[d] = owner[d] /\ owner[d] \in Process \ {p}
    BY <1>a DEF IInv, TypeOK
  <2>2. QED
    BY <1>c, <2>1, <1>0 DEF Idle, OthersKeep, Keeps
<1>1. ASSUME NEW q \in Process \ {p} PROVE Untouched(q)
  <2>1. ASSUME NEW d \in Dir, owner[d] = q, NEW m \in Seq PROVE Followed(d, m)
    BY <2>1 DEF Followed
  <2>2. QED
    BY <1>0, <1>a, <1>b, <1>c, <2>1, Distinct DEF OthersKeep, Untouched, IInv, LockInv, End
<1>2. \A q \in Process \ {p} : ProcessInv(q)'
  BY <1>1, Frame DEF IInv, ProcessInv
<1>5. /\ pc'[p] = "off" /\ call'[p] = "none" /\ said'[p] = "nothing"
      /\ \A d \in Dir : owner'[d] # p /\ p \notin readers'[d]
  BY <1>a, Distinct DEF End, IInv, TypeOK
<1>6. ProcessInv(p)'
  BY <1>5 DEF ProcessInv, LockInv, MemInv, CallInv, Serving, Intended, Owning, Outcome
<1>7. QED
  BY <1>2, <1>6, <1>b

\* A process that was off takes the lock of a directory, to look at its file.
LEMMA Taking ==
  ASSUME IInv, NEW p \in Process, NEW d \in Dir, OthersKeep(p), pc[p] = "off",
         owner[d] = None, readers[d] = {}, pc'[p] \in Looking,
         owner' = [owner EXCEPT ![d] = p],
         UNCHANGED <<files, readers, session, history>>
  PROVE  RestInv(p)
<1> USE DEF files, history
<1>a. \A e \in Dir : owner'[e] = IF e = d THEN p ELSE owner[e]
  BY DEF IInv, TypeOK
<1>b. ASSUME NEW e \in Dir, Idle(e) PROVE Idle(e)'
  <2>1. CASE e = d
    BY <2>1, <1>a DEF Idle
  <2>2. CASE e # d
    <3>1. owner'[e] = owner[e] /\ owner[e] # p
      BY <2>2, <1>a DEF IInv, LockInv, Owning
    <3>2. owner[e] # None => owner[e] \in Process \ {p}
      BY <3>1 DEF IInv, TypeOK
    <3>3. QED
      BY <1>b, <3>1, <3>2 DEF Idle, OthersKeep, Keeps
  <2>3. QED
    BY <2>1, <2>2
<1>1. \A q \in Process \ {p} : Untouched(q)
  BY <1>a, <1>b, Distinct DEF OthersKeep, Untouched, Followed, IInv, LockInv
<1>2. \A q \in Process \ {p} : ProcessInv(q)'
  BY <1>1, Frame DEF IInv, ProcessInv
<1>3. \A e \in Dir : DirInv(e)'
  BY DEF IInv, DirInv, Knows
<1>4. QED
  BY <1>2, <1>3 DEF RestInv

-----------------------------------------------------------------------------
(* Steps that change nothing the others see.                               *)

\* Opening, losing and reopening the stream.
LEMMA StreamSteps ==
  ASSUME IInv, NEW p \in Process, Probe(p) \/ Connect(p) \/ Disconnect(p) \/ Reconnect(p)
  PROVE  IInv'
<1>1. TypeOK'
  <2>1. CASE Probe(p)
    BY <2>1, ReceiverAssumption DEF Probe, Goto, SessionFree, files, locks,
       locals, world, history, IInv, TypeOK, Label
  <2>2. CASE Connect(p)
    BY <2>2, ReceiverAssumption DEF Connect, Goto, SessionFree, files, locks,
       locals, world, history, IInv, TypeOK, Label
  <2>3. CASE Disconnect(p)
    BY <2>3, ReceiverAssumption DEF Disconnect, Goto, SessionFree, files, locks,
       locals, world, history, IInv, TypeOK, Label
  <2>4. CASE Reconnect(p)
    BY <2>4, ReceiverAssumption DEF Reconnect, Goto, SessionFree, files, locks,
       locals, world, history, IInv, TypeOK, Label
  <2>5. QED
    BY <2>1, <2>2, <2>3, <2>4
<1>2. OthersKeep(p)
  BY DEF Probe, Connect, Disconnect, Reconnect, Goto, SessionFree, files, locks,
       locals, world, history, IInv, TypeOK, OthersKeep, Keeps
<1>3. RestInv(p)
  BY <1>2, Quietly DEF Probe, Connect, Disconnect, Reconnect, Goto, SessionFree,
       files, locks, locals, world, history, Looking
<1>4. ProcessInv(p)'
  BY ReceiverAssumption DEF Probe, Connect, Disconnect, Reconnect, Goto,
       SessionFree, files, locks, locals, world, history, IInv, TypeOK,
       ProcessInv, LockInv, MemInv, CallInv, Serving, Intended, Owning, Label, Idle, Looking
<1>5. QED
  BY <1>1, <1>3, <1>4, Together

\* The check of a message, and the start of the call.
LEMMA CheckSteps ==
  ASSUME IInv, NEW p \in Process, CheckCurrent(p) \/ Submit(p)
  PROVE  IInv'
<1>1. TypeOK'
  <2>1. CASE CheckCurrent(p)
    BY <2>1 DEF CheckCurrent, Goto, files, locks, locals, world, history, IInv, TypeOK, Label
  <2>2. CASE Submit(p)
    BY <2>2 DEF Submit, Goto, files, locks, locals, world, history, IInv, TypeOK, Label
  <2>3. QED
    BY <2>1, <2>2
<1>2. OthersKeep(p)
  BY DEF CheckCurrent, Submit, Goto, files, locks, locals, world,
       history, IInv, TypeOK, OthersKeep, Keeps
<1>3. RestInv(p)
  BY <1>2, Quietly DEF CheckCurrent, Submit, Goto, files, locks, locals,
       world, history, Looking
<1> USE DEF Goto, files, locks, locals, world, history
<1>a. /\ pc[p] \in {"check", "submit"} /\ pc'[p] \in {"stream", "intend", "submit"}
      /\ pc'[p] = "submit" <=> pc[p] = "submit"
      /\ pc[p] = "check" => call' = call
      /\ pc[p] = "submit" => call[p] = "none" /\ call'[p] = "running"
      /\ UNCHANGED <<files, locks, dir, mem, after, item, said, queued, orphans, mistold>>
  BY DEF CheckCurrent, Submit, IInv, TypeOK
<1>4. ProcessInv(p)'
  <2>1. LockInv(p)'
    BY <1>a DEF IInv, LockInv, Serving, Owning, Label, TypeOK
  <2>2. MemInv(p)'
    BY <1>a DEF IInv, MemInv, Intended, Owning, Label, Looking
  <2>3. CallInv(p)'
    BY <1>a DEF IInv, CallInv, Intended, Outcome
  <2>4. QED
    BY <2>1, <2>2, <2>3 DEF ProcessInv
<1>5. QED
  BY <1>1, <1>3, <1>4, Together

\* Reading an event: a message that is not in the receipts goes on.
LEMMA ReadEventStep ==
  ASSUME IInv, NEW p \in Process, ReadEvent(p)
  PROVE  IInv'
<1>1. TypeOK'
  <2>1. PICK m \in Seq :
          /\ position' = [position EXCEPT ![p] = m]
          /\ item' = [item EXCEPT ![p] = IF Seen(p, m) THEN None ELSE m]
          /\ pc' = [pc EXCEPT ![p] = IF Seen(p, m) THEN "stream"
                                    ELSE IF mem[p].binding.check THEN "check" ELSE "intend"]
    BY DEF ReadEvent
  <2>2. m \in 0..Last
    BY ReceiverAssumption DEF Seq
  <2>3. QED
    BY <2>1, <2>2 DEF ReadEvent, files, locks, locals, world, history, IInv, TypeOK, Label
<1>2. OthersKeep(p)
  BY DEF ReadEvent, Seen, files, locks, locals, world, history, IInv, TypeOK,
       OthersKeep, Keeps
<1>3. RestInv(p)
  BY <1>2, Quietly DEF ReadEvent, Seen, files, locks, locals, world, history, Looking
<1> USE DEF files, locks, locals, world, history
<1>a. /\ pc[p] = "stream" /\ pc'[p] \in {"stream", "check", "intend"}
      /\ pc'[p] # "stream" => item'[p] \in Seq /\ item'[p] \notin mem[p].receipts
      /\ UNCHANGED <<files, locks, dir, mem, after, call, said, queued, orphans, mistold>>
  BY DEF ReadEvent, Seen, IInv, TypeOK
<1>4. ProcessInv(p)'
  <2>1. LockInv(p)'
    BY <1>a DEF IInv, LockInv, Serving, Owning, Label, TypeOK
  <2>2. MemInv(p)'
    BY <1>a DEF IInv, MemInv, Intended, Owning, Label, Looking
  <2>3. CallInv(p)'
    BY <1>a DEF IInv, CallInv, Intended, Outcome
  <2>4. QED
    BY <2>1, <2>2, <2>3 DEF ProcessInv
<1>5. QED
  BY <1>1, <1>3, <1>4, Together

-----------------------------------------------------------------------------
(* Steps that replace the file.                                            *)

\* What the directory of an owner holds, or has on its way, is known to its file.
LEMMA Known ==
  ASSUME IInv, NEW p \in Process, pc[p] \in Owning, NEW m \in Seq,
         <<dir[p], m>> \notin mistold,
         queued[dir[p]][m] > 0 \/ orphans[dir[p]][m] > 0
  PROVE  disk[dir[p]] \in State /\ (m \in disk[dir[p]].receipts \/ disk[dir[p]].pending = m)
BY DEF IInv, LockInv, DirInv, Knows

\* The owner of a directory saves a state and goes on when that is durable.
LEMMA SaveStep ==
  ASSUME IInv, NEW p \in Process, pc[p] \in Owning \ Looking, NEW s \in State,
         NEW next \in {"probe", "stream", "submit", "leave"}, Save(p, s, next),
         UNCHANGED <<durable, locks, dir, item, position, said, world, history>>,
         (UNCHANGED call /\ call[p] = "none") \/ call' = [call EXCEPT ![p] = "none"],
         disk[dir[p]] \in State => disk[dir[p]].receipts \subseteq s.receipts,
         \A m \in Seq :
           <<dir[p], m>> \notin mistold /\ (queued[dir[p]][m] > 0 \/ orphans[dir[p]][m] > 0)
             => m \in s.receipts \/ s.pending = m,
         \A m \in s.receipts : queued[dir[p]][m] > 0,
         next \in {"probe", "stream"} => s.pending = None,
         next = "submit" =>
           /\ item[p] \in Seq /\ item[p] \notin s.receipts /\ s.pending = item[p]
           /\ \/ <<dir[p], item[p]>> \in mistold
              \/ queued[dir[p]][item[p]] = 0 /\ orphans[dir[p]][item[p]] = 0,
         next \in {"stream", "submit"} => session = p
  PROVE  IInv'
<1> USE DEF locks, world, history
<1>0. dir[p] \in Dir /\ owner[dir[p]] = p /\ said[p] = "nothing"
  BY DEF IInv, LockInv, Owning, TypeOK
<1>a. /\ disk' \in [Dir -> State \cup {None, Torn}] /\ mem' \in [Process -> State \cup {None}]
      /\ pc' \in [Process -> Label] /\ after' \in [Process -> Label]
  BY <1>0 DEF Save, IInv, TypeOK, Label
<1>b. call' \in [Process -> {"none", "running", "reached", "submitted",
                             "submission_unknown", "not_submitted"}]
  BY DEF IInv, TypeOK
<1>1. TypeOK'
  BY <1>a, <1>b DEF Save, IInv, TypeOK
<1>2. OthersKeep(p)
  BY DEF Save, IInv, TypeOK, OthersKeep, Keeps
<1>3. RestInv(p)
  BY <1>2, Saving DEF Save
<1>4. /\ pc'[p] = "sync" /\ after'[p] = next /\ mem'[p] = s /\ call'[p] = "none"
      /\ disk'[dir[p]] = s
  BY <1>0 DEF Save, IInv, TypeOK
<1>5. LockInv(p)'
  BY <1>0, <1>4 DEF IInv, LockInv, Serving, Owning, Label
<1>6. MemInv(p)'
  BY <1>0, <1>4 DEF MemInv, Intended, Owning, Label, Looking
<1>7. CallInv(p)'
  BY <1>0, <1>4 DEF CallInv, Intended
<1>8. QED
  BY <1>1, <1>3, <1>5, <1>6, <1>7, Together DEF ProcessInv

\* A new file has no receipts, as nothing of its directory was queued.
LEMMA CreateStep ==
  ASSUME IInv, NEW p \in Process, Create(p)
  PROVE  IInv'
<1>1. /\ pc[p] \in Owning \ Looking /\ call[p] = "none" /\ mem[p] \in State
      /\ disk[dir[p]] = None /\ mem[p].pending = None /\ mem[p].receipts = {}
  BY DEF Create, IInv, MemInv, CallInv, Owning, Label, TypeOK, Looking
<1>2. \A m \in Seq :
        <<dir[p], m>> \notin mistold => ~(queued[dir[p]][m] > 0 \/ orphans[dir[p]][m] > 0)
  BY <1>1, Known, Distinct
<1>3. QED
  BY <1>1, <1>2, Distinct, SaveStep DEF Create

\* A loaded file is saved only if its binding has grown, or was bound anew.
LEMMA LoadSteps ==
  ASSUME IInv, NEW p \in Process, Load(p) \/ RebindFinish(p)
  PROVE  IInv'
<1>1. /\ pc[p] \in {"load", "rebind"} /\ pc[p] \in Owning \ Looking /\ call[p] = "none"
      /\ dir[p] \in Dir /\ mem[p] \in State
      /\ disk[dir[p]] \in State /\ disk[dir[p]].pending = None
      /\ mem[p].pending = None /\ mem[p].receipts = disk[dir[p]].receipts
  BY DEF Load, RebindFinish, Goto, IInv, LockInv, MemInv, CallInv, Owning, Label, TypeOK, Looking
<1>2. CASE mem[p] # disk[dir[p]]
  <2>1. \A m \in Seq :
          <<dir[p], m>> \notin mistold /\ (queued[dir[p]][m] > 0 \/ orphans[dir[p]][m] > 0)
            => m \in mem[p].receipts
    BY <1>1, Known, Distinct
  <2>2. \A m \in mem[p].receipts : queued[dir[p]][m] > 0
    BY <1>1 DEF IInv, DirInv
  <2>3. PICK next \in {"probe", "leave"} : Save(p, mem[p], next)
    BY <1>2 DEF Load, RebindFinish
  <2>4. UNCHANGED <<durable, locks, dir, item, position, call, said, world, history>>
    BY DEF Load, RebindFinish
  <2>5. QED
    BY <1>1, <2>1, <2>2, <2>3, <2>4, SaveStep
<1>3. CASE mem[p] = disk[dir[p]]
  <2>1. PICK next \in {"probe", "leave"} : pc' = [pc EXCEPT ![p] = next]
    BY <1>3 DEF Load, RebindFinish, Goto
  <2>2. UNCHANGED <<disk, durable, locks, locals, world, history>>
    BY <1>3 DEF Load, RebindFinish, locals
  <2>3. TypeOK'
    BY <2>1, <2>2 DEF IInv, TypeOK, Label, locks, locals, world, history
  <2>4. OthersKeep(p)
    BY <2>1, <2>2 DEF IInv, TypeOK, OthersKeep, Keeps, locals
  <2>5. RestInv(p)
    BY <1>1, <2>2, <2>4, Quietly DEF files, locks, history
  <2>6. pc'[p] = next
    BY <2>1 DEF IInv, TypeOK
  <2>7. ProcessInv(p)'
    BY <1>1, <1>3, <2>2, <2>6
    DEF IInv, ProcessInv, LockInv, MemInv, CallInv, Serving, Intended, Owning, Label, locks,
        locals, history, Idle, Looking
  <2>8. QED
    BY <2>3, <2>5, <2>7, Together
<1>4. QED
  BY <1>2, <1>3

\* The intent names a message of which this directory has queued nothing, nor left
\* anything behind, unless it was told wrongly of it.
LEMMA IntendStep ==
  ASSUME IInv, NEW p \in Process, Intend(p)
  PROVE  IInv'
<1>1. /\ pc[p] = "intend" /\ pc[p] \in Owning \ Looking /\ call[p] = "none" /\ dir[p] \in Dir
      /\ mem[p] \in State /\ disk[dir[p]] = mem[p] /\ mem[p].pending = None
      /\ item[p] \in Seq /\ item[p] \notin mem[p].receipts /\ session = p
  BY DEF Intend, IInv, LockInv, MemInv, CallInv, Serving, Owning, Label, TypeOK, Looking
<1> DEFINE s == [mem[p] EXCEPT !.pending = item[p]]
<1>2. s \in State /\ s.pending = item[p] /\ s.receipts = mem[p].receipts
  BY <1>1, WithPending
<1>3. \A m \in Seq :
        <<dir[p], m>> \notin mistold /\ (queued[dir[p]][m] > 0 \/ orphans[dir[p]][m] > 0)
          => m \in s.receipts
  BY <1>1, <1>2, Known, Distinct
<1>4. \A m \in s.receipts : queued[dir[p]][m] > 0
  BY <1>1, <1>2 DEF IInv, DirInv
<1>5. \/ <<dir[p], item[p]>> \in mistold
      \/ queued[dir[p]][item[p]] = 0 /\ orphans[dir[p]][item[p]] = 0
  BY <1>1, <1>2, <1>3 DEF IInv, TypeOK
<1>6. /\ Save(p, s, "submit")
      /\ UNCHANGED <<durable, locks, dir, item, position, call, said, world, history>>
  BY DEF Intend, AfterIntend
<1> HIDE DEF s
<1>7. QED
  BY <1>1, <1>2, <1>3, <1>4, <1>5, <1>6, SaveStep

\* Whatever the outcome, the ledger goes on knowing what may be queued.
LEMMA RecordStep ==
  ASSUME IInv, NEW p \in Process, Record(p)
  PROVE  IInv'
<1>1. /\ pc[p] = "submit" /\ pc[p] \in Owning \ Looking /\ dir[p] \in Dir
      /\ mem[p] \in State /\ disk[dir[p]] = mem[p] /\ mem[p].pending = item[p]
      /\ item[p] \in Seq /\ item[p] \notin mem[p].receipts /\ session = p
      /\ call[p] \in Outcome
  BY DEF Record, IInv, LockInv, MemInv, Serving, Intended, Owning, Label, Looking
<1> DEFINE s == Recorded(mem[p], item[p], call[p])
           next == IF call[p] = "submitted" THEN "stream" ELSE "leave"
<1>2. /\ s \in State
      /\ call[p] = "submitted" => s.pending = None /\ s.receipts = mem[p].receipts \cup {item[p]}
      /\ call[p] = "not_submitted" => s.pending = None /\ s.receipts = mem[p].receipts
      /\ call[p] = "submission_unknown" => s = mem[p]
  BY <1>1, WithOutcome
<1>3. /\ call[p] = "submitted" => queued[dir[p]][item[p]] > 0
      /\ call[p] = "not_submitted" =>
           \/ <<dir[p], item[p]>> \in mistold
           \/ queued[dir[p]][item[p]] = 0 /\ orphans[dir[p]][item[p]] = 0
  BY <1>1 DEF IInv, CallInv, Intended
<1>4. ASSUME NEW m \in Seq, <<dir[p], m>> \notin mistold,
             queued[dir[p]][m] > 0 \/ orphans[dir[p]][m] > 0
      PROVE  m \in s.receipts \/ s.pending = m
  <2>1. m \in mem[p].receipts \/ m = item[p]
    BY <1>1, <1>4, Known
  <2>2. CASE call[p] = "submitted"
    BY <1>2, <2>1, <2>2
  <2>3. CASE call[p] = "not_submitted"
    BY <1>2, <1>3, <1>4, <2>1, <2>3
  <2>4. CASE call[p] = "submission_unknown"
    BY <1>1, <1>2, <2>1, <2>4
  <2>5. QED
    BY <1>1, <2>2, <2>3, <2>4 DEF Outcome
<1>5. \A m \in mem[p].receipts : queued[dir[p]][m] > 0
  BY <1>1 DEF IInv, DirInv
<1>6. \A m \in s.receipts : queued[dir[p]][m] > 0
  BY <1>1, <1>2, <1>3, <1>5 DEF Outcome
<1>7. mem[p].receipts \subseteq s.receipts
  BY <1>1, <1>2 DEF Outcome
<1>8. /\ Save(p, s, next)
      /\ UNCHANGED <<durable, locks, dir, item, position, said, world, history>>
      /\ call' = [call EXCEPT ![p] = "none"]
  BY DEF Record
<1>9. next \in {"probe", "stream", "submit", "leave"} /\ next # "submit"
      /\ (next \in {"probe", "stream"} => s.pending = None)
  BY <1>2
<1> HIDE DEF s, next
<1>10. QED
  BY <1>1, <1>2, <1>4, <1>6, <1>7, <1>8, <1>9, SaveStep

\* The directory is synced: what it shows is what a power loss leaves.
LEMMA SyncStep ==
  ASSUME IInv, NEW p \in Process, Sync(p)
  PROVE  IInv'
<1> USE DEF Sync, Goto, locks, locals, world, history
<1>0. /\ pc[p] = "sync" /\ dir[p] \in Dir /\ owner[dir[p]] = p /\ mem[p] \in State
      /\ disk[dir[p]] = mem[p] /\ after[p] \in {"probe", "stream", "submit", "leave"}
  BY DEF IInv, LockInv, MemInv, Owning, Label, Looking
<1>b. pc'[p] = after[p] /\ after[p] \in Label
  BY DEF IInv, TypeOK
<1>1. TypeOK'
  BY <1>0, <1>b DEF IInv, TypeOK
<1>a. \A d \in Dir : durable'[d] = IF d = dir[p] THEN disk[d] ELSE durable[d]
  BY <1>0 DEF IInv, TypeOK
<1>c. ASSUME NEW d \in Dir, Idle(d) PROVE Idle(d)'
  <2>1. owner[d] # p
    BY <1>0, <1>c, Distinct DEF Idle, Looking
  <2>2. QED
    BY <1>c, <2>1 DEF Idle, IInv, TypeOK
<1>2. \A q \in Process \ {p} : Untouched(q)
  BY <1>0, <1>a, <1>c DEF Untouched, Followed, Keeps, IInv, TypeOK, LockInv
<1>3. \A q \in Process \ {p} : ProcessInv(q)'
  BY <1>2, Frame DEF IInv, ProcessInv
<1>4. \A d \in Dir : DirInv(d)'
  BY <1>a DEF IInv, DirInv, Knows
<1>5. ProcessInv(p)'
  BY <1>0, <1>a, <1>b
  DEF IInv, TypeOK, ProcessInv, LockInv, MemInv, CallInv, Serving, Intended, Owning, Label, Looking
<1>6. QED
  BY <1>1, <1>3, <1>4, <1>5, Together DEF RestInv, IInv

-----------------------------------------------------------------------------
(* Steps that put a notice into the queue.                                 *)

\* One more notice of a message of a directory.
LEMMA QueueIs ==
  ASSUME TypeOK, NEW d \in Dir, NEW m \in Seq, Queue(d, m)
  PROVE  /\ queued' \in [Dir -> [Seq -> Nat]]
         /\ queued'[d][m] = queued[d][m] + 1
         /\ \A e \in Dir, n \in Seq : <<e, n>> # <<d, m>> => queued'[e][n] = queued[e][n]
         /\ \A e \in Dir : e # d => queued'[e] = queued[e]
BY DEF TypeOK, Queue

\* A step about the call of p that leaves files, locks and the others alone.
LEMMA Calling ==
  ASSUME IInv, NEW p \in Process, call[p] # "none", TypeOK',
         UNCHANGED <<files, locks, pc, dir, mem, after, item, said>>,
         \A q \in Process \ {p} : call'[q] = call[q],
         mistold \subseteq mistold',
         \A d \in Dir, m \in Seq :
           owner[d] # p => queued'[d][m] = queued[d][m] /\ orphans'[d][m] = orphans[d][m]
  PROVE  \A q \in Process \ {p} : ProcessInv(q)'
<1>1. ASSUME NEW q \in Process \ {p} PROVE Untouched(q)
  <2>1. ASSUME NEW d \in Dir, owner[d] = q, NEW m \in Seq PROVE Followed(d, m)
    BY <2>1 DEF Followed
  <2>2. QED
    BY <2>1, Distinct DEF Untouched, Keeps, Idle, files, locks, IInv, LockInv
<1>2. QED
  BY <1>1, Frame DEF IInv, ProcessInv

\* What holds of a process with a call under way.
LEMMA Underway ==
  ASSUME IInv, NEW p \in Process, call[p] # "none"
  PROVE  /\ pc[p] \in {"submit", "join"} /\ dir[p] \in Dir /\ owner[dir[p]] = p /\ p # None
         /\ mem[p] \in State /\ disk[dir[p]] = mem[p] /\ durable[dir[p]] = mem[p]
         /\ item[p] \in Seq /\ item[p] \notin mem[p].receipts /\ mem[p].pending = item[p]
         /\ Knows(dir[p], item[p]) /\ Intended(p) /\ said[p] = "nothing"
<1>1. pc[p] \in {"submit", "join"}
  BY DEF IInv, CallInv
<1>2. QED
  BY <1>1, Distinct DEF IInv, LockInv, MemInv, Intended, Owning, Label, Knows, Looking, TypeOK

\* The client takes the notice of the one process that has announced it.
LEMMA ReachStep ==
  ASSUME IInv, NEW p \in Process, Reach(p)
  PROVE  IInv'
<1> USE DEF files, locks, world
<1> DEFINE d == dir[p]  m == item[p]
<1>0. /\ call[p] = "running" /\ d \in Dir /\ m \in Seq /\ owner[d] = p /\ Knows(d, m)
      /\ <<d, m>> \in mistold \/ (queued[d][m] = 0 /\ orphans[d][m] = 0)
  BY Underway DEF Reach, IInv, CallInv
<1>1. /\ queued' \in [Dir -> [Seq -> Nat]]
      /\ queued'[d][m] = queued[d][m] + 1
      /\ \A e \in Dir, n \in Seq : <<e, n>> # <<d, m>> => queued'[e][n] = queued[e][n]
  BY <1>0, QueueIs DEF Reach, IInv
<1>2. call' = [call EXCEPT ![p] = "reached"] /\ UNCHANGED <<orphans, mistold>>
  BY DEF Reach
<1>3. TypeOK'
  BY <1>1, <1>2 DEF Reach, IInv, TypeOK
<1>a. /\ \A e \in Dir, n \in Seq : queued[e][n] \in Nat /\ orphans[e][n] \in Nat
      /\ \A q \in Process : call'[q] = IF q = p THEN "reached" ELSE call[q]
  BY <1>2 DEF IInv, TypeOK
<1>4. \A q \in Process \ {p} : ProcessInv(q)'
  <2>1. \A e \in Dir, n \in Seq :
          owner[e] # p => queued'[e][n] = queued[e][n] /\ orphans'[e][n] = orphans[e][n]
    BY <1>0, <1>1, <1>2
  <2>2. \A q \in Process \ {p} : call'[q] = call[q]
    BY <1>a
  <2> HIDE DEF d, m
  <2>3. QED
    BY <1>0, <1>2, <1>3, <2>1, <2>2, Calling DEF Reach
<1>5. \A e \in Dir : DirInv(e)'
  <2>1. \A e \in Dir, n \in Seq : queued'[e][n] >= queued[e][n]
    BY <1>1, <1>a
  <2>2. ASSUME NEW e \in Dir, NEW n \in Seq
        PROVE  \/ <<e, n>> \in mistold'
               \/ queued'[e][n] = queued[e][n] /\ orphans'[e][n] = orphans[e][n]
               \/ queued'[e][n] + orphans'[e][n] <= 1 /\ Knows(e, n)
    BY <1>0, <1>1, <1>2
  <2>3. QED
    BY <1>2, <1>3, <2>1, <2>2, QueueStep DEF Reach
<1>6. ProcessInv(p)'
  <2>1. /\ pc[p] \in {"submit", "join"} /\ queued'[dir[p]][item[p]] > 0
        /\ UNCHANGED <<pc, dir, mem, item, said>> /\ call'[p] = "reached"
    BY <1>0, <1>1, <1>a, Underway DEF Reach
  <2>2. LockInv(p)' /\ MemInv(p)'
    BY DEF Reach, IInv, LockInv, MemInv, Serving, Intended, Owning, Idle
  <2>3. CallInv(p)'
    BY <2>1 DEF CallInv, Intended
  <2>4. QED
    BY <2>2, <2>3 DEF ProcessInv
<1>7. QED
  BY <1>3, <1>4, <1>5, <1>6, Together DEF RestInv

\* One more call of a process is left behind.
LEMMA OrphanedIs ==
  ASSUME TypeOK, NEW p \in Process, dir[p] \in Dir, item[p] \in Seq,
         orphans' = Orphaned(p)
  PROVE  /\ orphans' \in [Dir -> [Seq -> Nat]]
         /\ orphans'[dir[p]][item[p]] = orphans[dir[p]][item[p]] + 1
         /\ \A e \in Dir, n \in Seq :
              <<e, n>> # <<dir[p], item[p]>> => orphans'[e][n] = orphans[e][n]
BY DEF TypeOK, Orphaned

\* A call ends: of a true denial nothing is left, of a false one the message is
\* noted, and what an unknown outcome leaves behind is still pending.
LEMMA ReturnStep ==
  ASSUME IInv, NEW p \in Process, Return(p)
  PROVE  IInv'
<1> USE DEF files, locks, world
<1> DEFINE d == dir[p]  m == item[p]
<1>0. /\ call[p] \in {"running", "reached"} /\ d \in Dir /\ m \in Seq /\ owner[d] = p
      /\ Knows(d, m) /\ pc[p] \in {"submit", "join"}
      /\ UNCHANGED <<pc, dir, mem, item, said>>
  BY Underway DEF Return
<1>a. /\ call[p] = "running" =>
           <<d, m>> \in mistold \/ (queued[d][m] = 0 /\ orphans[d][m] = 0)
      /\ call[p] = "reached" => queued[d][m] > 0
      /\ <<d, m>> \notin mistold => queued[d][m] + orphans[d][m] <= 1
  BY <1>0, Underway DEF IInv, CallInv, DirInv
<1>1. PICK o \in Results(p), left \in BOOLEAN :
        /\ left => Leaves(p, o)
        /\ call' = [call EXCEPT ![p] = o]
        /\ orphans' = IF left THEN Orphaned(p) ELSE orphans
        /\ IF o = "not_submitted" /\ (left \/ call[p] = "reached")
           THEN /\ <<d, m>> \notin mistold
                /\ Cardinality(mistold) < MaxMistold
                /\ mistold' = mistold \cup {<<d, m>>}
           ELSE UNCHANGED mistold
  BY DEF Return
<1>2. /\ UNCHANGED queued /\ o \in Outcome
      /\ o = "submitted" => call[p] = "reached"
      /\ left => call[p] = "running"
      /\ \A q \in Process : call'[q] = IF q = p THEN o ELSE call[q]
  BY <1>1 DEF Return, Results, Outcome, Leaves, IInv, TypeOK
<1>3. /\ orphans' \in [Dir -> [Seq -> Nat]]
      /\ orphans'[d][m] = IF left THEN orphans[d][m] + 1 ELSE orphans[d][m]
      /\ \A e \in Dir, n \in Seq : <<e, n>> # <<d, m>> => orphans'[e][n] = orphans[e][n]
  BY <1>0, <1>1, OrphanedIs DEF IInv, TypeOK
<1>4. /\ mistold \subseteq mistold' /\ mistold' \in SUBSET (Dir \X Seq)
      /\ o = "not_submitted" /\ (left \/ call[p] = "reached") => <<d, m>> \in mistold'
  BY <1>0, <1>1 DEF IInv, TypeOK
<1>b. /\ \A e \in Dir, n \in Seq : queued[e][n] \in Nat /\ orphans[e][n] \in Nat
      /\ call' \in [Process -> {"none", "running", "reached", "submitted",
                                "submission_unknown", "not_submitted"}]
  BY <1>1, <1>2 DEF IInv, TypeOK, Outcome
<1>5. TypeOK'
  BY <1>2, <1>3, <1>4, <1>b DEF Return, IInv, TypeOK
<1>6. \A q \in Process \ {p} : ProcessInv(q)'
  <2>1. \A e \in Dir, n \in Seq :
          owner[e] # p => queued'[e][n] = queued[e][n] /\ orphans'[e][n] = orphans[e][n]
    BY <1>0, <1>2, <1>3
  <2>2. (\A q \in Process \ {p} : call'[q] = call[q]) /\ call[p] # "none"
    BY <1>0, <1>2
  <2> HIDE DEF d, m
  <2>3. QED
    BY <1>4, <1>5, <2>1, <2>2, Calling DEF Return
<1>7. \A e \in Dir : DirInv(e)'
  <2>1. \A e \in Dir, n \in Seq : queued'[e][n] >= queued[e][n]
    BY <1>2, <1>b
  <2>2. ASSUME NEW e \in Dir, NEW n \in Seq
        PROVE  \/ <<e, n>> \in mistold'
               \/ queued'[e][n] = queued[e][n] /\ orphans'[e][n] = orphans[e][n]
               \/ queued'[e][n] + orphans'[e][n] <= 1 /\ Knows(e, n)
    <3>1. CASE <<e, n>> # <<d, m>>
      BY <3>1, <1>2, <1>3
    <3>2. CASE e = d /\ n = m
      BY <3>2, <1>0, <1>a, <1>2, <1>3, <1>4
    <3>3. QED
      BY <3>1, <3>2
  <2>3. UNCHANGED <<disk, durable>>
    BY DEF Return
  <2>4. QED
    BY <1>4, <1>5, <2>1, <2>2, <2>3, QueueStep
<1>8. ProcessInv(p)'
  <2>1. LockInv(p)' /\ MemInv(p)'
    BY DEF Return, IInv, LockInv, MemInv, Serving, Intended, Owning, Idle
  <2>2. o = "not_submitted" =>
          <<d, m>> \in mistold' \/ (queued'[d][m] = 0 /\ orphans'[d][m] = 0)
    BY <1>0, <1>a, <1>2, <1>3, <1>4
  <2>3. o = "submitted" => queued'[d][m] > 0
    BY <1>a, <1>2
  <2>4. CallInv(p)'
    BY <1>0, <1>2, <2>2, <2>3 DEF CallInv, Intended, Outcome
  <2>5. QED
    BY <2>1, <2>4 DEF ProcessInv
<1>9. QED
  BY <1>5, <1>6, <1>7, <1>8, Together DEF RestInv

\* What a call left behind queues its notice: the files knew that it might.
LEMMA OrphanStep ==
  ASSUME IInv, NEW d \in Dir, NEW m \in Seq, OrphanQueues(d, m)
  PROVE  IInv'
<1> USE DEF files, locks, locals, world
<1>0. /\ orphans[d][m] > 0
      /\ \/ <<d, m>> \in mistold
         \/ queued[d][m] + orphans[d][m] <= 1 /\ Knows(d, m)
  BY DEF OrphanQueues, IInv, DirInv
<1>1. /\ queued' \in [Dir -> [Seq -> Nat]]
      /\ queued'[d][m] = queued[d][m] + 1
      /\ \A e \in Dir, n \in Seq : <<e, n>> # <<d, m>> => queued'[e][n] = queued[e][n]
  BY <1>0, QueueIs DEF OrphanQueues, IInv
<1>a. \A e \in Dir, n \in Seq : queued[e][n] \in Nat /\ orphans[e][n] \in Nat
  BY DEF IInv, TypeOK
<1>2. /\ orphans' \in [Dir -> [Seq -> Nat]]
      /\ orphans'[d][m] = orphans[d][m] - 1
      /\ \A e \in Dir, n \in Seq : <<e, n>> # <<d, m>> => orphans'[e][n] = orphans[e][n]
  <2>1. orphans[d][m] - 1 \in Nat
    BY <1>0, <1>a
  <2>2. orphans \in [Dir -> [Seq -> Nat]] /\ orphans' = [orphans EXCEPT ![d][m] = @ - 1]
    BY DEF OrphanQueues, IInv, TypeOK
  <2>3. QED
    BY <2>1, <2>2
<1>3. TypeOK'
  BY <1>1, <1>2 DEF OrphanQueues, IInv, TypeOK
<1>4. ASSUME NEW q \in Process PROVE Untouched(q)
  <2>1. ASSUME NEW e \in Dir, NEW n \in Seq PROVE Followed(e, n)
    BY <1>0, <1>1, <1>2, <1>a DEF Followed, OrphanQueues
  <2>2. QED
    BY <2>1, Distinct DEF OrphanQueues, Untouched, Keeps, Idle, IInv, LockInv
<1>5. \A q \in Process : ProcessInv(q)'
  BY <1>4, Frame DEF IInv, ProcessInv
<1>6. \A e \in Dir : DirInv(e)'
  <2>1. \A e \in Dir, n \in Seq : queued'[e][n] >= queued[e][n]
    BY <1>1, <1>a
  <2>2. ASSUME NEW e \in Dir, NEW n \in Seq
        PROVE  \/ <<e, n>> \in mistold'
               \/ queued'[e][n] = queued[e][n] /\ orphans'[e][n] = orphans[e][n]
               \/ queued'[e][n] + orphans'[e][n] <= 1 /\ Knows(e, n)
    <3>1. CASE <<e, n>> # <<d, m>>
      BY <3>1, <1>1, <1>2
    <3>2. CASE e = d /\ n = m
      BY <3>2, <1>0, <1>1, <1>2, <1>a DEF OrphanQueues
    <3>3. QED
      BY <3>1, <3>2
  <2>3. UNCHANGED <<disk, durable, mistold>>
    BY DEF OrphanQueues
  <2>4. QED
    BY <1>3, <2>1, <2>2, <2>3, QueueStep
<1>7. QED
  BY <1>3, <1>5, <1>6 DEF IInv, ProcessInv

-----------------------------------------------------------------------------
(* Beginning and ending.                                                   *)

\* A receiver or a rebind takes a directory's lock to look at its file.
LEMMA TakeSteps ==
  ASSUME IInv, NEW p \in Process,
         (\E a \in Starts : Start(p, a)) \/ (\E d \in Dir : RebindStart(p, d))
  PROVE  IInv'
<1> USE DEF Goto, Take, Free, files, world, history
<1>1. PICK d \in Dir, to \in Looking :
        /\ Goto(p, "off", to) /\ Take(p, d)
        /\ to = "open" => \E s \in State :
             mem' = [mem EXCEPT ![p] = s] /\ s.pending = None /\ s.receipts = {}
        /\ to = "reopen" => UNCHANGED mem
        /\ UNCHANGED <<files, readers, session, after, item, position, call, said, world, history>>
  <2>1. ASSUME NEW d \in Dir, RebindStart(p, d)
        PROVE  /\ Goto(p, "off", "reopen") /\ Take(p, d) /\ UNCHANGED mem
               /\ UNCHANGED <<files, readers, session, after, item, position, call, said, world, history>>
    BY <2>1 DEF RebindStart
  <2>2. ASSUME NEW a \in Starts, Start(p, a)
        PROVE  /\ a.dir \in Dir /\ Goto(p, "off", "open") /\ Take(p, a.dir)
               /\ \E s \in State :
                    mem' = [mem EXCEPT ![p] = s] /\ s.pending = None /\ s.receipts = {}
               /\ UNCHANGED <<files, readers, session, after, item, position, call, said, world, history>>
    <3>1. Asked(a) \subseteq Binding /\ a.dir \in Dir
      BY AskedIsBinding DEF IInv, TypeOK
    <3>2. PICK asked \in Asked(a) :
            mem' = [mem EXCEPT ![p] = [binding |-> asked, pending |-> None, receipts |-> {}]]
      BY <2>2 DEF Start
    <3> DEFINE s == [binding |-> asked, pending |-> None, receipts |-> {}]
    <3>3. s \in State /\ s.pending = None /\ s.receipts = {}
      BY <3>1, <3>2 DEF State
    <3>4. QED
      BY <2>2, <3>1, <3>2, <3>3 DEF Start
  <2>3. "open" \in Looking /\ "reopen" \in Looking
    BY DEF Looking
  <2>4. CASE \E d \in Dir : RebindStart(p, d)
    BY <2>1, <2>3, <2>4
  <2>5. CASE \E a \in Starts : Start(p, a)
    <3>1. PICK a \in Starts : Start(p, a)
      BY <2>5
    <3>2. QED
      BY <3>1, <2>2, <2>3
  <2>6. QED
    BY <2>4, <2>5
<1>b. pc[p] = "off"
  BY <1>1
<1>0. /\ pc[p] = "off" /\ call[p] = "none" /\ said[p] = "nothing"
      /\ \A e \in Dir : owner[e] # p /\ p \notin readers[e]
  BY <1>b, Unlocked
<1>a. mem' \in [Process -> State \cup {None}] /\ \A q \in Process \ {p} : mem'[q] = mem[q]
  BY <1>1 DEF IInv, TypeOK, Looking
<1>2. TypeOK'
  BY <1>1, <1>a DEF IInv, TypeOK, Label, Looking
<1>3. OthersKeep(p)
  BY <1>1, <1>a DEF IInv, TypeOK, OthersKeep, Keeps
<1>4. /\ pc'[p] = to /\ dir'[p] = d
      /\ \A e \in Dir : owner'[e] = IF e = d THEN p ELSE owner[e]
      /\ to = "open" => mem'[p] \in State /\ mem'[p].pending = None /\ mem'[p].receipts = {}
  BY <1>1 DEF IInv, TypeOK
<1>5. RestInv(p)
  BY <1>0, <1>1, <1>3, <1>4, Taking
<1>6. ProcessInv(p)'
  <2>1. LockInv(p)'
    BY <1>0, <1>1, <1>4, Distinct DEF LockInv, Serving, Owning, Label, Looking, IInv, TypeOK
  <2>2. MemInv(p)'
    BY <1>0, <1>1, <1>4 DEF MemInv, Intended, Owning, Label, Looking
  <2>3. CallInv(p)'
    BY <1>0, <1>1, <1>4 DEF CallInv, Intended, Looking
  <2>4. QED
    BY <2>1, <2>2, <2>3 DEF ProcessInv
<1>7. QED
  BY <1>2, <1>5, <1>6, Together

\* The file allows the receiver or the rebind to go on: it is not there yet, or
\* nothing is pending in it.
LEMMA OpenSteps ==
  ASSUME IInv, NEW p \in Process, OpenNew(p) \/ OpenSaved(p) \/ RebindOpened(p)
  PROVE  IInv'
<1> USE DEF Goto, files, locks, locals, world, history
<1>0. /\ pc[p] \in Looking /\ pc[p] \in Owning /\ dir[p] \in Dir /\ owner[dir[p]] = p
      /\ call[p] = "none" /\ said[p] = "nothing"
      /\ pc[p] = "open" => mem[p] \in State /\ mem[p].pending = None /\ mem[p].receipts = {}
  BY DEF OpenNew, OpenSaved, RebindOpened, IInv, LockInv, MemInv, CallInv, Owning, Label, Looking, TypeOK
<1>1. PICK to \in {"create", "load", "rebind"}, s \in State :
        /\ pc' = [pc EXCEPT ![p] = to] /\ mem' = [mem EXCEPT ![p] = s] /\ s.pending = None
        /\ to = "create" => disk[dir[p]] = None /\ s.receipts = {}
        /\ to # "create" =>
             /\ disk[dir[p]] \in State /\ disk[dir[p]].pending = None
             /\ s.receipts = disk[dir[p]].receipts
        /\ UNCHANGED <<files, locks, dir, after, item, position, call, said, world, history>>
  <2>1. CASE OpenNew(p)
    <3>1. mem' = [mem EXCEPT ![p] = mem[p]]
      BY <2>1 DEF OpenNew, IInv, TypeOK
    <3>2. pc[p] = "open" /\ disk[dir[p]] = None /\ pc' = [pc EXCEPT ![p] = "create"]
      BY <2>1 DEF OpenNew
    <3>3. QED
      BY <1>0, <2>1, <3>1, <3>2 DEF OpenNew
  <2>2. CASE OpenSaved(p)
    <3> DEFINE s == Resumed(disk[dir[p]], mem[p].binding)
    <3>1. /\ disk[dir[p]] \in State /\ disk[dir[p]].pending = None
          /\ pc[p] = "open" /\ pc' = [pc EXCEPT ![p] = "load"]
      BY <2>2 DEF OpenSaved, Resumable
    <3>2. mem[p].binding \in Binding
      BY <1>0, <3>1, Fields
    <3>3. s \in State /\ s.pending = None /\ s.receipts = disk[dir[p]].receipts
      BY <3>1, <3>2, WithBinding DEF Resumed
    <3>4. mem' = [mem EXCEPT ![p] = s]
      BY <2>2 DEF OpenSaved
    <3> HIDE DEF s
    <3>5. QED
      BY <2>2, <3>1, <3>3, <3>4 DEF OpenSaved
  <2>3. CASE RebindOpened(p)
    <3> DEFINE s == [disk[dir[p]] EXCEPT !.binding.socket = server]
    <3>1. /\ disk[dir[p]] \in State /\ disk[dir[p]].pending = None /\ server \in Socket
          /\ pc' = [pc EXCEPT ![p] = "rebind"]
      BY <2>3, ReceiverAssumption DEF RebindOpened, Rebindable, IInv, TypeOK, Socket
    <3>2. s \in State /\ s.pending = None /\ s.receipts = disk[dir[p]].receipts
      BY <3>1 DEF State, Binding
    <3>3. mem' = [mem EXCEPT ![p] = s]
      BY <2>3 DEF RebindOpened
    <3> HIDE DEF s
    <3>4. QED
      BY <2>3, <3>1, <3>2, <3>3 DEF RebindOpened
  <2>4. QED
    BY <2>1, <2>2, <2>3
<1>2. TypeOK'
  BY <1>1 DEF IInv, TypeOK, Label
<1>3. OthersKeep(p)
  BY <1>1 DEF IInv, TypeOK, OthersKeep, Keeps
<1>4. RestInv(p)
  BY <1>1, <1>3, Quietly, Distinct
<1>5. pc'[p] = to /\ mem'[p] = s
  BY <1>1 DEF IInv, TypeOK
<1>6. ProcessInv(p)'
  <2>1. LockInv(p)'
    BY <1>0, <1>1, <1>5 DEF IInv, LockInv, Serving, Owning, Label
  <2>2. MemInv(p)'
    BY <1>0, <1>1, <1>5 DEF MemInv, Intended, Owning, Label, Looking
  <2>3. CallInv(p)'
    BY <1>0, <1>1, <1>5 DEF CallInv, Intended
  <2>4. QED
    BY <2>1, <2>2, <2>3 DEF ProcessInv
<1>7. QED
  BY <1>2, <1>4, <1>6, Together

\* Whatever a process was doing, it ends.
LEMMA EndSteps ==
  ASSUME IInv, NEW p \in Process,
         \/ Leave(p) \/ Joined(p) \/ Fail(p) \/ Kill(p) \/ StatusEnd(p)
         \/ OpenRefused(p) \/ RebindRefused(p)
         \/ StopRequested(p) /\ End(p)
  PROVE  IInv'
<1> USE DEF Leave, Joined, Fail, Kill, StatusEnd, OpenRefused, RebindRefused, StopRequested,
            files, world, history
<1>1. /\ End(p)
      /\ disk' = disk \/ (pc[p] = "create" /\ disk' = [disk EXCEPT ![dir[p]] = Torn])
      /\ orphans' = orphans \/ (call[p] = "running" /\ orphans' = Orphaned(p))
      /\ UNCHANGED <<durable, queued, mistold, world>>
  OBVIOUS
<1>a. TypeOK /\ 0 \in 0..Last
  BY ReceiverAssumption DEF IInv
<1>2. /\ orphans' \in [Dir -> [Seq -> Nat]]
      /\ \A d \in Dir, m \in Seq :
           \/ orphans'[d][m] = orphans[d][m]
           \/ /\ owner[d] = p
              /\ <<d, m>> \in mistold \/ (queued[d][m] + orphans'[d][m] <= 1 /\ Knows(d, m))
  <2>1. CASE orphans' = orphans
    BY <2>1, <1>a DEF TypeOK
  <2>2. CASE call[p] = "running" /\ orphans' = Orphaned(p)
    <3>1. /\ dir[p] \in Dir /\ item[p] \in Seq /\ owner[dir[p]] = p
          /\ Knows(dir[p], item[p]) /\ Intended(p)
      BY <2>2, Underway
    <3>2. \/ <<dir[p], item[p]>> \in mistold
          \/ queued[dir[p]][item[p]] = 0 /\ orphans[dir[p]][item[p]] = 0
      BY <2>2, <3>1 DEF IInv, CallInv
    <3>3. /\ orphans' \in [Dir -> [Seq -> Nat]]
          /\ orphans'[dir[p]][item[p]] = orphans[dir[p]][item[p]] + 1
          /\ \A e \in Dir, n \in Seq :
               <<e, n>> # <<dir[p], item[p]>> => orphans'[e][n] = orphans[e][n]
      BY <2>2, <3>1, <1>a, OrphanedIs
    <3>4. queued[dir[p]][item[p]] \in Nat
      BY <3>1, <1>a DEF TypeOK
    <3>5. \/ <<dir[p], item[p]>> \in mistold
          \/ queued[dir[p]][item[p]] + orphans'[dir[p]][item[p]] <= 1
      BY <3>2, <3>3, <3>4
    <3>6. ASSUME NEW d \in Dir, NEW m \in Seq, orphans'[d][m] # orphans[d][m]
          PROVE  d = dir[p] /\ m = item[p]
      BY <3>3, <3>6
    <3>7. QED
      BY <3>1, <3>3, <3>5, <3>6
  <2>3. QED
    BY <1>1, <2>1, <2>2
<1>b. disk' \in [Dir -> State \cup {None, Torn}]
  BY <1>1, <1>a DEF TypeOK
<1>3. TypeOK'
  BY <1>1, <1>a, <1>b, <1>2 DEF End, TypeOK, Label
<1>4. /\ \A q \in Process \ {p} : ProcessInv(q)'
      /\ ProcessInv(p)'
      /\ \A d \in Dir : disk'[d] = disk[d] \/ (disk[d] = None /\ disk'[d] = Torn)
  BY <1>1, <1>2, Ending
<1>5. \A d \in Dir : DirInv(d)'
  <2>1. \A d \in Dir, m \in Seq : queued'[d][m] >= queued[d][m]
    BY <1>1, <1>a DEF TypeOK
  <2>2. QED
    BY <1>1, <1>2, <1>3, <1>4, <2>1, QueueStep
<1>6. QED
  BY <1>3, <1>4, <1>5, Together DEF RestInv

\* A receiver that is asked to stop during a submission joins it.
LEMMA JoinStep ==
  ASSUME IInv, NEW p \in Process, pc[p] = "submit", call[p] # "none",
         pc' = [pc EXCEPT ![p] = "join"],
         UNCHANGED <<files, locks, locals, world, history>>
  PROVE  IInv'
<1> USE DEF files, locks, locals, world, history
<1>1. TypeOK'
  BY DEF IInv, TypeOK, Label
<1>2. OthersKeep(p)
  BY DEF IInv, TypeOK, OthersKeep, Keeps
<1>3. RestInv(p)
  BY <1>2, Quietly DEF Looking
<1>a. pc'[p] = "join"
  BY DEF IInv, TypeOK
<1>4. ProcessInv(p)'
  <2>1. LockInv(p)'
    BY <1>a DEF IInv, LockInv, Serving, Owning, Label
  <2>2. MemInv(p)'
    BY <1>a DEF IInv, MemInv, Intended, Owning, Label, Looking
  <2>3. CallInv(p)'
    BY <1>a DEF IInv, CallInv, Intended, Outcome
  <2>4. QED
    BY <2>1, <2>2, <2>3 DEF ProcessInv
<1>5. QED
  BY <1>1, <1>3, <1>4, Together

\* A stop request ends the process or makes it join its submission.
LEMMA StopStep ==
  ASSUME IInv, NEW p \in Process, StopRequested(p)
  PROVE  IInv'
BY EndSteps, JoinStep DEF StopRequested

\* status takes the lock shared if no receiver has it, and gives it back when it has
\* read the file.
LEMMA StatusSteps ==
  ASSUME IInv, NEW p \in Process, StatusRead(p) \/ \E d \in Dir : StatusStart(p, d)
  PROVE  IInv'
<1> USE DEF files, locks, world, history
<1>1. CASE \E d \in Dir : StatusStart(p, d)
  <2>1. PICK d \in Dir : StatusStart(p, d)
    BY <1>1
  <2> USE <2>1 DEF StatusStart, Goto
  <2>d. pc[p] = "off"
    OBVIOUS
  <2>0. /\ pc[p] = "off" /\ call[p] = "none" /\ said[p] = "nothing"
        /\ \A e \in Dir : owner[e] # p /\ p \notin readers[e]
    BY <2>d, Unlocked
  <2>2. TypeOK'
    BY DEF IInv, TypeOK, Label
  <2>a. \A e \in Dir : readers'[e] = readers[e] \cup IF e = d /\ owner[d] = None THEN {p} ELSE {}
    BY DEF IInv, TypeOK
  <2>b. ASSUME NEW e \in Dir, Idle(e) PROVE Idle(e)'
    BY <2>b, <2>0 DEF Idle, IInv, TypeOK
  <2>3. \A q \in Process \ {p} : Untouched(q)
    BY <2>a, <2>b DEF Untouched, Followed, Keeps, IInv, TypeOK, LockInv
  <2>4. \A q \in Process \ {p} : ProcessInv(q)'
    BY <2>3, Frame DEF IInv, ProcessInv
  <2>5. \A e \in Dir : DirInv(e)'
    BY DEF IInv, DirInv, Knows
  <2>6. pc'[p] = "status" /\ dir'[p] = d /\ disk[d] \in State
    BY DEF IInv, TypeOK
  <2>7. ProcessInv(p)'
    BY <2>0, <2>6, <2>a
    DEF IInv, TypeOK, ProcessInv, LockInv, MemInv, CallInv, Serving, Intended, Owning, Label, Looking
  <2>8. QED
    BY <2>2, <2>4, <2>5, <2>7, Together DEF RestInv
<1>2. CASE StatusRead(p)
  <2> USE <1>2 DEF StatusRead, Goto
  <2>0. /\ pc[p] = "status" /\ call[p] = "none" /\ dir[p] \in Dir /\ disk[dir[p]] \in State
        /\ \A e \in Dir : owner[e] # p
        /\ \A e \in Dir : p \in readers[e] => e = dir[p] /\ owner[e] = None
    <3>1. pc[p] = "status"
      OBVIOUS
    <3>2. call[p] = "none" /\ \A e \in Dir : owner[e] # p
      BY <3>1, Unlocked
    <3>3. LockInv(p)
      BY DEF IInv
    <3>4. QED
      BY <3>1, <3>2, <3>3 DEF LockInv
  <2>1. /\ pc'[p] = "reported"
        /\ said'[p] = IF disk[dir[p]].pending = None THEN "nothing" ELSE Judged(p)
    BY DEF IInv, TypeOK
  <2>2. TypeOK'
    BY <2>0 DEF Judged, IInv, TypeOK, Label
  <2>a. \A e \in Dir : readers'[e] = readers[e] \ {p}
    BY <2>0 DEF IInv, TypeOK
  <2>b. ASSUME NEW e \in Dir, Idle(e) PROVE Idle(e)'
    BY <2>b, <2>0 DEF Idle, IInv, TypeOK
  <2>3. \A q \in Process \ {p} : Untouched(q)
    BY <2>a, <2>b DEF Untouched, Followed, Keeps, IInv, TypeOK, LockInv
  <2>4. \A q \in Process \ {p} : ProcessInv(q)'
    BY <2>3, Frame DEF IInv, ProcessInv
  <2>5. \A e \in Dir : DirInv(e)'
    BY DEF IInv, DirInv, Knows
  <2>6. said'[p] = "unknown" => owner[dir[p]] = None /\ disk[dir[p]].pending # None
    BY <2>0, <2>1 DEF Judged
  <2>7. ProcessInv(p)'
    BY <2>0, <2>1, <2>6, <2>a
    DEF ProcessInv, LockInv, MemInv, CallInv, Serving, Intended, Owning, Idle
  <2>8. QED
    BY <2>2, <2>4, <2>5, <2>7, Together DEF RestInv
<1>3. QED
  BY <1>1, <1>2

-----------------------------------------------------------------------------
(* The world.                                                              *)

\* No part of the invariant but the types speaks of servers and completed messages.
LEMMA WorldSteps ==
  ASSUME IInv, ServerRestarts \/ \E m \in Seq : Complete(m)
  PROVE  IInv'
<1> USE DEF ServerRestarts, Complete, files, locks, locals, history
<1>1. TypeOK'
  BY ReceiverAssumption DEF IInv, TypeOK
<1>2. \A p \in Process : LockInv(p)' /\ MemInv(p)' /\ CallInv(p)'
  BY DEF IInv, LockInv, MemInv, CallInv, Serving, Intended, Idle
<1>3. \A d \in Dir : DirInv(d)'
  BY DEF IInv, DirInv, Knows
<1>4. QED
  BY <1>1, <1>2, <1>3 DEF IInv

\* After a power loss nobody runs, and both files are one of the former two, each of
\* which knew of what is in the queue.
LEMMA PowerLossStep ==
  ASSUME IInv, PowerLoss
  PROVE  IInv'
<1> USE DEF PowerLoss, world
<1>1. TypeOK'
  BY ReceiverAssumption DEF IInv, TypeOK, Label
<1>2. \A p \in Process : LockInv(p)' /\ MemInv(p)' /\ CallInv(p)'
  BY Distinct DEF LockInv, MemInv, CallInv, Serving, Intended, Owning
<1>3. ASSUME NEW d \in Dir PROVE DirInv(d)'
  <2>1. \/ disk'[d] = disk[d] /\ durable'[d] = disk[d]
        \/ disk'[d] = durable[d] /\ durable'[d] = durable[d]
    OBVIOUS
  <2>2. /\ disk'[d] \in State => \A m \in disk'[d].receipts : queued'[d][m] > 0
        /\ \A m \in Seq :
             <<d, m>> \notin mistold /\ queued[d][m] > 0 =>
               disk'[d] \in State /\ (m \in disk'[d].receipts \/ disk'[d].pending = m)
    BY <2>1 DEF IInv, DirInv, Knows
  <2>3. /\ durable'[d] = disk'[d] /\ UNCHANGED <<queued, mistold>>
        /\ \A m \in Seq : <<d, m>> \notin mistold => queued[d][m] <= 1
    BY DEF IInv, DirInv, TypeOK
  <2>4. \A m \in Seq : orphans'[d][m] = 0 /\ queued[d][m] \in Nat
    BY DEF IInv, TypeOK
  <2>5. QED
    BY <2>2, <2>3, <2>4 DEF DirInv, Knows
<1>4. QED
  BY <1>1, <1>2, <1>3 DEF IInv

-----------------------------------------------------------------------------
(* The invariant and what it implies.                                      *)

\* At the start nothing is saved, held or queued.
LEMMA InitInv == Init => IInv
<1> SUFFICES ASSUME Init PROVE IInv
  OBVIOUS
<1>1. TypeOK
  <2>1. queued \in [Dir -> [Seq -> Nat]] /\ orphans \in [Dir -> [Seq -> Nat]]
    BY DEF Init
  <2>2. 0 \in 0..Last /\ 0 \in 0..MaxDrops /\ 1 \in 1..MaxServer
    BY ReceiverAssumption
  <2>3. QED
    BY <2>1, <2>2 DEF Init, TypeOK, Label
<1>2. \A p \in Process : LockInv(p) /\ MemInv(p) /\ CallInv(p)
  BY Distinct DEF Init, LockInv, MemInv, CallInv, Serving, Intended, Owning
<1>3. \A d \in Dir : DirInv(d)
  BY Distinct DEF Init, DirInv
<1>4. QED
  BY <1>1, <1>2, <1>3 DEF Init, IInv

\* Every step keeps the invariant.
LEMMA StepInv == IInv /\ [Next]_vars => IInv'
<1> SUFFICES ASSUME IInv, [Next]_vars PROVE IInv'
  OBVIOUS
<1>1. CASE UNCHANGED vars
  BY <1>1
  DEF vars, IInv, TypeOK, LockInv, MemInv, CallInv, DirInv, Serving, Intended, Idle, Knows
<1>2. ASSUME NEW p \in Process, Receive(p) PROVE IInv'
  BY <1>2, StreamSteps, CheckSteps, ReadEventStep, CreateStep, LoadSteps, SyncStep, IntendStep,
     ReachStep, ReturnStep, RecordStep, OpenSteps, EndSteps
  DEF Receive
<1>3. ASSUME NEW p \in Process,
             \/ StopRequested(p) \/ Fail(p) \/ Kill(p) \/ RebindOpened(p) \/ RebindRefused(p)
             \/ RebindFinish(p) \/ StatusRead(p) \/ StatusEnd(p)
      PROVE  IInv'
  BY <1>3, StopStep, EndSteps, OpenSteps, LoadSteps, StatusSteps
<1>4. ASSUME NEW p \in Process, NEW a \in Starts, Start(p, a) PROVE IInv'
  BY <1>4, TakeSteps
<1>5. ASSUME NEW p \in Process, NEW d \in Dir, RebindStart(p, d) \/ StatusStart(p, d) PROVE IInv'
  BY <1>5, TakeSteps, StatusSteps
<1>6. ASSUME NEW d \in Dir, NEW m \in Seq, OrphanQueues(d, m) PROVE IInv'
  BY <1>6, OrphanStep
<1>7. CASE PowerLoss \/ ServerRestarts \/ \E m \in Seq : Complete(m)
  BY <1>7, PowerLossStep, WorldSteps
<1>8. QED
  BY <1>1, <1>2, <1>3, <1>4, <1>5, <1>6, <1>7 DEF Next

\* The inductive invariant holds of every receiver, whatever crashes, power losses,
\* restarts, rebinds and stop requests it meets.
THEOREM Inductive == Spec => []IInv
BY InitInv, StepInv, PTL DEF Spec

\* Every state is well typed.
THEOREM TypeCorrect == Spec => []TypeOK
<1>1. IInv => TypeOK
  BY DEF IInv
<1>2. QED
  BY <1>1, Inductive, PTL

\* No message is queued twice by a directory, though its receiver may be killed at
\* any step and its file be taken back by a power loss, but for one whose codex
\* command ran and was told as not_submitted.
THEOREM NotifiesOnce == Spec => []NotifiedOnce
<1>1. IInv => NotifiedOnce
  <2>1. ASSUME IInv, NEW d \in Dir, NEW m \in Seq, <<d, m>> \notin mistold
        PROVE  queued[d][m] <= 1
    <3>1. queued[d][m] + orphans[d][m] <= 1 /\ queued[d][m] \in Nat /\ orphans[d][m] \in Nat
      BY <2>1 DEF IInv, DirInv, TypeOK
    <3>2. QED
      BY <3>1
  <2>2. QED
    BY <2>1 DEF NotifiedOnce
<1>2. QED
  BY <1>1, Inductive, PTL

\* Both versions of the file know of every notice that is in the queue or may still
\* come there, with the same exception.
THEOREM LedgerIsComplete == Spec => []LedgerKnows
<1>1. IInv => LedgerKnows
  BY DEF IInv, DirInv, LedgerKnows
<1>2. QED
  BY <1>1, Inductive, PTL

\* No receipt is of a notice that was not queued.
THEOREM LedgerIsTrue == Spec => []ReceiptsAreTrue
<1>1. IInv => ReceiptsAreTrue
  BY DEF IInv, DirInv, ReceiptsAreTrue
<1>2. QED
  BY <1>1, Inductive, PTL

\* The calls of running receivers to one session never overlap, whichever directories
\* they are of.
THEOREM SubmitsAlone == Spec => []OneSubmission
<1>1. IInv => OneSubmission
  <2>1. ASSUME IInv, NEW p \in Process, call[p] # "none" PROVE session = p
    <3>1. pc[p] \in {"submit", "join"} /\ LockInv(p)
      BY <2>1, Underway DEF IInv
    <3>2. QED
      BY <3>1 DEF LockInv, Serving
  <2>2. QED
    BY <2>1 DEF OneSubmission
<1>2. QED
  BY <1>1, Inductive, PTL

\* What status has called unknown stays pending, and no process does more with its
\* directory than look at the file.
THEOREM UnknownStays == Spec => []UnknownIsFinal
<1>1. IInv => UnknownIsFinal
  BY DEF IInv, LockInv, UnknownIsFinal
<1>2. QED
  BY <1>1, Inductive, PTL

\* Only a sync and a power loss change what is durable, and neither forgets a receipt.
LEMMA DurableStep ==
  ASSUME IInv, [Next]_vars, NEW d \in Dir, durable[d] \in State
  PROVE  durable'[d] \in State /\ durable[d].receipts \subseteq durable'[d].receipts
<1>1. disk[d] \in State /\ durable[d].receipts \subseteq disk[d].receipts
  BY DEF IInv, DirInv
<1>2. durable'[d] \in {durable[d], disk[d]}
  <2>1. CASE UNCHANGED durable
    BY <2>1
  <2>2. CASE PowerLoss
    BY <2>2 DEF PowerLoss
  <2>3. ASSUME NEW p \in Process, Sync(p) PROVE durable'[d] \in {durable[d], disk[d]}
    BY <2>3 DEF Sync, IInv, TypeOK
  <2>4. ASSUME NEW p \in Process, Receive(p), ~Sync(p) PROVE UNCHANGED durable
    BY <2>4
    DEF Receive, files, OpenNew, OpenSaved, OpenRefused, Create, Load, Probe, Connect, ReadEvent, CheckCurrent, Disconnect,
        Reconnect, Intend, Submit, Reach, Return, Record, Leave, Joined
  <2>5. ASSUME NEW p \in Process,
               \/ StopRequested(p) \/ Fail(p) \/ Kill(p) \/ RebindOpened(p) \/ RebindRefused(p)
               \/ RebindFinish(p) \/ StatusRead(p) \/ StatusEnd(p) \/ \E a \in Starts : Start(p, a)
               \/ \E e \in Dir : RebindStart(p, e) \/ StatusStart(p, e)
        PROVE  UNCHANGED durable
    BY <2>5
    DEF files, StopRequested, Fail, Kill, RebindOpened, RebindRefused, RebindFinish, StatusRead,
        StatusEnd, Start, RebindStart, StatusStart
  <2>6. CASE \/ \E e \in Dir, m \in Seq : OrphanQueues(e, m)
             \/ ServerRestarts \/ \E m \in Seq : Complete(m)
    BY <2>6 DEF files, OrphanQueues, ServerRestarts, Complete
  <2>7. QED
    BY <2>1, <2>2, <2>3, <2>4, <2>5, <2>6 DEF Next, vars
<1>3. QED
  BY <1>1, <1>2

\* A receipt that is durable is never forgotten.
THEOREM ReceiptsStay == Spec => ReceiptsKept
<1>1. IInv /\ [Next]_vars =>
        [\A d \in Dir : durable[d] \in State =>
           durable'[d] \in State /\ durable[d].receipts \subseteq durable'[d].receipts]_vars
  BY DurableStep
<1>2. QED
  BY <1>1, Inductive, PTL DEF Spec, ReceiptsKept
=============================================================================
