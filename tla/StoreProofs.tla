----------------------------- MODULE StoreProofs -----------------------------
(***************************************************************************)
(* What is proved of the mailbox file: Schema, of a command that opens it, *)
(* and WriteTurn, of a send that writes to it, each for every set of       *)
(* commands.  Both are about the writer lock of SQLite.                    *)
(*                                                                         *)
(* Schema: what a command found under the writer lock stays so until it    *)
(* gives the lock back (LockInv), since nobody else may change the file    *)
(* meanwhile; the copy it synced is then a copy of what it upgrades.       *)
(*                                                                         *)
(* WriteTurn: a step of one send is harmless to another because the turn   *)
(* it takes, hands on or gives back is free or its own (HelperInv).        *)
(***************************************************************************)
EXTENDS Store, TLAPS

\* A file of any version starts with nothing copied or upgraded.
LEMMA InitIInv == Init => IInv
BY SchemaAssumption
DEF Init, IInv, TypeOK, Version, Current, Copy, Label, Nothing, LockInv, VersionInv, Holding,
    UpgradeIsBackedUp, UpgradedOnce, CopiesAreWhole, RefusedLeavesNoCopy

\* One command at a time is past the recheck under the lock.
LEMMA OneHolder ==
  ASSUME IInv, NEW c \in Command, NEW d \in Command,
         pc[c] \in Holding, pc[d] \in Holding
  PROVE  c = d
BY DEF IInv, LockInv

-----------------------------------------------------------------------------
(* Steps that leave the file, the copies and the history alone.            *)

\* The version is read, and read again under the lock.
LEMMA CheckStep ==
  ASSUME IInv, NEW c \in Command, Check(c) \/ Begin(c)
  PROVE  IInv'
<1>1. TypeOK'
  BY DEF Check, Begin, Holder, Finished, Goto, file, copies, IInv, TypeOK, Label, Version
<1>2. LockInv'
  BY SchemaAssumption
  DEF Check, Begin, Holder, Finished, Goto, file, copies, IInv, TypeOK, Version, LockInv,
      VersionInv, Holding, Copying, Current, CopyOf
<1>3. VersionInv'
  BY DEF Check, Begin, Finished, Goto, file, copies, IInv, TypeOK, Version, VersionInv, Current
<1>4. UpgradeIsBackedUp' /\ UpgradedOnce' /\ CopiesAreWhole' /\ RefusedLeavesNoCopy'
  BY DEF Check, Begin, file, copies, IInv, UpgradeIsBackedUp, UpgradedOnce,
         CopiesAreWhole, RefusedLeavesNoCopy, Current
<1>5. QED
  BY <1>1, <1>2, <1>3, <1>4 DEF IInv

\* What passes the inspection is sound, and old if it is to be copied.
LEMMA InspectStep ==
  ASSUME IInv, NEW c \in Command, Inspect(c)
  PROVE  IInv'
<1>1. TypeOK'
  BY DEF Inspect, Goto, file, copies, IInv, TypeOK, Label
<1>2. LockInv'
  BY DEF Inspect, Passes, Goto, file, copies, IInv, TypeOK, LockInv, Holding, Copying,
         Current, CopyOf
<1>3. VersionInv'
  BY DEF Inspect, Goto, file, copies, IInv, TypeOK, VersionInv, Current
<1>4. UpgradeIsBackedUp' /\ UpgradedOnce' /\ CopiesAreWhole' /\ RefusedLeavesNoCopy'
  BY DEF Inspect, file, copies, IInv, UpgradeIsBackedUp, UpgradedOnce,
         CopiesAreWhole, RefusedLeavesNoCopy, Current
<1>5. QED
  BY <1>1, <1>2, <1>3, <1>4 DEF IInv

\* A refused or failed command gives back what it has.
LEMMA RefuseStep ==
  ASSUME IInv, NEW c \in Command, Refuse(c)
  PROVE  IInv'
<1>1. TypeOK'
  BY DEF Refuse, Unlocked, file, IInv, TypeOK, Label
<1>2. LockInv'
  BY SchemaAssumption
  DEF Refuse, Unlocked, file, IInv, TypeOK, LockInv, Holding, Copying, Current, CopyOf
<1>3. VersionInv'
  BY DEF Refuse, file, IInv, TypeOK, VersionInv, Current
<1>4. UpgradeIsBackedUp' /\ UpgradedOnce' /\ CopiesAreWhole' /\ RefusedLeavesNoCopy'
  BY DEF Refuse, file, IInv, UpgradeIsBackedUp, UpgradedOnce,
         CopiesAreWhole, RefusedLeavesNoCopy, Current
<1>5. QED
  BY <1>1, <1>2, <1>3, <1>4 DEF IInv

\* A killed command starts anew.
LEMMA KillStep ==
  ASSUME IInv, NEW c \in Command, Kill(c)
  PROVE  IInv'
<1>1. TypeOK'
  BY DEF Kill, Unlocked, file, IInv, TypeOK, Label, Nothing
<1>2. LockInv'
  BY SchemaAssumption
  DEF Kill, Unlocked, file, IInv, TypeOK, LockInv, Holding, Copying, Current, CopyOf
<1>3. VersionInv'
  BY DEF Kill, file, IInv, TypeOK, VersionInv, Current
<1>4. UpgradeIsBackedUp' /\ UpgradedOnce' /\ CopiesAreWhole' /\ RefusedLeavesNoCopy'
  BY DEF Kill, file, IInv, UpgradeIsBackedUp, UpgradedOnce,
         CopiesAreWhole, RefusedLeavesNoCopy, Current
<1>5. QED
  BY <1>1, <1>2, <1>3, <1>4 DEF IInv

-----------------------------------------------------------------------------
(* The copy.                                                               *)

\* The contents are read in two steps under the lock.
LEMMA ReadStep ==
  ASSUME IInv, NEW c \in Command, CopyFirst(c) \/ CopyRest(c)
  PROVE  IInv'
<1>1. TypeOK'
  <2>1. CASE CopyFirst(c)
    <3>1. [Nothing EXCEPT !.first = rows] = [first |-> rows, second |-> None]
      BY DEF Nothing
    <3>2. copied' \in [Command -> [first: 0..MaxRows \cup {None}, second: 0..MaxRows \cup {None}]]
      BY <2>1, <3>1 DEF CopyFirst, IInv, TypeOK
    <3>3. QED
      BY <2>1, <3>2 DEF CopyFirst, Goto, file, IInv, TypeOK, Label
  <2>2. CASE CopyRest(c)
    BY <2>2 DEF CopyRest, Goto, file, IInv, TypeOK, Label
  <2>3. QED
    BY <2>1, <2>2
<1>2. pc[c] \in Copying /\ sound /\ version \in {1, 2}
  BY DEF CopyFirst, CopyRest, Goto, IInv, TypeOK, Version, LockInv, Holding, Copying, Current
<1>3. LockInv'
  <2>1. CASE CopyFirst(c)
    BY <2>1, OneHolder
    DEF CopyFirst, Goto, file, IInv, TypeOK, LockInv, Holding, Copying, Current, CopyOf,
        Nothing
  <2>2. CASE CopyRest(c)
    BY <2>2, OneHolder
    DEF CopyRest, Goto, file, IInv, TypeOK, LockInv, Holding, Copying, Current, CopyOf,
        Nothing
  <2>3. QED
    BY <2>1, <2>2
<1>4. VersionInv'
  BY DEF CopyFirst, CopyRest, Goto, file, IInv, TypeOK, VersionInv, Current
<1>5. UpgradeIsBackedUp' /\ UpgradedOnce' /\ CopiesAreWhole'
  BY DEF CopyFirst, CopyRest, file, IInv, UpgradeIsBackedUp, UpgradedOnce, CopiesAreWhole
<1>6. RefusedLeavesNoCopy'
  <2>1. sound' /\ version' \in {1, 2}
    BY <1>2 DEF CopyFirst, CopyRest, file
  <2>2. ~(version' > 3)
    BY <2>1
  <2>3. QED
    BY <2>1, <2>2 DEF RefusedLeavesNoCopy, Current
<1>7. QED
  BY <1>1, <1>3, <1>4, <1>5, <1>6 DEF IInv

\* A complete copy is one of the file as it is.
LEMMA CompleteCopy ==
  ASSUME IInv, NEW c \in Command, pc[c] \in {"publish", "sync"}
  PROVE  /\ CopyOf(c) = [version |-> version, first |-> rows, second |-> rows]
         /\ CopyOf(c) \in Copy
         /\ sound /\ version \in {1, 2} /\ known[c] = version
BY DEF CopyOf, Copy, IInv, TypeOK, Version, LockInv, Holding, Copying, Current

\* The complete copy gets its name.
LEMMA PublishStep ==
  ASSUME IInv, NEW c \in Command, Publish(c)
  PROVE  IInv'
<1>1. pc[c] = "publish" /\ pc' = [pc EXCEPT ![c] = "sync"]
  BY DEF Publish, Goto, AfterPublish
<1>2. /\ CopyOf(c) = [version |-> version, first |-> rows, second |-> rows]
      /\ CopyOf(c) \in Copy
      /\ sound /\ version \in {1, 2}
  BY <1>1, CompleteCopy
<1>3. backups' = backups \cup {CopyOf(c)}
  BY DEF Publish
<1>4. TypeOK'
  BY <1>1, <1>2, <1>3 DEF Publish, file, IInv, TypeOK, Label
<1>5. LockInv'
  BY <1>1, <1>3, OneHolder
  DEF Publish, file, IInv, TypeOK, LockInv, Holding, Copying, Current, CopyOf
<1>6. VersionInv'
  BY <1>1 DEF Publish, file, IInv, TypeOK, VersionInv, Current
<1>7. UpgradeIsBackedUp' /\ UpgradedOnce'
  BY DEF Publish, file, IInv, UpgradeIsBackedUp, UpgradedOnce
<1>8. CopiesAreWhole' /\ RefusedLeavesNoCopy'
  BY <1>2, <1>3
  DEF Publish, file, IInv, CopiesAreWhole, RefusedLeavesNoCopy, Current
<1>9. QED
  BY <1>4, <1>5, <1>6, <1>7, <1>8 DEF IInv

\* The directories are synced before the file is changed.
LEMMA SyncStep ==
  ASSUME IInv, NEW c \in Command, SyncDirectories(c)
  PROVE  IInv'
<1>1. pc[c] = "sync" /\ pc' = [pc EXCEPT ![c] = "upgrade"]
  BY DEF SyncDirectories, Goto
<1>2. CopyOf(c) = [version |-> version, first |-> rows, second |-> rows]
  BY <1>1, CompleteCopy
<1>3. CopyOf(c) \in backups /\ synced' = synced \cup {CopyOf(c)}
  BY <1>1 DEF SyncDirectories, IInv, LockInv, Holding
<1>4. TypeOK'
  BY <1>1, <1>3 DEF SyncDirectories, file, IInv, TypeOK, Label
<1>5. LockInv'
  BY <1>1, <1>2, <1>3, OneHolder
  DEF SyncDirectories, file, IInv, TypeOK, LockInv, Holding, Copying, Current, CopyOf
<1>6. VersionInv'
  BY <1>1 DEF SyncDirectories, file, IInv, TypeOK, VersionInv, Current
<1>7. UpgradeIsBackedUp'
  BY <1>3 DEF SyncDirectories, file, IInv, UpgradeIsBackedUp
<1>8. UpgradedOnce' /\ CopiesAreWhole' /\ RefusedLeavesNoCopy'
  BY DEF SyncDirectories, file, IInv, UpgradedOnce, CopiesAreWhole,
         RefusedLeavesNoCopy, Current
<1>9. QED
  BY <1>4, <1>5, <1>6, <1>7, <1>8 DEF IInv

-----------------------------------------------------------------------------
(* The upgrade.                                                            *)

\* The transaction: the file becomes current, once, from what was copied.
LEMMA UpgradeStep ==
  ASSUME IInv, NEW c \in Command, Upgrade(c)
  PROVE  IInv'
<1>1. /\ pc[c] = "upgrade" /\ pc' = [pc EXCEPT ![c] = "open"]
      /\ version' = Current
      /\ writer = c /\ writer' = None
      /\ upgrades' = [upgrades EXCEPT ![version] = @ \cup {rows}]
      /\ UNCHANGED <<sound, rows, known, copied, pending, backups, synced>>
  BY DEF Upgrade, Goto, Unlocked, IInv, LockInv, Holding, copies
<1>2. /\ version \in 0..2 /\ sound
      /\ version # 0 => [version |-> version, first |-> rows, second |-> rows] \in synced
  BY <1>1 DEF IInv, TypeOK, Version, LockInv, Holding, Current
<1>3. \A v \in Version : upgrades[v] = {}
  BY <1>2 DEF IInv, VersionInv, Current
<1>4. \A v \in Version : upgrades'[v] = IF v = version THEN {rows} ELSE {}
  BY <1>1, <1>3 DEF IInv, TypeOK
<1>5. TypeOK'
  BY <1>1, <1>4 DEF IInv, TypeOK, Version, Current, Label
<1>6. LockInv'
  BY <1>1, OneHolder DEF IInv, TypeOK, LockInv, Holding
<1>7. VersionInv'
  BY <1>1 DEF IInv, TypeOK, VersionInv, Current
<1>8. UpgradeIsBackedUp'
  BY <1>1, <1>2, <1>4 DEF UpgradeIsBackedUp, Version
<1>9. UpgradedOnce'
  BY <1>4 DEF UpgradedOnce
<1>10. CopiesAreWhole' /\ RefusedLeavesNoCopy'
  BY <1>1, <1>2 DEF IInv, CopiesAreWhole, RefusedLeavesNoCopy, Current
<1>11. QED
  BY <1>5, <1>6, <1>7, <1>8, <1>9, <1>10 DEF IInv

-----------------------------------------------------------------------------
(* Everybody else.                                                         *)

\* A power loss takes back renames, and every command with its lock.
LEMMA PowerLossStep ==
  ASSUME IInv, PowerLoss
  PROVE  IInv'
<1>1. synced \subseteq synced' /\ synced' = backups' /\ backups' \subseteq backups
  BY DEF PowerLoss
<1>2. TypeOK'
  BY <1>1 DEF PowerLoss, file, IInv, TypeOK, Label, Nothing
<1>3. LockInv' /\ VersionInv'
  BY DEF PowerLoss, file, IInv, LockInv, VersionInv, Holding, Current
<1>4. UpgradeIsBackedUp'
  BY <1>1 DEF PowerLoss, IInv, UpgradeIsBackedUp
<1>5. UpgradedOnce' /\ CopiesAreWhole' /\ RefusedLeavesNoCopy'
  BY <1>1
  DEF PowerLoss, file, IInv, UpgradedOnce, CopiesAreWhole, RefusedLeavesNoCopy, Current
<1>6. QED
  BY <1>2, <1>3, <1>4, <1>5 DEF IInv

\* An older release writes only while nobody holds the lock.
LEMMA OldWritesStep ==
  ASSUME IInv, OldWrites
  PROVE  IInv'
<1>1. \A c \in Command : pc[c] \notin Holding
  BY SchemaAssumption DEF OldWrites, IInv, LockInv
<1>2. TypeOK'
  BY SchemaAssumption DEF OldWrites, copies, IInv, TypeOK
<1>3. LockInv' /\ VersionInv'
  BY <1>1 DEF OldWrites, copies, IInv, LockInv, VersionInv, Current
<1>4. UpgradeIsBackedUp' /\ UpgradedOnce' /\ CopiesAreWhole' /\ RefusedLeavesNoCopy'
  BY DEF OldWrites, copies, IInv, UpgradeIsBackedUp, UpgradedOnce, CopiesAreWhole,
         RefusedLeavesNoCopy, Current
<1>5. QED
  BY <1>2, <1>3, <1>4 DEF IInv

\* A stutter changes nothing.
LEMMA StutterStep ==
  ASSUME IInv, UNCHANGED vars
  PROVE  IInv'
<1>1. TypeOK' /\ VersionInv'
  BY DEF vars, IInv, TypeOK, VersionInv
<1>2. LockInv'
  BY DEF vars, IInv, LockInv, CopyOf
<1>3. UpgradeIsBackedUp' /\ UpgradedOnce' /\ CopiesAreWhole' /\ RefusedLeavesNoCopy'
  BY DEF vars, IInv, UpgradeIsBackedUp, UpgradedOnce, CopiesAreWhole, RefusedLeavesNoCopy
<1>4. QED
  BY <1>1, <1>2, <1>3 DEF IInv

\* Every step preserves the invariant.
LEMMA StepIInv == IInv /\ [Next]_vars => IInv'
<1> SUFFICES ASSUME IInv, [Next]_vars PROVE IInv'
  OBVIOUS
<1>1. ASSUME NEW c \in Command, Open(c) PROVE IInv'
  BY <1>1, CheckStep, InspectStep, RefuseStep, ReadStep, PublishStep, SyncStep, UpgradeStep
  DEF Open, InspectFails
<1>2. ASSUME NEW c \in Command, Fail(c) \/ Kill(c) PROVE IInv'
  BY <1>2, RefuseStep, KillStep DEF Fail
<1>3. QED
  BY <1>1, <1>2, OldWritesStep, PowerLossStep, StutterStep DEF Next

-----------------------------------------------------------------------------
\* Opening a file that nobody sends to is a behaviour of Schema.
LEMMA OpeningIsSchema == OpenSpec => Spec
<1>1. OpenInit => Init
  BY DEF OpenInit
<1>2. [OpenNext]_all => [Next]_vars
  BY DEF OpenNext, all
<1>3. QED
  BY <1>1, <1>2, PTL DEF OpenSpec, Spec

\* The invariant of opening a mailbox: what the writer lock protects.
THEOREM Inductive == OpenSpec => []IInv
BY OpeningIsSchema, InitIInv, StepIInv, PTL DEF Spec

\* An old file is upgraded from contents of which there is a copy that no
\* power loss reaches (schema::backup, then the transaction of prepare).
THEOREM BackedUp == OpenSpec => []UpgradeIsBackedUp
<1>1. IInv => UpgradeIsBackedUp
  BY DEF IInv
<1>2. QED
  BY <1>1, Inductive, PTL

\* Commands that find an old file together upgrade it once (the version is
\* read again under the lock).
THEOREM Once == OpenSpec => []UpgradedOnce
<1>1. IInv => UpgradedOnce
  BY DEF IInv
<1>2. QED
  BY <1>1, Inductive, PTL

\* A published copy shows the file at one moment, though older releases
\* write to it (the copy is made under the writer lock).
THEOREM WholeCopies == OpenSpec => []CopiesAreWhole
<1>1. IInv => CopiesAreWhole
  BY DEF IInv
<1>2. QED
  BY <1>1, Inductive, PTL

\* Refused files leave no copies behind (inspection comes before the copy).
THEOREM NoCopyOfRefused == OpenSpec => []RefusedLeavesNoCopy
<1>1. IInv => RefusedLeavesNoCopy
  BY DEF IInv
<1>2. QED
  BY <1>1, Inductive, PTL

-----------------------------------------------------------------------------
(* Sends that wait for a turn.                                             *)

USE SendersAssumption DEF Turn!Distinct

\* Freeing a lock frees it of one holder and of no other.
LEMMA FreedLock ==
  ASSUME NEW lock, NEW s
  PROVE  /\ Turn!Freed(lock, s) \in {lock, None}
         /\ lock # s => Turn!Freed(lock, s) = lock
         /\ lock = s => Turn!Freed(lock, s) = None
BY DEF Turn!Freed

\* Before any send nobody holds anything.
LEMMA TurnInit == Turn!Init => Turn!IInv
BY DEF Turn!Init, Turn!IInv, Turn!TypeOK, Turn!Mode, Turn!AttemptInv,
    Turn!HelperInv, Turn!SavedOnce, Turn!TurnOnlyUntilSaved, Turn!HeirsHoldTheTurn

\* Every way a process ends.
LEMMA EndStep ==
  ASSUME Turn!IInv, NEW s \in Sender, Turn!End(s)
  PROVE  Turn!IInv'
BY FreedLock
DEF Turn!End, Turn!IInv, Turn!TypeOK, Turn!Mode, Turn!AttemptInv, Turn!HelperInv,
    Turn!SavedOnce, Turn!TurnOnlyUntilSaved, Turn!HeirsHoldTheTurn

\* A send that tries to write, at once or with a turn.
LEMMA AttemptStep ==
  ASSUME Turn!IInv, NEW s \in Sender,
         \/ Turn!Start(s) \/ Turn!Upgrade(s) \/ Turn!Begin(s) \/ Turn!WriteLater(s)
         \/ Turn!Queue(s) \/ Turn!QueueUnavailable(s)
  PROVE  Turn!IInv'
<1>1. CASE Turn!Start(s)
  BY <1>1
  DEF Turn!Start, Turn!Goto, Turn!SetMode, Turn!IInv, Turn!TypeOK, Turn!Mode,
      Turn!AttemptInv, Turn!HelperInv, Turn!SavedOnce, Turn!TurnOnlyUntilSaved,
      Turn!HeirsHoldTheTurn
<1>2. CASE Turn!Upgrade(s)
  BY <1>2
  DEF Turn!Upgrade, Turn!SetMode, Turn!IInv, Turn!TypeOK, Turn!Mode,
      Turn!AttemptInv, Turn!HelperInv, Turn!SavedOnce, Turn!TurnOnlyUntilSaved,
      Turn!HeirsHoldTheTurn
<1>3. CASE Turn!Begin(s)
  BY <1>3
  DEF Turn!Begin, Turn!Goto, Turn!SetMode, Turn!IInv, Turn!TypeOK, Turn!Mode,
      Turn!AttemptInv, Turn!HelperInv, Turn!SavedOnce, Turn!TurnOnlyUntilSaved,
      Turn!HeirsHoldTheTurn
<1>4. CASE Turn!WriteLater(s)
  BY <1>4
  DEF Turn!WriteLater, Turn!Goto, Turn!IInv, Turn!TypeOK, Turn!Mode,
      Turn!AttemptInv, Turn!HelperInv, Turn!SavedOnce, Turn!TurnOnlyUntilSaved,
      Turn!HeirsHoldTheTurn
<1>5. CASE Turn!Queue(s)
  BY <1>5
  DEF Turn!Queue, Turn!BusyError, Turn!Retriable, Turn!IInv, Turn!TypeOK, Turn!Mode,
      Turn!AttemptInv, Turn!HelperInv, Turn!SavedOnce, Turn!TurnOnlyUntilSaved,
      Turn!HeirsHoldTheTurn
<1>6. CASE Turn!QueueUnavailable(s)
  BY <1>6
  DEF Turn!QueueUnavailable, Turn!BusyError, Turn!Retriable, Turn!SetMode,
      Turn!IInv, Turn!TypeOK, Turn!Mode, Turn!AttemptInv, Turn!HelperInv,
      Turn!SavedOnce, Turn!TurnOnlyUntilSaved, Turn!HeirsHoldTheTurn
<1>7. QED
  BY <1>1, <1>2, <1>3, <1>4, <1>5, <1>6

\* The transaction commits, with the message inserted or found.
LEMMA CommitStep ==
  ASSUME Turn!IInv, NEW s \in Sender, Turn!Commit(s)
  PROVE  Turn!IInv'
<1>1. PICK inserted \in {0, 1} : saved' = [saved EXCEPT ![s] = @ + inserted]
  BY DEF Turn!Commit
<1>2. saved[s] = 0 /\ saved'[s] \in {0, 1} /\ \A t \in Sender \ {s} : saved'[t] = saved[t]
  BY <1>1 DEF Turn!Commit, Turn!Goto, Turn!IInv, Turn!TypeOK, Turn!AttemptInv
<1>3. Turn!TypeOK'
  BY <1>1 DEF Turn!Commit, Turn!Goto, Turn!IInv, Turn!TypeOK, Turn!Mode
<1>4. Turn!AttemptInv' /\ Turn!SavedOnce'
  BY <1>2 DEF Turn!Commit, Turn!Goto, Turn!IInv, Turn!TypeOK, Turn!AttemptInv,
      Turn!SavedOnce
<1>5. Turn!HelperInv' /\ Turn!TurnOnlyUntilSaved' /\ Turn!HeirsHoldTheTurn'
  BY DEF Turn!Commit, Turn!Goto, Turn!IInv, Turn!TypeOK, Turn!HelperInv,
      Turn!TurnOnlyUntilSaved, Turn!HeirsHoldTheTurn
<1>6. QED
  BY <1>3, <1>4, <1>5 DEF Turn!IInv

\* The turn given back before the message is notified.
LEMMA ReleaseStep ==
  ASSUME Turn!IInv, NEW s \in Sender, Turn!Release(s)
  PROVE  Turn!IInv'
<1>1. turn' \in {turn, None} /\ (turn = s => turn' = None \/ helper[s] = "granted")
  BY FreedLock DEF Turn!Release, Turn!Goto, Turn!TurnAfterSave, Turn!IInv,
      Turn!TypeOK, Turn!HelperInv
<1>2. \A t \in Sender \ {s} : turn = t => turn' = t
  BY FreedLock DEF Turn!Release, Turn!TurnAfterSave
<1>3. helper[s] = "granted" => turn' = turn
  BY DEF Turn!Release, Turn!TurnAfterSave
<1>4. QED
  BY <1>1, <1>2, <1>3
  DEF Turn!Release, Turn!Goto, Turn!IInv, Turn!TypeOK, Turn!Mode, Turn!AttemptInv,
      Turn!HelperInv, Turn!SavedOnce, Turn!TurnOnlyUntilSaved, Turn!HeirsHoldTheTurn

\* The helper obtains the lock and passes it on, or drops it.
LEMMA HelperStep ==
  ASSUME Turn!IInv, NEW s \in Sender, Turn!Helper(s)
  PROVE  Turn!IInv'
<1>1. CASE Turn!HelperLocks(s)
  BY <1>1
  DEF Turn!HelperLocks, Turn!IInv, Turn!TypeOK, Turn!Mode, Turn!AttemptInv,
      Turn!HelperInv, Turn!SavedOnce, Turn!TurnOnlyUntilSaved, Turn!HeirsHoldTheTurn
<1>2. CASE Turn!HelperSends(s)
  BY <1>2
  DEF Turn!HelperSends, Turn!TurnAfterSend, Turn!IInv, Turn!TypeOK, Turn!Mode,
      Turn!AttemptInv, Turn!HelperInv, Turn!SavedOnce, Turn!TurnOnlyUntilSaved,
      Turn!HeirsHoldTheTurn
<1>3. QED
  BY <1>1, <1>2 DEF Turn!Helper

\* The second attempt, with the turn or without.
LEMMA SecondStep ==
  ASSUME Turn!IInv, NEW s \in Sender, Turn!Receive(s) \/ Turn!GiveUp(s)
  PROVE  Turn!IInv'
<1>1. CASE Turn!Receive(s)
  BY <1>1
  DEF Turn!Receive, Turn!SecondAttempt, Turn!ModeOf, Turn!Goto, Turn!SetMode,
      Turn!IInv, Turn!TypeOK, Turn!Mode, Turn!AttemptInv, Turn!HelperInv,
      Turn!SavedOnce, Turn!TurnOnlyUntilSaved, Turn!HeirsHoldTheTurn
<1>2. CASE Turn!GiveUp(s)
  BY <1>2, FreedLock
  DEF Turn!GiveUp, Turn!SecondAttempt, Turn!ModeOf, Turn!Goto, Turn!SetMode,
      Turn!IInv, Turn!TypeOK, Turn!Mode, Turn!AttemptInv, Turn!HelperInv,
      Turn!SavedOnce, Turn!TurnOnlyUntilSaved, Turn!HeirsHoldTheTurn
<1>3. QED
  BY <1>1, <1>2

\* An interrupt is only noted, and others write without a turn.
LEMMA OutsideStep ==
  ASSUME Turn!IInv, (\E s \in Sender : Turn!Interrupt(s)) \/ Turn!OtherWrites \/ UNCHANGED Turn!vars
  PROVE  Turn!IInv'
<1>1. ASSUME NEW s \in Sender, Turn!Interrupt(s) PROVE Turn!IInv'
  BY <1>1
  DEF Turn!Interrupt, Turn!IInv, Turn!TypeOK, Turn!Mode, Turn!AttemptInv,
      Turn!HelperInv, Turn!SavedOnce, Turn!TurnOnlyUntilSaved, Turn!HeirsHoldTheTurn
<1>2. CASE Turn!OtherWrites
  BY <1>2
  DEF Turn!OtherWrites, Turn!IInv, Turn!TypeOK, Turn!Mode, Turn!AttemptInv,
      Turn!HelperInv, Turn!SavedOnce, Turn!TurnOnlyUntilSaved, Turn!HeirsHoldTheTurn
<1>3. CASE UNCHANGED Turn!vars
  BY <1>3
  DEF Turn!vars, Turn!IInv, Turn!TypeOK, Turn!Mode, Turn!AttemptInv, Turn!HelperInv,
      Turn!SavedOnce, Turn!TurnOnlyUntilSaved, Turn!HeirsHoldTheTurn
<1>4. QED
  BY <1>1, <1>2, <1>3

\* Every step preserves the invariant.
LEMMA TurnStep == Turn!IInv /\ [Turn!Next]_Turn!vars => Turn!IInv'
<1> SUFFICES ASSUME Turn!IInv, [Turn!Next]_Turn!vars PROVE Turn!IInv'
  OBVIOUS
<1>1. ASSUME NEW s \in Sender, Turn!Start(s) \/ Turn!Stop(s) PROVE Turn!IInv'
  BY <1>1, AttemptStep, EndStep DEF Turn!Stop
<1>2. ASSUME NEW s \in Sender, Turn!Send(s) PROVE Turn!IInv'
  BY <1>2, AttemptStep, CommitStep, ReleaseStep, SecondStep, EndStep
  DEF Turn!Send, Turn!Finish, Turn!Fails, Turn!InterruptNoticed
<1>3. ASSUME NEW s \in Sender, Turn!Helper(s) PROVE Turn!IInv'
  BY <1>3, HelperStep
<1>4. QED
  BY <1>1, <1>2, <1>3, OutsideStep DEF Turn!Next

\* Sends of a file that is open are a behaviour of WriteTurn.
LEMMA SendsAreTurns == SendSpec => Turn!Spec
<1>1. SendInit => Turn!Init
  BY DEF SendInit
<1>2. [SendNext]_all => [Turn!Next]_Turn!vars
  BY DEF SendNext, all, sends, Turn!vars
<1>3. QED
  BY <1>1, <1>2, PTL DEF SendSpec, Turn!Spec

\* The invariant of the contended send: when it may have saved, what its mode
\* says of its past, and where the turn's open file is.
THEOREM TurnInductive == SendSpec => []Turn!IInv
BY SendsAreTurns, TurnInit, TurnStep, PTL DEF Turn!Spec

\* A send inserts one message at most, however it is queued and retried
\* (the two attempts of commands/mail.rs).
THEOREM SavesOnce == SendSpec => []SavedOnce
<1>1. Turn!IInv => SavedOnce
  BY DEF Turn!IInv, SavedOnce
<1>2. QED
  BY <1>1, TurnInductive, PTL

\* Nobody keeps the turn past the save it was taken for, a helper that gets
\* it late excepted until it drops it (write_turn::acquire).
THEOREM TurnIsGivenBack == SendSpec => []TurnOnlyUntilSaved
<1>1. Turn!IInv => TurnOnlyUntilSaved
  BY DEF Turn!IInv, TurnOnlyUntilSaved
<1>2. QED
  BY <1>1, TurnInductive, PTL

\* Whoever polls the writer lock as the turn's heir holds the turn
\* (write_turn::queued, wait_for_lock of the store).
THEOREM OneHeir == SendSpec => []HeirsHoldTheTurn
<1>1. Turn!IInv => HeirsHoldTheTurn
  BY DEF Turn!IInv, HeirsHoldTheTurn
<1>2. QED
  BY <1>1, TurnInductive, PTL
=============================================================================
