-------------------------------- MODULE Schema --------------------------------
(***************************************************************************)
(* Opening a mailbox: every command brings the file to schema 3 first.     *)
(*                                                                         *)
(* A current file is recognised in one read.  Anything else is changed     *)
(* under SQLite's writer lock: the version is read again, an old file is   *)
(* inspected and copied, and one transaction upgrades it.  A copy is built *)
(* under a pending name, renamed, and made durable by syncing directories; *)
(* a power loss before that may lose it.  The transaction itself is atomic *)
(* and durable, as SQLite makes it.                                        *)
(*                                                                         *)
(* The file's rows are a revision number that processes of an older        *)
(* release advance.  A copy reads them in two steps.                       *)
(***************************************************************************)
EXTENDS Naturals

CONSTANTS
  Command,  \* htalk processes that open the mailbox
  MaxRows,  \* bound: the revisions older processes reach
  None      \* nobody, or a value not read yet

Current == 3

\* 0 is a file without a version, 4 any unknown one.
Version == 0..4

Copy == [version: Version, first: 0..MaxRows, second: 0..MaxRows]

ASSUME SchemaAssumption == MaxRows \in Nat /\ None \notin Command \cup (0..MaxRows)

VARIABLES
  version,    \* the file's user_version
  sound,      \* whether it has the tables its version needs, and no damage
  rows,       \* its contents
  writer,     \* who holds the writer lock
  pc,         \* what each command does next
  known,      \* the version it read under the lock
  copied,     \* what it has read into its pending copy
  pending,    \* commands whose pending copy exists
  backups,    \* published copies
  synced,     \* those a power loss cannot lose
  upgrades    \* history: the contents each upgrade was made from

vars == <<version, sound, rows, writer, pc, known, copied, pending, backups, synced, upgrades>>
file == <<version, sound, rows>>
copies == <<copied, pending, backups, synced>>

Label ==
  {"check", "begin", "inspect", "copy", "rest", "publish", "sync", "upgrade",
   "open", "refused"}

Nothing == [first |-> None, second |-> None]

TypeOK ==
  /\ version \in Version
  /\ sound \in BOOLEAN
  /\ rows \in 0..MaxRows
  /\ writer \in Command \cup {None}
  /\ pc \in [Command -> Label]
  /\ known \in [Command -> Version \cup {None}]
  /\ copied \in [Command -> [first: 0..MaxRows \cup {None}, second: 0..MaxRows \cup {None}]]
  /\ pending \in SUBSET Command
  /\ backups \in SUBSET Copy
  /\ synced \in SUBSET backups
  /\ upgrades \in [Version -> SUBSET (0..MaxRows)]

Init ==
  /\ version \in Version
  /\ sound \in BOOLEAN
  /\ rows = 0
  /\ writer = None
  /\ pc = [c \in Command |-> "check"]
  /\ known = [c \in Command |-> None]
  /\ copied = [c \in Command |-> Nothing]
  /\ pending = {}
  /\ backups = {} /\ synced = {}
  /\ upgrades = [v \in Version |-> {}]

-----------------------------------------------------------------------------
Goto(c, from, to) ==
  /\ pc[c] = from
  /\ pc' = [pc EXCEPT ![c] = to]

Unlocked(c) == IF writer = c THEN None ELSE writer

\* One read transaction; only a file to be changed needs the writer lock.
Check(c) ==
  /\ Goto(c, "check",
       IF version > Current THEN "refused"
       ELSE IF version < Current THEN "begin"
       ELSE IF sound THEN "open" ELSE "refused")
  /\ UNCHANGED <<file, writer, known, copies, upgrades>>

\* MUTANT of Holder: the transaction takes the writer lock with its first write.
HolderDeferred(c) == writer

Holder(c) == c

\* Another command upgraded the file since it was checked.
Finished == version = Current

\* BEGIN IMMEDIATE and the version again.
Begin(c) ==
  /\ writer = None
  /\ known' = [known EXCEPT ![c] = version]
  /\ IF Finished
     THEN Goto(c, "begin", "open") /\ UNCHANGED writer
     ELSE Goto(c, "begin", "inspect") /\ writer' = Holder(c)
  /\ UNCHANGED <<file, copies, upgrades>>

Refuse(c) ==
  /\ pc' = [pc EXCEPT ![c] = "refused"]
  /\ writer' = Unlocked(c)
  /\ pending' = pending \ {c}
  /\ UNCHANGED <<file, known, copied, backups, synced, upgrades>>

\* MUTANT of Passes: an old file is inspected after the copy only.
PassesOld(c) == known[c] # 0 \/ sound

\* A new file must be empty; an old one whole, with its references.
Passes(c) == sound

Inspect(c) ==
  /\ Passes(c)
  /\ Goto(c, "inspect", IF known[c] = 0 THEN "upgrade" ELSE "copy")
  /\ UNCHANGED <<file, writer, known, copies, upgrades>>

InspectFails(c) ==
  /\ pc[c] = "inspect" /\ ~Passes(c)
  /\ Refuse(c)

-----------------------------------------------------------------------------
(* The copy.                                                               *)

CopyFirst(c) ==
  /\ Goto(c, "copy", "rest")
  /\ pending' = pending \cup {c}
  /\ copied' = [copied EXCEPT ![c] = [Nothing EXCEPT !.first = rows]]
  /\ UNCHANGED <<file, writer, known, backups, synced, upgrades>>

CopyRest(c) ==
  /\ Goto(c, "rest", "publish")
  /\ copied' = [copied EXCEPT ![c].second = rows]
  /\ UNCHANGED <<file, writer, known, pending, backups, synced, upgrades>>

CopyOf(c) ==
  [version |-> known[c], first |-> copied[c].first, second |-> copied[c].second]

\* MUTANT of AfterPublish: the rename is taken for durable.
AfterPublishUnsynced == "upgrade"

AfterPublish == "sync"

\* The copy has the version and integrity expected; it is renamed.
Publish(c) ==
  /\ Goto(c, "publish", AfterPublish)
  /\ backups' = backups \cup {CopyOf(c)}
  /\ pending' = pending \ {c}
  /\ UNCHANGED <<file, writer, known, copied, synced, upgrades>>

SyncDirectories(c) ==
  /\ Goto(c, "sync", "upgrade")
  /\ synced' = synced \cup {CopyOf(c)}
  /\ UNCHANGED <<file, writer, known, copied, pending, backups, upgrades>>

\* One transaction: new tables and columns, old rows, the version last.
Upgrade(c) ==
  /\ Goto(c, "upgrade", "open")
  /\ version' = Current
  /\ writer' = Unlocked(c)
  /\ upgrades' = [upgrades EXCEPT ![known[c]] = @ \cup {rows}]
  /\ UNCHANGED <<sound, rows, known, copies>>

-----------------------------------------------------------------------------
(* What goes wrong, and everybody else.                                    *)

\* The lock stays busy, a file cannot be written, an interrupt is noticed: the
\* transaction rolls back and the pending copy is removed.
Fail(c) ==
  /\ pc[c] \notin {"check", "open", "refused"}
  /\ Refuse(c)

\* A killed command leaves its pending copy; the next one is a new process.
Kill(c) ==
  /\ pc[c] \notin {"check", "open", "refused"}
  /\ pc' = [pc EXCEPT ![c] = "check"]
  /\ writer' = Unlocked(c)
  /\ known' = [known EXCEPT ![c] = None]
  /\ copied' = [copied EXCEPT ![c] = Nothing]
  /\ UNCHANGED <<file, pending, backups, synced, upgrades>>

PowerLoss ==
  /\ backups # synced
  /\ backups' \in {b \in SUBSET backups : synced \subseteq b}
  /\ synced' = backups'
  /\ pc' = [c \in Command |-> "check"]
  /\ writer' = None
  /\ known' = [c \in Command |-> None]
  /\ copied' = [c \in Command |-> Nothing]
  /\ UNCHANGED <<file, pending, upgrades>>

\* A process of an older release writes to an old file.
OldWrites ==
  /\ writer = None
  /\ version \in {1, 2}
  /\ rows < MaxRows
  /\ rows' = rows + 1
  /\ UNCHANGED <<version, sound, writer, pc, known, copies, upgrades>>

Open(c) ==
  \/ Check(c) \/ Begin(c) \/ Inspect(c) \/ InspectFails(c)
  \/ CopyFirst(c) \/ CopyRest(c) \/ Publish(c) \/ SyncDirectories(c) \/ Upgrade(c)

Next ==
  \/ \E c \in Command : Open(c) \/ Fail(c) \/ Kill(c)
  \/ OldWrites \/ PowerLoss

Spec == Init /\ [][Next]_vars

-----------------------------------------------------------------------------
(* What opening gets right.                                                *)

\* An old file is upgraded only when a copy of exactly the contents that the
\* upgrade starts from is where no power loss can reach it.
UpgradeIsBackedUp ==
  \A v \in {1, 2} : \A r \in upgrades[v] :
    [version |-> v, first |-> r, second |-> r] \in synced

\* Commands that open an old file together upgrade it once.
UpgradedOnce ==
  \A v, w \in Version, r, t \in 0..MaxRows :
    r \in upgrades[v] /\ t \in upgrades[w] => v = w /\ r = t

\* A published copy is an old file as it was at one moment, whatever the
\* processes of an older release write meanwhile.
CopiesAreWhole ==
  \A b \in backups : b.version \in {1, 2} /\ b.first = b.second

\* A damaged or unknown file is left alone: opening it again and again leaves
\* no copies behind.
RefusedLeavesNoCopy ==
  ~sound \/ version > Current => backups = {} /\ pending = {} /\ upgrades[0] = {}

-----------------------------------------------------------------------------
(* Why.                                                                    *)

\* Where a command holds the writer lock.
Holding == {"inspect", "copy", "rest", "publish", "sync", "upgrade"}

\* Past the inspection, on the way of an old file.
Copying == {"copy", "rest", "publish", "sync"}

\* One command holds the lock, and what it read under it is still so.
LockInv ==
  \A c \in Command :
    pc[c] \in Holding =>
      /\ writer = c
      /\ known[c] = version /\ version < Current
      /\ pc[c] # "inspect" => sound
      /\ pc[c] \in Copying => version # 0
      /\ pc[c] \in {"rest", "publish", "sync"} => copied[c].first = rows
      /\ pc[c] \in {"publish", "sync"} => copied[c].second = rows
      /\ pc[c] = "sync" => CopyOf(c) \in backups
      /\ pc[c] = "upgrade" /\ version # 0 =>
           [version |-> version, first |-> rows, second |-> rows] \in synced

\* No file is upgraded before its version is the current one, and none that
\* has an unknown version.
VersionInv ==
  /\ \A c \in Command : pc[c] = "begin" => version <= Current
  /\ version # Current => \A v \in Version : upgrades[v] = {}

IInv ==
  /\ TypeOK
  /\ LockInv
  /\ VersionInv
  /\ UpgradeIsBackedUp
  /\ UpgradedOnce
  /\ CopiesAreWhole
  /\ RefusedLeavesNoCopy
=============================================================================
