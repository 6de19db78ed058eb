--------------------------- MODULE OwnedGroupProofs ---------------------------
(***************************************************************************)
(* OwnedGroup proved for every set of process ids: IInv is inductive.  The *)
(* unreaped child keeps its group number from being used again, and start  *)
(* times only grow, so that an identity that matches twice named the same  *)
(* process all the while.                                                  *)
(***************************************************************************)
EXTENDS OwnedGroup, TLAPS

\* A signal through a handle of the child's kin changes nobody's identity.
LEMMA SendToKeeps ==
  ASSUME TypeOK, NEW id \in Identity, NotReused(id), NEW sig, SendTo(id, sig)
  PROVE  /\ table' \in [Pid -> Tasks \cup {None}]
         /\ births' = births /\ stranger' = stranger
         /\ \A p \in Pid: /\ table'[p] = None <=> table[p] = None
                          /\ table[p] # None =>
                               /\ table'[p].start = table[p].start
                               /\ table'[p].group = table[p].group
                               /\ table'[p].kin = table[p].kin
                               /\ table'[p].state = table[p].state
<1>1. CASE ~Alive(id)
  BY <1>1 DEF SendTo, Unsignalled, kernel, TypeOK
<1>2. CASE Alive(id)
  <2> DEFINE at == id[1]
             new == [table[at] EXCEPT !.doomed = @ \/ sig = "KILL"]
  <2>1. at \in Pid /\ table[at] \in Tasks
    BY <1>2 DEF Alive, Present, Identity, TypeOK
  <2>2. table' = [table EXCEPT ![at] = new]
    BY <1>2, <2>1 DEF SendTo, TypeOK
  <2>3. /\ new \in Tasks
        /\ new.start = table[at].start /\ new.group = table[at].group
        /\ new.kin = table[at].kin /\ new.state = table[at].state
    BY <2>1 DEF Tasks
  <2>4. new # None /\ table[at] # None
    BY <2>1, <2>3, NoneAssumption
  <2>5. births' = births /\ stranger' = stranger
    BY <1>2, <2>1 DEF SendTo, Alive, NotReused, TypeOK, Tasks
  <2> HIDE DEF new
  <2>6. QED
    BY <2>1, <2>2, <2>3, <2>4, <2>5 DEF TypeOK
<1>3. QED
  BY <1>1, <1>2

\* What a step does to the process table: processes go, leave the group or
\* stop running, and new ones have a start time of their own.
Moves ==
  /\ table' \in [Pid -> Tasks \cup {None}]
  /\ births' \in births..MaxBirths
  /\ Present(Child) => Present(Child)'
  /\ \A p \in Pid: table'[p] # None =>
       \/ /\ table[p] # None
          /\ table'[p].start = table[p].start /\ table'[p].kin = table[p].kin
          /\ table'[p].group => table[p].group
          /\ table'[p].state = "running" => table[p].state = "running"
       \/ /\ table[p] = None
          /\ table'[p].start > births /\ table'[p].start <= births'
          /\ pc # "ended" /\ table'[p].group => table'[p].kin

\* A new process is a task.
LEMMA TaskType ==
  ASSUME NEW s \in Nat, NEW g \in BOOLEAN, NEW k \in BOOLEAN
  PROVE  /\ Task(s, g, k) \in Tasks
         /\ Task(s, g, k).start = s /\ Task(s, g, k).group = g
         /\ Task(s, g, k).kin = k /\ Task(s, g, k).state = "running"
         /\ Task(s, g, k).ours
         /\ Task(s, g, k) # None
<1>1. Task(s, g, k) \in Tasks
  BY DEF Task, Tasks
<1>2. QED
  BY <1>1, NoneAssumption DEF Task

\* A signal through a handle of the child's kin moves no process.
LEMMA SendToMoves ==
  ASSUME IInv, NEW id \in Identity, NotReused(id), NEW sig, SendTo(id, sig)
  PROVE  Moves /\ births' = births /\ stranger' = stranger
<1>1. TypeOK
  BY DEF IInv
<1>2. births \in Nat /\ births <= MaxBirths
  BY <1>1, BirthsAssumption DEF TypeOK
<1>3. QED
  BY <1>1, <1>2, SendToKeeps, LeaderAssumption, BirthsAssumption DEF Moves, Present, Child

\* A change of one process that keeps its start time and stops or leaves at most.
LEMMA ChangeMoves ==
  ASSUME IInv, NEW p \in Pid, table[p] # None, NEW new, Change(p, new),
         \/ /\ new \in Tasks /\ new.start = table[p].start /\ new.kin = table[p].kin
            /\ new.group => table[p].group
            /\ new.state = "running" => table[p].state = "running"
         \/ new = None /\ ~(p = Leader /\ Present(Child))
  PROVE  Moves
<1>1. TypeOK /\ births \in Nat /\ births <= MaxBirths
  BY BirthsAssumption DEF IInv, TypeOK
<1>2. /\ table' \in [Pid -> Tasks \cup {None}]
      /\ table'[p] = new /\ births' = births
      /\ \A q \in Pid: q # p => table'[q] = table[q]
  BY <1>1 DEF Change, TypeOK
<1>3. births' \in births..MaxBirths
  BY <1>1, <1>2, BirthsAssumption
<1>4. Present(Child) => Present(Child)'
  BY <1>1, <1>2, LeaderAssumption, NoneAssumption DEF Present, Child
<1>5. QED
  BY <1>1, <1>2, <1>3, <1>4 DEF Moves

\* Whatever the other processes do is such a move.
LEMMA OthersMove ==
  ASSUME IInv, Others
  PROVE  Moves
<1>1. /\ TypeOK /\ births \in Nat /\ births <= MaxBirths
      /\ \A p \in Pid: table[p] # None => table[p] \in Tasks
  BY BirthsAssumption DEF IInv, TypeOK
<1>2. ASSUME NEW p \in Pid, NEW q \in Pid, Fork(p, q) PROVE Moves
  <2> DEFINE new == [Task(births + 1, table[p].group, TRUE) EXCEPT !.ours = table[p].ours]
  <2>1. table[p] \in Tasks
    BY <1>1, <1>2 DEF Fork
  <2>2. /\ new \in Tasks /\ new.start = births + 1
        /\ new.group = table[p].group /\ new.kin
    <3> DEFINE base == Task(births + 1, table[p].group, TRUE)
    <3>1. births + 1 \in Nat /\ table[p].group \in BOOLEAN /\ table[p].ours \in BOOLEAN
      BY <1>1, <2>1 DEF Tasks
    <3>2. base \in Tasks /\ base.start = births + 1 /\ base.group = table[p].group /\ base.kin
      BY <3>1, TaskType
    <3>3. new = [base EXCEPT !.ours = table[p].ours]
      OBVIOUS
    <3> HIDE DEF base
    <3>4. QED
      BY <3>1, <3>2, <3>3 DEF Tasks
  <2>3. new # None
    BY <2>2, NoneAssumption
  <2>4. table' = [table EXCEPT ![q] = new] /\ births' = births + 1 /\ table[q] = None
        /\ births < MaxBirths
    BY <1>2 DEF Fork, Free
  <2> HIDE DEF new
  <2>5. /\ table' \in [Pid -> Tasks \cup {None}] /\ table'[q] = new
        /\ \A r \in Pid: r # q => table'[r] = table[r]
    BY <1>1, <2>2, <2>4 DEF TypeOK
  <2>6. births' \in births..MaxBirths
    BY <1>1, <2>4, BirthsAssumption
  <2>7. Present(Child) => Present(Child)'
    BY <2>4, <2>5, LeaderAssumption DEF Present, Child
  <2>8. QED
    BY <1>1, <2>2, <2>3, <2>4, <2>5, <2>6, <2>7 DEF Moves
<1>3. ASSUME NEW q \in Pid, NEW group \in BOOLEAN, Stray(q, group) PROVE Moves
  <2> DEFINE new == Task(births + 1, group, FALSE)
  <2>1. /\ new \in Tasks /\ new.start = births + 1 /\ new.group = group /\ new # None
    <3>1. births + 1 \in Nat
      BY <1>1
    <3>2. QED
      BY <3>1, TaskType
  <2>2. table' = [table EXCEPT ![q] = new] /\ births' = births + 1 /\ table[q] = None
        /\ births < MaxBirths
    BY <1>3 DEF Stray, Free
  <2> HIDE DEF new
  <2>3. /\ table' \in [Pid -> Tasks \cup {None}] /\ table'[q] = new
        /\ \A r \in Pid: r # q => table'[r] = table[r]
    BY <1>1, <2>1, <2>2 DEF TypeOK
  <2>4. births' \in births..MaxBirths
    BY <1>1, <2>2, BirthsAssumption
  <2>5. Present(Child) => Present(Child)'
    BY <2>2, <2>3, LeaderAssumption DEF Present, Child
  <2>6. pc # "ended" => ~group
    BY <1>3, <2>2 DEF Stray, IInv, Anchored, Present, Child
  <2>7. QED
    BY <1>1, <2>1, <2>2, <2>3, <2>4, <2>5, <2>6 DEF Moves
<1>4. ASSUME NEW p \in Pid, Leave(p) PROVE Moves
  <2>1. /\ [table[p] EXCEPT !.group = FALSE] \in Tasks
        /\ [table[p] EXCEPT !.group = FALSE].start = table[p].start
        /\ [table[p] EXCEPT !.group = FALSE].kin = table[p].kin
        /\ [table[p] EXCEPT !.group = FALSE].state = table[p].state
        /\ ~[table[p] EXCEPT !.group = FALSE].group
    BY <1>1, <1>4 DEF Leave, Tasks
  <2>2. QED
    BY <1>4, <2>1, ChangeMoves DEF Leave
<1>5. ASSUME NEW p \in Pid, ChangeOwner(p) PROVE Moves
  <2>1. /\ [table[p] EXCEPT !.ours = FALSE] \in Tasks
        /\ [table[p] EXCEPT !.ours = FALSE].start = table[p].start
        /\ [table[p] EXCEPT !.ours = FALSE].kin = table[p].kin
        /\ [table[p] EXCEPT !.ours = FALSE].state = table[p].state
        /\ [table[p] EXCEPT !.ours = FALSE].group = table[p].group
    BY <1>1, <1>5 DEF ChangeOwner, Tasks
  <2>2. QED
    BY <1>5, <2>1, ChangeMoves DEF ChangeOwner
<1>6. ASSUME NEW p \in Pid, Exit(p) PROVE Moves
  <2>1. CASE p = Leader /\ Present(Child)
    <3>1. /\ [table[p] EXCEPT !.state = "zombie"] \in Tasks
          /\ [table[p] EXCEPT !.state = "zombie"].start = table[p].start
          /\ [table[p] EXCEPT !.state = "zombie"].kin = table[p].kin
          /\ [table[p] EXCEPT !.state = "zombie"].group = table[p].group
          /\ [table[p] EXCEPT !.state = "zombie"].state # "running"
      BY <1>1, <1>6 DEF Exit, Tasks
    <3>2. Change(p, [table[p] EXCEPT !.state = "zombie"]) /\ table[p] # None
      BY <1>6, <2>1 DEF Exit
    <3>3. QED
      BY <3>1, <3>2, ChangeMoves
  <2>2. CASE ~(p = Leader /\ Present(Child))
    <3>1. Change(p, None) /\ table[p] # None
      BY <1>6, <2>2 DEF Exit
    <3>2. QED
      BY <2>2, <3>1, ChangeMoves
  <2>3. QED
    BY <2>1, <2>2
<1>7. QED
  BY <1>2, <1>3, <1>4, <1>5, <1>6 DEF Others

\* Such a move keeps what is known of identities, dead processes and the group.
LEMMA MovesKeep ==
  ASSUME IInv, Moves
  PROVE  /\ pc # "ended" => Present(Child)'
         /\ pc # "ended" =>
              \A p \in Pid: table'[p] # None /\ table'[p].group => table'[p].kin
         /\ \A p \in Pid: table'[p] # None => table'[p].start <= births'
         /\ \A id \in Identity: NotReused(id) => NotReused(id)'
         /\ \A id \in Identity: id[2] <= births /\ ~Alive(id) => ~Alive(id)'
         /\ births' \in Nat /\ births <= births' /\ births' <= MaxBirths
<1>1. /\ births \in Nat /\ births' \in Nat /\ births <= births' /\ births' <= MaxBirths
  BY BirthsAssumption DEF IInv, TypeOK, Moves
<1>2. \A p \in Pid: /\ table[p] # None => table[p].start \in Nat /\ table[p].start <= births
                    /\ table'[p] # None => table'[p].start \in Nat
  BY DEF IInv, TypeOK, Known, Moves, Tasks
<1>3. pc # "ended" => Present(Child)'
  BY DEF IInv, Anchored, Moves
<1>4. pc # "ended" =>
        \A p \in Pid: table'[p] # None /\ table'[p].group => table'[p].kin
  BY DEF IInv, OnlyKinInGroup, Moves
<1>5. \A p \in Pid: table'[p] # None => table'[p].start <= births'
  BY <1>1, <1>2 DEF Moves
<1>6. ASSUME NEW id \in Identity, NotReused(id) PROVE NotReused(id)'
  BY <1>1, <1>2, <1>6 DEF NotReused, Present, Moves, Identity
<1>7. ASSUME NEW id \in Identity, id[2] <= births, ~Alive(id) PROVE ~Alive(id)'
  BY <1>1, <1>2, <1>7 DEF Alive, Present, Moves, Identity
<1>8. QED
  BY <1>1, <1>3, <1>4, <1>5, <1>6, <1>7

\* The child is an identity that is never used again.
LEMMA ChildKnown ==
  ASSUME IInv
  PROVE  Child \in Identity /\ NotReused(Child) /\ Child[1] = Leader /\ Child[2] = 0
BY LeaderAssumption DEF IInv, Known, Child, Identity

\* Covered survives a move that unpins nobody.
LEMMA CoveredKeeps ==
  ASSUME IInv, Moves, since' = since, members \subseteq members',
         NEW p \in Pid, Covered(p)
  PROVE  Covered(p)'
<1>1. /\ births \in Nat /\ since \in Nat /\ since <= births
      /\ table[p] # None => table[p].start \in Nat
      /\ table'[p] # None => table'[p].start \in Nat
  BY BirthsAssumption DEF IInv, TypeOK, Known, Moves, Tasks
<1>2. QED
  BY <1>1 DEF Covered, Moves

\* Everything but the places of a round, after a move that pins nobody anew.
LEMMA KnownKeeps ==
  ASSUME IInv, Moves, members' = members, since' \in {since, 0}
  PROVE  Known'
<1>1. \A id \in members: id \in Identity
  BY DEF IInv, TypeOK
<1>2. NotReused(Child)'
  BY MovesKeep, ChildKnown
<1>3. \A id \in members': NotReused(id)'
  BY <1>1, MovesKeep DEF IInv, Known
<1>4. since' <= births'
  <2>1. births \in Nat /\ births' \in Nat /\ since <= births /\ births <= births' /\ since \in Nat
    BY MovesKeep, BirthsAssumption DEF IInv, TypeOK, Known
  <2>2. QED
    BY <2>1
<1>5. QED
  BY <1>2, <1>3, <1>4, MovesKeep DEF Known

\* The other processes.
LEMMA OthersStep ==
  ASSUME IInv, Others
  PROVE  IInv'
<1>1. Moves
  BY OthersMove
<1>2. /\ UNCHANGED <<caller, pc, dropping, clock, value, since, todo, found, handle, left, active>>
      /\ UNCHANGED <<members, stranger>>
      /\ pc # "ended"
  BY DEF Others, round, look
<1>3. TypeOK'
  <2>1. births' \in 0..MaxBirths
    BY <1>1, MovesKeep, BirthsAssumption
  <2>2. QED
    BY <1>1, <1>2, <2>1 DEF IInv, TypeOK, Moves
<1>4. Anchored' /\ OnlyKinInGroup'
  BY <1>1, <1>2, MovesKeep DEF Anchored, OnlyKinInGroup
<1>5. Known'
  BY <1>1, <1>2, KnownKeeps
<1>6. Found'
  <2> SUFFICES ASSUME pc \in {"pin", "verify"} PROVE Found'
    BY <1>2 DEF Found
  <2>1. /\ found # None /\ found \in Identity /\ NotReused(found) /\ found[1] \notin todo
        /\ found[1] \in Pid /\ found[2] \in Nat /\ found[2] <= births
    BY DEF IInv, Found, TypeOK, Identity, NotReused
  <2>2. NotReused(found)'
    BY <1>1, <1>2, <2>1, MovesKeep DEF NotReused, Present
  <2>3. /\ births \in Nat /\ since \in Nat /\ since <= births
        /\ table[found[1]] # None => table[found[1]].start \in Nat
        /\ table'[found[1]] # None => table'[found[1]].start \in Nat
    BY <1>1, <2>1, BirthsAssumption DEF IInv, TypeOK, Known, Moves, Tasks
  <2>4. table'[found[1]] # None =>
          /\ found[2] <= table'[found[1]].start
          /\ table'[found[1]].start <= since => table'[found[1]].start = found[2]
    BY <1>1, <2>1, <2>3 DEF IInv, Found, Moves
  <2>5. QED
    BY <1>2, <2>1, <2>2, <2>4 DEF Found
<1>7. Handled'
  <2> SUFFICES ASSUME pc = "verify" PROVE Handled'
    BY <1>2 DEF Handled
  <2>1. /\ handle # None /\ handle \in Identity /\ found # None /\ found \in Identity
        /\ found[1] \in Pid /\ handle[2] \in Nat /\ handle[2] <= births
        /\ handle[1] = found[1] /\ found[2] <= handle[2]
    BY DEF IInv, Found, Handled, TypeOK, Identity
  <2>2. /\ births \in Nat /\ births' \in Nat /\ births <= births'
        /\ table[found[1]] # None => table[found[1]].start \in Nat
        /\ table'[found[1]] # None => table'[found[1]].start \in Nat
    BY <1>1, <2>1, BirthsAssumption, MovesKeep DEF IInv, TypeOK, Moves, Tasks
  <2>3. table'[found[1]] # None => handle[2] <= table'[found[1]].start
    BY <1>1, <2>1, <2>2 DEF IInv, Handled, Moves
  <2>4. QED
    BY <1>2, <2>1, <2>2, <2>3 DEF Handled
<1>8. Reached'
  <2>1. \A p \in Pid: Covered(p) => Covered(p)'
    BY <1>1, <1>2, CoveredKeeps
  <2>2. \A id \in members: ~Alive(id) => ~Alive(id)'
    BY <1>1, <1>2, MovesKeep DEF IInv, TypeOK, Known, NotReused
  <2>3. pc \in {"pin", "verify"} => found[1] \in Pid
    BY DEF IInv, TypeOK, Found, Identity
  <2>4. Child' = Child
    BY DEF Child
  <2>5. QED
    BY <1>2, <2>1, <2>2, <2>3, <2>4 DEF IInv, Reached, TypeOK
<1>9. NoStranger' /\ WaitReturns'
  <2>1. pc = "wait" => ~Alive(Child)'
    <3>1. births \in Nat
      BY DEF IInv, TypeOK
    <3>2. QED
      BY <1>1, <3>1, MovesKeep, ChildKnown DEF IInv, WaitReturns, Exited
  <2>2. QED
    BY <1>1, <1>2, <2>1, MovesKeep DEF IInv, NoStranger, WaitReturns, Exited
<1>10. OnlyNewbornsSurvive'
  <2>1. /\ births \in Nat /\ since \in Nat /\ since <= births
        /\ \A p \in Pid: table'[p] # None => table'[p].start \in Nat
    BY <1>1, BirthsAssumption DEF IInv, TypeOK, Known, Moves, Tasks
  <2>2. QED
    BY <1>1, <1>2, <2>1 DEF IInv, OnlyNewbornsSurvive, Moves
<1>11. QED
  BY <1>3, <1>4, <1>5, <1>6, <1>7, <1>8, <1>9, <1>10 DEF IInv

\* The parts of IInv that depend on the process table alone, after a step of
\* the owner that sends at most one signal, to a process it may signal.
LEMMA OwnerMove ==
  ASSUME IInv, Unsignalled \/ \E id \in Identity, sig \in {"TERM", "KILL"}:
                                 NotReused(id) /\ SendTo(id, sig)
  PROVE  Moves /\ births' = births /\ stranger' = stranger
<1>1. CASE Unsignalled
  <2>1. births \in Nat /\ births <= MaxBirths /\ table \in [Pid -> Tasks \cup {None}]
    BY DEF IInv, TypeOK
  <2>2. births' \in births..MaxBirths
    BY <1>1, <2>1, BirthsAssumption DEF Unsignalled, kernel
  <2>3. QED
    BY <1>1, <2>1, <2>2 DEF Unsignalled, kernel, Moves, Present, Child
<1>2. CASE \E id \in Identity, sig \in {"TERM", "KILL"}: NotReused(id) /\ SendTo(id, sig)
  BY <1>2, SendToMoves
<1>3. QED
  BY <1>1, <1>2

\* A step of the owner to a place where no round is going on.
LEMMA Outside ==
  ASSUME IInv, Moves, births' = births, stranger' = stranger, pc # "ended",
         pc' \in {"own", "refused", "reap", "running", "failed", "ended", "anchor"},
         members' = members, left' \subseteq members, todo' \subseteq Pid,
         found' \in Identity \cup {None}, handle' \in Identity \cup {None},
         active' \in BOOLEAN, value' \in {"TERM", "KILL"}, since' \in {since, 0},
         caller' = caller, dropping' \in BOOLEAN, clock' \in 0..2
  PROVE  IInv'
<1>1. TypeOK'
  <2>1. births' \in 0..MaxBirths /\ since' \in 0..MaxBirths
    BY BirthsAssumption DEF IInv, TypeOK
  <2>2. QED
    BY <2>1 DEF IInv, TypeOK, Moves, Places
<1>2. Anchored' /\ OnlyKinInGroup'
  BY MovesKeep DEF Anchored, OnlyKinInGroup
<1>3. Known'
  BY KnownKeeps
<1>4. Found' /\ Handled' /\ Reached' /\ WaitReturns' /\ OnlyNewbornsSurvive'
  BY DEF Found, Handled, Reached, WaitReturns, OnlyNewbornsSurvive
<1>5. NoStranger'
  BY DEF IInv, NoStranger
<1>6. QED
  BY <1>1, <1>2, <1>3, <1>4, <1>5 DEF IInv

\* A cleanup that fails.
LEMMA FailStep ==
  ASSUME IInv, pc # "ended", Fail, UNCHANGED <<caller, dropping, clock, members>>
  PROVE  IInv'
<1>1. Unsignalled \/ SendTo(Child, "KILL")
  BY DEF Fail
<1>2. Moves /\ births' = births /\ stranger' = stranger
  BY <1>1, OwnerMove, ChildKnown
<1>3. pc' \in {"reap", "failed", "ended"}
  BY DEF Fail, Goto
<1>4. QED
  BY <1>2, <1>3, Outside DEF Fail, Forgotten, IInv, TypeOK

\* The steps before and between cleanups.
LEMMA CallerStep ==
  ASSUME IInv, Inspect \/ Own \/ Refused \/ HandleFails \/ CaptureEnds \/ Close
  PROVE  IInv'
<1>1. /\ Unsignalled \/ SendTo(Child, "KILL")
      /\ pc # "ended" /\ UNCHANGED <<caller, round, members>>
      /\ pc' \in {"own", "refused", "reap", "running", "anchor"}
      /\ dropping' \in BOOLEAN /\ clock' \in 0..2
  <2> USE DEF Goto, IInv, TypeOK
  <2>1. CASE Inspect
    BY <2>1 DEF Inspect
  <2>2. CASE Own
    BY <2>2 DEF Own
  <2>3. CASE Refused
    BY <2>3 DEF Refused
  <2>4. CASE HandleFails
    BY <2>4 DEF HandleFails
  <2>5. CASE CaptureEnds
    BY <2>5 DEF CaptureEnds, StartFinish
  <2>6. CASE Close
    <3>1. pc \in {"running", "failed"} /\ dropping' \in BOOLEAN
      BY <2>6 DEF Close
    <3>2. StartFinish
      BY <2>6 DEF Close
    <3>3. QED
      BY <3>1, <3>2 DEF StartFinish
  <2>7. QED
    BY <2>1, <2>2, <2>3, <2>4, <2>5, <2>6
<1>2. Moves /\ births' = births /\ stranger' = stranger
  BY <1>1, OwnerMove, ChildKnown
<1>3. QED
  BY <1>1, <1>2, Outside DEF round, look, IInv, TypeOK

\* The child is reaped, or the attempt to reap it is given up.
LEMMA ReapStep ==
  ASSUME IInv, Reap \/ Wait
  PROVE  IInv'
<1>1. /\ pc' = "ended" /\ stranger' = stranger /\ births' = births
      /\ UNCHANGED <<caller, dropping, clock, round, members>>
      /\ table' = table \/ table' = [table EXCEPT ![Leader] = None]
  BY DEF Reap, Wait, Goto, Change, Unsignalled, kernel
<1>2. TypeOK'
  BY <1>1 DEF IInv, TypeOK, Places, round, look
<1>3. \A p \in Pid: table'[p] # None => table'[p] = table[p]
  BY <1>1 DEF IInv, TypeOK
<1>4. \A id \in Identity: NotReused(id) => NotReused(id)'
  BY <1>1, <1>3 DEF NotReused, Present, Identity
<1>5. Known'
  BY <1>1, <1>3, <1>4, ChildKnown DEF IInv, Known, TypeOK, round
<1>6. QED
  BY <1>1, <1>2, <1>5 DEF IInv, Anchored, OnlyKinInGroup, Found, Handled, Reached,
     NoStranger, WaitReturns, OnlyNewbornsSurvive

\* What no step within a round changes, given what it does to the rest.
LEMMA Inside ==
  ASSUME IInv, Unsignalled, pc # "ended", pc' # "ended", pc' \in Places,
         UNCHANGED <<caller, dropping, clock>>,
         value' \in {"TERM", "KILL"}, since' \in 0..births, todo' \subseteq Pid,
         found' \in Identity \cup {None}, handle' \in Identity \cup {None},
         members' \subseteq Identity, left' \subseteq members', active' \in BOOLEAN,
         \A id \in members': NotReused(id)
  PROVE  /\ TypeOK' /\ Anchored' /\ OnlyKinInGroup' /\ Known' /\ NoStranger'
<1>1. table' = table /\ births' = births /\ stranger' = stranger
  BY DEF Unsignalled, kernel
<1>2. TypeOK'
  <2>1. since' \in 0..MaxBirths
    BY BirthsAssumption DEF IInv, TypeOK
  <2>2. QED
    BY <1>1, <2>1 DEF IInv, TypeOK
<1>3. Anchored' /\ OnlyKinInGroup' /\ NoStranger'
  BY <1>1 DEF IInv, Anchored, OnlyKinInGroup, NoStranger, Present, Child
<1>4. Known'
  <2>1. since' <= births
    BY DEF IInv, TypeOK
  <2>2. \A id \in Identity: NotReused(id) => NotReused(id)'
    BY <1>1 DEF NotReused, Present
  <2>3. QED
    BY <1>1, <2>1, <2>2, ChildKnown DEF IInv, Known
<1>5. QED
  BY <1>2, <1>3, <1>4

\* A round begins: everything the group holds is still to be reached.
LEMMA BeginStep ==
  ASSUME IInv, Begin
  PROVE  IInv'
<1>1. CASE ~AnchorHolds
  BY <1>1, FailStep DEF Begin
<1>2. CASE AnchorHolds
  <2>1. /\ pc = "anchor" /\ pc' = "scan" /\ Unsignalled /\ todo' = Pid /\ since' = births
        /\ value' = Signal(clock)
        /\ UNCHANGED <<found, handle, left, active, caller, dropping, clock, members>>
    BY <1>2 DEF Begin, Goto
  <2>2. value' \in {"TERM", "KILL"} /\ since' \in 0..births
    BY <2>1 DEF Signal, IInv, TypeOK
  <2>3. TypeOK' /\ Anchored' /\ OnlyKinInGroup' /\ Known' /\ NoStranger'
    BY <2>1, <2>2, Inside DEF Places, IInv, TypeOK, Known
  <2>4. QED
    BY <2>1, <2>3 DEF IInv, Found, Handled, Reached, WaitReturns, OnlyNewbornsSurvive
<1>3. QED
  BY <1>1, <1>2

\* A process is reached and passed over, or becomes the one to pin.
LEMMA VisitStep ==
  ASSUME IInv, NEW p \in Pid, Visit(p)
  PROVE  IInv'
<1>1. /\ pc = "scan" /\ p \in todo /\ todo' = todo \ {p} /\ Unsignalled
      /\ UNCHANGED <<caller, dropping, clock, value, since, handle, left, active, members>>
      /\ UNCHANGED <<table, births, stranger>>
  BY DEF Visit, Unsignalled, kernel
<1>2. table[p] # None => table[p] \in Tasks /\ table[p].start \in Nat /\ table[p].start <= births
  BY DEF IInv, TypeOK, Known, Tasks
<1>3. \A q \in Pid \ todo: Covered(q)
  BY <1>1 DEF IInv, Reached
<1>4. CASE (Passed(p) \/ Missable(p)) /\ pc' = pc /\ found' = found
  <2>1. Covered(p)
    <3>1. since \in Nat /\ births \in Nat
      BY DEF IInv, TypeOK
    <3>2. QED
      BY <1>2, <1>4, <3>1 DEF Covered, Passed, Missable
  <2>2. TypeOK' /\ Anchored' /\ OnlyKinInGroup' /\ Known' /\ NoStranger'
    BY <1>1, <1>4, Inside DEF Places, IInv, TypeOK, Known
  <2>3. \A q \in Pid \ todo': Covered(q)'
    BY <1>1, <1>3, <2>1 DEF Covered
  <2>4. QED
    BY <1>1, <1>4, <2>2, <2>3
    DEF IInv, Found, Handled, Reached, WaitReturns, OnlyNewbornsSurvive
<1>5. CASE ~Passed(p) /\ pc' = "pin" /\ found' = <<p, table[p].start>>
  <2>1. /\ table[p] # None /\ table[p].group /\ table[p].kin
        /\ found' \in Identity /\ found'[1] = p /\ found'[2] = table[p].start
    BY <1>1, <1>2, <1>5 DEF Passed, Identity, IInv, OnlyKinInGroup
  <2>2. found' # None
    BY <2>1, NoneAssumption
  <2>3. TypeOK' /\ Anchored' /\ OnlyKinInGroup' /\ Known' /\ NoStranger'
    BY <1>1, <1>5, <2>1, Inside DEF Places, IInv, TypeOK, Known
  <2>4. Found'
    BY <1>1, <1>2, <2>1, <2>2 DEF Found, NotReused, Present, Tasks
  <2>5. \A q \in Pid \ (todo' \cup {found'[1]}): Covered(q)'
    BY <1>1, <1>3, <2>1 DEF Covered
  <2>6. QED
    BY <1>1, <1>5, <2>3, <2>4, <2>5
    DEF IInv, Handled, Reached, WaitReturns, OnlyNewbornsSurvive
<1>6. QED
  BY <1>4, <1>5 DEF Visit, Goto

\* The process id is opened, whichever process has it.
LEMMA PinStep ==
  ASSUME IInv, Pin
  PROVE  IInv'
<1> DEFINE task == table[found[1]]
<1>1. pc = "pin" /\ UNCHANGED <<caller, dropping, clock, members>>
  BY DEF Pin
<1>2. /\ found \in Identity /\ found[1] \in Pid /\ found[2] \in Nat /\ found # None
      /\ found[1] \notin todo /\ found[2] <= births
      /\ task # None => task \in Tasks /\ task.start \in Nat /\ task.start <= births
  BY <1>1 DEF IInv, TypeOK, Found, Known, NotReused, Identity, Tasks
<1>3. \A q \in Pid \ (todo \cup {found[1]}): Covered(q)
  BY <1>1 DEF IInv, Reached
<1>4. CASE /\ task = None /\ pc' = "scan" /\ found' = None /\ Unsignalled
           /\ UNCHANGED <<value, since, todo, handle, left, active>>
  <2>1. TypeOK' /\ Anchored' /\ OnlyKinInGroup' /\ Known' /\ NoStranger'
    BY <1>1, <1>4, Inside DEF Places, IInv, TypeOK, Known
  <2>2. Covered(found[1])
    BY <1>4 DEF Covered
  <2>3. \A q \in Pid \ todo': Covered(q)'
    BY <1>1, <1>3, <1>4, <2>2 DEF Covered, Unsignalled, kernel
  <2>4. QED
    BY <1>4, <2>1, <2>3 DEF IInv, Found, Handled, Reached, WaitReturns, OnlyNewbornsSurvive
<1>5. CASE task # None /\ ~task.ours /\ Fail
  BY <1>1, <1>5, FailStep
<1>6. CASE /\ task # None /\ handle' = <<found[1], task.start>>
           /\ pc' = "verify" /\ Unsignalled
           /\ UNCHANGED <<value, since, todo, found, left, active>>
  <2>1. handle' \in Identity /\ handle'[1] = found[1] /\ handle'[2] = task.start
    BY <1>2, <1>6 DEF Identity
  <2>2. handle' # None
    BY <2>1, NoneAssumption
  <2>3. TypeOK' /\ Anchored' /\ OnlyKinInGroup' /\ Known' /\ NoStranger'
    BY <1>1, <1>2, <1>6, <2>1, Inside DEF Places, IInv, TypeOK, Known
  <2>4. Found'
    BY <1>1, <1>6 DEF IInv, Found, NotReused, Present, Unsignalled, kernel
  <2>5. Handled'
    BY <1>1, <1>2, <1>6, <2>1, <2>2 DEF IInv, Found, Handled, Unsignalled, kernel
  <2>6. Reached'
    BY <1>1, <1>3, <1>6 DEF Reached, Covered, Unsignalled, kernel
  <2>7. QED
    BY <1>6, <2>3, <2>4, <2>5, <2>6 DEF IInv, WaitReturns, OnlyNewbornsSurvive
<1>7. QED
  BY <1>4, <1>5, <1>6 DEF Pin, Goto

\* A process that matches twice was the same all the while: what is pinned is it.
LEMMA VerifyStep ==
  ASSUME IInv, Verify
  PROVE  IInv'
<1>1. /\ pc = "verify" /\ pc' = "scan" /\ found' = None /\ handle' = None /\ Unsignalled
      /\ UNCHANGED <<caller, dropping, clock, value, since, todo, left, active>>
      /\ members' = IF Verified THEN members \cup {handle} ELSE members
      /\ table' = table /\ births' = births
  BY DEF Verify, Goto, Unsignalled, kernel
<1>2. /\ found \in Identity /\ handle \in Identity /\ found[1] \in Pid
      /\ found[2] \in Nat /\ handle[2] \in Nat /\ found[1] \notin todo
      /\ table[found[1]] # None =>
           table[found[1]] \in Tasks /\ table[found[1]].start \in Nat
  BY <1>1 DEF IInv, TypeOK, Found, Handled, Identity, Tasks
<1>3. Verified => handle = found
  BY <1>1, <1>2 DEF Verified, Present, IInv, Found, Handled, Identity
<1>4. \A id \in members': NotReused(id) /\ id \in Identity
  BY <1>1, <1>2, <1>3 DEF IInv, Known, Found, TypeOK
<1>5. members \subseteq members'
  BY <1>1
<1>6. TypeOK' /\ Anchored' /\ OnlyKinInGroup' /\ Known' /\ NoStranger'
  <2>1. left' \subseteq members' /\ members' \subseteq Identity /\ since' \in 0..births
    BY <1>1, <1>4, <1>5 DEF IInv, TypeOK, Known
  <2>2. QED
    BY <1>1, <1>4, <2>1, Inside DEF Places, IInv, TypeOK
<1>7. ASSUME NEW q \in Pid, q = found[1] PROVE Covered(q)'
  <2>1. CASE Verified
    <3>1. found = <<q, table[q].start>> /\ found \in members'
      BY <1>1, <1>2, <1>3, <1>7, <2>1 DEF Identity, Verified, Present
    <3>2. QED
      BY <1>1, <3>1 DEF Covered
  <2>2. CASE ~Verified
    <3>1. table[q] # None /\ table[q].start <= since => table[q].start = found[2]
      BY <1>1, <1>7 DEF IInv, Found
    <3>2. ~(table[q] # None /\ table[q].group /\ table[q].start <= since)
      BY <1>7, <2>2, <3>1 DEF Verified, Present
    <3>3. QED
      BY <1>1, <3>2 DEF Covered
  <2>3. QED
    BY <2>1, <2>2
<1>8. ASSUME NEW q \in Pid \ todo' PROVE Covered(q)'
  <2>1. CASE q = found[1]
    BY <1>7, <2>1
  <2>2. CASE q # found[1]
    <3>1. Covered(q)
      BY <1>1, <2>2 DEF IInv, Reached
    <3>2. QED
      BY <1>1, <1>5, <3>1 DEF Covered
  <2>3. QED
    BY <2>1, <2>2
<1>9. QED
  BY <1>1, <1>6, <1>8 DEF IInv, Found, Handled, Reached, WaitReturns, OnlyNewbornsSurvive

\* The listing ends: what the group held when it began is pinned, the child too.
LEMMA ListedStep ==
  ASSUME IInv, Listed
  PROVE  IInv'
<1>1. CASE ~AnchorHolds
  <2>1. pc # "ended" /\ Fail /\ UNCHANGED <<caller, dropping, clock, members>>
    BY <1>1 DEF Listed
  <2>2. QED
    BY <2>1, FailStep
<1>2. CASE AnchorHolds
  <2>1. /\ pc = "scan" /\ pc' = "signal" /\ Unsignalled /\ todo = {} /\ left' = members
        /\ UNCHANGED <<value, since, todo, found, handle, active, caller, dropping, clock, members>>
        /\ table' = table
    BY <1>2 DEF Listed, Goto, Unsignalled, kernel
  <2>2. TypeOK' /\ Anchored' /\ OnlyKinInGroup' /\ Known' /\ NoStranger'
    BY <2>1, Inside DEF Places, IInv, TypeOK, Known
  <2>3. \A q \in Pid: Covered(q)
    BY <2>1 DEF IInv, Reached
  <2>4. Child \in members
    <3>1. table[Leader] # None /\ table[Leader].group /\ table[Leader].start = 0
      BY <1>2 DEF AnchorHolds, Present, Child
    <3>2. since \in Nat
      BY DEF IInv, TypeOK
    <3>3. QED
      BY <2>3, <3>1, <3>2, LeaderAssumption DEF Covered, Child
  <2>5. Reached'
    BY <2>1, <2>3, <2>4 DEF Reached, Covered, Child
  <2>6. QED
    BY <2>1, <2>2, <2>5 DEF IInv, Found, Handled, WaitReturns, OnlyNewbornsSurvive
<1>3. QED
  BY <1>1, <1>2

\* A member is signalled through its handle: it is the child's kin.
LEMMA SignalStep ==
  ASSUME IInv, NEW id \in left, SignalMember(id)
  PROVE  IInv'
<1>1. /\ pc = "signal" /\ left' = left \ {id} /\ SendTo(id, value)
      /\ active' = (active \/ Alive(id))
      /\ UNCHANGED <<caller, pc, dropping, clock, value, since, todo, found, handle, members>>
  BY DEF SignalMember
<1>2. id \in members /\ id \in Identity /\ NotReused(id) /\ value \in {"TERM", "KILL"}
  BY DEF IInv, TypeOK, Known
<1>3. Moves /\ births' = births /\ stranger' = stranger
  BY <1>1, <1>2, OwnerMove
<1>4. TypeOK'
  BY <1>1, <1>3 DEF IInv, TypeOK, Moves, Alive
<1>5. Anchored' /\ OnlyKinInGroup'
  BY <1>1, <1>3, MovesKeep DEF Anchored, OnlyKinInGroup
<1>6. Known'
  BY <1>1, <1>3, KnownKeeps
<1>7. \A p \in Pid: Covered(p)'
  BY <1>1, <1>3, CoveredKeeps DEF IInv, Reached
<1>8. ASSUME NEW m \in members' \ left' PROVE active' \/ ~Alive(m)'
  <2>1. m \in members /\ m \in Identity /\ m[2] <= births
    BY <1>1 DEF IInv, TypeOK, Known, NotReused
  <2>2. active' \/ ~Alive(m)
    BY <1>1, <2>1 DEF IInv, Reached
  <2>3. ~Alive(m) => ~Alive(m)'
    BY <1>3, <2>1, MovesKeep
  <2>4. QED
    BY <2>2, <2>3
<1>9. Reached'
  BY <1>1, <1>7, <1>8 DEF IInv, Reached, Child
<1>10. QED
  BY <1>1, <1>3, <1>4, <1>5, <1>6, <1>9
  DEF IInv, Found, Handled, WaitReturns, OnlyNewbornsSurvive, NoStranger

\* The last round saw nobody alive: the child is dead, and so is all that was
\* in the group when the round began.
LEMMA RoundEndsStep ==
  ASSUME IInv, RoundEnds
  PROVE  IInv'
<1>1. pc = "signal" /\ left = {} /\ UNCHANGED <<caller, dropping, clock, members>>
  BY DEF RoundEnds
<1>2. /\ \A p \in Pid: Covered(p)
      /\ Child \in members
      /\ \A id \in members: active \/ ~Alive(id)
      /\ Present(Child)
  BY <1>1 DEF IInv, Reached, Anchored
<1>3. CASE Fail
  BY <1>1, <1>3, FailStep
<1>4. CASE Forgotten /\ since' = 0 /\ Goto("anchor") /\ Unsignalled
  <2>1. Moves /\ births' = births /\ stranger' = stranger
    BY <1>4, OwnerMove
  <2>2. QED
    BY <1>1, <1>4, <2>1, Outside DEF Forgotten, Goto, IInv, TypeOK
<1>5. CASE ~active /\ Forgotten /\ UNCHANGED since /\ Goto("wait") /\ Unsignalled
  <2>1. table' = table /\ pc' = "wait" /\ since' = since
    BY <1>5 DEF Goto, Unsignalled, kernel
  <2>2. TypeOK' /\ Anchored' /\ OnlyKinInGroup' /\ Known' /\ NoStranger'
    <3>1. since' \in 0..births /\ members \subseteq Identity
          /\ \A id \in members: NotReused(id)
      BY <2>1 DEF IInv, TypeOK, Known
    <3>2. /\ value' \in {"TERM", "KILL"} /\ todo' \subseteq Pid /\ left' \subseteq members'
          /\ found' \in Identity \cup {None} /\ handle' \in Identity \cup {None}
          /\ active' \in BOOLEAN
      BY <1>5 DEF Forgotten
    <3>3. pc' # "ended" /\ pc' \in Places /\ pc # "ended"
      BY <1>1, <2>1 DEF Places
    <3>4. QED
      BY <1>1, <1>5, <3>1, <3>2, <3>3, Inside
  <2>3. WaitReturns'
    BY <1>2, <1>5, <2>1 DEF WaitReturns, Exited, Alive, Present, Child
  <2>4. OnlyNewbornsSurvive'
    <3> SUFFICES ASSUME NEW p \in Pid, table[p] # None, table[p].group,
                        table[p].state = "running", table[p].start <= since
                 PROVE  FALSE
      <4>1. \A p \in Pid: table[p] # None => table[p].start \in Nat
        BY DEF IInv, TypeOK, Tasks
      <4>2. since \in Nat
        BY DEF IInv, TypeOK
      <4>3. QED
        BY <2>1, <4>1, <4>2 DEF OnlyNewbornsSurvive
    <3>1. <<p, table[p].start>> \in members
      BY <1>2 DEF Covered
    <3>2. Alive(<<p, table[p].start>>)
      BY DEF Alive, Present
    <3>3. QED
      BY <1>2, <1>5, <3>1, <3>2
  <2>5. QED
    BY <2>1, <2>2, <2>3, <2>4 DEF IInv, Found, Handled, Reached
<1>6. QED
  BY <1>1, <1>3, <1>4, <1>5 DEF RoundEnds, Succeed

\* Every step.
LEMMA StepIInv ==
  ASSUME IInv, [Next]_vars
  PROVE  IInv'
<1>1. CASE UNCHANGED vars
  BY <1>1 DEF vars, kernel, round, look, IInv, TypeOK, Anchored, OnlyKinInGroup, Known, Found,
     Handled, Reached, Covered, NotReused, NoStranger, WaitReturns, OnlyNewbornsSurvive,
     Present, Alive, Exited, Child
<1>2. CASE Tick
  BY <1>2 DEF Tick, kernel, round, look, IInv, TypeOK, Anchored, OnlyKinInGroup, Known, Found,
     Handled, Reached, Covered, NotReused, NoStranger, WaitReturns, OnlyNewbornsSurvive,
     Present, Alive, Exited, Child
<1>3. CASE Unreadable
  BY <1>3, FailStep DEF Unreadable
<1>4. CASE Step
  BY <1>3, <1>4, CallerStep, ReapStep, BeginStep, VisitStep, PinStep, VerifyStep, ListedStep,
     SignalStep, RoundEndsStep DEF Step
<1>5. QED
  BY <1>1, <1>2, <1>4, OthersStep DEF Next

\* At first there is the child.
LEMMA InitIInv == Init => IInv
<1> SUFFICES ASSUME Init PROVE IInv
  OBVIOUS
<1>1. Task(0, TRUE, TRUE) \in Tasks /\ Task(0, TRUE, TRUE) # None
      /\ Task(0, TRUE, TRUE).start = 0 /\ Task(0, TRUE, TRUE).kin
  BY TaskType
<1>2. TypeOK
  <2>1. table \in [Pid -> Tasks \cup {None}]
    BY <1>1 DEF Init
  <2>2. births \in 0..MaxBirths /\ since \in 0..MaxBirths
    BY BirthsAssumption DEF Init
  <2>3. /\ caller \in {"capture", "stdio"} /\ pc \in Places /\ dropping \in BOOLEAN
        /\ value \in {"TERM", "KILL"} /\ active \in BOOLEAN /\ stranger \in BOOLEAN
    BY DEF Init, Places
  <2>4. /\ clock \in 0..2 /\ todo \subseteq Pid /\ members \subseteq Identity
        /\ left \subseteq members /\ found \in Identity \cup {None}
        /\ handle \in Identity \cup {None}
    BY DEF Init
  <2>5. QED
    BY <2>1, <2>2, <2>3, <2>4 DEF TypeOK
<1>3. Present(Child)
  BY <1>1, LeaderAssumption DEF Init, Present, Child
<1>4. \A p \in Pid: table[p] # None => table[p].start = 0 /\ table[p].kin
  BY <1>1 DEF Init
<1>5. OnlyKinInGroup /\ Known
  <2>1. births = 0 /\ since = 0 /\ members = {}
    BY DEF Init
  <2>2. NotReused(Child)
    BY <1>4, <2>1, LeaderAssumption DEF NotReused, Present, Child
  <2>3. QED
    BY <1>4, <2>1, <2>2 DEF OnlyKinInGroup, Known
<1>6. QED
  BY <1>2, <1>3, <1>5 DEF Init, IInv, Anchored, Found, Handled, Reached, NoStranger,
     WaitReturns, OnlyNewbornsSurvive

\* The invariant of the cleanup: the anchor, what identities mean, and what a
\* round has pinned.
THEOREM Inductive == Spec => []IInv
BY InitIInv, StepIInv, PTL DEF Spec

\* No signal reaches a process that the child did not start (group.rs).
THEOREM SignalsKinOnly == Spec => []NoStranger
<1>1. IInv => NoStranger
  BY DEF IInv
<1>2. QED
  BY <1>1, Inductive, PTL

\* The wait after a cleanup that succeeded finds a dead child (capture.rs, rpc.rs).
THEOREM WaitDoesNotBlock == Spec => []WaitReturns
<1>1. IInv => WaitReturns
  BY DEF IInv
<1>2. QED
  BY <1>1, Inductive, PTL

\* A cleanup that succeeded leaves newborns at most (OwnedGroup::step).
THEOREM GroupIsGone == Spec => []OnlyNewbornsSurvive
<1>1. IInv => OnlyNewbornsSurvive
  BY DEF IInv
<1>2. QED
  BY <1>1, Inductive, PTL
=============================================================================
