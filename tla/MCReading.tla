------------------------------ MODULE MCReading ------------------------------
(***************************************************************************)
(* Instances of Paging and of Grace for TLC, explored in one run: a        *)
(* behaviour is of a reader that follows pages or of a peer that waits for *)
(* its answer, and the other module stays at its start.                    *)
(***************************************************************************)
EXTENDS Paging

CONSTANTS Waiter, Gap, Span, Longest, Keep, MaxTime

ASSUME TimesAssumption ==
  /\ Gap \in Nat \ {0} /\ Span \in Nat /\ Longest \in Nat /\ Keep \in Nat /\ MaxTime \in Nat
  /\ Gap < Span

VARIABLES
  reads,  \* which of them it is
  now, answered, receipt, until, waiter, deadline, due, failed, notice, claimed, end, relied

waiting == <<now, answered, receipt, until, waiter, deadline, due, failed, notice, claimed,
             end, relied>>

Waiting == INSTANCE Grace

ReadingInit ==
  /\ reads \in {"pages", "answer"}
  /\ Init /\ Waiting!Init
  /\ reads = "answer" => mode = "watch"

ReadingNext ==
  \/ reads = "pages" /\ UNCHANGED <<reads, waiting>> /\ Next
  \/ reads = "answer" /\ UNCHANGED <<reads, vars>> /\ Waiting!Next

ReadingSpec ==
  /\ ReadingInit /\ [][ReadingNext]_<<reads, vars, waiting>>
  /\ WF_<<reads, vars, waiting>>(reads = "pages" /\ Reader /\ UNCHANGED <<reads, waiting>>)

\* No notice is sent of an answer that a wait has had time to return, unless the
\* wait was killed or its receipt could not be written (store.rs:538-552), and "a
\* stale registration only costs this bounded wait; it never skips by itself"
\* (store.rs:539).
NoticeWaitsForItsWait ==
  Waiting!TypeOK /\ Waiting!NoNeedlessNotice /\ Waiting!StaleRowsOnlyDelay
=============================================================================
