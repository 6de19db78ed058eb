-------------------------------- MODULE Paging --------------------------------
(***************************************************************************)
(* One reader of a mailbox's pages while messages are saved, answered and  *)
(* acknowledged: htalk watch, which follows the inbox for good, and the    *)
(* pages of inbox, sent and a published inbox, which a caller follows to   *)
(* the end (src/store.rs page, src/commands/read.rs, src/catalog/mailbox.rs*)
(* page).                                                                  *)
(***************************************************************************)
EXTENDS Integers, FiniteSets, Sequences

CONSTANTS
  Limit,   \* messages of a page
  MaxSeq,  \* messages that are saved
  Top      \* a sequence number beyond all

ASSUME TopAssumption == Limit \in Nat \ {0} /\ MaxSeq \in Nat /\ Top \in Nat /\ Top > MaxSeq

VARIABLES
  mode,    \* what the reader does
  box,     \* the saved messages, by sequence number
  closed,  \* requests that are answered and answers that are acknowledged
  writer,  \* messages that a transaction has inserted and not committed
  place,   \* where the reader is
  cursor,  \* the last sequence number it has shown
  page,    \* the rest of the page it is showing
  more,    \* whether there are messages beyond the page
  shown,   \* what it has shown, in order
  first    \* what matched at its first page

reader == <<place, cursor, page, more, shown, first>>
vars == <<mode, box, closed, writer, reader>>

\* A message to the reader from a published peer or another one, or by it.
Kind == {"published", "other", "sent"}
Seqs == DOMAIN box

Init ==
  /\ mode \in {"watch", "inbox", "sent", "published"}
  /\ box = <<>> /\ closed = {} /\ writer = {}
  /\ place = "read" /\ cursor = IF mode = "sent" THEN Top ELSE 0
  /\ page = <<>> /\ more = FALSE /\ shown = <<>> /\ first = {}

-----------------------------------------------------------------------------
(* Saving, answering and acknowledging.                                    *)

\* SQLite has one writer, so messages are committed in the order they are
\* numbered.
Alone == writer = {}

Saved(s) == box[s] # "none"

\* A number is taken as the row is inserted, and used again after a rollback.
Insert ==
  /\ Alone /\ Len(box) < MaxSeq
  /\ box' = Append(box, "none")
  /\ writer' = writer \cup {Len(box) + 1}
  /\ UNCHANGED <<mode, closed, reader>>

Commit ==
  /\ \E s \in writer, k \in Kind:
       box' = [box EXCEPT ![s] = k] /\ writer' = writer \ {s}
  /\ UNCHANGED <<mode, closed, reader>>

Rollback ==
  /\ Len(box) \in writer
  /\ box' = SubSeq(box, 1, Len(box) - 1) /\ writer' = writer \ {Len(box)}
  /\ UNCHANGED <<mode, closed, reader>>

\* What is answered or acknowledged stays so.
CloseMessage ==
  /\ \E s \in Seqs \ closed: Saved(s) /\ closed' = closed \cup {s}
  /\ UNCHANGED <<mode, box, writer, reader>>

-----------------------------------------------------------------------------
(* Pages.                                                                  *)

Newest == mode = "sent"

Inbox(s) == box[s] \in {"published", "other"} /\ s \notin closed

Matches(s) == CASE mode = "sent" -> box[s] = "sent"
                [] mode = "published" -> Inbox(s) /\ box[s] = "published"
                [] OTHER -> Inbox(s)

Beyond(s) == IF Newest THEN s < cursor ELSE s > cursor

Before(s, t) == IF Newest THEN s > t ELSE s < t

Rest == {s \in Seqs: Matches(s) /\ Beyond(s)}

\* S in the order of the page, as the one sequence that lists it so.
Ordered(S) == {q \in [1..Cardinality(S) -> S]:
                 /\ \A s \in S: \E i \in 1..Cardinality(S): q[i] = s
                 /\ \A i, j \in 1..Cardinality(S): i < j => Before(q[i], q[j])}

\* ORDER BY ... LIMIT.
FirstOf(q) == SubSeq(q, 1, IF Len(q) <= Limit THEN Len(q) ELSE Limit)

\* MUTANT of PageOf: the published peers are picked from a page of all.
PageOfAll(q) ==
  LET all == CHOOSE r \in Ordered({s \in Seqs: Saved(s) /\ Beyond(s)}): TRUE
  IN  SelectSeq(FirstOf(all), Matches)

PageOf(q) == FirstOf(q)

\* What is counted beyond a page.
Omitted(p) == IF p = <<>> THEN {} ELSE {s \in Rest: Before(p[Len(p)], s)}

\* Rows and counts come from one snapshot; watch tries again while it is busy.
Read ==
  /\ place = "read"
  /\ \E q \in Ordered(Rest): page' = PageOf(q) /\ more' = (Omitted(PageOf(q)) # {})
  /\ place' = "show"
  /\ first' = IF first = {} /\ shown = <<>> THEN Rest ELSE first
  /\ UNCHANGED <<mode, box, closed, writer, cursor, shown>>

\* MUTANT of After: watch goes on after the newest message there is.
AfterNewest(s) == IF mode = "watch" THEN Cardinality({t \in Seqs: Saved(t)}) ELSE s

\* The reader goes on after the message it has shown.
After(s) == s

Show ==
  /\ place = "show" /\ page # <<>>
  /\ shown' = Append(shown, Head(page)) /\ cursor' = After(Head(page))
  /\ page' = Tail(page)
  /\ UNCHANGED <<mode, box, closed, writer, place, more, first>>

\* MUTANT of Goes: watch ends with the first page.
GoesOnIfMore == more

\* watch reads on, a second later if there was no more; a page of inbox or sent
\* names the next one if there is more.
Goes == mode = "watch" \/ more

NextPage ==
  /\ place = "show" /\ page = <<>>
  /\ place' = IF Goes THEN "read" ELSE "end"
  /\ UNCHANGED <<mode, box, closed, writer, cursor, page, more, shown, first>>

\* An interrupt, or nobody reads what is shown.
Stop ==
  /\ place \in {"read", "show"}
  /\ place' = "stopped"
  /\ UNCHANGED <<mode, box, closed, writer, cursor, page, more, shown, first>>

-----------------------------------------------------------------------------
Reader == Read \/ Show \/ NextPage

Next == Reader \/ Stop \/ Insert \/ Commit \/ Rollback \/ CloseMessage

Spec == Init /\ [][Next]_vars

\* The reader goes on, and a busy database lets it read in the end.
FairSpec == Spec /\ WF_vars(Reader)

-----------------------------------------------------------------------------
(* Correctness.                                                            *)

Shown == {shown[i]: i \in 1..Len(shown)}

TypeOK ==
  /\ mode \in {"watch", "inbox", "sent", "published"}
  /\ Len(box) <= MaxSeq /\ \A s \in Seqs: box[s] \in Kind \cup {"none"}
  /\ writer = {s \in Seqs: ~Saved(s)} /\ closed \subseteq Seqs
  /\ place \in {"read", "show", "end", "stopped"}
  /\ cursor \in 0..Top /\ more \in BOOLEAN /\ Len(page) <= Limit
  /\ \A i \in 1..Len(page): Beyond(page[i])
  /\ Len(shown) <= MaxSeq

\* "Each ID appears once in that process": what is shown goes on in one
\* direction, whatever is saved or closed between two pages (store.rs:680-698).
ShownOnceInOrder == \A i, j \in 1..Len(shown): i < j => Before(shown[i], shown[j])

\* watch passes no open message over: what it has gone beyond it has shown,
\* unless it was answered or acknowledged before its page was read.
NothingPassedOver ==
  \A s \in Seqs: Matches(s) /\ ~Newest /\ ~Beyond(s) => s \in Shown

\* Whoever follows the pages to the end has seen all that matched at the first
\* one and still does, and nothing of a peer that is not published.
ListedAll ==
  /\ place = "end" => \A s \in first: Matches(s) => s \in Shown
  /\ mode = "published" => \A s \in Shown: box[s] = "published"

Multiple(n) == \E k \in 0..n: n = k * Limit

\* Every page but the last is full: where there is more beyond the page, what was
\* listed so far and the rest of the page are so many whole pages (catalog/mailbox.rs:
\* "Apply the catalogue's conversation filter before pagination and counts").
FullPages ==
  mode # "watch" /\ place = "show" /\ more => Multiple(Len(shown) + Len(page))

\* The pages are whole: full, in order, without repetition, and nothing is missing
\* between them.
PagesAreWhole == TypeOK /\ ShownOnceInOrder /\ FullPages /\ ListedAll

\* What stays open is shown in the end, as long as watch runs.
ShownInTheEnd ==
  \A s \in 1..MaxSeq:
    (mode = "watch" /\ s \in Seqs /\ Inbox(s)) ~> (s \in Shown \/ s \in closed \/ place = "stopped")

-----------------------------------------------------------------------------
(* Why: the inductive invariant.                                           *)

\* Where a reader begins.
Start == IF Newest THEN Top ELSE 0

\* What the reader is to list: all that is there, and for a list from the newest
\* one what was there at its first page.
Due(s) == Matches(s) /\ (s \in first \/ ~Newest)

OnPage(s) == \E i \in 1..Len(page): page[i] = s

\* One transaction writes at a time, the last message; whatever else was seen is
\* saved, and the reader is at what it showed last.
StoreInv ==
  /\ box \in Seq(Kind \cup {"none"}) /\ page \in Seq(1..MaxSeq) /\ shown \in Seq(1..MaxSeq)
  /\ first \subseteq 1..MaxSeq
  /\ writer \subseteq {Len(box)}
  /\ \A s \in closed \cup first \cup Shown: s \in Seqs /\ Saved(s)
  /\ \A i \in 1..Len(page): page[i] \in Seqs /\ Saved(page[i])
  /\ cursor = IF shown = <<>> THEN Start ELSE shown[Len(shown)]

\* The page goes on from the cursor and leaves nothing out up to its end.
PageInv ==
  /\ \A i, j \in 1..Len(page): i < j => Before(page[i], page[j])
  /\ page # <<>> =>
       \A s \in Seqs: Due(s) /\ Beyond(s) /\ ~Before(page[Len(page)], s) => OnPage(s)
  /\ place = "show" /\ ~more => \A s \in first: Matches(s) /\ Beyond(s) => OnPage(s)
  /\ mode = "published" => \A i \in 1..Len(page): box[page[i]] = "published"

\* What is behind the cursor was shown, and at the end nothing is before it.
PassedInv ==
  /\ \A s \in Seqs: Due(s) /\ ~Beyond(s) => s \in Shown
  /\ place = "end" => \A s \in first: Matches(s) => ~Beyond(s)
  /\ mode = "published" => \A s \in Shown: box[s] = "published"

\* Whole pages were listed where the next one is to be read.
FullInv == FullPages /\ (mode # "watch" /\ place = "read" => Multiple(Len(shown)))

IInv == TypeOK /\ StoreInv /\ ShownOnceInOrder /\ PageInv /\ PassedInv /\ FullInv
=============================================================================
