---------------------------- MODULE ReadingProofs ----------------------------
(***************************************************************************)
(* Paging and Grace proved, for pages of any size, any number of messages  *)
(* and of waits, and whatever the pauses are: what is behind the reader's  *)
(* cursor was shown, as rows are committed in the order of their numbers;  *)
(* and a wait that the notice relies on polls before its grace is over.    *)
(* The theorems are of MCReading, whose behaviours are those of either.    *)
(***************************************************************************)
EXTENDS MCReading, TLAPS, FiniteSetTheorems, WellFoundedInduction

-----------------------------------------------------------------------------
(* Paging: orders and pages.                                               *)

\* Before is a strict order of the numbers, one way or the other.
LEMMA BeforeOrders ==
  ASSUME NEW x \in Nat, NEW y \in Nat, NEW z \in Nat
  PROVE  /\ ~Before(x, x)
         /\ x # y => Before(x, y) \/ Before(y, x)
         /\ Before(x, y) => ~Before(y, x)
         /\ Before(x, y) /\ Before(y, z) => Before(x, z)
BY DEF Before

\* A message is beyond the cursor if it comes after it.
LEMMA BeyondIsAfter ==
  ASSUME NEW s, cursor \in Int
  PROVE  Beyond(s) <=> Before(cursor, s)
BY DEF Beyond, Before

\* A sequence of n numbers without repetition has n members at most.
LEMMA NoLongerThan ==
  ASSUME NEW n \in Nat, NEW f \in Seq(1..n),
         \A i, j \in 1..Len(f): i < j => f[i] # f[j]
  PROVE  Len(f) <= n
<1>1. Len(f) \in Nat /\ f \in [1..Len(f) -> 1..n]
  OBVIOUS
<1>2. \A i, j \in 1..Len(f): f[i] = f[j] => i = j
  <2>1. SUFFICES ASSUME NEW i \in 1..Len(f), NEW j \in 1..Len(f), f[i] = f[j] PROVE i = j
    OBVIOUS
  <2>2. i < j \/ j < i \/ i = j
    BY <1>1
  <2>3. QED BY <2>1, <2>2
<1>3. f \in Injection(1..Len(f), 1..n)
  BY <1>1, <1>2 DEF Injection, IsInjective
<1>4. \A k \in Nat: IsFiniteSet(1..k) /\ Cardinality(1..k) = k
  <2>1. TAKE k \in Nat
  <2>2. /\ IsFiniteSet(1..k)
        /\ Cardinality(1..k) = IF 1 > k THEN 0 ELSE k - 1 + 1
    BY FS_Interval
  <2>3. QED BY <2>2
<1>5. QED BY <1>1, <1>3, <1>4, FS_Injection

\* A sequence of members of a set is one of members of a larger set.
LEMMA WiderSeq ==
  ASSUME NEW S, NEW T, S \subseteq T, NEW p \in Seq(S)
  PROVE  p \in Seq(T)
<1>1. Len(p) \in Nat /\ p = [i \in 1..Len(p) |-> p[i]] /\ \A i \in 1..Len(p): p[i] \in T
  OBVIOUS
<1> DEFINE n == Len(p)
<1> HIDE DEF n
<1>2. \A k \in Nat: \A f \in [1..k -> T]: f \in Seq(T)
  OBVIOUS
<1>3. p \in [1..n -> T]
  BY <1>1 DEF n
<1>4. QED BY <1>1, <1>2, <1>3 DEF n

\* The pages hold what matches, in order, from the first on.
LEMMA PageHolds ==
  ASSUME box \in Seq(Kind \cup {"none"}), NEW q \in Ordered(Rest), NEW p, p = PageOf(q)
  PROVE  /\ p \in Seq(Rest) /\ Len(p) <= Limit
         /\ \A i, j \in 1..Len(p): i < j => Before(p[i], p[j])
         /\ \A s \in Rest: \/ \E i \in 1..Len(p): p[i] = s
                           \/ p # <<>> /\ Before(p[Len(p)], s)
         /\ Omitted(p) # {} => Len(p) = Limit
<1> DEFINE n == Cardinality(Rest)  m == IF n <= Limit THEN n ELSE Limit
<1>1. n \in Nat
  <2>1. Rest \in SUBSET (1..Len(box)) /\ Len(box) \in Nat
    BY DEF Rest, Seqs
  <2>2. IsFiniteSet(1..Len(box))
    BY <2>1, FS_Interval
  <2>3. IsFiniteSet(Rest)
    BY <2>1, <2>2, FS_Subset
  <2>4. QED BY <2>3, FS_CardinalityType
<1>2. /\ q \in [1..n -> Rest]
      /\ \A s \in Rest: \E i \in 1..n: q[i] = s
      /\ \A i, j \in 1..n: i < j => Before(q[i], q[j])
  BY DEF Ordered
<1> HIDE DEF n
<1>3. Len(q) = n /\ q \in Seq(Rest)
  BY <1>1, <1>2
<1>4. p = SubSeq(q, 1, m)
  BY <1>3 DEF PageOf, FirstOf
<1>5. m \in Nat /\ m <= n /\ m <= Limit /\ (m = n \/ (m = Limit /\ m # 0))
  BY <1>1, TopAssumption
<1> HIDE DEF m
<1>6. p \in Seq(Rest) /\ Len(p) = m /\ \A i \in 1..m: p[i] = q[i]
  BY <1>1, <1>2, <1>3, <1>4, <1>5
<1>7. \A i, j \in 1..m: i < j => Before(p[i], p[j])
  <2>1. TAKE i, j \in 1..m
  <2>2. i \in 1..n /\ j \in 1..n
    BY <1>1, <1>5
  <2>3. QED BY <1>2, <1>6, <2>2
<1>8. ASSUME NEW s \in Rest
      PROVE  \/ \E i \in 1..m: p[i] = s
             \/ p # <<>> /\ Before(p[m], s)
  <2>1. PICK i \in 1..n: q[i] = s
    BY <1>2
  <2>2. CASE i <= m
    <3>1. i \in 1..m
      BY <1>1, <1>5, <2>2
    <3>2. QED BY <1>6, <2>1, <3>1
  <2>3. CASE i > m
    <3>1. m # 0 /\ m \in 1..m /\ m \in 1..n /\ m < i
      BY <1>1, <1>5, <2>3
    <3>2. Before(q[m], q[i])
      BY <1>2, <3>1
    <3>3. p # <<>>
      BY <1>6, <3>1
    <3>4. QED BY <1>6, <2>1, <3>1, <3>2, <3>3
  <2>4. QED BY <1>1, <1>5, <2>2, <2>3
<1>9. ASSUME Omitted(p) # {}, m = n PROVE FALSE
  <2>1. p # <<>> /\ \E s \in Rest: Before(p[Len(p)], s)
    BY <1>9 DEF Omitted
  <2>2. PICK s \in Rest: Before(p[Len(p)], s)
    BY <2>1
  <2>3. PICK i \in 1..n: q[i] = s
    BY <1>2
  <2>4. n \in 1..n /\ Before(q[n], q[i])
    BY <1>1, <1>6, <1>9, <2>1, <2>2, <2>3
  <2>5. i = n \/ Before(q[i], q[n])
    BY <1>1, <1>2, <2>4
  <2>6. Rest \subseteq Nat
    BY DEF Rest, Seqs
  <2>7. q[i] \in Nat /\ q[n] \in Nat
    BY <1>2, <2>4, <2>6
  <2>8. QED BY <2>4, <2>5, <2>7, BeforeOrders
<1>10. QED BY <1>5, <1>6, <1>7, <1>8, <1>9

\* Another full page makes another multiple.
LEMMA OnePageMore ==
  ASSUME NEW n \in Nat, Multiple(n)
  PROVE  Multiple(n + Limit)
<1>1. PICK k \in 0..n: n = k * Limit
  BY DEF Multiple
<1>2. n + Limit = (k + 1) * Limit
  BY <1>1, TopAssumption
<1>3. k + 1 \in 0..n + Limit
  BY <1>1, TopAssumption
<1>4. QED BY <1>2, <1>3 DEF Multiple

\* What was seen is a number, and the cursor is one.
LEMMA Numbers ==
  ASSUME IInv
  PROVE  /\ Len(box) \in Nat /\ Len(page) \in Nat /\ Len(shown) \in Nat
         /\ Seqs = 1..Len(box) /\ Seqs \subseteq Nat /\ cursor \in Nat
         /\ \A i \in 1..Len(page): page[i] \in Nat
         /\ \A i \in 1..Len(shown): shown[i] \in Shown /\ shown[i] \in Nat
         /\ MaxSeq \in Nat /\ Top \in Int /\ MaxSeq < Top /\ Limit \in Nat /\ Limit >= 1
<1>1. box \in Seq(Kind \cup {"none"}) /\ page \in Seq(1..MaxSeq) /\ shown \in Seq(1..MaxSeq)
  BY DEF IInv, StoreInv
<1>2. cursor \in 0..Top
  BY DEF IInv, TypeOK
<1>3. \A i \in 1..Len(shown): shown[i] \in Shown /\ shown[i] \in Nat
  BY <1>1, TopAssumption DEF Shown
<1>4. \A i \in 1..Len(page): page[i] \in Nat
  BY <1>1, TopAssumption
<1>5. Len(box) \in Nat /\ Len(page) \in Nat /\ Len(shown) \in Nat /\ Seqs = 1..Len(box)
  BY <1>1 DEF Seqs
<1>6. Seqs \subseteq Nat
  BY <1>5
<1>7. MaxSeq \in Nat /\ Top \in Int /\ MaxSeq < Top /\ Limit \in Nat /\ Limit >= 1
  BY TopAssumption
<1>8. QED BY <1>2, <1>3, <1>4, <1>5, <1>6, <1>7

-----------------------------------------------------------------------------
(* Paging: the store.                                                      *)

\* What is new is behind nothing that was seen.
New(s) == s \in Nat \ {0} /\ s \notin first /\ \A t \in Seqs: Saved(t) => t < s

\* A transaction that leaves what is saved, and adds only what is new, leaves the
\* reader with the truth.
LEMMA StoreKeeps ==
  ASSUME IInv, UNCHANGED <<mode, reader>>,
         box' \in Seq(Kind \cup {"none"}), Len(box') <= MaxSeq,
         writer' = {s \in Seqs': ~Saved(s)'}, writer' \subseteq {Len(box')},
         \A s \in Seqs: Saved(s) => s \in Seqs' /\ box'[s] = box[s],
         \A s \in closed': s \in Seqs' /\ Saved(s)',
         \A s \in Seqs': Matches(s)' => (s \in Seqs /\ Matches(s)) \/ New(s)
  PROVE  IInv'
<1>1. UNCHANGED <<mode, place, cursor, page, more, shown, first>>
  BY DEF reader
<1>2. TypeOK'
  BY <1>1 DEF IInv, TypeOK, Beyond, Newest, Seqs
<1>3. StoreInv'
  <2>1. \A s \in closed' \cup first \cup Shown: s \in Seqs' /\ Saved(s)'
    BY DEF IInv, StoreInv, Saved
  <2>2. \A i \in 1..Len(page): page[i] \in Seqs' /\ box'[page[i]] # "none"
    <3>1. TAKE i \in 1..Len(page)
    <3>2. page[i] \in Seqs /\ Saved(page[i])
      BY DEF IInv, StoreInv
    <3> DEFINE t == page[i]
    <3> HIDE DEF t
    <3>3. t \in Seqs' /\ box'[t] # "none"
      BY <3>2 DEF Saved, t
    <3>4. QED BY <3>3 DEF t
  <2>3. Shown' = Shown /\ Start' = Start
    BY <1>1 DEF Shown, Start, Newest
  <2>4. \A i \in 1..Len(page'): page'[i] \in Seqs' /\ Saved(page[i])'
    BY <1>1, <2>2 DEF Saved
  <2>5. QED BY <1>1, <2>1, <2>3, <2>4 DEF IInv, StoreInv, Saved
<1>4. ShownOnceInOrder'
  BY <1>1 DEF IInv, ShownOnceInOrder, Before, Newest
<1>5. \A s, t: Beyond(s)' = Beyond(s) /\ Before(s, t)' = Before(s, t) /\ Newest' = Newest
  BY <1>1 DEF Beyond, Before, Newest
<1>6. ASSUME NEW s, New(s)
      PROVE  /\ ~Newest => Beyond(s) /\ (page # <<>> => Before(page[Len(page)], s))
             /\ Due(s)' => ~Newest
  <2>1. ~Newest => cursor < s
    <3>1. shown # <<>> => Len(shown) \in 1..Len(shown)
      BY Numbers
    <3>2. shown # <<>> => shown[Len(shown)] \in Shown
      BY <3>1, Numbers
    <3>3. shown # <<>> => cursor < s
      BY <1>6, <3>2 DEF IInv, StoreInv, New
    <3>4. shown = <<>> /\ ~Newest => cursor < s
      BY <1>6 DEF IInv, StoreInv, New, Start
    <3>5. QED BY <3>3, <3>4
  <2>2. page # <<>> => page[Len(page)] < s
    <3>1. page # <<>> => Len(page) \in 1..Len(page)
      BY DEF IInv, StoreInv
    <3>2. QED BY <1>6, <3>1 DEF IInv, StoreInv, New
  <2>3. QED BY <1>1, <1>5, <1>6, <2>1, <2>2 DEF Beyond, Before, Due, New
<1>7. \A s \in Seqs': Due(s)' => (s \in Seqs /\ Due(s)) \/ (New(s) /\ ~Newest)
  BY <1>1, <1>5, <1>6 DEF Due
<1>8. PageInv'
  <2>1. \A i \in 1..Len(page): box'[page[i]] = box[page[i]]
    BY DEF IInv, StoreInv
  <2>2. \A i, j \in 1..Len(page): i < j => Before(page[i], page[j])'
    BY <1>1 DEF IInv, PageInv, Before, Newest
  <2>3. page # <<>> =>
          \A s \in Seqs': Due(s)' /\ Beyond(s) /\ ~Before(page[Len(page)], s) => OnPage(s)
    BY <1>6, <1>7 DEF IInv, PageInv
  <2>4. place = "show" /\ ~more => \A s \in first: Matches(s)' /\ Beyond(s) => OnPage(s)
    BY DEF IInv, PageInv, StoreInv, New, Seqs
  <2>5. QED BY <1>1, <1>5, <2>1, <2>2, <2>3, <2>4 DEF IInv, PageInv, OnPage
<1>9. PassedInv'
  <2>1. \A s \in Shown: box'[s] = box[s]
    BY DEF IInv, StoreInv
  <2>2. \A s \in Seqs': Due(s)' /\ ~Beyond(s) => s \in Shown
    BY <1>6, <1>7 DEF IInv, PassedInv
  <2>3. place = "end" => \A s \in first: Matches(s)' => ~Beyond(s)
    BY DEF IInv, PassedInv, StoreInv, New
  <2>4. QED BY <1>1, <1>5, <2>1, <2>2, <2>3 DEF IInv, PassedInv, Shown
<1>10. FullInv'
  BY <1>1 DEF IInv, FullInv, FullPages, Multiple
<1>11. QED BY <1>2, <1>3, <1>4, <1>8, <1>9, <1>10 DEF IInv

\* A row is inserted when every other one is committed.
LEMMA InsertKeeps ==
  ASSUME IInv, Insert
  PROVE  IInv'
<1>1. /\ box \in Seq(Kind \cup {"none"}) /\ Len(box) \in Nat /\ Len(box) < MaxSeq
      /\ box' = Append(box, "none") /\ writer' = {Len(box) + 1} /\ MaxSeq \in Nat
      /\ UNCHANGED <<mode, closed, reader>> /\ Seqs = 1..Len(box)
      /\ \A s \in Seqs: Saved(s)
  BY Numbers DEF Insert, Alone, IInv, StoreInv, TypeOK
<1>2. /\ box' \in Seq(Kind \cup {"none"}) /\ Len(box') = Len(box) + 1
      /\ Seqs' = 1..Len(box) + 1
      /\ box'[Len(box) + 1] = "none" /\ \A s \in Seqs: box'[s] = box[s]
  BY <1>1 DEF Seqs, Kind
<1>3. \A s \in Seqs': s \in Seqs \/ s = Len(box) + 1
  BY <1>1, <1>2
<1>4. writer' = {s \in Seqs': ~Saved(s)'} /\ Len(box') <= MaxSeq /\ writer' \subseteq {Len(box')}
  BY <1>1, <1>2, <1>3 DEF Saved
<1>5. \A s \in Seqs: s \in Seqs'
  BY <1>1, <1>2
<1>6. \A s \in closed': s \in Seqs' /\ Saved(s)'
  BY <1>1, <1>2, <1>5 DEF IInv, StoreInv, Saved
<1>7. \A s \in Seqs': Matches(s)' => s \in Seqs /\ Matches(s)
  BY <1>1, <1>2, <1>3 DEF Matches, Inbox, reader
<1>8. QED BY <1>1, <1>2, <1>4, <1>5, <1>6, <1>7, StoreKeeps

\* The committed message is later than any that was seen.
LEMMA CommitKeeps ==
  ASSUME IInv, Commit
  PROVE  IInv'
<1>1. PICK s \in writer, k \in Kind: box' = [box EXCEPT ![s] = k] /\ writer' = writer \ {s}
  BY DEF Commit
<1>2. /\ box \in Seq(Kind \cup {"none"}) /\ Len(box) \in Nat /\ Seqs = 1..Len(box)
      /\ UNCHANGED <<mode, closed, reader>> /\ Len(box) <= MaxSeq
      /\ s = Len(box) /\ s \in Seqs /\ writer' = {} /\ ~Saved(s)
      /\ \A t \in Seqs \ {s}: Saved(t)
  BY <1>1, Numbers DEF Commit, IInv, StoreInv, TypeOK
<1>3. /\ box' \in Seq(Kind \cup {"none"}) /\ Len(box') = Len(box) /\ Seqs' = Seqs
      /\ box'[s] = k /\ \A t \in Seqs \ {s}: box'[t] = box[t]
  BY <1>1, <1>2 DEF Seqs
<1>4. \A t \in Seqs: Saved(t)'
  BY <1>2, <1>3 DEF Saved, Kind
<1>5. New(s)
  BY <1>2 DEF New, IInv, StoreInv
<1>6. \A t \in Seqs': Matches(t)' => (t \in Seqs /\ Matches(t)) \/ New(t)
  BY <1>2, <1>3, <1>5 DEF Matches, Inbox, reader
<1>7. writer' = {t \in Seqs': ~Saved(t)'}
  BY <1>2, <1>3, <1>4
<1>8. \A t \in closed': t \in Seqs' /\ Saved(t)'
  BY <1>2, <1>3, <1>4 DEF IInv, StoreInv
<1>9. \A t \in Seqs: Saved(t) => t \in Seqs' /\ box'[t] = box[t]
  BY <1>2, <1>3
<1>10. QED BY <1>2, <1>3, <1>6, <1>7, <1>8, <1>9, StoreKeeps

\* What is rolled back nobody has seen.
LEMMA RollbackKeeps ==
  ASSUME IInv, Rollback
  PROVE  IInv'
<1>1. /\ box \in Seq(Kind \cup {"none"}) /\ Len(box) \in Nat /\ Seqs = 1..Len(box)
      /\ UNCHANGED <<mode, closed, reader>> /\ Len(box) <= MaxSeq /\ MaxSeq \in Nat
      /\ Len(box) \in Seqs /\ ~Saved(Len(box)) /\ writer' = {}
      /\ box' = SubSeq(box, 1, Len(box) - 1)
      /\ \A t \in Seqs \ {Len(box)}: Saved(t)
  BY Numbers DEF Rollback, IInv, StoreInv, TypeOK
<1>2. /\ box' \in Seq(Kind \cup {"none"}) /\ Len(box') = Len(box) - 1
      /\ Seqs' = 1..Len(box) - 1 /\ \A t \in Seqs': box'[t] = box[t]
  BY <1>1 DEF Seqs
<1>3. Seqs' = Seqs \ {Len(box)}
  BY <1>1, <1>2
<1>4. \A t \in Seqs': Saved(t)'
  BY <1>1, <1>2, <1>3 DEF Saved
<1>5. \A t \in Seqs': Matches(t)' => t \in Seqs /\ Matches(t)
  BY <1>1, <1>2, <1>3 DEF Matches, Inbox, reader
<1>6. writer' = {t \in Seqs': ~Saved(t)'} /\ Len(box') <= MaxSeq
  BY <1>1, <1>2, <1>4
<1>7. \A t \in Seqs: Saved(t) => t \in Seqs' /\ box'[t] = box[t]
  BY <1>1, <1>2, <1>3
<1>8. \A t \in closed': t \in Seqs' /\ Saved(t)'
  BY <1>1, <1>4, <1>7 DEF IInv, StoreInv
<1>9. QED BY <1>1, <1>2, <1>5, <1>6, <1>7, <1>8, StoreKeeps

\* An answer or an acknowledgment only takes a message away.
LEMMA CloseKeeps ==
  ASSUME IInv, CloseMessage
  PROVE  IInv'
<1>1. PICK s \in Seqs \ closed: Saved(s) /\ closed' = closed \cup {s}
  BY DEF CloseMessage
<1>2. UNCHANGED <<mode, box, writer, reader>>
  BY DEF CloseMessage
<1>3. /\ box \in Seq(Kind \cup {"none"}) /\ Len(box) <= MaxSeq /\ writer \subseteq {Len(box)}
      /\ writer = {t \in Seqs: ~Saved(t)}
      /\ \A t \in closed: t \in Seqs /\ Saved(t)
  BY DEF IInv, StoreInv, TypeOK
<1>4. \A t: (Saved(t)' <=> Saved(t)) /\ (Matches(t)' => Matches(t)) /\ Seqs' = Seqs
  BY <1>1, <1>2 DEF Saved, Seqs, Matches, Inbox
<1>5. writer' = {t \in Seqs': ~Saved(t)'}
  BY <1>2, <1>3, <1>4
<1>6. \A t \in closed': t \in Seqs' /\ Saved(t)'
  BY <1>1, <1>3, <1>4
<1>7. QED BY <1>2, <1>3, <1>4, <1>5, <1>6, StoreKeeps

-----------------------------------------------------------------------------
(* Paging: the reader.                                                     *)

\* The reader's steps leave the store alone.
LEMMA ReaderFrame ==
  ASSUME Reader \/ Stop
  PROVE  UNCHANGED <<mode, box, closed, writer>>
BY DEF Reader, Read, Show, NextPage, Stop

\* A page that is read goes on from the cursor, and with nothing omitted is all.
LEMMA ReadKeeps ==
  ASSUME IInv, Read
  PROVE  IInv'
<1>1. /\ UNCHANGED <<mode, box, closed, writer, cursor, shown>>
      /\ place' = "show" /\ first' \in {first, Rest} /\ (first' # first => shown = <<>>)
  BY DEF Read
<1>2. PICK q \in Ordered(Rest): page' = PageOf(q) /\ more' = (Omitted(PageOf(q)) # {})
  BY DEF Read
<1>3. box \in Seq(Kind \cup {"none"})
  BY DEF IInv, StoreInv
<1>4. /\ page' \in Seq(Rest) /\ Len(page') <= Limit
      /\ \A i, j \in 1..Len(page'): i < j => Before(page'[i], page'[j])
      /\ \A s \in Rest: \/ \E i \in 1..Len(page'): page'[i] = s
                        \/ page' # <<>> /\ Before(page'[Len(page')], s)
      /\ Omitted(page') # {} => Len(page') = Limit
  BY <1>2, <1>3, PageHolds
<1>5. more' = (Omitted(page') # {})
  BY <1>2
<1>6. /\ Rest \subseteq Seqs /\ Seqs \subseteq 1..MaxSeq
      /\ \A s \in Rest: Saved(s) /\ Matches(s) /\ Beyond(s)
  <2>1. Seqs = 1..Len(box) /\ Len(box) <= MaxSeq /\ Len(box) \in Nat /\ MaxSeq \in Nat
    BY Numbers DEF IInv, TypeOK
  <2>2. \A s: Matches(s) => Saved(s)
    BY DEF Matches, Inbox, Saved
  <2>3. QED BY <2>1, <2>2 DEF Rest
<1>7. /\ Len(page') \in Nat /\ page' \in Seq(1..MaxSeq)
      /\ \A i \in 1..Len(page'): page'[i] \in Rest
  <2> DEFINE S == Rest
  <2> HIDE DEF S
  <2>1. page' \in Seq(S) /\ S \subseteq 1..MaxSeq
    BY <1>4, <1>6 DEF S
  <2>2. Len(page') \in Nat /\ \A i \in 1..Len(page'): page'[i] \in S
    BY <2>1
  <2>3. page' \in Seq(1..MaxSeq)
    BY <2>1, WiderSeq
  <2>4. QED BY <2>2, <2>3 DEF S
<1>8. \A s, t: /\ (Matches(s)' <=> Matches(s)) /\ (Beyond(s)' <=> Beyond(s))
               /\ (Saved(s)' <=> Saved(s)) /\ (Before(s, t)' <=> Before(s, t))
               /\ Newest' = Newest /\ Seqs' = Seqs /\ Shown' = Shown /\ Start' = Start
  BY <1>1 DEF Matches, Inbox, Beyond, Saved, Before, Newest, Seqs, Shown, Start
<1>9. TypeOK'
  <2>1. \A i \in 1..Len(page'): Beyond(page[i])'
    BY <1>1, <1>6, <1>7 DEF Beyond, Newest
  <2>2. writer' = {s \in Seqs': ~Saved(s)'} /\ more' \in BOOLEAN
    BY <1>1, <1>5, <1>8 DEF IInv, TypeOK
  <2>3. QED BY <1>1, <1>4, <1>8, <2>1, <2>2 DEF IInv, TypeOK
<1>10. StoreInv'
  <2>1. \A i \in 1..Len(page'): page'[i] \in Seqs' /\ Saved(page[i])'
    BY <1>1, <1>6, <1>7, <1>8 DEF Saved
  <2>2. first' \subseteq 1..MaxSeq /\ \A s \in first': s \in Seqs /\ Saved(s)
    BY <1>1, <1>6 DEF IInv, StoreInv
  <2>3. QED BY <1>1, <1>7, <1>8, <2>1, <2>2 DEF IInv, StoreInv
<1>11. ShownOnceInOrder'
  BY <1>1 DEF IInv, ShownOnceInOrder, Before, Newest
<1>12. \A s \in Seqs: Matches(s) /\ Beyond(s) => s \in Rest
  BY DEF Rest
<1>13. PageInv'
  <2>1. \A i, j \in 1..Len(page'): i < j => Before(page[i], page[j])'
    BY <1>1, <1>4 DEF Before, Newest
  <2>2. page' # <<>> => \A s \in Seqs': Due(s)' /\ Beyond(s)' /\ ~Before(page[Len(page)], s)'
                          => OnPage(s)'
    <3>1. SUFFICES ASSUME page' # <<>>, NEW s \in Seqs, Matches(s), Beyond(s),
                          ~Before(page[Len(page)], s)'
                   PROVE  OnPage(s)'
      BY <1>8 DEF Due
    <3>2. ~Before(page'[Len(page')], s)
      BY <1>1, <3>1 DEF Before, Newest
    <3>3. QED BY <1>4, <1>12, <3>1, <3>2 DEF OnPage
  <2>3. ~more' => \A s \in first': Matches(s)' /\ Beyond(s)' => OnPage(s)'
    <3>1. SUFFICES ASSUME ~more', NEW s \in first', Matches(s)', Beyond(s)' PROVE OnPage(s)'
      OBVIOUS
    <3>2. s \in Rest
      BY <1>1, <1>8, <1>12, <3>1 DEF IInv, StoreInv
    <3>3. ~(page' # <<>> /\ Before(page'[Len(page')], s))
      BY <1>5, <3>1, <3>2 DEF Omitted
    <3>4. QED BY <1>4, <3>2, <3>3 DEF OnPage
  <2>4. mode' = "published" => \A i \in 1..Len(page'): box'[page'[i]] = "published"
    BY <1>1, <1>6, <1>7 DEF Matches
  <2>5. QED BY <2>1, <2>2, <2>3, <2>4 DEF PageInv
<1>14. PassedInv'
  <2>1. \A s \in Seqs': Due(s)' /\ ~Beyond(s)' => s \in Shown'
    <3>1. SUFFICES ASSUME NEW s \in Seqs, Due(s)', Matches(s), ~Beyond(s) PROVE s \in Shown
      BY <1>8 DEF Due
    <3>2. s \notin Rest
      BY <1>6, <3>1
    <3>3. Due(s)
      BY <1>1, <1>8, <3>1, <3>2 DEF Due
    <3>4. QED BY <3>1, <3>3 DEF IInv, PassedInv
  <2>2. QED BY <1>1, <1>8, <2>1 DEF IInv, PassedInv
<1>15. FullInv'
  <2>1. SUFFICES ASSUME mode # "watch", more' PROVE Multiple(Len(shown) + Len(page'))
    BY <1>1 DEF FullInv, FullPages, Multiple
  <2>2. place = "read" /\ Len(shown) \in Nat
    BY Numbers DEF Read
  <2>3. Multiple(Len(shown))
    BY <2>1, <2>2 DEF IInv, FullInv
  <2>4. Len(page') = Limit
    BY <1>4, <1>5, <2>1
  <2>5. QED BY <2>2, <2>3, <2>4, OnePageMore
<1>16. QED BY <1>9, <1>10, <1>11, <1>13, <1>14, <1>15 DEF IInv

\* What is shown is the next of what is due.
LEMMA ShowKeeps ==
  ASSUME IInv, Show
  PROVE  IInv'
<1> DEFINE h == page[1]
<1>1. /\ UNCHANGED <<mode, box, closed, writer, place, more, first>>
      /\ place = "show" /\ page # <<>> /\ page \in Seq(1..MaxSeq) /\ shown \in Seq(1..MaxSeq)
      /\ shown' = Append(shown, h) /\ cursor' = h /\ page' = Tail(page)
  BY DEF Show, After, IInv, StoreInv
<1>2. /\ Len(page) \in Nat /\ Len(page) >= 1 /\ Len(page') = Len(page) - 1
      /\ page' \in Seq(1..MaxSeq)
      /\ \A i \in 1..Len(page'): i + 1 \in 1..Len(page) /\ page'[i] = page[i + 1]
      /\ 1 \in 1..Len(page) /\ h \in Nat /\ h \in 1..MaxSeq
  BY <1>1, Numbers
<1>3. /\ Len(shown) \in Nat /\ shown' \in Seq(1..MaxSeq) /\ Len(shown') = Len(shown) + 1
      /\ shown'[Len(shown')] = h
      /\ \A i \in 1..Len(shown): i \in 1..Len(shown') /\ shown'[i] = shown[i]
      /\ \A i \in 1..Len(shown'): i = Len(shown') \/ i \in 1..Len(shown)
  BY <1>1, <1>2
<1>4. Shown' = Shown \cup {h} /\ shown' # <<>>
  <2>1. Len(shown') \in 1..Len(shown')
    BY <1>3
  <2>2. QED BY <1>3, <2>1 DEF Shown
<1>5. \A s, t: /\ (Matches(s)' <=> Matches(s)) /\ (Saved(s)' <=> Saved(s))
               /\ (Before(s, t)' <=> Before(s, t)) /\ (Due(s)' <=> Due(s))
               /\ Newest' = Newest /\ Seqs' = Seqs
  BY <1>1 DEF Matches, Inbox, Saved, Before, Newest, Seqs, Due
<1>6. h \in Seqs /\ Saved(h) /\ Beyond(h) /\ (mode = "published" => box[h] = "published")
  BY <1>2 DEF IInv, StoreInv, TypeOK, PageInv
<1>7. \A s: (Beyond(s) <=> Before(cursor, s)) /\ (Beyond(s)' <=> Before(h, s))
  BY <1>1 DEF Beyond, Before, Newest
<1>8. \A i \in 1..Len(page'): Before(h, page'[i]) /\ page'[i] \in Nat
  <2>1. TAKE i \in 1..Len(page')
  <2>2. i + 1 \in 1..Len(page) /\ 1 < i + 1 /\ page'[i] = page[i + 1]
    BY <1>2
  <2>3. QED BY <1>2, <2>2, Numbers DEF IInv, PageInv
<1>9. cursor \in Nat /\ Seqs \subseteq Nat /\ MaxSeq \in Nat /\ Top \in Nat /\ MaxSeq < Top
  BY Numbers, TopAssumption
<1>10. \A i \in 1..Len(shown): Before(shown[i], h)
  <2>1. TAKE i \in 1..Len(shown)
  <2>2. Before(cursor, h)
    BY <1>6, <1>7
  <2>3. shown # <<>> /\ cursor = shown[Len(shown)] /\ Len(shown) \in 1..Len(shown)
    BY <1>3 DEF IInv, StoreInv
  <2>4. shown[i] = cursor \/ Before(shown[i], cursor)
    BY <1>3, <2>3 DEF IInv, ShownOnceInOrder
  <2>5. shown[i] \in Nat
    BY Numbers
  <2>6. QED BY <1>2, <1>9, <2>2, <2>4, <2>5, BeforeOrders
<1>11. \A i, j \in 1..Len(shown'): i < j => Before(shown'[i], shown'[j])
  <2>1. SUFFICES ASSUME NEW i \in 1..Len(shown'), NEW j \in 1..Len(shown'), i < j
                 PROVE  Before(shown'[i], shown'[j])
    OBVIOUS
  <2>2. i \in 1..Len(shown)
    BY <1>3, <2>1
  <2>3. CASE j = Len(shown')
    BY <1>3, <1>10, <2>2, <2>3
  <2>4. CASE j \in 1..Len(shown)
    BY <1>3, <2>1, <2>2, <2>4 DEF IInv, ShownOnceInOrder
  <2>5. QED BY <1>3, <2>3, <2>4
<1>12. TypeOK'
  <2>1. \A i \in 1..Len(page'): Beyond(page[i])'
    BY <1>1, <1>8 DEF Beyond, Before, Newest
  <2>2. Len(shown') <= MaxSeq
    <3>1. \A x \in Nat: ~Before(x, x)
      BY BeforeOrders
    <3>2. \A i \in 1..Len(shown'): shown'[i] \in Nat
      BY <1>3, <1>9
    <3>3. \A i, j \in 1..Len(shown'): i < j => shown'[i] # shown'[j]
      BY <1>11, <3>1, <3>2
    <3>4. QED BY <1>3, <1>9, <3>3, NoLongerThan
  <2>3. cursor' \in 0..Top /\ Len(page') <= Limit
    BY <1>1, <1>2, <1>9, TopAssumption DEF IInv, TypeOK
  <2>4. writer' = {s \in Seqs': ~Saved(s)'}
    BY <1>1, <1>5 DEF IInv, TypeOK
  <2>5. QED BY <1>1, <1>5, <2>1, <2>2, <2>3, <2>4 DEF IInv, TypeOK
<1>13. StoreInv'
  <2>1. \A i \in 1..Len(page'): page'[i] \in Seqs' /\ Saved(page[i])'
    BY <1>1, <1>2, <1>5 DEF IInv, StoreInv, Saved
  <2>2. \A s \in closed' \cup first' \cup Shown': s \in Seqs' /\ Saved(s)'
    BY <1>1, <1>4, <1>5, <1>6 DEF IInv, StoreInv
  <2>3. cursor' = IF shown' = <<>> THEN Start' ELSE shown'[Len(shown')]
    BY <1>1, <1>3, <1>4
  <2>4. QED BY <1>1, <1>2, <1>3, <2>1, <2>2, <2>3 DEF IInv, StoreInv
<1>14. ShownOnceInOrder'
  BY <1>5, <1>11 DEF ShownOnceInOrder
<1>15. ASSUME NEW s, OnPage(s), s # h PROVE OnPage(s)' /\ Before(h, s)
  <2>1. PICK i \in 1..Len(page): page[i] = s
    BY <1>15 DEF OnPage
  <2>2. i # 1 /\ i - 1 \in 1..Len(page') /\ page'[i - 1] = page[i]
    BY <1>2, <1>15, <2>1
  <2>3. QED BY <1>8, <2>1, <2>2 DEF OnPage
<1>16. ASSUME NEW s \in Seqs, Beyond(s)' PROVE Beyond(s) /\ s # h
  <2>1. Before(cursor, h) /\ Before(h, s) /\ s \in Nat
    BY <1>6, <1>7, <1>9, <1>16
  <2>2. QED BY <1>2, <1>7, <1>9, <2>1, BeforeOrders
<1>17. page' # <<>> => page'[Len(page')] = page[Len(page)]
  BY <1>2
<1>18. PageInv'
  <2>1. \A i, j \in 1..Len(page'): i < j => Before(page[i], page[j])'
    <3>1. SUFFICES ASSUME NEW i \in 1..Len(page'), NEW j \in 1..Len(page'), i < j
                   PROVE  Before(page'[i], page'[j])
      BY <1>1 DEF Before, Newest
    <3>2. /\ i + 1 \in 1..Len(page) /\ j + 1 \in 1..Len(page) /\ i + 1 < j + 1
          /\ page'[i] = page[i + 1] /\ page'[j] = page[j + 1]
      BY <1>2, <3>1
    <3>3. QED BY <3>2 DEF IInv, PageInv
  <2>2. page' # <<>> => \A s \in Seqs': Due(s)' /\ Beyond(s)' /\ ~Before(page[Len(page)], s)'
                          => OnPage(s)'
    <3>1. SUFFICES ASSUME page' # <<>>, NEW s \in Seqs, Due(s), Beyond(s)',
                          ~Before(page[Len(page)], s)'
                   PROVE  OnPage(s)'
      BY <1>5
    <3>2. ~Before(page[Len(page)], s)
      BY <1>1, <1>17, <3>1 DEF Before, Newest
    <3>3. QED BY <1>1, <1>15, <1>16, <3>1, <3>2 DEF IInv, PageInv
  <2>3. ~more => \A s \in first: Matches(s) /\ Beyond(s)' => OnPage(s)'
    <3>1. SUFFICES ASSUME ~more, NEW s \in first, Matches(s), Beyond(s)' PROVE OnPage(s)'
      OBVIOUS
    <3>2. s \in Seqs
      BY DEF IInv, StoreInv
    <3>3. QED BY <1>1, <1>15, <1>16, <3>1, <3>2 DEF IInv, PageInv
  <2>4. mode = "published" => \A i \in 1..Len(page'): box[page'[i]] = "published"
    BY <1>2 DEF IInv, PageInv
  <2>5. QED BY <1>1, <1>5, <2>1, <2>2, <2>3, <2>4 DEF PageInv
<1>19. PassedInv'
  <2>1. ASSUME NEW s \in Seqs, Due(s), ~Beyond(s)' PROVE s \in Shown'
    <3>1. CASE ~Beyond(s)
      BY <1>4, <2>1, <3>1 DEF IInv, PassedInv
    <3>2. CASE Beyond(s) /\ s # h
      <4>1. ~Before(h, s) /\ Before(s, h) /\ s \in Nat
        BY <1>2, <1>7, <1>9, <2>1, <3>2, BeforeOrders
      <4> DEFINE last == page[Len(page)]
      <4>2. Len(page) \in 1..Len(page) /\ last \in Nat
        BY <1>2, Numbers
      <4>3. last = h \/ Before(h, last)
        BY <1>2, <4>2 DEF IInv, PageInv
      <4>4. ~Before(last, s)
        BY <1>2, <4>1, <4>2, <4>3, BeforeOrders
      <4>5. OnPage(s)
        BY <1>1, <2>1, <3>2, <4>4 DEF IInv, PageInv
      <4>6. QED BY <1>15, <3>2, <4>1, <4>5
    <3>3. CASE s = h
      BY <1>4, <3>3
    <3>4. QED BY <3>1, <3>2, <3>3
  <2>2. \A s \in Seqs': Due(s)' /\ ~Beyond(s)' => s \in Shown'
    BY <1>5, <2>1
  <2>3. mode = "published" => \A s \in Shown': box[s] = "published"
    BY <1>4, <1>6 DEF IInv, PassedInv
  <2>4. QED BY <1>1, <2>2, <2>3 DEF PassedInv
<1>20. FullInv'
  <2>1. Len(shown') + Len(page') = Len(shown) + Len(page)
    BY <1>2, <1>3
  <2>2. QED BY <1>1, <2>1 DEF IInv, FullInv, FullPages, Multiple
<1>21. QED BY <1>12, <1>13, <1>14, <1>18, <1>19, <1>20 DEF IInv

\* Between pages nothing changes but where the reader is; it ends only where the
\* page it has shown was the last.
LEMMA TurnKeeps ==
  ASSUME IInv, NextPage \/ Stop
  PROVE  IInv'
<1>1. /\ UNCHANGED <<mode, box, closed, writer, cursor, page, more, shown, first>>
      /\ place' \in {"read", "end", "stopped"}
      /\ place' = "end" => place = "show" /\ page = <<>> /\ ~more
  BY DEF NextPage, Stop, Goes
<1>2. \A s, t: /\ (Matches(s)' <=> Matches(s)) /\ (Saved(s)' <=> Saved(s))
               /\ (Before(s, t)' <=> Before(s, t)) /\ (Due(s)' <=> Due(s))
               /\ (Beyond(s)' <=> Beyond(s)) /\ (OnPage(s)' <=> OnPage(s))
               /\ Newest' = Newest /\ Seqs' = Seqs /\ Shown' = Shown /\ Start' = Start
  BY <1>1 DEF Matches, Inbox, Saved, Before, Newest, Seqs, Due, Beyond, OnPage, Shown, Start
<1>3. TypeOK'
  <2>1. writer' = {s \in Seqs': ~Saved(s)'} /\ \A i \in 1..Len(page): Beyond(page[i])'
    BY <1>1, <1>2 DEF IInv, TypeOK
  <2>2. QED BY <1>1, <1>2, <2>1 DEF IInv, TypeOK
<1>4. StoreInv'
  BY <1>1, <1>2 DEF IInv, StoreInv
<1>5. ShownOnceInOrder'
  BY <1>1, <1>2 DEF IInv, ShownOnceInOrder
<1>6. PageInv'
  BY <1>1, <1>2 DEF IInv, PageInv
<1>7. PassedInv'
  <2>1. place' = "end" => \A s \in first: Matches(s) => ~Beyond(s)
    BY <1>1 DEF IInv, PageInv, OnPage
  <2>2. QED BY <1>1, <1>2, <2>1 DEF IInv, PassedInv
<1>8. FullInv'
  <2>1. SUFFICES ASSUME mode # "watch", place' = "read" PROVE Multiple(Len(shown))
    BY <1>1 DEF FullInv, FullPages, Multiple
  <2>2. more /\ page = <<>> /\ place = "show" /\ Len(shown) \in Nat
    BY <2>1, Numbers DEF NextPage, Stop, Goes
  <2>3. Len(shown) + Len(page) = Len(shown)
    BY <2>2
  <2>4. QED BY <2>1, <2>2, <2>3 DEF IInv, FullInv, FullPages
<1>9. QED BY <1>3, <1>4, <1>5, <1>6, <1>7, <1>8 DEF IInv

-----------------------------------------------------------------------------
(* Paging: the theorems.                                                   *)

\* At first there is nothing to show.
LEMMA PagingInit == Init => IInv
<1>1. SUFFICES ASSUME Init PROVE IInv
  OBVIOUS
<1>2. /\ box = <<>> /\ page = <<>> /\ shown = <<>> /\ closed = {} /\ first = {} /\ writer = {}
      /\ place = "read" /\ cursor = Start /\ more = FALSE
      /\ mode \in {"watch", "inbox", "sent", "published"}
  BY <1>1 DEF Init, Start, Newest
<1>3. Shown = {} /\ Seqs = {} /\ Len(page) = 0 /\ Len(shown) = 0 /\ Len(box) = 0
  BY <1>2 DEF Shown, Seqs
<1>4. cursor \in 0..Top
  BY <1>2, TopAssumption DEF Start
<1>5. TypeOK
  <2>1. writer = {s \in Seqs: ~Saved(s)} /\ \A i \in 1..Len(page): Beyond(page[i])
    BY <1>2, <1>3
  <2>2. Len(box) <= MaxSeq /\ Len(page) <= Limit /\ Len(shown) <= MaxSeq
    BY <1>3, TopAssumption
  <2>3. QED BY <1>2, <1>3, <1>4, <2>1, <2>2 DEF TypeOK
<1>6. StoreInv
  BY <1>2, <1>3 DEF StoreInv
<1>7. ShownOnceInOrder /\ PageInv /\ PassedInv
  BY <1>2, <1>3 DEF ShownOnceInOrder, PageInv, PassedInv
<1>8. FullInv
  <2>1. Multiple(0)
    BY TopAssumption DEF Multiple
  <2>2. QED BY <1>2, <1>3, <2>1 DEF FullInv, FullPages
<1>9. QED BY <1>5, <1>6, <1>7, <1>8 DEF IInv

\* Each step keeps the invariant.
LEMMA PagingStep == IInv /\ [Next]_vars => IInv'
<1>1. SUFFICES ASSUME IInv, [Next]_vars PROVE IInv'
  OBVIOUS
<1>2. CASE Next
  BY <1>1, <1>2, InsertKeeps, CommitKeeps, RollbackKeeps, CloseKeeps, ReadKeeps, ShowKeeps,
     TurnKeeps
  DEF Next, Reader
<1>3. CASE UNCHANGED vars
  <2>1. UNCHANGED <<mode, box, closed, writer, reader>>
    BY <1>3 DEF vars
  <2>2. \A s: (Saved(s)' <=> Saved(s)) /\ (Matches(s)' <=> Matches(s)) /\ Seqs' = Seqs
    BY <2>1 DEF Saved, Matches, Inbox, Seqs
  <2>3. writer' = {s \in Seqs': ~Saved(s)'}
    BY <1>1, <2>1, <2>2 DEF IInv, TypeOK
  <2>4. QED BY <1>1, <2>1, <2>2, <2>3, StoreKeeps DEF IInv, TypeOK, StoreInv
<1>4. QED BY <1>1, <1>2, <1>3

\* The invariant says what the reader promises.
LEMMA PagingPromises == IInv => NothingPassedOver /\ PagesAreWhole
<1>1. SUFFICES ASSUME IInv PROVE NothingPassedOver /\ PagesAreWhole
  OBVIOUS
<1>2. NothingPassedOver
  BY <1>1 DEF IInv, PassedInv, NothingPassedOver, Due
<1>3. ListedAll
  BY <1>1 DEF IInv, PassedInv, StoreInv, ListedAll, Due
<1>4. FullPages
  BY <1>1 DEF IInv, FullInv
<1>5. QED BY <1>1, <1>2, <1>3, <1>4 DEF IInv, PagesAreWhole

-----------------------------------------------------------------------------
(* Grace: the registrations.                                               *)

\* A set of numbers that has a bound has a greatest one.
LEMMA Greatest ==
  ASSUME NEW bound \in Nat, NEW S, S \subseteq 0..bound, NEW s \in S
  PROVE  \E t \in S: \A u \in S: t >= u
<1> DEFINE T == {bound - t: t \in S}  R == {p \in Nat \X Nat: p[1] < p[2]}
<1>1. IsWellFoundedOn(R, Nat)
  BY NatLessThanWellFounded DEF OpToRel
<1>2. \A t \in S: t \in Int /\ bound - t \in Nat /\ bound - t \in T
  OBVIOUS
<1>3. T \subseteq Nat /\ T # {}
  BY <1>2
<1> HIDE DEF R
<1>4. PICK x \in T: \A y \in T: <<y, x>> \notin R
  BY <1>1, <1>3, WFMin
<1>5. PICK t \in S: x = bound - t
  BY <1>4
<1>6. \A u \in S: t >= u
  <2>1. TAKE u \in S
  <2>2. ~(bound - u < x)
    BY <1>2, <1>3, <1>4 DEF R
  <2>3. QED BY <1>2, <1>5, <2>2
<1>7. QED BY <1>6

\* The latest registration is one, and no other one is later.
LEMMA LatestIsLast ==
  ASSUME Waiting!TypeOK, Waiting!Registered # {}
  PROVE  /\ Waiting!Latest \in 0..MaxTime + Longest
         /\ \A w \in Waiting!Registered: Waiting!Latest >= until[w]
<1> DEFINE S == {until[w]: w \in Waiting!Registered}
<1>1. S \subseteq 0..MaxTime + Longest /\ S # {} /\ MaxTime + Longest \in Nat
  BY TimesAssumption DEF Waiting!TypeOK, Waiting!Registered
<1>2. \E t \in S: \A u \in S: t >= u
  <2>1. PICK s \in S: TRUE
    BY <1>1
  <2> HIDE DEF S
  <2>2. QED BY <1>1, <2>1, Greatest
<1>3. \E t \in S: \A w \in Waiting!Registered: t >= until[w]
  BY <1>2
<1>4. Waiting!Latest \in S /\ \A w \in Waiting!Registered: Waiting!Latest >= until[w]
  BY <1>3 DEF Waiting!Latest
<1>5. QED BY <1>1, <1>4

\* The grace is a second at most, and leaves whoever is relied on its next poll.
LEMMA GraceAllowed ==
  ASSUME Waiting!TypeOK, Waiting!WaitInv
  PROVE  /\ Waiting!Allowed \in 0..Span
         /\ \A w \in Waiting!Relied: waiter[w] = "poll" /\ now + Gap < now + Waiting!Allowed
<1>1. now \in Nat /\ Span \in Nat /\ Gap \in Nat /\ Gap < Span
  BY TimesAssumption DEF Waiting!TypeOK
<1>2. Waiting!Registered # {} => Waiting!Latest \in Nat
  BY LatestIsLast, TimesAssumption
<1>3. Waiting!Allowed \in 0..Span
  BY <1>1, <1>2 DEF Waiting!Allowed
<1>4. ASSUME NEW w \in Waiting!Relied PROVE waiter[w] = "poll" /\ now + Gap < now + Waiting!Allowed
  <2>1. /\ w \in Waiter /\ w \in Waiting!Registered /\ waiter[w] = "poll" /\ deadline[w] > now + Gap
        /\ until[w] >= 0
    BY <1>4 DEF Waiting!Relied, Waiting!Registered
  <2>2. until[w] = deadline[w]
    BY <2>1 DEF Waiting!WaitInv
  <2>3. Waiting!Latest >= until[w] /\ deadline[w] \in Nat
    BY <2>1, LatestIsLast, TimesAssumption DEF Waiting!WaitInv
  <2>4. Waiting!Latest > now + Gap /\ ~(Waiting!Latest < now) /\ Waiting!Registered # {}
    BY <1>1, <1>2, <2>1, <2>2, <2>3
  <2>5. QED BY <1>1, <1>2, <2>1, <2>4 DEF Waiting!Allowed
<1>5. QED BY <1>3, <1>4

-----------------------------------------------------------------------------
(* Grace: the waits.                                                       *)

\* A step of one wait keeps the invariant, if what it becomes fits the clock and
\* what the notice relies on.
LEMMA WaitKeeps ==
  ASSUME Waiting!IInv, NEW w \in Waiter, NEW to \in {"poll", "record", "drop", "done", "killed"},
         waiter' = [waiter EXCEPT ![w] = to], UNCHANGED <<now, answered, Waiting!notifier>>,
         receipt' \in BOOLEAN, receipt => receipt', failed \subseteq failed', failed' \subseteq Waiter,
         until' \in [Waiter -> -1..MaxTime + Longest],
         deadline' \in [Waiter -> 0..MaxTime + Longest], due' \in [Waiter -> 0..MaxTime + Longest],
         \A v \in Waiter: due'[v] <= deadline'[v],
         \A v \in Waiter \ {w}: /\ deadline'[v] = deadline[v] /\ due'[v] = due[v]
                                /\ until'[v] \in {-1, until[v]},
         to = "poll" => /\ now <= due'[w] /\ due'[w] <= now + Gap
                        /\ until'[w] \in {-1, deadline'[w]},
         receipt' /\ ~receipt => to = "drop",
         waiter[w] # "killed",
         waiter[w] \in {"drop", "done"} => to \in {"drop", "done", "killed"},
         notice \in {"grace", "final", "sent"} => \/ w \notin relied
                                                  \/ to = "killed" \/ receipt' \/ w \in failed'
                                                  \/ /\ waiter[w] = "poll" /\ to = "record"
                                                     /\ due[w] <= now /\ notice = "grace"
  PROVE  Waiting!IInv'
<1>1. /\ waiter \in [Waiter -> {"new", "poll", "record", "drop", "done", "killed"}]
      /\ UNCHANGED <<notice, claimed, end, relied>>
      /\ waiter'[w] = to /\ \A v \in Waiter \ {w}: waiter'[v] = waiter[v]
  BY DEF Waiting!IInv, Waiting!TypeOK, Waiting!notifier
<1>2. Waiting!TypeOK'
  BY <1>1 DEF Waiting!IInv, Waiting!TypeOK
<1>3. Waiting!WaitInv'
  <2>1. \A v \in Waiter: waiter'[v] = "poll" => /\ now' <= due'[v] /\ due'[v] <= now' + Gap
                                                /\ until'[v] \in {-1, deadline'[v]}
    <3>1. TAKE v \in Waiter
    <3>2. CASE v = w
      BY <1>1, <3>2
    <3>3. CASE v # w
      BY <1>1, <3>3 DEF Waiting!IInv, Waiting!WaitInv
    <3>4. QED BY <3>2, <3>3
  <2>2. \A v \in Waiter: waiter'[v] = "new" => until'[v] = -1
    BY <1>1 DEF Waiting!IInv, Waiting!WaitInv
  <2>3. receipt' => \E v \in Waiter: waiter'[v] \in {"drop", "done", "killed"}
    <3>1. CASE ~receipt
      BY <1>1, <3>1
    <3>2. CASE receipt
      <4>1. PICK v \in Waiter: waiter[v] \in {"drop", "done", "killed"}
        BY <3>2 DEF Waiting!IInv, Waiting!WaitInv
      <4>2. waiter'[v] \in {"drop", "done", "killed"}
        BY <1>1, <4>1
      <4>3. QED BY <4>2
    <3>3. QED BY <3>1, <3>2
  <2>4. QED BY <2>1, <2>2, <2>3 DEF Waiting!WaitInv
<1>4. Waiting!EndInv'
  BY <1>1 DEF Waiting!IInv, Waiting!EndInv
<1>5. \A v \in Waiter: v # w /\ Waiting!Over(v) => Waiting!Over(v)'
  BY <1>1 DEF Waiting!Over
<1>6. w \in relied /\ Waiting!Over(w) => Waiting!Over(w)' \/ notice \notin {"grace", "final", "sent"}
  BY <1>1 DEF Waiting!Over
<1>7. now \in Nat /\ end \in Int /\ due[w] \in Nat
  BY TimesAssumption DEF Waiting!IInv, Waiting!TypeOK, Waiting!WaitInv, Waiting!EndInv
<1>8. Waiting!ReliedInv'
  <2>1. ASSUME notice = "grace", NEW v \in relied
        PROVE  \/ waiter'[v] = "poll" /\ due'[v] < end
               \/ waiter'[v] = "record" /\ now < end
               \/ Waiting!Over(v)'
    <3>0. v \in Waiter
      BY DEF Waiting!IInv, Waiting!TypeOK
    <3>1. CASE v # w
      BY <1>1, <1>5, <2>1, <3>0, <3>1 DEF Waiting!IInv, Waiting!ReliedInv
    <3>2. CASE v = w /\ (to = "killed" \/ receipt' \/ w \in failed')
      BY <1>1, <3>2 DEF Waiting!Over
    <3>3. CASE v = w /\ waiter[w] = "poll" /\ to = "record" /\ due[w] <= now
      <4>1. due[w] < end \/ Waiting!Over(w)
        BY <2>1, <3>3 DEF Waiting!IInv, Waiting!ReliedInv
      <4>2. CASE due[w] < end
        <5>1. now <= due[w]
          BY <3>3 DEF Waiting!IInv, Waiting!WaitInv
        <5>2. QED BY <1>1, <1>7, <3>3, <4>2, <5>1
      <4>3. CASE Waiting!Over(w)
        BY <1>6, <2>1, <3>3, <4>3
      <4>4. QED BY <4>1, <4>2, <4>3
    <3>4. QED BY <2>1, <3>1, <3>2, <3>3
  <2>2. ASSUME notice = "final", NEW v \in relied PROVE Waiting!Over(v)'
    <3>1. v \in Waiter /\ Waiting!Over(v)
      BY <2>2 DEF Waiting!IInv, Waiting!TypeOK, Waiting!ReliedInv
    <3>2. QED BY <1>5, <1>6, <2>2, <3>1
  <2>3. QED BY <1>1, <2>1, <2>2 DEF Waiting!ReliedInv
<1>9. Waiting!NoNeedlessNotice'
  BY <1>1 DEF Waiting!IInv, Waiting!NoNeedlessNotice, Waiting!TypeOK
<1>10. QED BY <1>2, <1>3, <1>4, <1>8, <1>9 DEF Waiting!IInv

\* Numbers of the state.
LEMMA Times ==
  ASSUME Waiting!IInv
  PROVE  /\ now \in Nat /\ now <= MaxTime /\ Gap \in Nat /\ Gap # 0 /\ Span \in Nat
         /\ MaxTime \in Nat /\ Longest \in Nat /\ Keep \in Nat /\ Gap < Span
         /\ claimed \in Nat /\ end \in Nat /\ claimed <= end /\ end <= claimed + Span
         /\ \A w \in Waiter: /\ deadline[w] \in 0..MaxTime + Longest
                             /\ due[w] \in 0..MaxTime + Longest /\ due[w] <= deadline[w]
                             /\ until[w] \in -1..MaxTime + Longest
BY TimesAssumption DEF Waiting!IInv, Waiting!TypeOK, Waiting!WaitInv, Waiting!EndInv

\* Waits that do not go back to poll keep the invariant.
LEMMA WaitEnds ==
  ASSUME Waiting!IInv, NEW w \in Waiter,
         Waiting!FindAnswer(w) \/ Waiting!PollAnswered(w) \/ Waiting!PollTimeout(w) \/ Waiting!Record(w) \/ Waiting!Drop(w) \/ Waiting!Kill(w)
  PROVE  Waiting!IInv'
<1>1. /\ UNCHANGED <<now, answered, Waiting!notifier, deadline, due>>
      /\ until' \in {until, [until EXCEPT ![w] = -1]}
      /\ receipt' \in {receipt, TRUE} /\ failed' \in {failed, failed \cup {w}}
  BY DEF Waiting!FindAnswer, Waiting!PollAnswered, Waiting!PollTimeout, Waiting!Record, Waiting!Drop, Waiting!Kill, Waiting!Moves
<1>2. /\ until \in [Waiter -> -1..MaxTime + Longest] /\ MaxTime + Longest \in Nat
      /\ deadline \in [Waiter -> 0..MaxTime + Longest]
      /\ due \in [Waiter -> 0..MaxTime + Longest]
      /\ \A v \in Waiter: due[v] <= deadline[v]
      /\ failed \subseteq Waiter /\ receipt \in BOOLEAN
  BY TimesAssumption DEF Waiting!IInv, Waiting!TypeOK, Waiting!WaitInv
<1>3. until' \in [Waiter -> -1..MaxTime + Longest]
      /\ \A v \in Waiter \ {w}: until'[v] \in {-1, until[v]}
  BY <1>1, <1>2
<1>4. receipt' \in BOOLEAN /\ (receipt => receipt') /\ failed \subseteq failed' /\ failed' \subseteq Waiter
  BY <1>1, <1>2
<1> DEFINE Told == /\ receipt' /\ ~receipt => waiter'[w] = "drop"
                   /\ waiter[w] # "killed"
                   /\ waiter[w] \in {"drop", "done"} => waiter'[w] \in {"drop", "done", "killed"}
           Kept == notice \in {"grace", "final", "sent"} =>
                     \/ w \notin relied
                     \/ waiter'[w] = "killed" \/ receipt' \/ w \in failed'
                     \/ /\ waiter[w] = "poll" /\ waiter'[w] = "record"
                        /\ due[w] <= now /\ notice = "grace"
<1>5. waiter \in [Waiter -> {"new", "poll", "record", "drop", "done", "killed"}]
  BY DEF Waiting!IInv, Waiting!TypeOK
<1>6. w \in relied =>
        /\ notice = "grace" => waiter[w] \in {"poll", "record", "killed"} \/ receipt \/ w \in failed
        /\ notice = "final" => waiter[w] = "killed" \/ receipt \/ w \in failed
        /\ notice = "sent" => waiter[w] = "killed" \/ w \in failed
  BY DEF Waiting!IInv, Waiting!ReliedInv, Waiting!Over, Waiting!NoNeedlessNotice
<1>7. notice # "none" => answered
  BY DEF Waiting!IInv, Waiting!EndInv
<1>8. \E to \in {"record", "drop", "done", "killed"}:
        waiter' = [waiter EXCEPT ![w] = to] /\ waiter'[w] = to
  BY <1>5 DEF Waiting!FindAnswer, Waiting!PollAnswered, Waiting!PollTimeout, Waiting!Record, Waiting!Drop, Waiting!Kill, Waiting!Moves
<1>9. Told
  BY <1>4, <1>5 DEF Waiting!FindAnswer, Waiting!PollAnswered, Waiting!PollTimeout, Waiting!Record, Waiting!Drop, Waiting!Kill, Waiting!Moves
<1>10. Kept
  <2>1. CASE Waiting!FindAnswer(w) \/ Waiting!Drop(w) \/ Waiting!PollTimeout(w)
    BY <1>4, <1>6, <1>7, <2>1 DEF Waiting!FindAnswer, Waiting!Drop, Waiting!PollTimeout, Waiting!Moves
  <2>2. CASE Waiting!PollAnswered(w)
    BY <1>4, <1>5, <1>6, <2>2 DEF Waiting!PollAnswered, Waiting!Moves
  <2>3. CASE Waiting!Record(w)
    BY <1>5, <1>6, <2>3 DEF Waiting!Record, Waiting!Moves
  <2>4. CASE Waiting!Kill(w)
    BY <1>5, <2>4 DEF Waiting!Kill, Waiting!Moves
  <2>5. QED BY <2>1, <2>2, <2>3, <2>4
<1>11. PICK to \in {"record", "drop", "done", "killed"}:
         waiter' = [waiter EXCEPT ![w] = to] /\ waiter'[w] = to
  BY <1>8
<1>12. QED BY <1>1, <1>2, <1>3, <1>4, <1>9, <1>10, <1>11, WaitKeeps

\* A wait is registered until its deadline, and polls at once; no wait registers
\* or polls again once the answer is saved.
LEMMA WaitPolls ==
  ASSUME Waiting!IInv, NEW w \in Waiter, Waiting!Register(w) \/ Waiting!PollAgain(w)
  PROVE  Waiting!IInv'
<1>1. /\ UNCHANGED <<now, answered, Waiting!notifier, receipt, failed>> /\ ~answered
      /\ waiter' = [waiter EXCEPT ![w] = "poll"] /\ waiter[w] \in {"new", "poll"}
  BY DEF Waiting!Register, Waiting!PollAgain, Waiting!Moves
<1>2. /\ until \in [Waiter -> -1..MaxTime + Longest] /\ MaxTime + Longest \in Nat
      /\ deadline \in [Waiter -> 0..MaxTime + Longest]
      /\ due \in [Waiter -> 0..MaxTime + Longest]
      /\ \A v \in Waiter: due[v] <= deadline[v]
      /\ failed \subseteq Waiter /\ receipt \in BOOLEAN
  BY TimesAssumption DEF Waiting!IInv, Waiting!TypeOK, Waiting!WaitInv
<1>3. notice = "none"
  BY <1>1 DEF Waiting!IInv, Waiting!EndInv
<1>4. CASE Waiting!PollAgain(w)
  <2>1. /\ until' = until /\ deadline' = deadline /\ due' = [due EXCEPT ![w] = Waiting!NextPoll(w)]
        /\ now < deadline[w] /\ waiter[w] = "poll"
    BY <1>4 DEF Waiting!PollAgain, Waiting!Moves
  <2>2. /\ Waiting!NextPoll(w) \in 0..MaxTime + Longest /\ Waiting!NextPoll(w) <= deadline[w]
        /\ now <= Waiting!NextPoll(w) /\ Waiting!NextPoll(w) <= now + Gap
    BY <2>1, Times DEF Waiting!NextPoll
  <2>3. /\ due' \in [Waiter -> 0..MaxTime + Longest] /\ due'[w] = Waiting!NextPoll(w)
        /\ \A v \in Waiter \ {w}: due'[v] = due[v]
    BY <1>2, <2>1, <2>2
  <2>4. \A v \in Waiter: due'[v] <= deadline'[v]
    BY <1>2, <2>1, <2>2, <2>3
  <2>5. until'[w] \in {-1, deadline'[w]}
    BY <2>1 DEF Waiting!IInv, Waiting!WaitInv
  <2>6. QED BY <1>1, <1>2, <1>3, <2>1, <2>2, <2>3, <2>4, <2>5, WaitKeeps
<1>5. CASE Waiting!Register(w)
  <2>1. PICK seconds \in 0..Longest:
          /\ deadline' = [deadline EXCEPT ![w] = now + seconds]
          /\ until' = IF seconds = 0 THEN until
                      ELSE [v \in Waiter |-> IF v = w THEN now + seconds
                                             ELSE IF v \in Waiting!Purged THEN -1 ELSE until[v]]
    BY <1>5 DEF Waiting!Register
  <2>2. due' = [due EXCEPT ![w] = now] /\ waiter[w] = "new"
    BY <1>5 DEF Waiting!Register, Waiting!Moves
  <2>3. now + seconds \in 0..MaxTime + Longest /\ now \in 0..MaxTime + Longest /\ now <= now + seconds
    BY Times
  <2>4. /\ deadline' \in [Waiter -> 0..MaxTime + Longest] /\ deadline'[w] = now + seconds
        /\ due' \in [Waiter -> 0..MaxTime + Longest] /\ due'[w] = now
        /\ \A v \in Waiter \ {w}: deadline'[v] = deadline[v] /\ due'[v] = due[v]
    BY <1>2, <2>1, <2>2, <2>3
  <2>5. \A v \in Waiter: due'[v] <= deadline'[v]
    BY <1>2, <2>3, <2>4
  <2>6. /\ until' \in [Waiter -> -1..MaxTime + Longest]
        /\ \A v \in Waiter \ {w}: until'[v] \in {-1, until[v]}
    BY <1>2, <2>1, <2>3
  <2>7. until'[w] \in {-1, deadline'[w]}
    <3>1. CASE seconds = 0
      BY <2>1, <3>1, <2>2 DEF Waiting!IInv, Waiting!WaitInv
    <3>2. CASE seconds # 0
      BY <2>1, <2>4, <3>2
    <3>3. QED BY <3>1, <3>2
  <2>8. now <= due'[w] /\ due'[w] <= now + Gap
    BY <2>4, Times
  <2>9. QED BY <1>1, <1>2, <1>3, <2>2, <2>4, <2>5, <2>6, <2>7, <2>8, WaitKeeps
<1>6. QED BY <1>4, <1>5

-----------------------------------------------------------------------------
(* Grace: the notice and the clock.                                        *)

\* The steps of the notice leave the waits alone.
LEMMA NotifyKeeps ==
  ASSUME Waiting!IInv, Waiting!SaveAnswer \/ Waiting!Notify
  PROVE  Waiting!IInv'
<1>1. UNCHANGED <<now, receipt, until, waiter, deadline, due, failed>>
  BY DEF Waiting!SaveAnswer, Waiting!Notify, Waiting!Claim, Waiting!Skip, Waiting!GraceOver, Waiting!Submit, Waiting!waits
<1>2. Waiting!WaitInv' /\ \A w: Waiting!Over(w)' <=> Waiting!Over(w)
  BY <1>1 DEF Waiting!IInv, Waiting!WaitInv, Waiting!Over
<1>3. CASE Waiting!SaveAnswer
  <2>1. answered' = TRUE /\ notice' = "claim" /\ UNCHANGED <<claimed, end, relied>>
    BY <1>3 DEF Waiting!SaveAnswer
  <2>2. Waiting!TypeOK'
    BY <1>1, <2>1 DEF Waiting!IInv, Waiting!TypeOK
  <2>3. Waiting!EndInv' /\ Waiting!ReliedInv' /\ Waiting!NoNeedlessNotice'
    BY <2>1 DEF Waiting!IInv, Waiting!EndInv, Waiting!ReliedInv, Waiting!NoNeedlessNotice
  <2>4. QED BY <1>2, <2>2, <2>3 DEF Waiting!IInv
<1>4. CASE Waiting!Claim
  <2>1. /\ notice = "claim" /\ answered' = answered
        /\ notice' = "grace" /\ claimed' = now /\ end' = now + Waiting!Allowed /\ relied' = Waiting!Relied
    BY <1>4 DEF Waiting!Claim
  <2>2. Waiting!Allowed \in 0..Span /\ \A w \in Waiting!Relied: waiter[w] = "poll" /\ now + Gap < now + Waiting!Allowed
    BY GraceAllowed DEF Waiting!IInv
  <2>3. Waiting!TypeOK'
    BY <1>1, <2>1 DEF Waiting!IInv, Waiting!TypeOK, Waiting!Relied, Waiting!Registered
  <2>4. Waiting!EndInv'
    <3>1. claimed' \in 0..MaxTime /\ end' \in claimed'..claimed' + Span /\ now' <= end'
      BY <1>1, <2>1, <2>2, Times
    <3>2. answered' <=> notice' # "none"
      BY <2>1 DEF Waiting!IInv, Waiting!EndInv
    <3>3. QED BY <2>1, <3>1, <3>2 DEF Waiting!EndInv
  <2>5. \A w \in relied': waiter'[w] = "poll" /\ due'[w] < end'
    <3>1. SUFFICES ASSUME NEW w \in Waiting!Relied PROVE waiter[w] = "poll" /\ due[w] < now + Waiting!Allowed
      BY <1>1, <2>1
    <3>2. w \in Waiter /\ waiter[w] = "poll" /\ due[w] <= now + Gap
      BY <2>2 DEF Waiting!Relied, Waiting!Registered, Waiting!IInv, Waiting!WaitInv
    <3>3. QED BY <2>2, <3>1, <3>2, Times
  <2>6. Waiting!ReliedInv' /\ Waiting!NoNeedlessNotice'
    BY <2>1, <2>5 DEF Waiting!ReliedInv, Waiting!NoNeedlessNotice
  <2>7. QED BY <1>2, <2>3, <2>4, <2>6 DEF Waiting!IInv
<1>5. CASE Waiting!Skip \/ Waiting!GraceOver \/ Waiting!Submit
  <2>1. /\ UNCHANGED <<answered, claimed, end, relied>>
        /\ notice' \in {"skipped", "final", "sent"} /\ notice \in {"grace", "final"}
        /\ notice' = "skipped" => receipt
        /\ notice' = "final" => notice = "grace" /\ ~receipt /\ now >= end
        /\ notice' = "sent" => notice = "final" /\ ~receipt
    BY <1>5 DEF Waiting!Skip, Waiting!GraceOver, Waiting!Submit
  <2>2. Waiting!TypeOK'
    BY <1>1, <2>1 DEF Waiting!IInv, Waiting!TypeOK
  <2>3. Waiting!EndInv'
    BY <1>1, <2>1 DEF Waiting!IInv, Waiting!EndInv
  <2>4. Waiting!ReliedInv'
    <3>1. ASSUME notice' = "final", NEW w \in relied PROVE Waiting!Over(w)
      <4>1. w \in Waiter /\ now >= end /\ notice = "grace"
        BY <2>1, <3>1 DEF Waiting!IInv, Waiting!TypeOK
      <4>2. ~(waiter[w] = "poll" /\ due[w] < end)
        BY <4>1, Times DEF Waiting!IInv, Waiting!WaitInv
      <4>3. ~(now < end)
        BY <4>1, Times
      <4>4. QED BY <4>1, <4>2, <4>3 DEF Waiting!IInv, Waiting!ReliedInv
    <3>2. QED BY <1>2, <2>1, <3>1 DEF Waiting!ReliedInv
  <2>5. Waiting!NoNeedlessNotice'
    BY <1>1, <2>1 DEF Waiting!IInv, Waiting!ReliedInv, Waiting!Over, Waiting!NoNeedlessNotice
  <2>6. QED BY <1>2, <2>2, <2>3, <2>4, <2>5 DEF Waiting!IInv
<1>6. QED BY <1>3, <1>4, <1>5 DEF Waiting!Notify

\* Time passes only while nobody is to act.
LEMMA TickKeeps ==
  ASSUME Waiting!IInv, Waiting!Tick
  PROVE  Waiting!IInv'
<1>1. /\ UNCHANGED <<answered, receipt, until, waiter, deadline, due, failed, notice, claimed,
                     end, relied>>
      /\ now < MaxTime /\ now' = now + 1 /\ ~Waiting!Pending
  BY DEF Waiting!Tick, Waiting!waits, Waiting!notifier
<1>2. /\ \A w \in Waiter: /\ waiter[w] = "poll" => ~(due[w] <= now)
                          /\ waiter[w] \notin {"record", "drop"}
      /\ notice \notin {"claim", "final"}
      /\ notice = "grace" => ~receipt /\ ~(now >= end)
  BY <1>1 DEF Waiting!Pending
<1>3. Waiting!TypeOK'
  <2>1. now' \in 0..MaxTime
    BY <1>1, Times
  <2>2. QED BY <1>1, <2>1 DEF Waiting!IInv, Waiting!TypeOK
<1>4. Waiting!WaitInv'
  <2>1. ASSUME NEW w \in Waiter, waiter[w] = "poll"
        PROVE  now + 1 <= due[w] /\ due[w] <= now + 1 + Gap
    <3>1. ~(due[w] <= now) /\ due[w] <= now + Gap
      BY <1>2, <2>1 DEF Waiting!IInv, Waiting!WaitInv
    <3>2. QED BY <3>1, Times
  <2>2. QED BY <1>1, <2>1 DEF Waiting!IInv, Waiting!WaitInv
<1>5. Waiting!EndInv'
  <2>1. notice = "grace" => now + 1 <= end
    BY <1>2, Times
  <2>2. QED BY <1>1, <1>2, <2>1 DEF Waiting!IInv, Waiting!EndInv
<1>6. Waiting!ReliedInv'
  <2>1. \A w: Waiting!Over(w)' <=> Waiting!Over(w)
    BY <1>1 DEF Waiting!Over
  <2>2. \A w \in relied: w \in Waiter
    BY DEF Waiting!IInv, Waiting!TypeOK
  <2>3. QED BY <1>1, <1>2, <2>1, <2>2 DEF Waiting!IInv, Waiting!ReliedInv
<1>7. Waiting!NoNeedlessNotice'
  BY <1>1 DEF Waiting!IInv, Waiting!NoNeedlessNotice
<1>8. QED BY <1>3, <1>4, <1>5, <1>6, <1>7 DEF Waiting!IInv

\* At first nobody waits.
LEMMA GraceInit == Waiting!Init => Waiting!IInv
<1>1. SUFFICES ASSUME Waiting!Init PROVE Waiting!IInv
  OBVIOUS
<1>2. /\ now = 0 /\ answered = FALSE /\ receipt = FALSE /\ failed = {} /\ notice = "none"
      /\ claimed = 0 /\ end = 0 /\ relied = {}
      /\ until = [w \in Waiter |-> -1] /\ waiter = [w \in Waiter |-> "new"]
      /\ deadline = [w \in Waiter |-> 0] /\ due = [w \in Waiter |-> 0]
  BY <1>1 DEF Waiting!Init
<1>3. 0 \in 0..MaxTime /\ 0 \in 0..MaxTime + Longest /\ -1 \in -1..MaxTime + Longest /\ 0 \in 0..Span
  BY TimesAssumption
<1>4. Waiting!TypeOK
  <2>1. \A w \in Waiter: due[w] <= deadline[w]
    BY <1>2
  <2>2. until \in [Waiter -> -1..MaxTime + Longest]
    BY <1>2, <1>3
  <2>3. waiter \in [Waiter -> {"new", "poll", "record", "drop", "done", "killed"}]
    BY <1>2
  <2>4. QED BY <1>2, <1>3, <2>1, <2>2, <2>3 DEF Waiting!TypeOK
<1>5. Waiting!WaitInv
  BY <1>2, <1>3 DEF Waiting!WaitInv
<1>6. Waiting!EndInv
  BY <1>2, <1>3, TimesAssumption DEF Waiting!EndInv
<1>7. Waiting!ReliedInv /\ Waiting!NoNeedlessNotice
  BY <1>2 DEF Waiting!ReliedInv, Waiting!NoNeedlessNotice
<1>8. QED BY <1>4, <1>5, <1>6, <1>7 DEF Waiting!IInv

\* Each step keeps the invariant.
LEMMA GraceStep == Waiting!IInv /\ [Waiting!Next]_Waiting!vars => Waiting!IInv'
<1>1. SUFFICES ASSUME Waiting!IInv, [Waiting!Next]_Waiting!vars PROVE Waiting!IInv'
  OBVIOUS
<1>2. CASE \E w \in Waiter: Waiting!Wait(w) \/ Waiting!Kill(w)
  BY <1>1, <1>2, WaitEnds, WaitPolls DEF Waiting!Wait
<1>3. CASE Waiting!SaveAnswer \/ Waiting!Notify
  BY <1>1, <1>3, NotifyKeeps
<1>4. CASE Waiting!Tick
  BY <1>1, <1>4, TickKeeps
<1>5. CASE UNCHANGED Waiting!vars
  <2>1. UNCHANGED <<now, answered, receipt, until, waiter, deadline, due, failed, notice,
                    claimed, end, relied>>
    BY <1>5 DEF Waiting!vars, Waiting!waits, Waiting!notifier
  <2>2. Waiting!TypeOK' /\ Waiting!WaitInv' /\ Waiting!EndInv'
    BY <1>1, <2>1 DEF Waiting!IInv, Waiting!TypeOK, Waiting!WaitInv, Waiting!EndInv
  <2>3. Waiting!ReliedInv' /\ Waiting!NoNeedlessNotice'
    BY <1>1, <2>1 DEF Waiting!IInv, Waiting!ReliedInv, Waiting!NoNeedlessNotice, Waiting!Over
  <2>4. QED BY <2>2, <2>3 DEF Waiting!IInv
<1>6. QED BY <1>1, <1>2, <1>3, <1>4, <1>5 DEF Waiting!Next

\* The invariant says what the notice promises.
LEMMA GracePromises == Waiting!IInv => Waiting!TypeOK /\ Waiting!NoNeedlessNotice /\ Waiting!StaleRowsOnlyDelay
<1>1. SUFFICES ASSUME Waiting!IInv PROVE Waiting!StaleRowsOnlyDelay
  BY DEF Waiting!IInv
<1>2. notice \in {"grace", "final"} => now <= claimed + Span
  BY <1>1, Times DEF Waiting!IInv, Waiting!EndInv
<1>3. notice = "skipped" => \E w \in Waiter: waiter[w] \in {"drop", "done", "killed"}
  BY <1>1 DEF Waiting!IInv, Waiting!EndInv, Waiting!WaitInv
<1>4. QED BY <1>2, <1>3 DEF Waiting!StaleRowsOnlyDelay

-----------------------------------------------------------------------------
(* The theorems.                                                           *)

\* A behaviour is one of the reader and one of the notice, one of which stays at
\* its start.
LEMMA ReadingIsBoth == ReadingSpec => Spec /\ Waiting!Spec
<1>1. ReadingInit => Init /\ Waiting!Init
  BY DEF ReadingInit
<1>2. [ReadingNext]_<<reads, vars, waiting>> => [Next]_vars /\ [Waiting!Next]_Waiting!vars
  BY DEF ReadingNext, waiting, Waiting!vars, Waiting!waits, Waiting!notifier
<1>3. QED BY <1>1, <1>2, PTL DEF ReadingSpec, Spec, Waiting!Spec

\* The invariant of the reader holds in every state: what is behind its cursor was
\* shown, and its page leaves nothing out (store.rs page, commands/read.rs).
THEOREM Inductive == ReadingSpec => []IInv
<1>1. QED BY ReadingIsBoth, PagingInit, PagingStep, PTL DEF Spec

\* The invariant of waits and of the notice holds in every state (store.rs wait,
\* skip_after_grace).
THEOREM WaitingInductive == ReadingSpec => []Waiting!IInv
<1>1. QED BY ReadingIsBoth, GraceInit, GraceStep, PTL DEF Waiting!Spec

\* watch shows every open message that it has gone beyond, in whatever order
\* messages are saved, rolled back, answered and acknowledged
\* (commands/read.rs:54-86).
THEOREM NothingIsPassedOver == ReadingSpec => []NothingPassedOver
<1>1. QED BY PagingPromises, Inductive, PTL

\* Pages are in order and without repetition, all but the last are full, and whoever
\* follows them to the end has seen what matched at the first and still does
\* (store.rs:662-712, catalog/mailbox.rs:37-95).
THEOREM PagesStayWhole == ReadingSpec => []PagesAreWhole
<1>1. QED BY PagingPromises, Inductive, PTL

\* The notice of an answer waits a second at most for the waits it relies on, and
\* is not sent of one that had time to return the answer (store.rs:538-552).
THEOREM NoticeWaits == ReadingSpec => []NoticeWaitsForItsWait
<1>1. Waiting!IInv => NoticeWaitsForItsWait
  BY GracePromises DEF NoticeWaitsForItsWait
<1>2. QED BY <1>1, WaitingInductive, PTL
=============================================================================
