--------------------------- MODULE ListsProofs ---------------------------
(***************************************************************************)
(* Proofs about Lists, for any readers, page sizes, writers and width of   *)
(* an int: whoever turns the pages misses nothing, because no row ever     *)
(* moves up in the list.                                                   *)
(***************************************************************************)
EXTENDS Lists, BookingsProofs, FiniteSetTheorems

(* Ids and creation times survive a cancellation, so the order does. *)
LEMMA CancelledKept ==
    ASSUME NEW b \in Booking
    PROVE  /\ Cancelled(b) \in Booking
           /\ Cancelled(b).id = b.id /\ Cancelled(b).createdAt = b.createdAt
           /\ Cancelled(b).user = b.user /\ Cancelled(b).slot = b.slot
           /\ Cancelled(Cancelled(b)) = Cancelled(b)
  BY DEF Booking, Cancelled

LEMMA OrderKept ==
    ASSUME NEW a \in Booking, NEW b \in Booking
    PROVE  /\ ListedBefore(Cancelled(a), b) <=> ListedBefore(a, b)
           /\ ListedBefore(a, Cancelled(b)) <=> ListedBefore(a, b)
  BY CancelledKept DEF ListedBefore

(* No row stands before itself, nor two before each other. *)
LEMMA StrictOrder ==
    ASSUME IdOrder \in [Calls -> Nat], NEW a \in Booking, NEW b \in Booking, ListedBefore(a, b)
    PROVE  ~ListedBefore(b, a) /\ a # b
  BY DEF ListedBefore, Booking

(* Where a row stands in a listing is how many rows come before it. *)
LEMMA Positions ==
    ASSUME IdOrder \in [Calls -> Nat],
           NEW rows \in SUBSET Booking, IsFiniteSet(rows), NEW seq \in Listings(rows)
    PROVE  /\ seq \in [1 .. Cardinality(rows) -> rows]
           /\ Cardinality(rows) \in Nat
           /\ \A b \in rows : \E k \in 1 .. Cardinality(rows) :
                /\ seq[k] = b
                /\ Cardinality({x \in rows : ListedBefore(x, b)}) = k - 1
<1> DEFINE n == Cardinality(rows)
<1>1. n \in Nat
  BY FS_CardinalityType
<1>2. /\ seq \in [1 .. n -> rows]
      /\ \A i, j \in 1 .. n : i # j => seq[i] # seq[j]
      /\ \A i, j \in 1 .. n : i < j => ListedBefore(seq[i], seq[j])
  BY DEF Listings, SetToSeqs
<1> HIDE DEF n
<1>3. seq \in Injection(1 .. n, rows)
  BY <1>2 DEF Injection, IsInjective
<1>4. Cardinality(1 .. n) = n
  BY <1>1, FS_Interval
<1>5. seq \in Surjection(1 .. n, rows)
  BY <1>3, <1>4, FS_Injection DEF n
<1>6. ASSUME NEW k \in 1 .. n
      PROVE  Cardinality({x \in rows : ListedBefore(x, seq[k])}) = k - 1
  <2> DEFINE T == {x \in rows : ListedBefore(x, seq[k])}
             f == [i \in 1 .. k - 1 |-> seq[i]]
  <2>1. \A i \in 1 .. k - 1 : i \in 1 .. n /\ seq[i] \in T
    BY <1>1, <1>2
  <2>2. ASSUME NEW x \in T
        PROVE  \E i \in 1 .. k - 1 : seq[i] = x
    <3>1. PICK i \in 1 .. n : seq[i] = x
      BY <1>5 DEF Surjection
    <3>2. x \in Booking /\ seq[k] \in Booking /\ ListedBefore(x, seq[k])
      BY <1>2
    <3>3. ~ListedBefore(seq[k], x) /\ x # seq[k]
      BY <3>2, StrictOrder
    <3>4. ~(k < i) /\ i # k
      BY <1>2, <3>1, <3>3
    <3> QED
      BY <1>1, <3>1, <3>4
  <2>3. f \in Bijection(1 .. k - 1, T)
    <3>1. f \in [1 .. k - 1 -> T]
      BY <2>1
    <3>2. IsInjective(f)
      BY <1>2, <2>1 DEF IsInjective
    <3>3. \A x \in T : \E i \in 1 .. k - 1 : f[i] = x
      BY <2>2
    <3> QED
      BY <3>1, <3>2, <3>3 DEF Bijection, Injection, Surjection
  <2>4. IsFiniteSet(1 .. k - 1) /\ Cardinality(1 .. k - 1) = k - 1
    BY <1>1, FS_Interval
  <2> HIDE DEF f, T
  <2>5. ExistsBijection(1 .. k - 1, T)
    BY <2>3 DEF ExistsBijection
  <2>6. Cardinality(T) = Cardinality(1 .. k - 1)
    BY <2>4, <2>5, FS_Bijection
  <2> QED
    BY <2>4, <2>6 DEF T
<1> QED
  BY <1>1, <1>2, <1>5, <1>6 DEF n, Surjection

(* What is kept, if only cancelled, is no less. *)
LEMMA NoFewer ==
    ASSUME NEW S \in SUBSET Booking, NEW T, IsFiniteSet(T),
           \A a, b \in S : a.id = b.id => a = b,
           \A b \in S : b \in T \/ Cancelled(b) \in T
    PROVE  IsFiniteSet(S) /\ Cardinality(S) <= Cardinality(T)
<1> DEFINE f == [b \in S |-> IF b \in T THEN b ELSE Cancelled(b)]
<1>1. f \in [S -> T]
  OBVIOUS
<1>2. \A b \in S : f[b].id = b.id
  BY CancelledKept
<1>3. IsInjective(f)
  BY <1>1, <1>2 DEF IsInjective
<1> HIDE DEF f
<1>4. f \in Injection(S, T)
  BY <1>1, <1>3 DEF Injection
<1> QED
  BY <1>4, FS_Injection

----------------------------------------------------------------------------
(* The remainder of a division. *)
LEMMA Remainder ==
    ASSUME NEW n \in Nat, NEW w \in Nat \ {0}
    PROVE  n % w \in 0 .. w - 1 /\ n % w <= n /\ (n < w => n % w = n)
  OBVIOUS

(* The product of a page and a size, and one page more. *)
LEMMA Pages ==
    ASSUME NEW p \in Nat, NEW s \in Nat, p >= 1
    PROVE  (p - 1) * s \in Nat /\ ((p + 1) - 1) * s = (p - 1) * s + s
<1>1. p - 1 \in Nat
  OBVIOUS
<1>2. (p - 1) * s \in Nat
  BY <1>1
<1>3. ((p - 1) + 1) * s = (p - 1) * s + s
  BY <1>1
<1> QED
  BY <1>2, <1>3

(* An offset the statement accepts is never beyond the page's first row,   *)
(* and is that row's unless the product wrapped.                           *)
LEMMA Offsets ==
    ASSUME Word \in Nat \ {0}, NEW a \in PageRequests, a.page >= 1, Offset(a) >= 0
    PROVE  /\ Offset(a) \in Nat
           /\ (a.page - 1) * a.pageSize \in Nat
           /\ Offset(a) <= (a.page - 1) * a.pageSize
           /\ (a.page - 1) * a.pageSize < Word =>
                /\ Offset(a) = (a.page - 1) * a.pageSize
                /\ 2 * ((a.page - 1) * a.pageSize) < Word
<1> DEFINE m == (a.page - 1) * a.pageSize
<1>1. m \in Nat
  BY Pages DEF PageRequests
<1>2. Offset(a) = IF 2 * (m % Word) < Word THEN m % Word ELSE (m % Word) - Word
  BY DEF Offset
<1> HIDE DEF m
<1>3. m % Word \in 0 .. Word - 1 /\ m % Word <= m /\ (m < Word => m % Word = m)
  BY <1>1, Remainder
<1>4. Offset(a) \in Nat /\ Offset(a) <= m /\ (m < Word => Offset(a) = m /\ 2 * m < Word)
  BY <1>1, <1>2, <1>3
<1> QED
  BY <1>1, <1>4 DEF m

(* What LIMIT and OFFSET leave of a listing. *)
LEMMA PageRows ==
    ASSUME NEW rows, NEW n \in Nat, NEW seq \in [1 .. n -> rows],
           NEW a \in PageRequests, Offset(a) \in Nat
    PROVE  /\ ToSet(Page(seq, a)) \subseteq rows
           /\ Len(Page(seq, a)) \in Nat
           /\ Len(Page(seq, a)) >= a.pageSize \/ Offset(a) + Len(Page(seq, a)) >= n
           /\ \A k \in 1 .. n :
                Offset(a) < k /\ k <= Offset(a) + a.pageSize => seq[k] \in ToSet(Page(seq, a))
<1> DEFINE o == Offset(a)
           last == Smaller(o + a.pageSize, n)
           page == SubSeq(seq, o + 1, last)
<1>1. o \in Nat /\ a.pageSize \in Nat
  BY DEF PageRequests
<1> HIDE DEF o
<1>2. seq \in Seq(rows) /\ Len(seq) = n
  OBVIOUS
<1>3. last \in Nat /\ last <= n /\ last <= o + a.pageSize
  BY <1>1 DEF Smaller
<1> HIDE DEF last
<1>4. page = [i \in 1 .. last - o |-> seq[i + o]]
  BY <1>1, <1>2, <1>3
<1>5. Page(seq, a) = page
  BY <1>2 DEF Page, o, last
<1> HIDE DEF page
<1>6. page \in Seq(rows) /\ DOMAIN page = 1 .. last - o
  BY <1>1, <1>2, <1>3, <1>4
<1>7. ToSet(page) \subseteq rows /\ Len(page) \in Nat
  <2>1. \A i \in DOMAIN page : i + o \in 1 .. n /\ page[i] = seq[i + o]
    BY <1>1, <1>3, <1>4, <1>6
  <2>2. Len(page) \in Nat
    BY <1>6
  <2> QED
    BY <2>1, <2>2 DEF ToSet
<1>8. Len(page) >= a.pageSize \/ o + Len(page) >= n
  BY <1>1, <1>3, <1>6 DEF Smaller, last
<1>9. ASSUME NEW k \in 1 .. n, o < k, k <= o + a.pageSize
      PROVE  seq[k] \in ToSet(page)
  <2>1. k <= last
    BY <1>1, <1>9 DEF Smaller, last
  <2>2. k - o \in 1 .. last - o /\ page[k - o] = seq[k]
    BY <1>1, <1>3, <1>4, <1>9, <2>1
  <2> QED
    BY <1>6, <2>2 DEF ToSet
<1> QED
  BY <1>5, <1>7, <1>8, <1>9 DEF o

----------------------------------------------------------------------------
(* What a step of a booking call may do to the table, as readers see it. *)
LEMMA StaysFinite ==
    ASSUME IInv, [Next]_vars, IsFiniteSet(bookings)
    PROVE  IsFiniteSet(bookings')
<1>1. CASE UNCHANGED bookings
  BY <1>1
<1>2. ASSUME NEW c \in Calls, Commit(c) \/ CommitUnacknowledged(c)
      PROVE  IsFiniteSet(bookings')
  <2>1. bookings' = {b \in bookings : \A w \in write[c] : b.id # w.id} \cup write[c]
    BY <1>2 DEF Commit, CommitUnacknowledged, Published
  <2>2. write[c] = {} \/ \E w : write[c] = {w}
    <3>1. \A x, y \in write[c] : x = y
      BY DEF IInv, WriteInv
    <3> QED
      BY <3>1
  <2>3. IsFiniteSet(write[c])
    BY <2>2, FS_EmptySet, FS_Singleton
  <2>4. IsFiniteSet({b \in bookings : \A w \in write[c] : b.id # w.id})
    BY FS_Subset
  <2> QED
    BY <2>1, <2>3, <2>4, FS_Union
<1>3. UNCHANGED bookings \/ \E c \in Calls : Commit(c) \/ CommitUnacknowledged(c)
  BY DEF Next, Handle, CreateStart, GetSlot, CheckBusy, Build, Insert, CancelStart,
         GetBooking, Update, Fail, Crash, Tick, Abort, vars
<1> QED
  BY <1>1, <1>2, <1>3

(* Rows never disappear and none moves up in the list. *)
LEMMA NothingMovesUp ==
    ASSUME IInv, IInv', [Next]_vars, IsFiniteSet(bookings)
    PROVE  /\ IsFiniteSet(bookings')
           /\ Cardinality(bookings) \in Nat /\ Cardinality(bookings)' \in Nat
           /\ Cardinality(bookings) <= Cardinality(bookings)'
           /\ \A b \in Booking : /\ Cardinality(Before(b)) \in Nat
                                 /\ Cardinality(Before(b))' \in Nat
                                 /\ Cardinality(Before(b)) <= Cardinality(Before(b))'
<1>1. IsFiniteSet(bookings')
  BY StaysFinite
<1>2. bookings \in SUBSET Booking /\ bookings' \in SUBSET Booking
  BY DEF IInv, TypeOK
<1>3. \A b \in bookings : b \in bookings' \/ Cancelled(b) \in bookings'
  BY CancelStep
<1>4. \A a, b \in bookings : a.id = b.id => a = b
  BY DEF IInv, KeyInv
<1>5. Cardinality(bookings) <= Cardinality(bookings')
  BY <1>1, <1>2, <1>3, <1>4, NoFewer
<1>6. ASSUME NEW b \in Booking
      PROVE  /\ Cardinality(Before(b)) \in Nat /\ Cardinality(Before(b)') \in Nat
             /\ Cardinality(Before(b)) <= Cardinality(Before(b)')
  <2>1. Before(b) \in SUBSET bookings /\ Before(b)' \in SUBSET bookings'
    BY DEF Before
  <2>2. IsFiniteSet(Before(b)) /\ IsFiniteSet(Before(b)')
    BY <1>1, <2>1, FS_Subset
  <2>3. \A x \in Before(b) : x \in Before(b)' \/ Cancelled(x) \in Before(b)'
    BY <1>2, <1>3, OrderKept DEF Before
  <2>4. Before(b) \in SUBSET Booking /\ \A x, y \in Before(b) : x.id = y.id => x = y
    BY <1>2, <1>4, <2>1
  <2>5. Cardinality(Before(b)) <= Cardinality(Before(b)')
    BY <2>2, <2>3, <2>4, NoFewer
  <2> QED
    BY <2>2, <2>5, FS_CardinalityType
<1> QED
  BY <1>1, <1>5, <1>6, FS_CardinalityType

----------------------------------------------------------------------------
(* A step of a booking call, or of nobody: readers go on where they were. *)
LEMMA WriterInv ==
    ASSUME ConstantsAssumption, ListsInv, [Next]_vars, UNCHANGED readerVars
    PROVE  ListsInv'
<1> USE DEF readerVars
<1>1. IInv /\ RInv /\ IInv' /\ RInv'
  BY NextInv, NextAnswers DEF ListsInv, BookingsInv
<1>2. ReadersTypeOK' /\ AskInv'
  BY DEF ListsInv, ReadersTypeOK, AskInv
<1>3. KnownStays'
  <2>1. \A b \in bookings : b \in bookings' \/ Cancelled(b) \in bookings'
    BY <1>1, CancelStep
  <2>2. IsFiniteSet(bookings')
    BY <1>1, StaysFinite DEF ListsInv, KnownStays
  <2>3. ASSUME NEW r \in Readers, NEW b \in known[r]
        PROVE  b \in bookings' \/ Cancelled(b) \in bookings'
    <3>1. b \in Booking
      BY DEF ListsInv, ReadersTypeOK
    <3>2. b \in bookings \/ Cancelled(b) \in bookings
      BY DEF ListsInv, KnownStays
    <3> QED
      BY <2>1, <3>1, <3>2, CancelledKept
  <2> QED
    BY <2>2, <2>3 DEF KnownStays
<1>4. TotalInv'
  BY <1>1, NothingMovesUp DEF ListsInv, KnownStays, TotalInv, ReadersTypeOK
<1>5. UnseenInv'
  <2> SUFFICES ASSUME NEW r \in Readers, ask[r].op = "list",
                      rpc[r] = "answered" => told[r] = "ok",
                      NEW b \in known[r]
               PROVE  /\ IF rpc[r] = "answered" THEN 2 * Skipped(r) < Word ELSE Skipped(r) < Word
                      /\ b.id \notin {x.id : x \in shown[r]} => Cardinality(Before(b))' >= Turned(r)
    BY DEF UnseenInv, Skipped, Turned
  <2>1. /\ IF rpc[r] = "answered" THEN 2 * Skipped(r) < Word ELSE Skipped(r) < Word
        /\ b.id \notin {x.id : x \in shown[r]} => Cardinality(Before(b)) >= Turned(r)
    BY DEF ListsInv, UnseenInv
  <2>2. b \in Booking /\ ask[r] \in PageRequests
    BY DEF ListsInv, ReadersTypeOK, MineRequests
  <2>3. Cardinality(Before(b)) \in Nat /\ Cardinality(Before(b))' \in Nat
        /\ Cardinality(Before(b)) <= Cardinality(Before(b))'
    BY <1>1, <2>2, NothingMovesUp DEF ListsInv, KnownStays
  <2>4. Skipped(r) \in Int /\ Turned(r) \in Int
    BY <2>2 DEF PageRequests, Skipped, Turned
  <2> QED
    BY <2>1, <2>3, <2>4
<1>6. PagesSkipNothing' /\ PageAgreesWithTotal' /\ MineIsUpToDate'
  BY DEF ListsInv, PagesSkipNothing, PageAgreesWithTotal, MineIsUpToDate
<1> QED
  BY <1>1, <1>2, <1>3, <1>4, <1>5, <1>6 DEF ListsInv, BookingsInv

(* What the readers' steps leave alone. *)
LEMMA TableSameForReaders ==
    ASSUME ConstantsAssumption, ListsInv, UNCHANGED vars
    PROVE  /\ BookingsInv'
           /\ bookings' = bookings
           /\ \A b : Before(b)' = Before(b)
<1>1. BookingsInv'
  BY NextInv, NextAnswers DEF ListsInv, BookingsInv
<1>2. bookings' = bookings
  BY DEF vars
<1> QED
  BY <1>1, <1>2 DEF Before

(* The reader's call is over and shows nothing. *)
LEMMA RefusedInv ==
    ASSUME ConstantsAssumption, ListsInv, NEW r \in Readers,
           NEW a \in {"ErrUnauthorized", "ErrForbidden", "internal", "ErrInvalidPage",
                      "ErrInvalidPageSize"},
           Answer(r, a), UNCHANGED <<vars, ask, readAt, total, shown, lastPage>>,
           known' = known \/ Arrive(r)
    PROVE  ListsInv'
<1> USE DEF Answer, ReaderGoto
<1>0. BookingsInv' /\ bookings' = bookings /\ \A b : Before(b)' = Before(b)
  BY TableSameForReaders
<1>1. /\ known' \in [Readers -> SUBSET Booking]
      /\ \A q \in Readers : known'[q] = known[q] \/ known'[q] = bookings
      /\ \A q \in Readers : q # r => known'[q] = known[q]
  BY DEF Arrive, ListsInv, BookingsInv, IInv, TypeOK, ReadersTypeOK
<1>2. ReadersTypeOK' /\ AskInv'
  BY <1>1 DEF ListsInv, ReadersTypeOK, AskInv
<1>3. KnownStays' /\ TotalInv'
  BY <1>0, <1>1 DEF ListsInv, ReadersTypeOK, KnownStays, TotalInv
<1>4. UnseenInv'
  BY <1>0, <1>1 DEF ListsInv, ReadersTypeOK, UnseenInv, Skipped, Turned
<1>5. PagesSkipNothing' /\ PageAgreesWithTotal' /\ MineIsUpToDate'
  BY <1>0, <1>1 DEF ListsInv, ReadersTypeOK, PagesSkipNothing, PageAgreesWithTotal,
                    MineIsUpToDate
<1> QED
  BY <1>0, <1>2, <1>3, <1>4, <1>5 DEF ListsInv

LEMMA RoleErrors ==
    ASSUME NEW actor, NEW role
    PROVE  RequireRole(actor, role) \in {"ErrUnauthorized", "ErrForbidden", "ok"}
  BY DEF RequireRole

LEMMA ListMineInv ==
    ASSUME ConstantsAssumption, ListsInv, NEW r \in Readers, ListMine(r)
    PROVE  ListsInv'
<1> USE DEF ReaderGoto
<1>0. BookingsInv' /\ bookings' = bookings /\ \A b : Before(b)' = Before(b)
  BY TableSameForReaders DEF ListMine
<1>1. CASE RequireRole(ask[r].actor, "user") # "ok"
  BY <1>1, RefusedInv, RoleErrors DEF ListMine
<1>2. CASE RequireRole(ask[r].actor, "user") = "ok"
  <2>1. /\ rpc[r] = "received" /\ ask[r].op = "mine"
        /\ rpc' = [rpc EXCEPT ![r] = "selectMine"]
        /\ readAt' = [readAt EXCEPT ![r] = clock]
        /\ UNCHANGED <<told, ask, total, shown, lastPage>>
    BY <1>2 DEF ListMine
  <2>2. /\ known' \in [Readers -> SUBSET Booking]
        /\ \A q \in Readers : known'[q] = known[q] \/ known'[q] = bookings
        /\ \A q \in Readers : q # r => known'[q] = known[q]
    BY DEF ListMine, Arrive, ListsInv, BookingsInv, IInv, TypeOK, ReadersTypeOK
  <2>3. ReadersTypeOK' /\ AskInv'
    BY <2>1, <2>2 DEF ListsInv, ReadersTypeOK, AskInv, BookingsInv, IInv, TypeOK
  <2>4. KnownStays' /\ TotalInv'
    BY <1>0, <2>1, <2>2 DEF ListsInv, ReadersTypeOK, KnownStays, TotalInv
  <2>5. UnseenInv'
    BY <1>0, <2>1, <2>2 DEF ListsInv, ReadersTypeOK, UnseenInv, Skipped, Turned
  <2>6. PagesSkipNothing' /\ PageAgreesWithTotal' /\ MineIsUpToDate'
    BY <1>0, <2>1, <2>2 DEF ListsInv, ReadersTypeOK, PagesSkipNothing, PageAgreesWithTotal,
                            MineIsUpToDate
  <2> QED
    BY <1>0, <2>3, <2>4, <2>5, <2>6 DEF ListsInv
<1> QED
  BY <1>1, <1>2

(* A slot begins at a time that a column can hold, so that it makes no     *)
(* difference that the query compares it with now as it would be stored.   *)
LEMMA LaterThanStored ==
    ASSUME ConstantsAssumption, NEW s \in Slots, NEW t \in Nat
    PROVE  StartAt[s] > Stored(t) <=> StartAt[s] > t
<1>1. /\ Precision \in Nat \ {0}
      /\ StartAt[s] \in Nat /\ Stored(StartAt[s]) = StartAt[s]
  BY DEF ConstantsAssumption
<1>2. Stored(t) \in Nat /\ Stored(t) <= t
  BY StoredTime
<1>3. StartAt[s] > Stored(t) => StartAt[s] > t
  BY <1>1 DEF Stored
<1> QED
  BY <1>1, <1>2, <1>3

(* SelectMine shows what the query finds then, compared with now as read.  *)
LEMMA SelectMineInv ==
    ASSUME ConstantsAssumption, ListsInv, NEW r \in Readers, SelectMine(r)
    PROVE  ListsInv'
<1> DEFINE rows == ListByUserFuture(ask[r].actor, readAt[r])
<1>0. BookingsInv' /\ bookings' = bookings /\ \A b : Before(b)' = Before(b)
  BY TableSameForReaders DEF SelectMine
<1>1. /\ rpc[r] = "selectMine" /\ ask[r].op = "mine"
      /\ shown' = [shown EXCEPT ![r] = rows]
      /\ rpc' = [rpc EXCEPT ![r] = "answered"]
      /\ told' = [told EXCEPT ![r] = "ok"]
      /\ UNCHANGED <<ask, readAt, total, lastPage, known>>
  BY DEF SelectMine, Answer, ReaderGoto, ListsInv, AskInv
<1>2. /\ rows \in SUBSET Booking
      /\ \A b : b \in rows <=> b \in bookings /\ b.user = ask[r].actor
                               /\ StartAt[b.slot] > readAt[r]
  <2>1. \A b : b \in rows <=> b \in bookings /\ b.user = ask[r].actor
                             /\ StartAt[b.slot] > Stored(readAt[r])
    BY DEF ListByUserFuture
  <2>2. bookings \in SUBSET Booking /\ readAt[r] \in Nat
    BY DEF ListsInv, BookingsInv, IInv, TypeOK, ReadersTypeOK
  <2>3. ASSUME NEW b \in Booking
        PROVE  StartAt[b.slot] > Stored(readAt[r]) <=> StartAt[b.slot] > readAt[r]
    BY <2>2, LaterThanStored DEF Booking
  <2> QED
    BY <2>1, <2>2, <2>3
<1> HIDE DEF rows
<1>3. ReadersTypeOK' /\ AskInv'
  BY <1>1, <1>2 DEF ListsInv, ReadersTypeOK, AskInv
<1>4. KnownStays' /\ TotalInv'
  BY <1>0, <1>1 DEF ListsInv, ReadersTypeOK, KnownStays, TotalInv
<1>5. UnseenInv'
  BY <1>0, <1>1 DEF ListsInv, ReadersTypeOK, UnseenInv, Skipped, Turned
<1>6. PagesSkipNothing' /\ PageAgreesWithTotal'
  BY <1>0, <1>1 DEF ListsInv, ReadersTypeOK, PagesSkipNothing, PageAgreesWithTotal
<1>7. MineIsUpToDate'
  <2>1. ASSUME NEW b \in known[r], b.user = ask[r].actor, StartAt[b.slot] > readAt[r]
        PROVE  b \in rows \/ Cancelled(b) \in rows
    <3>1. b \in Booking /\ (b \in bookings \/ Cancelled(b) \in bookings)
      BY DEF ListsInv, ReadersTypeOK, KnownStays
    <3> QED
      BY <1>2, <2>1, <3>1, CancelledKept
  <2>2. ASSUME NEW b \in rows
        PROVE  b.user = ask[r].actor /\ StartAt[b.slot] >= readAt[r]
    <3>1. StartAt[b.slot] \in Nat /\ readAt[r] \in Nat
      BY <1>2 DEF ConstantsAssumption, Booking, ListsInv, ReadersTypeOK
    <3> QED
      BY <1>2, <3>1
  <2> QED
    BY <1>1, <2>1, <2>2 DEF ListsInv, ReadersTypeOK, MineIsUpToDate
<1> QED
  BY <1>0, <1>3, <1>4, <1>5, <1>6, <1>7 DEF ListsInv

LEMMA ListInv ==
    ASSUME ConstantsAssumption, Word \in Nat \ {0}, ListsInv, NEW r \in Readers, List(r)
    PROVE  ListsInv'
<1> USE DEF ReaderGoto
<1> DEFINE role == RequireRole(ask[r].actor, "admin")
           a == ask[r]
<1>0. BookingsInv' /\ bookings' = bookings /\ \A b : Before(b)' = Before(b)
  BY TableSameForReaders DEF List
<1>1. role \in {"ErrUnauthorized", "ErrForbidden", "ok"}
  BY RoleErrors
<1>2. /\ rpc[r] = "received" /\ a.op = "list"
      /\ Arrive(r)
      /\ \/ role # "ok" /\ Answer(r, role)
         \/ role = "ok" /\ a.page < 1 /\ Answer(r, "ErrInvalidPage")
         \/ role = "ok" /\ ~(a.page < 1) /\ a.pageSize < 1 /\ Answer(r, "ErrInvalidPageSize")
         \/ /\ role = "ok" /\ a.page >= 1 /\ a.pageSize >= 1
            /\ rpc' = [rpc EXCEPT ![r] = "count"]
            /\ UNCHANGED told
      /\ UNCHANGED <<vars, ask, readAt, total, shown, lastPage>>
  BY <1>1 DEF List
<1> HIDE DEF role
<1>3. CASE \E e \in {"ErrUnauthorized", "ErrForbidden", "ErrInvalidPage", "ErrInvalidPageSize"} :
             Answer(r, e)
  BY <1>2, <1>3, RefusedInv
<1>4. CASE a.page >= 1 /\ a.pageSize >= 1 /\ rpc' = [rpc EXCEPT ![r] = "count"]
               /\ UNCHANGED told
  <2>1. /\ rpc[r] = "received" /\ ask[r].op = "list"
        /\ ask[r].page >= 1 /\ ask[r].pageSize >= 1
        /\ rpc' = [rpc EXCEPT ![r] = "count"]
        /\ UNCHANGED <<told, ask, readAt, total, shown, lastPage>>
    BY <1>2, <1>4
  <2>2. /\ known' \in [Readers -> SUBSET Booking]
        /\ \A q \in Readers : q # r => known'[q] = known[q]
        /\ \/ known'[r] = known[r]
           \/ told[r] = "none" /\ ask[r].page = 1 /\ known'[r] = bookings
    BY <1>2, <2>1 DEF Arrive, ListsInv, BookingsInv, IInv, TypeOK, ReadersTypeOK
  <2>3. ReadersTypeOK' /\ AskInv'
    BY <2>1, <2>2 DEF ListsInv, ReadersTypeOK, AskInv
  <2>4. KnownStays' /\ TotalInv'
    BY <1>0, <2>1, <2>2 DEF ListsInv, ReadersTypeOK, KnownStays, TotalInv
  <2>5. CASE known'[r] = known[r]
    <3>1. UnseenInv'
      BY <1>0, <2>1, <2>2, <2>5 DEF ListsInv, ReadersTypeOK, UnseenInv, Skipped, Turned
    <3>2. PagesSkipNothing' /\ PageAgreesWithTotal' /\ MineIsUpToDate'
      BY <1>0, <2>1, <2>2 DEF ListsInv, ReadersTypeOK, PagesSkipNothing, PageAgreesWithTotal,
                              MineIsUpToDate
    <3> QED
      BY <1>0, <2>3, <2>4, <3>1, <3>2 DEF ListsInv
  <2>6. CASE ask[r].page = 1
    <3>1. Skipped(r) = 0 /\ Skipped(r)' = 0 /\ Turned(r)' = 0
      BY <2>1, <2>6 DEF Skipped, Turned, ListsInv, ReadersTypeOK, MineRequests, PageRequests
    <3>2. \A b : IsFiniteSet(Before(b)) /\ Cardinality(Before(b)) \in Nat
      BY FS_Subset, FS_CardinalityType DEF Before, ListsInv, KnownStays
    <3>3. UnseenInv'
      <4>1. ASSUME NEW q \in Readers, q # r, ask[q].op = "list",
                   rpc[q] = "answered" => told[q] = "ok", NEW b \in known[q]
            PROVE  /\ IF rpc[q] = "answered" THEN 2 * Skipped(q)' < Word ELSE Skipped(q)' < Word
                   /\ b.id \notin {x.id : x \in shown[q]} => Cardinality(Before(b)) >= Turned(q)'
        BY <2>1, <4>1 DEF ListsInv, UnseenInv, Skipped, Turned, ReadersTypeOK
      <4> QED
        BY <1>0, <2>1, <2>2, <3>1, <3>2, <4>1 DEF UnseenInv, ListsInv, ReadersTypeOK
    <3>4. PagesSkipNothing' /\ PageAgreesWithTotal' /\ MineIsUpToDate'
      BY <1>0, <2>1, <2>2 DEF ListsInv, ReadersTypeOK, PagesSkipNothing, PageAgreesWithTotal,
                              MineIsUpToDate
    <3> QED
      BY <1>0, <2>3, <2>4, <3>3, <3>4 DEF ListsInv
  <2> QED
    BY <2>2, <2>5, <2>6
<1> QED
  BY <1>1, <1>2, <1>3, <1>4

LEMMA CountInv ==
    ASSUME ConstantsAssumption, ListsInv, NEW r \in Readers, Count(r)
    PROVE  ListsInv'
<1>0. BookingsInv' /\ bookings' = bookings /\ \A b : Before(b)' = Before(b)
  BY TableSameForReaders DEF Count
<1>1. /\ rpc[r] = "count"
      /\ total' = [total EXCEPT ![r] = Cardinality(bookings)]
      /\ rpc' = [rpc EXCEPT ![r] = "selectPage"]
      /\ UNCHANGED <<ask, readAt, shown, lastPage, told, known>>
  BY DEF Count, ReaderGoto
<1>2. Cardinality(bookings) \in Nat
  BY FS_CardinalityType DEF ListsInv, KnownStays
<1>3. ReadersTypeOK' /\ AskInv'
  BY <1>1, <1>2 DEF ListsInv, ReadersTypeOK, AskInv
<1>4. KnownStays' /\ TotalInv'
  BY <1>0, <1>1, <1>2 DEF ListsInv, ReadersTypeOK, KnownStays, TotalInv
<1>5. UnseenInv'
  BY <1>0, <1>1 DEF ListsInv, ReadersTypeOK, UnseenInv, Skipped, Turned
<1>6. PagesSkipNothing' /\ PageAgreesWithTotal' /\ MineIsUpToDate'
  BY <1>0, <1>1 DEF ListsInv, ReadersTypeOK, PagesSkipNothing, PageAgreesWithTotal,
                    MineIsUpToDate
<1> QED
  BY <1>0, <1>3, <1>4, <1>5, <1>6 DEF ListsInv

(* The page shows what has not been turned over and fits on it; what it    *)
(* does not show stands below it.                                          *)
LEMMA SelectPageInv ==
    ASSUME ConstantsAssumption, Word \in Nat \ {0}, IdOrder \in [Calls -> Nat],
           ListsInv, NEW r \in Readers, SelectPage(r)
    PROVE  ListsInv'
<1> DEFINE a == ask[r]
           n == Cardinality(bookings)
           m == (a.page - 1) * a.pageSize
<1>0. BookingsInv' /\ bookings' = bookings /\ \A b : Before(b)' = Before(b)
  BY TableSameForReaders DEF SelectPage
<1>1. PICK seq \in Listings(bookings) :
        /\ rpc[r] = "selectPage" /\ Offset(a) >= 0
        /\ shown' = [shown EXCEPT ![r] = @ \cup ToSet(Page(seq, a))]
        /\ lastPage' = [lastPage EXCEPT ![r] = Len(Page(seq, a))]
        /\ rpc' = [rpc EXCEPT ![r] = "answered"]
        /\ told' = [told EXCEPT ![r] = "ok"]
        /\ UNCHANGED <<ask, readAt, total, known>>
  BY DEF SelectPage, RowsOfList, Answer, ReaderGoto
<1>2. /\ a \in PageRequests /\ a.op = "list" /\ a.page >= 1 /\ a.pageSize >= 1
      /\ a.page \in Nat /\ a.pageSize \in Nat
  BY <1>1 DEF ListsInv, ReadersTypeOK, AskInv, MineRequests, PageRequests
<1>3. /\ Offset(a) \in Nat /\ m \in Nat /\ Offset(a) <= m
      /\ m < Word => Offset(a) = m /\ 2 * m < Word
  BY <1>1, <1>2, Offsets
<1>4. /\ bookings \in SUBSET Booking /\ IsFiniteSet(bookings)
      /\ total[r] \in Nat /\ total[r] <= n
  BY <1>1 DEF ListsInv, BookingsInv, IInv, TypeOK, KnownStays, ReadersTypeOK, TotalInv
<1>5. /\ n \in Nat /\ seq \in [1 .. n -> bookings]
      /\ \A b \in bookings : \E k \in 1 .. n :
           seq[k] = b /\ Cardinality({x \in bookings : ListedBefore(x, b)}) = k - 1
  BY <1>4, Positions
<1> HIDE DEF n, m
<1>6. /\ ToSet(Page(seq, a)) \subseteq bookings /\ Len(Page(seq, a)) \in Nat
      /\ Len(Page(seq, a)) >= a.pageSize \/ Offset(a) + Len(Page(seq, a)) >= n
      /\ \A k \in 1 .. n :
           Offset(a) < k /\ k <= Offset(a) + a.pageSize => seq[k] \in ToSet(Page(seq, a))
  <2>1. n \in Nat /\ seq \in [1 .. n -> bookings] /\ a \in PageRequests /\ Offset(a) \in Nat
    BY <1>2, <1>3, <1>5
  <2> QED
    BY <2>1, PageRows
<1>7. ASSUME NEW b \in known[r], b.id \notin {x.id : x \in shown'[r]}
      PROVE  /\ Cardinality(Before(b)) >= m + a.pageSize
             /\ Len(Page(seq, a)) >= a.pageSize
  <2>1. b \in Booking /\ (b \in bookings \/ Cancelled(b) \in bookings)
    BY DEF ListsInv, ReadersTypeOK, KnownStays
  <2>2. PICK row \in bookings : row.id = b.id /\ row \in {b, Cancelled(b)}
    BY <2>1, CancelledKept
  <2>3. Before(b) = {x \in bookings : ListedBefore(x, row)}
    BY <1>4, <2>1, <2>2, OrderKept DEF Before
  <2>4. PICK k \in 1 .. n : seq[k] = row /\ Cardinality(Before(b)) = k - 1
    BY <1>5, <2>3
  <2>5. m < Word /\ Cardinality(Before(b)) >= m
    <3>1. b.id \notin {x.id : x \in shown[r]}
      BY <1>1, <1>7 DEF ListsInv, ReadersTypeOK
    <3> QED
      BY <1>1, <1>2, <3>1 DEF ListsInv, UnseenInv, Skipped, Turned, m
  <2>6. row \notin ToSet(Page(seq, a))
    BY <1>1, <1>7, <2>2 DEF ListsInv, ReadersTypeOK
  <2>7. ~(k <= m + a.pageSize)
    BY <1>2, <1>3, <1>5, <1>6, <2>4, <2>5, <2>6
  <2> QED
    BY <1>2, <1>3, <1>5, <1>6, <2>4, <2>5, <2>7 DEF Smaller
<1>8. \A b \in known[r] : 2 * m < Word
  BY <1>1, <1>2, <1>3 DEF ListsInv, UnseenInv, Skipped, m
<1>9. Len(Page(seq, a)) >= Smaller(a.pageSize, total[r] - m)
  BY <1>2, <1>3, <1>4, <1>5, <1>6 DEF Smaller
<1>10. ReadersTypeOK' /\ AskInv'
  BY <1>1, <1>2, <1>4, <1>6 DEF ListsInv, ReadersTypeOK, AskInv
<1>11. KnownStays' /\ TotalInv'
  BY <1>0, <1>1 DEF ListsInv, ReadersTypeOK, KnownStays, TotalInv
<1>12. UnseenInv'
  <2>1. ASSUME NEW q \in Readers, q # r, ask[q].op = "list",
               rpc[q] = "answered" => told[q] = "ok", NEW b \in known[q]
        PROVE  /\ IF rpc[q] = "answered" THEN 2 * Skipped(q) < Word ELSE Skipped(q) < Word
               /\ b.id \notin {x.id : x \in shown[q]} => Cardinality(Before(b)) >= Turned(q)
    BY <2>1 DEF ListsInv, UnseenInv
  <2>2. \A q \in Readers : q # r => /\ Turned(q)' = Turned(q) /\ Skipped(q)' = Skipped(q)
                                    /\ rpc'[q] = rpc[q] /\ shown'[q] = shown[q]
                                    /\ told'[q] = told[q]
    BY <1>1 DEF Turned, Skipped, ListsInv, ReadersTypeOK
  <2>3. Skipped(r)' = m /\ Turned(r)' = m + a.pageSize /\ rpc'[r] = "answered"
    BY <1>1 DEF Turned, Skipped, ListsInv, ReadersTypeOK, m
  <2> QED
    BY <1>0, <1>1, <1>7, <1>8, <2>1, <2>2, <2>3 DEF UnseenInv
<1>13. PagesSkipNothing'
  <2>1. ASSUME lastPage'[r] < a.pageSize
        PROVE  {b.id : b \in known[r]} \subseteq {b.id : b \in shown'[r]}
    <3>1. lastPage'[r] = Len(Page(seq, a))
      BY <1>1 DEF ListsInv, ReadersTypeOK
    <3>2. \A b \in known[r] : b.id \in {x.id : x \in shown'[r]}
      BY <1>2, <1>6, <1>7, <2>1, <3>1
    <3> QED
      BY <3>2
  <2> QED
    BY <1>1, <2>1 DEF ListsInv, ReadersTypeOK, PagesSkipNothing
<1>14. PageAgreesWithTotal'
  BY <1>1, <1>9 DEF ListsInv, ReadersTypeOK, PageAgreesWithTotal, m
<1>15. MineIsUpToDate'
  BY <1>0, <1>1, <1>2 DEF ListsInv, ReadersTypeOK, MineIsUpToDate
<1> QED
  BY <1>0, <1>10, <1>11, <1>12, <1>13, <1>14, <1>15 DEF ListsInv

(* What has not been shown stands below the page just turned. *)
LEMMA TurnPageInv ==
    ASSUME ConstantsAssumption, Word \in Nat \ {0}, ListsInv, NEW r \in Readers, TurnPage(r)
    PROVE  ListsInv'
<1> DEFINE a == ask[r]
<1>0. BookingsInv' /\ bookings' = bookings /\ \A b : Before(b)' = Before(b)
  BY TableSameForReaders DEF TurnPage
<1>1. /\ rpc[r] = "answered" /\ told[r] = "ok" /\ a.op = "list"
      /\ ask' = [ask EXCEPT ![r] = [a EXCEPT !.page = @ + 1]]
      /\ rpc' = [rpc EXCEPT ![r] = "received"]
      /\ UNCHANGED <<readAt, total, shown, lastPage, told, known>>
  BY DEF TurnPage, ReaderGoto
<1>2. /\ a \in PageRequests /\ a.page \in Nat /\ a.pageSize \in Nat
      /\ a.page >= 1 /\ a.pageSize >= 1 /\ 2 * a.pageSize < Word
  BY <1>1 DEF ListsInv, ReadersTypeOK, AskInv, MineRequests, PageRequests
<1>3. /\ ask'[r] \in PageRequests
      /\ ask'[r].page = a.page + 1 /\ ask'[r].pageSize = a.pageSize /\ ask'[r].op = "list"
  BY <1>1, <1>2 DEF ListsInv, ReadersTypeOK, PageRequests
<1>4. \A q \in Readers : q # r => ask'[q] = ask[q] /\ rpc'[q] = rpc[q]
  BY <1>1 DEF ListsInv, ReadersTypeOK
<1>5. ask' \in [Readers -> MineRequests \cup PageRequests] /\ rpc'[r] = "received"
  BY <1>1, <1>3, <1>4 DEF ListsInv, ReadersTypeOK
<1>6. ReadersTypeOK' /\ AskInv'
  BY <1>1, <1>2, <1>3, <1>4, <1>5 DEF ListsInv, ReadersTypeOK, AskInv
<1>7. KnownStays' /\ TotalInv'
  BY <1>0, <1>1, <1>4, <1>5 DEF ListsInv, ReadersTypeOK, KnownStays, TotalInv
<1>8. UnseenInv'
  <2>1. Skipped(r) \in Nat /\ Skipped(r)' = Skipped(r) + a.pageSize
    BY <1>2, <1>3, Pages DEF Skipped
  <2>2. Turned(r)' = Turned(r) /\ Turned(r) = Skipped(r)'
    BY <1>1, <1>5, <2>1 DEF Turned
  <2>3. \A q \in Readers : q # r => Turned(q)' = Turned(q) /\ Skipped(q)' = Skipped(q)
    BY <1>4 DEF Turned, Skipped
  <2>4. \A b \in known[r] :
          /\ 2 * Skipped(r) < Word
          /\ b.id \notin {x.id : x \in shown[r]} => Cardinality(Before(b)) >= Turned(r)
    BY <1>1 DEF ListsInv, UnseenInv
  <2>5. \A b \in known[r] : Skipped(r)' < Word
    BY <1>2, <2>1, <2>4, Word \in Nat
  <2>6. ASSUME NEW q \in Readers, q # r, ask[q].op = "list",
               rpc[q] = "answered" => told[q] = "ok", NEW b \in known[q]
        PROVE  /\ IF rpc[q] = "answered" THEN 2 * Skipped(q) < Word ELSE Skipped(q) < Word
               /\ b.id \notin {x.id : x \in shown[q]} => Cardinality(Before(b)) >= Turned(q)
    BY <2>6 DEF ListsInv, UnseenInv
  <2> QED
    BY <1>0, <1>1, <1>3, <1>4, <1>5, <2>2, <2>3, <2>4, <2>5, <2>6 DEF UnseenInv
<1>9. PagesSkipNothing' /\ PageAgreesWithTotal' /\ MineIsUpToDate'
  BY <1>0, <1>1, <1>3, <1>4, <1>5 DEF ListsInv, PagesSkipNothing, PageAgreesWithTotal,
                                      MineIsUpToDate
<1> QED
  BY <1>0, <1>6, <1>7, <1>8, <1>9 DEF ListsInv

(* Whoever is cut off is answered nothing. *)
LEMMA ServerStopsInv ==
    ASSUME ConstantsAssumption, ListsInv, ServerStops
    PROVE  ListsInv'
<1>0. /\ BookingsInv' /\ bookings' = bookings /\ \A b : Before(b)' = Before(b)
  <2>1. [Next]_vars /\ bookings' = bookings
    BY DEF ServerStops, Next, Crash, vars
  <2>2. BookingsInv'
    BY <2>1, NextInv, NextAnswers DEF ListsInv, BookingsInv
  <2> QED
    BY <2>1, <2>2 DEF Before
<1>1. /\ \A q \in Readers : \/ rpc'[q] = rpc[q] /\ told'[q] = told[q]
                            \/ rpc'[q] = "answered" /\ told'[q] = "lost"
      /\ rpc' \in [Readers -> {"received", "selectMine", "count", "selectPage", "answered"}]
      /\ told' \in [Readers -> {"none", "ok", "ErrUnauthorized", "ErrForbidden", "internal",
                                "lost", "ErrInvalidPage", "ErrInvalidPageSize"}]
      /\ UNCHANGED <<ask, readAt, total, shown, lastPage, known>>
  BY DEF ServerStops, ListsInv, ReadersTypeOK
<1>2. ReadersTypeOK' /\ AskInv'
  BY <1>1 DEF ListsInv, ReadersTypeOK, AskInv
<1>3. KnownStays' /\ TotalInv'
  BY <1>0, <1>1 DEF ListsInv, KnownStays, TotalInv
<1>4. UnseenInv'
  BY <1>0, <1>1 DEF ListsInv, UnseenInv, Skipped, Turned
<1>5. PagesSkipNothing' /\ PageAgreesWithTotal' /\ MineIsUpToDate'
  BY <1>0, <1>1 DEF ListsInv, PagesSkipNothing, PageAgreesWithTotal, MineIsUpToDate
<1> QED
  BY <1>0, <1>2, <1>3, <1>4, <1>5 DEF ListsInv

----------------------------------------------------------------------------
LEMMA ListsInitInv ==
    ASSUME ConstantsAssumption, ReadersAssumption, ListsInit
    PROVE  ListsInv
<1>1. BookingsInv /\ bookings = {}
  BY InitInv, InitAnswers DEF ListsInit, BookingsInv, Init
<1>2. /\ ask \in [Readers -> MineRequests \cup PageRequests]
      /\ \A r \in Readers : ask[r].op = "list" => 2 * ask[r].pageSize < Word
  BY DEF ListsInit, ReadersAssumption
<1>3. ReadersTypeOK /\ AskInv
  BY <1>2 DEF ListsInit, ReadersTypeOK, AskInv
<1>4. KnownStays /\ TotalInv /\ UnseenInv
  BY <1>1, FS_EmptySet DEF ListsInit, KnownStays, TotalInv, UnseenInv
<1>5. PagesSkipNothing /\ PageAgreesWithTotal /\ MineIsUpToDate
  BY DEF ListsInit, PagesSkipNothing, PageAgreesWithTotal, MineIsUpToDate
<1> QED
  BY <1>1, <1>3, <1>4, <1>5 DEF ListsInv

LEMMA ListsNextInv ==
    ASSUME ConstantsAssumption, ReadersAssumption, ListsInv, [ListsNext]_allVars
    PROVE  ListsInv'
<1>1. Word \in Nat \ {0} /\ IdOrder \in [Calls -> Nat]
  BY DEF ReadersAssumption
<1>2. ASSUME NEW r \in Readers, Read(r)
      PROVE  ListsInv'
  <2>1. CASE SelectPageRefused(r)
    BY <2>1, RefusedInv DEF SelectPageRefused
  <2> QED
    BY <1>1, <1>2, <2>1, ListMineInv, SelectMineInv, ListInv, CountInv, SelectPageInv DEF Read
<1>3. ASSUME NEW r \in Readers, TurnPage(r)
      PROVE  ListsInv'
  BY <1>1, <1>3, TurnPageInv
<1>4. ASSUME NEW r \in Readers, ReadFails(r)
      PROVE  ListsInv'
  BY <1>4, RefusedInv DEF ReadFails
<1>5. CASE ServerStops
  BY <1>5, ServerStopsInv
<1>6. CASE [Next]_vars /\ UNCHANGED readerVars
  BY <1>6, WriterInv
<1>7. \/ \E r \in Readers : Read(r) \/ TurnPage(r) \/ ReadFails(r)
      \/ ServerStops
      \/ [Next]_vars /\ UNCHANGED readerVars
  BY DEF ListsNext, Next, allVars
<1> QED
  BY <1>2, <1>3, <1>4, <1>5, <1>6, <1>7

(* What the readers know, are shown and have yet to be shown, in every     *)
(* state the lists and the calls that write can reach.                     *)
THEOREM ListsInvariance == ListsSpec => []ListsInv
<1>1. ListsInit => ListsInv
  BY ListsInitInv, ConstantsAssumption, ReadersAssumption
<1>2. ListsInv /\ [ListsNext]_allVars => ListsInv'
  BY ListsNextInv, ConstantsAssumption, ReadersAssumption
<1> QED
  BY <1>1, <1>2, PTL DEF ListsSpec

(* Readers disturb nothing: beside them the booking service takes the steps *)
(* it takes alone.                                                          *)
THEOREM ReadersDisturbNothing == ListsSpec => Init /\ [][Next]_vars
<1>1. ListsInit => Init
  BY DEF ListsInit
<1>2. [ListsNext]_allVars => [Next]_vars
  BY DEF ListsNext, ServerStops, Read, ListMine, SelectMine, List, Count, SelectPage,
         SelectPageRefused, TurnPage, ReadFails, Next, allVars, vars
<1> QED
  BY <1>1, <1>2, PTL DEF ListsSpec

(* What is proved of the booking service alone holds beside readers too: no *)
(* slot has two active bookings, answers agree with the table, links exist, *)
(* rows stay, and only their owner cancels them.                            *)
THEOREM BookingsBesideReaders ==
    ListsSpec => /\ [](/\ OneActivePerSlot /\ ReplyIsStored
                       /\ RefusedLeavesNothing /\ LinkOfBookingExists)
                 /\ CancelIsFinal /\ OnlyOwnerCancels
<1>1. ListsInv => /\ IInv /\ RInv
                  /\ OneActivePerSlot /\ ReplyIsStored
                  /\ RefusedLeavesNothing /\ LinkOfBookingExists
  BY DEF ListsInv, BookingsInv, IInv, RInv
<1>2. IInv /\ [Next]_vars =>
        [\A b \in bookings : b \in bookings' \/ Cancelled(b) \in bookings']_vars
  BY CancelStep
<1>3. IInv /\ RInv /\ [Next]_vars =>
        [\A b \in bookings : b \notin bookings' =>
            \E c \in Calls : /\ pc[c] = "commit" /\ pc'[c] = "answered"
                             /\ req[c].op = "cancel" /\ req[c].target = b.id
                             /\ req[c].actor = b.user
                             /\ req[b.id].actor = b.user]_vars
  BY OwnerStep, ConstantsAssumption
<1> QED
  BY <1>1, <1>2, <1>3, ListsInvariance, ReadersDisturbNothing, PTL
     DEF CancelIsFinal, OnlyOwnerCancels

(* A client that turns the pages until one is not full has been shown every *)
(* booking there was at the start, whatever is booked and cancelled         *)
(* meanwhile and however large the page numbers grow.                       *)
THEOREM NoBookingIsSkipped == ListsSpec => []PagesSkipNothing
<1>1. ListsInv => PagesSkipNothing
  BY DEF ListsInv
<1> QED
  BY <1>1, ListsInvariance, PTL

(* COUNT and page are two statements, but the page never falls short of     *)
(* the total shown beside it.                                               *)
THEOREM PagesAreAsLongAsTold == ListsSpec => []PageAgreesWithTotal
<1>1. ListsInv => PageAgreesWithTotal
  BY DEF ListsInv
<1> QED
  BY <1>1, ListsInvariance, PTL

(* A user's own list holds the user's bookings of slots to come, each one   *)
(* there was when the call arrived, and none of anybody else or of a slot   *)
(* that had begun before.                                                   *)
THEOREM OwnListIsUpToDate == ListsSpec => []MineIsUpToDate
<1>1. ListsInv => MineIsUpToDate
  BY DEF ListsInv
<1> QED
  BY <1>1, ListsInvariance, PTL
=============================================================================
