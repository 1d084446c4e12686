------------------------ MODULE TimetableProofs ------------------------
(***************************************************************************)
(* Proofs about Timetable, for every request, any number of days and any   *)
(* date: a request is turned down only when it is invalid, its days are    *)
(* kept sorted and once, and the slots generated are those it means, none  *)
(* of which overlap.                                                       *)
(***************************************************************************)
EXTENDS Timetable, FiniteSetTheorems, WellFoundedInduction, TLAPS

(* A set of naturals has a least element. *)
LEMMA Least ==
    ASSUME NEW T \in SUBSET Nat, T # {}
    PROVE  \E m \in T : \A n \in T : m <= n
<1> DEFINE R == OpToRel(<, Nat)
<1>1. IsWellFoundedOn(R, Nat)
  BY NatLessThanWellFounded
<1>2. \A x, y \in Nat : x < y => <<x, y>> \in R
  BY DEF OpToRel
<1> HIDE DEF R
<1>3. PICK m \in T : \A n \in T : ~ (<<n, m>> \in R)
  BY <1>1, WFMin
<1>4. ASSUME NEW n \in T
      PROVE  m <= n
  <2>1. m \in Nat /\ n \in Nat
    OBVIOUS
  <2>2. ~(n < m)
    BY <1>2, <1>3, <2>1
  <2> QED
    BY <2>1, <2>2
<1> QED
  BY <1>4

InOrder(t) == \A i, j \in DOMAIN t : i < j => t[i] <= t[j]

(* A number can be inserted into a list in order. *)
LEMMA Inserted ==
    ASSUME NEW n \in Nat, NEW t \in [1 .. n -> Int], InOrder(t), NEW x \in Int
    PROVE  \E u \in [1 .. n + 1 -> Int] : InOrder(u) /\ Elements(u) = Elements(t) \cup {x}
<1> DEFINE T == {k \in 1 .. n + 1 : k = n + 1 \/ x < t[k]}
<1>1. T \in SUBSET Nat /\ n + 1 \in T
  OBVIOUS
<1>2. PICK k \in T : \A m \in T : k <= m
  BY <1>1, Least
<1>3. /\ k \in 1 .. n + 1
      /\ \A i \in 1 .. n : i < k => t[i] <= x
      /\ \A i \in 1 .. n : k <= i => x < t[i]
  <2>1. k \in 1 .. n + 1
    BY <1>2
  <2>2. ASSUME NEW i \in 1 .. n, i < k
        PROVE  t[i] <= x
    <3>1. i \notin T
      BY <1>2, <2>1, <2>2
    <3> QED
      BY <3>1
  <2>3. ASSUME NEW i \in 1 .. n, k <= i
        PROVE  x < t[i]
    <3>1. k \in 1 .. n /\ x < t[k]
      BY <1>2, <2>1, <2>3
    <3>2. t[k] <= t[i]
      BY <2>3, <3>1 DEF InOrder
    <3> QED
      BY <3>1, <3>2
  <2> QED
    BY <2>1, <2>2, <2>3
<1> HIDE DEF T
<1> DEFINE u == [i \in 1 .. n + 1 |-> IF i < k THEN t[i] ELSE IF i = k THEN x ELSE t[i - 1]]
<1>4. ASSUME NEW i \in 1 .. n + 1
      PROVE  /\ u[i] \in Int /\ u[i] \in Elements(t) \cup {x}
             /\ i < k => i \in 1 .. n /\ u[i] = t[i]
             /\ i = k => u[i] = x
             /\ i > k => i - 1 \in 1 .. n /\ u[i] = t[i - 1]
  BY <1>3 DEF Elements
<1>5. u \in [1 .. n + 1 -> Int]
  BY <1>4
<1>6. DOMAIN u = 1 .. n + 1
  OBVIOUS
<1>7. ASSUME NEW y \in Elements(t) \cup {x}
      PROVE  \E i \in 1 .. n + 1 : u[i] = y
  <2>1. CASE y = x
    BY <1>3, <1>4, <2>1
  <2>2. CASE y \in Elements(t)
    <3>1. PICK i \in 1 .. n : y = t[i]
      BY <2>2 DEF Elements
    <3>2. i \in 1 .. n + 1 /\ i + 1 \in 1 .. n + 1 /\ i = (i + 1) - 1
      OBVIOUS
    <3>3. CASE i < k
      BY <1>4, <3>1, <3>2, <3>3
    <3>4. CASE k <= i
      <4>1. i + 1 > k
        BY <1>3, <3>4
      <4> QED
        BY <1>4, <3>1, <3>2, <4>1
    <3> QED
      BY <1>3, <3>3, <3>4
  <2> QED
    BY <2>1, <2>2
<1>8. ASSUME NEW i \in 1 .. n + 1, NEW j \in 1 .. n + 1, i < j
      PROVE  u[i] <= u[j]
  <2>0. \A a, b \in 1 .. n : a < b => t[a] <= t[b]
    BY DEF InOrder
  <2>1. CASE j < k
    BY <1>3, <1>4, <1>8, <2>0, <2>1
  <2>2. CASE j = k
    BY <1>3, <1>4, <1>8, <2>2
  <2>3. CASE j > k /\ i < k
    <3>1. u[i] = t[i] /\ u[j] = t[j - 1] /\ i \in 1 .. n /\ j - 1 \in 1 .. n
      BY <1>4, <2>3
    <3>2. t[i] <= x /\ x < t[j - 1]
      BY <1>3, <2>3, <3>1
    <3> QED
      BY <3>1, <3>2
  <2>4. CASE j > k /\ i = k
    <3>1. u[i] = x /\ u[j] = t[j - 1] /\ j - 1 \in 1 .. n
      BY <1>4, <2>4
    <3>2. x < t[j - 1]
      BY <1>3, <2>4, <3>1
    <3> QED
      BY <3>1, <3>2
  <2>5. CASE j > k /\ i > k
    <3>1. u[i] = t[i - 1] /\ u[j] = t[j - 1] /\ i - 1 \in 1 .. n /\ j - 1 \in 1 .. n
      BY <1>4, <2>5
    <3> QED
      BY <1>8, <2>0, <3>1
  <2> QED
    BY <1>3, <2>1, <2>2, <2>3, <2>4, <2>5
<1> HIDE DEF u
<1>9. InOrder(u)
  BY <1>6, <1>8 DEF InOrder
<1>10. Elements(u) = Elements(t) \cup {x}
  BY <1>4, <1>6, <1>7 DEF Elements
<1> QED
  BY <1>5, <1>9, <1>10

(* So a list with one number more can be put in order. *)
LEMMA OneLonger ==
    ASSUME NEW n \in Nat, NEW t \in [1 .. n -> Int], InOrder(t),
           NEW g \in [1 .. n + 1 -> Int],
           Elements(t) = {g[i] : i \in 1 .. n}
    PROVE  \E u \in [1 .. n + 1 -> Int] : InOrder(u) /\ Elements(u) = Elements(g)
<1>1. g[n + 1] \in Int
  OBVIOUS
<1>2. PICK u \in [1 .. n + 1 -> Int] : InOrder(u) /\ Elements(u) = Elements(t) \cup {g[n + 1]}
  BY <1>1, Inserted
<1>3. Elements(g) = {g[i] : i \in 1 .. n} \cup {g[n + 1]}
  <2>1. DOMAIN g = 1 .. n + 1 /\ 1 .. n + 1 = (1 .. n) \cup {n + 1}
    OBVIOUS
  <2> QED
    BY <2>1 DEF Elements
<1> QED
  BY <1>2, <1>3

(* Every list of numbers can be put in order: a shortest one that could    *)
(* not would be a shorter one and a number to insert.                      *)
LEMMA Sortable ==
    ASSUME NEW n \in Nat, NEW f \in [1 .. n -> Int]
    PROVE  \E t \in [1 .. n -> Int] : InOrder(t) /\ Elements(t) = Elements(f)
<1> DEFINE Fine(g, m) == \E t \in [1 .. m -> Int] : InOrder(t) /\ Elements(t) = Elements(g)
           Bad == {m \in Nat : \E g \in [1 .. m -> Int] : ~Fine(g, m)}
<1>1. ASSUME NEW g \in [1 .. 0 -> Int]
      PROVE  Fine(g, 0)
  <2>1. InOrder(g)
    BY DEF InOrder
  <2> QED
    BY <2>1
<1>2. ASSUME NEW m \in Nat, \A h \in [1 .. m -> Int] : Fine(h, m),
             NEW g \in [1 .. m + 1 -> Int]
      PROVE  Fine(g, m + 1)
  <2> DEFINE h == [i \in 1 .. m |-> g[i]]
  <2>1. h \in [1 .. m -> Int]
    OBVIOUS
  <2>2. Elements(h) = {g[i] : i \in 1 .. m}
    BY DEF Elements
  <2>3. PICK t \in [1 .. m -> Int] : InOrder(t) /\ Elements(t) = Elements(h)
    BY <1>2, <2>1
  <2> QED
    BY <2>2, <2>3, OneLonger
<1> HIDE DEF Fine
<1>3. ASSUME NEW m \in Bad, \A k \in Bad : m <= k
      PROVE  FALSE
  <2>1. m # 0
    BY <1>1, <1>3
  <2>2. PICK k \in Nat : m = k + 1
    <3>1. m - 1 \in Nat /\ m = (m - 1) + 1
      BY <2>1
    <3> QED
      BY <3>1
  <2>3. ~(m <= k)
    BY <2>2
  <2>4. k \notin Bad
    BY <1>3, <2>3
  <2>5. \A h \in [1 .. k -> Int] : Fine(h, k)
    BY <2>4
  <2> QED
    BY <1>2, <2>2, <2>5
<1>4. Bad = {}
  <2>1. Bad \in SUBSET Nat
    OBVIOUS
  <2> HIDE DEF Bad
  <2> QED
    BY <1>3, <2>1, Least
<1> QED
  BY <1>4 DEF Fine

(* slices.Sort: the same elements in order, and strictly when none occurs  *)
(* twice.                                                                  *)
LEMMA SortedIsSorted ==
    ASSUME NEW S \in SUBSET Int, NEW s \in Seq(S)
    PROVE  /\ Sorted(s) \in Seq(S) /\ Elements(Sorted(s)) = Elements(s)
           /\ (\A i, j \in DOMAIN s : i # j => s[i] # s[j]) =>
                \A i, j \in DOMAIN Sorted(s) : i < j => Sorted(s)[i] < Sorted(s)[j]
<1> DEFINE n == Len(s)
           t == Sorted(s)
<1>1. n \in Nat /\ DOMAIN s = 1 .. n /\ s \in [1 .. n -> Int] /\ Elements(s) \subseteq S
  <2>1. n \in Nat /\ DOMAIN s = 1 .. n /\ s \in [1 .. n -> S]
    OBVIOUS
  <2> HIDE DEF n
  <2> QED
    BY <2>1 DEF Elements
<1>2. PICK u \in [1 .. n -> Int] : InOrder(u) /\ Elements(u) = Elements(s)
  BY <1>1, Sortable
<1>3. u \in [DOMAIN s -> Elements(s)]
  BY <1>1, <1>2 DEF Elements
<1>4. /\ t \in [DOMAIN s -> Elements(s)] /\ Elements(t) = Elements(s)
      /\ \A i, j \in DOMAIN t : i < j => t[i] <= t[j]
  BY <1>2, <1>3 DEF Sorted, InOrder
<1> HIDE DEF t
<1>5. t \in [1 .. n -> S] /\ DOMAIN t = 1 .. n
  BY <1>1, <1>4
<1>6. t \in Seq(S)
  BY <1>1, <1>5
<1>7. ASSUME \A i, j \in DOMAIN s : i # j => s[i] # s[j],
             NEW i \in 1 .. n, NEW j \in 1 .. n, i < j
      PROVE  t[i] < t[j]
  <2>1. IsFiniteSet(1 .. n)
    BY <1>1, FS_Interval
  <2>2. s \in Injection(1 .. n, Elements(s)) /\ s \in Surjection(1 .. n, Elements(s))
    BY <1>1, <1>7 DEF Injection, IsInjective, Surjection, Elements
  <2>3. Cardinality(Elements(s)) = Cardinality(1 .. n)
    BY <2>1, <2>2, FS_Surjection
  <2>4. t \in Surjection(1 .. n, Elements(s))
    BY <1>1, <1>4, <1>5 DEF Surjection, Elements
  <2>5. t \in Injection(1 .. n, Elements(s))
    BY <2>1, <2>3, <2>4, FS_SurjSameCardinalityImpliesInj
  <2>6. t[i] # t[j]
    BY <1>7, <2>5 DEF Injection, IsInjective
  <2>7. t[i] \in Int /\ t[j] \in Int /\ t[i] <= t[j]
    BY <1>4, <1>5, <1>7
  <2> QED
    BY <2>6, <2>7
<1> QED
  BY <1>1, <1>4, <1>5, <1>6, <1>7 DEF t

----------------------------------------------------------------------------
(* Appending a slot that begins where all others have ended keeps a list   *)
(* of slots in order.                                                      *)
LEMMA AppendInOrder ==
    ASSUME NEW s \in Seq(Slot), NEW x \in Slot, x.end = x.start + SlotDuration,
           \A i \in DOMAIN s : s[i].end <= x.start,
           \A i \in DOMAIN s : s[i].end = s[i].start + SlotDuration,
           \A i, j \in DOMAIN s : i < j => s[i].end <= s[j].start
    PROVE  /\ Append(s, x) \in Seq(Slot)
           /\ \A i, j \in DOMAIN Append(s, x) :
                i < j => Append(s, x)[i].end <= Append(s, x)[j].start
           /\ \A i \in DOMAIN Append(s, x) :
                /\ Append(s, x)[i].end = Append(s, x)[i].start + SlotDuration
                /\ Append(s, x)[i].end <= x.end
<1> DEFINE t == Append(s, x)
<1>1. /\ t \in Seq(Slot)
      /\ DOMAIN s = 1 .. Len(s) /\ DOMAIN t = 1 .. Len(s) + 1 /\ Len(s) \in Nat
      /\ \A i \in 1 .. Len(s) : t[i] = s[i]
      /\ t[Len(s) + 1] = x
  OBVIOUS
<1>2. ASSUME NEW i \in 1 .. Len(s)
      PROVE  t[i] \in Slot /\ t[i] = s[i]
  BY <1>1, <1>2
<1>3. x.start \in Int /\ x.end \in Int
  BY DEF Slot
<1>4. ASSUME NEW i \in DOMAIN t
      PROVE  t[i].end = t[i].start + SlotDuration /\ t[i].end <= x.end
  <2>1. CASE i = Len(s) + 1
    BY <1>1, <1>3, <2>1
  <2>2. CASE i \in 1 .. Len(s)
    <3>1. s[i].end <= x.start /\ s[i].end \in Int
      BY <1>1, <1>2, <2>2 DEF Slot
    <3> QED
      BY <1>1, <1>2, <1>3, <2>2, <3>1 DEF SlotDuration
  <2> QED
    BY <1>1, <2>1, <2>2
<1>5. ASSUME NEW i \in DOMAIN t, NEW j \in DOMAIN t, i < j
      PROVE  t[i].end <= t[j].start
  <2>1. i \in 1 .. Len(s)
    BY <1>1, <1>5
  <2>2. CASE j = Len(s) + 1
    BY <1>1, <1>2, <2>1, <2>2
  <2>3. CASE j \in 1 .. Len(s)
    BY <1>1, <1>2, <1>5, <2>1, <2>3
  <2> QED
    BY <1>1, <2>2, <2>3
<1> QED
  BY <1>1, <1>4, <1>5

(* A valid time of day lies within the day. *)
LEMMA MinutesOfTime ==
    ASSUME NEW t, IsValidTime(t)
    PROVE  ToMinutes(t) \in 0 .. MinutesPerDay - 1
<1>1. PICK h \in 0 .. 23, m \in 0 .. 59 : h = t.hour /\ m = t.minute
  BY DEF IsValidTime
<1>2. ToMinutes(t) = h * 60 + m
  BY <1>1 DEF ToMinutes
<1> QED
  BY <1>2 DEF MinutesPerDay

(* A day's window lies within its day. *)
LEMMA WindowInDay ==
    ASSUME NEW date \in Int, NEW s \in 0 .. MinutesPerDay - 1,
           NEW e \in 0 .. MinutesPerDay - 1, s < e
    PROVE  /\ DayStart(date) \in Int /\ DayStart(date) + s \in Int /\ DayStart(date) + e \in Int
           /\ DayStart(date) <= DayStart(date) + s
           /\ DayStart(date) + s <= DayStart(date) + e
           /\ DayStart(date) + e <= DayStart(date + 1)
           /\ DayStart(date + 1) \in Int
  BY DEF DayStart, MinutesPerDay

LEMMA InitOrder == Init => OrderInv
  BY DEF Init, OrderInv, TypeOK, RangeChecked, SlotsInOrder

(* The checks run before any slot exists. *)
LEMMA CheckOrder ==
    ASSUME OrderInv, Parse \/ NormalizeDay \/ SortDays \/ CheckRange
    PROVE  OrderInv'
<1>1. TypeOK'
  BY DEF OrderInv, TypeOK, Parse, NormalizeDay, SortDays, CheckRange, Reject
<1>2. RangeChecked' /\ slots' = <<>>
  <2>1. pc \in {"parse", "days", "range"} /\ slots = <<>> /\ slots' = slots
    BY DEF OrderInv, RangeChecked, Parse, NormalizeDay, SortDays, CheckRange, Reject
  <2>2. CASE Parse
    BY <2>1, <2>2 DEF OrderInv, RangeChecked, Parse, Reject, IsValidTime
  <2>3. CASE NormalizeDay \/ SortDays
    BY <2>1, <2>3 DEF OrderInv, RangeChecked, NormalizeDay, SortDays, Reject, IsValidTime
  <2>4. CASE CheckRange
    <3>0. IsValidTime(input.start) /\ IsValidTime(input.end)
      BY <2>4 DEF OrderInv, RangeChecked, CheckRange
    <3>1. ToMinutes(input.start) \in Int /\ ToMinutes(input.end) \in Int
      BY <3>0, MinutesOfTime DEF MinutesPerDay
    <3>2. CASE pc' = "date"
      <4>1. /\ ToMinutes(input.end) - ToMinutes(input.start) >= SlotDuration
            /\ UNCHANGED input
        BY <2>4, <3>2 DEF CheckRange, Reject
      <4>2. ToMinutes(input.start) < ToMinutes(input.end)
        BY <3>1, <4>1 DEF SlotDuration
      <4>3. IsValidTime(input.start) /\ IsValidTime(input.end)
        BY <2>4 DEF OrderInv, RangeChecked, CheckRange
      <4> QED
        BY <2>1, <3>2, <4>1, <4>2, <4>3 DEF RangeChecked
    <3>3. CASE pc' = "done"
      BY <2>1, <3>3 DEF RangeChecked
    <3> QED
      BY <2>4, <3>2, <3>3 DEF CheckRange, Reject
  <2> QED
    BY <2>1, <2>2, <2>3, <2>4
<1>3. SlotsInOrder'
  <2>1. pc' # "slot"
    BY DEF OrderInv, TypeOK, Parse, NormalizeDay, SortDays, CheckRange, Reject
  <2> QED
    BY <1>2, <2>1 DEF SlotsInOrder
<1> QED
  BY <1>1, <1>2, <1>3 DEF OrderInv

(* The loop over the days: the next day begins after every window so far. *)
LEMMA NextDateOrder ==
    ASSUME ConstantsAssumption, OrderInv, NextDate
    PROVE  OrderInv'
<1>1. /\ pc = "date" /\ offset \in Nat /\ input.from \in Int
      /\ ToMinutes(input.start) \in 0 .. MinutesPerDay - 1
      /\ ToMinutes(input.end) \in 0 .. MinutesPerDay - 1
      /\ ToMinutes(input.start) < ToMinutes(input.end)
      /\ IsValidTime(input.start) /\ IsValidTime(input.end)
  <2>1. /\ pc = "date" /\ offset \in Nat
        /\ ToMinutes(input.start) < ToMinutes(input.end)
        /\ IsValidTime(input.start) /\ IsValidTime(input.end)
    BY DEF NextDate, OrderInv, TypeOK, RangeChecked
  <2>2. input.from \in Int
    <3>1. input.from \in Dates
      BY DEF OrderInv, TypeOK, Inputs
    <3>2. input.from \in Nat
      BY <3>1, Zenon DEF ConstantsAssumption
    <3> QED
      BY <3>2
  <2> QED
    BY <2>1, <2>2, MinutesOfTime
<1>2. UNCHANGED <<input, error, day, validated, slots>>
  BY DEF NextDate
<1>3. /\ DayStart(Date) \in Int /\ WindowStart \in Int /\ WindowEnd \in Int
      /\ DayStart(Date) <= WindowStart /\ WindowStart <= WindowEnd
  <2>1. Date \in Int
    BY <1>1 DEF Date
  <2> QED
    BY <1>1, <2>1, WindowInDay DEF WindowStart, WindowEnd
<1>4. \A i \in DOMAIN slots : slots[i].end \in Int /\ slots[i].end <= DayStart(Date)
  <2>1. \A i \in DOMAIN slots : slots[i] \in Slot
    BY DEF OrderInv, TypeOK
  <2> QED
    BY <1>1, <2>1 DEF OrderInv, SlotsInOrder, Slot
<1>5. CASE pc' = "date"
  <2>1. offset' = offset + 1 /\ UNCHANGED current
    BY <1>5 DEF NextDate
  <2>2. DayStart(Date)' \in Int /\ DayStart(Date) <= DayStart(Date)'
    <3>1. Date \in Int /\ Date' = Date + 1
      BY <1>1, <1>2, <2>1 DEF Date
    <3> QED
      BY <3>1 DEF DayStart, MinutesPerDay
  <2>3. \A i \in DOMAIN slots : slots[i].end <= DayStart(Date)'
    BY <1>3, <1>4, <2>2
  <2> QED
    BY <1>1, <1>2, <1>5, <2>1, <2>3 DEF OrderInv, TypeOK, RangeChecked, SlotsInOrder
<1>6. CASE pc' = "slot"
  <2>1. current' = WindowStart /\ UNCHANGED offset
    BY <1>6 DEF NextDate
  <2>2. WindowStart' = WindowStart /\ WindowEnd' = WindowEnd
    BY <1>2, <2>1 DEF WindowStart, WindowEnd, DayStart, Date
  <2>3. \A i \in DOMAIN slots : slots[i].end <= current'
    BY <1>3, <1>4, <2>1
  <2>4. TypeOK' /\ RangeChecked'
    BY <1>1, <1>2, <1>3, <1>6, <2>1 DEF OrderInv, TypeOK, RangeChecked
  <2> QED
    BY <1>2, <1>3, <1>6, <2>1, <2>2, <2>3, <2>4 DEF OrderInv, SlotsInOrder
<1> QED
  BY <1>1, <1>5, <1>6 DEF NextDate

(* The loop over a day: each slot begins where the one before it ended. *)
LEMMA NextSlotOrder ==
    ASSUME ConstantsAssumption, OrderInv, NextSlot
    PROVE  OrderInv'
<1>1. /\ pc = "slot" /\ offset \in Nat /\ input.from \in Int /\ current \in Int
      /\ ToMinutes(input.start) \in 0 .. MinutesPerDay - 1
      /\ ToMinutes(input.end) \in 0 .. MinutesPerDay - 1
      /\ ToMinutes(input.start) < ToMinutes(input.end)
      /\ IsValidTime(input.start) /\ IsValidTime(input.end)
  <2>1. /\ pc = "slot" /\ offset \in Nat /\ current \in Int
        /\ ToMinutes(input.start) < ToMinutes(input.end)
        /\ IsValidTime(input.start) /\ IsValidTime(input.end)
    BY DEF NextSlot, OrderInv, TypeOK, RangeChecked
  <2>2. input.from \in Int
    <3>1. input.from \in Dates
      BY DEF OrderInv, TypeOK, Inputs
    <3>2. input.from \in Nat
      BY <3>1, Zenon DEF ConstantsAssumption
    <3> QED
      BY <3>2
  <2> QED
    BY <2>1, <2>2, MinutesOfTime
<1>2. UNCHANGED <<input, error, day, validated>>
  BY DEF NextSlot
<1>3. /\ WindowStart \in Int /\ WindowEnd \in Int
      /\ WindowStart <= current /\ current <= WindowEnd
      /\ \A i \in DOMAIN slots : slots[i].end \in Int /\ slots[i].end <= current
  <2>1. \A i \in DOMAIN slots : slots[i] \in Slot
    BY DEF OrderInv, TypeOK
  <2>2. Date \in Int
    BY <1>1 DEF Date
  <2>3. WindowStart \in Int /\ WindowEnd \in Int
    BY <1>1, <2>2, WindowInDay DEF WindowStart, WindowEnd
  <2> QED
    BY <1>1, <2>1, <2>3 DEF OrderInv, SlotsInOrder, Slot
<1>4. CASE pc' = "slot"
  <2>1. /\ current' = current + SlotDuration /\ current' <= WindowEnd
        /\ slots' = Append(slots, [start |-> current, end |-> current + SlotDuration])
        /\ UNCHANGED offset
    BY <1>1, <1>4 DEF NextSlot
  <2>2. WindowStart' = WindowStart /\ WindowEnd' = WindowEnd
    BY <1>2, <2>1 DEF WindowStart, WindowEnd, DayStart, Date
  <2>3. [start |-> current, end |-> current + SlotDuration] \in Slot
    BY <1>1 DEF Slot, SlotDuration
  <2>4. slots \in Seq(Slot)
    BY DEF OrderInv, TypeOK
  <2>5. /\ slots' \in Seq(Slot)
        /\ \A i, j \in DOMAIN slots' : i < j => slots'[i].end <= slots'[j].start
        /\ \A i \in DOMAIN slots' : /\ slots'[i].end = slots'[i].start + SlotDuration
                                   /\ slots'[i].end <= current'
    BY <1>3, <2>1, <2>3, <2>4, AppendInOrder DEF OrderInv, SlotsInOrder
  <2>6. TypeOK' /\ RangeChecked'
    BY <1>1, <1>2, <1>4, <2>1, <2>5 DEF OrderInv, TypeOK, RangeChecked, SlotDuration
  <2>7. WindowStart <= current' /\ current' <= WindowEnd
    BY <1>1, <1>3, <2>1 DEF SlotDuration
  <2> QED
    BY <1>4, <2>2, <2>5, <2>6, <2>7 DEF OrderInv, SlotsInOrder
<1>5. CASE pc' = "date"
  <2>1. offset' = offset + 1 /\ UNCHANGED <<current, slots>>
    BY <1>5 DEF NextSlot
  <2>2. DayStart(Date)' \in Int /\ current <= DayStart(Date)'
    <3>1. Date \in Int /\ Date' = Date + 1
      BY <1>1, <1>2, <2>1 DEF Date
    <3>2. WindowEnd <= DayStart(Date + 1) /\ DayStart(Date + 1) \in Int
      BY <1>1, <3>1, WindowInDay DEF WindowEnd
    <3>3. DayStart(Date)' = DayStart(Date + 1)
      BY <3>1 DEF DayStart
    <3> QED
      BY <1>1, <1>3, <3>2, <3>3
  <2>3. \A i \in DOMAIN slots : slots[i].end <= DayStart(Date)'
    BY <1>1, <1>3, <2>2
  <2> QED
    BY <1>1, <1>2, <1>5, <2>1, <2>3 DEF OrderInv, TypeOK, RangeChecked, SlotsInOrder
<1> QED
  BY <1>1, <1>4, <1>5 DEF NextSlot

LEMMA NextOrder ==
    ASSUME ConstantsAssumption, OrderInv, [Next]_vars
    PROVE  OrderInv'
<1>1. CASE Finish
  BY <1>1 DEF Finish, OrderInv, TypeOK, RangeChecked, SlotsInOrder
<1>2. CASE UNCHANGED vars
  BY <1>2 DEF vars, OrderInv, TypeOK, RangeChecked, SlotsInOrder, DayStart, Date,
              WindowStart, WindowEnd
<1> QED
  BY <1>1, <1>2, CheckOrder, NextDateOrder, NextSlotOrder DEF Next

----------------------------------------------------------------------------
(* The days of a request are numbers. *)
LEMMA DaysOfRequest ==
    ASSUME ConstantsAssumption, OrderInv
    PROVE  input.days \in Seq(Int) /\ input.from \in Nat
<1>1. input.days \in DayLists /\ input.from \in Dates
  BY DEF OrderInv, TypeOK, Inputs
<1>2. DayLists \subseteq Seq(Int) /\ Dates \subseteq Nat
  BY Zenon DEF ConstantsAssumption
<1> QED
  BY <1>1, <1>2

LEMMA AppendElements ==
    ASSUME NEW S, NEW s \in Seq(S), NEW x \in S
    PROVE  /\ Append(s, x) \in Seq(S)
           /\ Elements(Append(s, x)) = Elements(s) \cup {x}
           /\ x \notin Elements(s) /\ (\A i, j \in DOMAIN s : i # j => s[i] # s[j])
                => \A i, j \in DOMAIN Append(s, x) : i # j => Append(s, x)[i] # Append(s, x)[j]
<1> DEFINE t == Append(s, x)
           n == Len(s)
<1>1. /\ n \in Nat /\ DOMAIN s = 1 .. n /\ DOMAIN t = 1 .. n + 1
      /\ \A i \in 1 .. n : t[i] = s[i]
      /\ t[n + 1] = x /\ t \in Seq(S)
  OBVIOUS
<1>2. 1 .. n + 1 = (1 .. n) \cup {n + 1}
  BY <1>1
<1> HIDE DEF t, n
<1>3. Elements(t) = Elements(s) \cup {x}
  <2>1. Elements(t) = {t[i] : i \in 1 .. n} \cup {t[n + 1]}
    BY <1>1, <1>2 DEF Elements
  <2>2. Elements(s) = {t[i] : i \in 1 .. n}
    BY <1>1 DEF Elements
  <2> QED
    BY <1>1, <2>1, <2>2
<1>4. ASSUME x \notin Elements(s), \A i, j \in DOMAIN s : i # j => s[i] # s[j],
             NEW i \in DOMAIN t, NEW j \in DOMAIN t, i # j
      PROVE  t[i] # t[j]
  <2>1. \A k \in 1 .. n : s[k] # x
    BY <1>1, <1>4 DEF Elements
  <2> QED
    BY <1>1, <1>2, <1>4, <2>1
<1> QED
  BY <1>1, <1>3, <1>4 DEF t

(* The checks keep the days sorted and once. *)
LEMMA DaysInv ==
    ASSUME ConstantsAssumption, IInv, [Next]_vars
    PROVE  DaysSoFar'
<1>1. input.days \in Seq(Int) /\ validated \in Seq(1 .. 7) /\ DaysSoFar
  BY DaysOfRequest DEF IInv, DaysSoFar
<1>2. CASE Parse
  <2>1. pc = "parse" /\ day = 1 /\ validated = <<>> /\ UNCHANGED <<input, day, validated>>
        /\ pc' \in {"days", "done"}
    BY <1>1, <1>2 DEF Parse, Reject, DaysSoFar
  <2>2. Elements(<<>>) = {} /\ {input.days[i] : i \in 1 .. 1 - 1} = {}
    BY DEF Elements
  <2>3. 1 \in 1 .. Len(input.days) + 1
    BY <1>1
  <2> QED
    BY <1>1, <2>1, <2>2, <2>3 DEF DaysSoFar, DaysNormalized
<1>3. CASE NormalizeDay
  <2>1. /\ pc = "days" /\ day \in 1 .. Len(input.days) /\ UNCHANGED input
        /\ Elements(validated) = {input.days[i] : i \in 1 .. day - 1}
        /\ \A i, j \in DOMAIN validated : i # j => validated[i] # validated[j]
    <3>1. pc = "days" /\ UNCHANGED input /\ day \in DOMAIN input.days
      BY <1>3 DEF NormalizeDay, Reject
    <3> QED
      BY <1>1, <3>1 DEF DaysSoFar
  <2>2. CASE pc' = "done" /\ UNCHANGED validated
    BY <1>1, <2>2 DEF DaysSoFar, DaysNormalized
  <2>3. CASE /\ IsValidDay(input.days[day]) /\ day' = day + 1 /\ pc' = pc
             /\ validated' = IF input.days[day] \in Elements(validated) THEN validated
                                          ELSE Append(validated, input.days[day])
    <3> DEFINE d == input.days[day]
    <3>1. d \in 1 .. 7
      BY <2>3 DEF IsValidDay
    <3>2. /\ validated' \in Seq(1 .. 7) /\ Elements(validated') = Elements(validated) \cup {d}
          /\ \A i, j \in DOMAIN validated' : i # j => validated'[i] # validated'[j]
      <4>1. CASE d \in Elements(validated)
        BY <1>1, <2>1, <2>3, <4>1
      <4>2. CASE d \notin Elements(validated)
        <5>1. validated' = Append(validated, d)
          BY <2>3, <4>2
        <5> HIDE DEF d
        <5>2. /\ Append(validated, d) \in Seq(1 .. 7)
              /\ Elements(Append(validated, d)) = Elements(validated) \cup {d}
              /\ \A i, j \in DOMAIN Append(validated, d) :
                    i # j => Append(validated, d)[i] # Append(validated, d)[j]
          <6> DEFINE S == 1 .. 7
          <6>1. validated \in Seq(S) /\ d \in S
            BY <1>1, <3>1
          <6>2. \A i, j \in DOMAIN validated : i # j => validated[i] # validated[j]
            BY <2>1
          <6> HIDE DEF S
          <6>3. Append(validated, d) \in Seq(S)
            BY <6>1, AppendElements
          <6>4. Elements(Append(validated, d)) = Elements(validated) \cup {d}
            BY <6>1, AppendElements
          <6>5. \A i, j \in DOMAIN Append(validated, d) :
                    i # j => Append(validated, d)[i] # Append(validated, d)[j]
            BY <4>2, <6>1, <6>2, AppendElements
          <6> QED
            BY <6>3, <6>4, <6>5 DEF S
        <5> QED
          BY <5>1, <5>2
      <4> QED
        BY <4>1, <4>2
    <3>3. {input.days[i] : i \in 1 .. (day + 1) - 1} = {input.days[i] : i \in 1 .. day - 1} \cup {d}
      <4>1. 1 .. (day + 1) - 1 = (1 .. day - 1) \cup {day}
        BY <1>1, <2>1
      <4> QED
        BY <4>1
    <3>4. day' \in 1 .. Len(input.days) + 1
      BY <1>1, <2>1, <2>3
    <3> HIDE DEF d
    <3>5. Elements(validated)' = {input'.days[i] : i \in 1 .. day' - 1}
      <4>1. Elements(validated') = {input.days[i] : i \in 1 .. day' - 1}
        BY <2>1, <2>3, <3>2, <3>3
      <4>2. Elements(validated)' = Elements(validated') /\ input' = input
        BY <2>1 DEF Elements
      <4> QED
        BY <4>1, <4>2
    <3> QED
      BY <2>1, <2>3, <3>2, <3>4, <3>5 DEF DaysSoFar, DaysNormalized
  <2> QED
    BY <1>3, <2>2, <2>3 DEF NormalizeDay, Reject
<1>4. CASE SortDays
  <2>1. /\ pc = "days" /\ day = Len(input.days) + 1 /\ pc' = "range" /\ UNCHANGED input
        /\ validated' = Sorted(validated)
        /\ Elements(validated) = {input.days[i] : i \in 1 .. day - 1}
        /\ \A i, j \in DOMAIN validated : i # j => validated[i] # validated[j]
    <3>1. /\ pc = "days" /\ pc' = "range" /\ UNCHANGED input
          /\ validated' = Sorted(validated) /\ day \notin DOMAIN input.days
      BY <1>4 DEF SortDays
    <3>2. /\ day \in 1 .. Len(input.days) + 1
          /\ Elements(validated) = {input.days[i] : i \in 1 .. day - 1}
          /\ \A i, j \in DOMAIN validated : i # j => validated[i] # validated[j]
      BY <1>1, <3>1 DEF DaysSoFar
    <3>3. day = Len(input.days) + 1
      BY <1>1, <3>1, <3>2
    <3> QED
      BY <3>1, <3>2, <3>3
  <2>2. Elements(validated) = Elements(input.days)
    <3>1. 1 .. day - 1 = DOMAIN input.days
      BY <1>1, <2>1
    <3> QED
      BY <2>1, <3>1 DEF Elements
  <2>3. /\ validated' \in Seq(1 .. 7) /\ Elements(validated') = Elements(validated)
        /\ \A i, j \in DOMAIN validated' : i < j => validated'[i] < validated'[j]
    <3>1. 1 .. 7 \in SUBSET Int
      OBVIOUS
    <3> QED
      BY <1>1, <2>1, <3>1, SortedIsSorted
  <2> QED
    BY <2>1, <2>2, <2>3 DEF DaysSoFar, DaysNormalized
<1>5. CASE CheckRange \/ NextDate \/ NextSlot \/ Finish
  <2>1. /\ pc \in {"range", "date", "slot"} /\ pc' \in {"date", "slot", "done"}
        /\ UNCHANGED <<input, validated>>
    BY <1>5 DEF CheckRange, Reject, NextDate, NextSlot, Finish
  <2> QED
    BY <1>1, <2>1 DEF DaysSoFar, DaysNormalized
<1>6. CASE UNCHANGED vars
  BY <1>1, <1>6 DEF vars, DaysSoFar, DaysNormalized
<1> QED
  BY <1>2, <1>3, <1>4, <1>5, <1>6 DEF Next

----------------------------------------------------------------------------
(* Minutes of valid times are numbers of the day, and a range that whole   *)
(* slots fill is one that the checks let through.                          *)
LEMMA WholeSlots ==
    ASSUME NEW s \in 0 .. MinutesPerDay - 1, NEW e \in 0 .. MinutesPerDay - 1
    PROVE  (\E n \in 1 .. 48 : e = s + n * SlotDuration)
             <=> e - s >= SlotDuration /\ (e - s) % SlotDuration = 0
<1>1. ASSUME NEW n \in 1 .. 48, e = s + n * SlotDuration
      PROVE  e - s >= SlotDuration /\ (e - s) % SlotDuration = 0
  BY <1>1 DEF SlotDuration, MinutesPerDay
<1>2. ASSUME e - s >= SlotDuration, (e - s) % SlotDuration = 0
      PROVE  \E n \in 1 .. 48 : e = s + n * SlotDuration
  <2>1. (e - s) \div 30 \in 1 .. 48 /\ e = s + ((e - s) \div 30) * 30
    BY <1>2 DEF SlotDuration, MinutesPerDay
  <2> QED
    BY <2>1 DEF SlotDuration
<1> QED
  BY <1>1, <1>2

(* A request is judged as it is. *)
LEMMA JudgedInv ==
    ASSUME ConstantsAssumption, IInv, [Next]_vars
    PROVE  JudgedSoFar'
<1>1. /\ input.days \in Seq(Int) /\ JudgedSoFar /\ RangeChecked /\ DaysSoFar
      /\ pc \in {"parse", "days", "range", "date", "slot", "done"}
  BY DaysOfRequest DEF IInv, OrderInv, TypeOK
<1>2. input' = input => (ValidInput' <=> ValidInput)
  BY DEF ValidInput, Elements, IsValidTime, ToMinutes
<1>3. ASSUME pc # "done", UNCHANGED input,
             \/ pc' \in {"days", "range"} /\ error' = error /\ input.days # <<>>
             \/ pc' \in {"date", "slot"} /\ error' = error /\ ValidInput
             \/ pc' = "done" /\ error' = error /\ ValidInput
             \/ pc' = "done" /\ error' # "none" /\ ~ValidInput
      PROVE  JudgedSoFar'
  BY <1>1, <1>2, <1>3 DEF JudgedSoFar, RejectedOnlyIfInvalid, ValidInput
<1>4. CASE Parse
  <2>1. /\ pc = "parse" /\ UNCHANGED input
        /\ \/ pc' = "days" /\ error' = error /\ input.days # <<>>
           \/ pc' = "done" /\ error' # "none" /\ ~ValidInput
    BY <1>4 DEF Parse, Reject, ValidInput
  <2> QED
    BY <1>3, <2>1
<1>5. CASE NormalizeDay
  <2>1. pc = "days" /\ UNCHANGED input /\ day \in DOMAIN input.days
    BY <1>5 DEF NormalizeDay, Reject
  <2>2. \/ pc' = "days" /\ error' = error
        \/ pc' = "done" /\ error' # "none" /\ ~IsValidDay(input.days[day])
    BY <1>5, <2>1 DEF NormalizeDay, Reject
  <2>3. ~IsValidDay(input.days[day]) => ~ValidInput
    BY <2>1 DEF IsValidDay, ValidInput, Elements
  <2>4. input.days # <<>>
    BY <1>1, <2>1 DEF JudgedSoFar
  <2> QED
    BY <1>3, <2>1, <2>2, <2>3, <2>4
<1>6. CASE SortDays
  <2>1. pc = "days" /\ pc' = "range" /\ UNCHANGED <<input, error>>
    BY <1>6 DEF SortDays
  <2>2. input.days # <<>>
    BY <1>1, <2>1 DEF JudgedSoFar
  <2> QED
    BY <1>3, <2>1, <2>2
<1>7. CASE CheckRange
  <2>1. pc = "range" /\ UNCHANGED input
    BY <1>7 DEF CheckRange, Reject
  <2>2. /\ input.days # <<>> /\ Elements(input.days) \subseteq 1 .. 7
        /\ IsValidTime(input.start) /\ IsValidTime(input.end)
    <3>1. validated \in Seq(1 .. 7) /\ Elements(validated) = Elements(input.days)
      BY <1>1, <2>1 DEF DaysSoFar, DaysNormalized
    <3>2. Elements(validated) \subseteq 1 .. 7
      BY <3>1 DEF Elements
    <3> QED
      BY <1>1, <2>1, <3>1, <3>2 DEF JudgedSoFar, RangeChecked
  <2> DEFINE s == ToMinutes(input.start)
             e == ToMinutes(input.end)
  <2>3. s \in 0 .. MinutesPerDay - 1 /\ e \in 0 .. MinutesPerDay - 1
    BY <2>2, MinutesOfTime
  <2>4. ValidInput <=> e - s >= SlotDuration /\ (e - s) % SlotDuration = 0
    BY <2>2, <2>3, WholeSlots DEF ValidInput
  <2>5. \/ pc' = "date" /\ error' = error
              /\ e - s >= SlotDuration /\ (e - s) % SlotDuration = 0
        \/ pc' = "done" /\ error' # "none"
              /\ ~(e - s >= SlotDuration /\ (e - s) % SlotDuration = 0)
    <3>1. \/ pc' = "date" /\ error' = error
                /\ e - s >= SlotDuration /\ (e - s) % SlotDuration = 0
          \/ pc' = "done" /\ error' # "none"
                /\ (e - s <= 0 \/ e - s \in 1 .. SlotDuration - 1 \/ (e - s) % SlotDuration # 0)
      BY <1>7 DEF CheckRange, Reject
    <3> HIDE DEF s, e
    <3>2. e - s <= 0 \/ e - s \in 1 .. SlotDuration - 1 => ~(e - s >= SlotDuration)
      BY <2>3 DEF SlotDuration, MinutesPerDay
    <3> QED
      BY <3>1, <3>2
  <2> HIDE DEF s, e
  <2> QED
    BY <1>3, <2>1, <2>4, <2>5
<1>8. CASE NextDate \/ NextSlot \/ Finish
  <2>1. /\ pc \in {"date", "slot"} /\ pc' \in {"date", "slot", "done"}
        /\ UNCHANGED <<input, error>>
    BY <1>8 DEF NextDate, NextSlot, Finish
  <2>2. ValidInput
    BY <1>1, <2>1 DEF JudgedSoFar
  <2> QED
    BY <1>3, <2>1, <2>2
<1>9. CASE UNCHANGED vars
  <2>1. UNCHANGED <<input, pc, error>>
    BY <1>9 DEF vars
  <2> QED
    BY <1>1, <1>2, <2>1 DEF JudgedSoFar, RejectedOnlyIfInvalid
<1> QED
  BY <1>4, <1>5, <1>6, <1>7, <1>8, <1>9 DEF Next

----------------------------------------------------------------------------
(* time.Weekday and the API count the same weekdays. *)
LEMMA SameWeekday ==
    ASSUME NEW date \in Nat
    PROVE  DayOfWeekFromWeekday(Weekday(date)) = (date % 7) + 1
<1>1. (date + 1) % 7 = IF date % 7 = 6 THEN 0 ELSE (date % 7) + 1
  OBVIOUS
<1>2. date % 7 \in 0 .. 6
  OBVIOUS
<1> QED
  BY <1>1, <1>2 DEF DayOfWeekFromWeekday, Weekday

(* What a schedule means for one day more. *)
LEMMA OneDayMore ==
    ASSUME NEW n \in Nat, input.from \in Nat
    PROVE  MeaningFor(n + 1) =
             IF ((input.from + n) % 7) + 1 \in Elements(input.days)
             THEN MeaningFor(n) \cup HalfHoursOf(input.from + n) ELSE MeaningFor(n)
<1> DEFINE On(d) == (d % 7) + 1 \in Elements(input.days)
<1>1. input.from .. input.from + (n + 1) - 1 = (input.from .. input.from + n - 1) \cup {input.from + n}
  OBVIOUS
<1>2. ScheduledDates(n + 1) = ScheduledDates(n) \cup
             {d \in {input.from + n} : On(d)}
  BY <1>1 DEF ScheduledDates
<1>3. CASE On(input.from + n)
  <2>1. ScheduledDates(n + 1) = ScheduledDates(n) \cup {input.from + n}
    BY <1>2, <1>3
  <2> QED
    BY <1>3, <2>1 DEF MeaningFor
<1>4. CASE ~On(input.from + n)
  <2>1. ScheduledDates(n + 1) = ScheduledDates(n)
    BY <1>2, <1>4
  <2> QED
    BY <1>4, <2>1 DEF MeaningFor
<1> QED
  BY <1>3, <1>4

(* What a request means does not change. *)
LEMMA SameMeaning ==
    ASSUME UNCHANGED input
    PROVE  /\ \A n : MeaningFor(n)' = MeaningFor(n)
           /\ \A n : ScheduledDates(n)' = ScheduledDates(n)
           /\ \A d, k : HalfHour(d, k)' = HalfHour(d, k)
<1>1. \A d, k : HalfHour(d, k)' = HalfHour(d, k)
  BY DEF HalfHour, DayStart, ToMinutes
<1>2. \A d : HalfHoursOf(d)' = HalfHoursOf(d)
  BY <1>1 DEF HalfHoursOf, ToMinutes
<1>3. \A n : ScheduledDates(n)' = ScheduledDates(n)
  BY DEF ScheduledDates, Elements
<1>4. \A n : MeaningFor(n)' = MeaningFor(n)
  BY <1>2, <1>3 DEF MeaningFor
<1> QED
  BY <1>1, <1>3, <1>4

(* Before the loop over the days there are no slots, and none are meant. *)
LEMMA FirstDate ==
    ASSUME OrderInv, SlotsSoFar, input.from \in Nat, UNCHANGED <<input, slots, offset>>,
           pc \in {"parse", "days", "range"}, pc' \in {"days", "range", "date"}
    PROVE  SlotsSoFar'
<1>1. offset = 0 /\ slots = <<>> /\ offset <= InitialSlotGenerationDays
  BY DEF SlotsSoFar, OrderInv, RangeChecked
<1>2. MeaningFor(0) = {}
  <2>1. ScheduledDates(0) = {}
    <3>1. input.from .. input.from + 0 - 1 = {}
      OBVIOUS
    <3> QED
      BY <3>1 DEF ScheduledDates
  <2> QED
    BY <2>1 DEF MeaningFor
<1>3. Elements(slots) = {}
  BY <1>1 DEF Elements
<1>4. (Elements(slots) = MeaningFor(offset))'
  BY <1>1, <1>2, <1>3, SameMeaning DEF Elements
<1> QED
  BY <1>1, <1>4 DEF SlotsSoFar, TimetableIsExact

(* The loops generate what the request means, one half-hour at a time. *)
LEMMA SlotsInv ==
    ASSUME input.from \in Nat, InitialSlotGenerationDays \in Nat, IInv, [Next]_vars
    PROVE  SlotsSoFar'
<1>1. SlotsSoFar /\ OrderInv /\ offset \in Nat /\ slots \in Seq(Slot)
  BY DEF IInv, OrderInv, TypeOK
<1>2. CASE Parse \/ NormalizeDay \/ SortDays \/ CheckRange
  <2>1. /\ pc \in {"parse", "days", "range"} /\ UNCHANGED <<input, slots, offset>>
        /\ \/ pc' \in {"days", "range", "date"}
           \/ pc' = "done" /\ error' # "none"
    BY <1>2 DEF Parse, NormalizeDay, SortDays, CheckRange, Reject
  <2>2. CASE pc' = "done" /\ error' # "none"
    BY <1>1, <2>1, <2>2 DEF SlotsSoFar, TimetableIsExact
  <2> QED
    BY <1>1, <2>1, <2>2, FirstDate
<1>3. CASE NextDate
  <2>1. /\ pc = "date" /\ offset < InitialSlotGenerationDays
        /\ UNCHANGED <<input, slots, validated>>
        /\ Elements(slots) = MeaningFor(offset)
    BY <1>1, <1>3 DEF NextDate, SlotsSoFar
  <2>2. Date \in Nat /\ Date = input.from + offset
    BY <1>1 DEF Date
  <2>3. ScheduleIncludesDate(Date) <=> (Date % 7) + 1 \in Elements(input.days)
    <3>1. Elements(validated) = Elements(input.days)
      BY <2>1 DEF IInv, DaysSoFar, DaysNormalized
    <3> QED
      BY <2>2, <3>1, SameWeekday DEF ScheduleIncludesDate
  <2>4. Elements(slots)' = Elements(slots)
    BY <2>1 DEF Elements
  <2>5. CASE ~ScheduleIncludesDate(Date) /\ offset' = offset + 1 /\ pc' = pc
    <3>1. MeaningFor(offset + 1) = MeaningFor(offset)
      BY <1>1, <2>2, <2>3, <2>5, OneDayMore
    <3>2. (Elements(slots) = MeaningFor(offset))'
      <4>1. MeaningFor(offset)' = MeaningFor(offset')
        BY <2>1, SameMeaning
      <4> QED
        BY <2>1, <2>4, <2>5, <3>1, <4>1
    <3>3. offset' <= InitialSlotGenerationDays
      BY <1>1, <2>1, <2>5
    <3> QED
      BY <2>1, <2>5, <3>2, <3>3 DEF SlotsSoFar, TimetableIsExact
  <2>6. CASE /\ ScheduleIncludesDate(Date) /\ current' = WindowStart
             /\ pc' = "slot" /\ UNCHANGED offset
    <3>1. Date \in ScheduledDates(offset + 1)
      BY <1>1, <2>2, <2>3, <2>6 DEF ScheduledDates
    <3>2. Date' = Date /\ WindowStart' = WindowStart /\ WindowStart \in Int
      <4>1. Date' = Date
        BY <2>1, <2>6 DEF Date
      <4>2. IsValidTime(input.start)
        BY <1>1, <2>1 DEF OrderInv, RangeChecked
      <4>3. DayStart(Date) \in Int
        BY <2>2 DEF DayStart, MinutesPerDay
      <4>4. ToMinutes(input.start) \in Int
        <5>1. ToMinutes(input.start) \in 0 .. MinutesPerDay - 1
          BY <4>2, MinutesOfTime
        <5> QED
          BY <5>1 DEF MinutesPerDay
      <4> QED
        BY <2>1, <4>1, <4>3, <4>4 DEF WindowStart, DayStart
    <3>3. current' = WindowStart' + 0 * SlotDuration
      BY <2>6, <3>2 DEF SlotDuration
    <3>4. (Elements(slots) = MeaningFor(offset) \cup {HalfHour(Date, k) : k \in 0 .. 0 - 1})'
      <4>1. MeaningFor(offset)' = MeaningFor(offset)
        BY <2>1, <2>6, SameMeaning
      <4>2. 0 .. 0 - 1 = {}
        OBVIOUS
      <4> QED
        BY <2>1, <2>4, <4>1, <4>2
    <3>5. Date' \in ScheduledDates(offset + 1)'
      BY <2>1, <2>6, <3>1, <3>2, SameMeaning
    <3>6. (\E j \in 0 .. 48 :
              /\ current = WindowStart + j * SlotDuration
              /\ Elements(slots) = MeaningFor(offset)
                                     \cup {HalfHour(Date, k) : k \in 0 .. j - 1})'
      <4>1. 0 \in 0 .. 48
        OBVIOUS
      <4> QED
        BY <3>3, <3>4, <4>1
    <3>7. offset' < InitialSlotGenerationDays /\ offset' <= InitialSlotGenerationDays
      BY <1>1, <2>1, <2>6
    <3> QED
      BY <2>6, <3>5, <3>6, <3>7 DEF SlotsSoFar, TimetableIsExact
  <2> QED
    BY <1>3, <2>5, <2>6 DEF NextDate
<1>4. CASE NextSlot
  <2>1. /\ pc = "slot" /\ UNCHANGED input
        /\ offset < InitialSlotGenerationDays /\ Date \in ScheduledDates(offset + 1)
    BY <1>1, <1>4 DEF NextSlot, SlotsSoFar
  <2>2. PICK j \in 0 .. 48 :
              /\ current = WindowStart + j * SlotDuration
              /\ Elements(slots) = MeaningFor(offset) \cup {HalfHour(Date, k) : k \in 0 .. j - 1}
    BY <1>1, <2>1 DEF SlotsSoFar
  <2>3. Date \in Nat /\ Date = input.from + offset
    BY <1>1 DEF Date
  <2> DEFINE b == ToMinutes(input.start)
             e == ToMinutes(input.end)
             m == DayStart(Date)
  <2>4. /\ b \in 0 .. MinutesPerDay - 1 /\ e \in 0 .. MinutesPerDay - 1 /\ m \in Int
        /\ WindowStart = m + b /\ WindowEnd = m + e
    <3>1. IsValidTime(input.start) /\ IsValidTime(input.end)
      BY <1>1, <2>1 DEF OrderInv, RangeChecked
    <3>2. m \in Int
      BY <2>3 DEF DayStart, MinutesPerDay
    <3> QED
      BY <3>1, <3>2, MinutesOfTime DEF WindowStart, WindowEnd
  <2>5. current <= WindowEnd
    BY <1>1, <2>1 DEF OrderInv, SlotsInOrder
  <2>6. \A k : HalfHour(Date, k) =
          [start |-> m + b + k * SlotDuration, end |-> m + b + k * SlotDuration + SlotDuration]
    BY DEF HalfHour
  <2>7. HalfHoursOf(Date) = {HalfHour(Date, k) :
             k \in {i \in 0 .. 47 : b + (i + 1) * SlotDuration <= e}}
    BY DEF HalfHoursOf
  <2> HIDE DEF b, e, m
  <2>8. CASE /\ current + SlotDuration <= WindowEnd
             /\ slots' = Append(slots, [start |-> current, end |-> current + SlotDuration])
             /\ current' = current + SlotDuration
             /\ UNCHANGED <<pc, offset>>
    <3>1. j + 1 \in 0 .. 48
      <4>1. b + j * 30 + 30 <= e
        BY <2>2, <2>4, <2>8 DEF SlotDuration, MinutesPerDay
      <4>2. b \in 0 .. 1439 /\ e \in 0 .. 1439
        BY <2>4 DEF MinutesPerDay
      <4> QED
        BY <4>1, <4>2
    <3>2. Date' = Date /\ WindowStart' = WindowStart
      BY <2>1, <2>8 DEF WindowStart, Date, DayStart
    <3>3. current' = WindowStart' + (j + 1) * SlotDuration
      BY <2>2, <2>4, <2>8, <3>2 DEF SlotDuration
    <3>4. HalfHour(Date, j) = [start |-> current, end |-> current + SlotDuration]
      BY <2>2, <2>4, <2>6
    <3>5. Elements(slots)' = MeaningFor(offset) \cup {HalfHour(Date, k) : k \in 0 .. (j + 1) - 1}
      <4>1. HalfHour(Date, j) \in Slot
        BY <2>2, <2>4, <3>4 DEF Slot, SlotDuration
      <4>2. Elements(slots') = Elements(slots) \cup {HalfHour(Date, j)}
        BY <1>1, <2>8, <3>4, <4>1, AppendElements
      <4>3. 0 .. (j + 1) - 1 = (0 .. j - 1) \cup {j}
        OBVIOUS
      <4>4. {HalfHour(Date, k) : k \in 0 .. (j + 1) - 1} =
              {HalfHour(Date, k) : k \in 0 .. j - 1} \cup {HalfHour(Date, j)}
        BY <4>3
      <4>5. Elements(slots)' = Elements(slots')
        BY DEF Elements
      <4> QED
        BY <2>2, <4>2, <4>4, <4>5
    <3>6. (Elements(slots) = MeaningFor(offset) \cup {HalfHour(Date, k) : k \in 0 .. (j + 1) - 1})'
      <4>1. MeaningFor(offset)' = MeaningFor(offset)
        BY <2>1, <2>8, SameMeaning
      <4>2. \A k : HalfHour(Date, k)' = HalfHour(Date, k)
        BY <2>1, <3>2, SameMeaning
      <4> QED
        BY <3>5, <4>1, <4>2
    <3>7. Date' \in ScheduledDates(offset + 1)' /\ offset' < InitialSlotGenerationDays
      BY <2>1, <2>8, <3>2, SameMeaning
    <3>8. offset' <= InitialSlotGenerationDays
      BY <1>1, <2>1, <2>8
    <3> QED
      BY <2>1, <2>8, <3>1, <3>3, <3>6, <3>7, <3>8 DEF SlotsSoFar, TimetableIsExact
  <2>9. CASE /\ current + SlotDuration > WindowEnd
             /\ offset' = offset + 1 /\ pc' = "date" /\ UNCHANGED slots
    <3>1. {i \in 0 .. 47 : b + (i + 1) * SlotDuration <= e} = 0 .. j - 1
      <4>1. b + j * 30 <= e /\ b + j * 30 + 30 > e
        BY <2>2, <2>4, <2>5, <2>9 DEF SlotDuration, MinutesPerDay
      <4>2. b \in 0 .. 1439 /\ e \in 0 .. 1439
        BY <2>4 DEF MinutesPerDay
      <4>3. ASSUME NEW i \in 0 .. 47
            PROVE  b + (i + 1) * 30 <= e <=> i < j
        BY <4>1, <4>2
      <4>4. j - 1 <= 47
        OBVIOUS
      <4>5. ASSUME NEW i
            PROVE  i \in {n \in 0 .. 47 : b + (n + 1) * 30 <= e} <=> i \in 0 .. j - 1
        <5>1. ASSUME i \in 0 .. 47
              PROVE  i < j <=> i \in 0 .. j - 1
          BY <5>1
        <5>2. ASSUME i \in 0 .. j - 1
              PROVE  i \in 0 .. 47
          BY <4>4, <5>2
        <5> QED
          BY <4>3, <5>1, <5>2
      <4>6. {n \in 0 .. 47 : b + (n + 1) * 30 <= e} = 0 .. j - 1
        BY <4>5
      <4> QED
        BY <4>6 DEF SlotDuration
    <3>2. Elements(slots) = MeaningFor(offset) \cup HalfHoursOf(Date)
      BY <2>2, <2>7, <3>1
    <3>3. (Date % 7) + 1 \in Elements(input.days)
      BY <2>1 DEF ScheduledDates
    <3>4. MeaningFor(offset + 1) = Elements(slots)
      BY <1>1, <2>3, <3>2, <3>3, OneDayMore
    <3>5. (Elements(slots) = MeaningFor(offset))'
      <4>1. MeaningFor(offset)' = MeaningFor(offset')
        BY <2>1, SameMeaning
      <4>2. Elements(slots)' = Elements(slots)
        BY <2>9 DEF Elements
      <4> QED
        BY <2>9, <3>4, <4>1, <4>2
    <3>6. offset' <= InitialSlotGenerationDays
      BY <1>1, <2>1, <2>9
    <3> QED
      BY <2>9, <3>5, <3>6 DEF SlotsSoFar, TimetableIsExact
  <2> QED
    BY <1>4, <2>8, <2>9 DEF NextSlot
<1>5. CASE Finish
  <2>1. /\ pc = "date" /\ offset = InitialSlotGenerationDays /\ pc' = "done"
        /\ UNCHANGED <<input, slots, offset>>
        /\ Elements(slots) = MeaningFor(InitialSlotGenerationDays)
    BY <1>1, <1>5 DEF Finish, SlotsSoFar
  <2>2. (Elements(slots) = MeaningFor(InitialSlotGenerationDays))'
    <3>1. MeaningFor(InitialSlotGenerationDays)' = MeaningFor(InitialSlotGenerationDays)
      BY <2>1, SameMeaning
    <3> QED
      BY <2>1, <3>1 DEF Elements
  <2> QED
    BY <1>1, <2>1, <2>2 DEF SlotsSoFar, TimetableIsExact
<1>6. CASE UNCHANGED vars
  <2>1. UNCHANGED <<input, slots, offset, pc, current, error>>
    BY <1>6 DEF vars
  <2>2. /\ Elements(slots)' = Elements(slots) /\ Date' = Date /\ WindowStart' = WindowStart
    BY <2>1 DEF Elements, Date, WindowStart, DayStart, ToMinutes
  <2>3. /\ \A n : MeaningFor(n)' = MeaningFor(n) /\ ScheduledDates(n)' = ScheduledDates(n)
        /\ \A d, k : HalfHour(d, k)' = HalfHour(d, k)
    BY <2>1, SameMeaning
  <2> QED
    BY <1>1, <2>1, <2>2, <2>3 DEF SlotsSoFar, TimetableIsExact
<1> QED
  BY <1>2, <1>3, <1>4, <1>5, <1>6 DEF Next

----------------------------------------------------------------------------
(* At first nothing is generated, kept or judged. *)
LEMMA InitInv == ConstantsAssumption /\ Init => IInv
<1> SUFFICES ASSUME ConstantsAssumption, Init
             PROVE  IInv
  OBVIOUS
<1>1. InitialSlotGenerationDays \in Nat
  BY Zenon DEF ConstantsAssumption
<1>2. OrderInv
  BY InitOrder
<1>3. DaysSoFar
  <2>1. validated \in Seq(1 .. 7)
    BY DEF Init
  <2> QED
    BY <2>1 DEF Init, DaysSoFar, DaysNormalized
<1>4. JudgedSoFar
  BY DEF Init, JudgedSoFar, RejectedOnlyIfInvalid
<1>5. SlotsSoFar
  BY <1>1 DEF Init, SlotsSoFar, TimetableIsExact
<1> QED
  BY <1>2, <1>3, <1>4, <1>5 DEF IInv

(* The loops and checks keep the invariant at every iteration. *)
THEOREM Invariance == Spec => []IInv
<1>1. Init => IInv
  BY InitInv, ConstantsAssumption
<1>2. IInv /\ [Next]_vars => IInv'
  <2>1. IInv => OrderInv
    BY DEF IInv
  <2>2. IInv /\ [Next]_vars => OrderInv' /\ DaysSoFar' /\ JudgedSoFar' /\ SlotsSoFar'
    <3>1. InitialSlotGenerationDays \in Nat
      BY Zenon, ConstantsAssumption DEF ConstantsAssumption
    <3> QED
      BY <2>1, <3>1, DaysOfRequest, NextOrder, DaysInv, JudgedInv, SlotsInv, ConstantsAssumption
  <2> QED
    BY <2>2 DEF IInv
<1> QED
  BY <1>1, <1>2, PTL DEF Spec

(* A request is turned down if and only if no slots can be made of it.     *)
THEOREM InvalidOnesAreRejected == Spec => []RejectedOnlyIfInvalid
<1>1. IInv => RejectedOnlyIfInvalid
  BY DEF IInv, JudgedSoFar
<1> QED
  BY <1>1, Invariance, PTL

(* The stored days are the requested ones, each once, in order of the week. *)
THEOREM DaysAreNormalized == Spec => []DaysNormalized
<1>1. IInv => DaysNormalized
  BY DEF IInv, DaysSoFar
<1> QED
  BY <1>1, Invariance, PTL

(* The slots generated are those the request means, and no others.         *)
THEOREM TimetablesAreExact == Spec => []TimetableIsExact
<1>1. IInv => TimetableIsExact
  BY DEF IInv, SlotsSoFar
<1> QED
  BY <1>1, Invariance, PTL

(* No two slots generated from one schedule overlap (TASK.md:27).          *)
THEOREM SlotsNeverOverlap == Spec => []NoOverlap
<1>1. ASSUME IInv
      PROVE  NoOverlap
  <2>1. ASSUME NEW i \in DOMAIN slots, NEW j \in DOMAIN slots, i # j
        PROVE  ~Overlaps(slots[i], slots[j])
    <3>1. /\ i \in Int /\ j \in Int
          /\ slots[i] \in Slot /\ slots[j] \in Slot
      BY <1>1 DEF IInv, OrderInv, TypeOK
    <3>2. i < j \/ j < i
      BY <2>1, <3>1
    <3>3. slots[i].end <= slots[j].start \/ slots[j].end <= slots[i].start
      BY <1>1, <2>1, <3>2 DEF IInv, OrderInv, SlotsInOrder
    <3> QED
      BY <3>1, <3>3 DEF Overlaps, Slot
  <2> QED
    BY <2>1 DEF NoOverlap
<1> QED
  BY <1>1, Invariance, PTL
=============================================================================
