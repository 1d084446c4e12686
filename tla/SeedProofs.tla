--------------------------- MODULE SeedProofs ---------------------------
(***************************************************************************)
(* Proofs about Seed, for any runs, admins and slots and any folding of    *)
(* names: the inductive invariant IInv, that a run which completes leaves  *)
(* nothing missing, and that one which repeats it writes nothing.          *)
(***************************************************************************)
EXTENDS Seed, FiniteSetTheorems, WellFoundedInduction, TLAPS

(* A set of naturals has a least element. *)
LEMMA Least ==
    ASSUME NEW T \in SUBSET Nat, T # {}
    PROVE  \E m \in T : \A n \in T : m <= n
<1> DEFINE R == OpToRel(<, Nat)
<1>1. IsWellFoundedOn(R, Nat)
  BY NatLessThanWellFounded
<1>2. \A x, y \in Nat : x < y => <<x, y>> \in R
  BY DEF OpToRel
<1> HIDE DEF R
<1>3. PICK m \in T : \A n \in T : ~ (<<n, m>> \in R)
  BY <1>1, WFMin
<1>4. ASSUME NEW n \in T
      PROVE  m <= n
  <2>1. m \in Nat /\ n \in Nat
    OBVIOUS
  <2>2. ~(n < m)
    BY <1>2, <1>3, <2>1
  <2> QED
    BY <2>1, <2>2
<1> QED
  BY <1>4

(* Of the rooms of a name there is a first one. *)
LEMMA FirstRoomExists ==
    ASSUME TypeOK, NEW i \in Index, Named(i) # {}
    PROVE  FirstRoomNamed(Names[i]) # {}
<1> DEFINE T == {x.createdAt : x \in Named(i)}
<1>1. T \in SUBSET Nat /\ T # {}
  BY DEF TypeOK, Room, Named
<1> HIDE DEF T
<1>2. PICK m \in T : \A n \in T : m <= n
  BY <1>1, Least
<1>3. PICK x \in Named(i) : x.createdAt = m
  BY DEF T
<1>4. \A y \in Named(i) : x.createdAt <= y.createdAt
  BY <1>2, <1>3 DEF T
<1> QED
  BY <1>4 DEF FirstRoomNamed, Named

(* The first slot that is available is a slot. *)
LEMMA FirstSlot ==
    ASSUME Slots \subseteq Nat, NEW x, Available(x) # {}
    PROVE  Min(Available(x)) \in Available(x)
<1>1. Available(x) \in SUBSET Nat
  BY DEF Available
<1>2. \E m \in Available(x) : \A n \in Available(x) : m <= n
  BY <1>1, Least
<1> QED
  BY <1>2 DEF Min

----------------------------------------------------------------------------
(* No user, room or schedule is ever deleted, nor a user's last booking.   *)
TablesGrow ==
    /\ users \subseteq users' /\ rooms \subseteq rooms' /\ schedules \subseteq schedules'
    /\ \A b \in bookings : \E c \in bookings' : c.user = b.user

SameRun(s) ==
    UNCHANGED <<pc[s], index[s], user[s], room[s], before[s], repeats[s]>>

(* What is typed by the rows of a table still is when there are more.      *)
LEMMA StillTyped ==
    ASSUME IInv, TablesGrow
    PROVE  /\ schedules \in SUBSET Schedule(rooms') /\ bookings \in SUBSET Booking(rooms')
           /\ user \in [Seeds -> SUBSET users']
           /\ room \in [Seeds -> [Index -> SUBSET rooms']]
           /\ before \in [Seeds -> SUBSET {Fold[x.name] : x \in rooms'}]
<1>1. /\ Schedule(rooms) \subseteq Schedule(rooms') /\ Booking(rooms) \subseteq Booking(rooms')
      /\ SUBSET users \subseteq SUBSET users' /\ SUBSET rooms \subseteq SUBSET rooms'
      /\ {Fold[x.name] : x \in rooms} \subseteq {Fold[x.name] : x \in rooms'}
  BY DEF TablesGrow, Schedule, Booking
<1>2. schedules \in SUBSET Schedule(rooms') /\ bookings \in SUBSET Booking(rooms')
  BY <1>1 DEF IInv, TypeOK
<1>3. user \in [Seeds -> SUBSET users']
  <2>1. user \in [Seeds -> SUBSET users]
    BY DEF IInv, TypeOK
  <2> QED
    BY <1>1, <2>1
<1>4. room \in [Seeds -> [Index -> SUBSET rooms']]
  <2>1. room \in [Seeds -> [Index -> SUBSET rooms]]
    BY DEF IInv, TypeOK
  <2>2. [Index -> SUBSET rooms] \subseteq [Index -> SUBSET rooms']
    BY <1>1
  <2> QED
    BY <2>1, <2>2
<1>5. before \in [Seeds -> SUBSET {Fold[x.name] : x \in rooms'}]
  <2>1. before \in [Seeds -> SUBSET {Fold[x.name] : x \in rooms}]
    BY DEF IInv, TypeOK
  <2> QED
    BY <1>1, <2>1
<1> QED
  BY <1>2, <1>3, <1>4, <1>5

(* The labels of a run's steps. *)
LEMMA Labels ==
    /\ AtUsers \subseteq PCs /\ AtRooms \subseteq PCs /\ AtBooking \subseteq PCs
    /\ {"getUser", "register", "insertUser"} \subseteq PCs
    /\ {"listRooms", "createRoom", "insertRoom", "getSchedule", "createSchedule"} \subseteq PCs
    /\ {"listMine", "listAvailable", "createBooking", "done", "failed"} \subseteq PCs
  BY DEF PCs, AtUsers, AtRooms, AtBooking

LEMMA WhatIsThereStays ==
    ASSUME TablesGrow
    PROVE  /\ \A i \in Index : HasUser(i) => HasUser(i)'
           /\ \A i \in Index : HasRoom(i) => HasRoom(i)'
           /\ HasBooking => HasBooking'
           /\ EverythingThere => EverythingThere'
           /\ \A i \in Index : Named(i) \subseteq Named(i)'
<1> USE DEF TablesGrow
<1>1. \A i \in Index : Named(i) \subseteq Named(i)'
  BY DEF Named, EqualFold
<1>2. \A i \in Index : HasUser(i) => HasUser(i)'
  BY DEF HasUser
<1>3. \A i \in Index : HasRoom(i) => HasRoom(i)'
  BY <1>1 DEF HasRoom, ScheduleOf
<1>4. HasBooking => HasBooking'
  BY DEF HasBooking
<1> QED
  BY <1>1, <1>2, <1>3, <1>4 DEF EverythingThere

(* What others do takes nothing from a run. *)
LEMMA RunKept ==
    ASSUME IInv, TablesGrow, NEW s \in Seeds, SameRun(s),
           \A x \in rooms' : x.by = s => x \in rooms
    PROVE  RunInv(s)' /\ RightRooms(s)'
<1>1. RunInv(s) /\ index[s] \in Index
  BY DEF IInv, TypeOK
<1>2. Progress(s)'
  <2>1. 1 \in Index
    BY DEF Index
  <2> QED
    BY <1>1, <2>1, WhatIsThereStays DEF RunInv, Progress, SameRun
<1>3. NameWasFree(s)'
  BY <1>1 DEF RunInv, NameWasFree, SameRun
<1>4. FindsEverything(s)'
  BY <1>1, WhatIsThereStays DEF RunInv, FindsEverything, SameRun
<1>5. RightRooms(s)'
  BY WhatIsThereStays DEF IInv, RightRooms, SameRun
<1> QED
  BY <1>2, <1>3, <1>4, <1>5 DEF RunInv

(* A step of one run: the others and the admins are as they were, and so   *)
(* is table rooms unless the run inserts one.                              *)
LEMMA RunSteps ==
    ASSUME IInv, TablesGrow, NEW s \in Seeds,
           TypeOK', RunInv(s)', room'[s] = room[s] \/ RightRooms(s)',
           \A d \in Seeds \ {s} : SameRun(d),
           UNCHANGED <<admin, apc>>,
           before[s] = before'[s] \/ pc[s] = "idle",
           \A x \in rooms' \ rooms : x.by = s /\ Fold[x.name] \notin before'[s]
    PROVE  IInv'
<1>1. \A d \in Seeds : RunInv(d)' /\ RightRooms(d)'
  <2>1. \A d \in Seeds \ {s} : RunInv(d)' /\ RightRooms(d)'
    BY RunKept
  <2>2. RightRooms(s)'
    BY WhatIsThereStays DEF IInv, RightRooms
  <2> QED
    BY <2>1, <2>2
<1>2. NoSecondRoom'
  <2> SUFFICES ASSUME NEW x \in rooms', x.by \in Seeds
               PROVE  Fold[x.name] \notin before'[x.by]
    BY DEF NoSecondRoom
  <2>1. CASE x \notin rooms
    BY <2>1
  <2>2. CASE x \in rooms /\ x.by # s
    BY <2>2 DEF IInv, NoSecondRoom, SameRun
  <2>3. CASE x \in rooms /\ x.by = s
    BY <2>3 DEF IInv, NoSecondRoom, RunInv, NameWasFree
  <2> QED
    BY <2>1, <2>2, <2>3
<1> QED
  BY <1>1, <1>2 DEF IInv

----------------------------------------------------------------------------
LEMMA InitInv ==
    ASSUME SeedAssumption, Init
    PROVE  IInv
<1>1. TypeOK
  <2>1. /\ index \in [Seeds -> Index] /\ room \in [Seeds -> [Index -> SUBSET rooms]]
        /\ pc \in [Seeds -> PCs]
    BY DEF Init, Index, PCs
  <2>2. /\ users \in SUBSET User /\ rooms \in SUBSET Room
        /\ schedules \in SUBSET Schedule(rooms) /\ bookings \in SUBSET Booking(rooms)
    BY DEF Init
  <2>3. IsFiniteSet(rooms)
    BY FS_EmptySet DEF Init
  <2>4. repeats \in [Seeds -> BOOLEAN]
    BY DEF Init
  <2> QED
    BY <2>1, <2>2, <2>3, <2>4 DEF Init, TypeOK, AdminPCs
<1>2. \A s \in Seeds : RunInv(s) /\ RightRooms(s)
  BY DEF Init, RunInv, RightRooms, Progress, NameWasFree, FindsEverything, AtUsers, AtRooms, AtBooking
<1>3. NoSecondRoom
  BY DEF Init, NoSecondRoom
<1> QED
  BY <1>1, <1>2, <1>3 DEF IInv, Init

(* A step that writes none of the tables takes nothing from them. *)
LEMMA SameTables ==
    ASSUME UNCHANGED tables
    PROVE  TablesGrow
  BY DEF tables, TablesGrow

LEMMA BeginInv ==
    ASSUME IInv, NEW s \in Seeds, Begin(s)
    PROVE  IInv'
<1>1. TypeOK'
  <2>1. repeats' \in [Seeds -> BOOLEAN]
    BY DEF Begin, EverythingThere, IInv, TypeOK
  <2> QED
    BY <2>1 DEF Begin, Goto, Keep, tables, admins, IInv, TypeOK, PCs, AtUsers
<1>2. /\ pc[s] = "idle" /\ index[s] = 1 /\ Progress(s)
      /\ UNCHANGED <<users, rooms, schedules, bookings, index, user, room, admin, apc>>
  BY DEF Begin, Keep, tables, admins, IInv, RunInv, Progress
<1>3. pc'[s] = "getUser" /\ index'[s] = 1
  BY <1>2 DEF Begin, Goto, IInv, TypeOK
<1>4. TablesGrow
  BY <1>2 DEF TablesGrow
<1>5. Progress(s)'
  BY <1>2, <1>3, <1>4, WhatIsThereStays DEF Progress, AtUsers, AtRooms, AtBooking
<1>6. NameWasFree(s)'
  BY <1>3 DEF NameWasFree
<1>7. FindsEverything(s)'
  <2>1. ASSUME repeats'[s]
        PROVE  EverythingThere
    BY <2>1 DEF Begin, IInv, TypeOK
  <2> QED
    BY <1>3, <1>4, <2>1, WhatIsThereStays DEF FindsEverything
<1>8. \A d \in Seeds \ {s} : SameRun(d)
  BY DEF Begin, Goto, IInv, TypeOK, SameRun
<1> QED
  BY <1>1, <1>2, <1>4, <1>5, <1>6, <1>7, <1>8, RunSteps DEF RunInv

(* The ways a run goes on: from one user or room to the next, or further.  *)
LEMMA ProceedTo ==
    ASSUME IInv, NEW s \in Seeds, NEW again \in PCs, NEW onwards \in PCs,
           Proceed(s, again, onwards)
    PROVE  /\ \/ index[s] = 1 /\ index'[s] = 2 /\ pc'[s] = again
              \/ index[s] = 2 /\ index'[s] = 1 /\ pc'[s] = onwards
           /\ \A d \in Seeds \ {s} : pc'[d] = pc[d] /\ index'[d] = index[d]
           /\ index' \in [Seeds -> Index]
           /\ pc' \in [Seeds -> PCs]
  BY DEF IInv, TypeOK, Proceed, Goto, Index

LEMMA GoneTo ==
    ASSUME IInv, NEW s \in Seeds, NEW l \in PCs, Goto(s, l)
    PROVE  /\ pc' \in [Seeds -> PCs] /\ pc'[s] = l
           /\ \A d \in Seeds \ {s} : pc'[d] = pc[d]
  BY DEF IInv, TypeOK, Goto

(* A run that ends without completing keeps what it had found. *)
LEMMA FailedInv ==
    ASSUME IInv, TablesGrow, NEW s \in Seeds, pc'[s] = "failed",
           UNCHANGED <<user[s], before[s], repeats[s]>>
    PROVE  RunInv(s)'
<1>1. RunInv(s)
  BY DEF IInv
<1>2. Progress(s)'
  BY <1>1, WhatIsThereStays DEF RunInv, Progress, AtUsers, AtRooms, AtBooking
<1>3. NameWasFree(s)' /\ FindsEverything(s)'
  BY <1>1, WhatIsThereStays DEF RunInv, NameWasFree, FindsEverything
<1> QED
  BY <1>2, <1>3 DEF RunInv

(* A run that has its user goes on to the next, or to the rooms. *)
LEMMA UserFoundInv ==
    ASSUME IInv, TablesGrow, NEW s \in Seeds, pc[s] \in AtUsers,
           Proceed(s, "getUser", "listRooms"),
           \E u \in users' : u.email = Emails[index[s]],
           \A u \in user'[s] : u.email = Emails[1],
           UNCHANGED <<before[s], repeats[s]>>
    PROVE  RunInv(s)'
<1>1. RunInv(s) /\ index[s] \in Index
  BY DEF IInv, TypeOK
<1>2. \/ index[s] = 1 /\ index'[s] = 2 /\ pc'[s] = "getUser"
      \/ index[s] = 2 /\ index'[s] = 1 /\ pc'[s] = "listRooms"
  BY ProceedTo, Labels
<1>3. HasUser(1)' /\ (index[s] = 2 => HasUser(1))
  BY <1>1, <1>2, WhatIsThereStays DEF RunInv, Progress, HasUser, Index
<1>4. index[s] = 2 => HasUser(2)'
  BY DEF HasUser
<1>5. Progress(s)'
  BY <1>1, <1>2, <1>3, <1>4, WhatIsThereStays
  DEF RunInv, Progress, AtUsers, AtRooms, AtBooking, Index
<1>6. NameWasFree(s)' /\ FindsEverything(s)'
  BY <1>1, <1>2, WhatIsThereStays DEF RunInv, NameWasFree, FindsEverything
<1> QED
  BY <1>5, <1>6 DEF RunInv

LEMMA GetUserInv ==
    ASSUME IInv, NEW s \in Seeds, GetUser(s)
    PROVE  IInv'
<1> DEFINE found == {u \in users : u.email = Emails[index[s]]}
<1>1. /\ pc[s] = "getUser" /\ RunInv(s)
      /\ UNCHANGED <<tables, room, readAt, slot, before, repeats, clock, admins>>
  BY DEF GetUser, Keep, IInv
<1>2. TablesGrow
  BY <1>1, SameTables
<1>3. CASE found = {} /\ Goto(s, "register") /\ UNCHANGED <<index, user>>
  <2>1. ~HasUser(index[s]) /\ index[s] \in Index
    BY <1>3 DEF HasUser, IInv, TypeOK
  <2>2. TypeOK'
    BY <1>1, <1>2, <1>3, GoneTo, Labels, StillTyped DEF tables, admins, IInv, TypeOK
  <2>3. pc'[s] = "register" /\ \A d \in Seeds \ {s} : SameRun(d)
    BY <1>1, <1>3 DEF Goto, IInv, TypeOK, SameRun
  <2>4. Progress(s)'
    BY <1>1, <1>2, <1>3, <2>3, WhatIsThereStays
    DEF RunInv, Progress, AtUsers, AtRooms, AtBooking, Index
  <2>5. NameWasFree(s)' /\ FindsEverything(s)'
    BY <1>1, <1>2, <2>1, <2>3, WhatIsThereStays
    DEF RunInv, NameWasFree, FindsEverything, EverythingThere
  <2> QED
    BY <1>1, <1>2, <2>2, <2>3, <2>4, <2>5, RunSteps DEF RunInv, tables, admins
<1>4. CASE found # {} /\ FoundUser(s, found) /\ Proceed(s, "getUser", "listRooms")
  <2>1. TypeOK'
    BY <1>1, <1>4, ProceedTo, Labels DEF FoundUser, IInv, TypeOK, AtUsers, AtRooms, tables, admins
  <2>2. \A u \in user'[s] : u.email = Emails[1]
    BY <1>1, <1>4 DEF FoundUser, IInv, TypeOK, RunInv, Progress
  <2>3. RunInv(s)'
    BY <1>1, <1>2, <1>4, <2>2, UserFoundInv DEF AtUsers, tables
  <2>4. \A d \in Seeds \ {s} : SameRun(d)
    BY <1>1, <1>4, ProceedTo, Labels DEF FoundUser, IInv, TypeOK, SameRun
  <2> QED
    BY <1>1, <1>2, <2>1, <2>3, <2>4, RunSteps DEF tables, admins
<1> QED
  BY <1>3, <1>4 DEF GetUser

LEMMA RegisterInv ==
    ASSUME IInv, NEW s \in Seeds, Register(s)
    PROVE  IInv'
<1>1. /\ pc[s] = "register" /\ RunInv(s)
      /\ UNCHANGED <<tables, runs, clock, admins>>
  BY DEF Register, Keep, IInv
<1>2. TablesGrow
  BY <1>1, SameTables
<1>3. TypeOK'
  <2>1. \E l \in PCs : Goto(s, l)
    BY Labels DEF Register
  <2> QED
    BY <1>1, <1>2, <2>1, GoneTo, StillTyped DEF tables, runs, admins, IInv, TypeOK
<1>4. pc'[s] \in {"failed", "insertUser"} /\ \A d \in Seeds \ {s} : SameRun(d)
  BY <1>1 DEF Register, Goto, IInv, TypeOK, SameRun, runs
<1>5. Progress(s)'
  BY <1>1, <1>2, <1>4, WhatIsThereStays
  DEF runs, RunInv, Progress, AtUsers, AtRooms, AtBooking, Index
<1>6. NameWasFree(s)' /\ FindsEverything(s)'
  BY <1>1, <1>2, <1>4, WhatIsThereStays DEF runs, RunInv, NameWasFree, FindsEverything
<1> QED
  BY <1>1, <1>2, <1>3, <1>4, <1>5, <1>6, RunSteps DEF RunInv, tables, runs, admins

(* A demo user is a user. *)
LEMMA NewUser ==
    ASSUME IInv, NEW s \in Seeds
    PROVE  /\ users \in SUBSET User
           /\ [email |-> Emails[index[s]], role |-> "user"] \in User
<1>1. index[s] \in Index
  BY DEF IInv, TypeOK
<1>2. Emails[index[s]] \in {Emails[i] : i \in Index}
  BY <1>1
<1>3. users \in SUBSET User
  BY DEF IInv, TypeOK
<1> QED
  BY <1>2, <1>3 DEF User

LEMMA InsertUserInv ==
    ASSUME IInv, NEW s \in Seeds, InsertUser(s)
    PROVE  IInv'
<1> DEFINE new == [email |-> Emails[index[s]], role |-> "user"]
<1>1. /\ pc[s] = "insertUser" /\ RunInv(s) /\ index[s] \in Index
      /\ UNCHANGED <<rooms, schedules, bookings, room, readAt, slot, before, repeats,
                     clock, admins>>
  BY DEF InsertUser, Keep, IInv, TypeOK
<1>2. users' = users \/ users' = users \cup {new}
  BY DEF InsertUser
<1>3. TablesGrow
  BY <1>1, <1>2 DEF TablesGrow
<1>4. CASE Goto(s, "failed") /\ UNCHANGED <<index, user>>
  <2>1. TypeOK'
    <3>1. users' \in SUBSET User
      <4>1. new \in User /\ users \in SUBSET User
        BY NewUser
      <4> HIDE DEF new
      <4> QED
        BY <1>2, <4>1
    <3> QED
      BY <1>1, <1>3, <1>4, <3>1, GoneTo, Labels, StillTyped DEF admins, IInv, TypeOK
  <2>2. pc'[s] = "failed" /\ \A d \in Seeds \ {s} : SameRun(d)
    BY <1>1, <1>4 DEF Goto, IInv, TypeOK, SameRun
  <2>3. RunInv(s)'
    BY <1>1, <1>3, <1>4, <2>2, FailedInv
  <2> QED
    BY <1>1, <1>3, <2>1, <2>2, <2>3, RunSteps DEF admins
<1>5. CASE users' = users \cup {new} /\ FoundUser(s, {new}) /\ Proceed(s, "getUser", "listRooms")
  <2>1. TypeOK'
    <3>1. users' \in SUBSET User
      BY <1>5, NewUser
    <3>2. user' = user \/ user' \in [Seeds -> SUBSET users']
      <4>1. user \in [Seeds -> SUBSET users'] /\ {new} \subseteq users'
        BY <1>5 DEF IInv, TypeOK
      <4> HIDE DEF new
      <4> QED
        BY <1>5, <4>1 DEF FoundUser
    <3> QED
      BY <1>1, <1>3, <1>5, <3>1, <3>2, ProceedTo, Labels, StillTyped DEF admins, IInv, TypeOK
  <2>2. \A u \in user'[s] : u.email = Emails[1]
    <3>1. CASE index[s] = 1 /\ user'[s] = {new}
      BY <3>1
    <3>2. CASE user' = user
      BY <1>1, <3>2 DEF RunInv, Progress
    <3> HIDE DEF new
    <3> QED
      BY <1>5, <3>1, <3>2 DEF FoundUser, IInv, TypeOK
  <2>3. RunInv(s)'
    <3>1. new \in users' /\ new.email = Emails[index[s]]
      BY <1>5
    <3> QED
      BY <1>1, <1>3, <1>5, <2>2, <3>1, UserFoundInv DEF AtUsers
  <2>4. \A d \in Seeds \ {s} : SameRun(d)
    BY <1>1, <1>5, ProceedTo, Labels DEF FoundUser, IInv, TypeOK, SameRun
  <2> QED
    BY <1>1, <1>3, <2>1, <2>3, <2>4, RunSteps DEF admins
<1> QED
  BY <1>2, <1>4, <1>5 DEF InsertUser

----------------------------------------------------------------------------
(* The seed's rooms are named by names of rooms, and admins are no seeds.  *)
LEMMA NamesOfRooms ==
    ASSUME SeedAssumption
    PROVE  /\ \A i \in Index : Names[i] \in RoomNames
           /\ Seeds \cap Admins = {} /\ Slots \subseteq Nat
           /\ \A r \in AdminRequests : r.name # "" => r.name \in RoomNames
  BY DEF SeedAssumption, Index

LEMMA ListRoomsInv ==
    ASSUME IInv, NEW s \in Seeds, ListRooms(s)
    PROVE  IInv'
<1> DEFINE found == FirstRoomNamed(Names[index[s]])
<1>1. /\ pc[s] = "listRooms" /\ RunInv(s) /\ index[s] \in Index
      /\ UNCHANGED <<tables, index, user, readAt, slot, before, repeats, clock, admins>>
  BY DEF ListRooms, Keep, IInv, TypeOK
<1>2. TablesGrow
  BY <1>1, SameTables
<1>3. CASE found = {} /\ Goto(s, "createRoom") /\ UNCHANGED room
  <2>1. Named(index[s]) = {}
    BY <1>1, <1>3, FirstRoomExists DEF IInv
  <2>2. Fold[Names[index[s]]] \notin before[s]
    <3>1. before[s] \subseteq {Fold[x.name] : x \in rooms}
      BY DEF IInv, TypeOK
    <3>2. \A x \in rooms : Fold[x.name] # Fold[Names[index[s]]]
      BY <2>1 DEF Named, EqualFold
    <3> QED
      BY <3>1, <3>2
  <2>3. ~repeats[s]
    BY <1>1, <2>1 DEF RunInv, FindsEverything, EverythingThere, HasRoom
  <2>4. TypeOK'
    BY <1>1, <1>2, <1>3, GoneTo, Labels, StillTyped DEF tables, admins, IInv, TypeOK
  <2>5. pc'[s] = "createRoom" /\ \A d \in Seeds \ {s} : SameRun(d)
    BY <1>1, <1>3 DEF Goto, IInv, TypeOK, SameRun
  <2>6. Progress(s)'
    BY <1>1, <1>2, <1>3, <2>5, WhatIsThereStays
    DEF RunInv, Progress, AtUsers, AtRooms, AtBooking, Index
  <2>7. NameWasFree(s)' /\ FindsEverything(s)'
    BY <1>1, <2>2, <2>3, <2>5 DEF NameWasFree, FindsEverything
  <2> QED
    BY <1>1, <1>2, <1>3, <2>4, <2>5, <2>6, <2>7, RunSteps DEF RunInv, tables, admins
<1>4. ASSUME NEW x \in found, room' = [room EXCEPT ![s][index[s]] = {x}], Goto(s, "getSchedule")
      PROVE  IInv'
  <2>1. x \in rooms /\ x \in Named(index[s])
    BY DEF FirstRoomNamed, Named
  <2>2. x \in Named(index[s])'
    <3>1. rooms' = rooms /\ index' = index
      BY <1>1 DEF tables
    <3> QED
      BY <2>1, <3>1 DEF Named, EqualFold
  <2>3. TypeOK'
    <3>1. room' \in [Seeds -> [Index -> SUBSET rooms]] /\ rooms' = rooms
      BY <1>1, <1>4, <2>1 DEF IInv, TypeOK, tables
    <3> QED
      BY <1>1, <1>2, <1>4, <3>1, GoneTo, Labels, StillTyped DEF tables, admins, IInv, TypeOK
  <2>4. /\ pc'[s] = "getSchedule" /\ room'[s][index[s]] = {x}
        /\ \A d \in Seeds \ {s} : SameRun(d)
    BY <1>1, <1>4 DEF Goto, IInv, TypeOK, SameRun
  <2>5. Progress(s)'
    BY <1>1, <1>2, <2>2, <2>4, WhatIsThereStays
    DEF RunInv, Progress, AtUsers, AtRooms, AtBooking, Index
  <2>6. NameWasFree(s)' /\ FindsEverything(s)'
    BY <1>1, <1>2, <2>4, WhatIsThereStays DEF RunInv, NameWasFree, FindsEverything
  <2>7. RightRooms(s)'
    <3>1. \A i \in Index : room'[s][i] = room[s][i] \/ (i = index[s] /\ room'[s][i] = {x})
      <4>1. room'[s] = [room[s] EXCEPT ![index[s]] = {x}] /\ room[s] \in [Index -> SUBSET rooms]
        BY <1>1, <1>4 DEF IInv, TypeOK
      <4> QED
        BY <4>1
    <3> QED
      BY <1>1, <1>2, <2>2, <3>1, WhatIsThereStays DEF IInv, RightRooms
  <2> QED
    BY <1>1, <1>2, <2>3, <2>4, <2>5, <2>6, <2>7, RunSteps DEF RunInv, tables, admins
<1> QED
  BY <1>3, <1>4 DEF ListRooms

LEMMA CreateRoomInv ==
    ASSUME IInv, NEW s \in Seeds, CreateRoom(s)
    PROVE  IInv'
<1>1. /\ pc[s] = "createRoom" /\ RunInv(s)
      /\ UNCHANGED <<tables, index, user, room, slot, before, repeats, clock, admins>>
  BY DEF CreateRoom, Keep, IInv
<1>2. TablesGrow
  BY <1>1, SameTables
<1>3. TypeOK'
  <2>1. readAt' \in [Seeds \cup Admins -> Nat] /\ Goto(s, "insertRoom")
    BY DEF CreateRoom, IInv, TypeOK
  <2> QED
    BY <1>1, <1>2, <2>1, GoneTo, Labels, StillTyped DEF tables, admins, IInv, TypeOK
<1>4. pc'[s] = "insertRoom" /\ \A d \in Seeds \ {s} : SameRun(d)
  BY <1>1 DEF CreateRoom, Goto, IInv, TypeOK, SameRun
<1>5. Progress(s)'
  BY <1>1, <1>2, <1>4, WhatIsThereStays DEF RunInv, Progress, AtUsers, AtRooms, AtBooking, Index
<1>6. NameWasFree(s)' /\ FindsEverything(s)'
  BY <1>1, <1>2, <1>4, WhatIsThereStays DEF RunInv, NameWasFree, FindsEverything
<1> QED
  BY <1>1, <1>2, <1>3, <1>4, <1>5, <1>6, RunSteps DEF RunInv, tables, admins

LEMMA InsertRoomInv ==
    ASSUME IInv, NEW s \in Seeds, InsertRoom(s), Names[index[s]] \in RoomNames
    PROVE  IInv'
<1> DEFINE new == [by |-> s, name |-> Names[index[s]], createdAt |-> readAt[s]]
<1>1. /\ pc[s] = "insertRoom" /\ RunInv(s) /\ index[s] \in Index
      /\ UNCHANGED <<users, schedules, bookings, index, user, readAt, slot, before, repeats,
                     clock, admins>>
      /\ rooms' = rooms \cup {new}
      /\ room' = [room EXCEPT ![s][index[s]] = {new}]
  BY DEF InsertRoom, Keep, IInv, TypeOK
<1>2. TablesGrow
  BY <1>1 DEF TablesGrow
<1>3. PICK l \in {"getSchedule", "failed"} : pc' = [pc EXCEPT ![s] = l]
  BY DEF InsertRoom, Wrote, Goto
<1>4. new \in Room /\ IsFiniteSet(rooms')
  BY <1>1, FS_AddElement DEF Room, IInv, TypeOK
<1> HIDE DEF new
<1>5. TypeOK'
  <2>1. rooms' \in SUBSET Room
    BY <1>1, <1>4 DEF IInv, TypeOK
  <2>2. room' \in [Seeds -> [Index -> SUBSET rooms']]
    <3>1. room \in [Seeds -> [Index -> SUBSET rooms']] /\ new \in rooms'
      BY <1>1, <1>2, StillTyped
    <3> QED
      BY <1>1, <3>1
  <2>3. pc' \in [Seeds -> PCs]
    BY <1>3, Labels DEF IInv, TypeOK
  <2> QED
    BY <1>1, <1>2, <1>4, <2>1, <2>2, <2>3, StillTyped DEF admins, IInv, TypeOK
<1>6. /\ pc'[s] = l /\ room'[s][index[s]] = {new}
      /\ \A d \in Seeds \ {s} : SameRun(d)
  BY <1>1, <1>3 DEF IInv, TypeOK, SameRun
<1>7. new \in Named(index[s])'
  BY <1>1 DEF Named, EqualFold, new
<1>8. Progress(s)'
  BY <1>1, <1>2, <1>6, <1>7, WhatIsThereStays
  DEF RunInv, Progress, AtUsers, AtRooms, AtBooking, Index
<1>9. NameWasFree(s)' /\ FindsEverything(s)'
  BY <1>1, <1>2, <1>6, WhatIsThereStays DEF RunInv, NameWasFree, FindsEverything
<1>10. \A x \in rooms' \ rooms : x.by = s /\ Fold[x.name] \notin before'[s]
  BY <1>1 DEF new, RunInv, NameWasFree
<1>11. RightRooms(s)'
  <2>1. \A i \in Index : room'[s][i] = room[s][i] \/ (i = index[s] /\ room'[s][i] = {new})
    <3>1. room'[s] = [room[s] EXCEPT ![index[s]] = {new}] /\ room[s] \in [Index -> SUBSET rooms]
      BY <1>1 DEF IInv, TypeOK
    <3> QED
      BY <3>1
  <2> QED
    BY <1>1, <1>2, <1>7, <2>1, WhatIsThereStays DEF IInv, RightRooms
<1> QED
  BY <1>1, <1>2, <1>5, <1>6, <1>8, <1>9, <1>10, <1>11, RunSteps DEF RunInv, admins

(* A run whose room has a schedule goes on to the next, or to the booking. *)
LEMMA RoomDoneInv ==
    ASSUME IInv, TablesGrow, NEW s \in Seeds, pc[s] \in AtRooms,
           Proceed(s, "listRooms", "listMine"),
           \A i \in Index : i = index[s] => HasRoom(i)',
           UNCHANGED <<user[s], before[s], repeats[s]>>
    PROVE  RunInv(s)'
<1>1. RunInv(s) /\ index[s] \in Index
  BY DEF IInv, TypeOK
<1>2. \/ index[s] = 1 /\ index'[s] = 2 /\ pc'[s] = "listRooms"
      \/ index[s] = 2 /\ index'[s] = 1 /\ pc'[s] = "listMine"
  BY ProceedTo, Labels
<1>3. HasRoom(1)' /\ (index[s] = 2 => HasRoom(2)')
  BY <1>1, <1>2, WhatIsThereStays DEF RunInv, Progress, Index
<1>4. Progress(s)'
  BY <1>1, <1>2, <1>3, WhatIsThereStays DEF RunInv, Progress, AtUsers, AtRooms, AtBooking, Index
<1>5. NameWasFree(s)' /\ FindsEverything(s)'
  BY <1>1, <1>2, WhatIsThereStays DEF RunInv, NameWasFree, FindsEverything
<1> QED
  BY <1>4, <1>5 DEF RunInv

LEMMA GetScheduleInv ==
    ASSUME IInv, NEW s \in Seeds, GetSchedule(s)
    PROVE  IInv'
<1>1. /\ pc[s] = "getSchedule" /\ RunInv(s) /\ index[s] \in Index
      /\ UNCHANGED <<tables, user, room, readAt, slot, before, repeats, clock, admins>>
      /\ room[s][index[s]] \subseteq Named(index[s])
  BY DEF GetSchedule, Keep, IInv, TypeOK, RightRooms
<1>2. TablesGrow
  BY <1>1, SameTables
<1>3. CASE Goto(s, "createSchedule") /\ UNCHANGED index
  <2>1. TypeOK'
    BY <1>1, <1>2, <1>3, GoneTo, Labels, StillTyped DEF tables, admins, IInv, TypeOK
  <2>2. pc'[s] = "createSchedule" /\ \A d \in Seeds \ {s} : SameRun(d)
    BY <1>1, <1>3 DEF Goto, IInv, TypeOK, SameRun
  <2>3. Progress(s)'
    BY <1>1, <1>2, <1>3, <2>2, WhatIsThereStays
    DEF RunInv, Progress, AtUsers, AtRooms, AtBooking, Index
  <2>4. NameWasFree(s)' /\ FindsEverything(s)'
    BY <1>1, <1>2, <2>2, WhatIsThereStays DEF RunInv, NameWasFree, FindsEverything
  <2> QED
    BY <1>1, <1>2, <2>1, <2>2, <2>3, <2>4, RunSteps DEF RunInv, tables, admins
<1>4. ASSUME NEW x \in room[s][index[s]], ScheduleOf(x) # {},
             Proceed(s, "listRooms", "listMine")
      PROVE  IInv'
  <2>1. TypeOK'
    BY <1>1, <1>4, ProceedTo, Labels DEF IInv, TypeOK, AtRooms, AtBooking, tables, admins
  <2>2. \A i \in Index : i = index[s] => HasRoom(i)'
    BY <1>1, <1>2, <1>4, WhatIsThereStays DEF HasRoom
  <2>3. RunInv(s)'
    BY <1>1, <1>2, <1>4, <2>2, RoomDoneInv DEF AtRooms
  <2>4. \A d \in Seeds \ {s} : SameRun(d)
    BY <1>1, <1>4, ProceedTo, Labels DEF SameRun
  <2> QED
    BY <1>1, <1>2, <2>1, <2>3, <2>4, RunSteps DEF tables, admins
<1> QED
  BY <1>3, <1>4 DEF GetSchedule

LEMMA CreateScheduleInv ==
    ASSUME IInv, NEW s \in Seeds, CreateSchedule(s)
    PROVE  IInv'
<1>1. /\ pc[s] = "createSchedule" /\ RunInv(s) /\ index[s] \in Index
      /\ UNCHANGED <<users, rooms, bookings, user, room, readAt, slot, before, repeats,
                     clock, admins>>
      /\ room[s][index[s]] \subseteq Named(index[s])
  BY DEF CreateSchedule, Keep, IInv, TypeOK, RightRooms
<1>2. PICK x \in room[s][index[s]] :
         \/ ScheduleOf(x) # {} /\ Goto(s, "failed") /\ UNCHANGED <<schedules, index>>
         \/ /\ ScheduleOf(x) = {}
            /\ schedules' = schedules \cup {[room |-> x, tomorrow |-> TRUE]}
            /\ \/ Proceed(s, "listRooms", "listMine")
               \/ Goto(s, "failed") /\ UNCHANGED index
  BY DEF CreateSchedule
<1>3. TablesGrow
  BY <1>1, <1>2 DEF TablesGrow
<1>4. x \in rooms
  BY <1>1 DEF Named
<1>5. schedules' = schedules \/ schedules' \in SUBSET Schedule(rooms')
  <2>1. schedules \in SUBSET Schedule(rooms)
    BY DEF IInv, TypeOK
  <2>2. [room |-> x, tomorrow |-> TRUE] \in Schedule(rooms)
    BY <1>4 DEF Schedule
  <2> QED
    BY <1>1, <1>2, <2>1, <2>2
<1>6. CASE Goto(s, "failed") /\ UNCHANGED index
  <2>1. TypeOK'
    BY <1>1, <1>3, <1>5, <1>6, GoneTo, Labels, StillTyped DEF admins, IInv, TypeOK
  <2>2. pc'[s] = "failed" /\ \A d \in Seeds \ {s} : SameRun(d)
    BY <1>1, <1>6 DEF Goto, IInv, TypeOK, SameRun
  <2>3. RunInv(s)'
    BY <1>1, <1>3, <2>2, FailedInv
  <2> QED
    BY <1>1, <1>3, <2>1, <2>2, <2>3, RunSteps DEF admins
<1>7. CASE /\ schedules' = schedules \cup {[room |-> x, tomorrow |-> TRUE]}
           /\ Proceed(s, "listRooms", "listMine")
  <2>1. TypeOK'
    BY <1>1, <1>3, <1>5, <1>7, ProceedTo, Labels, StillTyped DEF admins, IInv, TypeOK
  <2>2. \A i \in Index : i = index[s] => HasRoom(i)'
    BY <1>1, <1>7 DEF HasRoom, Named, ScheduleOf
  <2>3. RunInv(s)'
    BY <1>1, <1>3, <1>7, <2>2, RoomDoneInv DEF AtRooms
  <2>4. \A d \in Seeds \ {s} : SameRun(d)
    BY <1>1, <1>7, ProceedTo, Labels DEF SameRun
  <2> QED
    BY <1>1, <1>3, <2>1, <2>3, <2>4, RunSteps DEF admins
<1> QED
  BY <1>2, <1>6, <1>7

----------------------------------------------------------------------------
(* A run at its booking: the users and rooms are there for good. *)
LEMMA BookingInv ==
    ASSUME IInv, TablesGrow, NEW s \in Seeds, pc[s] \in AtBooking,
           pc'[s] \in AtBooking \cup {"done"},
           UNCHANGED <<user[s], before[s], repeats[s]>>,
           repeats[s] => pc'[s] \notin {"listAvailable", "createBooking"}
    PROVE  RunInv(s)'
<1>1. RunInv(s)
  BY DEF IInv
<1>2. Progress(s)'
  BY <1>1, WhatIsThereStays DEF RunInv, Progress, AtUsers, AtRooms, AtBooking
<1>3. NameWasFree(s)'
  BY DEF NameWasFree, AtBooking
<1>4. FindsEverything(s)'
  BY <1>1, WhatIsThereStays DEF RunInv, FindsEverything, AtBooking
<1> QED
  BY <1>2, <1>3, <1>4 DEF RunInv

LEMMA ListMineInv ==
    ASSUME IInv, NEW s \in Seeds, ListMine(s)
    PROVE  IInv'
<1>1. /\ pc[s] = "listMine" /\ RunInv(s)
      /\ UNCHANGED <<tables, index, user, room, readAt, slot, before, repeats, clock, admins>>
  BY DEF ListMine, Keep, IInv, runs
<1>2. TablesGrow
  BY <1>1, SameTables
<1>3. PICK u \in user[s] :
         \/ u.role # "user" /\ Goto(s, "failed")
         \/ /\ u.role = "user" /\ \E b \in bookings : b.user = u.email
            /\ Goto(s, "done")
         \/ /\ u.role = "user" /\ ~\E b \in bookings : b.user = u.email
            /\ Goto(s, "listAvailable")
  BY DEF ListMine
<1>4. u.email = Emails[1]
  BY <1>1 DEF RunInv, Progress
<1>5. TypeOK'
  <2>2. \E l \in PCs : Goto(s, l)
    BY <1>3, Labels
  <2> QED
    BY <1>1, <1>2, <2>2, GoneTo, StillTyped DEF tables, admins, IInv, TypeOK
<1>6. \A d \in Seeds \ {s} : SameRun(d)
  BY <1>1, <1>3 DEF Goto, IInv, TypeOK, SameRun
<1>7. RunInv(s)'
  <2>1. CASE Goto(s, "failed")
    <3>1. pc'[s] = "failed"
      BY <2>1 DEF Goto, IInv, TypeOK
    <3> QED
      BY <1>1, <1>2, <2>1, <3>1, FailedInv
  <2>2. CASE Goto(s, "done") /\ \E b \in bookings : b.user = u.email
    <3>1. pc'[s] = "done" /\ HasBooking'
      BY <1>1, <1>4, <2>2 DEF Goto, HasBooking, IInv, TypeOK, tables
    <3> QED
      BY <1>1, <1>2, <3>1, BookingInv DEF AtBooking
  <2>3. CASE Goto(s, "listAvailable") /\ ~\E b \in bookings : b.user = u.email
    <3>1. pc'[s] = "listAvailable" /\ ~repeats[s]
      BY <1>1, <1>4, <2>3 DEF Goto, RunInv, FindsEverything, EverythingThere, HasBooking, IInv, TypeOK
    <3> QED
      BY <1>1, <1>2, <2>3, <3>1, BookingInv DEF AtBooking
  <2> QED
    BY <1>3, <2>1, <2>2, <2>3
<1> QED
  BY <1>1, <1>2, <1>5, <1>6, <1>7, RunSteps DEF tables, admins

LEMMA ListAvailableInv ==
    ASSUME IInv, NEW s \in Seeds, ListAvailable(s), Slots \subseteq Nat
    PROVE  IInv'
<1>1. /\ pc[s] = "listAvailable" /\ RunInv(s)
      /\ UNCHANGED <<tables, index, user, room, readAt, before, repeats, clock, admins>>
  BY DEF ListAvailable, Keep, IInv
<1>2. TablesGrow
  BY <1>1, SameTables
<1>3. PICK x \in room[s][1] :
         \/ Goto(s, "done") /\ UNCHANGED slot
         \/ /\ Available(x) # {}
            /\ slot' = [slot EXCEPT ![s] = {Min(Available(x))}]
            /\ Goto(s, "createBooking")
  BY DEF ListAvailable
<1>4. slot' \in [Seeds -> SUBSET Slots]
  <2>1. Available(x) # {} => Min(Available(x)) \in Slots
    BY FirstSlot DEF Available
  <2>2. slot \in [Seeds -> SUBSET Slots]
    BY DEF IInv, TypeOK
  <2> QED
    BY <1>3, <2>1, <2>2
<1>5. TypeOK'
  <2>1. \E l \in PCs : Goto(s, l)
    BY <1>3, Labels
  <2> QED
    BY <1>1, <1>2, <1>4, <2>1, GoneTo, StillTyped DEF tables, admins, IInv, TypeOK
<1>6. /\ pc'[s] \in {"done", "createBooking"} /\ \A d \in Seeds \ {s} : SameRun(d)
      /\ ~repeats[s]
  BY <1>1, <1>3 DEF Goto, IInv, TypeOK, SameRun, RunInv, FindsEverything
<1>7. RunInv(s)'
  BY <1>1, <1>2, <1>6, BookingInv DEF AtBooking
<1> QED
  BY <1>1, <1>2, <1>5, <1>6, <1>7, RunSteps DEF tables, admins

LEMMA CreateBookingInv ==
    ASSUME IInv, NEW s \in Seeds, CreateBooking(s)
    PROVE  IInv'
<1>1. /\ pc[s] = "createBooking" /\ RunInv(s) /\ ~repeats[s]
      /\ UNCHANGED <<users, rooms, schedules, index, user, room, readAt, slot, before, repeats,
                     clock, admins>>
  BY DEF CreateBooking, Keep, IInv, RunInv, FindsEverything
<1>2. PICK x \in room[s][1], u \in user[s], k \in slot[s] :
         \/ k \notin Available(x) /\ Goto(s, "failed") /\ UNCHANGED <<bookings>>
         \/ /\ k \in Available(x)
            /\ bookings' = bookings \cup
                   {[user |-> u.email, room |-> x, slot |-> k, active |-> TRUE]}
            /\ Wrote(s, "done")
  BY DEF CreateBooking
<1>3. u.email = Emails[1] /\ x \in rooms /\ k \in Slots
  BY <1>1 DEF RunInv, Progress, IInv, TypeOK, Index
<1>4. TablesGrow
  BY <1>1, <1>2 DEF TablesGrow
<1>5. PICK l \in {"done", "failed"} : Goto(s, l)
  BY <1>2 DEF Wrote
<1>6. bookings' = bookings \/ bookings' \in SUBSET Booking(rooms')
  <2>1. bookings \in SUBSET Booking(rooms)
    BY DEF IInv, TypeOK
  <2>2. [user |-> u.email, room |-> x, slot |-> k, active |-> TRUE] \in Booking(rooms)
    BY <1>3 DEF Booking
  <2> QED
    BY <1>1, <1>2, <2>1, <2>2
<1>7. TypeOK'
  BY <1>1, <1>4, <1>5, <1>6, GoneTo, Labels, StillTyped DEF admins, IInv, TypeOK
<1>8. pc'[s] = l /\ \A d \in Seeds \ {s} : SameRun(d)
  BY <1>1, <1>2, <1>5 DEF Goto, IInv, TypeOK, SameRun
<1>9. RunInv(s)'
  BY <1>1, <1>4, <1>8, FailedInv, BookingInv DEF AtBooking
<1> QED
  BY <1>1, <1>4, <1>7, <1>8, <1>9, RunSteps DEF admins

LEMMA FailInv ==
    ASSUME IInv, NEW s \in Seeds, Fail(s)
    PROVE  IInv'
<1>1. UNCHANGED <<tables, runs, clock, admins>>
  BY DEF Fail, Keep
<1>2. TablesGrow
  BY <1>1, SameTables
<1>3. TypeOK'
  <2>1. Goto(s, "failed")
    BY DEF Fail
  <2> QED
    BY <1>1, <1>2, <2>1, GoneTo, Labels, StillTyped DEF tables, runs, admins, IInv, TypeOK
<1>4. pc'[s] = "failed" /\ \A d \in Seeds \ {s} : SameRun(d)
  BY <1>1 DEF Fail, Goto, IInv, TypeOK, SameRun, runs
<1>5. RunInv(s)'
  BY <1>1, <1>2, <1>4, FailedInv DEF runs
<1> QED
  BY <1>1, <1>2, <1>3, <1>4, <1>5, RunSteps DEF tables, runs, admins

----------------------------------------------------------------------------
(* The steps that are no run's: by an admin, another client or the clock.  *)
LEMMA OtherSteps ==
    ASSUME IInv, TablesGrow, TypeOK', Seeds \cap Admins = {},
           UNCHANGED <<pc, index, user, room, before, repeats>>,
           \A x \in rooms' \ rooms : x.by \in Admins,
           \A a \in Admins : apc'[a] = "insertRoom" => admin'[a].name # ""
    PROVE  IInv'
<1>1. \A s \in Seeds : RunInv(s)' /\ RightRooms(s)'
  BY RunKept DEF SameRun
<1>2. NoSecondRoom'
  BY DEF IInv, NoSecondRoom
<1> QED
  BY <1>1, <1>2 DEF IInv

LEMMA AdminCreateInv ==
    ASSUME IInv, Seeds \cap Admins = {}, NEW a \in Admins, AdminCreate(a)
    PROVE  IInv'
<1>1. UNCHANGED <<clock, tables, pc, index, user, room, slot, before, repeats,
                  admin, others>>
  BY DEF AdminCreate
<1>2. TablesGrow
  BY <1>1, SameTables
<1>3. \/ /\ apc' = [apc EXCEPT ![a] = "insertRoom"] /\ admin[a].name # ""
         /\ readAt' = [readAt EXCEPT ![a] = clock]
      \/ /\ \E e \in {"ErrForbidden", "ErrInvalidRoomName", "ErrInvalidRoomCapacity"} :
                apc' = [apc EXCEPT ![a] = e]
         /\ UNCHANGED readAt
  BY DEF AdminCreate
<1>4. TypeOK'
  <2>1. apc' \in [Admins -> AdminPCs]
    BY <1>3 DEF IInv, TypeOK, AdminPCs
  <2>2. readAt' = readAt \/ readAt' \in [Seeds \cup Admins -> Nat]
    BY <1>3 DEF IInv, TypeOK
  <2> QED
    BY <1>1, <1>2, <2>1, <2>2, StillTyped DEF tables, IInv, TypeOK
<1>5. \A b \in Admins : apc'[b] = "insertRoom" => admin'[b].name # ""
  BY <1>1, <1>3 DEF IInv, TypeOK
<1> QED
  BY <1>1, <1>2, <1>4, <1>5, OtherSteps DEF tables

LEMMA AdminInsertInv ==
    ASSUME IInv, Seeds \cap Admins = {}, NEW a \in Admins, AdminInsert(a),
           \A r \in AdminRequests : r.name # "" => r.name \in RoomNames
    PROVE  IInv'
<1> DEFINE new == [by |-> a, name |-> admin[a].name, createdAt |-> readAt[a]]
<1>1. /\ UNCHANGED <<clock, users, schedules, bookings, pc, runs, admin, others>>
      /\ rooms' = rooms \/ rooms' = rooms \cup {new}
      /\ \E e \in {"ok", "internal"} : apc' = [apc EXCEPT ![a] = e]
  BY DEF AdminInsert
<1>2. TablesGrow
  BY <1>1 DEF TablesGrow
<1>3. new \in Room
  BY DEF AdminInsert, Room, IInv, TypeOK
<1>4. new.by = a
  OBVIOUS
<1> HIDE DEF new
<1>5. rooms' \in SUBSET Room /\ IsFiniteSet(rooms')
  <2>1. rooms \in SUBSET Room /\ IsFiniteSet(rooms)
    BY DEF IInv, TypeOK
  <2>2. IsFiniteSet(rooms \cup {new})
    BY <2>1, FS_AddElement
  <2> QED
    BY <1>1, <1>3, <2>1, <2>2
<1>6. TypeOK'
  <2>1. apc' \in [Admins -> AdminPCs]
    BY <1>1 DEF IInv, TypeOK, AdminPCs
  <2> QED
    BY <1>1, <1>2, <1>5, <2>1, StillTyped DEF runs, IInv, TypeOK
<1>7. \A b \in Admins : apc'[b] = "insertRoom" => admin'[b].name # ""
  BY <1>1 DEF IInv, TypeOK
<1> QED
  BY <1>1, <1>2, <1>4, <1>6, <1>7, OtherSteps DEF runs

LEMMA OthersInv ==
    ASSUME IInv, Seeds \cap Admins = {}, Others
    PROVE  IInv'
<1>1. UNCHANGED <<clock, rooms, pc, runs, admin, apc>> /\ others' = others + 1
  BY DEF Others, OtherRegisters, OtherSchedules, OtherBooks, OtherCancels
<1>2. others' \in Nat
  <2>1. others \in Nat
    BY DEF IInv, TypeOK
  <2> QED
    BY <1>1, <2>1
<1>3. ASSUME NEW i \in Index, NEW role \in {"user", "admin"},
             users' = users \cup {[email |-> Emails[i], role |-> role]},
             UNCHANGED <<schedules, bookings>>
      PROVE  TypeOK' /\ TablesGrow
  <2>1. [email |-> Emails[i], role |-> role] \in User
    BY DEF User
  <2>2. users' \in SUBSET User
    BY <1>3, <2>1 DEF IInv, TypeOK
  <2>3. TablesGrow
    BY <1>1, <1>3 DEF TablesGrow
  <2> QED
    BY <1>1, <1>2, <1>3, <2>2, <2>3, StillTyped DEF runs, IInv, TypeOK
<1>4. ASSUME NEW x \in rooms, NEW tomorrow \in BOOLEAN,
             schedules' = schedules \cup {[room |-> x, tomorrow |-> tomorrow]},
             UNCHANGED <<users, bookings>>
      PROVE  TypeOK' /\ TablesGrow
  <2>1. [room |-> x, tomorrow |-> tomorrow] \in Schedule(rooms)
    BY DEF Schedule
  <2>2. schedules' \in SUBSET Schedule(rooms')
    BY <1>1, <1>4, <2>1 DEF IInv, TypeOK
  <2>3. TablesGrow
    BY <1>1, <1>4 DEF TablesGrow
  <2> QED
    BY <1>1, <1>2, <1>4, <2>2, <2>3, StillTyped DEF runs, IInv, TypeOK
<1>5. ASSUME NEW x \in rooms, NEW k \in Available(x),
             bookings' = bookings \cup
                 {[user |-> "another", room |-> x, slot |-> k, active |-> TRUE]},
             UNCHANGED <<users, schedules>>
      PROVE  TypeOK' /\ TablesGrow
  <2>1. [user |-> "another", room |-> x, slot |-> k, active |-> TRUE] \in Booking(rooms)
    BY DEF Booking, Available
  <2>2. bookings' \in SUBSET Booking(rooms')
    BY <1>1, <1>5, <2>1 DEF IInv, TypeOK
  <2>3. TablesGrow
    BY <1>1, <1>5 DEF TablesGrow
  <2> QED
    BY <1>1, <1>2, <1>5, <2>2, <2>3, StillTyped DEF runs, IInv, TypeOK
<1>6. ASSUME NEW b \in bookings,
             bookings' = (bookings \ {b}) \cup {[b EXCEPT !.active = FALSE]},
             UNCHANGED <<users, schedules>>
      PROVE  TypeOK' /\ TablesGrow
  <2>1. b \in Booking(rooms)
    BY DEF IInv, TypeOK
  <2>2. [b EXCEPT !.active = FALSE] \in Booking(rooms) /\ [b EXCEPT !.active = FALSE].user = b.user
    BY <2>1 DEF Booking
  <2>3. bookings' \in SUBSET Booking(rooms')
    BY <1>1, <1>6, <2>2 DEF IInv, TypeOK
  <2>4. \A c \in bookings : \E d \in bookings' : d.user = c.user
    BY <1>6, <2>2
  <2>5. TablesGrow
    BY <1>1, <1>6, <2>4 DEF TablesGrow
  <2> QED
    BY <1>1, <1>2, <1>6, <2>3, <2>5, StillTyped DEF runs, IInv, TypeOK
<1>7. TypeOK' /\ TablesGrow
  BY <1>3, <1>4, <1>5, <1>6 DEF Others, OtherRegisters, OtherSchedules, OtherBooks, OtherCancels
<1>8. \A a \in Admins : apc'[a] = "insertRoom" => admin'[a].name # ""
  BY <1>1 DEF IInv
<1> QED
  BY <1>1, <1>7, <1>8, OtherSteps DEF runs

LEMMA TickInv ==
    ASSUME IInv, Seeds \cap Admins = {}, Tick \/ UNCHANGED vars
    PROVE  IInv'
<1>1. UNCHANGED <<tables, pc, runs, admins>>
  BY DEF Tick, vars
<1>2. clock' \in Nat
  <2>1. clock \in Nat
    BY DEF IInv, TypeOK
  <2> QED
    BY <2>1 DEF Tick, vars
<1>3. TablesGrow
  BY <1>1, SameTables
<1>4. TypeOK'
  BY <1>1, <1>2, <1>3, StillTyped DEF tables, runs, admins, IInv, TypeOK
<1>5. \A a \in Admins : apc'[a] = "insertRoom" => admin'[a].name # ""
  BY <1>1 DEF IInv, admins
<1> QED
  BY <1>1, <1>3, <1>4, <1>5, OtherSteps DEF tables, runs

(* A step of a run, of an admin, of another client or of the clock. *)
LEMMA NextInv ==
    ASSUME SeedAssumption, IInv, [Next]_vars
    PROVE  IInv'
<1>1. ASSUME NEW s \in Seeds, InsertRoom(s)
      PROVE  IInv'
  <2>1. Names[index[s]] \in RoomNames
    BY NamesOfRooms DEF IInv, TypeOK
  <2> QED
    BY <1>1, <2>1, InsertRoomInv
<1>2. ASSUME NEW s \in Seeds, Begin(s) \/ Step(s) \/ Fail(s)
      PROVE  IInv'
  BY <1>1, <1>2, NamesOfRooms, BeginInv, FailInv, GetUserInv, RegisterInv, InsertUserInv,
     ListRoomsInv, CreateRoomInv, GetScheduleInv, CreateScheduleInv, ListMineInv,
     ListAvailableInv, CreateBookingInv DEF Step
<1>3. ASSUME NEW a \in Admins, AdminCreate(a) \/ AdminInsert(a)
      PROVE  IInv'
  BY <1>3, NamesOfRooms, AdminCreateInv, AdminInsertInv
<1>4. CASE Others \/ Tick \/ UNCHANGED vars
  BY <1>4, NamesOfRooms, OthersInv, TickInv
<1> QED
  BY <1>2, <1>3, <1>4 DEF Next

----------------------------------------------------------------------------
(* Wherever runs stop and whatever others write in between, a reachable    *)
(* state satisfies IInv.                                                   *)
THEOREM Invariance == Spec => []IInv
<1>1. Init => IInv
  BY InitInv, SeedAssumption
<1>2. IInv /\ [Next]_vars => IInv'
  BY NextInv, SeedAssumption
<1> QED
  BY <1>1, <1>2, PTL DEF Spec

(* A step of a run changes that run's label and no other's.                *)
LEMMA RunGoesOn ==
    ASSUME NEW s \in Seeds, Begin(s) \/ Step(s) \/ Fail(s)
    PROVE  \E l : pc' = [pc EXCEPT ![s] = l]
  BY DEF Begin, Step, Fail, GetUser, Register, InsertUser, ListRooms, CreateRoom, InsertRoom,
         GetSchedule, CreateSchedule, ListMine, ListAvailable, CreateBooking, Goto, Wrote,
         Proceed

(* A run that completes leaves nothing missing, whoever made which part.   *)
THEOREM CompleteRunsAreComplete == Spec => []DoneMeansSeeded
<1>1. IInv => DoneMeansSeeded
  BY DEF IInv, RunInv, Progress, DoneMeansSeeded
<1> QED
  BY <1>1, Invariance, PTL

(* A run completes with a booking of the first demo user in the table, or  *)
(* because a room of the seed's name had no slot left.                     *)
THEOREM CompleteRunsAreBooked == Spec => DoneMeansBooked
<1> DEFINE Booked == \A s \in Seeds :
        pc[s] # "done" /\ pc'[s] = "done" =>
            HasBooking' \/ \E x \in Named(1) : Available(x) = {}
<1>1. IInv /\ [Next]_vars => Booked
  <2> SUFFICES ASSUME IInv, [Next]_vars, NEW s \in Seeds, pc[s] # "done", pc'[s] = "done"
               PROVE  HasBooking' \/ \E x \in Named(1) : Available(x) = {}
    OBVIOUS
  <2>1. /\ room[s][1] \subseteq Named(1)
        /\ \A u \in user[s] : u.email = Emails[1]
    BY DEF IInv, RunInv, Progress, RightRooms, Index
  <2>2. PICK d \in Seeds : Begin(d) \/ Step(d) \/ Fail(d)
    BY DEF Next, AdminCreate, AdminInsert, Others, Tick, vars
  <2>3. d = s
    <3>1. \E l : pc' = [pc EXCEPT ![d] = l]
      BY <2>2, RunGoesOn
    <3> QED
      BY <3>1 DEF IInv, TypeOK
  <2>4. ~(Begin(s) \/ Fail(s) \/ GetUser(s) \/ Register(s) \/ InsertUser(s) \/ ListRooms(s)
            \/ CreateRoom(s) \/ InsertRoom(s) \/ GetSchedule(s) \/ CreateSchedule(s))
    BY DEF Begin, Fail, GetUser, Register, InsertUser, ListRooms, CreateRoom, InsertRoom,
           GetSchedule, CreateSchedule, Proceed, Wrote, Goto, IInv, TypeOK
  <2>5. CASE ListMine(s)
    <3>1. PICK u \in user[s] : \E b \in bookings : b.user = u.email
      BY <2>5 DEF ListMine, Goto, IInv, TypeOK
    <3>2. bookings' = bookings
      BY <2>5 DEF ListMine, tables
    <3> QED
      BY <2>1, <3>1, <3>2 DEF HasBooking
  <2>6. CASE ListAvailable(s)
    <3>1. \E x \in room[s][1] : Available(x) = {}
      BY <2>6 DEF ListAvailable, Goto, IInv, TypeOK
    <3> QED
      BY <2>1, <3>1
  <2>7. CASE CreateBooking(s)
    <3>1. PICK x \in room[s][1], u \in user[s], k \in slot[s] :
              bookings' = bookings \cup
                  {[user |-> u.email, room |-> x, slot |-> k, active |-> TRUE]}
      BY <2>7 DEF CreateBooking, Goto, IInv, TypeOK
    <3> DEFINE b == [user |-> u.email, room |-> x, slot |-> k, active |-> TRUE]
    <3>2. b \in bookings' /\ b.user = Emails[1]
      BY <2>1, <3>1
    <3> QED
      BY <3>2 DEF HasBooking
  <2> QED
    BY <2>2, <2>3, <2>4, <2>5, <2>6, <2>7 DEF Step
<1> QED
  BY <1>1, Invariance, PTL DEF Spec, DoneMeansBooked

(* A run creates no room of a name that was taken when it began.           *)
THEOREM NoNameTwice == Spec => []NoSecondRoom
<1>1. IInv => NoSecondRoom
  BY DEF IInv
<1> QED
  BY <1>1, Invariance, PTL

(* A run that repeats a complete one writes nothing.                       *)
THEOREM RepeatsWriteNothing == Spec => SeededStaysPut
<1> DEFINE Quiet == \A s \in Seeds :
        pc[s] # pc'[s] /\ repeats[s] /\ (\A i \in Index : Cardinality(Named(i)) = 1)
            => UNCHANGED tables
<1>1. IInv /\ [Next]_vars => Quiet
  <2> SUFFICES ASSUME IInv, [Next]_vars, NEW s \in Seeds, pc[s] # pc'[s], repeats[s],
                      \A i \in Index : Cardinality(Named(i)) = 1
               PROVE  UNCHANGED tables
    OBVIOUS
  <2>1. /\ pc[s] \notin {"register", "insertUser", "createRoom", "insertRoom",
                         "listAvailable", "createBooking"}
        /\ \A i \in Index : HasRoom(i)
    BY DEF IInv, RunInv, FindsEverything, EverythingThere
  <2>2. pc' # pc
    OBVIOUS
  <2>3. PICK d \in Seeds : Begin(d) \/ Step(d) \/ Fail(d)
    BY <2>2 DEF Next, AdminCreate, AdminInsert, Others, Tick, vars
  <2>4. d = s
    <3>1. \E l : pc' = [pc EXCEPT ![d] = l]
      BY <2>3, RunGoesOn
    <3> QED
      BY <3>1 DEF IInv, TypeOK
  <2>5. ~Register(s) /\ ~InsertUser(s) /\ ~CreateRoom(s) /\ ~InsertRoom(s)
        /\ ~ListAvailable(s) /\ ~CreateBooking(s)
    BY <2>1 DEF Register, InsertUser, CreateRoom, InsertRoom, ListAvailable, CreateBooking
  <2>6. CASE Begin(s) \/ Fail(s) \/ GetUser(s) \/ ListRooms(s) \/ GetSchedule(s) \/ ListMine(s)
    BY <2>6 DEF Begin, Fail, GetUser, ListRooms, GetSchedule, ListMine
  <2>7. CASE CreateSchedule(s)
    <3>1. index[s] \in Index /\ room[s][index[s]] \subseteq Named(index[s])
      BY <2>7 DEF CreateSchedule, IInv, TypeOK, RightRooms
    <3>2. PICK y \in Named(index[s]) : ScheduleOf(y) # {}
      BY <2>1, <3>1 DEF HasRoom
    <3>3. \E x : Named(index[s]) = {x}
      <4>1. IsFiniteSet(Named(index[s]))
        BY FS_Subset DEF IInv, TypeOK, Named
      <4> QED
        BY <3>1, <4>1, FS_Singleton
    <3>4. \A x \in room[s][index[s]] : ScheduleOf(x) # {}
      BY <3>1, <3>2, <3>3
    <3> QED
      BY <2>7, <3>4 DEF CreateSchedule, tables
  <2> QED
    BY <2>3, <2>4, <2>5, <2>6, <2>7 DEF Step
<1> QED
  BY <1>1, Invariance, PTL DEF Spec, SeededStaysPut
=============================================================================
