------------------------------ MODULE Seed ------------------------------
(***************************************************************************)
(* The seed command and table rooms.  A run of the seed makes sure that    *)
(* two users, two rooms with a schedule and a booking for tomorrow exist,  *)
(* one call of a service after the other and nothing around them; it may   *)
(* stop anywhere and is run again.  Meanwhile other runs and the clients   *)
(* of the server write the same tables.  A call of the schedule or the     *)
(* booking service is one step: Availability and Bookings have its inside. *)
(***************************************************************************)
EXTENDS Naturals, FiniteSets, FiniteSetsExt

CONSTANTS
    Seeds,          \* runs of cmd/seed
    Admins,         \* calls of POST /rooms/create
    AdminRequests,  \* what they may ask for
    RoomNames,      \* names of rooms, trimmed
    Fold,           \* of names strings.EqualFold takes for one, the same one
    Slots,          \* the slots of a room's tomorrow
    MaxTime,        \* bound: the last instant of the clock
    MaxOthers       \* bound: how many other writes clients of the server make

Names == <<"Atlas", "Orion">>       \* of defaultSeedRoomSpecs
Emails == <<"demo.user", "demo.user2">>
Index == {1, 2}

ASSUME SeedAssumption ==
    /\ Seeds \cap Admins = {}
    /\ Names[1] \in RoomNames /\ Names[2] \in RoomNames
    /\ Fold \in [RoomNames -> RoomNames]
    /\ \A r \in AdminRequests :
          /\ r.role \in {"admin", "user"} /\ r.capacity \in Int
          /\ r.name \in RoomNames \cup {""}
    /\ Slots \subseteq Nat /\ MaxTime \in Nat /\ MaxOthers \in Nat

VARIABLES
    clock,
    users,      \* table users: [email, role]
    rooms,      \* table rooms: [by, name, createdAt], by naming the row's maker
    schedules,  \* table schedules: [room, tomorrow]: do its days include tomorrow
    bookings,   \* table bookings, of tomorrow: [user, room, slot, active]
    pc, index,  \* each run's next step, and the user or room it is at
    user,       \* the first demo user, {} until known
    room,       \* the rooms found or created, by index
    readAt,     \* the createdAt of the room about to be inserted
    slot,       \* the first slot that was available
    before,     \* the names of rooms there were when the run began
    repeats,    \* was everything the seed makes there when the run began
    admin, apc, \* the requests of Admins, and where they are
    others      \* how many other writes there have been

tables == <<users, rooms, schedules, bookings>>
runs == <<index, user, room, readAt, slot, before, repeats>>
admins == <<admin, apc, others>>
vars == <<clock, tables, pc, runs, admins>>

Init ==
    /\ clock = 0 /\ users = {} /\ rooms = {} /\ schedules = {} /\ bookings = {}
    /\ pc = [s \in Seeds |-> "idle"] /\ index = [s \in Seeds |-> 1]
    /\ user = [s \in Seeds |-> {}] /\ room = [s \in Seeds |-> [i \in Index |-> {}]]
    /\ readAt = [c \in Seeds \cup Admins |-> 0] /\ slot = [s \in Seeds |-> {}]
    /\ before = [s \in Seeds |-> {}] /\ repeats = [s \in Seeds |-> FALSE]
    /\ admin \in [Admins -> AdminRequests] /\ apc = [a \in Admins |-> "received"]
    /\ others = 0

----------------------------------------------------------------------------
(* Variant: the name is compared letter by letter. *)
SameNameExactly(a, b) == a = b

EqualFold(a, b) == Fold[a] = Fold[b]

(* ORDER BY created_at, name, and the loop over the result: the first room *)
(* of the name.  Which of two rooms of one instant comes first is open.    *)
FirstRoomNamed(name) ==
    LET named == {x \in rooms : EqualFold(x.name, name)} IN
    {x \in named : \A y \in named : x.createdAt <= y.createdAt}

ScheduleOf(x) == {y \in schedules : y.room = x}

Available(x) ==
    {k \in Slots : /\ \E y \in ScheduleOf(x) : y.tomorrow
                   /\ ~\E b \in bookings : b.room = x /\ b.slot = k /\ b.active}

Named(i) == {x \in rooms : EqualFold(x.name, Names[i])}

HasUser(i) == \E u \in users : u.email = Emails[i]
HasRoom(i) == \E x \in Named(i) : ScheduleOf(x) # {}
HasBooking == \E b \in bookings : b.user = Emails[1]

EverythingThere == (\A i \in Index : HasUser(i) /\ HasRoom(i)) /\ HasBooking

Goto(s, label) == pc' = [pc EXCEPT ![s] = label]

(* A write that took effect may still be reported as failed. *)
Wrote(s, label) == \E l \in {label, "failed"} : Goto(s, l)

Keep == UNCHANGED <<clock, admins>>

(* From one user or room to the next. *)
Proceed(s, again, onwards) ==
    \/ index[s] = 1 /\ index' = [index EXCEPT ![s] = 2] /\ Goto(s, again)
    \/ index[s] = 2 /\ index' = [index EXCEPT ![s] = 1] /\ Goto(s, onwards)

(* Variant: the booking is to be of the user found last. *)
FoundLastUser(s, found) == user' = [user EXCEPT ![s] = found]

FoundUser(s, found) ==
    user' = IF index[s] = 1 THEN [user EXCEPT ![s] = found] ELSE user

----------------------------------------------------------------------------
Begin(s) ==
    /\ pc[s] = "idle"
    /\ before' = [before EXCEPT ![s] = {Fold[x.name] : x \in rooms}]
    /\ repeats' = [repeats EXCEPT ![s] = EverythingThere]
    /\ Goto(s, "getUser")
    /\ UNCHANGED <<tables, index, user, room, readAt, slot>> /\ Keep

(* ensureDemoUser: the repository first, then auth.Service.Register, which *)
(* looks the email up once more before it inserts.                         *)
GetUser(s) ==
    LET found == {u \in users : u.email = Emails[index[s]]} IN
    /\ pc[s] = "getUser"
    /\ \/ found = {} /\ Goto(s, "register") /\ UNCHANGED <<index, user>>
       \/ found # {} /\ FoundUser(s, found) /\ Proceed(s, "getUser", "listRooms")
    /\ UNCHANGED <<tables, room, readAt, slot, before, repeats>> /\ Keep

Register(s) ==
    /\ pc[s] = "register"
    /\ Goto(s, IF \E u \in users : u.email = Emails[index[s]] THEN "failed" ELSE "insertUser")
    /\ UNCHANGED <<tables, runs>> /\ Keep

(* users.email is UNIQUE. *)
InsertUser(s) ==
    LET new == [email |-> Emails[index[s]], role |-> "user"] IN
    /\ pc[s] = "insertUser"
    /\ \/ (\E u \in users : u.email = new.email) /\ Goto(s, "failed")
                                                /\ UNCHANGED <<users, index, user>>
       \/ /\ ~\E u \in users : u.email = new.email
          /\ users' = users \cup {new}
          /\ \/ FoundUser(s, {new}) /\ Proceed(s, "getUser", "listRooms")
             \/ Goto(s, "failed") /\ UNCHANGED <<index, user>>
    /\ UNCHANGED <<rooms, schedules, bookings, room, readAt, slot, before, repeats>>
    /\ Keep

ListRooms(s) ==
    LET found == FirstRoomNamed(Names[index[s]]) IN
    /\ pc[s] = "listRooms"
    /\ \/ found = {} /\ Goto(s, "createRoom") /\ UNCHANGED room
       \/ /\ \E x \in found : room' = [room EXCEPT ![s][index[s]] = {x}]
          /\ Goto(s, "getSchedule")
    /\ UNCHANGED <<tables, index, user, readAt, slot, before, repeats>> /\ Keep

(* NewRoom takes the time, and the row is inserted later. *)
CreateRoom(s) ==
    /\ pc[s] = "createRoom"
    /\ readAt' = [readAt EXCEPT ![s] = clock]
    /\ Goto(s, "insertRoom")
    /\ UNCHANGED <<tables, index, user, room, slot, before, repeats>> /\ Keep

InsertRoom(s) ==
    LET new == [by |-> s, name |-> Names[index[s]], createdAt |-> readAt[s]] IN
    /\ pc[s] = "insertRoom"
    /\ rooms' = rooms \cup {new}
    /\ room' = [room EXCEPT ![s][index[s]] = {new}]
    /\ Wrote(s, "getSchedule")
    /\ UNCHANGED <<users, schedules, bookings, index, user, readAt, slot, before, repeats>>
    /\ Keep

(* Variant: a room that was there before is taken to have its schedule. *)
GetScheduleOfNewRoom(s) ==
    /\ pc[s] = "getSchedule"
    /\ \/ /\ \E x \in room[s][index[s]] : ScheduleOf(x) = {} /\ x.by = s
          /\ Goto(s, "createSchedule") /\ UNCHANGED index
       \/ /\ \E x \in room[s][index[s]] : ScheduleOf(x) # {} \/ x.by # s
          /\ Proceed(s, "listRooms", "listMine")
    /\ UNCHANGED <<tables, user, room, readAt, slot, before, repeats>> /\ Keep

GetSchedule(s) ==
    /\ pc[s] = "getSchedule"
    /\ \/ /\ \E x \in room[s][index[s]] : ScheduleOf(x) = {}
          /\ Goto(s, "createSchedule") /\ UNCHANGED index
       \/ /\ \E x \in room[s][index[s]] : ScheduleOf(x) # {}
          /\ Proceed(s, "listRooms", "listMine")
    /\ UNCHANGED <<tables, user, room, readAt, slot, before, repeats>> /\ Keep

(* Atlas is open every day; whether Orion is tomorrow makes no difference. *)
CreateSchedule(s) ==
    /\ pc[s] = "createSchedule"
    /\ \E x \in room[s][index[s]] :
         \/ ScheduleOf(x) # {} /\ Goto(s, "failed") /\ UNCHANGED <<schedules, index>>
         \/ /\ ScheduleOf(x) = {}
            /\ schedules' = schedules \cup {[room |-> x, tomorrow |-> TRUE]}
            /\ \/ Proceed(s, "listRooms", "listMine")
               \/ Goto(s, "failed") /\ UNCHANGED index
    /\ UNCHANGED <<users, rooms, bookings, user, room, readAt, slot, before, repeats>>
    /\ Keep

----------------------------------------------------------------------------
(* ensureDemoBooking. *)

(* Variant: the demo user's bookings are not looked at. *)
ListMineNot(s) ==
    /\ pc[s] = "listMine"
    /\ Goto(s, IF \E u \in user[s] : u.role # "user" THEN "failed" ELSE "listAvailable")
    /\ UNCHANGED <<tables, runs>> /\ Keep

(* ListMine is for users only, and lists cancelled bookings too. *)
ListMine(s) ==
    /\ pc[s] = "listMine"
    /\ \E u \in user[s] :
         \/ u.role # "user" /\ Goto(s, "failed")
         \/ /\ u.role = "user" /\ \E b \in bookings : b.user = u.email
            /\ Goto(s, "done")
         \/ /\ u.role = "user" /\ ~\E b \in bookings : b.user = u.email
            /\ Goto(s, "listAvailable")
    /\ UNCHANGED <<tables, runs>> /\ Keep

ListAvailable(s) ==
    /\ pc[s] = "listAvailable"
    /\ \E x \in room[s][1] :
         \/ Available(x) = {} /\ Goto(s, "done") /\ UNCHANGED slot
         \/ /\ Available(x) # {}
            /\ slot' = [slot EXCEPT ![s] = {Min(Available(x))}]
            /\ Goto(s, "createBooking")
    /\ UNCHANGED <<tables, index, user, room, readAt, before, repeats>> /\ Keep

CreateBooking(s) ==
    /\ pc[s] = "createBooking"
    /\ \E x \in room[s][1], u \in user[s], k \in slot[s] :
         \/ k \notin Available(x) /\ Goto(s, "failed") /\ UNCHANGED bookings
         \/ /\ k \in Available(x)
            /\ bookings' = bookings \cup
                   {[user |-> u.email, room |-> x, slot |-> k, active |-> TRUE]}
            /\ Wrote(s, "done")
    /\ UNCHANGED <<users, rooms, schedules, index, user, room, readAt, slot, before, repeats>>
    /\ Keep

(* A call fails or the process is killed. *)
Fail(s) ==
    /\ pc[s] \notin {"idle", "done", "failed"}
    /\ Goto(s, "failed")
    /\ UNCHANGED <<tables, runs>> /\ Keep

----------------------------------------------------------------------------
(* rooms.Service.Create behind POST /rooms/create. *)
AdminCreate(a) ==
    LET r == admin[a]
        error == CASE r.role # "admin" -> "ErrForbidden"
                   [] r.role = "admin" /\ r.name = "" -> "ErrInvalidRoomName"
                   [] OTHER -> "ErrInvalidRoomCapacity"
    IN
    /\ apc[a] = "received"
    /\ \/ /\ r.role # "admin" \/ r.name = "" \/ r.capacity <= 0
          /\ apc' = [apc EXCEPT ![a] = error] /\ UNCHANGED readAt
       \/ /\ r.role = "admin" /\ r.name # "" /\ r.capacity > 0
          /\ apc' = [apc EXCEPT ![a] = "insertRoom"]
          /\ readAt' = [readAt EXCEPT ![a] = clock]
    /\ UNCHANGED <<clock, tables, pc, index, user, room, slot, before, repeats,
                   admin, others>>

AdminInsert(a) ==
    /\ apc[a] = "insertRoom"
    /\ \/ /\ rooms' = rooms \cup {[by |-> a, name |-> admin[a].name, createdAt |-> readAt[a]]}
          /\ \E x \in {"ok", "internal"} : apc' = [apc EXCEPT ![a] = x]
       \/ rooms' = rooms /\ apc' = [apc EXCEPT ![a] = "internal"]
    /\ UNCHANGED <<clock, users, schedules, bookings, pc, runs, admin, others>>

(* What else the server's clients do to these tables, each call of a       *)
(* service in one step: register one of the emails, with any role; give a  *)
(* room a schedule; book its tomorrow; cancel.                             *)
OtherRegisters ==
    \E i \in Index, role \in {"user", "admin"} :
        /\ \A u \in users : u.email # Emails[i]
        /\ users' = users \cup {[email |-> Emails[i], role |-> role]}
        /\ UNCHANGED <<rooms, schedules, bookings>>

OtherSchedules ==
    \E x \in rooms, t \in BOOLEAN :
        /\ ScheduleOf(x) = {}
        /\ schedules' = schedules \cup {[room |-> x, tomorrow |-> t]}
        /\ UNCHANGED <<users, rooms, bookings>>

OtherBooks ==
    \E x \in rooms : \E k \in Available(x) :
        /\ bookings' = bookings \cup
               {[user |-> "another", room |-> x, slot |-> k, active |-> TRUE]}
        /\ UNCHANGED <<users, rooms, schedules>>

OtherCancels ==
    \E b \in bookings :
        /\ b.active
        /\ bookings' = (bookings \ {b}) \cup {[b EXCEPT !.active = FALSE]}
        /\ UNCHANGED <<users, rooms, schedules>>

Others ==
    /\ others < MaxOthers /\ others' = others + 1
    /\ OtherRegisters \/ OtherSchedules \/ OtherBooks \/ OtherCancels
    /\ UNCHANGED <<clock, pc, runs, admin, apc>>

Tick ==
    /\ clock < MaxTime
    /\ clock' = clock + 1
    /\ UNCHANGED <<tables, pc, runs, admins>>

----------------------------------------------------------------------------
Step(s) ==
    \/ GetUser(s) \/ Register(s) \/ InsertUser(s)
    \/ ListRooms(s) \/ CreateRoom(s) \/ InsertRoom(s)
    \/ GetSchedule(s) \/ CreateSchedule(s)
    \/ ListMine(s) \/ ListAvailable(s) \/ CreateBooking(s)

Next ==
    \/ \E s \in Seeds : Begin(s) \/ Step(s) \/ Fail(s)
    \/ \E a \in Admins : AdminCreate(a) \/ AdminInsert(a)
    \/ Others
    \/ Tick

Spec == Init /\ [][Next]_vars

----------------------------------------------------------------------------
(* "seed complete" means that users and rooms are there, whoever made      *)
(* which part and wherever earlier runs stopped: both users, and both      *)
(* rooms with their schedule.                                              *)
DoneMeansSeeded ==
    \A s \in Seeds : pc[s] = "done" => \A i \in Index : HasUser(i) /\ HasRoom(i)

(* It also means that the first demo user has a booking, whoever made it,  *)
(* unless at the last step a room of the seed's name had no slot to offer: *)
(* the run must not have mixed up users or rooms on the way.               *)
DoneMeansBooked ==
    [][\A s \in Seeds :
         pc[s] # "done" /\ pc'[s] = "done" =>
             HasBooking' \/ \E x \in Named(1) : Available(x) = {}]_vars

(* A run that begins when everything is there writes nothing: after a      *)
(* complete run, or after one whose booking was stored and reported as     *)
(* failed, nothing is made twice.  Only if another run or an admin has     *)
(* made a second room of a name may it take the older one, which has no    *)
(* schedule yet, for its own.                                              *)
SeededStaysPut ==
    [][\A s \in Seeds :
         pc[s] # pc'[s] /\ repeats[s] /\ (\A i \in Index : Cardinality(Named(i)) = 1)
             => UNCHANGED tables]_vars

(* A run creates no room of a name, in any case, that was taken when it    *)
(* began, whoever took it; runs and admins that do not know of each other  *)
(* may, as rooms.name is not UNIQUE.                                       *)
NoSecondRoom ==
    \A x \in rooms : x.by \in Seeds => Fold[x.name] \notin before[x.by]

----------------------------------------------------------------------------
(* Why a run that got to a step needs not look back: the parts of an       *)
(* inductive invariant.                                                    *)

AtUsers == {"getUser", "register", "insertUser"}
AtRooms == {"listRooms", "createRoom", "insertRoom", "getSchedule", "createSchedule"}
AtBooking == {"listMine", "listAvailable", "createBooking"}
AdminPCs == {"received", "insertRoom", "ok", "internal", "ErrForbidden",
             "ErrInvalidRoomName", "ErrInvalidRoomCapacity"}
PCs == {"idle", "done", "failed"} \cup AtUsers \cup AtRooms \cup AtBooking

User == [email : {Emails[i] : i \in Index}, role : {"user", "admin"}]
Room == [by : Seeds \cup Admins, name : RoomNames, createdAt : Nat]
Schedule(someRooms) == [room : someRooms, tomorrow : BOOLEAN]
Booking(someRooms) ==
    [user : {Emails[1], "another"}, room : someRooms, slot : Slots, active : BOOLEAN]

TypeOK ==
    /\ clock \in Nat /\ others \in Nat
    /\ users \in SUBSET User
    /\ rooms \in SUBSET Room /\ IsFiniteSet(rooms)
    /\ schedules \in SUBSET Schedule(rooms) /\ bookings \in SUBSET Booking(rooms)
    /\ pc \in [Seeds -> PCs]
    /\ index \in [Seeds -> Index]
    /\ user \in [Seeds -> SUBSET users]
    /\ room \in [Seeds -> [Index -> SUBSET rooms]]
    /\ readAt \in [Seeds \cup Admins -> Nat]
    /\ slot \in [Seeds -> SUBSET Slots]
    /\ before \in [Seeds -> SUBSET {Fold[x.name] : x \in rooms}]
    /\ repeats \in [Seeds -> BOOLEAN]
    /\ admin \in [Admins -> AdminRequests]
    /\ apc \in [Admins -> AdminPCs]

(* What is there for good by the step a run has got to.                    *)
Progress(s) ==
    /\ pc[s] = "idle" => index[s] = 1
    /\ pc[s] \in AtUsers /\ index[s] = 2 => HasUser(1)
    /\ pc[s] \in AtRooms \cup AtBooking \cup {"done"} => \A i \in Index : HasUser(i)
    /\ pc[s] \in AtRooms /\ index[s] = 2 => HasRoom(1)
    /\ pc[s] \in AtBooking \cup {"done"} => \A i \in Index : HasRoom(i)
    /\ \A u \in user[s] : u.email = Emails[1]

(* The rooms a run has found or made bear the names it went by.            *)
RightRooms(s) == \A i \in Index : room[s][i] \subseteq Named(i)

(* A run creates a room only when its name was free as the run began.      *)
NameWasFree(s) ==
    /\ pc[s] = "idle" => \A x \in rooms : x.by # s
    /\ pc[s] \in {"createRoom", "insertRoom"} => Fold[Names[index[s]]] \notin before[s]

(* A run that begins when everything is there finds it and skips the steps *)
(* that write.                                                             *)
FindsEverything(s) ==
    repeats[s] =>
        /\ EverythingThere
        /\ pc[s] \notin {"register", "insertUser", "createRoom", "insertRoom",
                         "listAvailable", "createBooking"}

RunInv(s) == Progress(s) /\ NameWasFree(s) /\ FindsEverything(s)

IInv ==
    /\ TypeOK
    /\ \A s \in Seeds : RunInv(s) /\ RightRooms(s)
    /\ \A a \in Admins : apc[a] = "insertRoom" => admin[a].name # ""
    /\ NoSecondRoom
=============================================================================
