-------------------------- MODULE Availability --------------------------
(***************************************************************************)
(* Schedules and slots: admins give rooms a schedule, which creates the    *)
(* slots of the next days, and every listing of a day creates that day's   *)
(* slots if they are missing.  Both write the tables schedules and slots,  *)
(* each in its own Postgres transaction at READ COMMITTED, one statement a *)
(* step; a listing runs its other queries outside any transaction.         *)
(***************************************************************************)
EXTENDS Naturals

CONSTANTS
    Calls,      \* calls to /rooms/{id}/schedule/create and /rooms/{id}/slots/list
    Rooms,      \* the rows of table rooms
    NoRoom,     \* a room id no row of rooms has
    Times,      \* the half-hours of a day, in order
    WeekLength, \* days in a week
    InitialSlotGenerationDays, MaxSlotGenerationDaysAhead,
    Requests,   \* the requests clients may send
    Earlier,    \* the call that made the rows there were before
    Existing,   \* the schedules Earlier may have made, the day before FirstDay
    FirstDay,   \* the date on which the system is first observed
    LastDay     \* bound: the last date of the clock

(* Two schedules may differ in days and in their range of half-hours.  An  *)
(* empty days or times stands for one that NewSchedule turns down.         *)
ScheduleRequests == [op : {"schedule"}, role : {"user", "admin"}, room : Rooms \cup {NoRoom},
                     days : SUBSET (0 .. WeekLength - 1), times : SUBSET Times]
ListRequests == [op : {"list"}, role : {"user", "admin"}, room : Rooms \cup {NoRoom},
                 date : Nat]

(* Ids are random UUIDs: a row is named by the call that made it. *)
Makers == Calls \cup {Earlier}

Schedule == [by : Makers, room : Rooms, days : SUBSET (0 .. WeekLength - 1),
             times : SUBSET Times]
Slot == [by : Makers, room : Rooms, date : Nat, time : Times]

ASSUME ConstantsAssumption ==
    /\ NoRoom \notin Rooms /\ Earlier \notin Calls
    /\ Times \subseteq Nat
    /\ WeekLength \in Nat \ {0}
    /\ InitialSlotGenerationDays \in Nat
    /\ MaxSlotGenerationDaysAhead \in Nat
    /\ Existing \subseteq Schedule /\ \A x \in Existing : x.by = Earlier
    /\ InitialSlotGenerationDays <= MaxSlotGenerationDaysAhead + 1
    /\ \A r \in Requests : r \in ScheduleRequests \/ r \in ListRequests
    /\ FirstDay \in Nat \ {0} /\ LastDay \in Nat

Answers == {"none", "ok", "ErrForbidden", "ErrInvalidSchedule", "ErrDateTooFarAhead",
            "ErrRoomNotFound", "ErrScheduleExists", "duplicate key", "internal", "lost"}

PCs == {"received", "getSchedule", "insertSchedule", "hasAny", "readSchedule",
        "hasAnyInTx", "createMany", "commit", "list", "answered"}

VARIABLES
    today,          \* the clock's date
    schedules,      \* the committed rows of table schedules
    slots,          \* the committed rows of table slots
    taken,          \* the slots with an active booking: module Reservations moves it
    req, pc,        \* each call's request and next statement
    generated,      \* the slots the call has generated and not yet inserted
    newSchedule,    \* the schedule the call's open transaction has inserted, {} if none
    newSlots,       \* the slots the call's open transaction has inserted
    reply,          \* the slots a listing was answered with
    answer          \* what the handler returned to the client

vars == <<today, schedules, slots, taken, req, pc, generated, newSchedule, newSlots,
          reply, answer>>
tables == <<schedules, slots, taken>>
locals == <<generated, newSchedule, newSlots, reply, answer>>

TypeOK ==
    /\ today \in Nat
    /\ schedules \in SUBSET Schedule
    /\ slots \in SUBSET Slot
    /\ taken \in SUBSET slots
    /\ req \in [Calls -> Requests]
    /\ pc \in [Calls -> PCs]
    /\ generated \in [Calls -> SUBSET Slot]
    /\ newSchedule \in [Calls -> SUBSET Schedule]
    /\ newSlots \in [Calls -> SUBSET Slot]
    /\ reply \in [Calls -> SUBSET Slot]
    /\ answer \in [Calls -> Answers]

----------------------------------------------------------------------------
(* The domain's rules. *)

ScheduleIncludesDate(days, date) == date % WeekLength \in days

(* The slots of a schedule on the dates given, named by the call. *)
GenerateSlots(c, room, days, times, dates) ==
    {s \in [by : {c}, room : {room}, date : dates, time : times] :
        ScheduleIncludesDate(days, s.date)}

(* At first there is no schedule, or one whose first days exist. *)
Init ==
    /\ today = FirstDay
    /\ schedules \in {{}} \cup {{x} : x \in Existing}
    /\ slots = UNION {GenerateSlots(Earlier, x.room, x.days, x.times,
                         FirstDay - 1 .. FirstDay + InitialSlotGenerationDays - 2) :
                            x \in schedules}
    /\ taken = {}
    /\ req \in [Calls -> Requests]
    /\ pc = [c \in Calls |-> "received"]
    /\ generated = [c \in Calls |-> {}]
    /\ newSchedule = [c \in Calls |-> {}]
    /\ newSlots = [c \in Calls |-> {}]
    /\ reply = [c \in Calls |-> {}]
    /\ answer = [c \in Calls |-> "none"]

(* now is read before the transaction begins. *)
UpcomingSlots(c) ==
    GenerateSlots(c, req[c].room, req[c].days, req[c].times,
                  today .. today + InitialSlotGenerationDays - 1)

(* Variant: one day too many. *)
DateMuchTooFarAhead(date) == date > today + MaxSlotGenerationDaysAhead + 1

DateTooFarAhead(date) == date > today + MaxSlotGenerationDaysAhead

(* UNIQUE (room_id, start_at) *)
SameStart(s, t) == s.room = t.room /\ s.date = t.date /\ s.time = t.time

(* Variant: the slots are inserted in no particular order. *)
InAnyOrder(s, t) == TRUE

Before(s, t) == s.date < t.date \/ (s.date = t.date /\ s.time < t.time)

----------------------------------------------------------------------------
(* The queries, as Postgres runs them on the committed rows. *)

GetByRoomID(room) == {x \in schedules : x.room = room}

HasAnyByRoomAndDate(room, date) == \E s \in slots : s.room = room /\ s.date = date

ListAvailableByRoomAndDate(room, date) ==
    {s \in slots : s.room = room /\ s.date = date /\ s \notin taken}

(* Variant: schedules.room_id is not UNIQUE. *)
RoomIDConflictNever(room) == FALSE

(* schedules.room_id is UNIQUE. *)
RoomIDConflict(room) == GetByRoomID(room) # {}

(* INSERT INTO schedules waits for an uncommitted schedule of the room. *)
ScheduleLocked(c, room) ==
    \E d \in Calls \ {c} : \E x \in newSchedule[d] : x.room = room

(* ON CONFLICT DO NOTHING still waits for an uncommitted slot that starts  *)
(* at the same time.                                                       *)
SlotLocked(c, s) == \E d \in Calls \ {c} : \E t \in newSlots[d] : SameStart(s, t)

(* Variant: (room_id, start_at) is not UNIQUE. *)
SlotNeverExists(c, s) == FALSE

SlotExists(c, s) == \E t \in slots \cup newSlots[c] : SameStart(s, t)

Goto(c, label) == pc' = [pc EXCEPT ![c] = label]

(* The handler returns: its transaction, if one is open, is over. *)
Return(c, a) ==
    /\ Goto(c, "answered")
    /\ answer' = [answer EXCEPT ![c] = a]
    /\ generated' = [generated EXCEPT ![c] = {}]
    /\ newSchedule' = [newSchedule EXCEPT ![c] = {}]
    /\ newSlots' = [newSlots EXCEPT ![c] = {}]
    /\ UNCHANGED <<today, req>>

(* It returns an error: what its transaction wrote is rolled back. *)
Abort(c, a) == Return(c, a) /\ UNCHANGED <<tables, reply>>

Move(c, from, to) ==
    /\ pc[c] = from
    /\ Goto(c, to)
    /\ UNCHANGED <<today, tables, req, locals>>

----------------------------------------------------------------------------
(* schedules.Service.Create *)

(* Variant: the room is not looked up. *)
ScheduleStartAnyRoom(c) ==
    LET r == req[c] IN
    /\ pc[c] = "received" /\ r.op = "schedule"
    /\ r.role = "admin" /\ r.days # {} /\ r.times # {}
    /\ generated' = [generated EXCEPT ![c] = UpcomingSlots(c)]
    /\ Goto(c, "getSchedule")
    /\ UNCHANGED <<today, tables, req, newSchedule, newSlots, reply, answer>>

(* Up to and including the look-up of the room: table rooms never loses a  *)
(* row, so it makes no difference when it is read.                         *)
ScheduleStart(c) ==
    LET r == req[c]
        error == CASE r.role # "admin" -> "ErrForbidden"
                   [] r.role = "admin" /\ (r.days = {} \/ r.times = {}) -> "ErrInvalidSchedule"
                   [] OTHER -> "ErrRoomNotFound"
    IN
    /\ pc[c] = "received" /\ r.op = "schedule"
    /\ \/ /\ r.role # "admin" \/ r.days = {} \/ r.times = {} \/ r.room \notin Rooms
          /\ Abort(c, error)
       \/ /\ r.role = "admin" /\ r.days # {} /\ r.times # {} /\ r.room \in Rooms
          /\ generated' = [generated EXCEPT ![c] = UpcomingSlots(c)]
          /\ Goto(c, "getSchedule")
          /\ UNCHANGED <<today, tables, req, newSchedule, newSlots, reply, answer>>

GetSchedule(c) ==
    \/ /\ GetByRoomID(req[c].room) = {}
       /\ Move(c, "getSchedule", "insertSchedule")
    \/ /\ GetByRoomID(req[c].room) # {}
       /\ pc[c] = "getSchedule"
       /\ Abort(c, "ErrScheduleExists")

(* The repository does not tell a violation of UNIQUE (room_id) from any   *)
(* other error of the driver.                                              *)
InsertSchedule(c) ==
    LET r == req[c] IN
    /\ pc[c] = "insertSchedule"
    /\ ~ScheduleLocked(c, r.room)
    /\ \/ RoomIDConflict(r.room) /\ Abort(c, "duplicate key")
       \/ /\ ~RoomIDConflict(r.room)
          /\ newSchedule' = [newSchedule EXCEPT ![c] =
                 {[by |-> c, room |-> r.room, days |-> r.days, times |-> r.times]}]
          /\ Goto(c, IF generated[c] = {} THEN "commit" ELSE "createMany")
          /\ UNCHANGED <<today, tables, req, generated, newSlots, reply, answer>>

----------------------------------------------------------------------------
(* slots.Service.ListAvailable *)

ListStart(c) ==
    LET r == req[c] IN
    /\ pc[c] = "received" /\ r.op = "list"
    /\ \/ DateTooFarAhead(r.date) /\ Abort(c, "ErrDateTooFarAhead")
       \/ ~DateTooFarAhead(r.date) /\ r.room \notin Rooms /\ Abort(c, "ErrRoomNotFound")
       \/ ~DateTooFarAhead(r.date) /\ r.room \in Rooms /\ Move(c, "received", "hasAny")

HasAny(c) ==
    Move(c, "hasAny", IF HasAnyByRoomAndDate(req[c].room, req[c].date) THEN "list"
                                                                      ELSE "readSchedule")

(* ensureSlotsForDate generates the day from the schedule it reads here.   *)
ReadSchedule(c) ==
    LET r == req[c]
        fresh == UNION {GenerateSlots(c, r.room, x.days, x.times, {r.date}) :
                           x \in GetByRoomID(r.room)}
    IN
    /\ pc[c] = "readSchedule"
    /\ generated' = [generated EXCEPT ![c] = fresh]
    /\ Goto(c, IF fresh = {} THEN "list" ELSE "hasAnyInTx")
    /\ UNCHANGED <<today, tables, req, newSchedule, newSlots, reply, answer>>

HasAnyInTx(c) ==
    Move(c, "hasAnyInTx", IF HasAnyByRoomAndDate(req[c].room, req[c].date) THEN "commit"
                                                                          ELSE "createMany")

(* Variant: the listing answers with the slots it generated itself. *)
ListGenerated(c) ==
    /\ pc[c] = "list"
    /\ reply' = [reply EXCEPT ![c] =
           UNION {GenerateSlots(c, req[c].room, x.days, x.times, {req[c].date}) :
                     x \in GetByRoomID(req[c].room)}]
    /\ Return(c, "ok")
    /\ UNCHANGED tables

(* Variant: the SELECT does not see what the call itself has committed.    *)
ListOldSnapshot(c) ==
    /\ pc[c] = "list"
    /\ reply' = [reply EXCEPT ![c] =
           {s \in ListAvailableByRoomAndDate(req[c].room, req[c].date) : s.by # c}]
    /\ Return(c, "ok")
    /\ UNCHANGED tables

List(c) ==
    /\ pc[c] = "list"
    /\ reply' = [reply EXCEPT ![c] = ListAvailableByRoomAndDate(req[c].room, req[c].date)]
    /\ Return(c, "ok")
    /\ UNCHANGED tables

----------------------------------------------------------------------------
(* Variant: the INSERTs run on the pool, outside the transaction. *)
CreateOneOutsideTransaction(c) ==
    \E s \in generated[c] :
        /\ pc[c] = "createMany"
        /\ \A t \in generated[c] \ {s} : Before(s, t)
        /\ slots' = IF SlotExists(c, s) THEN slots ELSE slots \cup {s}
        /\ generated' = [generated EXCEPT ![c] = @ \ {s}]
        /\ Goto(c, IF generated[c] = {s} THEN "commit" ELSE "createMany")
        /\ UNCHANGED <<today, schedules, taken, req, newSchedule, newSlots, reply, answer>>

(* SlotRepository.CreateMany: one INSERT per slot, the earliest first. *)
CreateOne(c) ==
    \E s \in generated[c] :
        /\ pc[c] = "createMany"
        /\ \A t \in generated[c] \ {s} : Before(s, t)
        /\ ~SlotLocked(c, s)
        /\ newSlots' = [newSlots EXCEPT ![c] = IF SlotExists(c, s) THEN @ ELSE @ \cup {s}]
        /\ generated' = [generated EXCEPT ![c] = @ \ {s}]
        /\ Goto(c, IF generated[c] = {s} THEN "commit" ELSE "createMany")
        /\ UNCHANGED <<today, tables, req, newSchedule, reply, answer>>

(* What COMMIT makes visible, all at once. *)
Publish(c) ==
    /\ schedules' = schedules \cup newSchedule[c]
    /\ slots' = slots \cup newSlots[c]
    /\ UNCHANGED <<taken, reply>>

(* The end of WithinTransaction: Create returns, a listing goes on. *)
Commit(c) ==
    /\ pc[c] = "commit"
    /\ Publish(c)
    /\ \/ req[c].op = "schedule" /\ Return(c, "ok")
       \/ /\ req[c].op = "list"
          /\ Goto(c, "list")
          /\ generated' = [generated EXCEPT ![c] = {}]
          /\ newSlots' = [newSlots EXCEPT ![c] = {}]
          /\ UNCHANGED <<today, req, newSchedule, answer>>

(* The database commits, but its acknowledgement does not arrive in time,  *)
(* or not before the server stops.                                         *)
CommitUnacknowledged(c) ==
    /\ pc[c] = "commit"
    /\ Publish(c)
    /\ \E a \in {"internal", "lost"} : Return(c, a)

----------------------------------------------------------------------------
(* Failures and the clock. *)

InFlight(c) == pc[c] \notin {"received", "answered"}

(* A statement fails, or the router's timeout cancels the call's context. *)
Fail(c) == InFlight(c) /\ Abort(c, "internal")

(* The server stops and Postgres rolls the open transactions back. *)
Crash ==
    /\ \E c \in Calls : InFlight(c)
    /\ pc' = [c \in Calls |-> IF InFlight(c) THEN "answered" ELSE pc[c]]
    /\ answer' = [c \in Calls |-> IF InFlight(c) THEN "lost" ELSE answer[c]]
    /\ generated' = [c \in Calls |-> {}]
    /\ newSchedule' = [c \in Calls |-> {}]
    /\ newSlots' = [c \in Calls |-> {}]
    /\ UNCHANGED <<today, tables, req, reply>>

Midnight ==
    /\ today < LastDay
    /\ today' = today + 1
    /\ UNCHANGED <<tables, req, pc, locals>>

----------------------------------------------------------------------------
(* The steps of a handler that meets no failure. *)
Handle(c) ==
    \/ ScheduleStart(c) \/ GetSchedule(c) \/ InsertSchedule(c)
    \/ ListStart(c) \/ HasAny(c) \/ ReadSchedule(c) \/ HasAnyInTx(c) \/ List(c)
    \/ CreateOne(c) \/ Commit(c)

Next ==
    \/ \E c \in Calls : Handle(c) \/ CommitUnacknowledged(c) \/ Fail(c)
    \/ Crash
    \/ Midnight

(* A goroutine that can run does run; nothing obliges a call to fail, the  *)
(* server to stop or the date to change.                                   *)
Spec == Init /\ [][Next]_vars /\ \A c \in Calls : WF_vars(Handle(c))

----------------------------------------------------------------------------
SlotsOf(room, date) == {s \in slots : s.room = room /\ s.date = date}

(* All the half-hours of the room's schedule on a day that it includes. *)
WholeDay(room, date) ==
    \E x \in GetByRoomID(room) :
        /\ ScheduleIncludesDate(x.days, date)
        /\ {s.time : s \in SlotsOf(room, date)} = x.times

(* A day's slots are all there or none is, and they are those of the       *)
(* room's schedule, although two listings and a schedule creation may      *)
(* insert them row by row at the same time, fail half-way or restart.      *)
DayIsWholeOrEmpty == \A s \in slots : WholeDay(s.room, s.date)

(* A room never has two slots at the same time (TASK.md:27), whoever       *)
(* generates them (UNIQUE (room_id, start_at), ON CONFLICT DO NOTHING).    *)
SlotsDoNotCollide == \A s, t \in slots : SameStart(s, t) => s = t

(* Of the calls that race to give a room its schedule one wins, and the    *)
(* room keeps that schedule and no other (schedules.room_id UNIQUE).       *)
WinnerKeepsRoom ==
    \A c \in Calls :
        req[c].op = "schedule" /\ answer[c] = "ok" =>
            {x.by : x \in GetByRoomID(req[c].room)} = {c}

(* No listing generates slots beyond the horizon of its own day, however   *)
(* late it gets to insert them (MaxSlotGenerationDaysAhead).               *)
SlotsWithinHorizon ==
    \A s \in slots : s.date <= today + MaxSlotGenerationDaysAhead

(* What a listing answered with: stored slots of the day asked for, one    *)
(* for each half-hour of the room's schedule, which includes that day.     *)
ListsWholeDay(c) ==
    /\ reply[c] \subseteq SlotsOf(req[c].room, req[c].date)
    /\ \E x \in GetByRoomID(req[c].room) :
          /\ ScheduleIncludesDate(x.days, req[c].date)
          /\ {s.time : s \in reply[c]} = x.times

(* Once a room has a schedule, a listing that arrives afterwards and is    *)
(* answered is answered with the whole day, whether the creation, the      *)
(* listing itself or another listing generated it (ensureSlotsForDate      *)
(* leaves no window, and ListAvailable selects after it).  No slot of this *)
(* module is booked: a booked one is rightly missing from the answer.      *)
ScheduledDayIsListed ==
    \A c \in Calls :
        [](/\ pc[c] = "received" /\ req[c].op = "list"
           /\ \E x \in GetByRoomID(req[c].room) : ScheduleIncludesDate(x.days, req[c].date)
           => [](req[c].op = "list" /\ answer[c] = "ok" => ListsWholeDay(c)))

(* Every call is answered: transactions that insert the same slots wait    *)
(* for each other, but never in a circle, as all insert the earliest first. *)
EveryCallAnswered == \A c \in Calls : <>(pc[c] = "answered")

(* What api.yaml:488-496 promises of a room that already has a schedule:   *)
(* 409 SCHEDULE_EXISTS, never an error of the database.                    *)
SecondScheduleIsAConflict == \A c \in Calls : answer[c] # "duplicate key"

----------------------------------------------------------------------------
(* Why days stay whole and rooms keep one schedule: the parts of an        *)
(* inductive invariant.                                                    *)

(* What a call's next statement says of its request and its transaction.   *)
StageInv ==
    \A c \in Calls :
        /\ pc[c] # "answered" => answer[c] = "none"
        /\ pc[c] \notin {"received", "answered"} => req[c].room \in Rooms
        /\ pc[c] \in {"getSchedule", "insertSchedule"} => req[c].op = "schedule"
        /\ pc[c] \in {"hasAny", "readSchedule", "hasAnyInTx", "list"} => req[c].op = "list"
        /\ req[c].op = "list" =>
              /\ newSchedule[c] = {}
              /\ pc[c] \notin {"received", "answered"} =>
                    req[c].date <= today + MaxSlotGenerationDaysAhead
        /\ pc[c] \in {"received", "hasAny", "readSchedule", "list", "answered"} =>
              generated[c] = {}
        /\ pc[c] \notin {"createMany", "commit"} => newSchedule[c] = {} /\ newSlots[c] = {}
        /\ pc[c] = "commit" => generated[c] = {} \/ newSlots[c] = {}

ScheduleOf(c) ==
    [by |-> c, room |-> req[c].room, days |-> req[c].days, times |-> req[c].times]

(* A room has one schedule, and the schedule of an open transaction is for *)
(* a room that has none and that no other transaction gives one.           *)
ScheduleInv ==
    /\ \A x, y \in schedules : x.room = y.room => x = y
    /\ \A c \in Calls : \A x \in newSchedule[c] :
          x = ScheduleOf(c) /\ ~RoomIDConflict(x.room)
    /\ \A c \in Calls : req[c].op = "schedule" /\ pc[c] \in {"createMany", "commit"} =>
          newSchedule[c] # {}
    /\ \A c, d \in Calls : \A x \in newSchedule[c], y \in newSchedule[d] :
          x.room = y.room => c = d

(* An uncommitted slot starts when no committed and no other uncommitted   *)
(* slot does.                                                              *)
CollisionInv ==
    /\ \A c \in Calls : \A s \in newSlots[c] :
          \A t \in slots \cup newSlots[c] : SameStart(s, t) => s = t
    /\ \A c, d \in Calls : \A s \in newSlots[c], t \in newSlots[d] :
          SameStart(s, t) => c = d

(* The schedule that a call generates slots from. *)
PlansOf(c) ==
    IF req[c].op = "schedule" THEN {ScheduleOf(c)} ELSE GetByRoomID(req[c].room)

Covered(x, date, some) ==
    \A time \in x.times : \E s \in some : s.room = x.room /\ s.date = date /\ s.time = time

(* A call that has inserted a slot of a day will have inserted, or found,  *)
(* the rest of the day when it commits.                                    *)
Planned(c, s) ==
    /\ s.date <= today + MaxSlotGenerationDaysAhead
    /\ \E x \in PlansOf(c) :
          /\ s.room = x.room /\ ScheduleIncludesDate(x.days, s.date) /\ s.time \in x.times
          /\ Covered(x, s.date, slots \cup newSlots[c] \cup generated[c])

PlanInv == \A c \in Calls : \A s \in generated[c] \cup newSlots[c] : Planned(c, s)

IInv ==
    /\ TypeOK
    /\ StageInv
    /\ ScheduleInv
    /\ CollisionInv
    /\ PlanInv
    /\ SlotsDoNotCollide
    /\ WinnerKeepsRoom
    /\ SlotsWithinHorizon
    /\ DayIsWholeOrEmpty
    /\ \A c \in Calls : reply[c] \subseteq slots
=============================================================================
