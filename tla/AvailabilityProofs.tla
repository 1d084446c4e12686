----------------------- MODULE AvailabilityProofs -----------------------
(***************************************************************************)
(* Proofs about Availability, for any rooms, half-hours, schedules and     *)
(* horizons: the inductive invariant IInv, and from it that slots do not   *)
(* collide, that a day is whole or empty and that a room keeps the first   *)
(* schedule it is given.  At the end Reservations, for any bookers: the    *)
(* day's slots stay whole and apart while they are booked and cancelled,   *)
(* so that no half-hour of a room is promised twice.                       *)
(***************************************************************************)
EXTENDS Reservations, TLAPS

(* The operation decides which of the two kinds a request is. *)
LEMMA RequestKinds ==
    ASSUME ConstantsAssumption, TypeOK, NEW c \in Calls
    PROVE  /\ req[c].op = "schedule" => req[c] \in ScheduleRequests
           /\ req[c].op = "list" => req[c] \in ListRequests
           /\ req[c].op # "schedule" => req[c].op = "list"
  BY DEF ConstantsAssumption, TypeOK, ScheduleRequests, ListRequests

(* What GenerateSlots returns. *)
LEMMA GeneratedSlots ==
    ASSUME NEW c \in Makers, NEW room \in Rooms, NEW days, NEW times \in SUBSET Times,
           NEW dates \in SUBSET Nat
    PROVE  /\ GenerateSlots(c, room, days, times, dates) \subseteq Slot
           /\ \A s : s \in GenerateSlots(c, room, days, times, dates) <=>
                /\ s \in Slot /\ s.by = c /\ s.room = room
                /\ s.date \in dates /\ ScheduleIncludesDate(days, s.date) /\ s.time \in times
  BY DEF GenerateSlots, Slot

(* A slot stays planned while schedules grow and no time its call has      *)
(* generated, inserted or found is lost.                                   *)
LEMMA PlannedKept ==
    ASSUME ConstantsAssumption, TypeOK, TypeOK', NEW c \in Calls, NEW s \in Slot, Planned(c, s),
           UNCHANGED req, schedules \subseteq schedules', today <= today',
           \A t \in slots \cup newSlots[c] \cup generated[c] :
              \E u \in (slots \cup newSlots[c] \cup generated[c])' : SameStart(t, u)
    PROVE  Planned(c, s)'
<1>1. PICK x \in PlansOf(c) :
        /\ s.room = x.room /\ ScheduleIncludesDate(x.days, s.date) /\ s.time \in x.times
        /\ Covered(x, s.date, slots \cup newSlots[c] \cup generated[c])
  BY DEF Planned
<1>2. x \in PlansOf(c)'
  BY DEF PlansOf, ScheduleOf, GetByRoomID
<1>3. Covered(x, s.date, slots \cup newSlots[c] \cup generated[c])'
  BY <1>1 DEF Covered, SameStart
<1>4. (s.date <= today + MaxSlotGenerationDaysAhead)'
  BY DEF Planned, TypeOK, Slot, ConstantsAssumption
<1> QED
  BY <1>1, <1>2, <1>3, <1>4 DEF Planned, ScheduleIncludesDate

(* Another call's step leaves a call's slots planned. *)
LEMMA OthersPlanned ==
    ASSUME ConstantsAssumption, IInv, TypeOK', UNCHANGED req,
           schedules \subseteq schedules', slots \subseteq slots', today <= today',
           NEW d \in Calls, UNCHANGED <<generated[d], newSlots[d]>>
    PROVE  \A s \in generated[d] \cup newSlots[d] : Planned(d, s)'
<1>1. \A s \in generated[d] \cup newSlots[d] : s \in Slot /\ Planned(d, s)
  BY DEF IInv, PlanInv, TypeOK
<1>2. \A t \in slots \cup newSlots[d] \cup generated[d] :
         \E u \in (slots \cup newSlots[d] \cup generated[d])' : SameStart(t, u)
  BY DEF SameStart
<1> QED
  BY <1>1, <1>2, PlannedKept DEF IInv

(* The committed rows are what the properties of the tables are about. *)
LEMMA TablesUnchanged ==
    ASSUME UNCHANGED <<today, schedules, slots, req>>, IInv
    PROVE  SlotsDoNotCollide' /\ SlotsWithinHorizon' /\ DayIsWholeOrEmpty'
<1>1. SlotsDoNotCollide' /\ SlotsWithinHorizon'
  BY DEF IInv, SlotsDoNotCollide, SlotsWithinHorizon, SameStart
<1>2. DayIsWholeOrEmpty'
  BY DEF IInv, DayIsWholeOrEmpty, WholeDay, GetByRoomID, SlotsOf, ScheduleIncludesDate
<1> QED
  BY <1>1, <1>2

LEMMA WinnersUnchanged ==
    ASSUME UNCHANGED <<schedules, req>>, IInv,
           \A c \in Calls : answer'[c] = answer[c] \/ answer'[c] # "ok" \/ req[c].op = "list"
    PROVE  WinnerKeepsRoom'
  BY DEF IInv, WinnerKeepsRoom, GetByRoomID

----------------------------------------------------------------------------
(* A handler that returns an error forgets its call's transaction. *)
LEMMA AbortInv ==
    ASSUME ConstantsAssumption, IInv, NEW c \in Calls, NEW a \in Answers \ {"none", "ok"},
           Abort(c, a)
    PROVE  IInv'
<1> USE DEF Abort, Return, Goto, tables, IInv
<1>1. TypeOK'
  BY DEF TypeOK, PCs
<1>2. StageInv'
  BY DEF StageInv, TypeOK
<1>3. ScheduleInv'
  BY DEF ScheduleInv, TypeOK, ScheduleOf, RoomIDConflict, GetByRoomID
<1>4. CollisionInv'
  BY DEF CollisionInv, TypeOK, SameStart
<1>5. PlanInv'
  <2>1. ASSUME NEW d \in Calls, NEW s \in (generated[d] \cup newSlots[d])'
        PROVE  Planned(d, s)'
    <3>1. d # c /\ generated'[d] = generated[d] /\ newSlots'[d] = newSlots[d]
      BY <2>1 DEF TypeOK
    <3> QED
      BY <1>1, <2>1, <3>1, OthersPlanned DEF TypeOK
  <2> QED
    BY <2>1 DEF PlanInv
<1>6. SlotsDoNotCollide' /\ SlotsWithinHorizon' /\ WinnerKeepsRoom' /\ DayIsWholeOrEmpty'
  BY TablesUnchanged, WinnersUnchanged DEF TypeOK
<1>7. \A d \in Calls : reply'[d] \subseteq slots'
  BY DEF TypeOK
<1> QED
  BY <1>1, <1>2, <1>3, <1>4, <1>5, <1>6, <1>7

(* A statement that only reads moves its own call on. *)
LEMMA MoveInv ==
    ASSUME ConstantsAssumption, IInv, NEW c \in Calls, NEW from, NEW to \in PCs,
           Move(c, from, to),
           pc[c] # "answered", to \notin {"received", "answered"},
           req[c].room \in Rooms,
           to \in {"getSchedule", "insertSchedule"} => req[c].op = "schedule",
           to \in {"hasAny", "readSchedule", "hasAnyInTx", "list", "createMany", "commit"} =>
              req[c].op = "list",
           from = "received" /\ req[c].op = "list" =>
              req[c].date <= today + MaxSlotGenerationDaysAhead,
           to \in {"hasAny", "readSchedule", "list"} => generated[c] = {},
           from \notin {"createMany", "commit"}
    PROVE  IInv'
<1> USE DEF Move, Goto, tables, locals, IInv
<1>1. TypeOK'
  BY DEF TypeOK
<1>2. StageInv'
  BY DEF StageInv, TypeOK
<1>3. ScheduleInv'
  BY DEF ScheduleInv, TypeOK, ScheduleOf, RoomIDConflict, GetByRoomID
<1>4. CollisionInv'
  BY DEF CollisionInv, TypeOK, SameStart
<1>5. PlanInv'
  BY <1>1, OthersPlanned DEF PlanInv, TypeOK
<1>6. SlotsDoNotCollide' /\ SlotsWithinHorizon' /\ WinnerKeepsRoom' /\ DayIsWholeOrEmpty'
  BY TablesUnchanged, WinnersUnchanged
<1>7. \A d \in Calls : reply'[d] \subseteq slots'
  OBVIOUS
<1> QED
  BY <1>1, <1>2, <1>3, <1>4, <1>5, <1>6, <1>7

(* Slots are generated a whole day at a time, from one schedule. *)
LEMMA GeneratedIsPlanned ==
    ASSUME ConstantsAssumption, TypeOK, NEW c \in Calls, NEW x \in Schedule,
           NEW dates \in SUBSET Nat,
           \A date \in dates : date <= today + MaxSlotGenerationDaysAhead,
           NEW gen, GenerateSlots(c, x.room, x.days, x.times, dates) \subseteq gen,
           x \in PlansOf(c)', generated' = [generated EXCEPT ![c] = gen], UNCHANGED today
    PROVE  \A s \in GenerateSlots(c, x.room, x.days, x.times, dates) :
              s \in Slot /\ Planned(c, s)'
<1>1. c \in Makers /\ x.room \in Rooms /\ x.times \in SUBSET Times
  BY DEF Makers, Schedule
<1> SUFFICES ASSUME NEW s \in GenerateSlots(c, x.room, x.days, x.times, dates)
             PROVE  s \in Slot /\ Planned(c, s)'
  OBVIOUS
<1>2. /\ s \in Slot /\ s.room = x.room /\ s.date \in dates
      /\ ScheduleIncludesDate(x.days, s.date) /\ s.time \in x.times
  BY <1>1, GeneratedSlots
<1>3. ASSUME NEW time \in x.times
      PROVE  \E t \in gen : t.room = x.room /\ t.date = s.date /\ t.time = time
  <2> DEFINE t == [by |-> c, room |-> x.room, date |-> s.date, time |-> time]
  <2>1. t \in Slot
    BY <1>1, <1>2 DEF Slot
  <2>2. t \in GenerateSlots(c, x.room, x.days, x.times, dates)
    BY <1>1, <1>2, <2>1, GeneratedSlots
  <2> QED
    BY <2>2
<1>4. Covered(x, s.date, slots \cup newSlots[c] \cup generated[c])'
  BY <1>3 DEF Covered, TypeOK
<1> QED
  BY <1>2, <1>4 DEF Planned, ScheduleIncludesDate

(* A call generates slots before it inserts any. *)
LEMMA GenerateInv ==
    ASSUME ConstantsAssumption, IInv, NEW c \in Calls, NEW gen \in SUBSET Slot,
           NEW to \in {"getSchedule", "list", "hasAnyInTx"},
           pc[c] \in {"received", "readSchedule"}, req[c].room \in Rooms,
           to = "getSchedule" => req[c].op = "schedule",
           to # "getSchedule" => req[c].op = "list" /\ pc[c] # "received",
           to = "list" => gen = {},
           generated' = [generated EXCEPT ![c] = gen],
           \A s \in gen : Planned(c, s)',
           Goto(c, to),
           UNCHANGED <<today, tables, req, newSchedule, newSlots, reply, answer>>
    PROVE  IInv'
<1> USE DEF Goto, tables, IInv
<1>1. TypeOK'
  BY DEF TypeOK, PCs
<1>2. StageInv'
  BY DEF StageInv, TypeOK
<1>3. ScheduleInv'
  BY DEF ScheduleInv, TypeOK, ScheduleOf, RoomIDConflict, GetByRoomID
<1>4. CollisionInv'
  BY DEF CollisionInv, TypeOK, SameStart
<1>5. PlanInv'
  <2>1. ASSUME NEW d \in Calls, d # c, NEW s \in generated[d] \cup newSlots[d]
        PROVE  Planned(d, s)'
    BY <1>1, <2>1, OthersPlanned DEF TypeOK
  <2>2. newSlots'[c] = {} /\ generated'[c] = gen
    BY DEF StageInv, TypeOK
  <2>3. \A d \in Calls \ {c} : generated'[d] = generated[d]
    BY DEF TypeOK
  <2> QED
    BY <2>1, <2>2, <2>3 DEF PlanInv
<1>6. SlotsDoNotCollide' /\ SlotsWithinHorizon' /\ WinnerKeepsRoom' /\ DayIsWholeOrEmpty'
  BY TablesUnchanged, WinnersUnchanged
<1>7. \A d \in Calls : reply'[d] \subseteq slots'
  OBVIOUS
<1> QED
  BY <1>1, <1>2, <1>3, <1>4, <1>5, <1>6, <1>7

LEMMA ScheduleStartInv ==
    ASSUME ConstantsAssumption, IInv, NEW c \in Calls, ScheduleStart(c)
    PROVE  IInv'
<1> DEFINE r == req[c]
<1>1. CASE r.role # "admin" \/ r.days = {} \/ r.times = {} \/ r.room \notin Rooms
  <2>1. \E a \in {"ErrForbidden", "ErrInvalidSchedule", "ErrRoomNotFound"} : Abort(c, a)
    BY <1>1 DEF ScheduleStart
  <2> QED
    BY <2>1, AbortInv DEF Answers
<1>2. CASE r.role = "admin" /\ r.days # {} /\ r.times # {} /\ r.room \in Rooms
  <2>1. /\ pc[c] = "received" /\ r.op = "schedule"
        /\ generated' = [generated EXCEPT ![c] = UpcomingSlots(c)]
        /\ Goto(c, "getSchedule")
        /\ UNCHANGED <<today, tables, req, newSchedule, newSlots, reply, answer>>
    BY <1>2 DEF ScheduleStart
  <2> DEFINE x == ScheduleOf(c)
             dates == today .. today + InitialSlotGenerationDays - 1
  <2>2. x \in Schedule /\ x \in PlansOf(c)'
    BY <1>2, <2>1, RequestKinds DEF ScheduleOf, Schedule, PlansOf, IInv, ScheduleRequests, Makers
  <2>3. /\ dates \in SUBSET Nat
        /\ \A date \in dates : date <= today + MaxSlotGenerationDaysAhead
    BY DEF ConstantsAssumption, IInv, TypeOK
  <2>4. UpcomingSlots(c) = GenerateSlots(c, x.room, x.days, x.times, dates)
    BY DEF UpcomingSlots, ScheduleOf
  <2>5. \A s \in UpcomingSlots(c) : s \in Slot /\ Planned(c, s)'
    <3> HIDE DEF x, dates
    <3> QED
      BY <2>1, <2>2, <2>3, <2>4, GeneratedIsPlanned DEF IInv
  <2> QED
    BY <1>2, <2>1, <2>5, GenerateInv
<1> QED
  BY <1>1, <1>2 DEF ScheduleStart

LEMMA ReadScheduleInv ==
    ASSUME ConstantsAssumption, IInv, NEW c \in Calls, ReadSchedule(c)
    PROVE  IInv'
<1> DEFINE r == req[c]
           fresh == UNION {GenerateSlots(c, r.room, x.days, x.times, {r.date}) :
                             x \in GetByRoomID(r.room)}
<1>1. /\ pc[c] = "readSchedule"
      /\ generated' = [generated EXCEPT ![c] = fresh]
      /\ Goto(c, IF fresh = {} THEN "list" ELSE "hasAnyInTx")
      /\ UNCHANGED <<today, tables, req, newSchedule, newSlots, reply, answer>>
  BY DEF ReadSchedule
<1>2. /\ r.op = "list" /\ r.room \in Rooms /\ r.date \in Nat
      /\ r.date <= today + MaxSlotGenerationDaysAhead
  BY <1>1, RequestKinds DEF IInv, StageInv, ListRequests
<1>3. ASSUME NEW x \in GetByRoomID(r.room),
             NEW s \in GenerateSlots(c, r.room, x.days, x.times, {r.date})
      PROVE  s \in Slot /\ Planned(c, s)'
  <2>1. x \in Schedule /\ x.room = r.room
    BY DEF GetByRoomID, IInv, TypeOK
  <2>2. x \in PlansOf(c)'
    BY <1>1, <1>2 DEF PlansOf, GetByRoomID, tables
  <2>3. GenerateSlots(c, x.room, x.days, x.times, {r.date}) \subseteq fresh
    BY <2>1
  <2> HIDE DEF fresh
  <2> QED
    BY <1>1, <1>2, <2>1, <2>2, <2>3, GeneratedIsPlanned DEF IInv
<1>4. fresh \in SUBSET Slot /\ \A s \in fresh : Planned(c, s)'
  BY <1>3
<1> HIDE DEF fresh
<1> QED
  BY <1>1, <1>2, <1>4, GenerateInv

(* The INSERT of a schedule enters the unique index on room_id: nobody     *)
(* else is in it for the room.                                             *)
LEMMA InsertScheduleInv ==
    ASSUME ConstantsAssumption, IInv, NEW c \in Calls, InsertSchedule(c)
    PROVE  IInv'
<1> USE DEF Goto, tables, IInv
<1>0. CASE RoomIDConflict(req[c].room) /\ Abort(c, "duplicate key")
  BY <1>0, AbortInv DEF Answers
<1>1. SUFFICES ASSUME
        ~RoomIDConflict(req[c].room),
        newSchedule' = [newSchedule EXCEPT ![c] = {ScheduleOf(c)}],
        Goto(c, IF generated[c] = {} THEN "commit" ELSE "createMany"),
        UNCHANGED <<today, tables, req, generated, newSlots, reply, answer>>
      PROVE IInv'
  BY <1>0 DEF InsertSchedule, ScheduleOf
<1>2. /\ pc[c] = "insertSchedule" /\ ~ScheduleLocked(c, req[c].room)
      /\ req[c].op = "schedule" /\ req[c].room \in Rooms /\ newSlots[c] = {}
  BY DEF InsertSchedule, StageInv
<1>3. TypeOK'
  <2>1. ScheduleOf(c) \in Schedule
    BY <1>2, RequestKinds DEF ScheduleOf, Schedule, ScheduleRequests, Makers
  <2> QED
    BY <1>1, <2>1 DEF TypeOK, PCs
<1>4. StageInv'
  BY <1>1, <1>2 DEF StageInv, TypeOK
<1>5. ScheduleInv'
  <2>1. ScheduleOf(c).room = req[c].room
    BY DEF ScheduleOf
  <2>2. \A d \in Calls \ {c} : \A y \in newSchedule[d] : y.room # req[c].room
    BY <1>2 DEF ScheduleLocked
  <2>3. newSchedule'[c] = {ScheduleOf(c)} /\ \A d \in Calls \ {c} : newSchedule'[d] = newSchedule[d]
    BY <1>1 DEF TypeOK
  <2>4. \A d \in Calls : ScheduleOf(d)' = ScheduleOf(d)
    BY <1>1 DEF ScheduleOf
  <2>5. \A d \in Calls : \A x \in newSchedule'[d] :
           x = ScheduleOf(d)' /\ ~RoomIDConflict(x.room)'
    BY <1>1, <2>1, <2>3, <2>4 DEF ScheduleInv, RoomIDConflict, GetByRoomID
  <2>6. \A d, e \in Calls : \A x \in newSchedule'[d], y \in newSchedule'[e] :
           x.room = y.room => d = e
    BY <2>1, <2>2, <2>3 DEF ScheduleInv
  <2>7. \A d \in Calls : req'[d].op = "schedule" /\ pc'[d] \in {"createMany", "commit"} =>
           newSchedule'[d] # {}
    BY <1>1, <2>3 DEF ScheduleInv, TypeOK
  <2>8. \A x, y \in schedules' : x.room = y.room => x = y
    BY <1>1 DEF ScheduleInv
  <2> QED
    BY <2>5, <2>6, <2>7, <2>8 DEF ScheduleInv
<1>6. CollisionInv'
  BY <1>1 DEF CollisionInv, TypeOK, SameStart
<1>7. PlanInv'
  BY <1>1, <1>3, OthersPlanned DEF PlanInv, TypeOK
<1>8. SlotsDoNotCollide' /\ SlotsWithinHorizon' /\ WinnerKeepsRoom' /\ DayIsWholeOrEmpty'
  BY <1>1, TablesUnchanged, WinnersUnchanged
<1>9. \A d \in Calls : reply'[d] \subseteq slots'
  BY <1>1
<1> QED
  BY <1>3, <1>4, <1>5, <1>6, <1>7, <1>8, <1>9

(* An INSERT of a slot whose start is taken already does nothing; one      *)
(* whose start nobody has, committed or not, keeps all starts apart.       *)
LEMMA CreateOneInv ==
    ASSUME ConstantsAssumption, IInv, NEW c \in Calls, CreateOne(c)
    PROVE  IInv'
<1> USE DEF Goto, tables, IInv
<1>0. PICK s \in generated[c] :
        /\ pc[c] = "createMany"
        /\ ~SlotLocked(c, s)
        /\ newSlots' = [newSlots EXCEPT ![c] = IF SlotExists(c, s) THEN @ ELSE @ \cup {s}]
        /\ generated' = [generated EXCEPT ![c] = @ \ {s}]
        /\ Goto(c, IF generated[c] = {s} THEN "commit" ELSE "createMany")
        /\ UNCHANGED <<today, tables, req, newSchedule, reply, answer>>
  BY DEF CreateOne
<1>1. /\ \A d \in Calls \ {c} : newSlots'[d] = newSlots[d] /\ generated'[d] = generated[d]
      /\ generated'[c] = generated[c] \ {s}
      /\ \/ SlotExists(c, s) /\ newSlots'[c] = newSlots[c]
         \/ ~SlotExists(c, s) /\ newSlots'[c] = newSlots[c] \cup {s}
  BY <1>0 DEF TypeOK
<1>2. TypeOK'
  BY <1>0 DEF TypeOK, PCs
<1>3. StageInv'
  BY <1>0 DEF StageInv, TypeOK
<1>4. ScheduleInv'
  BY <1>0 DEF ScheduleInv, TypeOK, ScheduleOf, RoomIDConflict, GetByRoomID
<1>5. CollisionInv'
  <2>1. CASE SlotExists(c, s)
    BY <1>0, <1>1, <2>1 DEF CollisionInv, SameStart
  <2>2. CASE ~SlotExists(c, s)
    <3>1. /\ \A t \in slots \cup newSlots[c] : ~SameStart(s, t) /\ ~SameStart(t, s)
          /\ \A d \in Calls \ {c} : \A t \in newSlots[d] : ~SameStart(s, t) /\ ~SameStart(t, s)
      BY <1>0, <2>2 DEF SlotExists, SlotLocked, SameStart
    <3> QED
      BY <1>0, <1>1, <2>2, <3>1 DEF CollisionInv, SameStart
  <2> QED
    BY <2>1, <2>2
<1>6. PlanInv'
  <2>1. \A t \in slots \cup newSlots[c] \cup generated[c] :
          \E u \in (slots \cup newSlots[c] \cup generated[c])' : SameStart(t, u)
    BY <1>0, <1>1 DEF SlotExists, SameStart
  <2>2. \A t \in generated[c] \cup newSlots[c] : t \in Slot /\ Planned(c, t)
    BY DEF PlanInv, TypeOK
  <2>3. \A t \in generated[c] \cup newSlots[c] : Planned(c, t)'
    BY <1>0, <1>2, <2>1, <2>2, PlannedKept DEF TypeOK
  <2>4. \A d \in Calls \ {c} : \A t \in generated[d] \cup newSlots[d] : Planned(d, t)'
    BY <1>0, <1>1, <1>2, OthersPlanned DEF TypeOK
  <2> QED
    BY <1>1, <2>3, <2>4 DEF PlanInv
<1>7. SlotsDoNotCollide' /\ SlotsWithinHorizon' /\ WinnerKeepsRoom' /\ DayIsWholeOrEmpty'
  BY <1>0, TablesUnchanged, WinnersUnchanged
<1>8. \A d \in Calls : reply'[d] \subseteq slots'
  BY <1>0
<1> QED
  BY <1>2, <1>3, <1>4, <1>5, <1>6, <1>7, <1>8

(* A day that a commit touches is whole afterwards. *)
LEMMA PublishedDay ==
    ASSUME ConstantsAssumption, IInv, NEW c \in Calls, pc[c] = "commit",
           schedules' = schedules \cup newSchedule[c], slots' = slots \cup newSlots[c],
           UNCHANGED req,
           \A x, y \in schedules' : x.room = y.room => x = y,
           NEW w \in newSlots[c]
    PROVE  WholeDay(w.room, w.date)'
<1> USE DEF IInv
<1>1. generated[c] = {}
  BY DEF StageInv
<1>2. PlansOf(c) \subseteq schedules'
  BY RequestKinds DEF PlansOf, GetByRoomID, ScheduleInv
<1>3. PICK x \in PlansOf(c) :
        /\ w.room = x.room /\ ScheduleIncludesDate(x.days, w.date)
        /\ Covered(x, w.date, slots \cup newSlots[c])
  BY <1>1 DEF PlanInv, Planned
<1>4. x \in GetByRoomID(w.room)'
  BY <1>2, <1>3 DEF GetByRoomID
<1>5. ASSUME NEW t \in slots', t.room = w.room, t.date = w.date
      PROVE  t.time \in x.times
  <2>1. CASE t \in newSlots[c]
    <3>1. PICK y \in PlansOf(c) : t.room = y.room /\ t.time \in y.times
      BY <2>1 DEF PlanInv, Planned
    <3> QED
      BY <1>2, <1>3, <1>5, <3>1
  <2>2. CASE t \in slots
    <3>1. PICK y \in schedules :
            y.room = t.room /\ {u.time : u \in SlotsOf(t.room, t.date)} = y.times
      BY <2>2 DEF DayIsWholeOrEmpty, WholeDay, GetByRoomID
    <3>2. y = x
      BY <1>2, <1>3, <1>5, <3>1
    <3> QED
      BY <2>2, <3>1, <3>2 DEF SlotsOf
  <2> QED
    BY <2>1, <2>2
<1>6. ASSUME NEW time \in x.times
      PROVE  \E t \in slots' : t.room = w.room /\ t.date = w.date /\ t.time = time
  BY <1>3 DEF Covered
<1>7. {t.time : t \in SlotsOf(w.room, w.date)'} = x.times
  BY <1>5, <1>6 DEF SlotsOf
<1> QED
  BY <1>3, <1>4, <1>7 DEF WholeDay, ScheduleIncludesDate, SlotsOf

(* A commit publishes one transaction, and ends it. *)
LEMMA PublishInv ==
    ASSUME ConstantsAssumption, IInv, NEW c \in Calls,
           NEW label \in {"list", "answered"}, NEW a \in Answers,
           pc[c] = "commit", Publish(c), Goto(c, label),
           answer' = [answer EXCEPT ![c] = a],
           generated' = [generated EXCEPT ![c] = {}],
           newSchedule' = [newSchedule EXCEPT ![c] = {}],
           newSlots' = [newSlots EXCEPT ![c] = {}],
           label = "list" => req[c].op = "list" /\ a = "none",
           UNCHANGED <<today, req>>
    PROVE  IInv'
<1> USE DEF Publish, Goto, IInv
<1>0. /\ \A d \in Calls \ {c} : /\ newSlots'[d] = newSlots[d] /\ generated'[d] = generated[d]
                                /\ newSchedule'[d] = newSchedule[d]
      /\ newSlots'[c] = {} /\ generated'[c] = {} /\ newSchedule'[c] = {}
  BY DEF TypeOK
<1>1. TypeOK'
  BY DEF TypeOK, PCs
<1>2. StageInv'
  BY DEF StageInv, TypeOK
<1>3. ScheduleInv'
  <2>1. \A d \in Calls : ScheduleOf(d)' = ScheduleOf(d)
    BY DEF ScheduleOf
  <2>2. \A x, y \in schedules' : x.room = y.room => x = y
    BY DEF ScheduleInv, RoomIDConflict, GetByRoomID
  <2>3. \A d \in Calls \ {c} : \A x \in newSchedule[d] :
          x = ScheduleOf(d) /\ \A y \in schedules' : y.room # x.room
    BY DEF ScheduleInv, RoomIDConflict, GetByRoomID
  <2>4. \A d \in Calls : \A x \in newSchedule'[d] :
          x = ScheduleOf(d)' /\ ~RoomIDConflict(x.room)'
    BY <1>0, <2>1, <2>3 DEF RoomIDConflict, GetByRoomID
  <2>5. \A d, e \in Calls : \A x \in newSchedule'[d], y \in newSchedule'[e] :
          x.room = y.room => d = e
    BY <1>0 DEF ScheduleInv
  <2>6. \A d \in Calls : req'[d].op = "schedule" /\ pc'[d] \in {"createMany", "commit"} =>
          newSchedule'[d] # {}
    BY <1>0 DEF ScheduleInv, TypeOK
  <2> QED
    BY <2>2, <2>4, <2>5, <2>6 DEF ScheduleInv
<1>4. CollisionInv'
  BY <1>0 DEF CollisionInv, SameStart
<1>5. PlanInv'
  <2>1. \A d \in Calls \ {c} : \A t \in generated[d] \cup newSlots[d] : Planned(d, t)'
    BY <1>0, <1>1, OthersPlanned DEF TypeOK
  <2> QED
    BY <1>0, <2>1 DEF PlanInv
<1>6. SlotsDoNotCollide'
  BY DEF SlotsDoNotCollide, CollisionInv, SameStart
<1>7. SlotsWithinHorizon'
  BY DEF SlotsWithinHorizon, PlanInv, Planned
<1>8. WinnerKeepsRoom'
  <2>1. ASSUME NEW d \in Calls, req[d].op = "schedule", answer'[d] = "ok"
        PROVE  {x.by : x \in GetByRoomID(req[d].room)'} = {d}
    <3>1. CASE d = c
      <4>1. newSchedule[c] = {ScheduleOf(c)} /\ ~RoomIDConflict(req[c].room)
        BY <2>1, <3>1 DEF ScheduleInv, ScheduleOf
      <4>2. GetByRoomID(req[c].room)' = {ScheduleOf(c)}
        BY <4>1 DEF GetByRoomID, RoomIDConflict, ScheduleOf
      <4> QED
        BY <3>1, <4>2 DEF ScheduleOf
    <3>2. CASE d # c
      <4>1. {x.by : x \in GetByRoomID(req[d].room)} = {d}
        BY <2>1, <3>2 DEF WinnerKeepsRoom, TypeOK
      <4>2. \A x \in newSchedule[c] : x.room # req[d].room
        BY <4>1 DEF ScheduleInv, RoomIDConflict
      <4> QED
        BY <4>1, <4>2 DEF GetByRoomID
    <3> QED
      BY <3>1, <3>2
  <2> QED
    BY <2>1 DEF WinnerKeepsRoom, GetByRoomID
<1>9. DayIsWholeOrEmpty'
  <2>1. ASSUME NEW s \in slots', NEW w \in newSlots[c], w.room = s.room, w.date = s.date
        PROVE  WholeDay(s.room, s.date)'
    BY <1>3, <2>1, PublishedDay DEF ScheduleInv
  <2>2. ASSUME NEW s \in slots', \A w \in newSlots[c] : w.room # s.room \/ w.date # s.date
        PROVE  WholeDay(s.room, s.date)'
    <3>1. s \in slots /\ SlotsOf(s.room, s.date)' = SlotsOf(s.room, s.date)
      BY <2>2 DEF SlotsOf
    <3>2. GetByRoomID(s.room) \subseteq GetByRoomID(s.room)'
      BY DEF GetByRoomID
    <3> QED
      BY <3>1, <3>2 DEF DayIsWholeOrEmpty, WholeDay, ScheduleIncludesDate
  <2> QED
    BY <2>1, <2>2 DEF DayIsWholeOrEmpty
<1>10. \A d \in Calls : reply'[d] \subseteq slots'
  OBVIOUS
<1> QED
  BY <1>1, <1>2, <1>3, <1>4, <1>5, <1>6, <1>7, <1>8, <1>9, <1>10

(* A listing answers with rows of the table. *)
LEMMA ListInv ==
    ASSUME ConstantsAssumption, IInv, NEW c \in Calls, List(c)
    PROVE  IInv'
<1> USE DEF List, Return, Goto, tables, IInv
<1>0. req[c].op = "list"
  BY DEF StageInv
<1>1. TypeOK'
  BY DEF TypeOK, PCs, Answers, ListAvailableByRoomAndDate
<1>2. StageInv'
  BY DEF StageInv, TypeOK
<1>3. ScheduleInv'
  BY DEF ScheduleInv, TypeOK, ScheduleOf, RoomIDConflict, GetByRoomID
<1>4. CollisionInv'
  BY DEF CollisionInv, TypeOK, SameStart
<1>5. PlanInv'
  <2>1. generated'[c] = {} /\ newSlots'[c] = {}
        /\ \A d \in Calls \ {c} : generated'[d] = generated[d] /\ newSlots'[d] = newSlots[d]
    BY DEF TypeOK
  <2>2. \A d \in Calls \ {c} : \A t \in generated[d] \cup newSlots[d] : Planned(d, t)'
    BY <1>1, <2>1, OthersPlanned DEF TypeOK
  <2> QED
    BY <2>1, <2>2 DEF PlanInv
<1>6. SlotsDoNotCollide' /\ SlotsWithinHorizon' /\ DayIsWholeOrEmpty'
  BY TablesUnchanged
<1>7. WinnerKeepsRoom'
  <2>1. \A d \in Calls : answer'[d] = answer[d] \/ answer'[d] # "ok" \/ req[d].op = "list"
    BY <1>0 DEF TypeOK
  <2> QED
    BY <2>1, WinnersUnchanged
<1>8. \A d \in Calls : reply'[d] \subseteq slots'
  BY DEF TypeOK, ListAvailableByRoomAndDate
<1> QED
  BY <1>1, <1>2, <1>3, <1>4, <1>5, <1>6, <1>7, <1>8

(* A crash empties every open transaction. *)
LEMMA CrashInv ==
    ASSUME ConstantsAssumption, IInv, Crash
    PROVE  IInv'
<1> USE DEF Crash, InFlight, tables, IInv
<1>1. TypeOK'
  BY DEF TypeOK, PCs, Answers
<1>2. StageInv'
  BY DEF StageInv, TypeOK
<1>3. ScheduleInv' /\ CollisionInv' /\ PlanInv'
  BY DEF ScheduleInv, CollisionInv, PlanInv, TypeOK
<1>4. SlotsDoNotCollide' /\ SlotsWithinHorizon' /\ WinnerKeepsRoom' /\ DayIsWholeOrEmpty'
  BY TablesUnchanged, WinnersUnchanged DEF TypeOK
<1>5. \A d \in Calls : reply'[d] \subseteq slots'
  OBVIOUS
<1> QED
  BY <1>1, <1>2, <1>3, <1>4, <1>5

(* The clock moves on: what was within the horizon stays within it. *)
LEMMA MidnightInv ==
    ASSUME ConstantsAssumption, IInv, Midnight
    PROVE  IInv'
<1> USE DEF Midnight, tables, locals, IInv
<1>0. today <= today' /\ today' \in Nat
  BY DEF TypeOK
<1>1. TypeOK'
  BY <1>0 DEF TypeOK
<1>2. StageInv'
  <2>1. \A c \in Calls : req[c].op = "list" =>
           (req[c].date <= today + MaxSlotGenerationDaysAhead =>
               req[c].date <= today' + MaxSlotGenerationDaysAhead)
    BY <1>0, RequestKinds DEF ListRequests, TypeOK, ConstantsAssumption
  <2> QED
    BY <2>1 DEF StageInv
<1>3. ScheduleInv' /\ CollisionInv'
  BY DEF ScheduleInv, CollisionInv, ScheduleOf, RoomIDConflict, GetByRoomID, SameStart
<1>4. PlanInv'
  BY <1>0, <1>1, OthersPlanned DEF PlanInv
<1>5. SlotsWithinHorizon'
  BY <1>0 DEF SlotsWithinHorizon, TypeOK, Slot, ConstantsAssumption
<1>6. SlotsDoNotCollide' /\ WinnerKeepsRoom' /\ DayIsWholeOrEmpty'
  BY DEF SlotsDoNotCollide, SameStart, WinnerKeepsRoom, DayIsWholeOrEmpty, WholeDay,
         GetByRoomID, SlotsOf, ScheduleIncludesDate
<1> QED
  BY <1>1, <1>2, <1>3, <1>4, <1>5, <1>6

(* The rows there were at first are one schedule and its first days. *)
LEMMA InitInv ==
    ASSUME ConstantsAssumption, Init
    PROVE  IInv
<1> DEFINE dates == FirstDay - 1 .. FirstDay + InitialSlotGenerationDays - 2
           days(x) == GenerateSlots(Earlier, x.room, x.days, x.times, dates)
<1>1. dates \in SUBSET Nat /\ \A date \in dates : date <= FirstDay + MaxSlotGenerationDaysAhead
  BY DEF ConstantsAssumption
<1>2. CASE schedules = {}
  <2>1. slots = {}
    BY <1>2 DEF Init
  <2>2. TypeOK /\ StageInv
    BY <1>2, <2>1 DEF Init, TypeOK, StageInv, PCs, Answers, ConstantsAssumption
  <2> QED
    BY <1>2, <2>1, <2>2 DEF Init, IInv, ScheduleInv, CollisionInv, PlanInv, SlotsDoNotCollide,
          SlotsWithinHorizon, WinnerKeepsRoom, DayIsWholeOrEmpty
<1>3. ASSUME NEW x \in Existing, schedules = {x}
      PROVE  IInv
  <2>1. slots = days(x)
    BY <1>3 DEF Init
  <2>2. Earlier \in Makers /\ x \in Schedule /\ x.room \in Rooms /\ x.times \in SUBSET Times
    BY DEF ConstantsAssumption, Makers, Schedule
  <2> HIDE DEF dates
  <2>3. /\ slots \subseteq Slot
        /\ \A s : s \in slots <=> /\ s \in Slot /\ s.by = Earlier /\ s.room = x.room
                                 /\ s.date \in dates /\ ScheduleIncludesDate(x.days, s.date)
                                 /\ s.time \in x.times
    BY <1>1, <2>1, <2>2, GeneratedSlots
  <2>4. TypeOK
    BY <1>3, <2>2, <2>3 DEF Init, TypeOK, PCs, Answers, ConstantsAssumption
  <2>5. StageInv /\ ScheduleInv /\ CollisionInv /\ PlanInv /\ WinnerKeepsRoom
    BY <1>3 DEF Init, StageInv, ScheduleInv, CollisionInv, PlanInv, WinnerKeepsRoom
  <2>6. SlotsDoNotCollide
    BY <2>3 DEF SlotsDoNotCollide, SameStart, Slot
  <2>7. SlotsWithinHorizon
    BY <1>1, <2>3 DEF Init, SlotsWithinHorizon
  <2>8. DayIsWholeOrEmpty
    <3>1. ASSUME NEW s \in slots
          PROVE  WholeDay(s.room, s.date)
      <4>1. ASSUME NEW time \in x.times
            PROVE  \E t \in SlotsOf(s.room, s.date) : t.time = time
        <5> DEFINE t == [by |-> Earlier, room |-> x.room, date |-> s.date, time |-> time]
        <5>1. t \in Slot
          BY <2>2, <2>3 DEF Slot
        <5> QED
          BY <2>3, <5>1 DEF SlotsOf
      <4>2. {t.time : t \in SlotsOf(s.room, s.date)} = x.times
        BY <2>3, <4>1 DEF SlotsOf
      <4> QED
        BY <1>3, <2>3, <4>2 DEF WholeDay, GetByRoomID
    <3> QED
      BY <3>1 DEF DayIsWholeOrEmpty
  <2>9. \A d \in Calls : reply[d] \subseteq slots
    BY DEF Init
  <2> QED
    BY <2>4, <2>5, <2>6, <2>7, <2>8, <2>9 DEF IInv
<1> QED
  BY <1>2, <1>3 DEF Init

----------------------------------------------------------------------------
LEMMA HandleInv ==
    ASSUME ConstantsAssumption, IInv, NEW c \in Calls, Handle(c)
    PROVE  IInv'
<1> USE AbortInv
<1>1. CASE ScheduleStart(c)
  BY <1>1, ScheduleStartInv
<1>2. CASE GetSchedule(c)
  BY <1>2, MoveInv DEF GetSchedule, Move, Answers, PCs, IInv, StageInv
<1>3. CASE InsertSchedule(c)
  BY <1>3, InsertScheduleInv
<1>4. CASE ListStart(c)
  <2>1. /\ pc[c] = "received" /\ answer[c] = "none" /\ generated[c] = {}
        /\ newSchedule[c] = {} /\ newSlots[c] = {}
    BY <1>4 DEF ListStart, IInv, StageInv
  <2>2. CASE DateTooFarAhead(req[c].date) /\ Abort(c, "ErrDateTooFarAhead")
    BY <2>2 DEF Answers
  <2>3. CASE Abort(c, "ErrRoomNotFound")
    BY <2>3 DEF Answers
  <2>4. CASE /\ ~DateTooFarAhead(req[c].date) /\ req[c].room \in Rooms
             /\ Move(c, "received", "hasAny")
    <3>1. req[c] \in ListRequests
      BY <1>4, RequestKinds DEF ListStart, IInv, TypeOK, ScheduleRequests, ListRequests
    <3>2. req[c].date \in Nat
      BY <3>1 DEF ListRequests
    <3>3. req[c].date <= today + MaxSlotGenerationDaysAhead
      BY <2>4, <3>2 DEF DateTooFarAhead, ConstantsAssumption, IInv, TypeOK
    <3> QED
      BY <1>4, <2>1, <2>4, <3>3, MoveInv DEF ListStart, PCs
  <2> QED
    BY <1>4, <2>2, <2>3, <2>4 DEF ListStart
<1>5. CASE HasAny(c)
  BY <1>5, MoveInv DEF HasAny, Move, PCs, IInv, StageInv
<1>6. CASE ReadSchedule(c)
  BY <1>6, ReadScheduleInv
<1>7. CASE HasAnyInTx(c)
  BY <1>7, MoveInv DEF HasAnyInTx, Move, PCs, IInv, StageInv
<1>8. CASE List(c)
  BY <1>8, ListInv
<1>9. CASE CreateOne(c)
  BY <1>9, CreateOneInv
<1>10. CASE Commit(c)
  <2>1. CASE req[c].op = "schedule" /\ Return(c, "ok")
    BY <1>10, <2>1, PublishInv DEF Commit, Return, Answers
  <2>2. CASE req[c].op = "list" /\ ~(req[c].op = "schedule" /\ Return(c, "ok"))
    <3>1. newSchedule[c] = {} /\ answer[c] = "none"
      BY <1>10, <2>2 DEF Commit, IInv, StageInv
    <3>2. /\ UNCHANGED <<newSchedule, answer, today, req>>
          /\ Goto(c, "list")
          /\ generated' = [generated EXCEPT ![c] = {}]
          /\ newSlots' = [newSlots EXCEPT ![c] = {}]
      BY <1>10, <2>2 DEF Commit
    <3>3. /\ newSchedule' = [newSchedule EXCEPT ![c] = {}]
          /\ answer' = [answer EXCEPT ![c] = "none"]
      BY <3>1, <3>2 DEF IInv, TypeOK
    <3> QED
      BY <1>10, <2>2, <3>2, <3>3, PublishInv DEF Commit, Answers
  <2> QED
    BY <1>10, <2>1, <2>2 DEF Commit
<1> QED
  BY <1>1, <1>2, <1>3, <1>4, <1>5, <1>6, <1>7, <1>8, <1>9, <1>10 DEF Handle

(* A step of a call, with its failures, or of the clock. *)
LEMMA NextInv ==
    ASSUME ConstantsAssumption, IInv, [Next]_vars
    PROVE  IInv'
<1>1. ASSUME NEW c \in Calls, Handle(c)
      PROVE  IInv'
  BY <1>1, HandleInv
<1>2. ASSUME NEW c \in Calls, CommitUnacknowledged(c)
      PROVE  IInv'
  BY <1>2, PublishInv DEF CommitUnacknowledged, Return, Answers
<1>3. ASSUME NEW c \in Calls, Fail(c)
      PROVE  IInv'
  BY <1>3, AbortInv DEF Fail, Answers
<1>4. CASE Crash
  BY <1>4, CrashInv
<1>5. CASE Midnight
  BY <1>5, MidnightInv
<1>6. CASE UNCHANGED vars
  <2>1. TypeOK' /\ StageInv' /\ ScheduleInv' /\ CollisionInv'
    BY <1>6 DEF vars, IInv, TypeOK, StageInv, ScheduleInv, CollisionInv, ScheduleOf,
                RoomIDConflict, GetByRoomID, SameStart
  <2>2. PlanInv'
    BY <1>6, <2>1, OthersPlanned DEF vars, IInv, PlanInv, TypeOK
  <2>3. SlotsDoNotCollide' /\ SlotsWithinHorizon' /\ WinnerKeepsRoom' /\ DayIsWholeOrEmpty'
    BY <1>6, TablesUnchanged, WinnersUnchanged DEF vars
  <2>4. \A d \in Calls : reply'[d] \subseteq slots'
    BY <1>6 DEF vars, IInv
  <2> QED
    BY <2>1, <2>2, <2>3, <2>4 DEF IInv
<1> QED
  BY <1>1, <1>2, <1>3, <1>4, <1>5, <1>6 DEF Next

----------------------------------------------------------------------------
(* Whatever the interleaving of schedule creations and listings, their     *)
(* failures, restarts and midnights, a reachable state satisfies IInv.     *)
THEOREM Invariance == Spec => []IInv
<1>1. Init => IInv
  BY InitInv, ConstantsAssumption
<1>2. IInv /\ [Next]_vars => IInv'
  BY NextInv, ConstantsAssumption
<1> QED
  BY <1>1, <1>2, PTL DEF Spec

(* The values of the tables, of the handlers' locals and of the answers    *)
(* are of the types that the code gives them.                              *)
THEOREM TypeCorrect == Spec => []TypeOK
<1>1. IInv => TypeOK
  BY DEF IInv
<1> QED
  BY <1>1, Invariance, PTL

(* Whoever generates them, a room never has two slots at the same time     *)
(* (UNIQUE (room_id, start_at), ON CONFLICT DO NOTHING).                   *)
THEOREM NoCollision == Spec => []SlotsDoNotCollide
<1>1. IInv => SlotsDoNotCollide
  BY DEF IInv
<1> QED
  BY <1>1, Invariance, PTL

(* A day's slots are those of its room's schedule, all of them or none,    *)
(* although they are inserted one statement at a time (CreateMany).        *)
THEOREM WholeDays == Spec => []DayIsWholeOrEmpty
<1>1. IInv => DayIsWholeOrEmpty
  BY DEF IInv
<1> QED
  BY <1>1, Invariance, PTL

(* The schedule creation that was answered ok gave the room the one        *)
(* schedule that it has (schedules.room_id UNIQUE).                        *)
THEOREM OneWinner == Spec => []WinnerKeepsRoom
<1>1. IInv => WinnerKeepsRoom
  BY DEF IInv
<1> QED
  BY <1>1, Invariance, PTL

(* No slot lies beyond the horizon, however late a listing inserts it      *)
(* (MaxSlotGenerationDaysAhead).                                           *)
THEOREM WithinHorizon == Spec => []SlotsWithinHorizon
<1>1. IInv => SlotsWithinHorizon
  BY DEF IInv
<1> QED
  BY <1>1, Invariance, PTL

----------------------------------------------------------------------------
(* What the listing of a scheduled day has achieved at each of its         *)
(* statements: by its last one the day is whole, whoever made it so.       *)
Listing(c) ==
    /\ req[c].op = "list"
    /\ \E x \in GetByRoomID(req[c].room) :
          /\ ScheduleIncludesDate(x.days, req[c].date)
          /\ pc[c] \in {"hasAnyInTx", "createMany"} =>
                Covered(x, req[c].date, slots \cup newSlots[c] \cup generated[c])
          /\ pc[c] = "commit" => Covered(x, req[c].date, slots \cup newSlots[c])
          /\ pc[c] = "list" \/ answer[c] = "ok" => Covered(x, req[c].date, slots)

(* A room's only schedule covers a day of which there is any slot. *)
LEMMA AnySlotCovers ==
    ASSUME IInv, NEW room, NEW date, NEW x \in GetByRoomID(room),
           HasAnyByRoomAndDate(room, date)
    PROVE  Covered(x, date, slots)
<1>1. PICK s \in slots : s.room = room /\ s.date = date
  BY DEF HasAnyByRoomAndDate
<1>2. PICK y \in GetByRoomID(room) : {t.time : t \in SlotsOf(room, date)} = y.times
  BY <1>1 DEF IInv, DayIsWholeOrEmpty, WholeDay
<1>3. x = y
  BY <1>2 DEF IInv, ScheduleInv, GetByRoomID
<1> QED
  BY <1>2, <1>3 DEF Covered, SlotsOf, GetByRoomID

(* Rows are only ever added. *)
LEMMA TablesGrow ==
    ASSUME [Next]_vars
    PROVE  schedules \subseteq schedules' /\ slots \subseteq slots' /\ req' = req
  BY DEF Next, Handle, ScheduleStart, GetSchedule, InsertSchedule, ListStart, HasAny,
         ReadSchedule, HasAnyInTx, List, CreateOne, Commit, CommitUnacknowledged, Fail,
         Crash, Midnight, Move, Abort, Return, Publish, vars, tables, locals

(* A step of the listing itself. *)
LEMMA ListingHandles ==
    ASSUME ConstantsAssumption, IInv, NEW c \in Calls, Listing(c), Handle(c)
    PROVE  Listing(c)'
<1>0. /\ req[c].op = "list" /\ req[c] \in ListRequests
      /\ slots \subseteq slots' /\ schedules \subseteq schedules' /\ req' = req
  BY RequestKinds, TablesGrow DEF IInv, Listing, Next
<1>1. PICK x \in GetByRoomID(req[c].room) :
          /\ ScheduleIncludesDate(x.days, req[c].date)
          /\ pc[c] \in {"hasAnyInTx", "createMany"} =>
                Covered(x, req[c].date, slots \cup newSlots[c] \cup generated[c])
          /\ pc[c] = "commit" => Covered(x, req[c].date, slots \cup newSlots[c])
          /\ pc[c] = "list" \/ answer[c] = "ok" => Covered(x, req[c].date, slots)
  BY DEF Listing
<1>2. /\ x \in Schedule /\ x.room = req[c].room /\ x \in schedules
      /\ GetByRoomID(req[c].room) = {x}
      /\ x \in GetByRoomID(req[c].room)'
  BY <1>0 DEF IInv, TypeOK, ScheduleInv, GetByRoomID
<1> DEFINE J == /\ pc'[c] \in {"hasAnyInTx", "createMany"} =>
                      Covered(x, req[c].date, slots' \cup newSlots'[c] \cup generated'[c])
                /\ pc'[c] = "commit" => Covered(x, req[c].date, slots' \cup newSlots'[c])
                /\ pc'[c] = "list" \/ answer'[c] = "ok" => Covered(x, req[c].date, slots')
<1>3. J => Listing(c)'
  BY <1>0, <1>1, <1>2 DEF Listing, Covered, ScheduleIncludesDate
<1> SUFFICES J
  BY <1>3
<1> USE DEF Move, Goto, Abort, Return, tables, locals
<1>4. ASSUME NEW a \in Answers \ {"none", "ok"}, Abort(c, a)
      PROVE  J
  BY <1>4 DEF IInv, TypeOK
<1>5. CASE ListStart(c)
  BY <1>5 DEF ListStart, IInv, TypeOK, StageInv
<1>6. CASE HasAny(c)
  <2>1. HasAnyByRoomAndDate(req[c].room, req[c].date) => Covered(x, req[c].date, slots)
    BY AnySlotCovers
  <2> QED
    BY <1>6, <2>1 DEF HasAny, IInv, TypeOK, StageInv
<1>7. CASE ReadSchedule(c)
  <2> DEFINE fresh == GenerateSlots(c, req[c].room, x.days, x.times, {req[c].date})
  <2>1. UNION {GenerateSlots(c, req[c].room, y.days, y.times, {req[c].date}) :
                  y \in GetByRoomID(req[c].room)} = fresh
    BY <1>2
  <2>2. c \in Makers /\ x.times \in SUBSET Times /\ {req[c].date} \in SUBSET Nat
        /\ req[c].room \in Rooms
    BY <1>0, <1>2 DEF Makers, Schedule, ListRequests
  <2>3. \A s : s \in fresh <=>
                /\ s \in Slot /\ s.by = c /\ s.room = req[c].room
                /\ s.date \in {req[c].date} /\ ScheduleIncludesDate(x.days, s.date)
                /\ s.time \in x.times
    BY <2>2, GeneratedSlots
  <2> HIDE DEF fresh
  <2>4. Covered(x, req[c].date, fresh)
    <3>1. ASSUME NEW time \in x.times
          PROVE  \E s \in fresh : s.room = x.room /\ s.date = req[c].date /\ s.time = time
      <4> DEFINE s == [by |-> c, room |-> req[c].room, date |-> req[c].date, time |-> time]
      <4>1. s \in Slot
        BY <2>2 DEF Slot
      <4> QED
        BY <1>1, <1>2, <2>3, <4>1
    <3> QED
      BY <3>1 DEF Covered
  <2>5. /\ generated' = [generated EXCEPT ![c] = fresh]
        /\ pc' = [pc EXCEPT ![c] = IF fresh = {} THEN "list" ELSE "hasAnyInTx"]
        /\ UNCHANGED <<slots, newSlots, answer>>
    BY <1>7, <2>1 DEF ReadSchedule
  <2>6. answer[c] = "none"
    BY <1>7 DEF ReadSchedule, IInv, StageInv
  <2>7. CASE fresh = {}
    BY <2>4, <2>5, <2>6, <2>7 DEF IInv, TypeOK, Covered
  <2>8. CASE fresh # {}
    BY <2>4, <2>5, <2>6, <2>8 DEF IInv, TypeOK, Covered
  <2> QED
    BY <2>7, <2>8
<1>8. CASE HasAnyInTx(c)
  <2>1. HasAnyByRoomAndDate(req[c].room, req[c].date) => Covered(x, req[c].date, slots)
    BY AnySlotCovers
  <2> QED
    BY <1>1, <1>8, <2>1 DEF HasAnyInTx, IInv, TypeOK, StageInv, Covered
<1>9. CASE List(c)
  BY <1>1, <1>9 DEF List, IInv, TypeOK
<1>10. CASE CreateOne(c)
  <2>1. Covered(x, req[c].date, slots \cup newSlots[c] \cup generated[c])
    BY <1>1, <1>10 DEF CreateOne
  <2>2. PICK s \in generated[c] :
            /\ newSlots' = [newSlots EXCEPT ![c] = IF SlotExists(c, s) THEN @ ELSE @ \cup {s}]
            /\ generated' = [generated EXCEPT ![c] = @ \ {s}]
            /\ Goto(c, IF generated[c] = {s} THEN "commit" ELSE "createMany")
    BY <1>10 DEF CreateOne
  <2>3. \A t \in slots \cup newSlots[c] \cup generated[c] :
            \E u \in slots' \cup newSlots'[c] \cup generated'[c] : SameStart(t, u)
    BY <1>0, <2>2 DEF SlotExists, SameStart, IInv, TypeOK
  <2>4. Covered(x, req[c].date, slots' \cup newSlots'[c] \cup generated'[c])
    BY <2>1, <2>3 DEF Covered, SameStart
  <2>5. pc'[c] = "commit" => generated'[c] = {}
    BY <2>2 DEF IInv, TypeOK
  <2>6. pc'[c] # "list" /\ answer'[c] # "ok"
    BY <1>10, <2>2 DEF CreateOne, IInv, TypeOK, StageInv
  <2> QED
    BY <2>4, <2>5, <2>6 DEF Covered
<1>11. CASE Commit(c)
  BY <1>0, <1>1, <1>11 DEF Commit, Publish, IInv, TypeOK
<1>12. ~ScheduleStart(c) /\ ~GetSchedule(c) /\ ~InsertSchedule(c)
  BY <1>0 DEF ScheduleStart, GetSchedule, InsertSchedule, IInv, StageInv
<1> QED
  BY <1>5, <1>6, <1>7, <1>8, <1>9, <1>10, <1>11, <1>12 DEF Handle

(* A step of another call, a failure of the listing, or a midnight. *)
LEMMA ListingKept ==
    ASSUME ConstantsAssumption, IInv, NEW c \in Calls, Listing(c), [Next]_vars
    PROVE  Listing(c)'
<1>1. schedules \subseteq schedules' /\ slots \subseteq slots' /\ req' = req
  BY TablesGrow
<1>2. ASSUME UNCHANGED <<pc[c], generated[c], newSlots[c], answer[c]>>
      PROVE  Listing(c)'
  BY <1>1, <1>2 DEF Listing, GetByRoomID, Covered, ScheduleIncludesDate
<1>3. ASSUME pc'[c] = "answered", answer'[c] # "ok"
      PROVE  Listing(c)'
  BY <1>1, <1>3 DEF Listing, GetByRoomID, ScheduleIncludesDate
<1>4. ASSUME NEW d \in Calls, Handle(d) \/ CommitUnacknowledged(d) \/ Fail(d), d # c
      PROVE  Listing(c)'
  <2>1. UNCHANGED <<pc[c], generated[c], newSlots[c], answer[c]>>
    BY <1>4 DEF Handle, ScheduleStart, GetSchedule, InsertSchedule, ListStart, HasAny,
         ReadSchedule, HasAnyInTx, List, CreateOne, Commit, CommitUnacknowledged, Fail,
         Move, Goto, Abort, Return, Publish, tables, locals, IInv, TypeOK
  <2> QED
    BY <1>2, <2>1
<1>5. ASSUME Handle(c)
      PROVE  Listing(c)'
  BY <1>5, ListingHandles
<1>6. ASSUME CommitUnacknowledged(c) \/ Fail(c)
      PROVE  Listing(c)'
  <2>1. pc'[c] = "answered" /\ answer'[c] # "ok"
    BY <1>6 DEF CommitUnacknowledged, Fail, Abort, Return, Goto, IInv, TypeOK
  <2> QED
    BY <1>3, <2>1
<1>7. CASE Crash
  <2>1. CASE InFlight(c)
    <3>1. pc'[c] = "answered" /\ answer'[c] # "ok"
      BY <1>7, <2>1 DEF Crash
    <3> QED
      BY <1>3, <3>1
  <2>2. CASE ~InFlight(c)
    <3>1. pc'[c] = pc[c] /\ answer'[c] = answer[c] /\ pc[c] \in {"received", "answered"}
      BY <1>7, <2>2 DEF Crash, InFlight
    <3> QED
      BY <1>1, <3>1 DEF Listing, GetByRoomID, Covered, ScheduleIncludesDate
  <2> QED
    BY <2>1, <2>2
<1>8. CASE Midnight \/ UNCHANGED vars
  BY <1>2, <1>8 DEF Midnight, locals, vars
<1> QED
  BY <1>4, <1>5, <1>6, <1>7, <1>8 DEF Next

(* Without bookers no slot is taken: only module Reservations books.       *)
LEMMA NothingTaken == Spec => [](taken = {})
<1> DEFINE Nothing == taken = {}
<1>1. Init => Nothing
  BY DEF Init
<1>2. Nothing /\ [Next]_vars => Nothing'
  BY DEF Next, Handle, ScheduleStart, GetSchedule, InsertSchedule, ListStart, HasAny,
         ReadSchedule, HasAnyInTx, List, CreateOne, Commit, CommitUnacknowledged, Fail,
         Crash, Midnight, Move, Abort, Return, Publish, vars, tables, locals
<1> QED
  BY <1>1, <1>2, PTL DEF Spec

(* The last SELECT of a listing that found its day covered answers with    *)
(* that day (ListAvailableByRoomAndDate).                                  *)
LEMMA SelectedDayIsWhole ==
    ASSUME ConstantsAssumption, IInv, taken = {}, NEW c \in Calls, Listing(c), List(c)
    PROVE  ListsWholeDay(c)'
<1>1. PICK x \in GetByRoomID(req[c].room) :
          ScheduleIncludesDate(x.days, req[c].date) /\ Covered(x, req[c].date, slots)
  BY DEF Listing, List
<1> DEFINE day == SlotsOf(req[c].room, req[c].date)
<1>2. /\ reply'[c] = day
      /\ slots' = slots /\ schedules' = schedules /\ req' = req
  BY DEF List, ListAvailableByRoomAndDate, SlotsOf, Return, tables, IInv, TypeOK
<1>3. {s.time : s \in day} = x.times
  <2>1. CASE day = {}
    BY <1>1, <2>1 DEF Covered, SlotsOf, GetByRoomID
  <2>2. CASE day # {}
    <3>1. PICK y \in GetByRoomID(req[c].room) : {s.time : s \in day} = y.times
      BY <2>2 DEF IInv, DayIsWholeOrEmpty, WholeDay, SlotsOf
    <3>2. x = y
      BY DEF IInv, ScheduleInv, GetByRoomID
    <3> QED
      BY <3>1, <3>2
  <2> QED
    BY <2>1, <2>2
<1>4. day' = day
  BY <1>2 DEF SlotsOf
<1>5. GetByRoomID(req[c].room)' = GetByRoomID(req[c].room)
  BY <1>2 DEF GetByRoomID
<1> HIDE DEF day
<1>6. {s.time : s \in reply'[c]} = x.times
  BY <1>2, <1>3
<1>7. ScheduleIncludesDate(x.days, req'[c].date)
  BY <1>1, <1>2
<1> QED
  BY <1>2, <1>4, <1>5, <1>6, <1>7 DEF ListsWholeDay, day, ScheduleIncludesDate

(* An answer of a whole day is one for good. *)
LEMMA AnswerKept ==
    ASSUME ConstantsAssumption, IInv, NEW c \in Calls, ListsWholeDay(c), [Next]_vars,
           reply'[c] = reply[c]
    PROVE  ListsWholeDay(c)'
<1>1. schedules \subseteq schedules' /\ slots \subseteq slots' /\ req' = req
  BY TablesGrow
<1>2. PICK x \in GetByRoomID(req[c].room) :
          ScheduleIncludesDate(x.days, req[c].date) /\ {s.time : s \in reply[c]} = x.times
  BY DEF ListsWholeDay
<1>3. x \in GetByRoomID(req[c].room)'
  BY <1>1, <1>2 DEF GetByRoomID
<1>4. reply'[c] \subseteq SlotsOf(req[c].room, req[c].date)'
  BY <1>1 DEF ListsWholeDay, SlotsOf
<1>5. {s.time : s \in reply'[c]} = x.times /\ ScheduleIncludesDate(x.days, req'[c].date)
  BY <1>1, <1>2
<1> QED
  BY <1>3, <1>4, <1>5 DEF ListsWholeDay, ScheduleIncludesDate

(* The step that answers a listing is List, and no other touches its reply. *)
LEMMA AnsweringStep ==
    ASSUME ConstantsAssumption, IInv, NEW c \in Calls, req[c].op = "list", [Next]_vars,
           answer'[c] = "ok"
    PROVE  \/ List(c)
           \/ answer[c] = "ok" /\ reply'[c] = reply[c]
<1>1. CASE \E d \in Calls : List(d)
  <2>1. PICK d \in Calls : List(d)
    BY <1>1
  <2> QED
    BY <2>1 DEF List, Return, IInv, TypeOK
<1>2. CASE ~(\E d \in Calls : List(d))
  <2>1. reply' = reply
    BY <1>2 DEF Next, Handle, ScheduleStart, GetSchedule, InsertSchedule, ListStart, HasAny,
         ReadSchedule, HasAnyInTx, CreateOne, Commit, CommitUnacknowledged, Fail,
         Crash, Midnight, Move, Abort, Return, Publish, vars, tables, locals
  <2>2. ASSUME \E d \in Calls : Handle(d)
        PROVE  answer[c] = "ok"
    <3>1. PICK d \in Calls : Handle(d) /\ ~List(d)
      BY <1>2, <2>2
    <3>2. CASE ScheduleStart(d)
      BY <3>2 DEF ScheduleStart, Abort, Return, IInv, TypeOK
    <3>3. CASE GetSchedule(d) \/ InsertSchedule(d) \/ ListStart(d) \/ HasAny(d)
                 \/ ReadSchedule(d) \/ HasAnyInTx(d) \/ CreateOne(d)
      BY <3>3 DEF GetSchedule, InsertSchedule, ListStart, HasAny, ReadSchedule, HasAnyInTx,
                  CreateOne, Move, Abort, Return, locals, IInv, TypeOK
    <3>4. CASE Commit(d)
      BY <3>4 DEF Commit, Return, IInv, TypeOK
    <3> QED
      BY <3>1, <3>2, <3>3, <3>4, Zenon DEF Handle
  <2>3. ASSUME \E d \in Calls : CommitUnacknowledged(d) \/ Fail(d)
        PROVE  answer[c] = "ok"
    BY <2>3 DEF CommitUnacknowledged, Fail, Abort, Return, IInv, TypeOK
  <2>4. ASSUME Crash \/ Midnight \/ UNCHANGED vars
        PROVE  answer[c] = "ok"
    BY <2>4 DEF Crash, Midnight, locals, vars, IInv, TypeOK
  <2>5. answer[c] = "ok"
    BY <2>2, <2>3, <2>4 DEF Next
  <2> QED
    BY <2>1, <2>5
<1> QED
  BY <1>1, <1>2

(* A listing that arrives once its room has a schedule and is answered, is *)
(* answered with the whole day, whether the creation, the listing itself   *)
(* or another listing generated it (ensureSlotsForDate, ListAvailable).    *)
THEOREM ListingsFindTheDay == Spec => ScheduledDayIsListed
<1> DEFINE Asked(c) ==
             /\ pc[c] = "received" /\ req[c].op = "list"
             /\ \E x \in GetByRoomID(req[c].room) :
                   ScheduleIncludesDate(x.days, req[c].date)
           Found(c) == req[c].op = "list" /\ answer[c] = "ok" => ListsWholeDay(c)
<1>1. ASSUME NEW c \in Calls
      PROVE  Spec => [](Asked(c) => []Found(c))
  <2>1. IInv /\ Asked(c) => Listing(c) /\ Found(c)
    BY DEF IInv, StageInv, Listing
  <2>2. IInv /\ taken = {} /\ Listing(c) /\ Found(c) /\ [Next]_vars
          => Listing(c)' /\ Found(c)'
    <3> SUFFICES ASSUME IInv, taken = {}, Listing(c), Found(c), [Next]_vars
                 PROVE  Listing(c)' /\ Found(c)'
      OBVIOUS
    <3>1. Listing(c)'
      BY ListingKept, ConstantsAssumption
    <3>2. ASSUME answer'[c] = "ok"
          PROVE  ListsWholeDay(c)'
      <4>1. List(c) \/ (answer[c] = "ok" /\ reply'[c] = reply[c])
        BY <3>2, AnsweringStep, ConstantsAssumption DEF Listing
      <4>2. CASE List(c)
        BY <4>2, SelectedDayIsWhole, ConstantsAssumption
      <4>3. CASE answer[c] = "ok" /\ reply'[c] = reply[c]
        <5>1. ListsWholeDay(c)
          BY <4>3 DEF Listing
        <5> QED
          BY <4>3, <5>1, AnswerKept, ConstantsAssumption
      <4> QED
        BY <4>1, <4>2, <4>3
    <3> QED
      BY <3>1, <3>2
  <2> HIDE DEF Asked, Found
  <2> QED
    BY <2>1, <2>2, Invariance, NothingTaken, PTL DEF Spec
<1> QED
  BY <1>1 DEF ScheduledDayIsListed

----------------------------------------------------------------------------
(* Bookers on top of it. *)

(* A booking or a cancellation moves nothing but the marks on slots. *)
LEMMA TouchInv ==
    ASSUME ConstantsAssumption, IInv, NEW t \in SUBSET slots, TouchBookings(t)
    PROVE  IInv'
<1> USE DEF TouchBookings, locals
<1>1. TypeOK' /\ StageInv' /\ ScheduleInv' /\ CollisionInv'
  BY DEF IInv, TypeOK, StageInv, ScheduleInv, CollisionInv, ScheduleOf,
         RoomIDConflict, GetByRoomID, SameStart
<1>2. PlanInv'
  BY DEF IInv, PlanInv, Planned, PlansOf, ScheduleOf, GetByRoomID, Covered,
         ScheduleIncludesDate
<1>3. SlotsDoNotCollide' /\ SlotsWithinHorizon' /\ WinnerKeepsRoom' /\ DayIsWholeOrEmpty'
  BY DEF IInv, SlotsDoNotCollide, SlotsWithinHorizon, WinnerKeepsRoom, DayIsWholeOrEmpty,
         WholeDay, SlotsOf, GetByRoomID, ScheduleIncludesDate, SameStart
<1>4. \A c \in Calls : reply'[c] \subseteq slots'
  BY DEF IInv
<1> QED
  BY <1>1, <1>2, <1>3, <1>4 DEF IInv

(* The steps of Availability leave the marks alone and delete no slot. *)
LEMMA SlotsStay ==
    ASSUME [Next]_vars
    PROVE  taken' = taken /\ slots \subseteq slots'
  BY DEF Next, Handle, ScheduleStart, GetSchedule, InsertSchedule, ListStart, HasAny,
         ReadSchedule, HasAnyInTx, List, CreateOne, Commit, CommitUnacknowledged, Fail,
         Crash, Midnight, Move, Abort, Return, Publish, vars, tables, locals

LEMMA ReservationsInitInv ==
    ASSUME ConstantsAssumption, ReservationsInit
    PROVE  ReservationsInv
<1>1. IInv
  BY InitInv DEF ReservationsInit
<1>2. BookersInv
  BY DEF ReservationsInit, BookersInv, ShownSlotIsFound
<1> QED
  BY <1>1, <1>2 DEF ReservationsInv

(* A step that is not a booker's. *)
LEMMA AvailabilitySteps ==
    ASSUME ConstantsAssumption, ReservationsInv, [Next]_vars, UNCHANGED bookerVars
    PROVE  ReservationsInv'
<1>1. IInv'
  BY NextInv DEF ReservationsInv
<1>2. BookersInv'
  BY SlotsStay DEF ReservationsInv, BookersInv, ShownSlotIsFound, bookerVars
<1> QED
  BY <1>1, <1>2 DEF ReservationsInv

(* A step of a booker: to choose a slot is to choose a stored one, and to  *)
(* take it is to find it free.                                             *)
LEMMA BookerSteps ==
    ASSUME ConstantsAssumption, ReservationsInv, NEW b \in Bookers,
           \/ Choose(b) \/ GetSlot(b) \/ Refuse(b) \/ Take(b) \/ Release(b) \/ BookerFails(b)
    PROVE  ReservationsInv'
<1> USE DEF ReservationsInv
<1>1. ASSUME UNCHANGED vars
      PROVE  IInv'
  BY <1>1, NextInv
<1> USE DEF BookersInv, ShownSlotIsFound, BookerAnswered
<1>2. CASE Choose(b)
  <2>1. Shown \subseteq slots
    BY DEF Shown, IInv
  <2>2. PICK w \in {{}} \cup {{s} : s \in Shown} : want' = [want EXCEPT ![b] = w]
    BY <1>2 DEF Choose
  <2>3. w \subseteq slots
    BY <2>1
  <2>4. /\ bpc' = [bpc EXCEPT ![b] = "getSlot"]
        /\ UNCHANGED <<vars, held, told>>
    BY <1>2 DEF Choose
  <2>5. slots' = slots /\ taken' = taken /\ held' = held /\ told' = told
    BY <2>4 DEF vars
  <2>6. want' \in [Bookers -> SUBSET slots]
    BY <2>2, <2>3
  <2>7. ShownSlotIsFound'
    BY <1>2, <2>2, <2>5 DEF Choose
  <2>8. \A d \in Bookers : bpc'[d] # "answered" => told'[d] = "none"
    BY <1>2, <2>4, <2>5 DEF Choose
  <2>9. BookersInv'
    BY <2>4, <2>5, <2>6, <2>7, <2>8
  <2> QED
    BY <1>1, <2>4, <2>9
<1>3. CASE GetSlot(b)
  <2>1. want[b] \cap slots = {} => want[b] = {}
    OBVIOUS
  <2> QED
    BY <1>1, <1>3, <2>1 DEF GetSlot, vars
<1>4. CASE Refuse(b)
  BY <1>1, <1>4 DEF Refuse, vars
<1>5. CASE Take(b)
  <2>1. taken \cup want[b] \in SUBSET slots
    BY DEF IInv, TypeOK
  <2>2. IInv'
    BY <1>5, <2>1, TouchInv DEF Take
  <2>3. BookersInv'
    <3>1. /\ taken' = taken \cup want[b] /\ slots' = slots /\ want' = want
          /\ bpc' = [bpc EXCEPT ![b] = "answered"]
          /\ held' = [held EXCEPT ![b] = want[b]]
          /\ want[b] \cap taken = {}
      BY <1>5 DEF Take, TouchBookings
    <3>2. PICK a \in {"ok", "internal", "lost"} : told' = [told EXCEPT ![b] = a]
      BY <1>5 DEF Take
    <3>3. \A d, e \in Bookers : held'[d] \cap held'[e] # {} => d = e
      BY <3>1
    <3> QED
      BY <3>1, <3>2, <3>3
  <2> QED
    BY <2>2, <2>3
<1>6. CASE Release(b)
  <2>1. taken \ held[b] \in SUBSET slots
    BY DEF IInv, TypeOK
  <2>2. IInv'
    BY <1>6, <2>1, TouchInv DEF Release
  <2>3. BookersInv'
    <3>1. /\ taken' = taken \ held[b] /\ slots' = slots
          /\ held' = [held EXCEPT ![b] = {}]
          /\ UNCHANGED <<bpc, want, told>>
      BY <1>6 DEF Release, TouchBookings
    <3>2. \A d \in Bookers : held'[d] \subseteq taken'
      BY <3>1
    <3>3. \A d, e \in Bookers : held'[d] \cap held'[e] # {} => d = e
      BY <3>1
    <3> QED
      BY <3>1, <3>2, <3>3
  <2> QED
    BY <2>2, <2>3
<1>7. CASE BookerFails(b)
  BY <1>1, <1>7 DEF BookerFails, vars
<1> QED
  BY <1>2, <1>3, <1>4, <1>5, <1>6, <1>7

(* The server stops. *)
LEMMA StopInv ==
    ASSUME ConstantsAssumption, ReservationsInv, ServerStops
    PROVE  ReservationsInv'
<1>1. [Next]_vars
  BY DEF ServerStops, Next
<1>2. IInv'
  BY <1>1, NextInv DEF ReservationsInv
<1>3. BookersInv'
  BY <1>1, SlotsStay DEF ReservationsInv, BookersInv, ShownSlotIsFound, ServerStops,
                         BookerInFlight
<1> QED
  BY <1>2, <1>3 DEF ReservationsInv

(* Whatever bookers, schedule creations, listings, failures and restarts   *)
(* do in between, a reachable state satisfies ReservationsInv.             *)
THEOREM ReservationsInvariance == ReservationsSpec => []ReservationsInv
<1>1. ReservationsInit => ReservationsInv
  BY ReservationsInitInv, ConstantsAssumption
<1>2. ReservationsInv /\ [ReservationsNext]_allVars => ReservationsInv'
  <2> SUFFICES ASSUME ReservationsInv, [ReservationsNext]_allVars
               PROVE  ReservationsInv'
    OBVIOUS
  <2>1. CASE /\ \/ \E c \in Calls : Handle(c) \/ CommitUnacknowledged(c) \/ Fail(c)
                \/ Midnight
             /\ UNCHANGED bookerVars
    BY <2>1, AvailabilitySteps, ConstantsAssumption DEF Next
  <2>2. ASSUME NEW b \in Bookers,
               \/ Choose(b) \/ GetSlot(b) \/ Refuse(b)
               \/ Take(b) \/ Release(b) \/ BookerFails(b)
        PROVE  ReservationsInv'
    BY <2>2, BookerSteps, ConstantsAssumption
  <2>3. CASE ServerStops
    BY <2>3, StopInv, ConstantsAssumption
  <2>4. CASE UNCHANGED allVars
    BY <2>4, AvailabilitySteps, ConstantsAssumption DEF allVars
  <2> QED
    BY <2>1, <2>2, <2>3, <2>4 DEF ReservationsNext
<1> QED
  BY <1>1, <1>2, PTL DEF ReservationsSpec

(* No half-hour of a room is promised to two people, though bookings are   *)
(* unique by slot id only and several calls may generate the same day.     *)
THEOREM NoDoubleBooking == ReservationsSpec => []RoomNeverDoubleBooked
<1>1. ReservationsInv => RoomNeverDoubleBooked
  <2> SUFFICES ASSUME ReservationsInv, NEW a \in Bookers, NEW b \in Bookers,
                      NEW s \in held[a], NEW t \in held[b], SameStart(s, t)
               PROVE  a = b
    BY DEF RoomNeverDoubleBooked
  <2>1. s \in slots /\ t \in slots
    BY DEF ReservationsInv, BookersInv, IInv, TypeOK
  <2>2. s = t
    BY <2>1 DEF ReservationsInv, IInv, SlotsDoNotCollide
  <2> QED
    BY <2>2 DEF ReservationsInv, BookersInv
<1> QED
  BY <1>1, ReservationsInvariance, PTL

(* Whoever books a slot it was shown finds it stored: answers show only    *)
(* committed rows, and no slot is replaced by one generated again.         *)
THEOREM ShownIsFound == ReservationsSpec => []ShownSlotIsFound
<1>1. ReservationsInv => ShownSlotIsFound
  BY DEF ReservationsInv, BookersInv
<1> QED
  BY <1>1, ReservationsInvariance, PTL

(* While slots are booked and cancelled, days stay whole, slots do not     *)
(* collide and a room keeps the schedule it was given first.               *)
THEOREM DaysStayWhole ==
    ReservationsSpec => [](DayIsWholeOrEmpty /\ SlotsDoNotCollide /\ WinnerKeepsRoom)
<1>1. ReservationsInv => DayIsWholeOrEmpty /\ SlotsDoNotCollide /\ WinnerKeepsRoom
  BY DEF ReservationsInv, IInv
<1> QED
  BY <1>1, ReservationsInvariance, PTL
=============================================================================
