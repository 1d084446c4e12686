--------------------------- MODULE Timetable ---------------------------
(***************************************************************************)
(* From a schedule's days and times to its slots: ParseTimeOfDay,          *)
(* NewSchedule with normalizeDaysOfWeek, generateUpcomingSlots and         *)
(* GenerateSlotsForDate, one iteration of their loops a step.  Time is     *)
(* counted in minutes; date 0 is a Monday.                                 *)
(***************************************************************************)
EXTENDS Integers, Sequences

CONSTANTS
    DayLists,       \* the lists of days a request may carry, valid or not
    TimesOfDay,     \* the times of day a request may carry, valid or not
    Dates,          \* the dates on which a request may arrive
    InitialSlotGenerationDays

ASSUME ConstantsAssumption ==
    /\ DayLists \subseteq Seq(Int)
    /\ TimesOfDay \subseteq [hour : Int, minute : Int]
    /\ Dates \subseteq Nat
    /\ InitialSlotGenerationDays \in Nat

SlotDuration == 30
MinutesPerDay == 1440

VARIABLES
    input,      \* the request: days, start, end and the date of its arrival
    pc,         \* the loop or check that is next
    error,      \* the error the request is turned down with, "none" without
    day,        \* the index in input.days of normalizeDaysOfWeek's loop
    validated,  \* the days it has kept
    offset,     \* the day of generateUpcomingSlots' loop
    current,    \* currentStart in GenerateSlotsForDate, in minutes from date 0
    slots       \* the slots generated so far

vars == <<input, pc, error, day, validated, offset, current, slots>>

Inputs == [days : DayLists, start : TimesOfDay, end : TimesOfDay, from : Dates]

Slot == [start : Int, end : Int]

----------------------------------------------------------------------------
IsValidDay(d) == d \in 1 .. 7

IsValidTime(t) == t.hour \in 0 .. 23 /\ t.minute \in 0 .. 59

ToMinutes(t) == t.hour * 60 + t.minute

Elements(s) == {s[i] : i \in DOMAIN s}

(* time.Weekday counts from Sunday = 0, the API's DayOfWeek from Monday = 1. *)
Weekday(date) == (date + 1) % 7

(* Variant: the number of time.Weekday as it is. *)
DayOfWeekUnconverted(w) == w

DayOfWeekFromWeekday(w) == IF w = 0 THEN 7 ELSE w

ScheduleIncludesDate(date) == DayOfWeekFromWeekday(Weekday(date)) \in Elements(validated)

DayStart(date) == date * MinutesPerDay

Date == input.from + offset

WindowStart == DayStart(Date) + ToMinutes(input.start)
WindowEnd == DayStart(Date) + ToMinutes(input.end)

Sorted(s) ==
    CHOOSE t \in [DOMAIN s -> Elements(s)] :
        /\ Elements(t) = Elements(s)
        /\ \A i, j \in DOMAIN t : i < j => t[i] <= t[j]

(* Slot.Overlaps, for two slots of one room. *)
Overlaps(s, t) == s.start < t.end /\ t.start < s.end

Init ==
    /\ input \in Inputs
    /\ pc = "parse" /\ error = "none"
    /\ day = 1 /\ validated = <<>>
    /\ offset = 0 /\ current = 0 /\ slots = <<>>

Reject(e) ==
    /\ error' = e
    /\ pc' = "done"
    /\ UNCHANGED <<input, day, validated, offset, current, slots>>

(* ParseTimeOfDay of both times, and the test for an empty list of days. *)
Parse ==
    /\ pc = "parse"
    /\ \/ /\ ~(IsValidTime(input.start) /\ IsValidTime(input.end))
          /\ Reject("ErrInvalidTimeOfDay")
       \/ /\ IsValidTime(input.start) /\ IsValidTime(input.end)
          /\ input.days = <<>>
          /\ Reject("ErrScheduleDaysRequired")
       \/ /\ IsValidTime(input.start) /\ IsValidTime(input.end)
          /\ input.days # <<>>
          /\ pc' = "days"
          /\ UNCHANGED <<input, error, day, validated, offset, current, slots>>

(* Variant: a day listed twice is kept twice. *)
NormalizeDayKeepingDuplicates ==
    /\ pc = "days" /\ day \in DOMAIN input.days
    /\ LET d == input.days[day] IN
         \/ ~IsValidDay(d) /\ Reject("ErrInvalidDayOfWeek")
         \/ /\ IsValidDay(d)
            /\ validated' = Append(validated, d)
            /\ day' = day + 1
            /\ UNCHANGED <<input, pc, error, offset, current, slots>>

(* One day of normalizeDaysOfWeek's loop; after the last, slices.Sort. *)
NormalizeDay ==
    /\ pc = "days" /\ day \in DOMAIN input.days
    /\ LET d == input.days[day] IN
         \/ ~IsValidDay(d) /\ Reject("ErrInvalidDayOfWeek")
         \/ /\ IsValidDay(d)
            /\ validated' = IF d \in Elements(validated) THEN validated
                                                         ELSE Append(validated, d)
            /\ day' = day + 1
            /\ UNCHANGED <<input, pc, error, offset, current, slots>>

SortDays ==
    /\ pc = "days" /\ day \notin DOMAIN input.days
    /\ validated' = Sorted(validated)
    /\ pc' = "range"
    /\ UNCHANGED <<input, error, day, offset, current, slots>>

(* Variant: a range that no number of slots fills is let through. *)
CheckRangeUnaligned ==
    LET range == ToMinutes(input.end) - ToMinutes(input.start) IN
    /\ pc = "range"
    /\ \/ range <= 0 /\ Reject("ErrScheduleTimeRangeOrder")
       \/ range \in 1 .. SlotDuration - 1 /\ Reject("ErrScheduleTimeRangeTooShort")
       \/ /\ range >= SlotDuration
          /\ pc' = "date"
          /\ UNCHANGED <<input, error, day, validated, offset, current, slots>>

(* The checks of NewSchedule on the range, in their order. *)
CheckRange ==
    LET range == ToMinutes(input.end) - ToMinutes(input.start) IN
    /\ pc = "range"
    /\ \/ range <= 0 /\ Reject("ErrScheduleTimeRangeOrder")
       \/ range \in 1 .. SlotDuration - 1 /\ Reject("ErrScheduleTimeRangeTooShort")
       \/ /\ range >= SlotDuration /\ range % SlotDuration # 0
          /\ Reject("ErrScheduleTimeRangeNotAligned")
       \/ /\ range >= SlotDuration /\ range % SlotDuration = 0
          /\ pc' = "date"
          /\ UNCHANGED <<input, error, day, validated, offset, current, slots>>

(* One day of generateUpcomingSlots' loop. *)
NextDate ==
    /\ pc = "date" /\ offset < InitialSlotGenerationDays
    /\ \/ /\ ~ScheduleIncludesDate(Date)
          /\ offset' = offset + 1
          /\ UNCHANGED <<pc, current>>
       \/ /\ ScheduleIncludesDate(Date)
          /\ current' = WindowStart
          /\ pc' = "slot"
          /\ UNCHANGED offset
    /\ UNCHANGED <<input, error, day, validated, slots>>

(* Variant: the next slot begins half a slot later. *)
NextSlotHalfLater ==
    /\ pc = "slot"
    /\ \/ /\ current + SlotDuration <= WindowEnd
          /\ slots' = Append(slots, [start |-> current, end |-> current + SlotDuration])
          /\ current' = current + 15
          /\ UNCHANGED <<pc, offset>>
       \/ /\ current + SlotDuration > WindowEnd
          /\ offset' = offset + 1
          /\ pc' = "date"
          /\ UNCHANGED <<current, slots>>
    /\ UNCHANGED <<input, error, day, validated>>

(* Variant: the loop runs while a slot begins before the window's end. *)
NextSlotPastTheEnd ==
    /\ pc = "slot"
    /\ \/ /\ current <= WindowEnd
          /\ slots' = Append(slots, [start |-> current, end |-> current + SlotDuration])
          /\ current' = current + SlotDuration
          /\ UNCHANGED <<pc, offset>>
       \/ /\ current > WindowEnd
          /\ offset' = offset + 1
          /\ pc' = "date"
          /\ UNCHANGED <<current, slots>>
    /\ UNCHANGED <<input, error, day, validated>>

(* One slot of GenerateSlotsForDate's loop. *)
NextSlot ==
    /\ pc = "slot"
    /\ \/ /\ current + SlotDuration <= WindowEnd
          /\ slots' = Append(slots, [start |-> current, end |-> current + SlotDuration])
          /\ current' = current + SlotDuration
          /\ UNCHANGED <<pc, offset>>
       \/ /\ current + SlotDuration > WindowEnd
          /\ offset' = offset + 1
          /\ pc' = "date"
          /\ UNCHANGED <<current, slots>>
    /\ UNCHANGED <<input, error, day, validated>>

Finish ==
    /\ pc = "date" /\ offset = InitialSlotGenerationDays
    /\ pc' = "done"
    /\ UNCHANGED <<input, error, day, validated, offset, current, slots>>

Next ==
    \/ Parse \/ NormalizeDay \/ SortDays \/ CheckRange
    \/ NextDate \/ NextSlot \/ Finish

(* The code is sequential and every loop is bounded. *)
Spec == Init /\ [][Next]_vars /\ WF_vars(Next)

----------------------------------------------------------------------------
TypeOK ==
    /\ input \in Inputs
    /\ pc \in {"parse", "days", "range", "date", "slot", "done"}
    /\ error \in {"none", "ErrInvalidTimeOfDay", "ErrScheduleDaysRequired",
                  "ErrInvalidDayOfWeek", "ErrScheduleTimeRangeOrder",
                  "ErrScheduleTimeRangeTooShort", "ErrScheduleTimeRangeNotAligned"}
    /\ day \in Int
    /\ offset \in Nat
    /\ current \in Int
    /\ slots \in Seq(Slot)

(* The slots of a room never overlap (TASK.md:27), within a day or across  *)
(* midnight, whatever the schedule's range.                                *)
NoOverlap == \A i, j \in DOMAIN slots : i # j => ~Overlaps(slots[i], slots[j])

(* They come in order of time, and whatever was generated lies before what *)
(* the loops turn to next: the order in which CreateMany then takes its    *)
(* locks.                                                                  *)
SlotsInOrder ==
    /\ \A i, j \in DOMAIN slots : i < j => slots[i].end <= slots[j].start
    /\ \A i \in DOMAIN slots : slots[i].end = slots[i].start + SlotDuration
    /\ pc = "date" => \A i \in DOMAIN slots : slots[i].end <= DayStart(Date)
    /\ pc = "slot" => /\ \A i \in DOMAIN slots : slots[i].end <= current
                     /\ WindowStart <= current /\ current <= WindowEnd

RangeChecked ==
    /\ pc \notin {"parse", "done"} => IsValidTime(input.start) /\ IsValidTime(input.end)
    /\ pc \in {"date", "slot"} => ToMinutes(input.start) < ToMinutes(input.end)
    /\ pc \in {"parse", "days", "range"} => slots = <<>>

(* The days and times the API accepts: a non-empty list of days, and a     *)
(* range of at least one slot within one day, filled by whole slots.       *)
ValidInput ==
    /\ input.days # <<>> /\ Elements(input.days) \subseteq 1 .. 7
    /\ IsValidTime(input.start) /\ IsValidTime(input.end)
    /\ \E n \in 1 .. 48 : ToMinutes(input.end) = ToMinutes(input.start) + n * SlotDuration

(* A schedule is turned down if and only if no slots can be made of it     *)
(* (ParseTimeOfDay, normalizeDaysOfWeek and NewSchedule agree on it).      *)
RejectedOnlyIfInvalid == pc = "done" => (error = "none" <=> ValidInput)

(* The stored days are the requested ones, each once, in order of the week. *)
DaysNormalized ==
    pc \in {"range", "date", "slot"} =>
        /\ Elements(validated) = Elements(input.days)
        /\ \A i, j \in DOMAIN validated : i < j => validated[i] < validated[j]

(* What a schedule means: on each of its weekdays, Monday being 1, the     *)
(* half-hours from its start that end by its end.                          *)
HalfHour(date, k) ==
    LET start == DayStart(date) + ToMinutes(input.start) + k * SlotDuration IN
    [start |-> start, end |-> start + SlotDuration]

HalfHoursOf(date) ==
    {HalfHour(date, k) :
        k \in {n \in 0 .. 47 : ToMinutes(input.start) + (n + 1) * SlotDuration
                                  <= ToMinutes(input.end)}}

ScheduledDates(days) ==
    {d \in input.from .. input.from + days - 1 : (d % 7) + 1 \in Elements(input.days)}

MeaningFor(days) == UNION {HalfHoursOf(date) : date \in ScheduledDates(days)}

(* The loops generate those slots and no others, over the days of a week   *)
(* that begins on any weekday.                                             *)
TimetableIsExact ==
    pc = "done" /\ error = "none" =>
        Elements(slots) = MeaningFor(InitialSlotGenerationDays)

----------------------------------------------------------------------------
(* Why they hold: the parts of an inductive invariant. *)

(* What keeps the slots apart. *)
OrderInv == TypeOK /\ RangeChecked /\ SlotsInOrder

(* What the loop over the requested days has kept of them. *)
DaysSoFar ==
    /\ validated \in Seq(1 .. 7)
    /\ pc = "parse" => day = 1 /\ validated = <<>>
    /\ pc = "days" =>
         /\ day \in 1 .. Len(input.days) + 1
         /\ Elements(validated) = {input.days[i] : i \in 1 .. day - 1}
         /\ \A i, j \in DOMAIN validated : i # j => validated[i] # validated[j]
    /\ DaysNormalized

(* What the checks have found out about the request. *)
JudgedSoFar ==
    /\ pc # "done" => error = "none"
    /\ pc \notin {"parse", "done"} => input.days # <<>>
    /\ pc \in {"date", "slot"} => ValidInput
    /\ RejectedOnlyIfInvalid

(* What the loops over days and half-hours have generated. *)
SlotsSoFar ==
    /\ pc \in {"parse", "days", "range"} => offset = 0
    /\ offset <= InitialSlotGenerationDays
    /\ pc = "date" => Elements(slots) = MeaningFor(offset)
    /\ pc = "slot" =>
         /\ offset < InitialSlotGenerationDays
         /\ Date \in ScheduledDates(offset + 1)
         /\ \E j \in 0 .. 48 :
              /\ current = WindowStart + j * SlotDuration
              /\ Elements(slots) = MeaningFor(offset) \cup {HalfHour(Date, k) : k \in 0 .. j - 1}
    /\ TimetableIsExact

IInv == OrderInv /\ DaysSoFar /\ JudgedSoFar /\ SlotsSoFar
=============================================================================
