------------------------ MODULE MCAvailability ------------------------
(* Instances of Availability for TLC: a week of two days, a horizon of two. *)
EXTENDS Availability, TLC

CONSTANTS r1, r2

Schedules(room, days, times) ==
    [op : {"schedule"}, role : {"admin"}, room : {room}, days : {days}, times : {times}]

Lists(room, dates) == [op : {"list"}, role : {"user"}, room : {room}, date : dates]

\* Two different schedules for one room, and listings of a near and a far day.
RaceRequests ==
    Schedules(r1, {0, 1}, {1, 2}) \cup Schedules(r1, {0}, {2, 3}) \cup Lists(r1, {2, 3})

\* A schedule given the day before.
OneSchedule ==
    [by : {Earlier}, room : {r1}, days : {{0, 1}}, times : {{1, 2}}]

\* Every kind of request and refusal, two rooms, days past and beyond the horizon.
AllRequests ==
    Schedules(r1, {0, 1}, {1, 2}) \cup Schedules(r2, {1}, {1})
        \cup Schedules(NoRoom, {1}, {1}) \cup Schedules(r1, {}, {1})
        \cup Schedules(r1, {1}, {})
        \cup [op : {"schedule"}, role : {"user"}, room : {r1}, days : {{1}}, times : {{1}}]
        \cup Lists(r1, 0 .. 4) \cup Lists(r2, 0 .. 4) \cup Lists(NoRoom, {1})

CallSymmetry == Permutations(Calls)
=============================================================================
