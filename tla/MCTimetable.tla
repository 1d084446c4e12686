-------------------------- MODULE MCTimetable --------------------------
(* Requests for TLC: short and long lists of days with an invalid day at   *)
(* either end of the range, and times around midnight whose ranges are too *)
(* short, unaligned, empty, backward or valid.                             *)
EXTENDS Timetable

Lists(days, n) == UNION {[1 .. k -> days] : k \in 0 .. n}

MCDayLists == Lists({0, 1, 3, 7, 8}, 2) \cup {<<7, 3, 7, 1>>, <<1, 2, 3, 4, 5, 6, 7>>}

Time(h, m) == [hour |-> h, minute |-> m]

MCTimesOfDay ==
    {Time(0, 0), Time(0, 10), Time(1, 0), Time(1, 30),
     Time(22, 55), Time(23, 29), Time(23, 59), Time(24, 0), Time(9, 60)}

\* A Monday, and a Saturday of the week after.
MCDates == {0, 12}
=============================================================================
