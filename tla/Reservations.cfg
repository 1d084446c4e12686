\* Two schedules and the listings of two days race for one room while two bookers book what they were shown.
SPECIFICATION ReservationsSpec
CONSTANTS
    Calls = {c1, c2, c3}
    Bookers = {b1, b2}
    r1 = r1
    r2 = r2
    Rooms = {r1}
    NoRoom = NoRoom
    Times = {1, 2, 3}
    WeekLength = 2
    InitialSlotGenerationDays = 2
    MaxSlotGenerationDaysAhead = 2
    FirstDay = 1
    LastDay = 2
    Earlier = Earlier
    Existing <- OneSchedule
    Requests <- RaceRequests
SYMMETRY BookerSymmetry
INVARIANTS
    DayIsWholeOrEmpty
    SlotsDoNotCollide
    WinnerKeepsRoom
    RoomNeverDoubleBooked
    ShownSlotIsFound
CHECK_DEADLOCK FALSE
