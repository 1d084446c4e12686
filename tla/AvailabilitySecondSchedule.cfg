\* Two admins give one room a schedule at the same time.
SPECIFICATION Spec
CONSTANTS
    Calls = {c1, c2}
    r1 = r1
    r2 = r2
    Rooms = {r1}
    NoRoom = NoRoom
    Times = {1, 2, 3}
    WeekLength = 2
    InitialSlotGenerationDays = 1
    MaxSlotGenerationDaysAhead = 2
    FirstDay = 1
    LastDay = 1
    Earlier = Earlier
    Existing <- OneSchedule
    Requests <- RaceRequests
SYMMETRY CallSymmetry
INVARIANTS
    SecondScheduleIsAConflict
CHECK_DEADLOCK FALSE
