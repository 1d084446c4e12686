\* Every kind of request and refusal, two at a time, over two rooms, in a room with or without a schedule.
SPECIFICATION Spec
CONSTANTS
    Calls = {c1, c2}
    r1 = r1
    r2 = r2
    Rooms = {r1, r2}
    NoRoom = NoRoom
    Times = {1, 2, 3}
    WeekLength = 2
    InitialSlotGenerationDays = 2
    MaxSlotGenerationDaysAhead = 2
    FirstDay = 1
    LastDay = 2
    Earlier = Earlier
    Existing <- OneSchedule
    Requests <- AllRequests
INVARIANTS
    IInv
    SlotsWithinHorizon
PROPERTIES
    EveryCallAnswered
    ScheduledDayIsListed
CHECK_DEADLOCK FALSE
