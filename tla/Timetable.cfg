\* Requests around the edges of the rules, with the real numbers of days and minutes.
SPECIFICATION Spec
CONSTANTS
    DayLists <- MCDayLists
    TimesOfDay <- MCTimesOfDay
    Dates <- MCDates
    InitialSlotGenerationDays = 7
INVARIANTS
    IInv
    NoOverlap
    RejectedOnlyIfInvalid
    DaysNormalized
    TimetableIsExact
CHECK_DEADLOCK FALSE
