\* Two calls write while a client reads the lists, before, when and after a slot begins.
SPECIFICATION ListsSpec
CONSTANTS
    Calls = {c1, c2}
    c1 = c1
    c2 = c2
    Readers = {r}
    ann = ann
    bob = bob
    admin = admin
    anon = anon
    s1 = s1
    s2 = s2
    Actors = {ann, bob, admin, anon}
    Slots = {s1, s2}
    NoSlot = NoSlot
    Precision = 2
    FirstTime = 1
    MaxTime = 3
    RoleOf <- MCRoleOf
    StartAt <- MCStartAt
    Requests <- WriteRequests
    Asks <- ReadRequests
    IdOrder <- MCIdOrder
    Word = 16
INVARIANTS
    RefusedLeavesNothing
    LinkOfBookingExists
    PagesSkipNothing
    PageAgreesWithTotal
    MineIsUpToDate
PROPERTIES
    EveryCallAnswered
CHECK_DEADLOCK FALSE
