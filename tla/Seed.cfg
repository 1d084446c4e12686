\* Two runs of the seed, one after the other or together, with an admin and other clients.
SPECIFICATION Spec
CONSTANTS
    Seeds = {s1, s2}
    Admins = {a1}
    AdminRequests <- MCAdminRequests
    RoomNames <- MCRoomNames
    Fold <- MCFold
    Slots = {1}
    MaxTime = 1
    MaxOthers = 1
SYMMETRY SeedSymmetry
INVARIANTS
    DoneMeansSeeded
    NoSecondRoom
PROPERTIES
    DoneMeansBooked
    SeededStaysPut
CHECK_DEADLOCK FALSE
