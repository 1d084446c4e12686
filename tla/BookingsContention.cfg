\* Four calls of two users contend for one slot, before and when it begins.
SPECIFICATION Spec
CONSTANTS
    Calls = {c1, c2, c3, c4}
    ann = ann
    bob = bob
    admin = admin
    anon = anon
    s1 = s1
    s2 = s2
    Actors = {ann, bob, admin, anon}
    Slots = {s1, s2}
    NoSlot = NoSlot
    Free = Free
    Precision = 2
    FirstTime = 1
    MaxTime = 2
    RoleOf <- MCRoleOf
    StartAt <- MCStartAt
    Requests <- ContentionRequests
SYMMETRY CallSymmetry
INVARIANTS
    BookingsInv
    OneActivePerSlot
    ReplyIsStored
PROPERTIES
    CancelIsFinal
    OnlyOwnerCancels
    CallsTakeEffectAtOnce
CHECK_DEADLOCK FALSE
