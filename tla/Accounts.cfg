\* Three calls, before and after the tokens of the first ones expire.
SPECIFICATION Spec
CONSTANTS
    Calls = {c1, c2, c3}
    Emails <- MCEmails
    Spellings <- MCSpellings
    NormalizeEmail <- MCNormalizeEmail
    Passwords <- MCPasswords
    TrimSpace <- MCTrimSpace
    Blank = ""
    DummyAdmin = DummyAdmin
    DummyUser = DummyUser
    DummyEmail <- MCDummyEmail
    TTL = 1
    Requests <- AllRequests
    MaxTime = 2
SYMMETRY CallSymmetry
INVARIANTS
    IInv
    OneAccountPerEmail
    TokensTellTheTruth
    LoginProvesRegistration
PROPERTIES
    RegisteredCanLogIn
CHECK_DEADLOCK FALSE
