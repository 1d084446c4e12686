\* Two registrations of one email race.
SPECIFICATION Spec
CONSTANTS
    Calls = {c1, c2}
    Emails <- MCEmails
    Spellings <- MCSpellings
    NormalizeEmail <- MCNormalizeEmail
    Passwords <- MCPasswords
    TrimSpace <- MCTrimSpace
    Blank = ""
    DummyAdmin = DummyAdmin
    DummyUser = DummyUser
    DummyEmail <- MCDummyEmail
    TTL = 1
    Requests <- AllRequests
    MaxTime = 0
INVARIANTS
    TakenEmailIsRefused
CHECK_DEADLOCK FALSE
