SPECIFICATION Spec
CONSTANTS
    q1 = q1
    q2 = q2
    None = None
    Requests = {q1, q2}
    p1 = p1
    p2 = p2
    p3 = p3
    Calls = {"check", "me", "name", "password", "login", "logout"}
    Pairs = {p1, p2, p3}
    RateLimit = 2
    MaxEvents = 1
INVARIANTS TypeOK RevokedIsNeverHonoured RightsWereHeld OnlyNamedUsersEnter SentAtMostTwice RecursionIsCut SettledTokenIsGood
SYMMETRY Symmetry
CHECK_DEADLOCK FALSE
