SPECIFICATION Spec
CONSTANTS
    q1 = q1
    q2 = q2
    None = None
    Requests = {q1, q2}
    p1 = p1
    p2 = p2
    p3 = p3
    Calls = {"check", "me"}
    Pairs = {p1, p2, p3}
    RateLimit = 5
    MaxEvents = 0
INVARIANT SessionLasts
SYMMETRY Symmetry
CHECK_DEADLOCK FALSE
