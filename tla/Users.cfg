SPECIFICATION Spec
CONSTANTS
    u1 = u1
    u2 = u2
    r1 = r1
    r2 = r2
    r3 = r3
    r4 = r4
    None = None
    Ids = {u1, u2}
    Requests = {r1, r2, r3, r4}
    Bodies <- MCBodies
    Emails <- MCEmails
    Usernames <- MCUsernames
    Names = {"Admin", "Ana", "Bo", ""}
    Passwords = {"first", "next", "1"}
    ValidUsernames <- MCValidUsernames
    ValidPasswords = {"first", "next"}
    AdminEmail = "admin@x"
INVARIANTS TypeOK AnswersAreHonest
PROPERTIES FirstAccessOnce BootstrapOnlyWhenEmpty OmittedColumnsStay
SYMMETRY Symmetry
CHECK_DEADLOCK FALSE
