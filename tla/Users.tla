------------------------------- MODULE Users -------------------------------
(***************************************************************************)
(* The users table and the requests that write it: EnsureAdmin             *)
(* (src/backend/internal/bootstrap/admin.go), UserHandler                  *)
(* (httpapi/user_handler.go) and MeHandler (httpapi/me_handler.go). Every  *)
(* statement is in autocommit, so a request is a process whose steps are   *)
(* its statements, and any number of requests interleave. A statement may  *)
(* fail, and the reply of one that did write may be lost. Users are never  *)
(* deleted.                                                                *)
(***************************************************************************)
EXTENDS Integers, FiniteSets

CONSTANTS
    Ids,             \* user ids, each generated once
    Requests,        \* the requests, each with one body
    Bodies,          \* the bodies they may have
    Emails, Usernames, Names, Passwords,
    ValidUsernames,  \* those that usernamePattern matches
    ValidPasswords,  \* those of at least MinPasswordLength
    AdminEmail,      \* ADMIN_EMAIL, the same at every start of the process
    None             \* an omitted field, an absent row, NULL

Roles == {"admin", "user"}

Operations == {"bootstrap", "create", "rename", "setRole", "setActive",
               "firstAccess", "changePassword", "updateProfile"}

Optional(S) == S \cup {None}

EmptyName == ""

\* One record for the bodies of all operations, path and claims included: user
\* is the user acted upon.
BodyRecords ==
    [op : Operations, user : Optional(Ids), name : Optional(Names),
     email : Optional(Emails), username : Optional(Usernames),
     password : Optional(Passwords), current : Optional(Passwords),
     role : Optional(Roles \cup {"root"}), active : BOOLEAN]

UserRows == [name : Names, email : Emails, username : Optional(ValidUsernames),
             password : ValidPasswords, role : Roles, active : BOOLEAN]

Columns == {"name", "username", "password", "role", "active"}

\* HTTP status: ok 2xx, bad 400, unauthorized 401, missing 404, conflict 409,
\* error 500, or EnsureAdmin's error, which ends the process.
Answers == {"ok", "bad", "unauthorized", "missing", "conflict", "error"}

ASSUME ConstantsAssumption ==
    /\ Bodies \subseteq BodyRecords
    /\ ValidUsernames \subseteq Usernames
    /\ ValidPasswords \subseteq Passwords
    /\ AdminEmail \in Emails
    /\ None \notin UserRows
    /\ None \notin Ids \cup Emails \cup Usernames \cup Requests \cup Answers
    /\ \A b \in Bodies :
          /\ b.op = "create" =>
                b.name \in Names /\ b.email \in Emails /\ b.password \in Passwords /\ b.role # None
          /\ b.op = "bootstrap" =>
                b.name \in Names /\ b.email = AdminEmail /\ b.password \in ValidPasswords
                /\ b.username = None /\ b.role = "admin"
          /\ b.op \in {"rename", "firstAccess"} => b.username \in Usernames
          /\ b.op = "setRole" => b.role # None
          /\ b.op = "changePassword" => b.password \in Passwords
          /\ b.op \notin {"create", "bootstrap"} => b.user \in Ids

VARIABLES
    users,   \* the users rows, by id
    req,     \* the state of each request
    wrote,   \* history variable: the columns a request has written
    origin   \* history variable: the request that created each user

vars == <<users, req, wrote, origin>>

-----------------------------------------------------------------------------
(* A request. pc names its next statement; answer is what its client gets. *)

Statements == {"ListUsers", "CreateUser", "SetName", "GetUserByID", "SetUsername",
               "UpdateUsername", "SetRole", "SetActive", "SetPasswordHash"}

IdleRequest == [pc |-> "idle", body |-> None, row |-> None, answer |-> None]

Rows == {i \in Ids : users[i] # None}

Body(r) == req[r].body

\* Faulty: nobody looks at the length of a password.
WellFormedAnyPassword(b) ==
    b.op \in {"create", "rename", "firstAccess", "updateProfile"} =>
        b.username \in Optional(ValidUsernames)

\* What the handlers check before the first statement. Nobody looks at the form
\* of an email.
WellFormed(b) ==
    /\ b.op \in {"create", "changePassword"} => b.password \in ValidPasswords
    /\ b.op \in {"create", "rename", "firstAccess", "updateProfile"} =>
          b.username \in Optional(ValidUsernames)
    /\ b.op = "updateProfile" => b.name # EmptyName

FirstStatement(b) ==
    CASE b.op = "bootstrap"      -> "ListUsers"
      [] b.op = "create"         -> "CreateUser"
      [] b.op = "rename"         -> "UpdateUsername"
      [] b.op = "setRole"        -> "SetRole"
      [] b.op = "setActive"      -> "SetActive"
      [] b.op = "firstAccess"    -> "SetUsername"
      [] b.op = "changePassword" -> "GetUserByID"
      [] b.op = "updateProfile"  -> IF b.name # None THEN "SetName" ELSE "GetUserByID"

Answer(r, answer) == req' = [req EXCEPT ![r].pc = "answered", ![r].answer = answer]

Goto(r, statement) == req' = [req EXCEPT ![r].pc = statement]

Refuse(r, answer) == Answer(r, answer) /\ UNCHANGED <<users, wrote, origin>>

\* The answer to an unexpected error of a statement.
ErrorAnswer(r) == IF Body(r).op \in {"create", "setRole"} THEN "bad" ELSE "error"

\* The statement wrote row u and is the request's last: its reply comes, or
\* is lost and the handler sees an error.
WriteAndAnswer(r, u, column, row) ==
    /\ users' = [users EXCEPT ![u] = row]
    /\ wrote' = [wrote EXCEPT ![r] = @ \cup {column}]
    /\ Answer(r, "ok") \/ Answer(r, ErrorAnswer(r))
    /\ UNCHANGED origin

\* Faulty: only the index on usernames exists.
UsernameTaken(email, username, u) ==
    \E v \in Rows \ {u} : username # None /\ users[v].username = username

\* The unique indexes on users.email and users.username; NULL equals nothing.
\* u is the row written, None if it is new.
Taken(email, username, u) ==
    \E v \in Rows \ {u} :
        \/ users[v].email = email
        \/ username # None /\ users[v].username = username

-----------------------------------------------------------------------------
Init ==
    /\ users = [i \in Ids |-> None]
    /\ req = [r \in Requests |-> IdleRequest]
    /\ wrote = [r \in Requests |-> {}]
    /\ origin = [i \in Ids |-> None]

\* EnsureAdmin runs when a process starts. Every other request passed the
\* middleware, so there is a user it comes from; an access token outlives a
\* demotion and a deactivation, so any of them may send any request. A /me
\* request acts on the user of its claims, who exists.
Arrive(r) ==
    /\ req[r].pc = "idle"
    /\ \E b \in Bodies :
          /\ b.op # "bootstrap" => Rows # {}
          /\ b.op \in {"firstAccess", "changePassword", "updateProfile"} => b.user \in Rows
          /\ req' = [req EXCEPT ![r] =
                        IF WellFormed(b)
                        THEN [@ EXCEPT !.pc = FirstStatement(b), !.body = b]
                        ELSE [@ EXCEPT !.pc = "answered", !.body = b, !.answer = "bad"]]
    /\ UNCHANGED <<users, wrote, origin>>

ListUsers(r) ==
    /\ req[r].pc = "ListUsers"
    /\ IF Rows = {} THEN Goto(r, "CreateUser") ELSE Answer(r, "ok")
    /\ UNCHANGED <<users, wrote, origin>>

NewRow(b) == [name |-> b.name, email |-> b.email, username |-> b.username,
              password |-> b.password, role |-> b.role, active |-> TRUE]

\* username is optional; role must be one of the rows of roles. EnsureAdmin
\* makes an error of its process out of any failure.
CreateUser(r) ==
    /\ req[r].pc = "CreateUser"
    /\ LET b == Body(r)
           Failed(answer) == Refuse(r, IF b.op = "bootstrap" THEN "error" ELSE answer)
       IN  IF Taken(b.email, b.username, None) THEN Failed("conflict")
           ELSE IF b.role \notin Roles THEN Failed("bad")
           ELSE \E i \in Ids \ Rows :
                   /\ users' = [users EXCEPT ![i] = NewRow(b)]
                   /\ origin' = [origin EXCEPT ![i] = r]
                   /\ Answer(r, "ok") \/ Answer(r, ErrorAnswer(r))
                   /\ UNCHANGED wrote

SetName(r) ==
    /\ req[r].pc = "SetName"
    /\ LET u == Body(r).user
       IN  /\ users' = [users EXCEPT ![u].name = Body(r).name]
           /\ wrote' = [wrote EXCEPT ![r] = @ \cup {"name"}]
           /\ Goto(r, "GetUserByID") \/ Answer(r, "error")
           /\ UNCHANGED origin

\* For changePassword and updateProfile. The row stays in the handler's user.
GetUserByID(r) ==
    /\ req[r].pc = "GetUserByID"
    /\ LET b == Body(r)
           row == users[b.user]
           Then(statement) == req' = [req EXCEPT ![r].pc = statement, ![r].row = row]
       IN  IF b.op = "changePassword"
           THEN IF row.password = b.current THEN Then("SetPasswordHash") ELSE Answer(r, "unauthorized")
           ELSE IF b.username # None THEN Then("UpdateUsername") ELSE Answer(r, "ok")
    /\ UNCHANGED <<users, wrote, origin>>

SetPasswordHash(r) ==
    /\ req[r].pc = "SetPasswordHash"
    /\ LET u == Body(r).user
       IN  WriteAndAnswer(r, u, "password", [users[u] EXCEPT !.password = Body(r).password])

\* Faulty: the UPDATE does not ask that username be NULL.
SetUsernameAnyway(r) ==
    /\ req[r].pc = "SetUsername"
    /\ LET u == Body(r).user
       IN  IF Taken(users[u].email, Body(r).username, u)
           THEN Refuse(r, "conflict")
           ELSE WriteAndAnswer(r, u, "username", [users[u] EXCEPT !.username = Body(r).username])

\* Primeiro Acesso: no row when a username is set, an error when it is taken.
\* Both are answered 409.
SetUsername(r) ==
    /\ req[r].pc = "SetUsername"
    /\ LET u == Body(r).user
       IN  IF users[u].username # None \/ Taken(users[u].email, Body(r).username, u)
           THEN Refuse(r, "conflict")
           ELSE WriteAndAnswer(r, u, "username", [users[u] EXCEPT !.username = Body(r).username])

\* Faulty: writes back the row that GetUserByID read.
UpdateWholeRow(r) ==
    /\ req[r].pc = "UpdateUsername"
    /\ LET b == Body(r)
           u == b.user
           row == IF req[r].row # None THEN req[r].row ELSE users[u]
       IN  IF u \notin Rows
           THEN Refuse(r, "missing")
           ELSE IF Taken(users[u].email, b.username, u)
           THEN Refuse(r, "conflict")
           ELSE WriteAndAnswer(r, u, "username", [row EXCEPT !.username = b.username])

\* Faulty: UpdateProfile takes a username in use for success.
UpdateUsernameSilently(r) ==
    /\ req[r].pc = "UpdateUsername"
    /\ LET b == Body(r)
           u == b.user
       IN  IF u \notin Rows
           THEN Refuse(r, "missing")
           ELSE IF Taken(users[u].email, b.username, u)
           THEN Refuse(r, IF b.op = "updateProfile" THEN "ok" ELSE "conflict")
           ELSE WriteAndAnswer(r, u, "username", [users[u] EXCEPT !.username = b.username])

\* The admin's rename and the last statement of updateProfile.
UpdateUsername(r) ==
    /\ req[r].pc = "UpdateUsername"
    /\ LET b == Body(r)
           u == b.user
       IN  IF u \notin Rows
           THEN Refuse(r, "missing")
           ELSE IF Taken(users[u].email, b.username, u)
           THEN Refuse(r, "conflict")
           ELSE WriteAndAnswer(r, u, "username", [users[u] EXCEPT !.username = b.username])

SetRole(r) ==
    /\ req[r].pc = "SetRole"
    /\ LET b == Body(r)
           u == b.user
       IN  IF u \notin Rows
           THEN Refuse(r, "missing")
           ELSE IF b.role \notin Roles
           THEN Refuse(r, "bad")
           ELSE WriteAndAnswer(r, u, "role", [users[u] EXCEPT !.role = b.role])

SetActive(r) ==
    /\ req[r].pc = "SetActive"
    /\ LET b == Body(r)
           u == b.user
       IN  IF u \notin Rows
           THEN Refuse(r, "missing")
           ELSE WriteAndAnswer(r, u, "active", [users[u] EXCEPT !.active = b.active])

\* A statement fails and wrote nothing.
Fail(r) ==
    /\ req[r].pc \in Statements
    /\ Refuse(r, ErrorAnswer(r))

Statement(r) ==
    \/ ListUsers(r)
    \/ CreateUser(r)
    \/ SetName(r)
    \/ GetUserByID(r)
    \/ SetPasswordHash(r)
    \/ SetUsername(r)
    \/ UpdateUsername(r)
    \/ SetRole(r)
    \/ SetActive(r)

Next == \E r \in Requests : Arrive(r) \/ Statement(r) \/ Fail(r)

Spec == Init /\ [][Next]_vars

-----------------------------------------------------------------------------
\* The type of every variable.
TypeOK ==
    /\ users \in [Ids -> Optional(UserRows)]
    /\ req \in [Requests -> [pc : {"idle", "answered"} \cup Statements,
                           body : Optional(Bodies), row : Optional(UserRows),
                           answer : Optional(Answers)]]
    /\ wrote \in [Requests -> SUBSET Columns]
    /\ origin \in [Ids -> Optional(Requests)]

\* EnsureAdmin creates a user in an empty table only, though it looks at the
\* table in one statement and inserts in another, and two processes may start
\* at once or one start again (admin.go:13-15 "se, e somente se, a tabela de
\* Users estiver vazia").
BootstrapOnlyWhenEmpty ==
    [][\A i \in Ids :
          origin'[i] # origin[i] /\ Body(origin'[i]).op = "bootstrap" => Rows = {}]_vars

\* A first access names only a user who has no username, and nobody's username
\* is ever taken away: so it happens once, whatever number of devices or tabs
\* offer it, and never after an admin or the profile has named the user
\* meanwhile (me_handler.go:86-102).
FirstAccessOnce ==
    [][/\ \A r \in Requests :
             wrote'[r] # wrote[r] /\ Body(r).op = "firstAccess" =>
                 users[Body(r).user].username = None
       /\ \A u \in Rows : users[u].username # None => users'[u].username # None]_vars

\* The columns a body asks to write.
Asked(b) ==
    CASE b.op \in {"rename", "firstAccess"} -> {"username"}
      [] b.op = "setRole"                  -> {"role"}
      [] b.op = "setActive"                -> {"active"}
      [] b.op = "changePassword"           -> {"password"}
      [] b.op = "updateProfile"            -> {c \in {"name", "username"} : b[c] # None}
      [] OTHER                             -> {}

\* No request takes back what another one wrote meanwhile: a column of a user
\* changes only to the value that a request of its own column brings, so an
\* admin's demotion stands against a profile update that read the row before it
\* (me_handler.go:180-207; "Campos omitidos (nil) nao sao alterados").
OmittedColumnsStay ==
    [][\A u \in Rows, c \in Columns :
          users'[u][c] # users[u][c] =>
              \E r \in Requests : /\ req'[r] # req[r]
                                  /\ Body(r).user = u
                                  /\ c \in Asked(Body(r))
                                  /\ users'[u][c] = Body(r)[c]]_vars

\* create and setRole answer 400 to an error they do not expect, as they do to a
\* role that does not exist (user_handler.go:95, 187). This is the former.
Unexpected(b) == b.op \in {"create", "setRole"} /\ WellFormed(b) /\ b.role \in Roles

\* An answer tells what was done: success means that every field asked for was
\* written, and a user created; a refusal that nothing was, but for the name of
\* a profile update, which is written before the username is found taken
\* (me_handler.go:183-207). In doubt are an error, and the 400 that is one: a
\* creation or a change of role may be answered 400 after it was committed.
AnswersAreHonest ==
    \A r \in Requests :
        LET b == Body(r)
            created == \E i \in Ids : origin[i] = r
            untouched == /\ wrote[r] \subseteq IF b.op = "updateProfile" THEN {"name"} ELSE {}
                         /\ ~ created
        IN  /\ req[r].answer = "ok" => /\ wrote[r] = Asked(b)
                                       /\ b.op = "create" => created
            /\ req[r].answer \in {"unauthorized", "missing", "conflict"} => untouched
            /\ req[r].answer = "bad" => untouched \/ Unexpected(b)

-----------------------------------------------------------------------------
(* What a document says and the code does not do.                          *)

\* Whatever is typed in the login field is one user's or nobody's: the field
\* takes an email or a username, and a username is the unique identifier of
\* its user (CONTEXT.md:56). The two unique indexes do not look at each other,
\* and the email of a new user may be any text, another's username as well
\* (GetUserByEmailOrUsername, users.sql.go:74-93, takes one row of the two).
LoginsDenoteOneUser ==
    \A login \in Emails \cup ValidUsernames : \A u, v \in Rows :
        /\ login \in {users[u].email, users[u].username}
        /\ login \in {users[v].email, users[v].username}
        => u = v

=============================================================================
