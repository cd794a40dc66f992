----------------------------- MODULE Users_proofs -----------------------------
(***************************************************************************)
(* Proofs about Users, for any users, requests and bodies. A step is the   *)
(* step of one request, and is of one of three kinds: it reads or is       *)
(* refused, it writes one column of one user, or it creates a user.        *)
(***************************************************************************)
EXTENDS Users, TLAPS

RequestStates == [pc : {"idle", "answered"} \cup Statements, body : Optional(Bodies),
                  row : Optional(UserRows), answer : Optional(Answers)]

-----------------------------------------------------------------------------
(* The inductive invariant.                                                *)

Created(r) == \E i \in Ids : origin[i] = r

OfOneself == {"firstAccess", "changePassword", "updateProfile"}

\* The statement a request is at is one of its operation, and has the body it needs.
AtItsStatement(r) ==
    /\ req[r].pc = "idle" => req[r] = IdleRequest
    /\ req[r].pc # "idle" => Body(r) \in Bodies
    /\ req[r].pc \in Statements => WellFormed(Body(r)) /\ req[r].answer = None
    /\ req[r].pc = "ListUsers" => Body(r).op = "bootstrap"
    /\ req[r].pc = "CreateUser" => Body(r).op \in {"bootstrap", "create"}
    /\ req[r].pc = "SetName" => Body(r).op = "updateProfile" /\ Body(r).name # None
    /\ req[r].pc = "GetUserByID" => Body(r).op \in {"changePassword", "updateProfile"}
    /\ req[r].pc = "SetUsername" => Body(r).op = "firstAccess"
    /\ req[r].pc = "UpdateUsername" =>
          /\ Body(r).op \in {"rename", "updateProfile"}
          /\ Body(r).username # None
    /\ req[r].pc = "SetRole" => Body(r).op = "setRole"
    /\ req[r].pc = "SetActive" => Body(r).op = "setActive"
    /\ req[r].pc = "SetPasswordHash" => Body(r).op = "changePassword"

\* What it has found when it got there: a user who asks for himself exists,
\* and a user is only created by somebody.
Found(r) ==
    req[r].pc # "idle" =>
        /\ Body(r).op \in OfOneself => Body(r).user \in Rows
        /\ Body(r).op = "create" => Rows # {}

\* What a request has done so far: nothing but the name of a profile, until it
\* is answered.
DoneSoFar(r) ==
    /\ req[r].pc = "idle" => wrote[r] = {}
    /\ req[r].pc \in Statements =>
          wrote[r] = IF /\ Body(r).op = "updateProfile"
                        /\ Body(r).name # None
                        /\ req[r].pc # "SetName"
                     THEN {"name"} ELSE {}
    /\ Created(r) => req[r].pc = "answered"

Untouched(r) ==
    /\ wrote[r] \subseteq IF Body(r).op = "updateProfile" THEN {"name"} ELSE {}
    /\ ~ Created(r)

HonestAnswer(r) ==
    /\ req[r].answer = "ok" => /\ wrote[r] = Asked(Body(r))
                               /\ Body(r).op = "create" => Created(r)
    /\ req[r].answer \in {"unauthorized", "missing", "conflict"} => Untouched(r)
    /\ req[r].answer = "bad" => Untouched(r) \/ Unexpected(Body(r))

RequestInv(r) == AtItsStatement(r) /\ Found(r) /\ DoneSoFar(r) /\ HonestAnswer(r)

\* Every user has been created by a request, which is over.
EveryUserHasOrigin == \A i \in Ids : origin[i] # None <=> users[i] # None

\* Emails do not change and the first user is the bootstrap's, so its email
\* is always taken: another bootstrap finds it.
AdminKept == Rows # {} => \E u \in Rows : users[u].email = AdminEmail

Inv ==
    /\ TypeOK
    /\ \A r \in Requests : RequestInv(r)
    /\ EveryUserHasOrigin
    /\ AdminKept

-----------------------------------------------------------------------------
(* How a request moves.                                                    *)

\* Everybody else stays where it is.
OthersStay(r) == \A d \in Requests \ {r} : req'[d] = req[d] /\ wrote'[d] = wrote[d]

\* r goes to pc with the body it has.
MovesTo(r, pc, answer) ==
    /\ req' \in [Requests -> RequestStates]
    /\ req'[r].pc = pc
    /\ req'[r].body = req[r].body
    /\ req'[r].answer = answer
    /\ \A d \in Requests \ {r} : req'[d] = req[d]

LEMMA Typed ==
    ASSUME Inv
    PROVE  /\ users \in [Ids -> Optional(UserRows)]
           /\ req \in [Requests -> RequestStates]
           /\ wrote \in [Requests -> SUBSET Columns]
           /\ origin \in [Ids -> Optional(Requests)]
<1> QED
  BY DEF Inv, TypeOK, RequestStates

LEMMA NoneIsNone ==
    /\ None \notin UserRows /\ None \notin Emails /\ None \notin Usernames /\ None \notin ValidUsernames
    /\ None \notin Ids /\ None \notin Requests /\ None \notin Answers
<1> QED
  BY ConstantsAssumption

LEMMA AnswerMoves ==
    ASSUME Inv, NEW r \in Requests, NEW answer \in Answers, Answer(r, answer)
    PROVE  MovesTo(r, "answered", answer)
<1> DEFINE n == [req[r] EXCEPT !.pc = "answered", !.answer = answer]
<1>1. req[r] \in RequestStates
  BY Typed
<1>2. n \in RequestStates /\ n.pc = "answered" /\ n.body = req[r].body /\ n.answer = answer
  BY <1>1 DEF RequestStates, Optional
<1>3. req' = [req EXCEPT ![r] = n]
  BY Typed DEF Answer
<1> HIDE DEF n
<1> QED
  BY <1>2, <1>3, Typed DEF MovesTo

LEMMA GotoMoves ==
    ASSUME Inv, NEW r \in Requests, NEW statement \in Statements, Goto(r, statement)
    PROVE  MovesTo(r, statement, req[r].answer)
<1> DEFINE n == [req[r] EXCEPT !.pc = statement]
<1>1. req[r] \in RequestStates
  BY Typed
<1>2. n \in RequestStates /\ n.pc = statement /\ n.body = req[r].body /\ n.answer = req[r].answer
  BY <1>1 DEF RequestStates, Statements
<1>3. req' = [req EXCEPT ![r] = n]
  BY Typed DEF Goto
<1> HIDE DEF n
<1> QED
  BY <1>2, <1>3, Typed DEF MovesTo

LEMMA ErrorAnswers == ASSUME NEW r \in Requests PROVE ErrorAnswer(r) \in {"bad", "error"}
<1> QED
  BY DEF ErrorAnswer

\* What a body may hold.
LEMMA BodyFields ==
    ASSUME NEW b \in Bodies
    PROVE  /\ b.op \in Operations
           /\ b.user \in Optional(Ids) /\ b.name \in Optional(Names) /\ b.email \in Optional(Emails)
           /\ b.username \in Optional(Usernames) /\ b.password \in Optional(Passwords)
           /\ b.role \in Optional(Roles \cup {"root"}) /\ b.active \in BOOLEAN
           /\ b.op \notin {"create", "bootstrap"} => b.user \in Ids
<1> QED
  BY ConstantsAssumption DEF BodyRecords

-----------------------------------------------------------------------------
(* The three kinds of steps.                                               *)

\* r reads, is refused, arrives or fails.
Looks(r) ==
    /\ OthersStay(r)
    /\ req[r].pc # "answered"
    /\ req[r].pc = "idle" \/ req'[r].body = req[r].body
    /\ users' = users /\ wrote' = wrote /\ origin' = origin

\* r writes a column of its user.
Writes(r, c) ==
    /\ OthersStay(r)
    /\ req[r].pc \in Statements
    /\ req'[r].body = req[r].body
    /\ req'[r].pc # req[r].pc
    /\ c \in Asked(Body(r)) \cap Columns
    /\ Body(r).user \in Rows
    /\ users' \in [Ids -> Optional(UserRows)]
    /\ \A v \in Ids \ {Body(r).user} : users'[v] = users[v]
    /\ users'[Body(r).user] \in UserRows
    /\ users'[Body(r).user].email = users[Body(r).user].email
    /\ users'[Body(r).user][c] = Body(r)[c]
    /\ \A d \in Columns \ {c} : users'[Body(r).user][d] = users[Body(r).user][d]
    /\ wrote' = [wrote EXCEPT ![r] = @ \cup {c}]
    /\ origin' = origin

\* r creates user i.
Creates(r, i) ==
    /\ OthersStay(r)
    /\ req[r].pc = "CreateUser"
    /\ req'[r].pc = "answered"
    /\ req'[r].body = req[r].body
    /\ i \in Ids \ Rows
    /\ users' = [users EXCEPT ![i] = NewRow(Body(r))]
    /\ NewRow(Body(r)) \in UserRows
    /\ ~ Taken(Body(r).email, Body(r).username, None)
    /\ wrote' = wrote
    /\ origin' = [origin EXCEPT ![i] = r]

\* A username is written by nobody whose user has one already, if it is a
\* first access.
MayName(r) ==
    LET u == Body(r).user
    IN  /\ Body(r).username \in ValidUsernames
        /\ Body(r).op = "firstAccess" => users[u].username = None

\* Whoever does not move stands as before: rows are not removed.
LEMMA OthersKeep ==
    ASSUME Inv, NEW r \in Requests, OthersStay(r), Rows \subseteq Rows',
           NEW d \in Requests \ {r}, Created(d)' <=> Created(d)
    PROVE  RequestInv(d)'
<1>1. req'[d] = req[d] /\ wrote'[d] = wrote[d] /\ RequestInv(d)
  BY DEF OthersStay, Inv
<1>2. AtItsStatement(d)'
  BY <1>1 DEF RequestInv, AtItsStatement, Body
<1>3. Found(d)'
  <2>1. Found(d)
    BY <1>1 DEF RequestInv
  <2> QED
    BY <1>1, <2>1 DEF Found, Body
<1>4. DoneSoFar(d)'
  BY <1>1 DEF RequestInv, DoneSoFar, Body
<1>5. HonestAnswer(d)'
  <2>1. Body(d)' = Body(d)
    BY <1>1 DEF Body
  <2>2. Untouched(d)' <=> Untouched(d)
    BY <1>1, <2>1 DEF Untouched
  <2> QED
    BY <1>1, <2>1, <2>2 DEF RequestInv, HonestAnswer
<1> QED
  BY <1>2, <1>3, <1>4, <1>5 DEF RequestInv

LEMMA LooksKeeps ==
    ASSUME Inv, NEW r \in Requests, Looks(r), req' \in [Requests -> RequestStates], RequestInv(r)'
    PROVE  Inv'
<1> USE DEF Looks
<1>1. TypeOK'
  BY Typed DEF TypeOK, RequestStates
<1>2. Rows' = Rows /\ \A d \in Requests : Created(d)' <=> Created(d)
  BY DEF Rows, Created
<1>3. \A d \in Requests : RequestInv(d)'
  BY <1>2, OthersKeep
<1>4. EveryUserHasOrigin' /\ AdminKept'
  BY <1>2 DEF Inv, EveryUserHasOrigin, AdminKept
<1> QED
  BY <1>1, <1>3, <1>4 DEF Inv

LEMMA WritesKeeps ==
    ASSUME Inv, NEW r \in Requests, NEW c \in Columns, Writes(r, c),
           req' \in [Requests -> RequestStates], RequestInv(r)'
    PROVE  Inv'
<1> DEFINE u == Body(r).user
<1>u. u \in Rows /\ u \in Ids /\ users[u] \in UserRows
  BY Typed DEF Writes, Rows, Optional
<1>1. TypeOK'
  <2>1. wrote' \in [Requests -> SUBSET Columns]
    BY Typed DEF Writes
  <2> QED
    BY <2>1, Typed DEF TypeOK, RequestStates, Writes
<1>2. Rows' = Rows /\ \A d \in Requests : Created(d)' <=> Created(d)
  BY <1>u, NoneIsNone DEF Rows, Created, Writes
<1>3. \A d \in Requests : RequestInv(d)'
  BY <1>2, OthersKeep DEF Writes
<1>4. EveryUserHasOrigin'
  BY <1>u, NoneIsNone DEF Inv, EveryUserHasOrigin, Writes, Rows
<1>5. \A v \in Rows : users'[v].email = users[v].email
  BY DEF Writes, Rows
<1>6. AdminKept'
  BY <1>2, <1>5 DEF Inv, AdminKept
<1> QED
  BY <1>1, <1>3, <1>4, <1>6 DEF Inv

LEMMA CreatesKeeps ==
    ASSUME Inv, NEW r \in Requests, NEW i \in Ids, Creates(r, i),
           req' \in [Requests -> RequestStates], RequestInv(r)'
    PROVE  Inv'
<1> DEFINE b == Body(r)
           row == NewRow(b)
<1>1. row.email = b.email /\ row.username = b.username
  BY DEF NewRow
<1>2. /\ users'[i] = row /\ row \in UserRows /\ row # None
      /\ \A v \in Ids \ {i} : users'[v] = users[v]
      /\ i \notin Rows
  BY Typed, NoneIsNone DEF Creates
<1>3. Rows' = Rows \cup {i}
  BY <1>2 DEF Rows
<1> HIDE DEF row
<1>4. /\ origin'[i] = r
      /\ \A v \in Ids \ {i} : origin'[v] = origin[v]
  BY Typed DEF Creates
<1>5. origin[i] = None
  BY <1>2 DEF Inv, EveryUserHasOrigin, Rows
<1>6. \A d \in Requests \ {r} : Created(d)' <=> Created(d)
  BY <1>4, <1>5, NoneIsNone DEF Created
<1>7. TypeOK'
  <2>1. users' \in [Ids -> Optional(UserRows)]
    BY Typed DEF Creates, Optional
  <2>2. origin' \in [Ids -> Optional(Requests)]
    BY Typed DEF Creates, Optional
  <2>3. wrote' \in [Requests -> SUBSET Columns]
    BY Typed DEF Creates
  <2> QED
    BY <2>1, <2>2, <2>3 DEF TypeOK, RequestStates
<1>8. \A d \in Requests : RequestInv(d)'
  BY <1>3, <1>6, OthersKeep DEF Creates
<1>9. EveryUserHasOrigin'
  BY <1>2, <1>4, NoneIsNone DEF Inv, EveryUserHasOrigin
<1>10. \A v \in Rows : users'[v] = users[v]
  BY <1>2 DEF Rows
<1>11. AdminKept'
  <2>1. CASE Rows = {}
    <3>1. b.op = "bootstrap"
      BY <2>1 DEF Inv, RequestInv, AtItsStatement, Found, Creates
    <3>2. b \in Bodies
      BY DEF Inv, RequestInv, AtItsStatement, Creates
    <3>3. b.email = AdminEmail
      BY <3>1, <3>2, ConstantsAssumption
    <3> QED
      BY <3>3, <1>1, <1>2, <1>3 DEF AdminKept
  <2>2. CASE Rows # {}
    BY <2>2, <1>3, <1>10 DEF Inv, AdminKept
  <2> QED
    BY <2>1, <2>2
<1> QED
  BY <1>7, <1>8, <1>9, <1>11 DEF Inv

-----------------------------------------------------------------------------
(* Every action is one of the three.                                       *)

StepOf(r) ==
    /\ req' \in [Requests -> RequestStates]
    /\ RequestInv(r)'
    /\ \/ Looks(r)
       \/ \E c \in Columns : Writes(r, c) /\ (c = "username" => MayName(r))
       \/ \E i \in Ids : Creates(r, i)

LEMMA StepOfKeeps == ASSUME Inv, NEW r \in Requests, StepOf(r) PROVE Inv'
<1> QED
  BY LooksKeeps, WritesKeeps, CreatesKeeps DEF StepOf

LEMMA AtStatement ==
    ASSUME Inv, NEW r \in Requests, req[r].pc \in Statements
    PROVE  /\ AtItsStatement(r) /\ Found(r) /\ DoneSoFar(r)
           /\ Body(r) \in Bodies /\ WellFormed(Body(r)) /\ req[r].answer = None
           /\ ~ Created(r)
           /\ req[r].pc \notin {"idle", "answered"}
<1> QED
  BY DEF Inv, RequestInv, AtItsStatement, DoneSoFar, Statements

LEMMA RefuseStands ==
    ASSUME Inv, NEW r \in Requests, req[r].pc \in Statements, NEW answer \in Answers,
           Refuse(r, answer),
           answer = "ok" => wrote[r] = Asked(Body(r)) /\ Body(r).op # "create"
    PROVE  StepOf(r)
<1>1. MovesTo(r, "answered", answer)
  BY AnswerMoves DEF Refuse
<1>2. users' = users /\ wrote' = wrote /\ origin' = origin
  BY DEF Refuse
<1>3. Looks(r)
  BY <1>1, <1>2, AtStatement DEF Looks, OthersStay, MovesTo, Body
<1>4. Body(r)' = Body(r) /\ (Rows = Rows') /\ (Created(r)' <=> Created(r))
  BY <1>1, <1>2 DEF MovesTo, Body, Rows, Created
<1>5. AtItsStatement(r)' /\ Found(r)' /\ DoneSoFar(r)'
  BY <1>1, <1>4, AtStatement DEF AtItsStatement, Found, DoneSoFar, MovesTo, Statements
<1>6. HonestAnswer(r)'
  BY <1>1, <1>2, <1>4, AtStatement DEF HonestAnswer, Untouched, DoneSoFar, MovesTo
<1> QED
  BY <1>1, <1>3, <1>5, <1>6 DEF StepOf, RequestInv, MovesTo

\* The last statement of a request wrote a column of its user.
LEMMA WriteStands ==
    ASSUME Inv, NEW r \in Requests, req[r].pc \in Statements,
           NEW c \in Columns, Asked(Body(r)) = wrote[r] \cup {c},
           c = "username" => MayName(r),
           Body(r).user \in Rows, Body(r).op # "create",
           Body(r).op = "setRole" => Body(r).role \in Roles,
           NEW row \in UserRows, row.email = users[Body(r).user].email, row[c] = Body(r)[c],
           \A d \in Columns \ {c} : row[d] = users[Body(r).user][d],
           WriteAndAnswer(r, Body(r).user, c, row)
    PROVE  StepOf(r)
<1>1. PICK answer \in {"ok", ErrorAnswer(r)} : MovesTo(r, "answered", answer)
  BY AnswerMoves, ErrorAnswers DEF WriteAndAnswer, Answers
<1>2. /\ users' = [users EXCEPT ![Body(r).user] = row]
      /\ wrote' = [wrote EXCEPT ![r] = @ \cup {c}]
      /\ origin' = origin
  BY DEF WriteAndAnswer
<1>3. Body(r).user \in Ids
  BY DEF Rows
<1>4. /\ users' \in [Ids -> Optional(UserRows)]
      /\ users'[Body(r).user] = row
      /\ \A v \in Ids \ {Body(r).user} : users'[v] = users[v]
  BY <1>2, <1>3, Typed DEF Optional
<1>5. wrote'[r] = Asked(Body(r)) /\ \A d \in Requests \ {r} : wrote'[d] = wrote[d]
  BY <1>2, Typed
<1>6. Writes(r, c)
  BY <1>1, <1>2, <1>4, <1>5, AtStatement DEF Writes, OthersStay, MovesTo
<1>7. Body(r)' = Body(r) /\ Rows \subseteq Rows' /\ (Created(r)' <=> Created(r))
  BY <1>1, <1>2, <1>4, NoneIsNone DEF MovesTo, Body, Rows, Created
<1>8. AtItsStatement(r)' /\ Found(r)'
  BY <1>1, <1>7, AtStatement DEF AtItsStatement, Found, MovesTo, Statements
<1>9. DoneSoFar(r)'
  BY <1>1, <1>7, AtStatement DEF DoneSoFar, MovesTo, Statements
<1>10. HonestAnswer(r)'
  <2>1. answer = "bad" => Unexpected(Body(r))
    BY <1>1, AtStatement DEF ErrorAnswer, Unexpected
  <2>2. answer \in {"ok", "bad", "error"}
    BY ErrorAnswers
  <2> QED
    BY <1>1, <1>5, <1>7, <2>1, <2>2 DEF HonestAnswer, MovesTo
<1> QED
  BY <1>1, <1>6, <1>8, <1>9, <1>10 DEF StepOf, RequestInv, MovesTo

LEMMA FailStands == ASSUME Inv, NEW r \in Requests, Fail(r) PROVE StepOf(r)
<1> QED
  BY RefuseStands, ErrorAnswers DEF Fail, Answers

LEMMA ArriveStands == ASSUME Inv, NEW r \in Requests, Arrive(r) PROVE StepOf(r)
<1>1. PICK b \in Bodies :
         /\ b.op # "bootstrap" => Rows # {}
         /\ b.op \in OfOneself => b.user \in Rows
         /\ req' = [req EXCEPT ![r] =
                       IF WellFormed(b)
                       THEN [@ EXCEPT !.pc = FirstStatement(b), !.body = b]
                       ELSE [@ EXCEPT !.pc = "answered", !.body = b, !.answer = "bad"]]
  BY DEF Arrive, OfOneself
<1>2. req[r].pc = "idle" /\ users' = users /\ wrote' = wrote /\ origin' = origin
  BY DEF Arrive
<1>3. req[r] = IdleRequest /\ wrote[r] = {} /\ ~ Created(r)
  BY <1>2 DEF Inv, RequestInv, AtItsStatement, DoneSoFar
<1>4. b.op \in Operations
  BY BodyFields
<1>5. FirstStatement(b) \in Statements
  BY <1>4 DEF FirstStatement, Statements, Operations
<1>6. /\ req[r] \in RequestStates /\ req[r].answer = None
      /\ b \in Optional(Bodies) /\ "bad" \in Optional(Answers)
  BY <1>3, Typed DEF IdleRequest, Optional, Answers
<1>7. CASE WellFormed(b)
  <2> DEFINE n == [req[r] EXCEPT !.pc = FirstStatement(b), !.body = b]
  <2>1. /\ n \in RequestStates /\ n.body = b /\ n.pc = FirstStatement(b) /\ n.answer = None
    BY <1>5, <1>6 DEF RequestStates
  <2>2. req' = [req EXCEPT ![r] = n]
    BY <1>1, <1>7
  <2> HIDE DEF n
  <2>3. /\ req' \in [Requests -> RequestStates] /\ req'[r] = n
        /\ \A d \in Requests \ {r} : req'[d] = req[d]
    BY <2>1, <2>2, Typed
  <2>4. Body(r)' = b /\ Rows' = Rows /\ (Created(r)' <=> Created(r))
    BY <1>2, <2>1, <2>3 DEF Body, Rows, Created
  <2>5. AtItsStatement(r)'
    BY <1>4, <1>5, <1>7, <2>1, <2>3, <2>4, ConstantsAssumption, NoneIsNone
       DEF AtItsStatement, FirstStatement, Statements, Operations
  <2>6. DoneSoFar(r)'
    BY <1>2, <1>3, <1>4, <1>5, <2>1, <2>3, <2>4 DEF DoneSoFar, FirstStatement, Statements, Operations
  <2>7. HonestAnswer(r)'
    BY <2>1, <2>3, NoneIsNone DEF HonestAnswer, Answers
  <2>8. Looks(r) /\ Found(r)'
    BY <1>1, <1>2, <2>3, <2>4 DEF Looks, OthersStay, Found
  <2> QED
    BY <2>3, <2>5, <2>6, <2>7, <2>8 DEF StepOf, RequestInv
<1>8. CASE ~ WellFormed(b)
  <2> DEFINE n == [req[r] EXCEPT !.pc = "answered", !.body = b, !.answer = "bad"]
  <2>1. /\ n \in RequestStates /\ n.body = b /\ n.pc = "answered" /\ n.answer = "bad"
    BY <1>6 DEF RequestStates
  <2>2. req' = [req EXCEPT ![r] = n]
    BY <1>1, <1>8
  <2> HIDE DEF n
  <2>3. /\ req' \in [Requests -> RequestStates] /\ req'[r] = n
        /\ \A d \in Requests \ {r} : req'[d] = req[d]
    BY <2>1, <2>2, Typed
  <2>4. Body(r)' = b /\ Rows' = Rows /\ (Created(r)' <=> Created(r))
    BY <1>2, <2>1, <2>3 DEF Body, Rows, Created
  <2>5. AtItsStatement(r)' /\ DoneSoFar(r)' /\ HonestAnswer(r)'
    BY <1>2, <1>3, <2>1, <2>3, <2>4
       DEF AtItsStatement, DoneSoFar, HonestAnswer, Untouched, Statements
  <2>6. Looks(r) /\ Found(r)'
    BY <1>1, <1>2, <2>3, <2>4 DEF Looks, OthersStay, Found
  <2> QED
    BY <2>3, <2>5, <2>6 DEF StepOf, RequestInv
<1> QED
  BY <1>7, <1>8

\* A request that goes to another statement of its operation without writing.
LEMMA GoesOn ==
    ASSUME Inv, NEW r \in Requests, req[r].pc \in Statements, NEW statement \in Statements,
           MovesTo(r, statement, None), UNCHANGED <<users, wrote, origin>>,
           AtItsStatement(r)', DoneSoFar(r)'
    PROVE  StepOf(r)
<1>1. Looks(r)
  BY AtStatement DEF Looks, OthersStay, MovesTo
<1>2. Body(r)' = Body(r) /\ Rows' = Rows
  BY DEF MovesTo, Body, Rows
<1>3. Found(r)'
  BY <1>2, AtStatement DEF Found
<1>4. HonestAnswer(r)'
  BY NoneIsNone DEF HonestAnswer, MovesTo, Answers
<1> QED
  BY <1>1, <1>3, <1>4 DEF StepOf, RequestInv, MovesTo

LEMMA ListUsersStands == ASSUME Inv, NEW r \in Requests, ListUsers(r) PROVE StepOf(r)
<1>1. req[r].pc = "ListUsers" /\ req[r].pc \in Statements
  BY DEF ListUsers, Statements
<1>2. Body(r).op = "bootstrap" /\ wrote[r] = {} /\ ~ Created(r)
  BY <1>1, AtStatement DEF AtItsStatement, DoneSoFar
<1>3. CASE Rows = {}
  <2>1. MovesTo(r, "CreateUser", None)
    BY <1>1, <1>3, GotoMoves, AtStatement DEF ListUsers, Statements
  <2>2. Body(r)' = Body(r) /\ wrote' = wrote /\ (Created(r)' <=> Created(r))
    BY <2>1 DEF MovesTo, Body, ListUsers, Created
  <2>3. AtItsStatement(r)' /\ DoneSoFar(r)'
    BY <1>1, <1>2, <2>1, <2>2, AtStatement DEF AtItsStatement, DoneSoFar, MovesTo, Statements
  <2> QED
    BY <1>1, <2>1, <2>3, GoesOn DEF ListUsers, Statements
<1>4. CASE Rows # {}
  BY <1>1, <1>2, <1>4, RefuseStands DEF ListUsers, Refuse, Answers, Asked
<1> QED
  BY <1>3, <1>4

LEMMA CreateUserStands == ASSUME Inv, NEW r \in Requests, CreateUser(r) PROVE StepOf(r)
<1> DEFINE b == Body(r)
<1>1. req[r].pc = "CreateUser" /\ req[r].pc \in Statements
  BY DEF CreateUser, Statements
<1>2. /\ b \in Bodies /\ b.op \in {"bootstrap", "create"} /\ WellFormed(b)
      /\ wrote[r] = {} /\ ~ Created(r) /\ req[r].answer = None
  BY <1>1, AtStatement DEF AtItsStatement, DoneSoFar
<1>3. ASSUME NEW answer \in {"error", "conflict", "bad"}, Refuse(r, answer)
      PROVE  StepOf(r)
  BY <1>1, <1>3, RefuseStands DEF Answers
<1>4. CASE Taken(b.email, b.username, None) \/ b.role \notin Roles
  BY <1>3, <1>4 DEF CreateUser
<1>5. CASE ~ Taken(b.email, b.username, None) /\ b.role \in Roles
  <2>1. PICK i \in Ids \ Rows :
           /\ users' = [users EXCEPT ![i] = NewRow(b)]
           /\ origin' = [origin EXCEPT ![i] = r]
           /\ Answer(r, "ok") \/ Answer(r, ErrorAnswer(r))
           /\ UNCHANGED wrote
    BY <1>5 DEF CreateUser
  <2>2. PICK answer \in {"ok", ErrorAnswer(r)} : MovesTo(r, "answered", answer)
    BY <2>1, AnswerMoves, ErrorAnswers DEF Answers
  <2>3. /\ b.name \in Names /\ b.email \in Emails /\ b.username \in Optional(ValidUsernames)
        /\ b.password \in ValidPasswords
    BY <1>2, ConstantsAssumption DEF WellFormed, Optional
  <2>4. NewRow(b) \in UserRows
    BY <1>5, <2>3 DEF NewRow, UserRows
  <2>5. Creates(r, i)
    BY <1>1, <1>5, <2>1, <2>2, <2>4 DEF Creates, OthersStay, MovesTo
  <2>6. Body(r)' = Body(r) /\ Created(r)' /\ i \in Rows'
    BY <2>1, <2>2, <2>4, Typed, NoneIsNone DEF MovesTo, Body, Created, Rows
  <2>7. AtItsStatement(r)' /\ DoneSoFar(r)'
    BY <1>2, <2>2, <2>6 DEF AtItsStatement, DoneSoFar, MovesTo, Statements
  <2>8. Found(r)'
    BY <1>2, <2>2, <2>6 DEF Found, MovesTo, OfOneself
  <2>9. HonestAnswer(r)'
    <3>1. answer = "bad" => Unexpected(b)
      BY <1>2, <1>5 DEF ErrorAnswer, Unexpected
    <3>2. answer \in {"ok", "bad", "error"}
      BY ErrorAnswers
    <3> QED
      BY <1>2, <2>1, <2>2, <2>6, <3>1, <3>2 DEF HonestAnswer, MovesTo, Asked
  <2> QED
    BY <2>2, <2>5, <2>7, <2>8, <2>9 DEF StepOf, RequestInv, MovesTo
<1> QED
  BY <1>4, <1>5

LEMMA GetUserByIDStands == ASSUME Inv, NEW r \in Requests, GetUserByID(r) PROVE StepOf(r)
<1> DEFINE b == Body(r)
<1>1. req[r].pc = "GetUserByID" /\ req[r].pc \in Statements
  BY DEF GetUserByID, Statements
<1>2. /\ b \in Bodies /\ b.op \in {"changePassword", "updateProfile"} /\ b.user \in Rows
      /\ AtItsStatement(r) /\ DoneSoFar(r) /\ req[r].answer = None /\ ~ Created(r)
      /\ WellFormed(b)
  BY <1>1, AtStatement DEF AtItsStatement, Found, OfOneself
<1>3. users[b.user] \in UserRows
  BY <1>2, Typed DEF Rows, Optional
<1>4. UNCHANGED <<users, wrote, origin>>
  BY DEF GetUserByID
<1>5. ASSUME NEW statement \in {"SetPasswordHash", "UpdateUsername"},
             req' = [req EXCEPT ![r].pc = statement, ![r].row = users[b.user]],
             statement = "SetPasswordHash" => b.op = "changePassword",
             statement = "UpdateUsername" => b.op = "updateProfile" /\ b.username # None
      PROVE  StepOf(r)
  <2> DEFINE n == [req[r] EXCEPT !.pc = statement, !.row = users[b.user]]
  <2>1. n \in RequestStates /\ n.pc = statement /\ n.body = b /\ n.answer = None
    <3>1. /\ req[r] \in RequestStates /\ req[r].body = b /\ req[r].answer = None
          /\ statement \in {"idle", "answered"} \cup Statements
          /\ users[b.user] \in Optional(UserRows)
      BY <1>2, <1>3, Typed DEF Body, Optional, Statements
    <3> HIDE DEF b
    <3> QED
      BY <3>1 DEF RequestStates
  <2>2. req' = [req EXCEPT ![r] = n]
    BY <1>5, Typed
  <2> HIDE DEF n
  <2>3. MovesTo(r, statement, None)
    BY <2>1, <2>2, Typed DEF MovesTo, Body
  <2>4. Body(r)' = Body(r) /\ (Created(r)' <=> Created(r))
    BY <1>4, <2>3 DEF MovesTo, Body, Created
  <2>5. AtItsStatement(r)' /\ DoneSoFar(r)'
    BY <1>1, <1>2, <1>4, <1>5, <2>3, <2>4 DEF AtItsStatement, DoneSoFar, MovesTo, Statements
  <2> QED
    BY <1>1, <1>4, <2>3, <2>5, GoesOn DEF Statements
<1>6. CASE b.op = "changePassword"
  <2>1. CASE users[b.user].password = b.current
    BY <1>5, <1>6, <2>1 DEF GetUserByID
  <2>2. CASE users[b.user].password # b.current
    BY <1>1, <1>4, <1>6, <2>2, RefuseStands DEF GetUserByID, Refuse, Answers
  <2> QED
    BY <2>1, <2>2
<1>7. CASE b.op = "updateProfile"
  <2>1. CASE b.username # None
    BY <1>5, <1>7, <2>1 DEF GetUserByID
  <2>2. CASE b.username = None
    <3>1. Asked(b) = wrote[r]
      BY <1>1, <1>2, <1>7, <2>2 DEF Asked, DoneSoFar
    <3> QED
      BY <1>1, <1>4, <1>7, <2>2, <3>1, RefuseStands DEF GetUserByID, Refuse, Answers
  <2> QED
    BY <2>1, <2>2
<1> QED
  BY <1>2, <1>6, <1>7

\* Rows with one column written.
LEMMA ColumnWritten ==
    ASSUME NEW row \in UserRows
    PROVE  /\ \A x \in Names : LET w == [row EXCEPT !.name = x] IN
                 w \in UserRows /\ w.email = row.email /\ w.name = x
                 /\ \A d \in Columns \ {"name"} : w[d] = row[d]
           /\ \A x \in ValidUsernames : LET w == [row EXCEPT !.username = x] IN
                 w \in UserRows /\ w.email = row.email /\ w.username = x
                 /\ \A d \in Columns \ {"username"} : w[d] = row[d]
           /\ \A x \in ValidPasswords : LET w == [row EXCEPT !.password = x] IN
                 w \in UserRows /\ w.email = row.email /\ w.password = x
                 /\ \A d \in Columns \ {"password"} : w[d] = row[d]
           /\ \A x \in Roles : LET w == [row EXCEPT !.role = x] IN
                 w \in UserRows /\ w.email = row.email /\ w.role = x
                 /\ \A d \in Columns \ {"role"} : w[d] = row[d]
           /\ \A x \in BOOLEAN : LET w == [row EXCEPT !.active = x] IN
                 w \in UserRows /\ w.email = row.email /\ w.active = x
                 /\ \A d \in Columns \ {"active"} : w[d] = row[d]
<1>1. ASSUME NEW x \in Names
      PROVE  LET w == [row EXCEPT !.name = x] IN
                 w \in UserRows /\ w.email = row.email /\ w.name = x
                 /\ \A d \in Columns \ {"name"} : w[d] = row[d]
  BY DEF UserRows, Columns
<1>2. ASSUME NEW x \in ValidUsernames
      PROVE  LET w == [row EXCEPT !.username = x] IN
                 w \in UserRows /\ w.email = row.email /\ w.username = x
                 /\ \A d \in Columns \ {"username"} : w[d] = row[d]
  BY DEF UserRows, Columns, Optional
<1>3. ASSUME NEW x \in ValidPasswords
      PROVE  LET w == [row EXCEPT !.password = x] IN
                 w \in UserRows /\ w.email = row.email /\ w.password = x
                 /\ \A d \in Columns \ {"password"} : w[d] = row[d]
  BY DEF UserRows, Columns
<1>4. ASSUME NEW x \in Roles
      PROVE  LET w == [row EXCEPT !.role = x] IN
                 w \in UserRows /\ w.email = row.email /\ w.role = x
                 /\ \A d \in Columns \ {"role"} : w[d] = row[d]
  BY DEF UserRows, Columns
<1>5. ASSUME NEW x \in BOOLEAN
      PROVE  LET w == [row EXCEPT !.active = x] IN
                 w \in UserRows /\ w.email = row.email /\ w.active = x
                 /\ \A d \in Columns \ {"active"} : w[d] = row[d]
  BY DEF UserRows, Columns
<1> QED
  BY <1>1, <1>2, <1>3, <1>4, <1>5

LEMMA RowKnown ==
    ASSUME Inv, NEW u \in Rows
    PROVE  u \in Ids /\ users[u] \in UserRows
<1> QED
  BY Typed DEF Rows, Optional

LEMMA SetPasswordHashStands == ASSUME Inv, NEW r \in Requests, SetPasswordHash(r) PROVE StepOf(r)
<1> DEFINE b == Body(r)
           row == [users[b.user] EXCEPT !.password = b.password]
<1>1. req[r].pc = "SetPasswordHash" /\ req[r].pc \in Statements
  BY DEF SetPasswordHash, Statements
<1>2. /\ b.op = "changePassword" /\ b.user \in Rows /\ b.password \in ValidPasswords
      /\ wrote[r] = {}
  BY <1>1, AtStatement DEF AtItsStatement, Found, DoneSoFar, OfOneself, WellFormed
<1>3. /\ row \in UserRows /\ row.email = users[b.user].email /\ row["password"] = b["password"]
      /\ \A d \in Columns \ {"password"} : row[d] = users[b.user][d]
  BY <1>2, RowKnown, ColumnWritten
<1>4. Asked(b) = wrote[r] \cup {"password"} /\ "password" \in Columns
  BY <1>2 DEF Asked, Columns
<1>5. WriteAndAnswer(r, b.user, "password", row)
  BY DEF SetPasswordHash
<1> HIDE DEF row
<1> QED
  BY <1>1, <1>2, <1>3, <1>4, <1>5, WriteStands

LEMMA SetActiveStands == ASSUME Inv, NEW r \in Requests, SetActive(r) PROVE StepOf(r)
<1> DEFINE b == Body(r)
           row == [users[b.user] EXCEPT !.active = b.active]
<1>1. req[r].pc = "SetActive" /\ req[r].pc \in Statements
  BY DEF SetActive, Statements
<1>2. b \in Bodies /\ b.op = "setActive" /\ wrote[r] = {}
  BY <1>1, AtStatement DEF AtItsStatement, DoneSoFar
<1>3. CASE b.user \notin Rows
  BY <1>1, <1>3, RefuseStands DEF SetActive, Answers
<1>4. CASE b.user \in Rows
  <2>1. /\ row \in UserRows /\ row.email = users[b.user].email /\ row["active"] = b["active"]
        /\ \A d \in Columns \ {"active"} : row[d] = users[b.user][d]
    BY <1>2, <1>4, RowKnown, ColumnWritten, BodyFields
  <2>2. Asked(b) = wrote[r] \cup {"active"} /\ "active" \in Columns
    BY <1>2 DEF Asked, Columns
  <2>3. WriteAndAnswer(r, b.user, "active", row)
    BY <1>4 DEF SetActive
  <2> HIDE DEF row
  <2> QED
    BY <1>1, <1>2, <1>4, <2>1, <2>2, <2>3, WriteStands
<1> QED
  BY <1>3, <1>4

LEMMA SetRoleStands == ASSUME Inv, NEW r \in Requests, SetRole(r) PROVE StepOf(r)
<1> DEFINE b == Body(r)
           row == [users[b.user] EXCEPT !.role = b.role]
<1>1. req[r].pc = "SetRole" /\ req[r].pc \in Statements
  BY DEF SetRole, Statements
<1>2. b \in Bodies /\ b.op = "setRole" /\ wrote[r] = {}
  BY <1>1, AtStatement DEF AtItsStatement, DoneSoFar
<1>3. CASE b.user \notin Rows
  BY <1>1, <1>3, RefuseStands DEF SetRole, Answers
<1>4. CASE b.user \in Rows /\ b.role \notin Roles
  BY <1>1, <1>4, RefuseStands DEF SetRole, Answers
<1>5. CASE b.user \in Rows /\ b.role \in Roles
  <2>1. /\ row \in UserRows /\ row.email = users[b.user].email /\ row["role"] = b["role"]
        /\ \A d \in Columns \ {"role"} : row[d] = users[b.user][d]
    BY <1>5, RowKnown, ColumnWritten
  <2>2. Asked(b) = wrote[r] \cup {"role"} /\ "role" \in Columns
    BY <1>2 DEF Asked, Columns
  <2>3. WriteAndAnswer(r, b.user, "role", row)
    BY <1>5 DEF SetRole
  <2> HIDE DEF row
  <2> QED
    BY <1>1, <1>2, <1>5, <2>1, <2>2, <2>3, WriteStands
<1> QED
  BY <1>3, <1>4, <1>5

LEMMA SetUsernameStands == ASSUME Inv, NEW r \in Requests, SetUsername(r) PROVE StepOf(r)
<1> DEFINE b == Body(r)
           row == [users[b.user] EXCEPT !.username = b.username]
           refused == users[b.user].username # None \/ Taken(users[b.user].email, b.username, b.user)
<1>1. req[r].pc = "SetUsername" /\ req[r].pc \in Statements
  BY DEF SetUsername, Statements
<1>2. b \in Bodies /\ b.op = "firstAccess" /\ b.user \in Rows /\ WellFormed(b) /\ wrote[r] = {}
  BY <1>1, AtStatement DEF AtItsStatement, Found, DoneSoFar, OfOneself
<1>3. b.username \in ValidUsernames
  BY <1>2, ConstantsAssumption, NoneIsNone DEF WellFormed, Optional
<1>4. CASE refused
  BY <1>1, <1>4, RefuseStands DEF SetUsername, Answers
<1>5. CASE ~ refused
  <2>1. /\ row \in UserRows /\ row.email = users[b.user].email /\ row["username"] = b["username"]
        /\ \A d \in Columns \ {"username"} : row[d] = users[b.user][d]
    BY <1>2, <1>3, RowKnown, ColumnWritten
  <2>2. Asked(b) = wrote[r] \cup {"username"} /\ "username" \in Columns
    BY <1>2 DEF Asked, Columns
  <2>3. WriteAndAnswer(r, b.user, "username", row)
    BY <1>5 DEF SetUsername
  <2>4. MayName(r)
    BY <1>3, <1>5 DEF MayName
  <2> HIDE DEF row
  <2> QED
    BY <1>1, <1>2, <2>1, <2>2, <2>3, <2>4, WriteStands
<1> QED
  BY <1>4, <1>5

LEMMA UpdateUsernameStands == ASSUME Inv, NEW r \in Requests, UpdateUsername(r) PROVE StepOf(r)
<1> DEFINE b == Body(r)
           row == [users[b.user] EXCEPT !.username = b.username]
           taken == Taken(users[b.user].email, b.username, b.user)
<1>1. req[r].pc = "UpdateUsername" /\ req[r].pc \in Statements
  BY DEF UpdateUsername, Statements
<1>2. /\ b \in Bodies /\ b.op \in {"rename", "updateProfile"} /\ b.username # None
      /\ WellFormed(b) /\ DoneSoFar(r)
  BY <1>1, AtStatement DEF AtItsStatement
<1>3. b.username \in ValidUsernames
  BY <1>2 DEF WellFormed, Optional
<1>4. CASE b.user \notin Rows
  BY <1>1, <1>4, RefuseStands DEF UpdateUsername, Answers
<1>5. CASE b.user \in Rows /\ taken
  BY <1>1, <1>5, RefuseStands DEF UpdateUsername, Answers
<1>6. CASE b.user \in Rows /\ ~ taken
  <2>1. /\ row \in UserRows /\ row.email = users[b.user].email /\ row["username"] = b["username"]
        /\ \A d \in Columns \ {"username"} : row[d] = users[b.user][d]
    BY <1>3, <1>6, RowKnown, ColumnWritten
  <2>2. Asked(b) = wrote[r] \cup {"username"}
    <3>1. CASE b.op = "rename"
      BY <1>1, <1>2, <3>1 DEF Asked, DoneSoFar
    <3>2. CASE b.op = "updateProfile"
      <4>1. wrote[r] = IF b.name # None THEN {"name"} ELSE {}
        BY <1>1, <1>2, <3>2 DEF DoneSoFar
      <4>2. Asked(b) = {c \in {"name", "username"} : b[c] # None}
        BY <3>2 DEF Asked
      <4> QED
        BY <1>2, <4>1, <4>2
    <3> QED
      BY <1>2, <3>1, <3>2
  <2>3. WriteAndAnswer(r, b.user, "username", row)
    BY <1>6 DEF UpdateUsername
  <2>4. MayName(r)
    BY <1>2, <1>3, <1>6 DEF MayName
  <2>5. "username" \in Columns
    BY DEF Columns
  <2> HIDE DEF row
  <2> QED
    BY <1>1, <1>2, <1>6, <2>1, <2>2, <2>3, <2>4, <2>5, WriteStands
<1> QED
  BY <1>4, <1>5, <1>6

\* The one statement that writes and is not the last of its request.
LEMMA SetNameStands == ASSUME Inv, NEW r \in Requests, SetName(r) PROVE StepOf(r)
<1> DEFINE b == Body(r)
           row == [users[b.user] EXCEPT !.name = b.name]
<1>1. req[r].pc = "SetName" /\ req[r].pc \in Statements
  BY DEF SetName, Statements
<1>2. /\ b \in Bodies /\ b.op = "updateProfile" /\ b.name # None /\ b.user \in Rows
      /\ wrote[r] = {} /\ ~ Created(r) /\ req[r].answer = None
      /\ AtItsStatement(r) /\ WellFormed(b)
  BY <1>1, AtStatement DEF AtItsStatement, Found, DoneSoFar, OfOneself
<1>3. b.name \in Names
  BY <1>2, BodyFields DEF Optional
<1>4. /\ row \in UserRows /\ row.email = users[b.user].email /\ row["name"] = b["name"]
      /\ \A d \in Columns \ {"name"} : row[d] = users[b.user][d]
  BY <1>2, <1>3, RowKnown, ColumnWritten
<1>5. /\ users' = [users EXCEPT ![b.user] = row]
      /\ wrote' = [wrote EXCEPT ![r] = @ \cup {"name"}]
      /\ origin' = origin
  BY Typed DEF SetName
<1> HIDE DEF row
<1>6. PICK pc \in {"GetUserByID", "answered"} :
         MovesTo(r, pc, IF pc = "answered" THEN "error" ELSE None)
  <2>1. Goto(r, "GetUserByID") \/ Answer(r, "error")
    BY DEF SetName
  <2> QED
    BY <1>2, <2>1, GotoMoves, AnswerMoves DEF Statements, Answers
<1>7. /\ users' \in [Ids -> Optional(UserRows)]
      /\ users'[b.user] = row
      /\ \A v \in Ids \ {b.user} : users'[v] = users[v]
  BY <1>2, <1>4, <1>5, Typed DEF Optional, Rows
<1>8. wrote'[r] = {"name"} /\ \A d \in Requests \ {r} : wrote'[d] = wrote[d]
  BY <1>2, <1>5, Typed
<1>9. "name" \in Asked(b) \cap Columns
  BY <1>2 DEF Asked, Columns
<1>10. OthersStay(r) /\ req'[r].body = req[r].body /\ req'[r].pc # req[r].pc
  BY <1>1, <1>6, <1>8 DEF OthersStay, MovesTo
<1>11. Writes(r, "name")
  BY <1>1, <1>2, <1>4, <1>5, <1>7, <1>9, <1>10 DEF Writes
<1>12. Body(r)' = Body(r) /\ Rows \subseteq Rows' /\ (Created(r)' <=> Created(r))
  BY <1>4, <1>5, <1>7, <1>10, NoneIsNone DEF Body, Rows, Created
<1>13. AtItsStatement(r)' /\ Found(r)'
  BY <1>2, <1>6, <1>12 DEF AtItsStatement, Found, MovesTo, Statements
<1>14. DoneSoFar(r)' /\ HonestAnswer(r)'
  BY <1>2, <1>6, <1>8, <1>12, NoneIsNone DEF DoneSoFar, HonestAnswer, MovesTo, Statements, Answers
<1> QED
  BY <1>6, <1>9, <1>11, <1>13, <1>14 DEF StepOf, RequestInv, MovesTo

LEMMA NextStands ==
    ASSUME Inv, Next
    PROVE  \E r \in Requests : StepOf(r)
<1>1. PICK r \in Requests : Arrive(r) \/ Statement(r) \/ Fail(r)
  BY DEF Next
<1>2. CASE Statement(r)
  BY <1>2, ListUsersStands, CreateUserStands, SetNameStands, GetUserByIDStands, SetPasswordHashStands,
     SetUsernameStands, UpdateUsernameStands, SetRoleStands, SetActiveStands DEF Statement
<1> QED
  BY <1>1, <1>2, ArriveStands, FailStands

LEMMA InitHolds == Init => Inv
<1> SUFFICES ASSUME Init PROVE Inv
  OBVIOUS
<1>1. Rows = {} /\ \A r \in Requests : ~ Created(r)
  BY NoneIsNone DEF Init, Rows, Created
<1>2. TypeOK
  BY DEF Init, TypeOK, IdleRequest, Optional
<1>3. ASSUME NEW r \in Requests PROVE RequestInv(r)
  <2>1. req[r] = IdleRequest /\ req[r].pc = "idle" /\ req[r].answer = None /\ wrote[r] = {}
    BY DEF Init, IdleRequest
  <2> QED
    BY <2>1, <1>1, NoneIsNone
       DEF RequestInv, AtItsStatement, Found, DoneSoFar, HonestAnswer, Statements, Answers
<1>4. EveryUserHasOrigin /\ AdminKept
  BY <1>1 DEF Init, EveryUserHasOrigin, AdminKept
<1> QED
  BY <1>2, <1>3, <1>4 DEF Inv

LEMMA StepHolds == Inv /\ [Next]_vars => Inv'
<1> SUFFICES ASSUME Inv, [Next]_vars PROVE Inv'
  OBVIOUS
<1>1. CASE Next
  BY <1>1, NextStands, StepOfKeeps
<1>2. CASE UNCHANGED vars
  <2>1. \A r \in Requests : RequestInv(r)'
    BY <1>2
       DEF vars, Inv, RequestInv, AtItsStatement, Found, DoneSoFar, HonestAnswer, Untouched, Body,
           Rows, Created
  <2>2. TypeOK' /\ EveryUserHasOrigin' /\ AdminKept'
    BY <1>2 DEF vars, Inv, TypeOK, EveryUserHasOrigin, AdminKept, Rows
  <2> QED
    BY <2>1, <2>2 DEF Inv
<1> QED
  BY <1>1, <1>2

-----------------------------------------------------------------------------
\* The users table and every request keep their types, whatever requests
\* interleave in UserHandler, MeHandler and EnsureAdmin.
THEOREM TypeCorrect == Spec => []TypeOK
<1>1. Inv => TypeOK
  BY DEF Inv
<1> QED
  BY <1>1, InitHolds, StepHolds, PTL DEF Spec

\* Nobody has a first access once named, by whatever request (me_handler.go:86-102).
THEOREM FirstAccessHappensOnce == Spec => FirstAccessOnce
<1> DEFINE A == /\ \A r \in Requests :
                      wrote'[r] # wrote[r] /\ Body(r).op = "firstAccess" =>
                          users[Body(r).user].username = None
                /\ \A u \in Rows : users[u].username # None => users'[u].username # None
<1>1. ASSUME Inv, Next PROVE A
  <2>1. PICK r \in Requests : StepOf(r)
    BY <1>1, NextStands
  <2>2. CASE Looks(r)
    BY <2>2 DEF Looks
  <2>3. ASSUME NEW c \in Columns, Writes(r, c), c = "username" => MayName(r)
        PROVE  A
    <3>1. \A d \in Requests : wrote'[d] # wrote[d] => d = r
      BY <2>3 DEF Writes, OthersStay
    <3>2. Body(r).op = "firstAccess" => c = "username" /\ users[Body(r).user].username = None
      BY <2>3 DEF Writes, Asked, MayName
    <3>3. \A u \in Rows \ {Body(r).user} : users'[u] = users[u]
      BY <2>3 DEF Writes, Rows
    <3>4. CASE c = "username"
      <4>1. /\ users'[Body(r).user]["username"] = Body(r)["username"]
            /\ Body(r).username \in ValidUsernames
        BY <2>3, <3>4 DEF Writes, MayName
      <4>2. users'[Body(r).user].username # None
        BY <4>1, NoneIsNone
      <4> QED
        BY <3>1, <3>2, <3>3, <4>2
    <3>5. CASE c # "username"
      <4>1. users'[Body(r).user].username = users[Body(r).user].username
        BY <2>3, <3>5 DEF Writes, Columns
      <4> QED
        BY <3>1, <3>2, <3>3, <4>1
    <3> QED
      BY <3>4, <3>5
  <2>4. ASSUME NEW i \in Ids, Creates(r, i)
        PROVE  A
    <3>1. wrote' = wrote /\ \A u \in Rows : users'[u] = users[u]
      BY <1>1, <2>4, Typed DEF Creates, Rows
    <3> QED
      BY <3>1
  <2> QED
    BY <2>1, <2>2, <2>3, <2>4 DEF StepOf
<1>2. Inv /\ [Next]_vars => [A]_vars
  BY <1>1
<1>3. FirstAccessOnce <=> [][A]_vars
  BY DEF FirstAccessOnce
<1> QED
  BY <1>2, <1>3, InitHolds, StepHolds, PTL DEF Spec

\* Handlers answer what they did, whatever statement of theirs failed; only an
\* error, a 500 or the 400 of an unexpected one, leaves that open.
THEOREM AnswersTellWhatWasDone == Spec => []AnswersAreHonest
<1>1. Inv => AnswersAreHonest
  BY DEF Inv, RequestInv, HonestAnswer, Untouched, Created, AnswersAreHonest
<1> QED
  BY <1>1, InitHolds, StepHolds, PTL DEF Spec

\* EnsureAdmin creates a user in an empty table only, for any number of
\* processes that start at once: the first user has its email, and none other can.
THEOREM BootstrapFillsOnlyEmpty == Spec => BootstrapOnlyWhenEmpty
<1> DEFINE A == \A i \in Ids :
                   origin'[i] # origin[i] /\ Body(origin'[i]).op = "bootstrap" => Rows = {}
<1>1. ASSUME Inv, Next PROVE A
  <2>1. PICK r \in Requests : StepOf(r)
    BY <1>1, NextStands
  <2>2. CASE origin' = origin
    BY <2>2
  <2>3. ASSUME NEW i \in Ids, Creates(r, i)
        PROVE  A
    <3>1. \A j \in Ids : origin'[j] # origin[j] => origin'[j] = r
      BY <1>1, <2>3, Typed DEF Creates
    <3>2. ASSUME Body(r).op = "bootstrap" PROVE Rows = {}
      <4>1. Body(r) \in Bodies
        BY <1>1, <2>3 DEF Creates, Inv, RequestInv, AtItsStatement
      <4>2. Body(r).email = AdminEmail
        BY <3>2, <4>1, ConstantsAssumption
      <4>3. \A u \in Rows : users[u].email # AdminEmail
        BY <2>3, <4>2, NoneIsNone DEF Creates, Taken, Rows
      <4> QED
        BY <1>1, <4>3 DEF Inv, AdminKept
    <3> QED
      BY <3>1, <3>2
  <2> QED
    BY <2>1, <2>2, <2>3 DEF StepOf, Looks, Writes
<1>2. Inv /\ [Next]_vars => [A]_vars
  BY <1>1
<1>3. BootstrapOnlyWhenEmpty <=> [][A]_vars
  BY DEF BootstrapOnlyWhenEmpty
<1> QED
  BY <1>2, <1>3, InitHolds, StepHolds, PTL DEF Spec

\* A column of a user changes only to what a request for that column brings:
\* a statement of these handlers writes no column that its body omits.
THEOREM NothingIsTakenBack == Spec => OmittedColumnsStay
<1> DEFINE A == \A u \in Rows, c \in Columns :
                   users'[u][c] # users[u][c] =>
                       \E r \in Requests : /\ req'[r] # req[r]
                                           /\ Body(r).user = u
                                           /\ c \in Asked(Body(r))
                                           /\ users'[u][c] = Body(r)[c]
<1>1. ASSUME Inv, Next PROVE A
  <2>1. PICK r \in Requests : StepOf(r)
    BY <1>1, NextStands
  <2>2. CASE users' = users
    BY <2>2
  <2>3. ASSUME NEW d \in Columns, Writes(r, d)
        PROVE  A
    <3>1. req'[r] # req[r] /\ d \in Asked(Body(r))
      BY <2>3 DEF Writes
    <3>2. \A u \in Rows \ {Body(r).user} : users'[u] = users[u]
      BY <2>3 DEF Writes, Rows
    <3>3. /\ users'[Body(r).user][d] = Body(r)[d]
          /\ \A c \in Columns \ {d} : users'[Body(r).user][c] = users[Body(r).user][c]
      BY <2>3 DEF Writes
    <3> QED
      BY <3>1, <3>2, <3>3
  <2>4. ASSUME NEW i \in Ids, Creates(r, i)
        PROVE  A
    <3>1. \A u \in Rows : users'[u] = users[u]
      BY <1>1, <2>4, Typed DEF Creates, Rows
    <3> QED
      BY <3>1
  <2> QED
    BY <2>1, <2>2, <2>3, <2>4 DEF StepOf, Looks
<1>2. Inv /\ [Next]_vars => [A]_vars
  BY <1>1
<1>3. OmittedColumnsStay <=> [][A]_vars
  BY DEF OmittedColumnsStay
<1> QED
  BY <1>2, <1>3, InitHolds, StepHolds, PTL DEF Spec
=============================================================================
