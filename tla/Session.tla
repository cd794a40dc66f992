------------------------------ MODULE Session ------------------------------
(***************************************************************************)
(* The server's side of a user's sessions: AuthHandler.Login and Refresh   *)
(* (src/backend/internal/httpapi/auth_handler.go), the access tokens and   *)
(* their middleware (auth/jwt.go, auth/middleware.go), and what an admin   *)
(* changes of the user meanwhile. Refresh is four statements in autocommit,*)
(* each of them an action. One user is enough: a token is only ever looked *)
(* at together with the user it was issued to.                             *)
(*                                                                         *)
(* A client is anything that sends requests over Connections, one at a     *)
(* time on each, with any pair of tokens issued so far; Client is the one  *)
(* of the Flutter application.                                             *)
(***************************************************************************)
EXTENDS Integers, FiniteSets

CONSTANTS
    Connections,
    Pairs,        \* pairs of tokens: bounds how many are kept at once
    RateLimit,    \* refreshes answered in a window (router.go: 30 a minute)
    MaxEvents,    \* bound on the admin's changes and the faults together
    None

Roles == {"admin", "user"}

\* What an exchange asks. "me", "name" and "password" stand for the
\* authenticated routes: GET /api/me and every route like it, MeHandler
\* .SetUsername, and MeHandler.ChangePassword with a wrong current password.
Kinds == {"login", "refresh", "me", "name", "password"}

Statuses == {"ok", "unauthorized", "forbidden", "conflict", "limited", "lost"}

VARIABLES
    user,     \* the users row
    pairs,    \* the pairs issued: an access token with its role claim, and a
              \* refresh_tokens row
    http,     \* the exchange on each connection
    window,   \* refreshes of the current rate-limit window
    edits,    \* the admin's changes so far, for the bound only
    faults,   \* faults so far, for the bound only
    held      \* history variable: what the user was allowed, at any time since
              \* the exchange of a connection began

vars == <<user, pairs, http, window, edits, faults, held>>

UserRows == [active : BOOLEAN, role : Roles, named : BOOLEAN]

PairRows == [role : Roles, access : {"live", "expired"},
             refresh : {"valid", "revoked", "expired"}]

\* What the constants are; Client assumes it.
WellFormedConstants ==
    /\ {RateLimit, MaxEvents} \subseteq Nat
    /\ None \notin Pairs
    /\ None \notin Kinds \cup Statuses
    /\ None \notin PairRows

\* pc names the next statement of the handler.
Exchanges ==
    [pc : {"idle", "sent", "GetUserByID", "RevokeRefreshToken", "CreateRefreshToken", "answered"},
     kind : Kinds \cup {None},
     token : Pairs \cup {None},      \* the one presented, an access or a refresh token
     stood : {"valid", "revoked", "expired", None},  \* its row when the exchange began
     role : Roles \cup {None},       \* of the row the handler read
     named : BOOLEAN,                \* the username of a login's or a profile's answer
     issued : Pairs \cup {None},
     status : Statuses \cup {None}]

Idle == [pc |-> "idle", kind |-> None, token |-> None, stood |-> None, role |-> None,
         named |-> FALSE, issued |-> None, status |-> None]

Issued == {i \in Pairs : pairs[i] # None}

Rights == <<user.active, user.role>>

Goto(c, statement) == http' = [http EXCEPT ![c].pc = statement]

Answer(c, status) ==
    http' = [http EXCEPT ![c] = [Idle EXCEPT !.pc = "answered", !.kind = http[c].kind,
                                             !.status = status]]

NewPair(role) == [role |-> role, access |-> "live", refresh |-> "valid"]

OnePair(old) == [i \in Pairs |-> IF i = old THEN NewPair("admin") ELSE None]

-----------------------------------------------------------------------------
\* A user of a running system, who has logged in before or has not.
Init ==
    /\ user = [active |-> TRUE, role |-> "admin", named |-> FALSE]
    /\ \/ pairs = [i \in Pairs |-> None]
       \/ \E old \in Pairs : pairs = OnePair(old)
    /\ http = [c \in Connections |-> Idle]
    /\ window = 0
    /\ edits = 0
    /\ faults = 0
    /\ held = [c \in Connections |-> {}]

\* A client sends a request, with a token of a pair or, but for a refresh, none.
Send(c, kind, token) ==
    /\ http[c].pc = "idle"
    /\ kind = "refresh" => token # None
    /\ http' = [http EXCEPT ![c] = [Idle EXCEPT !.pc = "sent", !.kind = kind, !.token = token,
                    !.stood = IF kind = "refresh" THEN pairs[token].refresh ELSE None]]
    /\ held' = [held EXCEPT ![c] = {Rights}]
    /\ UNCHANGED <<user, pairs, window, edits, faults>>

Receive(c) ==
    /\ http[c].pc = "answered"
    /\ http' = [http EXCEPT ![c] = Idle]
    /\ held' = [held EXCEPT ![c] = {}]
    /\ UNCHANGED <<user, pairs, window, edits, faults>>

Arrived(c, kinds) == http[c].pc = "sent" /\ http[c].kind \in kinds

\* The middleware, and the handler of an authenticated route. A live access
\* token is all it takes: neither looks whether the user is still active.
Authenticated(c) ==
    /\ http[c].token # None
    /\ pairs[http[c].token].access = "live"

CallApi(c) ==
    /\ Arrived(c, {"me", "name", "password"})
    /\ IF ~ Authenticated(c) \/ http[c].kind = "password"
       THEN Answer(c, "unauthorized") /\ UNCHANGED user
       ELSE IF http[c].kind = "name" /\ user.named
       THEN Answer(c, "conflict") /\ UNCHANGED user
       ELSE /\ user' = IF http[c].kind = "name" THEN [user EXCEPT !.named = TRUE] ELSE user
            /\ http' = [http EXCEPT ![c].pc = "answered", ![c].status = "ok",
                                    ![c].named = user'.named]
    /\ UNCHANGED <<pairs, window, edits, faults, held>>

\* GetUserByEmailOrUsername, active, and the password, right or wrong.
Login(c) ==
    /\ Arrived(c, {"login"})
    /\ IF ~ user.active
       THEN Answer(c, "forbidden")
       ELSE \/ Answer(c, "unauthorized")
            \/ http' = [http EXCEPT ![c].pc = "CreateRefreshToken", ![c].role = user.role,
                                    ![c].named = user.named]
    /\ UNCHANGED <<user, pairs, window, edits, faults, held>>

\* Faulty: the WHERE forgets revoked_at.
UnexpiredToken(token) == token # None /\ pairs[token].refresh # "expired"

\* WHERE revoked_at IS NULL AND expires_at > now()
ValidToken(token) == token # None /\ pairs[token].refresh = "valid"

\* Faulty: the route has no limit.
NeverLimited(c) ==
    /\ Arrived(c, {"refresh"})
    /\ window = RateLimit
    /\ Answer(c, IF ValidToken(http[c].token) THEN "limited" ELSE "unauthorized")
    /\ UNCHANGED <<user, pairs, window, edits, faults, held>>

Limited(c) ==
    /\ Arrived(c, {"refresh"})
    /\ window = RateLimit
    /\ Answer(c, "limited")
    /\ UNCHANGED <<user, pairs, window, edits, faults, held>>

\* Faulty: one refresh too many.
GetRefreshTokenBeyondLimit(c) ==
    /\ Arrived(c, {"refresh"})
    /\ window <= RateLimit
    /\ window' = window + 1
    /\ IF ValidToken(http[c].token)
       THEN Goto(c, "GetUserByID")
       ELSE Answer(c, "unauthorized")
    /\ UNCHANGED <<user, pairs, edits, faults, held>>

GetRefreshToken(c) ==
    /\ Arrived(c, {"refresh"})
    /\ window < RateLimit
    /\ window' = window + 1
    /\ IF ValidToken(http[c].token)
       THEN Goto(c, "GetUserByID")
       ELSE Answer(c, "unauthorized")
    /\ UNCHANGED <<user, pairs, edits, faults, held>>

\* Faulty: the new pair keeps the role of the old one.
GetUserKeepingRole(c) ==
    /\ http[c].pc = "GetUserByID"
    /\ IF user.active
       THEN http' = [http EXCEPT ![c].pc = "RevokeRefreshToken",
                                 ![c].role = pairs[http[c].token].role]
       ELSE Answer(c, "forbidden")
    /\ UNCHANGED <<user, pairs, window, edits, faults, held>>

GetUserByID(c) ==
    /\ http[c].pc = "GetUserByID"
    /\ IF user.active
       THEN http' = [http EXCEPT ![c].pc = "RevokeRefreshToken", ![c].role = user.role]
       ELSE Answer(c, "forbidden")
    /\ UNCHANGED <<user, pairs, window, edits, faults, held>>

\* UPDATE .. WHERE id, whatever revoked_at is by now.
RevokeRefreshToken(c) ==
    /\ http[c].pc = "RevokeRefreshToken"
    /\ pairs' = [pairs EXCEPT ![http[c].token].refresh = "revoked"]
    /\ Goto(c, "CreateRefreshToken")
    /\ UNCHANGED <<user, window, edits, faults, held>>

\* issueTokenPair: the access token is signed for the row read before, and
\* handed out with the refresh token when its row is stored. Pairs bounds it.
CreateRefreshToken(c) ==
    /\ http[c].pc = "CreateRefreshToken"
    /\ \E i \in Pairs \ Issued :
          /\ pairs' = [pairs EXCEPT ![i] = NewPair(http[c].role)]
          /\ http' = [http EXCEPT ![c].pc = "answered", ![c].status = "ok", ![c].issued = i]
    /\ UNCHANGED <<user, window, edits, faults, held>>

\* GetRefreshTokenByHash or GetUserByID fails for a reason of its own, and the
\* handler answers as to a token it does not know.
LookupFails(c) ==
    /\ edits + faults < MaxEvents
    /\ faults' = faults + 1
    /\ Arrived(c, {"refresh"})
    /\ window < RateLimit
    /\ window' = window + 1
    /\ Answer(c, "unauthorized")
    /\ UNCHANGED <<user, pairs, edits, held>>

\* A request that never arrives, or an answer that never does. To the client it is
\* the same when CreateRefreshToken fails: 500, the old token being revoked. A
\* statement that fails before leaves what a lost request leaves.
Lose(c) ==
    /\ edits + faults < MaxEvents
    /\ faults' = faults + 1
    /\ http[c].pc \in {"sent", "CreateRefreshToken", "answered"}
    /\ Answer(c, "lost")
    /\ UNCHANGED <<user, pairs, window, edits, held>>

Handler(c) ==
    \/ CallApi(c)
    \/ Login(c)
    \/ Limited(c)
    \/ GetRefreshToken(c)
    \/ GetUserByID(c)
    \/ RevokeRefreshToken(c)
    \/ CreateRefreshToken(c)

-----------------------------------------------------------------------------
(* Time and the admin.                                                     *)

\* Terms end at any time, but only a request that presents a token can tell, so
\* the model ends the term of a token that is on its way. The refresh token of
\* a pair outlives its access token (config.go: 30 days against 30 minutes).
Expire(i) ==
    /\ \E c \in Connections :
          /\ http[c].pc = "sent"
          /\ http[c].token = i
          /\ IF http[c].kind = "refresh"
             THEN /\ pairs[i].refresh = "valid"
                  /\ pairs' = [pairs EXCEPT ![i].access = "expired", ![i].refresh = "expired"]
             ELSE /\ pairs[i].access = "live"
                  /\ pairs' = [pairs EXCEPT ![i].access = "expired"]
    /\ UNCHANGED <<user, http, window, edits, faults, held>>

\* A minute passes, which is longer than any exchange takes.
NextWindow ==
    /\ window > 0
    /\ \A c \in Connections : http[c].pc = "idle"
    /\ window' = 0
    /\ UNCHANGED <<user, pairs, http, edits, faults, held>>

\* No step of the code: a pair that nobody presents any more is left out of
\* the model, to make room for others.
Forget(i) ==
    /\ i \in Issued
    /\ \A c \in Connections : i \notin {http[c].token, http[c].issued}
    /\ pairs' = [pairs EXCEPT ![i] = None]
    /\ UNCHANGED <<user, http, window, edits, faults, held>>

EditUser(row) ==
    /\ edits + faults < MaxEvents
    /\ edits' = edits + 1
    /\ row # user
    /\ user' = row
    /\ held' = [c \in Connections |->
                  IF http[c].pc = "idle" THEN held[c] ELSE held[c] \cup {<<row.active, row.role>>}]
    /\ UNCHANGED <<pairs, http, window, faults>>

\* UserHandler.SetActive, SetRole, and a username set by an admin or from
\* another device. A username is never taken away.
Admin ==
    \/ \E active \in BOOLEAN : EditUser([user EXCEPT !.active = active])
    \/ \E role \in Roles : EditUser([user EXCEPT !.role = role])
    \/ EditUser([user EXCEPT !.named = TRUE])

Environment ==
    \/ \E c \in Connections : LookupFails(c) \/ Lose(c)
    \/ Admin

\* Any client.
Next ==
    \/ \E c \in Connections, kind \in Kinds, token \in Issued \cup {None} : Send(c, kind, token)
    \/ \E c \in Connections : Receive(c) \/ Handler(c)
    \/ NextWindow
    \/ Environment
    \/ \E i \in Pairs : Expire(i) \/ Forget(i)

Spec == Init /\ [][Next]_vars

-----------------------------------------------------------------------------
TypeOK ==
    /\ user \in UserRows
    /\ pairs \in [Pairs -> PairRows \cup {None}]
    /\ http \in [Connections -> Exchanges]
    /\ window \in 0..RateLimit
    /\ edits \in 0..MaxEvents
    /\ faults \in 0..MaxEvents
    /\ held \in [Connections -> SUBSET (BOOLEAN \X Roles)]

\* A refresh token is worth nothing once its rotation is known to its holder: an
\* exchange that began after the token was revoked, or after it expired,
\* yields no pair, however exchanges interleave (auth_handler.go:92-109). Two
\* exchanges that begin before either revokes may both yield one.
RevokedIsNeverHonoured ==
    \A c \in Connections :
        http[c].kind = "refresh" /\ http[c].issued # None => http[c].stood = "valid"

\* A pair grants what the user held: at one moment of the exchange that issued
\* it the user was active and had the role of the claim. So whoever is
\* deactivated or demoted keeps rights only through the exchanges then in
\* flight, and until the access token expires (auth_handler.go:98-117,
\* middleware.go:60-66).
RightsWereHeld ==
    \A c \in Connections :
        http[c].issued # None => <<TRUE, pairs[http[c].issued].role>> \in held[c]

=============================================================================
