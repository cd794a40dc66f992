------------------------------- MODULE Client -------------------------------
(***************************************************************************)
(* The session as the Flutter application keeps it, over the server of     *)
(* Session: ApiClient's interceptor, which answers a 401 with a refresh    *)
(* and one retry (src/frontend/app/lib/core/api/api_client.dart), the      *)
(* stored pair of tokens (auth_storage.dart), and AuthNotifier, whose      *)
(* status decides the route (auth_state.dart, router_provider.dart).       *)
(*                                                                         *)
(* Requests of one application run at once; each await is a point where    *)
(* the others go on. The interceptor posts /auth/refresh through the same  *)
(* Dio object, so a refresh answered 401 enters the interceptor again: the *)
(* refreshes of a request are a stack.                                     *)
(***************************************************************************)
EXTENDS Integers, FiniteSets, Sequences

CONSTANTS
    Requests,     \* the requests of the application, each with a connection
    Calls,        \* the calls it makes
    Pairs, RateLimit, MaxEvents, None

VARIABLES
    user, pairs, http, window, edits, faults, held,   \* see Session
    req,        \* each request
    storage,    \* the secure storage: the access and the refresh token
    status      \* AuthNotifier.state

Server == INSTANCE Session WITH Connections <- Requests

\* The calls of the application: _checkSession's, any authenticated one, the
\* first access, a change of password, login and logout.
AllCalls == {"check", "me", "name", "password", "login", "logout"}

ASSUME ConstantsAssumption ==
    Server!WellFormedConstants /\ Calls \subseteq AllCalls /\ None \notin AllCalls

serverVars == <<user, pairs, http, window, edits, faults, held>>

clientVars == <<req, storage, status>>

vars == <<serverVars, clientVars>>

SessionStatuses == {"unknown", "unauthenticated", "usernamePending", "authenticated"}

KindOf(call) == IF call = "check" THEN "me" ELSE call

\* pc says what the request does next:
\*   send                read the access token and send
\*   wait                await the answer of the call or of its retry
\*   refresh             read the refresh token, and post it
\*   rotate              await the answer of the innermost refresh
\*   saveAccess, saveRefresh, clearAccess, clearRefresh     write the storage
\* stack holds the refresh tokens posted and not yet settled, outermost first.
RequestStates ==
    [pc : {"idle", "send", "wait", "refresh", "rotate", "saveAccess", "saveRefresh",
           "clearAccess", "clearRefresh"},
     call : Calls \cup {None},
     retried : BOOLEAN,            \* extra['retried'] of the call
     again : BOOLEAN,              \* ... of the innermost or the last refresh
     stack : Seq(Pairs),
     pair : Pairs \cup {None},     \* received, and being saved
     pending : BOOLEAN,            \* username_pending of the login's answer
     sends : 0..3]                 \* history: how often the call was sent

IdleRequest == [pc |-> "idle", call |-> None, retried |-> FALSE, again |-> FALSE,
                stack |-> <<>>, pair |-> None, pending |-> FALSE, sends |-> 0]

InFlight(q) == req[q].pc # "idle"

Calling(call) == \E q \in Requests : req[q].call = call

Innermost(s) == s[Len(s)]

Outer(s) == SubSeq(s, 1, Len(s) - 1)

-----------------------------------------------------------------------------
\* The application starts, with the pair that an earlier login stored or none.
Init ==
    /\ Server!Init
    /\ req = [q \in Requests |-> IdleRequest]
    /\ \/ storage = [access |-> None, refresh |-> None] /\ pairs = [i \in Pairs |-> None]
       \/ \E old \in Pairs : /\ storage = [access |-> old, refresh |-> old]
                             /\ pairs = Server!OnePair(old)
    /\ status = "unknown"

\* When the screens and the notifier make each call. The profile is read at any
\* time, a session or none: AuthRouterRefresh listens to its provider from the
\* start, and a login or logout invalidates it. Logout is in the shell.
Allowed(call) ==
    CASE call = "check"    -> status = "unknown" /\ ~ Calling("check")
      [] call = "login"    -> status = "unauthenticated" /\ ~ Calling("login")
      [] call = "me"       -> TRUE
      [] call = "name"     -> status = "usernamePending" /\ ~ Calling("name")
      [] call = "password" -> status = "authenticated"
      [] call = "logout"   -> status = "authenticated"

Begin(q, call) ==
    /\ ~ InFlight(q)
    /\ http[q].pc = "idle"
    /\ Allowed(call)
    /\ IF call = "check" /\ storage.access = None
       THEN status' = "unauthenticated" /\ UNCHANGED req
       ELSE /\ req' = [req EXCEPT ![q].call = call,
                                  ![q].pc = IF call = "logout" THEN "clearAccess" ELSE "send"]
            /\ UNCHANGED status
    /\ UNCHANGED <<serverVars, storage>>

\* onRequest: login has skipAuth.
SendCall(q) ==
    /\ req[q].pc = "send"
    /\ Server!Send(q, KindOf(req[q].call), IF req[q].call = "login" THEN None ELSE storage.access)
    /\ req' = [req EXCEPT ![q].pc = "wait", ![q].sends = @ + 1]
    /\ UNCHANGED <<storage, status>>

\* _tryRefresh: no refresh token, no refresh.
TryRefresh(q) ==
    /\ req[q].pc = "refresh"
    /\ IF storage.refresh = None
       THEN req' = [req EXCEPT ![q].pc = "clearAccess", ![q].again = FALSE] /\ UNCHANGED serverVars
       ELSE /\ Server!Send(q, "refresh", storage.refresh)
            /\ req' = [req EXCEPT ![q].pc = "rotate", ![q].again = FALSE,
                                  ![q].stack = Append(@, storage.refresh)]
    /\ UNCHANGED <<storage, status>>

\* The call is settled, and its caller goes on.
End(q) == req' = [req EXCEPT ![q] = IdleRequest]

StatusAfter(named) == IF named THEN "authenticated" ELSE "usernamePending"

\* Faulty: the check takes any answer for a complete profile.
StatusIgnoringUsername(q) ==
    status' = IF req[q].call \in {"check", "name"} THEN "authenticated" ELSE status

\* What the caller of a call does with its answer.
StatusOnSuccess(q) ==
    status' = CASE req[q].call = "check" -> StatusAfter(http[q].named)
                [] req[q].call = "name"  -> "authenticated"
                [] OTHER                 -> status

StatusOnError(q) == status' = IF req[q].call = "check" THEN "unauthenticated" ELSE status

\* Faulty: a retried call is retried as well.
RetriesAlways(q) == http[q].status = "unauthorized"

\* onError: is it a 401 of a call not yet retried?
Retries(q) == http[q].status = "unauthorized" /\ ~ req[q].retried

ReceiveAnswer(q) ==
    /\ req[q].pc = "wait"
    /\ Server!Receive(q)
    /\ IF Retries(q)
       THEN req' = [req EXCEPT ![q].pc = "refresh"] /\ UNCHANGED status
       ELSE IF http[q].status # "ok"
       THEN End(q) /\ StatusOnError(q)
       ELSE IF req[q].call = "login"
       THEN /\ req' = [req EXCEPT ![q].pc = "saveAccess", ![q].pair = http[q].issued,
                                  ![q].pending = ~ http[q].named]
            /\ UNCHANGED status
       ELSE End(q) /\ StatusOnSuccess(q)
    /\ UNCHANGED storage

\* The answer of the innermost refresh. A 401 of one not yet retried asks for
\* another refresh, whatever asked for this one; any other error fails it, and
\* the request that asked for it clears the storage.
ReceiveRefresh(q) ==
    /\ req[q].pc = "rotate"
    /\ Server!Receive(q)
    /\ LET answer == http[q].status
           r      == req[q]
       IN  req' = [req EXCEPT ![q] =
                      IF answer = "ok"
                      THEN [r EXCEPT !.pc = "saveAccess", !.pair = http[q].issued]
                      ELSE IF answer = "unauthorized" /\ ~ r.again
                      THEN [r EXCEPT !.pc = "refresh"]
                      ELSE [r EXCEPT !.pc = "clearAccess", !.stack = Outer(r.stack)]]
    /\ UNCHANGED <<storage, status>>

\* saveTokens, its first write.
SaveAccess(q) ==
    /\ req[q].pc = "saveAccess"
    /\ storage' = [storage EXCEPT !.access = req[q].pair]
    /\ req' = [req EXCEPT ![q].pc = "saveRefresh"]
    /\ UNCHANGED <<serverVars, status>>

\* What follows a saved pair: a login is over; the outermost refresh has the
\* call sent again; an inner one has the refresh around it posted again, with
\* the token it had.
AfterSave(q) ==
    IF req[q].stack = <<>>
    THEN /\ End(q)
         /\ status' = StatusAfter(~ req[q].pending)
         /\ UNCHANGED serverVars
    ELSE IF Len(req[q].stack) = 1
    THEN /\ req' = [req EXCEPT ![q].pc = "send", ![q].retried = TRUE, ![q].again = FALSE,
                               ![q].stack = <<>>, ![q].pair = None]
         /\ UNCHANGED <<serverVars, status>>
    ELSE /\ req' = [req EXCEPT ![q].pc = "rotate", ![q].again = TRUE,
                               ![q].stack = Outer(@), ![q].pair = None]
         /\ Server!Send(q, "refresh", Innermost(Outer(req[q].stack)))
         /\ UNCHANGED status

\* Faulty: keeps the refresh token of the first login.
SaveRefreshOnce(q) ==
    /\ req[q].pc = "saveRefresh"
    /\ storage' = [storage EXCEPT !.refresh = IF @ = None THEN req[q].pair ELSE @]
    /\ AfterSave(q)

\* ... and its second.
SaveRefresh(q) ==
    /\ req[q].pc = "saveRefresh"
    /\ storage' = [storage EXCEPT !.refresh = req[q].pair]
    /\ AfterSave(q)

\* clear, its first deletion.
ClearAccess(q) ==
    /\ req[q].pc = "clearAccess"
    /\ storage' = [storage EXCEPT !.access = None]
    /\ req' = [req EXCEPT ![q].pc = "clearRefresh"]
    /\ UNCHANGED <<serverVars, status>>

\* ... and its second. A rejected refresh fails the one around it, which
\* clears again; a rejected call ends with SessionExpiredException, a
\* DioException to its caller. Nothing else handles that exception.
ClearRefresh(q) ==
    /\ req[q].pc = "clearRefresh"
    /\ storage' = [storage EXCEPT !.refresh = None]
    /\ IF req[q].call = "logout"
       THEN End(q) /\ status' = "unauthenticated"
       ELSE IF req[q].stack # <<>>
       THEN /\ req' = [req EXCEPT ![q].pc = "clearAccess", ![q].again = FALSE,
                                  ![q].stack = Outer(@)]
            /\ UNCHANGED status
       ELSE End(q) /\ StatusOnError(q)
    /\ UNCHANGED serverVars

Application(q) ==
    \/ SendCall(q)
    \/ TryRefresh(q)
    \/ ReceiveAnswer(q)
    \/ ReceiveRefresh(q)
    \/ SaveAccess(q)
    \/ SaveRefresh(q)
    \/ ClearAccess(q)
    \/ ClearRefresh(q)

\* The limit is 30 a minute and an exchange takes much less than two seconds:
\* no request goes on through a whole window.
NextWindow ==
    /\ \A q \in Requests : ~ InFlight(q)
    /\ Server!NextWindow
    /\ UNCHANGED clientVars

\* A token is only ever presented from the storage or the stack of a request: a
\* pair without one on its way there or to the server has no use any more.
InUse(i) ==
    \/ i \in {storage.access, storage.refresh}
    \/ \E q \in Requests : \/ i \in {req[q].pair, http[q].token, http[q].issued}
                           \/ \E j \in DOMAIN req[q].stack : req[q].stack[j] = i

Expire(i) == Server!Expire(i) /\ UNCHANGED clientVars

Forget(i) == Server!Forget(i) /\ UNCHANGED clientVars

Environment == Server!Environment /\ UNCHANGED clientVars

Handler(q) == Server!Handler(q) /\ UNCHANGED clientVars

Unused == {i \in Server!Issued : ~ InUse(i)}

\* Unused pairs go first, so that room is left for new ones.
Next ==
    \/ \E i \in Unused : Forget(i)
    \/ /\ Unused = {}
       /\ \/ \E q \in Requests, call \in Calls : Begin(q, call)
          \/ \E q \in Requests : Application(q) \/ Handler(q)
          \/ NextWindow
          \/ Environment
          \/ \E i \in Pairs : Expire(i)

Spec == Init /\ [][Next]_vars

-----------------------------------------------------------------------------
\* The type of every variable.
TypeOK ==
    /\ Server!TypeOK
    /\ req \in [Requests -> RequestStates]
    /\ storage \in [access : Pairs \cup {None}, refresh : Pairs \cup {None}]
    /\ status \in SessionStatuses

\* See Session.
RevokedIsNeverHonoured == Server!RevokedIsNeverHonoured

RightsWereHeld == Server!RightsWereHeld

\* The screens behind the first access are reached with a username only, be it
\* set here, by an admin or on another device, before or after the answer that
\* said it was pending (auth_state.dart:41-70, router_provider.dart:40-55).
OnlyNamedUsersEnter == status = "authenticated" => user.named

\* A call is sent again at most once, even if its route answers 401 for reasons
\* of its own, as a wrong current password does, and however many refreshes
\* the 401 caused (api_client.dart:31-36).
SentAtMostTwice == \A q \in Requests : req[q].sends <= 2

\* Refreshes cause refreshes, since one that is answered 401 is treated like
\* any call; the server's limit is what ends it, and no call posts more of
\* them than a window allows (api_client.dart:29-58, router.go:61).
RecursionIsCut == \A q \in Requests : Len(req[q].stack) <= RateLimit + 1

-----------------------------------------------------------------------------
\* There is nothing to refresh with, or the stored token has outlived its term.
RefreshTokenIsOver ==
    \/ storage.refresh = None
    \/ pairs[storage.refresh].refresh = "expired"

\* However calls, logins and logouts overlap and their writes to the storage
\* interleave, once no request is under way the stored refresh token is good or
\* over: never one that a rotation has revoked, with which the next 401 would end the
\* session. A lost answer, which takes the new pair with it, is the exception
\* (api_client.dart:61-80, auth_storage.dart saveTokens).
SettledTokenIsGood ==
    (\A q \in Requests : ~ InFlight(q)) /\ faults = 0 =>
        RefreshTokenIsOver \/ pairs[storage.refresh].refresh = "valid"

\* A call is about to clear the storage since its refresh was refused, and was
\* refused again when it was sent once more, the limit not being reached.
GivesUp(q) ==
    /\ req[q].pc = "clearAccess"
    /\ req[q].again
    /\ window < RateLimit

\* A call gives the session up only when the stored refresh token is over
\* or revoked (api_client.dart:5-6 "Lancada quando o refresh token tambem
\* expirou/foi revogado"). The code does not hold to it: the refused token may be one
\* that another call has rotated, and the pair stored since is good.
SessionLasts ==
    \A q \in Requests : GivesUp(q) =>
        RefreshTokenIsOver \/ pairs[storage.refresh].refresh = "revoked"

=============================================================================
