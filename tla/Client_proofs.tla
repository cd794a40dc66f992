---------------------------- MODULE Client_proofs ----------------------------
(***************************************************************************)
(* Proofs about Client, the Flutter application over the server of         *)
(* Session, for any number of its requests and any limit and faults. What  *)
(* Session_proofs shows of a server with any clients is used of this one.  *)
(***************************************************************************)
EXTENDS Client, SequenceTheorems, TLAPS

P == INSTANCE Session_proofs WITH Connections <- Requests

LEMMA Constants == P!WellFormedConstants /\ RateLimit \in Nat /\ MaxEvents \in Nat
<1> QED
  BY ConstantsAssumption DEF Server!WellFormedConstants, P!WellFormedConstants, Server!PairRows,
     P!PairRows, Server!Roles, P!Roles, Server!Kinds, P!Kinds, Server!Statuses, P!Statuses

-----------------------------------------------------------------------------
(* Server and P are the same instance of Session.                          *)

LEMMA SameValues ==
    /\ Server!Idle = P!Idle /\ Server!Issued = P!Issued /\ Server!Rights = P!Rights
    /\ Server!Kinds = P!Kinds /\ Server!Roles = P!Roles
    /\ \A role : Server!NewPair(role) = P!NewPair(role)
    /\ \A token : Server!ValidToken(token) <=> P!ValidToken(token)
<1> QED
  BY DEF Server!Idle, P!Idle, Server!Issued, P!Issued, Server!Rights, P!Rights, Server!Kinds, P!Kinds,
     Server!Roles, P!Roles, Server!NewPair, P!NewPair, Server!ValidToken, P!ValidToken

LEMMA SameRequests ==
    ASSUME NEW c
    PROVE  /\ \A kind, token : Server!Send(c, kind, token) <=> P!Send(c, kind, token)
           /\ Server!Receive(c) <=> P!Receive(c)
           /\ \A status1 : Server!Answer(c, status1) <=> P!Answer(c, status1)
           /\ \A pc : Server!Goto(c, pc) <=> P!Goto(c, pc)
           /\ \A kinds : Server!Arrived(c, kinds) <=> P!Arrived(c, kinds)
           /\ Server!Authenticated(c) <=> P!Authenticated(c)
<1> QED
  BY SameValues DEF Server!Send, P!Send, Server!Receive, P!Receive, Server!Answer, P!Answer, Server!Goto, P!Goto,
     Server!Arrived, P!Arrived, Server!Authenticated, P!Authenticated

LEMMA SameHandler == ASSUME NEW c PROVE Server!Handler(c) <=> P!Handler(c)
<1>1. Server!CallApi(c) <=> P!CallApi(c)
  BY SameRequests DEF Server!CallApi, P!CallApi
<1>2. Server!Login(c) <=> P!Login(c)
  BY SameRequests DEF Server!Login, P!Login
<1>3. Server!Limited(c) <=> P!Limited(c)
  BY SameRequests DEF Server!Limited, P!Limited
<1>4. Server!GetRefreshToken(c) <=> P!GetRefreshToken(c)
  BY SameRequests, SameValues DEF Server!GetRefreshToken, P!GetRefreshToken
<1>5. Server!GetUserByID(c) <=> P!GetUserByID(c)
  BY SameRequests DEF Server!GetUserByID, P!GetUserByID
<1>6. Server!RevokeRefreshToken(c) <=> P!RevokeRefreshToken(c)
  BY SameRequests DEF Server!RevokeRefreshToken, P!RevokeRefreshToken
<1>7. Server!CreateRefreshToken(c) <=> P!CreateRefreshToken(c)
  BY SameValues DEF Server!CreateRefreshToken, P!CreateRefreshToken
<1> QED
  BY <1>1, <1>2, <1>3, <1>4, <1>5, <1>6, <1>7 DEF Server!Handler, P!Handler

LEMMA SameEnvironment ==
    /\ Server!Environment <=> P!Environment
    /\ Server!NextWindow <=> P!NextWindow
    /\ \A i \in Pairs : (Server!Expire(i) <=> P!Expire(i)) /\ (Server!Forget(i) <=> P!Forget(i))
<1>1. \A c : (Server!LookupFails(c) <=> P!LookupFails(c)) /\ (Server!Lose(c) <=> P!Lose(c))
  BY SameRequests DEF Server!LookupFails, P!LookupFails, Server!Lose, P!Lose
<1>2. \A row : Server!EditUser(row) <=> P!EditUser(row)
  BY DEF Server!EditUser, P!EditUser
<1>3. Server!Admin <=> P!Admin
  BY <1>2, SameValues DEF Server!Admin, P!Admin
<1> QED
  BY <1>1, <1>3, SameValues DEF Server!Environment, P!Environment, Server!NextWindow, P!NextWindow,
     Server!Expire, P!Expire, Server!Forget, P!Forget

\* So their steps are the same.
LEMMA SameStep == [Server!Next]_(Server!vars) <=> [P!Next]_(P!vars)
<1>1. UNCHANGED Server!vars <=> UNCHANGED P!vars
  BY DEF Server!vars, P!vars
<1>2. Server!Next <=> P!Next
  <2>1. \A c \in Requests : Server!Receive(c) \/ Server!Handler(c) <=> P!Receive(c) \/ P!Handler(c)
    BY SameRequests, SameHandler
  <2>2. (\E c \in Requests, kind \in Server!Kinds, token \in Server!Issued \cup {None} :
            Server!Send(c, kind, token))
        <=> \E c \in Requests, kind \in P!Kinds, token \in P!Issued \cup {None} :
               P!Send(c, kind, token)
    BY SameValues, SameRequests, Zenon
  <2> QED
    BY <2>1, <2>2, SameEnvironment, Zenon DEF Server!Next, P!Next
<1> QED
  BY <1>1, <1>2

-----------------------------------------------------------------------------
(* The inductive invariant, request by request.                            *)

ClientTypeOK ==
    /\ req \in [Requests -> RequestStates]
    /\ storage \in [access : Pairs \cup {None}, refresh : Pairs \cup {None}]
    /\ status \in SessionStatuses

\* No token is forgotten that the application may present again.
PresentsIssued ==
    /\ {storage.access, storage.refresh} \subseteq P!Issued \cup {None}
    /\ \A q \in Requests :
          /\ req[q].pair \in P!Issued \cup {None}
          /\ \A j \in DOMAIN req[q].stack : req[q].stack[j] \in P!Issued

\* A request and its connection keep step: an exchange is under way exactly
\* when the request awaits one, and refreshes are stacked only below a call
\* that has been refused.
KeepsStep(q) ==
    /\ req[q].pc = "idle" => req[q] = IdleRequest
    /\ req[q].pc # "idle" => req[q].call \in Calls
    /\ req[q].call = "logout" => req[q].pc \in {"clearAccess", "clearRefresh"}
    /\ req[q].pc \in {"wait", "rotate"} <=> http[q].pc # "idle"
    /\ req[q].pc = "wait" => http[q].kind = KindOf(req[q].call)
    /\ req[q].pc = "rotate" => http[q].kind = "refresh" /\ req[q].stack # <<>>
    /\ req[q].pc \in {"send", "wait"} => req[q].stack = <<>>

\* The call has been sent once, or twice and is being settled.
SendsCounted(q) ==
    /\ req[q].retried => req[q].pc \in {"send", "wait", "saveAccess", "saveRefresh"}
    /\ req[q].retried => req[q].stack = <<>>
    /\ req[q].sends <= IF req[q].retried THEN 2 ELSE 1
    /\ req[q].pc = "send" => req[q].sends <= IF req[q].retried THEN 1 ELSE 0

\* Every refresh on the stack but the innermost has been answered 401, and
\* such an answer counts against the limit.
StackPaidFor(q) ==
    /\ Len(req[q].stack) <= window + 1
    /\ \/ req[q].pc = "refresh"
       \/ req[q].pc = "rotate" /\ http[q].status = "unauthorized"
       => Len(req[q].stack) <= window

\* Who says that the username is set has seen it set.
NamedSeen(q) ==
    /\ http[q].named => user.named
    /\ http[q].kind = "name" => http[q].pc \in {"sent", "answered"}
    /\ http[q].kind = "name" /\ http[q].status = "ok" => user.named
    /\ req[q].pc \in {"saveAccess", "saveRefresh"} /\ req[q].stack = <<>> /\ ~ req[q].pending
          => user.named

Steady(q) == KeepsStep(q) /\ SendsCounted(q) /\ StackPaidFor(q) /\ NamedSeen(q)

ClientInv ==
    /\ ClientTypeOK
    /\ PresentsIssued
    /\ \A q \in Requests : Steady(q)
    /\ OnlyNamedUsersEnter

Inv == P!Inv /\ ClientInv

-----------------------------------------------------------------------------
(* Every step of the application is a step of a server with any clients.   *)

LEMMA SendsKnown ==
    ASSUME Inv, NEW q \in Requests, NEW kind \in P!Kinds, NEW token \in P!Issued \cup {None},
           Server!Send(q, kind, token)
    PROVE  P!Next
<1> QED
  BY SameRequests DEF P!Next

LEMMA Lengths ==
    ASSUME NEW k \in Nat, k >= 1
    PROVE  /\ (IF 1 <= k - 1 THEN (k - 1) - 1 + 1 ELSE 0) = k - 1
           /\ k # 1 => k - 1 \in 1..(k - 1) /\ k - 1 # 0 /\ k - 1 \in 1..k
<1> QED
  OBVIOUS

LEMMA LastOfOuter ==
    ASSUME NEW S, NEW s \in Seq(S), s # <<>>
    PROVE  /\ Outer(s) \in Seq(S) /\ Len(Outer(s)) = Len(s) - 1
           /\ \A j \in 1..Len(Outer(s)) : Outer(s)[j] = s[j]
           /\ Len(s) # 1 => Outer(s) # <<>> /\ Innermost(Outer(s)) = s[Len(s) - 1]
                                            /\ Len(s) - 1 \in DOMAIN s
<1>1. Len(s) \in Nat /\ Len(s) >= 1 /\ \A j \in 1..Len(s) : s[j] \in S
  OBVIOUS
<1>2. \A j \in 1..(Len(s) - 1) : s[j] \in S
  BY <1>1
<1>3. /\ Outer(s) \in Seq(S)
      /\ Len(Outer(s)) = IF 1 <= Len(s) - 1 THEN (Len(s) - 1) - 1 + 1 ELSE 0
      /\ \A j \in 1..((Len(s) - 1) - 1 + 1) : Outer(s)[j] = s[1 + j - 1]
  <2> DEFINE n == Len(s) - 1
  <2>1. n \in Int /\ 1 \in Int /\ \A j \in 1..n : s[j] \in S
    BY <1>1, <1>2
  <2> HIDE DEF n
  <2>2. /\ SubSeq(s, 1, n) \in Seq(S)
        /\ Len(SubSeq(s, 1, n)) = IF 1 <= n THEN n - 1 + 1 ELSE 0
        /\ \A j \in 1..(n - 1 + 1) : SubSeq(s, 1, n)[j] = s[1 + j - 1]
    BY <2>1, SubSeqProperties
  <2> QED
    BY <2>2 DEF Outer, n
<1>4. Len(Outer(s)) = Len(s) - 1 /\ \A j \in 1..Len(Outer(s)) : Outer(s)[j] = s[j]
  <2>1. Len(Outer(s)) = Len(s) - 1
    BY <1>1, <1>3, Lengths
  <2>2. ASSUME NEW j \in 1..(Len(s) - 1) PROVE Outer(s)[j] = s[j]
    <3>1. j \in 1..((Len(s) - 1) - 1 + 1) /\ 1 + j - 1 = j
      BY <1>1
    <3> QED
      BY <1>3, <3>1
  <2> QED
    BY <2>1, <2>2
<1>5. ASSUME Len(s) # 1
      PROVE  /\ Outer(s) # <<>> /\ Innermost(Outer(s)) = s[Len(s) - 1]
             /\ Len(s) - 1 \in DOMAIN s
  <2>1. Len(s) - 1 \in 1..(Len(s) - 1) /\ Len(s) - 1 # 0 /\ Len(s) - 1 \in 1..Len(s)
    BY <1>1, <1>5, Lengths
  <2> QED
    BY <1>3, <1>4, <2>1 DEF Innermost
<1> QED
  BY <1>3, <1>4, <1>5

LEMMA IsServerStep == ASSUME Inv, [Next]_vars PROVE [P!Next]_(P!vars)
<1> USE DEF Inv
<1>1. ASSUME NEW q \in Requests, SendCall(q) PROVE P!Next
  <2>1. KindOf(req[q].call) \in P!Kinds
    BY <1>1, ConstantsAssumption DEF SendCall, ClientInv, Steady, KeepsStep, AllCalls, KindOf, P!Kinds
  <2> QED
    BY <1>1, <2>1, SendsKnown DEF SendCall, ClientInv, PresentsIssued
<1>2. ASSUME NEW q \in Requests, TryRefresh(q) PROVE P!Next \/ UNCHANGED P!vars
  BY <1>2, SendsKnown DEF TryRefresh, ClientInv, PresentsIssued, P!Kinds, serverVars, P!vars
<1>3. ASSUME NEW q \in Requests, SaveRefresh(q) PROVE P!Next \/ UNCHANGED P!vars
  <2>1. CASE req[q].stack = <<>> \/ Len(req[q].stack) = 1
    BY <1>3, <2>1 DEF SaveRefresh, AfterSave, serverVars, P!vars
  <2>2. CASE req[q].stack # <<>> /\ Len(req[q].stack) # 1
    <3>1. Innermost(Outer(req[q].stack)) \in P!Issued
      BY <2>2, LastOfOuter DEF ClientInv, ClientTypeOK, RequestStates, PresentsIssued
    <3> QED
      BY <1>3, <2>2, <3>1, SendsKnown DEF SaveRefresh, AfterSave, P!Kinds
  <2> QED
    BY <2>1, <2>2
<1>4. ASSUME NEW q \in Requests, ReceiveAnswer(q) \/ ReceiveRefresh(q) PROVE P!Next
  BY <1>4, SameRequests DEF ReceiveAnswer, ReceiveRefresh, P!Next
<1>5. ASSUME NEW q \in Requests, SaveAccess(q) \/ ClearAccess(q) \/ ClearRefresh(q)
      PROVE  UNCHANGED P!vars
  BY <1>5 DEF SaveAccess, ClearAccess, ClearRefresh, serverVars, P!vars
<1>6. ASSUME NEW q \in Requests, NEW call \in Calls, Begin(q, call) PROVE UNCHANGED P!vars
  BY <1>6 DEF Begin, serverVars, P!vars
<1>7. ASSUME NEW q \in Requests, Handler(q) PROVE P!Next
  BY <1>7, SameHandler DEF Handler, P!Next
<1>8. ASSUME NEW i \in Pairs, Expire(i) \/ Forget(i) PROVE P!Next
  BY <1>8, SameEnvironment DEF Expire, Forget, P!Next
<1>9. ASSUME NextWindow \/ Environment PROVE P!Next
  BY <1>9, SameEnvironment DEF NextWindow, Environment, P!Next
<1>10. Unused \subseteq Pairs
  BY DEF Unused, Server!Issued
<1>11. CASE UNCHANGED vars
  BY <1>11 DEF vars, serverVars, P!vars
<1> QED
  BY <1>1, <1>2, <1>3, <1>4, <1>5, <1>6, <1>7, <1>8, <1>9, <1>10, <1>11 DEF Next, Application

-----------------------------------------------------------------------------
(* What a step of the server may do to a request that awaits it.           *)

\* Pairs are kept, 401s to refreshes are counted, and a username that an
\* answer reports is set.
Moves(q) ==
    /\ http'[q].pc = "idle" <=> http[q].pc = "idle"
    /\ http'[q].kind = http[q].kind
    /\ http[q].kind = "refresh" /\ http'[q].status = "unauthorized" =>
          http[q].status = "unauthorized" \/ window' = window + 1
    /\ http'[q].named => user'.named
    /\ http[q].kind = "name" =>
          /\ http'[q].pc \in {"sent", "answered"}
          /\ http'[q].status = "ok" => user'.named

Keeps ==
    /\ window' \in {window, window + 1}
    /\ user.named => user'.named
    /\ P!Issued \subseteq P!Issued'
    /\ \A q \in Requests : Moves(q)

LEMMA Typed ==
    ASSUME Inv
    PROVE  /\ http \in [Requests -> P!Exchanges] /\ pairs \in [Pairs -> P!PairRows \cup {None}]
           /\ user \in P!UserRows /\ window \in 0..RateLimit /\ window \in Nat
           /\ req \in [Requests -> RequestStates] /\ status \in SessionStatuses
           /\ storage \in [access : Pairs \cup {None}, refresh : Pairs \cup {None}]
           /\ \A q \in Requests : Len(req[q].stack) \in Nat
           /\ None \notin P!PairRows /\ None \notin Pairs
<1> QED
  BY Constants DEF Inv, P!Inv, P!TypeOK, ClientInv, ClientTypeOK, RequestStates, P!WellFormedConstants

LEMMA NoneIsNoName ==
    None \notin {"ok", "unauthorized", "name", "refresh", "login", "logout"}
<1> QED
  BY Constants, ConstantsAssumption DEF P!WellFormedConstants, P!Kinds, P!Statuses, AllCalls

\* A connection that a step leaves as it is.
LEMMA Unmoved ==
    ASSUME Inv, NEW d \in Requests, http'[d] = http[d], user.named => user'.named
    PROVE  Moves(d)
<1> QED
  BY DEF Inv, ClientInv, Steady, NamedSeen, Moves

LEMMA AnswerMoves ==
    ASSUME Inv, NEW c \in Requests, NEW code \in P!Statuses, Server!Answer(c, code),
           http[c].pc # "idle", code # "ok", code = "unauthorized" /\ http[c].kind = "refresh" => window' = window + 1,
           user'.named = user.named
    PROVE  \A q \in Requests : Moves(q)
<1>1. /\ http'[c].pc = "answered" /\ http'[c].kind = http[c].kind /\ http'[c].status = code
      /\ http'[c].named = FALSE /\ \A d \in Requests \ {c} : http'[d] = http[d]
  BY Typed DEF Server!Answer, Server!Idle
<1>2. Moves(c)
  BY <1>1 DEF Moves
<1> QED
  BY <1>1, <1>2, Unmoved

LEMMA CallApiMoves == ASSUME Inv, NEW c \in Requests, Server!CallApi(c) PROVE Keeps
<1>1. /\ http[c].pc = "sent" /\ http[c].kind \in {"me", "name", "password"}
      /\ UNCHANGED <<pairs, window>>
  BY DEF Server!CallApi, Server!Arrived
<1>2. window' \in {window, window + 1} /\ P!Issued \subseteq P!Issued'
  BY <1>1, Typed DEF P!Issued
<1>3. CASE \E code \in {"unauthorized", "conflict"} : Server!Answer(c, code) /\ UNCHANGED user
  <2>1. \A q \in Requests : Moves(q)
    BY <1>1, <1>3, AnswerMoves DEF P!Statuses
  <2> QED
    BY <1>2, <1>3, <2>1 DEF Keeps
<1>4. CASE /\ user' = IF http[c].kind = "name" THEN [user EXCEPT !.named = TRUE] ELSE user
           /\ http' = [http EXCEPT ![c].pc = "answered", ![c].status = "ok", ![c].named = user'.named]
  <2>1. (user.named => user'.named) /\ (http[c].kind = "name" => user'.named)
    BY <1>4, Typed DEF P!UserRows
  <2>2. /\ http'[c].pc = "answered" /\ http'[c].kind = http[c].kind /\ http'[c].named = user'.named
        /\ \A d \in Requests \ {c} : http'[d] = http[d]
    BY <1>4, Typed DEF P!Exchanges
  <2>3. Moves(c)
    BY <1>1, <2>1, <2>2 DEF Moves
  <2> QED
    BY <1>2, <2>1, <2>2, <2>3, Unmoved DEF Keeps
<1> QED
  BY <1>3, <1>4 DEF Server!CallApi

LEMMA LoginMoves == ASSUME Inv, NEW c \in Requests, Server!Login(c) PROVE Keeps
<1>1. http[c].pc = "sent" /\ http[c].kind = "login" /\ UNCHANGED <<user, pairs, window>>
  BY DEF Server!Login, Server!Arrived
<1>2. window' \in {window, window + 1} /\ P!Issued \subseteq P!Issued'
  BY <1>1, Typed DEF P!Issued
<1>3. CASE \E code \in {"unauthorized", "forbidden"} : Server!Answer(c, code)
  <2>1. \A q \in Requests : Moves(q)
    BY <1>1, <1>3, AnswerMoves DEF P!Statuses
  <2> QED
    BY <1>1, <1>2, <2>1 DEF Keeps
<1>4. CASE http' = [http EXCEPT ![c].pc = "CreateRefreshToken", ![c].role = user.role,
                                ![c].named = user.named]
  <2>1. /\ http'[c].pc = "CreateRefreshToken" /\ http'[c].kind = http[c].kind
        /\ http'[c].named = user.named /\ \A d \in Requests \ {c} : http'[d] = http[d]
    BY <1>4, Typed DEF P!Exchanges
  <2>2. Moves(c)
    BY <1>1, <2>1 DEF Moves
  <2> QED
    BY <1>1, <1>2, <2>1, <2>2, Unmoved DEF Keeps
<1> QED
  BY <1>3, <1>4 DEF Server!Login

LEMMA RefusalMoves == ASSUME Inv, NEW c \in Requests, Server!Limited(c) \/ Server!LookupFails(c) \/ Server!Lose(c)
                      PROVE  Keeps
<1>1. /\ UNCHANGED <<user, pairs>> /\ window' \in {window, window + 1}
      /\ \E code \in {"limited", "unauthorized", "lost"} :
            Server!Answer(c, code) /\ (code = "unauthorized" => window' = window + 1)
  BY Typed DEF Server!Limited, Server!LookupFails, Server!Lose
<1>2. http[c].pc # "idle"
  BY DEF Server!Limited, Server!LookupFails, Server!Lose, Server!Arrived
<1>3. \A q \in Requests : Moves(q)
  BY <1>1, <1>2, AnswerMoves DEF P!Statuses
<1> QED
  BY <1>1, <1>3 DEF Keeps, P!Issued

LEMMA RefreshMoves ==
    ASSUME Inv, NEW c \in Requests, Server!GetRefreshToken(c) \/ Server!GetUserByID(c)
    PROVE  Keeps
<1>1. /\ UNCHANGED <<user, pairs>> /\ window' \in {window, window + 1}
      /\ http[c].pc # "idle" /\ http[c].kind # "name"
  BY Typed DEF Server!GetRefreshToken, Server!GetUserByID, Server!Arrived,
     Inv, ClientInv, Steady, NamedSeen
<1>2. CASE \E code \in {"unauthorized", "forbidden"} :
             Server!Answer(c, code) /\ (code = "unauthorized" => window' = window + 1)
  <2>1. \A q \in Requests : Moves(q)
    BY <1>1, <1>2, AnswerMoves DEF P!Statuses
  <2> QED
    BY <1>1, <2>1 DEF Keeps, P!Issued
<1>3. CASE \/ http' = [http EXCEPT ![c].pc = "GetUserByID"]
           \/ http' = [http EXCEPT ![c].pc = "RevokeRefreshToken", ![c].role = user.role]
  <2>1. /\ http'[c].pc # "idle" /\ http'[c].kind = http[c].kind /\ http'[c].status = http[c].status
        /\ http'[c].named = http[c].named /\ \A d \in Requests \ {c} : http'[d] = http[d]
    BY <1>3, Typed DEF P!Exchanges
  <2>2. Moves(c)
    BY <1>1, <2>1 DEF Moves, Inv, ClientInv, Steady, NamedSeen
  <2> QED
    BY <1>1, <2>1, <2>2, Unmoved DEF Keeps, P!Issued
<1> QED
  BY <1>2, <1>3 DEF Server!GetRefreshToken, Server!GetUserByID, Server!Goto

LEMMA RevokeMoves ==
    ASSUME Inv, NEW c \in Requests, Server!RevokeRefreshToken(c)
    PROVE  Keeps
<1>1. /\ http[c].pc = "RevokeRefreshToken" /\ UNCHANGED <<user, window>>
      /\ pairs' = [pairs EXCEPT ![http[c].token].refresh = "revoked"]
      /\ http' = [http EXCEPT ![c].pc = "CreateRefreshToken"]
  BY DEF Server!RevokeRefreshToken, Server!Goto
<1>2. P!Issued \subseteq P!Issued'
  <2>1. ASSUME NEW i \in Pairs, pairs[i] # None PROVE pairs'[i] # None
    <3>1. pairs[i] \in P!PairRows
      BY <2>1, Typed
    <3>2. pairs'[i] = pairs[i] \/ pairs'[i] = [pairs[i] EXCEPT !.refresh = "revoked"]
      BY <1>1, Typed
    <3>3. [pairs[i] EXCEPT !.refresh = "revoked"] \in P!PairRows
      BY <3>1 DEF P!PairRows
    <3> QED
      BY <3>1, <3>2, <3>3, Typed
  <2> QED
    BY <2>1 DEF P!Issued
<1>3. /\ http'[c].pc = "CreateRefreshToken" /\ http'[c].kind = http[c].kind
      /\ http'[c].status = http[c].status /\ http'[c].named = http[c].named
      /\ \A d \in Requests \ {c} : http'[d] = http[d]
  BY <1>1, Typed DEF P!Exchanges
<1>4. Moves(c)
  BY <1>1, <1>3 DEF Moves, Inv, ClientInv, Steady, NamedSeen
<1> QED
  BY <1>1, <1>2, <1>3, <1>4, Unmoved, Typed DEF Keeps

LEMMA CreateMoves ==
    ASSUME Inv, NEW c \in Requests, Server!CreateRefreshToken(c)
    PROVE  Keeps
<1>1. PICK i \in Pairs :
          /\ pairs' = [pairs EXCEPT ![i] = Server!NewPair(http[c].role)]
          /\ http' = [http EXCEPT ![c].pc = "answered", ![c].status = "ok", ![c].issued = i]
          /\ http[c].pc = "CreateRefreshToken" /\ UNCHANGED <<user, window>>
  BY DEF Server!CreateRefreshToken
<1>2. Server!NewPair(http[c].role) \in P!PairRows
  BY <1>1 DEF Server!NewPair, P!PairRows, Inv, P!Inv, P!Stands, P!WhereItStands
<1>3. P!Issued \subseteq P!Issued'
  BY <1>1, <1>2, Typed DEF P!Issued
<1>4. /\ http'[c].pc = "answered" /\ http'[c].kind = http[c].kind /\ http'[c].status = "ok"
      /\ http'[c].named = http[c].named /\ \A d \in Requests \ {c} : http'[d] = http[d]
  BY <1>1, Typed DEF P!Exchanges
<1>5. Moves(c)
  BY <1>1, <1>4 DEF Moves, Inv, ClientInv, Steady, NamedSeen
<1> QED
  BY <1>1, <1>3, <1>4, <1>5, Unmoved, Typed DEF Keeps

LEMMA AdminMoves == ASSUME Inv, Server!Admin PROVE Keeps
<1>1. PICK row \in P!UserRows : Server!EditUser(row) /\ (user.named => row.named)
  <2>1. /\ \A active \in BOOLEAN : /\ [user EXCEPT !.active = active] \in P!UserRows
                                   /\ [user EXCEPT !.active = active].named = user.named
        /\ \A role \in Server!Roles : /\ [user EXCEPT !.role = role] \in P!UserRows
                                      /\ [user EXCEPT !.role = role].named = user.named
        /\ [user EXCEPT !.named = TRUE] \in P!UserRows /\ [user EXCEPT !.named = TRUE].named
    BY Typed, SameValues DEF P!UserRows
  <2> QED
    BY <2>1 DEF Server!Admin
<1>2. (user.named => user'.named) /\ UNCHANGED <<pairs, http, window>>
  BY <1>1 DEF Server!EditUser
<1> QED
  BY <1>2, Unmoved, Typed DEF Keeps, P!Issued

LEMMA ExpireMoves == ASSUME Inv, NEW i \in Pairs, Server!Expire(i) PROVE Keeps
<1>1. /\ pairs[i] # None /\ UNCHANGED <<user, http, window>>
      /\ \/ pairs' = [pairs EXCEPT ![i].access = "expired", ![i].refresh = "expired"]
         \/ pairs' = [pairs EXCEPT ![i].access = "expired"]
  <2>1. PICK c \in Requests : http[c].pc = "sent" /\ http[c].token = i
    BY DEF Server!Expire
  <2>2. pairs[i] # None
    BY <2>1, Typed DEF Inv, P!Inv, P!Stands, P!RefersToIssued
  <2> QED
    BY <2>2 DEF Server!Expire
<1>2. pairs[i] \in P!PairRows
  BY <1>1, Typed
<1>3. \A row \in {[pairs[i] EXCEPT !.access = "expired", !.refresh = "expired"],
                  [pairs[i] EXCEPT !.access = "expired"]} : row \in P!PairRows
  BY <1>2 DEF P!PairRows
<1>4. \A j \in Pairs : pairs'[j] = pairs[j] \/ pairs'[j] \in P!PairRows
  BY <1>1, <1>3, Typed
<1>5. P!Issued \subseteq P!Issued'
  BY <1>4, Typed DEF P!Issued
<1> QED
  BY <1>1, <1>5, Unmoved, Typed DEF Keeps

LEMMA ServerMoves ==
    ASSUME Inv, (\E q \in Requests : Server!Handler(q)) \/ Server!Environment \/ \E i \in Pairs : Server!Expire(i)
    PROVE  Keeps
<1> QED
  BY CallApiMoves, LoginMoves, RefusalMoves, RefreshMoves, RevokeMoves, CreateMoves, AdminMoves, ExpireMoves
     DEF Server!Handler, Server!Environment

-----------------------------------------------------------------------------
(* The steps.                                                              *)

LEMMA ServerKeeps == ASSUME Inv, UNCHANGED clientVars, Keeps PROVE ClientInv'
<1>1. ClientTypeOK'
  BY DEF Inv, ClientInv, ClientTypeOK, clientVars
<1>2. PresentsIssued'
  BY DEF Inv, ClientInv, PresentsIssued, clientVars, Keeps
<1>3. OnlyNamedUsersEnter'
  BY DEF Inv, ClientInv, OnlyNamedUsersEnter, clientVars, Keeps
<1>4. ASSUME NEW q \in Requests PROVE Steady(q)'
  <2>1. Steady(q) /\ Moves(q) /\ req' = req /\ (user.named => user'.named)
    BY DEF Inv, ClientInv, Keeps, clientVars
  <2>2. KeepsStep(q)'
    BY <2>1 DEF Steady, KeepsStep, Moves
  <2>3. SendsCounted(q)'
    BY <2>1 DEF Steady, SendsCounted
  <2>4. StackPaidFor(q)'
    <3>1. /\ window \in Nat /\ window' \in {window, window + 1} /\ Len(req[q].stack) \in Nat
          /\ req[q].pc = "rotate" => http[q].kind = "refresh"
      BY <2>1, Typed DEF Keeps, Steady, KeepsStep
    <3>2. Len(req[q].stack) <= window' + 1
      BY <2>1, <3>1 DEF Steady, StackPaidFor
    <3>3. ASSUME req[q].pc = "refresh" \/ (req[q].pc = "rotate" /\ http'[q].status = "unauthorized")
          PROVE  Len(req[q].stack) <= window'
      BY <2>1, <3>1, <3>3 DEF Steady, StackPaidFor, Moves
    <3> QED
      BY <2>1, <3>2, <3>3 DEF StackPaidFor
  <2>5. NamedSeen(q)'
    BY <2>1 DEF Steady, NamedSeen, Moves
  <2> QED
    BY <2>2, <2>3, <2>4, <2>5 DEF Steady
<1> QED
  BY <1>1, <1>2, <1>3, <1>4 DEF ClientInv

LEMMA ForgetKeeps == ASSUME Inv, NEW i \in Unused, Forget(i) PROVE ClientInv'
<1>1. /\ pairs' = [pairs EXCEPT ![i] = None] /\ UNCHANGED clientVars
      /\ UNCHANGED <<user, http, window>> /\ ~ InUse(i)
  BY DEF Forget, Server!Forget, Unused
<1>2. \A j \in P!Issued : j # i => j \in P!Issued'
  BY <1>1, Typed DEF P!Issued
<1>3. PresentsIssued'
  BY <1>1, <1>2 DEF Inv, ClientInv, PresentsIssued, InUse, clientVars
<1>4. /\ ClientTypeOK' /\ OnlyNamedUsersEnter' /\ \A q \in Requests : Steady(q)'
  BY <1>1 DEF Inv, ClientInv, clientVars, ClientTypeOK, OnlyNamedUsersEnter, Steady, KeepsStep, SendsCounted,
     StackPaidFor, NamedSeen
<1> QED
  BY <1>3, <1>4 DEF ClientInv

LEMMA NextWindowKeeps == ASSUME Inv, NextWindow PROVE ClientInv'
<1>1. /\ window' = 0 /\ \A q \in Requests : req[q].pc = "idle"
      /\ UNCHANGED <<user, pairs, http>> /\ UNCHANGED clientVars
  BY DEF NextWindow, Server!NextWindow, InFlight
<1>2. \A q \in Requests : Len(req[q].stack) = 0
  BY <1>1 DEF Inv, ClientInv, Steady, KeepsStep, IdleRequest
<1>3. ClientTypeOK' /\ PresentsIssued' /\ OnlyNamedUsersEnter'
  BY <1>1 DEF Inv, ClientInv, clientVars, ClientTypeOK, OnlyNamedUsersEnter, PresentsIssued, P!Issued
<1>4. ASSUME NEW q \in Requests PROVE Steady(q)'
  BY <1>1, <1>2 DEF Inv, ClientInv, clientVars, Steady, KeepsStep, SendsCounted, StackPaidFor, NamedSeen
<1> QED
  BY <1>3, <1>4 DEF ClientInv

\* What the step of one request leaves to do: the others stay where they are.
LEMMA OtherRequests ==
    ASSUME Inv, NEW d \in Requests, req'[d] = req[d], http'[d] = http[d], UNCHANGED <<user, window>>
    PROVE  Steady(d)'
<1> QED
  BY DEF Inv, ClientInv, Steady, KeepsStep, SendsCounted, StackPaidFor, NamedSeen

\* What is left to show of the step of one request.
LEMMA OneRequest ==
    ASSUME Inv, NEW q \in Requests, UNCHANGED <<user, pairs, window>>,
           req' \in [Requests -> RequestStates],
           \A d \in Requests \ {q} : req'[d] = req[d] /\ http'[d] = http[d],
           storage' \in [access : P!Issued \cup {None}, refresh : P!Issued \cup {None}],
           status' \in SessionStatuses, status' = "authenticated" => user.named,
           req'[q].pair \in P!Issued \cup {None},
           \A j \in DOMAIN req'[q].stack : req'[q].stack[j] \in P!Issued,
           Steady(q)'
    PROVE  ClientInv'
<1>1. P!Issued' = P!Issued /\ P!Issued \subseteq Pairs
  BY DEF P!Issued
<1>2. ClientTypeOK'
  BY <1>1 DEF ClientTypeOK
<1>3. PresentsIssued'
  <2>1. \A d \in Requests : /\ req'[d].pair \in P!Issued \cup {None}
                            /\ \A j \in DOMAIN req'[d].stack : req'[d].stack[j] \in P!Issued
    BY DEF Inv, ClientInv, PresentsIssued
  <2> QED
    BY <1>1, <2>1 DEF PresentsIssued
<1>4. \A d \in Requests : Steady(d)'
  BY OtherRequests
<1> QED
  BY <1>2, <1>3, <1>4 DEF ClientInv, OnlyNamedUsersEnter

LEMMA StorageIssued ==
    ASSUME Inv
    PROVE  /\ storage \in [access : P!Issued \cup {None}, refresh : P!Issued \cup {None}]
           /\ status = "authenticated" => user.named
<1> QED
  BY Typed DEF Inv, ClientInv, PresentsIssued, OnlyNamedUsersEnter

LEMMA Sent ==
    ASSUME Inv, NEW q \in Requests, NEW kind, NEW token, Server!Send(q, kind, token)
    PROVE  /\ http[q].pc = "idle" /\ http'[q].pc = "sent" /\ http'[q].kind = kind
           /\ http'[q].status = None /\ http'[q].named = FALSE
           /\ \A d \in Requests \ {q} : http'[d] = http[d]
           /\ UNCHANGED <<user, pairs, window>>
<1> QED
  BY Typed DEF Server!Send, Server!Idle

LEMMA Received ==
    ASSUME Inv, NEW q \in Requests, Server!Receive(q)
    PROVE  /\ http[q].pc = "answered" /\ http'[q].pc = "idle" /\ http'[q].kind = None
           /\ http'[q].status = None /\ http'[q].named = FALSE
           /\ \A d \in Requests \ {q} : http'[d] = http[d]
           /\ UNCHANGED <<user, pairs, window>>
<1> QED
  BY Typed DEF Server!Receive, Server!Idle

\* A request that is over.
LEMMA EndKeeps ==
    ASSUME Inv, NEW q \in Requests, End(q), http'[q].pc = "idle", http'[q].kind # "name",
           http'[q].named => user'.named
    PROVE  /\ req' \in [Requests -> RequestStates] /\ \A d \in Requests \ {q} : req'[d] = req[d]
           /\ req'[q] = IdleRequest /\ req'[q].pair = None /\ DOMAIN req'[q].stack = {}
           /\ window' = window => Steady(q)'
<1>1. IdleRequest \in RequestStates /\ IdleRequest.stack \in Seq({})
  BY DEF IdleRequest, RequestStates
<1>2. /\ req' \in [Requests -> RequestStates] /\ \A d \in Requests \ {q} : req'[d] = req[d]
      /\ req'[q] = IdleRequest
  BY <1>1, Typed DEF End
<1>3. req'[q].pair = None /\ req'[q].stack = <<>> /\ req'[q].pc = "idle" /\ ~ req'[q].retried
      /\ req'[q].sends = 0 /\ req'[q].call = None
  BY <1>2 DEF IdleRequest
<1>4. ASSUME window' = window PROVE Steady(q)'
  <2>1. KeepsStep(q)'
    BY <1>2, <1>3, NoneIsNoName DEF KeepsStep
  <2>2. SendsCounted(q)' /\ StackPaidFor(q)'
    BY <1>3, <1>4, Typed DEF SendsCounted, StackPaidFor
  <2>3. NamedSeen(q)'
    BY <1>3 DEF NamedSeen
  <2> QED
    BY <2>1, <2>2, <2>3 DEF Steady
<1> QED
  BY <1>2, <1>3, <1>4

LEMMA SendCallKeeps == ASSUME Inv, NEW q \in Requests, SendCall(q) PROVE ClientInv'
<1>1. /\ req[q].pc = "send" /\ UNCHANGED <<storage, status>>
      /\ Server!Send(q, KindOf(req[q].call), IF req[q].call = "login" THEN None ELSE storage.access)
  BY DEF SendCall
<1>2. Steady(q) /\ req[q] \in RequestStates
  BY Typed DEF Inv, ClientInv
<1>3. /\ http'[q].pc = "sent" /\ http'[q].kind = KindOf(req[q].call) /\ http'[q].status = None
      /\ http'[q].named = FALSE /\ \A d \in Requests \ {q} : http'[d] = http[d]
      /\ UNCHANGED <<user, pairs, window>>
  BY <1>1, Sent
<1>4. req[q].sends <= IF req[q].retried THEN 1 ELSE 0
  BY <1>1, <1>2 DEF Steady, SendsCounted
<1>5. [req[q] EXCEPT !.pc = "wait", !.sends = @ + 1] \in RequestStates
  <2>1. req[q].sends \in 0..3 /\ req[q].sends + 1 \in 0..3
    BY <1>2, <1>4 DEF RequestStates
  <2> QED
    BY <1>2, <2>1 DEF RequestStates
<1>6. /\ req'[q] = [req[q] EXCEPT !.pc = "wait", !.sends = @ + 1]
      /\ req' \in [Requests -> RequestStates] /\ \A d \in Requests \ {q} : req'[d] = req[d]
  BY <1>5, Typed DEF SendCall
<1>7. /\ req'[q].pc = "wait" /\ req'[q].sends = req[q].sends + 1 /\ req'[q].stack = req[q].stack
      /\ req'[q].pair = req[q].pair /\ req'[q].call = req[q].call /\ req'[q].retried = req[q].retried
  BY <1>2, <1>6 DEF RequestStates
<1>8. Steady(q)'
  <2>1. KeepsStep(q)'
    BY <1>1, <1>2, <1>3, <1>7 DEF Steady, KeepsStep
  <2>2. SendsCounted(q)'
    BY <1>1, <1>2, <1>4, <1>7 DEF Steady, SendsCounted, RequestStates
  <2>3. StackPaidFor(q)'
    BY <1>1, <1>2, <1>3, <1>7 DEF Steady, StackPaidFor
  <2>4. NamedSeen(q)'
    BY <1>3, <1>7, NoneIsNoName DEF NamedSeen
  <2> QED
    BY <2>1, <2>2, <2>3, <2>4 DEF Steady
<1>9. req'[q].pair \in P!Issued \cup {None} /\ \A j \in DOMAIN req'[q].stack : req'[q].stack[j] \in P!Issued
  BY <1>7 DEF Inv, ClientInv, PresentsIssued
<1> QED
  BY <1>1, <1>3, <1>6, <1>8, <1>9, OneRequest, StorageIssued, Typed

\* A step that changes no more of a request than its pc and its flags, or the
\* pair and the tokens it holds, to ones that are issued.
LEMMA RequestSet ==
    ASSUME Inv, NEW q \in Requests, NEW r \in RequestStates, req' = [req EXCEPT ![q] = r],
           UNCHANGED <<user, pairs, window>>, \A d \in Requests \ {q} : http'[d] = http[d],
           storage' \in [access : P!Issued \cup {None}, refresh : P!Issued \cup {None}],
           status' \in SessionStatuses, status' = "authenticated" => user.named,
           r.pair \in P!Issued \cup {None}, \A j \in DOMAIN r.stack : r.stack[j] \in P!Issued,
           Steady(q)'
    PROVE  ClientInv'
<1>1. /\ req' \in [Requests -> RequestStates] /\ req'[q] = r
      /\ \A d \in Requests \ {q} : req'[d] = req[d]
  BY Typed
<1> QED
  BY <1>1, OneRequest

LEMMA RequestKnown ==
    ASSUME Inv, NEW q \in Requests
    PROVE  /\ Steady(q) /\ req[q] \in RequestStates
           /\ req[q].pair \in P!Issued \cup {None}
           /\ \A j \in DOMAIN req[q].stack : req[q].stack[j] \in P!Issued
           /\ req[q].stack \in Seq(Pairs) /\ Len(req[q].stack) \in Nat
           /\ http[q].named => user.named
<1> QED
  BY Typed DEF Inv, ClientInv, PresentsIssued, RequestStates, Steady, NamedSeen

LEMMA OuterIssued ==
    ASSUME Inv, NEW q \in Requests, req[q].stack # <<>>
    PROVE  /\ Outer(req[q].stack) \in Seq(Pairs) /\ Len(Outer(req[q].stack)) = Len(req[q].stack) - 1
           /\ \A j \in DOMAIN Outer(req[q].stack) : Outer(req[q].stack)[j] \in P!Issued
<1>1. req[q].stack \in Seq(Pairs) /\ \A j \in DOMAIN req[q].stack : req[q].stack[j] \in P!Issued
  BY RequestKnown
<1>2. /\ Outer(req[q].stack) \in Seq(Pairs) /\ Len(Outer(req[q].stack)) = Len(req[q].stack) - 1
      /\ \A j \in 1..Len(Outer(req[q].stack)) : Outer(req[q].stack)[j] = req[q].stack[j]
  BY <1>1, LastOfOuter
<1>3. DOMAIN Outer(req[q].stack) = 1..Len(Outer(req[q].stack)) /\ DOMAIN req[q].stack = 1..Len(req[q].stack)
      /\ Len(req[q].stack) \in Nat
  BY <1>1, <1>2
<1>4. \A j \in DOMAIN Outer(req[q].stack) : j \in DOMAIN req[q].stack
  BY <1>2, <1>3
<1> QED
  BY <1>1, <1>2, <1>3, <1>4

LEMMA IdleSaysNothing ==
    ASSUME Inv, NEW q \in Requests, http[q].pc = "idle"
    PROVE  http[q].kind # "name" /\ (http[q].named => user.named)
<1> QED
  BY RequestKnown DEF Steady, NamedSeen

LEMMA BeginKeeps == ASSUME Inv, NEW q \in Requests, NEW call \in Calls, Begin(q, call) PROVE ClientInv'
<1>1. /\ req[q].pc = "idle" /\ http[q].pc = "idle" /\ UNCHANGED <<user, pairs, window, http>> /\ storage' = storage
  BY DEF Begin, InFlight, serverVars
<1>2. CASE status' = "unauthenticated" /\ req' = req
  <2>1. Steady(q)' /\ req'[q] \in RequestStates
    BY <1>1, <1>2, OtherRequests, RequestKnown
  <2> QED
    BY <1>1, <1>2, <2>1, OneRequest, RequestKnown, StorageIssued, Typed DEF SessionStatuses
<1>3. CASE /\ req' = [req EXCEPT ![q].call = call,
                                 ![q].pc = IF call = "logout" THEN "clearAccess" ELSE "send"]
           /\ status' = status
  <2> DEFINE r == [req[q] EXCEPT !.call = call, !.pc = IF call = "logout" THEN "clearAccess" ELSE "send"]
  <2>1. req[q] = IdleRequest
    BY <1>1, RequestKnown DEF Steady, KeepsStep
  <2>2. r \in RequestStates
    BY RequestKnown DEF RequestStates
  <2>3. /\ r.stack = <<>> /\ DOMAIN r.stack = {} /\ r.pair = None
        /\ ~ r.retried /\ r.sends = 0 /\ r.call = call
        /\ r.pc = IF call = "logout" THEN "clearAccess" ELSE "send"
    BY <2>1 DEF IdleRequest
  <2>4. req' = [req EXCEPT ![q] = r] /\ req'[q] = r
    BY <1>3, Typed
  <2> HIDE DEF r
  <2>5. Steady(q)'
    <3>1. KeepsStep(q)'
      BY <1>1, <2>3, <2>4 DEF KeepsStep
    <3>2. SendsCounted(q)' /\ StackPaidFor(q)'
      BY <1>1, <2>3, <2>4, Typed DEF SendsCounted, StackPaidFor
    <3>3. NamedSeen(q)'
      BY <1>1, <2>3, <2>4, RequestKnown DEF Steady, NamedSeen
    <3> QED
      BY <3>1, <3>2, <3>3 DEF Steady
  <2> QED
    BY <1>1, <1>3, <2>2, <2>3, <2>4, <2>5, RequestSet, StorageIssued, Typed
<1> QED
  BY <1>2, <1>3 DEF Begin

LEMMA TryRefreshKeeps == ASSUME Inv, NEW q \in Requests, TryRefresh(q) PROVE ClientInv'
<1>1. req[q].pc = "refresh" /\ UNCHANGED <<storage, status>> /\ http[q].pc = "idle"
  BY RequestKnown DEF TryRefresh, Steady, KeepsStep
<1>2. Len(req[q].stack) <= window /\ ~ req[q].retried /\ req[q].sends <= 1 /\ window \in Nat
  BY <1>1, RequestKnown, Typed DEF Steady, StackPaidFor, SendsCounted
<1>3. CASE req' = [req EXCEPT ![q].pc = "clearAccess", ![q].again = FALSE] /\ UNCHANGED serverVars
  <2> DEFINE r == [req[q] EXCEPT !.pc = "clearAccess", !.again = FALSE]
  <2>1. /\ r \in RequestStates /\ r.pc = "clearAccess" /\ r.stack = req[q].stack /\ r.pair = req[q].pair
        /\ r.retried = req[q].retried /\ r.sends = req[q].sends /\ r.call = req[q].call
    BY RequestKnown DEF RequestStates
  <2>2. req' = [req EXCEPT ![q] = r] /\ req'[q] = r
    BY <1>3, Typed
  <2> HIDE DEF r
  <2>3. UNCHANGED <<user, pairs, window, http>>
    BY <1>3 DEF serverVars
  <2>4. Steady(q)'
    BY <1>1, <1>2, <2>1, <2>2, <2>3, RequestKnown DEF Steady, KeepsStep, SendsCounted, StackPaidFor, NamedSeen
  <2> QED
    BY <1>1, <2>1, <2>2, <2>3, <2>4, RequestSet, RequestKnown, StorageIssued, Typed
<1>4. CASE /\ storage.refresh # None /\ Server!Send(q, "refresh", storage.refresh)
           /\ req' = [req EXCEPT ![q].pc = "rotate", ![q].again = FALSE,
                                 ![q].stack = Append(@, storage.refresh)]
  <2> DEFINE s == Append(req[q].stack, storage.refresh)
             r == [req[q] EXCEPT !.pc = "rotate", !.again = FALSE, !.stack = s]
  <2>1. /\ storage.refresh \in P!Issued /\ storage.refresh \in Pairs
    BY <1>4, StorageIssued, Typed DEF P!Issued
  <2>2. /\ s \in Seq(Pairs) /\ Len(s) = Len(req[q].stack) + 1 /\ s # <<>>
        /\ \A j \in DOMAIN s : s[j] \in P!Issued
    BY <2>1, RequestKnown
  <2> HIDE DEF s
  <2>3. /\ r \in RequestStates /\ r.pc = "rotate" /\ r.stack = s /\ r.pair = req[q].pair
        /\ r.retried = req[q].retried /\ r.sends = req[q].sends /\ r.call = req[q].call
    BY <2>2, RequestKnown DEF RequestStates
  <2>4. req' = [req EXCEPT ![q] = r] /\ req'[q] = r
    BY <1>4, Typed DEF s
  <2> HIDE DEF r
  <2>5. /\ http'[q].pc = "sent" /\ http'[q].kind = "refresh" /\ http'[q].status = None
        /\ http'[q].named = FALSE /\ \A d \in Requests \ {q} : http'[d] = http[d]
        /\ UNCHANGED <<user, pairs, window>>
    BY <1>4, Sent
  <2>6. Steady(q)'
    <3>1. KeepsStep(q)'
      BY <1>1, <2>2, <2>3, <2>4, <2>5, RequestKnown DEF Steady, KeepsStep
    <3>2. SendsCounted(q)'
      BY <1>1, <1>2, <2>3, <2>4 DEF SendsCounted
    <3>3. StackPaidFor(q)'
      BY <1>2, <2>2, <2>3, <2>4, <2>5, NoneIsNoName, RequestKnown DEF StackPaidFor
    <3>4. NamedSeen(q)'
      BY <2>3, <2>4, <2>5 DEF NamedSeen
    <3> QED
      BY <3>1, <3>2, <3>3, <3>4 DEF Steady
  <2> QED
    BY <1>1, <2>2, <2>3, <2>4, <2>5, <2>6, RequestSet, RequestKnown, StorageIssued, Typed
<1> QED
  BY <1>3, <1>4 DEF TryRefresh

\* A request that is over, its caller having set the status.
LEMMA OverKeeps ==
    ASSUME Inv, NEW q \in Requests, End(q), UNCHANGED <<user, pairs, window>>,
           http'[q].pc = "idle", http'[q].kind # "name", http'[q].named => user.named,
           \A d \in Requests \ {q} : http'[d] = http[d],
           storage' \in [access : P!Issued \cup {None}, refresh : P!Issued \cup {None}],
           status' \in SessionStatuses, status' = "authenticated" => user.named
    PROVE  ClientInv'
<1> QED
  BY EndKeeps, OneRequest

LEMMA ReceiveAnswerKeeps == ASSUME Inv, NEW q \in Requests, ReceiveAnswer(q) PROVE ClientInv'
<1>1. req[q].pc = "wait" /\ storage' = storage /\ Server!Receive(q)
  BY DEF ReceiveAnswer
<1>2. /\ http[q].pc = "answered" /\ http'[q].pc = "idle" /\ http'[q].kind = None
      /\ http'[q].status = None /\ http'[q].named = FALSE
      /\ \A d \in Requests \ {q} : http'[d] = http[d]
      /\ UNCHANGED <<user, pairs, window>>
  BY <1>1, Received
<1>3. Steady(q) /\ req[q].stack = <<>> /\ http[q].kind = KindOf(req[q].call)
  BY <1>1, RequestKnown DEF Steady, KeepsStep
<1>4. CASE Retries(q) /\ req' = [req EXCEPT ![q].pc = "refresh"] /\ status' = status
  <2> DEFINE r == [req[q] EXCEPT !.pc = "refresh"]
  <2>1. /\ r \in RequestStates /\ r.pc = "refresh" /\ r.stack = req[q].stack /\ r.pair = req[q].pair
        /\ r.retried = req[q].retried /\ r.sends = req[q].sends /\ r.call = req[q].call
    BY RequestKnown DEF RequestStates
  <2>2. req' = [req EXCEPT ![q] = r] /\ req'[q] = r
    BY <1>4, Typed
  <2> HIDE DEF r
  <2>3. Steady(q)'
    <3>1. KeepsStep(q)'
      BY <1>1, <1>2, <1>3, <2>1, <2>2 DEF Steady, KeepsStep
    <3>2. SendsCounted(q)'
      BY <1>3, <1>4, <2>1, <2>2 DEF Retries, Steady, SendsCounted
    <3>3. StackPaidFor(q)'
      BY <1>2, <1>3, <2>1, <2>2, Typed DEF StackPaidFor
    <3>4. NamedSeen(q)'
      BY <1>2, <2>1, <2>2, NoneIsNoName DEF NamedSeen
    <3> QED
      BY <3>1, <3>2, <3>3, <3>4 DEF Steady
  <2> QED
    BY <1>1, <1>2, <1>4, <2>1, <2>2, <2>3, RequestSet, RequestKnown, StorageIssued, Typed
<1>5. CASE End(q) /\ StatusOnError(q)
  <2>1. status' \in SessionStatuses /\ (status' = "authenticated" => user.named)
    BY <1>5, StorageIssued, Typed DEF StatusOnError, SessionStatuses
  <2> QED
    BY <1>1, <1>2, <1>5, <2>1, OverKeeps, StorageIssued, NoneIsNoName
<1>6. CASE http[q].status = "ok" /\ End(q) /\ StatusOnSuccess(q)
  <2>1. status' \in SessionStatuses
    BY <1>6, Typed DEF StatusOnSuccess, StatusAfter, SessionStatuses
  <2>2. status' = "authenticated" => user.named
    <3>1. CASE req[q].call = "check"
      BY <1>6, <3>1, RequestKnown DEF StatusOnSuccess, StatusAfter
    <3>2. CASE req[q].call = "name"
      BY <1>3, <1>6, <3>2 DEF KindOf, Steady, NamedSeen
    <3>3. CASE req[q].call \notin {"check", "name"}
      BY <1>6, <3>3, StorageIssued DEF StatusOnSuccess
    <3> QED
      BY <3>1, <3>2, <3>3
  <2> QED
    BY <1>1, <1>2, <1>6, <2>1, <2>2, OverKeeps, StorageIssued, NoneIsNoName
<1>7. CASE /\ req' = [req EXCEPT ![q].pc = "saveAccess", ![q].pair = http[q].issued,
                                 ![q].pending = ~ http[q].named]
           /\ status' = status
  <2> DEFINE r == [req[q] EXCEPT !.pc = "saveAccess", !.pair = http[q].issued, !.pending = ~ http[q].named]
  <2>1. http[q].issued \in P!Issued \cup {None} /\ http[q].issued \in Pairs \cup {None} /\ http[q].named \in BOOLEAN
    BY Typed DEF P!Issued, P!Exchanges, Inv, P!Inv, P!Stands, P!RefersToIssued
  <2>2. /\ r \in RequestStates /\ r.pc = "saveAccess" /\ r.stack = req[q].stack /\ r.pair = http[q].issued
        /\ r.retried = req[q].retried /\ r.sends = req[q].sends /\ r.call = req[q].call
        /\ r.pending = ~ http[q].named
    BY <2>1, RequestKnown DEF RequestStates
  <2>3. req' = [req EXCEPT ![q] = r] /\ req'[q] = r
    BY <1>7, Typed
  <2> HIDE DEF r
  <2>4. Steady(q)'
    <3>1. KeepsStep(q)'
      BY <1>1, <1>2, <1>3, <2>2, <2>3 DEF Steady, KeepsStep
    <3>2. SendsCounted(q)'
      BY <1>1, <1>3, <2>2, <2>3 DEF Steady, SendsCounted
    <3>3. StackPaidFor(q)'
      BY <1>2, <1>3, <2>2, <2>3, Typed DEF StackPaidFor
    <3>4. NamedSeen(q)'
      BY <1>2, <2>2, <2>3, NoneIsNoName, RequestKnown DEF NamedSeen
    <3> QED
      BY <3>1, <3>2, <3>3, <3>4 DEF Steady
  <2> QED
    BY <1>1, <1>2, <1>7, <2>1, <2>2, <2>3, <2>4, RequestSet, RequestKnown, StorageIssued, Typed
<1> QED
  BY <1>4, <1>5, <1>6, <1>7 DEF ReceiveAnswer

LEMMA ReceiveRefreshKeeps == ASSUME Inv, NEW q \in Requests, ReceiveRefresh(q) PROVE ClientInv'
<1>1. req[q].pc = "rotate" /\ storage' = storage /\ status' = status /\ Server!Receive(q)
  BY DEF ReceiveRefresh
<1>2. /\ http'[q].pc = "idle" /\ http'[q].kind = None /\ http'[q].status = None /\ http'[q].named = FALSE
      /\ \A d \in Requests \ {q} : http'[d] = http[d]
      /\ UNCHANGED <<user, pairs, window>>
  BY <1>1, Received
<1>3. /\ Steady(q) /\ req[q].stack # <<>> /\ ~ req[q].retried /\ req[q].sends <= 1
      /\ Len(req[q].stack) <= window + 1 /\ window \in Nat
      /\ req[q].call # "logout" /\ req[q].call \in Calls
  BY <1>1, RequestKnown, Typed DEF Steady, KeepsStep, SendsCounted, StackPaidFor
<1> DEFINE saved == [req[q] EXCEPT !.pc = "saveAccess", !.pair = http[q].issued]
           again == [req[q] EXCEPT !.pc = "refresh"]
           over == [req[q] EXCEPT !.pc = "clearAccess", !.stack = Outer(req[q].stack)]
<1>4. \/ req' = [req EXCEPT ![q] = saved]
      \/ req' = [req EXCEPT ![q] = again] /\ http[q].status = "unauthorized"
      \/ req' = [req EXCEPT ![q] = over]
  BY DEF ReceiveRefresh
<1>5. CASE req' = [req EXCEPT ![q] = saved]
  <2>1. http[q].issued \in P!Issued \cup {None} /\ http[q].issued \in Pairs \cup {None}
    BY Typed DEF P!Issued, P!Exchanges, Inv, P!Inv, P!Stands, P!RefersToIssued
  <2>2. /\ saved \in RequestStates /\ saved.pc = "saveAccess" /\ saved.stack = req[q].stack
        /\ saved.pair = http[q].issued /\ saved.retried = req[q].retried
        /\ saved.sends = req[q].sends /\ saved.call = req[q].call
    BY <2>1, RequestKnown DEF RequestStates
  <2>3. req'[q] = saved
    BY <1>5, Typed
  <2> HIDE DEF saved
  <2>4. KeepsStep(q)' /\ NamedSeen(q)'
    BY <1>2, <1>3, <2>2, <2>3, NoneIsNoName DEF KeepsStep, NamedSeen
  <2>5. SendsCounted(q)' /\ StackPaidFor(q)'
    BY <1>2, <1>3, <2>2, <2>3 DEF SendsCounted, StackPaidFor
  <2> QED
    BY <1>1, <1>2, <1>5, <2>1, <2>2, <2>3, <2>4, <2>5, RequestSet, RequestKnown, StorageIssued, Typed DEF Steady
<1>6. CASE req' = [req EXCEPT ![q] = again] /\ http[q].status = "unauthorized"
  <2>1. Len(req[q].stack) <= window
    BY <1>1, <1>3, <1>6 DEF Steady, StackPaidFor
  <2>2. /\ again \in RequestStates /\ again.pc = "refresh" /\ again.stack = req[q].stack
        /\ again.pair = req[q].pair /\ again.retried = req[q].retried
        /\ again.sends = req[q].sends /\ again.call = req[q].call
    BY RequestKnown DEF RequestStates
  <2>3. req'[q] = again
    BY <1>6, Typed
  <2> HIDE DEF again
  <2>4. KeepsStep(q)' /\ NamedSeen(q)'
    BY <1>2, <1>3, <2>2, <2>3, NoneIsNoName DEF KeepsStep, NamedSeen
  <2>5. SendsCounted(q)' /\ StackPaidFor(q)'
    BY <1>2, <1>3, <2>1, <2>2, <2>3 DEF SendsCounted, StackPaidFor
  <2> QED
    BY <1>1, <1>2, <1>6, <2>2, <2>3, <2>4, <2>5, RequestSet, RequestKnown, StorageIssued, Typed DEF Steady
<1>7. CASE req' = [req EXCEPT ![q] = over]
  <2>1. /\ Outer(req[q].stack) \in Seq(Pairs) /\ Len(Outer(req[q].stack)) = Len(req[q].stack) - 1
        /\ \A j \in DOMAIN Outer(req[q].stack) : Outer(req[q].stack)[j] \in P!Issued
    BY <1>3, RequestKnown, OuterIssued
  <2>2. /\ over \in RequestStates /\ over.pc = "clearAccess" /\ over.stack = Outer(req[q].stack)
        /\ over.pair = req[q].pair /\ over.retried = req[q].retried
        /\ over.sends = req[q].sends /\ over.call = req[q].call
    BY <2>1, RequestKnown DEF RequestStates
  <2>3. req'[q] = over
    BY <1>7, Typed
  <2> HIDE DEF over
  <2>4. KeepsStep(q)' /\ NamedSeen(q)'
    BY <1>2, <1>3, <2>2, <2>3, NoneIsNoName DEF KeepsStep, NamedSeen
  <2>5. SendsCounted(q)' /\ StackPaidFor(q)'
    BY <1>2, <1>3, <2>1, <2>2, <2>3, RequestKnown DEF SendsCounted, StackPaidFor
  <2> QED
    BY <1>1, <1>2, <1>7, <2>1, <2>2, <2>3, <2>4, <2>5, RequestSet, RequestKnown, StorageIssued, Typed DEF Steady
<1> QED
  BY <1>4, <1>5, <1>6, <1>7

LEMMA SaveAccessKeeps == ASSUME Inv, NEW q \in Requests, SaveAccess(q) PROVE ClientInv'
<1>1. /\ req[q].pc = "saveAccess" /\ status' = status /\ UNCHANGED <<user, pairs, window, http>>
      /\ storage' = [storage EXCEPT !.access = req[q].pair] /\ req' = [req EXCEPT ![q].pc = "saveRefresh"]
  BY DEF SaveAccess, serverVars
<1>2. storage' \in [access : P!Issued \cup {None}, refresh : P!Issued \cup {None}]
  BY <1>1, StorageIssued, RequestKnown
<1> DEFINE r == [req[q] EXCEPT !.pc = "saveRefresh"]
<1>3. /\ r \in RequestStates /\ r.pc = "saveRefresh" /\ r.stack = req[q].stack /\ r.pair = req[q].pair
      /\ r.retried = req[q].retried /\ r.sends = req[q].sends /\ r.call = req[q].call
      /\ r.pending = req[q].pending
  BY RequestKnown DEF RequestStates
<1>4. req' = [req EXCEPT ![q] = r] /\ req'[q] = r
  BY <1>1, Typed
<1> HIDE DEF r
<1>5. Steady(q)'
  BY <1>1, <1>3, <1>4, RequestKnown DEF Steady, KeepsStep, SendsCounted, StackPaidFor, NamedSeen
<1> QED
  BY <1>1, <1>2, <1>3, <1>4, <1>5, RequestSet, RequestKnown, StorageIssued, Typed

LEMMA ClearAccessKeeps == ASSUME Inv, NEW q \in Requests, ClearAccess(q) PROVE ClientInv'
<1>1. /\ req[q].pc = "clearAccess" /\ status' = status /\ UNCHANGED <<user, pairs, window, http>>
      /\ storage' = [storage EXCEPT !.access = None] /\ req' = [req EXCEPT ![q].pc = "clearRefresh"]
  BY DEF ClearAccess, serverVars
<1>2. storage' \in [access : P!Issued \cup {None}, refresh : P!Issued \cup {None}]
  BY <1>1, StorageIssued
<1> DEFINE r == [req[q] EXCEPT !.pc = "clearRefresh"]
<1>3. /\ r \in RequestStates /\ r.pc = "clearRefresh" /\ r.stack = req[q].stack /\ r.pair = req[q].pair
      /\ r.retried = req[q].retried /\ r.sends = req[q].sends /\ r.call = req[q].call
  BY RequestKnown DEF RequestStates
<1>4. req' = [req EXCEPT ![q] = r] /\ req'[q] = r
  BY <1>1, Typed
<1> HIDE DEF r
<1>5. Steady(q)'
  BY <1>1, <1>3, <1>4, RequestKnown DEF Steady, KeepsStep, SendsCounted, StackPaidFor, NamedSeen
<1> QED
  BY <1>1, <1>2, <1>3, <1>4, <1>5, RequestSet, RequestKnown, StorageIssued, Typed

LEMMA ClearRefreshKeeps == ASSUME Inv, NEW q \in Requests, ClearRefresh(q) PROVE ClientInv'
<1>1. /\ req[q].pc = "clearRefresh" /\ UNCHANGED <<user, pairs, window, http>>
      /\ storage' = [storage EXCEPT !.refresh = None]
  BY DEF ClearRefresh, serverVars
<1>2. storage' \in [access : P!Issued \cup {None}, refresh : P!Issued \cup {None}]
  BY <1>1, StorageIssued
<1>3. Steady(q) /\ http[q].pc = "idle" /\ req[q].call \in Calls
  BY <1>1, RequestKnown DEF Steady, KeepsStep
<1>4. http[q].kind # "name" /\ (http[q].named => user.named)
  BY <1>3, IdleSaysNothing
<1>5. CASE End(q) /\ (status' = "unauthenticated" \/ StatusOnError(q))
  <2>1. status' \in SessionStatuses /\ (status' = "authenticated" => user.named)
    BY <1>5, StorageIssued, Typed DEF StatusOnError, SessionStatuses
  <2> QED
    BY <1>1, <1>2, <1>3, <1>4, <1>5, <2>1, OverKeeps
<1>6. CASE /\ req[q].call # "logout" /\ req[q].stack # <<>> /\ status' = status
           /\ req' = [req EXCEPT ![q].pc = "clearAccess", ![q].again = FALSE, ![q].stack = Outer(@)]
  <2> DEFINE r == [req[q] EXCEPT !.pc = "clearAccess", !.again = FALSE, !.stack = Outer(req[q].stack)]
  <2>1. /\ Outer(req[q].stack) \in Seq(Pairs) /\ Len(Outer(req[q].stack)) = Len(req[q].stack) - 1
        /\ \A j \in DOMAIN Outer(req[q].stack) : Outer(req[q].stack)[j] \in P!Issued
    BY <1>6, OuterIssued
  <2>2. /\ r \in RequestStates /\ r.pc = "clearAccess" /\ r.stack = Outer(req[q].stack)
        /\ r.pair = req[q].pair /\ r.retried = req[q].retried /\ r.sends = req[q].sends
        /\ r.call = req[q].call
    BY <2>1, RequestKnown DEF RequestStates
  <2>3. req' = [req EXCEPT ![q] = r] /\ req'[q] = r
    BY <1>6, Typed
  <2> HIDE DEF r
  <2>4. KeepsStep(q)' /\ NamedSeen(q)'
    BY <1>1, <1>3, <1>4, <1>6, <2>2, <2>3 DEF KeepsStep, NamedSeen
  <2>5. SendsCounted(q)' /\ StackPaidFor(q)'
    BY <1>1, <1>3, <2>1, <2>2, <2>3, RequestKnown, Typed DEF Steady, SendsCounted, StackPaidFor
  <2> QED
    BY <1>1, <1>2, <1>6, <2>1, <2>2, <2>3, <2>4, <2>5, RequestSet, RequestKnown, StorageIssued, Typed DEF Steady
<1> QED
  BY <1>5, <1>6 DEF ClearRefresh

LEMMA SaveRefreshKeeps == ASSUME Inv, NEW q \in Requests, SaveRefresh(q) PROVE ClientInv'
<1>1. /\ req[q].pc = "saveRefresh" /\ AfterSave(q)
      /\ storage' = [storage EXCEPT !.refresh = req[q].pair]
  BY DEF SaveRefresh
<1>2. storage' \in [access : P!Issued \cup {None}, refresh : P!Issued \cup {None}]
  BY <1>1, StorageIssued, RequestKnown
<1>3. /\ Steady(q) /\ http[q].pc = "idle" /\ req[q].call \in Calls /\ req[q].call # "logout"
      /\ http[q].kind # "name" /\ (http[q].named => user.named)
  BY <1>1, RequestKnown, IdleSaysNothing DEF Steady, KeepsStep
<1>4. CASE req[q].stack = <<>>
  <2>1. End(q) /\ status' = StatusAfter(~ req[q].pending) /\ UNCHANGED <<user, pairs, window, http>>
    BY <1>1, <1>4 DEF AfterSave, serverVars
  <2>2. status' \in SessionStatuses /\ (status' = "authenticated" => user.named)
    BY <1>1, <1>3, <1>4, <2>1 DEF Steady, NamedSeen, StatusAfter, SessionStatuses
  <2> QED
    BY <1>2, <1>3, <2>1, <2>2, OverKeeps
<1>5. CASE req[q].stack # <<>> /\ Len(req[q].stack) = 1
  <2> DEFINE r == [req[q] EXCEPT !.pc = "send", !.retried = TRUE, !.again = FALSE, !.stack = <<>>, !.pair = None]
  <2>1. /\ req' = [req EXCEPT ![q].pc = "send", ![q].retried = TRUE, ![q].again = FALSE,
                              ![q].stack = <<>>, ![q].pair = None]
        /\ status' = status /\ UNCHANGED <<user, pairs, window, http>>
    BY <1>1, <1>5 DEF AfterSave, serverVars
  <2>2. /\ r \in RequestStates /\ r.pc = "send" /\ r.stack = <<>> /\ DOMAIN r.stack = {} /\ r.pair = None
        /\ r.retried = TRUE /\ r.sends = req[q].sends /\ r.call = req[q].call
    <3>1. <<>> \in Seq(Pairs) /\ DOMAIN <<>> = {}
      OBVIOUS
    <3>2. r \in RequestStates
      BY <3>1, RequestKnown DEF RequestStates
    <3>3. /\ r.pc = "send" /\ r.stack = <<>> /\ r.pair = None
          /\ r.retried = TRUE /\ r.sends = req[q].sends /\ r.call = req[q].call
      BY RequestKnown DEF RequestStates
    <3> QED
      BY <3>1, <3>2, <3>3
  <2>3. req' = [req EXCEPT ![q] = r] /\ req'[q] = r
    BY <2>1, Typed
  <2> HIDE DEF r
  <2>4. req[q].sends <= 1
    BY <1>3, <1>5 DEF Steady, SendsCounted
  <2>5. KeepsStep(q)' /\ NamedSeen(q)'
    BY <1>3, <2>1, <2>2, <2>3 DEF KeepsStep, NamedSeen
  <2>6. SendsCounted(q)'
    BY <2>2, <2>3, <2>4, RequestKnown DEF RequestStates, SendsCounted
  <2>7. StackPaidFor(q)'
    BY <2>1, <2>2, <2>3, Typed DEF StackPaidFor
  <2> QED
    BY <1>2, <2>1, <2>2, <2>3, <2>5, <2>6, <2>7, RequestSet, StorageIssued, Typed DEF Steady
<1>6. CASE req[q].stack # <<>> /\ Len(req[q].stack) # 1
  <2> DEFINE r == [req[q] EXCEPT !.pc = "rotate", !.again = TRUE, !.stack = Outer(req[q].stack), !.pair = None]
  <2>1. /\ req' = [req EXCEPT ![q].pc = "rotate", ![q].again = TRUE,
                              ![q].stack = Outer(@), ![q].pair = None]
        /\ status' = status /\ Server!Send(q, "refresh", Innermost(Outer(req[q].stack)))
    BY <1>1, <1>6 DEF AfterSave
  <2>2. /\ http'[q].pc = "sent" /\ http'[q].kind = "refresh" /\ http'[q].status = None
        /\ http'[q].named = FALSE /\ \A d \in Requests \ {q} : http'[d] = http[d]
        /\ UNCHANGED <<user, pairs, window>>
    BY <2>1, Sent
  <2>3. /\ Outer(req[q].stack) \in Seq(Pairs) /\ Len(Outer(req[q].stack)) = Len(req[q].stack) - 1
        /\ \A j \in DOMAIN Outer(req[q].stack) : Outer(req[q].stack)[j] \in P!Issued
        /\ Outer(req[q].stack) # <<>>
    BY <1>6, OuterIssued, RequestKnown, LastOfOuter
  <2>4. /\ r \in RequestStates /\ r.pc = "rotate" /\ r.stack = Outer(req[q].stack) /\ r.pair = None
        /\ r.retried = req[q].retried /\ r.sends = req[q].sends /\ r.call = req[q].call
    BY <2>3, RequestKnown DEF RequestStates
  <2>5. req' = [req EXCEPT ![q] = r] /\ req'[q] = r
    BY <2>1, Typed
  <2> HIDE DEF r
  <2>6. KeepsStep(q)' /\ NamedSeen(q)'
    BY <1>3, <2>2, <2>3, <2>4, <2>5 DEF KeepsStep, NamedSeen
  <2>7. SendsCounted(q)'
    BY <1>3, <1>6, <2>4, <2>5 DEF Steady, SendsCounted
  <2>8. StackPaidFor(q)'
    BY <1>3, <2>2, <2>3, <2>4, <2>5, RequestKnown, NoneIsNoName, Typed DEF Steady, StackPaidFor
  <2> QED
    BY <1>2, <2>1, <2>2, <2>3, <2>4, <2>5, <2>6, <2>7, <2>8, RequestSet, StorageIssued, Typed DEF Steady
<1> QED
  BY <1>4, <1>5, <1>6

-----------------------------------------------------------------------------
(* The theorems.                                                           *)

LEMMA InitHolds == Init => Inv
<1> SUFFICES ASSUME Init PROVE Inv
  OBVIOUS
<1>1. P!Init
  BY DEF Init, Server!Init, P!Init, Server!Idle, P!Idle, Server!OnePair, P!OnePair, Server!NewPair, P!NewPair
<1>2. P!Inv
  BY <1>1, Constants, P!InitStands
<1>3. IdleRequest \in RequestStates
  BY DEF IdleRequest, RequestStates
<1>4. ClientTypeOK
  BY <1>3 DEF Init, ClientTypeOK, SessionStatuses
<1>5. PresentsIssued
  <2>1. \A q \in Requests : req[q].pair = None /\ req[q].stack = <<>>
    BY DEF Init, IdleRequest
  <2>2. {storage.access, storage.refresh} \subseteq P!Issued \cup {None}
    <3>1. CASE storage = [access |-> None, refresh |-> None]
      BY <3>1
    <3>2. CASE \E old \in Pairs : /\ storage = [access |-> old, refresh |-> old]
                                  /\ pairs = Server!OnePair(old)
      <4>1. PICK old \in Pairs : storage = [access |-> old, refresh |-> old] /\ pairs = Server!OnePair(old)
        BY <3>2
      <4>2. pairs[old] = Server!NewPair("admin") /\ Server!NewPair("admin") \in P!PairRows
        BY <4>1 DEF Server!OnePair, Server!NewPair, P!PairRows, P!Roles
      <4>3. pairs[old] # None
        BY <4>2, Constants DEF P!WellFormedConstants
      <4> QED
        BY <4>1, <4>3 DEF P!Issued
    <3> QED
      BY <3>1, <3>2 DEF Init
  <2> QED
    BY <2>1, <2>2 DEF PresentsIssued
<1>6. ASSUME NEW q \in Requests PROVE Steady(q)
  <2>1. /\ req[q] = IdleRequest /\ http[q].pc = "idle" /\ http[q].kind = None /\ http[q].status = None
        /\ http[q].named = FALSE /\ window = 0
    BY DEF Init, Server!Init, Server!Idle
  <2>2. /\ req[q].pc = "idle" /\ req[q].call = None /\ ~ req[q].retried /\ req[q].stack = <<>>
        /\ Len(req[q].stack) = 0 /\ req[q].sends = 0
    BY <2>1 DEF IdleRequest
  <2>3. KeepsStep(q) /\ NamedSeen(q)
    BY <2>1, <2>2, NoneIsNoName DEF KeepsStep, NamedSeen
  <2>4. SendsCounted(q) /\ StackPaidFor(q)
    BY <2>1, <2>2 DEF SendsCounted, StackPaidFor
  <2> QED
    BY <2>3, <2>4 DEF Steady
<1>7. OnlyNamedUsersEnter
  BY DEF Init, OnlyNamedUsersEnter
<1> QED
  BY <1>2, <1>4, <1>5, <1>6, <1>7 DEF Inv, ClientInv

LEMMA ClientStepKeeps == ASSUME Inv, [Next]_vars PROVE ClientInv'
<1>1. ASSUME NEW i \in Unused, Forget(i) PROVE ClientInv'
  BY <1>1, ForgetKeeps
<1>2. ASSUME NEW q \in Requests, NEW call \in Calls, Begin(q, call) PROVE ClientInv'
  BY <1>2, BeginKeeps
<1>3. ASSUME NEW q \in Requests, Application(q) PROVE ClientInv'
  BY <1>3, SendCallKeeps, TryRefreshKeeps, ReceiveAnswerKeeps, ReceiveRefreshKeeps, SaveAccessKeeps,
     SaveRefreshKeeps, ClearAccessKeeps, ClearRefreshKeeps DEF Application
<1>4. ASSUME NEW q \in Requests, Handler(q) PROVE ClientInv'
  BY <1>4, ServerMoves, ServerKeeps DEF Handler
<1>5. ASSUME Environment \/ \E i \in Pairs : Expire(i) PROVE ClientInv'
  BY <1>5, ServerMoves, ServerKeeps DEF Environment, Expire
<1>6. CASE UNCHANGED vars
  <2>1. Keeps
    BY <1>6, Unmoved, Typed DEF vars, serverVars, Keeps, P!Issued
  <2> QED
    BY <1>6, <2>1, ServerKeeps DEF vars
<1> QED
  BY <1>1, <1>2, <1>3, <1>4, <1>5, <1>6, NextWindowKeeps DEF Next

LEMMA StepHolds == Inv /\ [Next]_vars => Inv'
<1> SUFFICES ASSUME Inv, [Next]_vars PROVE Inv'
  OBVIOUS
<1>1. P!Inv'
  <2>1. P!Inv /\ [P!Next]_(P!vars)
    BY IsServerStep DEF Inv
  <2> QED
    BY <2>1, Constants, P!StepKeeps
<1> QED
  BY <1>1, ClientStepKeeps DEF Inv

\* Every variable keeps its type, of the application and of the server under it.
THEOREM TypeCorrect == Spec => []TypeOK
<1>1. Inv => TypeOK
  BY DEF Inv, ClientInv, ClientTypeOK, P!Inv, TypeOK, P!TypeOK, Server!TypeOK, P!UserRows, Server!UserRows,
     P!PairRows, Server!PairRows, P!Exchanges, Server!Exchanges, P!Roles, Server!Roles, P!Kinds, Server!Kinds,
     P!Statuses, Server!Statuses
<1> QED
  BY <1>1, InitHolds, StepHolds, PTL DEF Spec

\* The application is a client like those of Session, which asks for anything with
\* any pair it was given: however its calls, retries and writes to the storage
\* interleave, it presents no token that the server has not issued to it, and what
\* it leaves to the server is a behaviour of the server (api_client.dart:18-80).
THEOREM ApplicationIsAClient == Spec => Server!Spec
<1>1. Init => Server!Init
  BY DEF Init
<1>2. Inv /\ [Next]_vars => [Server!Next]_(Server!vars)
  BY IsServerStep, SameStep
<1> QED
  BY <1>1, <1>2, InitHolds, StepHolds, PTL DEF Spec, Server!Spec

\* What Session_proofs shows of AuthHandler.Refresh with any clients, of the
\* application's: no refresh that began with a revoked or expired token is answered with a pair.
THEOREM RevokedBuysNothing == Spec => []RevokedIsNeverHonoured
<1>1. P!Inv => RevokedIsNeverHonoured
  BY DEF P!Inv, P!Stands, P!StoodValid, RevokedIsNeverHonoured, Server!RevokedIsNeverHonoured
<1> QED
  BY <1>1, InitHolds, StepHolds, PTL DEF Spec, Inv

\* ... and no pair grants what the user was not allowed during the exchange.
THEOREM PairsGrantWhatWasHeld == Spec => []RightsWereHeld
<1>1. P!Inv => RightsWereHeld
  BY DEF P!Inv, P!Stands, P!RightsNoted, RightsWereHeld, Server!RightsWereHeld
<1> QED
  BY <1>1, InitHolds, StepHolds, PTL DEF Spec, Inv

\* AuthNotifier: whatever requests, logins and changes by others overlap,
\* nobody without a username is let into the screens behind the first access.
THEOREM NobodyUnnamedEnters == Spec => []OnlyNamedUsersEnter
<1>1. Inv => OnlyNamedUsersEnter
  BY DEF Inv, ClientInv
<1> QED
  BY <1>1, InitHolds, StepHolds, PTL DEF Spec

\* ApiClient's interceptor sends a call at most twice, however many refreshes
\* its 401 sets off.
THEOREM CallsAreRetriedOnce == Spec => []SentAtMostTwice
<1>1. ASSUME Inv, NEW q \in Requests PROVE req[q].sends <= 2
  BY <1>1, RequestKnown DEF RequestStates, Steady, SendsCounted
<1>2. Inv => SentAtMostTwice
  BY <1>1 DEF SentAtMostTwice
<1> QED
  BY <1>2, InitHolds, StepHolds, PTL DEF Spec

\* ... and stacks no more refreshes than the server's rate limit allows, for any limit.
THEOREM RefreshesAreBounded == Spec => []RecursionIsCut
<1>1. ASSUME Inv, NEW q \in Requests PROVE Len(req[q].stack) <= RateLimit + 1
  <2>1. Len(req[q].stack) \in Nat /\ Len(req[q].stack) <= window + 1 /\ window \in 0..RateLimit
    BY <1>1, RequestKnown, Typed DEF Steady, StackPaidFor
  <2> QED
    BY <2>1, Constants
<1>2. Inv => RecursionIsCut
  BY <1>1 DEF RecursionIsCut
<1> QED
  BY <1>2, InitHolds, StepHolds, PTL DEF Spec

-----------------------------------------------------------------------------
(* The stored refresh token, once no request is under way.                 *)

\* Only an exchange that issues a pair comes to have one, with its answer.
IssuesAtTheEnd(q) ==
    /\ http[q].pc \in {"GetUserByID", "RevokeRefreshToken"} => http[q].kind = "refresh"
    /\ http[q].pc = "CreateRefreshToken" \/ http[q].issued # None => http[q].kind \in {"login", "refresh"}
    /\ http[q].issued # None => http[q].pc = "answered" /\ http[q].status = "ok"

\* The pairs on their way to the storage.
InHand(q) == {i \in Pairs : i \in {http[q].issued, req[q].pair}}

\* Nobody presents a refresh token that is on its way to the storage.
Unpresented(q) ==
    \A i \in InHand(q) :
        /\ pairs[i].refresh = "valid"
        /\ i # storage.refresh
        /\ \A d \in Requests :
              /\ http[d].kind = "refresh" => i # http[d].token
              /\ \A j \in DOMAIN req[d].stack : i # req[d].stack[j]
              /\ d # q => i \notin InHand(d)

\* A pair will be stored, or both of its tokens.
Replacing(q) ==
    \/ http[q].pc = "CreateRefreshToken"
    \/ http[q].issued # None
    \/ req[q].pc \in {"saveAccess", "saveRefresh"}

StoredIsReplaced ==
    faults = 0 =>
        \/ RefreshTokenIsOver
        \/ pairs[storage.refresh].refresh = "valid"
        \/ \E q \in Requests : Replacing(q)

StorageInv ==
    /\ Inv
    /\ \A q \in Requests : IssuesAtTheEnd(q) /\ Unpresented(q)
    /\ StoredIsReplaced

\* An exchange that moves on without a new pair, or has failed.
Quiet(d) ==
    /\ http'[d].kind = http[d].kind
    /\ http'[d].token \in {http[d].token, None}
    /\ http'[d].issued = http[d].issued \/ (http'[d].issued = None /\ faults' # 0)
    /\ http[d].pc = "CreateRefreshToken" => http'[d].pc = "CreateRefreshToken" \/ faults' # 0
    /\ http'[d].pc = "CreateRefreshToken" => http[d].kind \in {"login", "refresh"}
    /\ http'[d].pc \in {"GetUserByID", "RevokeRefreshToken"} => http[d].kind = "refresh"
    /\ http'[d].issued # None => http'[d].pc = "answered" /\ http'[d].status = "ok"

LEMMA QuietKeeps ==
    ASSUME StorageInv, UNCHANGED clientVars, UNCHANGED pairs, faults' = faults \/ faults' # 0,
           \A d \in Requests : Quiet(d)
    PROVE  /\ \A q \in Requests : (IssuesAtTheEnd(q) /\ Unpresented(q))'
           /\ StoredIsReplaced'
<1>1. req' = req /\ storage' = storage
  BY DEF clientVars
<1>2. ASSUME NEW q \in Requests PROVE IssuesAtTheEnd(q)'
  BY DEF StorageInv, IssuesAtTheEnd, Quiet
<1>3. \A q \in Requests : InHand(q)' \subseteq InHand(q)
  BY <1>1, Typed DEF InHand, Quiet, StorageInv
<1>4. ASSUME NEW q \in Requests, NEW i \in InHand(q)'
      PROVE  /\ pairs'[i].refresh = "valid" /\ i # storage'.refresh
             /\ \A d \in Requests :
                   /\ http'[d].kind = "refresh" => i # http'[d].token
                   /\ \A j \in DOMAIN req'[d].stack : i # req'[d].stack[j]
                   /\ d # q => i \notin InHand(d)'
  <2>1. i \in InHand(q) /\ i \in Pairs
    BY <1>3, <1>4 DEF InHand
  <2>2. i # None
    BY <2>1, Typed DEF StorageInv
  <2> QED
    BY <1>1, <1>3, <2>1, <2>2 DEF StorageInv, Unpresented, Quiet
<1>5. \A q \in Requests : Unpresented(q)'
  BY <1>4 DEF Unpresented
<1>6. StoredIsReplaced'
  <2>1. SUFFICES ASSUME faults' = 0 PROVE StoredIsReplaced'
    BY DEF StoredIsReplaced
  <2>2. \A q \in Requests : Replacing(q) => Replacing(q)'
    BY <1>1, <2>1 DEF Replacing, Quiet
  <2> QED
    BY <1>1, <2>1, <2>2 DEF StorageInv, StoredIsReplaced, RefreshTokenIsOver
<1> QED
  BY <1>2, <1>5, <1>6

LEMMA SameIsQuiet ==
    ASSUME StorageInv, NEW d \in Requests, http'[d] = http[d]
    PROVE  Quiet(d)
<1> QED
  BY DEF StorageInv, IssuesAtTheEnd, Quiet

LEMMA AnswerIsQuiet ==
    ASSUME StorageInv, NEW c \in Requests, NEW code, Server!Answer(c, code),
           http[c].pc \in {"sent", "GetUserByID"} \/ faults' # 0
    PROVE  \A d \in Requests : Quiet(d)
<1>1. /\ http'[c].pc = "answered" /\ http'[c].kind = http[c].kind /\ http'[c].token = None
      /\ http'[c].issued = None /\ \A d \in Requests \ {c} : http'[d] = http[d]
  BY Typed DEF Server!Answer, Server!Idle, StorageInv
<1>2. Quiet(c)
  BY <1>1 DEF Quiet, StorageInv, IssuesAtTheEnd
<1> QED
  BY <1>1, <1>2, SameIsQuiet

\* The handlers of everything but the two statements that change pairs, and the faults.
LEMMA HandlersAreQuiet ==
    ASSUME StorageInv, NEW c \in Requests,
           \/ Server!CallApi(c) \/ Server!Login(c) \/ Server!Limited(c)
           \/ Server!GetRefreshToken(c) \/ Server!GetUserByID(c)
           \/ Server!LookupFails(c) \/ Server!Lose(c)
    PROVE  UNCHANGED pairs /\ (faults' = faults \/ faults' # 0) /\ \A d \in Requests : Quiet(d)
<1>1. UNCHANGED pairs
  BY DEF Server!CallApi, Server!Login, Server!Limited, Server!GetRefreshToken, Server!GetUserByID,
     Server!LookupFails, Server!Lose
<1>2. faults \in Nat
  BY Constants DEF StorageInv, Inv, P!Inv, P!TypeOK
<1>3. CASE \E code : Server!Answer(c, code) /\ http[c].pc \in {"sent", "GetUserByID"}
  <2>1. \A d \in Requests : Quiet(d)
    BY <1>3, AnswerIsQuiet
  <2>2. faults' = faults \/ faults' # 0
    BY <1>2 DEF Server!CallApi, Server!Login, Server!Limited, Server!GetRefreshToken, Server!GetUserByID,
       Server!LookupFails, Server!Lose
  <2> QED
    BY <1>1, <2>1, <2>2
<1>4. CASE Server!Lose(c)
  BY <1>1, <1>2, <1>4, AnswerIsQuiet DEF Server!Lose
<1>5. CASE http[c].pc = "sent" /\ http' = [http EXCEPT ![c].pc = "answered", ![c].status = "ok", ![c].named = user'.named]
           /\ faults' = faults
  <2>1. /\ http'[c].pc = "answered" /\ http'[c].kind = http[c].kind /\ http'[c].token = http[c].token
        /\ http'[c].issued = http[c].issued /\ \A d \in Requests \ {c} : http'[d] = http[d]
    BY <1>5, Typed DEF P!Exchanges, StorageInv
  <2>2. Quiet(c)
    BY <1>5, <2>1 DEF Quiet, StorageInv, IssuesAtTheEnd
  <2> QED
    BY <1>1, <1>5, <2>1, <2>2, SameIsQuiet
<1>6. CASE /\ http[c].pc = "sent" /\ http[c].kind = "login" /\ faults' = faults
           /\ http' = [http EXCEPT ![c].pc = "CreateRefreshToken", ![c].role = user.role, ![c].named = user.named]
  <2>1. /\ http'[c].pc = "CreateRefreshToken" /\ http'[c].kind = http[c].kind /\ http'[c].token = http[c].token
        /\ http'[c].issued = http[c].issued /\ \A d \in Requests \ {c} : http'[d] = http[d]
    BY <1>6, Typed DEF P!Exchanges, StorageInv
  <2>2. Quiet(c)
    BY <1>6, <2>1 DEF Quiet, StorageInv, IssuesAtTheEnd
  <2> QED
    BY <1>1, <1>6, <2>1, <2>2, SameIsQuiet
<1>7. CASE /\ http[c].pc \in {"sent", "GetUserByID"} /\ http[c].kind = "refresh" /\ faults' = faults
           /\ \/ http' = [http EXCEPT ![c].pc = "GetUserByID"]
              \/ http' = [http EXCEPT ![c].pc = "RevokeRefreshToken", ![c].role = user.role]
  <2>1. /\ http'[c].pc \in {"GetUserByID", "RevokeRefreshToken"} /\ http'[c].kind = http[c].kind
        /\ http'[c].token = http[c].token /\ http'[c].issued = http[c].issued
        /\ \A d \in Requests \ {c} : http'[d] = http[d]
    BY <1>7, Typed DEF P!Exchanges, StorageInv
  <2>2. Quiet(c)
    BY <1>7, <2>1 DEF Quiet, StorageInv, IssuesAtTheEnd
  <2> QED
    BY <1>1, <1>7, <2>1, <2>2, SameIsQuiet
<1>8. CASE Server!CallApi(c)
  BY <1>3, <1>5, <1>8 DEF Server!CallApi, Server!Arrived
<1>9. CASE Server!Login(c)
  BY <1>3, <1>6, <1>9 DEF Server!Login, Server!Arrived
<1>10. CASE Server!Limited(c) \/ Server!LookupFails(c)
  BY <1>3, <1>10 DEF Server!Limited, Server!LookupFails, Server!Arrived
<1>11. CASE Server!GetRefreshToken(c)
  BY <1>3, <1>7, <1>11 DEF Server!GetRefreshToken, Server!Arrived, Server!Goto
<1>12. CASE Server!GetUserByID(c)
  BY <1>3, <1>7, <1>12 DEF Server!GetUserByID, StorageInv, IssuesAtTheEnd
<1> QED
  BY <1>4, <1>8, <1>9, <1>10, <1>11, <1>12

LEMMA InHandIssued == ASSUME StorageInv, NEW q \in Requests PROVE InHand(q) \subseteq P!Issued /\ None \notin InHand(q)
<1>1. http[q].issued # None => pairs[http[q].issued] # None
  BY DEF StorageInv, Inv, P!Inv, P!Stands, P!RefersToIssued
<1>2. req[q].pair \in P!Issued \cup {None}
  BY RequestKnown DEF StorageInv
<1> QED
  BY <1>1, <1>2, Constants DEF InHand, P!Issued, P!WellFormedConstants

LEMMA PresentedIssued ==
    ASSUME StorageInv
    PROVE  /\ storage.refresh \in P!Issued \cup {None}
           /\ \A d \in Requests : /\ http[d].token \in P!Issued \cup {None}
                                  /\ \A j \in DOMAIN req[d].stack : req[d].stack[j] \in P!Issued
<1>1. ASSUME NEW d \in Requests PROVE http[d].token \in P!Issued \cup {None}
  <2>1. http[d].token \in Pairs \cup {None}
    BY Typed DEF StorageInv, P!Exchanges
  <2> QED
    BY <2>1 DEF StorageInv, Inv, P!Inv, P!Stands, P!RefersToIssued, P!Issued
<1> QED
  BY <1>1 DEF StorageInv, Inv, ClientInv, PresentsIssued

\* A step that leaves requests and connections where they are.
LEMMA PairsKept ==
    ASSUME StorageInv, UNCHANGED <<req, storage, faults>>,
           \A d \in Requests : /\ http'[d].kind = http[d].kind /\ http'[d].token = http[d].token
                               /\ http'[d].issued = http[d].issued,
           \A q \in Requests, i \in Pairs : i \in InHand(q) => pairs'[i].refresh = pairs[i].refresh
    PROVE  \A q \in Requests : Unpresented(q)'
<1>1. ASSUME NEW q \in Requests PROVE InHand(q)' = InHand(q) /\ InHand(q) \subseteq Pairs
  BY DEF InHand
<1> QED
  BY <1>1 DEF StorageInv, Unpresented

LEMMA RevokeKeeps2 ==
    ASSUME StorageInv, UNCHANGED clientVars, NEW c \in Requests, Server!RevokeRefreshToken(c)
    PROVE  /\ \A q \in Requests : (IssuesAtTheEnd(q) /\ Unpresented(q))'
           /\ StoredIsReplaced'
<1>1. /\ http[c].pc = "RevokeRefreshToken" /\ faults' = faults /\ UNCHANGED <<req, storage>>
      /\ pairs' = [pairs EXCEPT ![http[c].token].refresh = "revoked"]
      /\ http' = [http EXCEPT ![c].pc = "CreateRefreshToken"]
  BY DEF Server!RevokeRefreshToken, Server!Goto, clientVars
<1>2. /\ http'[c].pc = "CreateRefreshToken" /\ http[c].kind = "refresh" /\ http'[c].kind = http[c].kind
      /\ http'[c].token = http[c].token /\ http'[c].issued = http[c].issued
      /\ \A d \in Requests \ {c} : http'[d] = http[d]
  BY <1>1, Typed DEF P!Exchanges, StorageInv, IssuesAtTheEnd
<1>3. http[c].issued = None
  BY <1>1 DEF StorageInv, IssuesAtTheEnd
<1>4. ASSUME NEW q \in Requests PROVE IssuesAtTheEnd(q)'
  BY <1>2, <1>3 DEF StorageInv, IssuesAtTheEnd
<1>5. ASSUME NEW q \in Requests, NEW i \in Pairs, i \in InHand(q) PROVE pairs'[i].refresh = pairs[i].refresh
  <2>1. i # http[c].token
    BY <1>2, <1>5 DEF StorageInv, Unpresented
  <2> QED
    BY <1>1, <2>1, Typed DEF StorageInv
<1>6. \A q \in Requests : Unpresented(q)'
  BY <1>1, <1>2, <1>5, PairsKept
<1>7. StoredIsReplaced'
  BY <1>2 DEF StoredIsReplaced, Replacing
<1> QED
  BY <1>4, <1>6, <1>7

LEMMA CreateKeeps2 ==
    ASSUME StorageInv, UNCHANGED clientVars, NEW c \in Requests, Server!CreateRefreshToken(c)
    PROVE  /\ \A q \in Requests : (IssuesAtTheEnd(q) /\ Unpresented(q))'
           /\ StoredIsReplaced'
<1>1. PICK i \in Pairs \ P!Issued :
          /\ pairs' = [pairs EXCEPT ![i] = Server!NewPair(http[c].role)]
          /\ http' = [http EXCEPT ![c].pc = "answered", ![c].status = "ok", ![c].issued = i]
          /\ http[c].pc = "CreateRefreshToken" /\ UNCHANGED <<req, storage>>
  BY SameValues DEF Server!CreateRefreshToken, clientVars
<1>2. /\ http'[c].pc = "answered" /\ http'[c].kind = http[c].kind /\ http'[c].status = "ok"
      /\ http'[c].token = http[c].token /\ http'[c].issued = i
      /\ \A d \in Requests \ {c} : http'[d] = http[d]
  BY <1>1, Typed DEF P!Exchanges, StorageInv
<1>3. /\ http[c].issued = None /\ i # None /\ pairs'[i].refresh = "valid"
      /\ \A j \in Pairs \ {i} : pairs'[j] = pairs[j]
  BY <1>1, Typed DEF StorageInv, IssuesAtTheEnd, Server!NewPair
<1>4. ASSUME NEW q \in Requests PROVE IssuesAtTheEnd(q)'
  <2>1. IssuesAtTheEnd(c)'
    BY <1>1, <1>2 DEF StorageInv, IssuesAtTheEnd
  <2>2. ASSUME q # c PROVE IssuesAtTheEnd(q)'
    BY <1>2, <2>2 DEF StorageInv, IssuesAtTheEnd
  <2> QED
    BY <2>1, <2>2
<1>5. /\ \A q \in Requests \ {c} : InHand(q)' = InHand(q)
      /\ InHand(c)' \subseteq InHand(c) \cup {i}
      /\ \A q \in Requests : i \notin InHand(q)
  BY <1>1, <1>2, InHandIssued DEF InHand
<1>6. /\ i # storage.refresh
      /\ \A d \in Requests : i # http[d].token /\ \A j \in DOMAIN req[d].stack : i # req[d].stack[j]
  BY <1>1, <1>3, PresentedIssued
<1>7. ASSUME NEW q \in Requests, NEW k \in InHand(q)'
      PROVE  /\ pairs'[k].refresh = "valid" /\ k # storage'.refresh
             /\ \A d \in Requests :
                   /\ http'[d].kind = "refresh" => k # http'[d].token
                   /\ \A j \in DOMAIN req'[d].stack : k # req'[d].stack[j]
                   /\ d # q => k \notin InHand(d)'
  <2>1. CASE k = i
    <3>1. q = c
      BY <1>5, <1>7, <2>1
    <3>2. ASSUME NEW d \in Requests
          PROVE  /\ http'[d].kind = "refresh" => k # http'[d].token
                 /\ \A j \in DOMAIN req'[d].stack : k # req'[d].stack[j]
      BY <1>1, <1>2, <1>6, <2>1
    <3>3. ASSUME NEW d \in Requests, d # q PROVE k \notin InHand(d)'
      BY <1>5, <2>1, <3>1, <3>3
    <3>4. pairs'[k].refresh = "valid" /\ k # storage'.refresh
      BY <1>1, <1>3, <1>6, <2>1
    <3> QED
      BY <3>2, <3>3, <3>4
  <2>2. CASE k # i
    <3>1. k \in InHand(q) /\ k \in Pairs
      BY <1>5, <1>7, <2>2 DEF InHand
    <3>2. /\ pairs[k].refresh = "valid" /\ k # storage.refresh
          /\ \A d \in Requests : /\ http[d].kind = "refresh" => k # http[d].token
                                 /\ \A j \in DOMAIN req[d].stack : k # req[d].stack[j]
                                 /\ d # q => k \notin InHand(d)
      BY <3>1 DEF StorageInv, Unpresented
    <3>3. ASSUME NEW d \in Requests
          PROVE  /\ http'[d].kind = "refresh" => k # http'[d].token
                 /\ \A j \in DOMAIN req'[d].stack : k # req'[d].stack[j]
      BY <1>1, <1>2, <3>2
    <3>4. ASSUME NEW d \in Requests, d # q PROVE k \notin InHand(d)'
      BY <1>5, <2>2, <3>2, <3>4
    <3>5. pairs'[k].refresh = "valid" /\ k # storage'.refresh
      BY <1>1, <1>3, <2>2, <3>1, <3>2
    <3> QED
      BY <3>3, <3>4, <3>5
  <2> QED
    BY <2>1, <2>2
<1>8. \A q \in Requests : Unpresented(q)'
  BY <1>7 DEF Unpresented
<1>9. StoredIsReplaced'
  BY <1>2, <1>3 DEF StoredIsReplaced, Replacing
<1> QED
  BY <1>4, <1>8, <1>9

LEMMA ExpireKeeps2 ==
    ASSUME StorageInv, UNCHANGED clientVars, NEW i \in Pairs, Server!Expire(i)
    PROVE  /\ \A q \in Requests : (IssuesAtTheEnd(q) /\ Unpresented(q))'
           /\ StoredIsReplaced'
<1>1. http' = http /\ faults' = faults /\ UNCHANGED <<req, storage>>
  BY DEF Server!Expire, clientVars
<1>2. PICK c \in Requests :
          /\ http[c].token = i
          /\ IF http[c].kind = "refresh"
             THEN pairs' = [pairs EXCEPT ![i].access = "expired", ![i].refresh = "expired"]
             ELSE pairs' = [pairs EXCEPT ![i].access = "expired"]
  BY DEF Server!Expire
<1>3. pairs[i] \in P!PairRows
  BY <1>2, Typed DEF StorageInv, Inv, P!Inv, P!Stands, P!RefersToIssued
<1>4. \/ \A j \in Pairs : pairs'[j].refresh = pairs[j].refresh
      \/ /\ http[c].kind = "refresh" /\ pairs'[i].refresh = "expired"
         /\ \A j \in Pairs \ {i} : pairs'[j] = pairs[j]
  <2>1. CASE pairs' = [pairs EXCEPT ![i].access = "expired", ![i].refresh = "expired"] /\ http[c].kind = "refresh"
    BY <1>3, <2>1, Typed DEF P!PairRows, StorageInv
  <2>2. CASE pairs' = [pairs EXCEPT ![i].access = "expired"]
    <3>1. pairs'[i].refresh = pairs[i].refresh
      BY <1>3, <2>2, Typed DEF P!PairRows, StorageInv
    <3>2. \A j \in Pairs \ {i} : pairs'[j] = pairs[j]
      BY <2>2, Typed DEF StorageInv
    <3> QED
      BY <3>1, <3>2
  <2> QED
    BY <1>2, <2>1, <2>2
<1>5. ASSUME NEW q \in Requests, NEW j \in Pairs, j \in InHand(q) PROVE pairs'[j].refresh = pairs[j].refresh
  BY <1>2, <1>4, <1>5 DEF StorageInv, Unpresented
<1>6. \A q \in Requests : Unpresented(q)' /\ IssuesAtTheEnd(q)'
  BY <1>1, <1>5, PairsKept DEF StorageInv, IssuesAtTheEnd
<1>7. StoredIsReplaced'
  <2>1. storage.refresh \in Pairs \cup {None}
    BY PresentedIssued DEF P!Issued
  <2>2. \/ storage.refresh = None \/ pairs'[storage.refresh].refresh = pairs[storage.refresh].refresh
        \/ pairs'[storage.refresh].refresh = "expired"
    BY <1>4, <2>1
  <2> QED
    BY <1>1, <2>2 DEF StorageInv, StoredIsReplaced, RefreshTokenIsOver, Replacing
<1> QED
  BY <1>6, <1>7

LEMMA ForgetKeeps2 ==
    ASSUME StorageInv, NEW i \in Unused, Forget(i)
    PROVE  /\ \A q \in Requests : (IssuesAtTheEnd(q) /\ Unpresented(q))'
           /\ StoredIsReplaced'
<1>1. /\ pairs' = [pairs EXCEPT ![i] = None] /\ UNCHANGED <<req, storage, http, faults>> /\ ~ InUse(i)
  BY DEF Forget, Server!Forget, Unused, clientVars
<1>2. storage.refresh \in Pairs \cup {None} /\ i # storage.refresh /\ \A q \in Requests : i \notin InHand(q)
  BY <1>1, PresentedIssued DEF InUse, InHand, P!Issued
<1>3. \A j \in Pairs \ {i} : pairs'[j] = pairs[j]
  BY <1>1, Typed DEF StorageInv
<1>4. \A q \in Requests : Unpresented(q)' /\ IssuesAtTheEnd(q)'
  BY <1>1, <1>2, <1>3, PairsKept DEF StorageInv, IssuesAtTheEnd
<1>5. StoredIsReplaced'
  BY <1>1, <1>2, <1>3 DEF StorageInv, StoredIsReplaced, RefreshTokenIsOver, Replacing
<1> QED
  BY <1>4, <1>5

LEMMA OuterKeeps ==
    ASSUME NEW s \in Seq(Pairs), s # <<>>
    PROVE  \A j \in DOMAIN Outer(s) : \E k \in DOMAIN s : Outer(s)[j] = s[k]
<1>1. /\ Outer(s) \in Seq(Pairs) /\ Len(Outer(s)) = Len(s) - 1
      /\ \A j \in 1..Len(Outer(s)) : Outer(s)[j] = s[j]
  BY LastOfOuter
<1>2. DOMAIN Outer(s) = 1..Len(Outer(s)) /\ DOMAIN s = 1..Len(s) /\ Len(s) \in Nat
  BY <1>1
<1>3. \A j \in DOMAIN Outer(s) : j \in DOMAIN s
  BY <1>1, <1>2
<1> QED
  BY <1>1, <1>2, <1>3

\* A step of one request takes no pair in hand, and presents none that is.
LEMMA RequestKeeps ==
    ASSUME StorageInv, NEW q \in Requests, UNCHANGED pairs,
           \A d \in Requests \ {q} : req'[d] = req[d] /\ http'[d] = http[d],
           InHand(q)' \subseteq InHand(q), IssuesAtTheEnd(q)',
           \A d \in Requests : /\ storage'.refresh \notin InHand(d)'
                               /\ http'[q].kind = "refresh" => http'[q].token \notin InHand(d)'
                               /\ \A j \in DOMAIN req'[q].stack : req'[q].stack[j] \notin InHand(d)'
    PROVE  \A d \in Requests : (IssuesAtTheEnd(d) /\ Unpresented(d))'
<1>1. ASSUME NEW d \in Requests PROVE IssuesAtTheEnd(d)'
  BY <1>1 DEF StorageInv, IssuesAtTheEnd
<1>2. ASSUME NEW d \in Requests \ {q} PROVE InHand(d)' = InHand(d)
  BY DEF InHand
<1>3. ASSUME NEW d \in Requests, NEW i \in InHand(d)'
      PROVE  /\ pairs'[i].refresh = "valid" /\ i # storage'.refresh
             /\ \A e \in Requests :
                   /\ http'[e].kind = "refresh" => i # http'[e].token
                   /\ \A j \in DOMAIN req'[e].stack : i # req'[e].stack[j]
                   /\ e # d => i \notin InHand(e)'
  <2>1. i \in InHand(d)
    BY <1>2, <1>3
  <2>2. /\ pairs[i].refresh = "valid"
        /\ \A e \in Requests : /\ http[e].kind = "refresh" => i # http[e].token
                               /\ \A j \in DOMAIN req[e].stack : i # req[e].stack[j]
                               /\ e # d => i \notin InHand(e)
    BY <2>1 DEF StorageInv, Unpresented
  <2>3. ASSUME NEW e \in Requests
        PROVE  /\ http'[e].kind = "refresh" => i # http'[e].token
               /\ \A j \in DOMAIN req'[e].stack : i # req'[e].stack[j]
    <3>1. CASE e = q
      BY <1>3, <3>1
    <3>2. CASE e # q
      BY <2>2, <3>2
    <3> QED
      BY <3>1, <3>2
  <2>4. ASSUME NEW e \in Requests, e # d PROVE i \notin InHand(e)'
    BY <1>2, <2>2, <2>4
  <2> QED
    BY <1>3, <2>2, <2>3, <2>4
<1> QED
  BY <1>1, <1>3 DEF Unpresented

LEMMA StoredKept ==
    ASSUME StorageInv, storage'.refresh = storage.refresh, UNCHANGED <<pairs, faults>>,
           \A d \in Requests : Replacing(d) => Replacing(d)'
    PROVE  StoredIsReplaced'
<1> QED
  BY DEF StorageInv, StoredIsReplaced, RefreshTokenIsOver

LEMMA Unhanded ==
    ASSUME StorageInv, NEW d \in Requests
    PROVE  /\ storage.refresh \notin InHand(d)
           /\ \A e \in Requests : /\ http[e].kind = "refresh" => http[e].token \notin InHand(d)
                                  /\ \A j \in DOMAIN req[e].stack : req[e].stack[j] \notin InHand(d)
<1> QED
  BY DEF StorageInv, Unpresented

LEMMA SentOrReceived ==
    ASSUME StorageInv, NEW q \in Requests
    PROVE  /\ \A kind, token : Server!Send(q, kind, token) =>
                 /\ http[q].pc = "idle" /\ http[q].issued = None
                 /\ http'[q].pc = "sent" /\ http'[q].kind = kind /\ http'[q].token = token /\ http'[q].issued = None
                 /\ \A d \in Requests \ {q} : http'[d] = http[d]
                 /\ UNCHANGED <<pairs, faults>>
           /\ Server!Receive(q) =>
                 /\ http[q].pc = "answered" /\ http'[q].pc = "idle" /\ http'[q].kind = None /\ http'[q].token = None
                 /\ http'[q].issued = None /\ \A d \in Requests \ {q} : http'[d] = http[d]
                 /\ UNCHANGED <<pairs, faults>>
           /\ http[q].pc = "idle" => http[q].issued = None
<1>1. http[q].pc = "idle" => http[q].issued = None
  BY DEF StorageInv, IssuesAtTheEnd
<1>2. ASSUME NEW kind, NEW token, Server!Send(q, kind, token)
      PROVE  /\ http[q].pc = "idle" /\ http'[q].pc = "sent" /\ http'[q].kind = kind /\ http'[q].token = token
             /\ http'[q].issued = None /\ \A d \in Requests \ {q} : http'[d] = http[d]
             /\ UNCHANGED <<pairs, faults>>
  BY <1>2, Typed DEF StorageInv, Server!Send, Server!Idle
<1>3. ASSUME Server!Receive(q)
      PROVE  /\ http[q].pc = "answered" /\ http'[q].pc = "idle" /\ http'[q].kind = None
             /\ http'[q].token = None /\ http'[q].issued = None
             /\ \A d \in Requests \ {q} : http'[d] = http[d]
             /\ UNCHANGED <<pairs, faults>>
  BY <1>3, Typed DEF StorageInv, Server!Receive, Server!Idle
<1> QED
  BY <1>1, <1>2, <1>3

\* The step of a request with a call or a refresh to send.
LEMMA SendsKeep ==
    ASSUME StorageInv, NEW q \in Requests,
           SendCall(q) \/ TryRefresh(q) \/ \E call \in Calls : Begin(q, call)
    PROVE  /\ \A d \in Requests : (IssuesAtTheEnd(d) /\ Unpresented(d))'
           /\ StoredIsReplaced'
<1>1. /\ storage' = storage /\ UNCHANGED <<pairs, faults>> /\ http[q].pc = "idle" /\ http[q].issued = None
      /\ http'[q].pc \in {"idle", "sent"} /\ http'[q].issued = None
      /\ \A d \in Requests \ {q} : req'[d] = req[d] /\ http'[d] = http[d]
  <2>1. CASE SendCall(q)
    BY <2>1, SentOrReceived, Typed DEF SendCall, StorageInv
  <2>2. CASE TryRefresh(q) /\ storage.refresh # None
    BY <2>2, SentOrReceived, Typed DEF TryRefresh, StorageInv
  <2>3. CASE TryRefresh(q) /\ storage.refresh = None
    <3>1. http[q].pc = "idle"
      BY <2>3, RequestKnown DEF TryRefresh, StorageInv, Steady, KeepsStep
    <3> QED
      BY <2>3, <3>1, SentOrReceived, Typed DEF TryRefresh, serverVars, StorageInv
  <2>4. CASE \E call \in Calls : Begin(q, call)
    BY <2>4, SentOrReceived, Typed DEF Begin, serverVars, StorageInv
  <2> QED
    BY <2>1, <2>2, <2>3, <2>4
<1>2. req[q].pc \in {"idle", "send", "refresh"} /\ req'[q].pair = req[q].pair
  <2>1. req[q] \in RequestStates
    BY RequestKnown DEF StorageInv
  <2>2. CASE SendCall(q)
    BY <2>1, <2>2, Typed DEF SendCall, StorageInv, RequestStates
  <2>3. CASE TryRefresh(q)
    BY <2>1, <2>3, Typed DEF TryRefresh, StorageInv, RequestStates
  <2>4. CASE \E call \in Calls : Begin(q, call)
    BY <2>1, <2>4, Typed DEF Begin, InFlight, StorageInv, RequestStates
  <2> QED
    BY <2>2, <2>3, <2>4
<1>3. InHand(q)' \subseteq InHand(q) /\ \A d \in Requests : InHand(d)' \subseteq InHand(d)
  BY <1>1, <1>2 DEF InHand
<1>4. IssuesAtTheEnd(q)'
  BY <1>1 DEF IssuesAtTheEnd
<1>5. http'[q].kind = "refresh" => http'[q].token = storage.refresh \/ http'[q] = http[q]
  <2>1. CASE SendCall(q)
    <3>1. http'[q].kind = KindOf(req[q].call) /\ req[q].pc = "send"
      BY <2>1, SentOrReceived DEF SendCall
    <3>2. req[q].call \in AllCalls
      BY <3>1, ConstantsAssumption, RequestKnown DEF StorageInv, Steady, KeepsStep
    <3> QED
      BY <3>1, <3>2 DEF KindOf, AllCalls
  <2>2. CASE TryRefresh(q) /\ storage.refresh # None
    BY <2>2, SentOrReceived DEF TryRefresh
  <2>3. CASE TryRefresh(q) /\ storage.refresh = None
    BY <2>3 DEF TryRefresh, serverVars
  <2>4. CASE \E call \in Calls : Begin(q, call)
    BY <2>4 DEF Begin, serverVars
  <2> QED
    BY <2>1, <2>2, <2>3, <2>4
<1>6. \A j \in DOMAIN req'[q].stack :
          req'[q].stack[j] = storage.refresh \/ \E k \in DOMAIN req[q].stack : req'[q].stack[j] = req[q].stack[k]
  <2>1. req[q] \in RequestStates
    BY RequestKnown DEF StorageInv
  <2>2. CASE req'[q].stack = req[q].stack
    BY <2>2
  <2>3. CASE storage.refresh # None /\ req'[q].stack = Append(req[q].stack, storage.refresh)
    <3>1. storage.refresh \in Pairs /\ req[q].stack \in Seq(Pairs)
      BY <2>1, <2>3, PresentedIssued DEF RequestStates, P!Issued
    <3> QED
      BY <2>3, <3>1
  <2>4. CASE SendCall(q)
    BY <2>1, <2>2, <2>4, Typed DEF SendCall, StorageInv, RequestStates
  <2>5. CASE TryRefresh(q) /\ storage.refresh # None
    BY <2>1, <2>3, <2>5, Typed DEF TryRefresh, StorageInv, RequestStates
  <2>6. CASE TryRefresh(q) /\ storage.refresh = None
    BY <2>1, <2>2, <2>6, Typed DEF TryRefresh, StorageInv, RequestStates
  <2>7. CASE \E call \in Calls : Begin(q, call)
    BY <2>1, <2>2, <2>7, Typed DEF Begin, StorageInv, RequestStates
  <2> QED
    BY <2>4, <2>5, <2>6, <2>7
<1>7. \A d \in Requests : (IssuesAtTheEnd(d) /\ Unpresented(d))'
  <2>1. ASSUME NEW d \in Requests
        PROVE  /\ storage'.refresh \notin InHand(d)'
               /\ http'[q].kind = "refresh" => http'[q].token \notin InHand(d)'
               /\ \A j \in DOMAIN req'[q].stack : req'[q].stack[j] \notin InHand(d)'
    BY <1>1, <1>3, <1>5, <1>6, Unhanded
  <2> QED
    BY <1>1, <1>3, <1>4, <2>1, RequestKeeps
<1>8. StoredIsReplaced'
  <2>1. \A d \in Requests : Replacing(d) => Replacing(d)'
    BY <1>1, <1>2 DEF Replacing
  <2> QED
    BY <1>1, <2>1, StoredKept
<1> QED
  BY <1>7, <1>8

\* The step of a request that sends nothing: it keeps its pair, takes the one
\* it has received, or lets go of both.
LEMMA SettlesKeep ==
    ASSUME StorageInv, NEW q \in Requests, UNCHANGED <<pairs, faults>>,
           \A d \in Requests \ {q} : req'[d] = req[d] /\ http'[d] = http[d],
           http'[q].pc = "idle", http'[q].kind # "refresh" \/ http'[q] = http[q], http'[q].issued = None,
           req'[q].pair \in {req[q].pair, http[q].issued, None},
           storage'.refresh \in {storage.refresh, None},
           \A j \in DOMAIN req'[q].stack : \E k \in DOMAIN req[q].stack : req'[q].stack[j] = req[q].stack[k],
           \/ storage'.refresh = None
           \/ Replacing(q) => req'[q].pc \in {"saveAccess", "saveRefresh"}
    PROVE  /\ \A d \in Requests : (IssuesAtTheEnd(d) /\ Unpresented(d))'
           /\ StoredIsReplaced'
<1>1. None \notin Pairs
  BY Typed DEF StorageInv
<1>2. InHand(q)' \subseteq InHand(q) /\ \A d \in Requests \ {q} : InHand(d)' = InHand(d)
  BY <1>1 DEF InHand
<1>3. IssuesAtTheEnd(q)'
  BY DEF IssuesAtTheEnd
<1>4. \A d \in Requests : InHand(d)' \subseteq InHand(d) /\ None \notin InHand(d)
  BY <1>2, InHandIssued
<1>5. ASSUME NEW d \in Requests
      PROVE  /\ storage'.refresh \notin InHand(d)'
             /\ http'[q].kind = "refresh" => http'[q].token \notin InHand(d)'
             /\ \A j \in DOMAIN req'[q].stack : req'[q].stack[j] \notin InHand(d)'
  BY <1>4, Unhanded
<1>6. \A d \in Requests : (IssuesAtTheEnd(d) /\ Unpresented(d))'
  BY <1>2, <1>3, <1>5, RequestKeeps
<1>7. StoredIsReplaced'
  <2>1. CASE storage'.refresh = None
    BY <2>1 DEF StoredIsReplaced, RefreshTokenIsOver
  <2>2. CASE storage'.refresh = storage.refresh /\ (Replacing(q) => req'[q].pc \in {"saveAccess", "saveRefresh"})
    <3>1. \A d \in Requests : Replacing(d) => Replacing(d)'
      BY <2>2 DEF Replacing
    <3> QED
      BY <2>2, <3>1, StoredKept
  <2> QED
    BY <2>1, <2>2
<1> QED
  BY <1>6, <1>7

LEMMA EndSettles ==
    ASSUME StorageInv, NEW q \in Requests, End(q)
    PROVE  /\ req'[q].pair = None /\ DOMAIN req'[q].stack = {}
           /\ \A d \in Requests \ {q} : req'[d] = req[d]
<1>1. IdleRequest.pair = None /\ IdleRequest.stack = <<>> /\ DOMAIN <<>> = {}
  BY DEF IdleRequest
<1> QED
  BY <1>1, Typed DEF End, StorageInv

LEMMA ReceiveAnswerKeeps2 ==
    ASSUME StorageInv, NEW q \in Requests, ReceiveAnswer(q)
    PROVE  /\ \A d \in Requests : (IssuesAtTheEnd(d) /\ Unpresented(d))'
           /\ StoredIsReplaced'
<1>1. /\ req[q].pc = "wait" /\ http[q].pc = "answered" /\ storage' = storage
      /\ http'[q].pc = "idle" /\ http'[q].kind = None /\ http'[q].issued = None
      /\ \A d \in Requests \ {q} : http'[d] = http[d]
      /\ UNCHANGED <<pairs, faults>>
  BY SentOrReceived DEF ReceiveAnswer
<1>2. req[q] \in RequestStates /\ http'[q].kind # "refresh"
  BY <1>1, RequestKnown, NoneIsNoName DEF StorageInv
<1>3. Replacing(q) => http[q].status = "ok" /\ req[q].call = "login"
  <2>1. http[q].kind = KindOf(req[q].call) /\ req[q].call \in AllCalls
    BY <1>1, ConstantsAssumption, RequestKnown DEF StorageInv, Steady, KeepsStep
  <2> QED
    BY <1>1, <2>1 DEF StorageInv, IssuesAtTheEnd, Replacing, KindOf, AllCalls
<1>4. CASE Retries(q) /\ req' = [req EXCEPT ![q].pc = "refresh"]
  <2>1. /\ req'[q].pair = req[q].pair /\ req'[q].stack = req[q].stack
        /\ \A d \in Requests \ {q} : req'[d] = req[d]
    BY <1>2, <1>4, Typed DEF RequestStates, StorageInv
  <2>2. ~ Replacing(q)
    BY <1>3, <1>4 DEF Retries
  <2> QED
    BY <1>1, <1>2, <2>1, <2>2, SettlesKeep
<1>5. CASE End(q) /\ ~ (http[q].status = "ok" /\ req[q].call = "login")
  <2>1. ~ Replacing(q)
    BY <1>3, <1>5
  <2> QED
    BY <1>1, <1>2, <1>5, <2>1, SettlesKeep, EndSettles
<1>6. CASE req' = [req EXCEPT ![q].pc = "saveAccess", ![q].pair = http[q].issued, ![q].pending = ~ http[q].named]
  <2>1. /\ req'[q].pair = http[q].issued /\ req'[q].stack = req[q].stack /\ req'[q].pc = "saveAccess"
        /\ \A d \in Requests \ {q} : req'[d] = req[d]
    BY <1>2, <1>6, Typed DEF RequestStates, StorageInv
  <2> QED
    BY <1>1, <1>2, <2>1, SettlesKeep
<1> QED
  BY <1>4, <1>5, <1>6 DEF ReceiveAnswer

LEMMA ReceiveRefreshKeeps2 ==
    ASSUME StorageInv, NEW q \in Requests, ReceiveRefresh(q)
    PROVE  /\ \A d \in Requests : (IssuesAtTheEnd(d) /\ Unpresented(d))'
           /\ StoredIsReplaced'
<1>1. /\ req[q].pc = "rotate" /\ http[q].pc = "answered" /\ storage' = storage
      /\ http'[q].pc = "idle" /\ http'[q].kind = None /\ http'[q].issued = None
      /\ \A d \in Requests \ {q} : http'[d] = http[d]
      /\ UNCHANGED <<pairs, faults>>
  BY SentOrReceived DEF ReceiveRefresh
<1>2. req[q] \in RequestStates /\ http'[q].kind # "refresh"
  BY <1>1, RequestKnown, NoneIsNoName DEF StorageInv
<1>3. Replacing(q) => http[q].status = "ok"
  BY <1>1 DEF StorageInv, IssuesAtTheEnd, Replacing
<1>4. CASE req' = [req EXCEPT ![q] = [req[q] EXCEPT !.pc = "saveAccess", !.pair = http[q].issued]]
  <2>1. /\ req'[q].pair = http[q].issued /\ req'[q].stack = req[q].stack /\ req'[q].pc = "saveAccess"
        /\ \A d \in Requests \ {q} : req'[d] = req[d]
    BY <1>2, <1>4, Typed DEF RequestStates, StorageInv
  <2> QED
    BY <1>1, <1>2, <2>1, SettlesKeep
<1>5. CASE http[q].status # "ok" /\ req' = [req EXCEPT ![q] = [req[q] EXCEPT !.pc = "refresh"]]
  <2>1. /\ req'[q].pair = req[q].pair /\ req'[q].stack = req[q].stack
        /\ \A d \in Requests \ {q} : req'[d] = req[d]
    BY <1>2, <1>5, Typed DEF RequestStates, StorageInv
  <2> QED
    BY <1>1, <1>2, <1>3, <1>5, <2>1, SettlesKeep
<1>6. CASE /\ http[q].status # "ok"
           /\ req' = [req EXCEPT ![q] = [req[q] EXCEPT !.pc = "clearAccess", !.stack = Outer(req[q].stack)]]
  <2>1. /\ req'[q].pair = req[q].pair /\ req'[q].stack = Outer(req[q].stack)
        /\ \A d \in Requests \ {q} : req'[d] = req[d]
    BY <1>2, <1>6, Typed DEF RequestStates, StorageInv
  <2>2. \A j \in DOMAIN req'[q].stack : \E k \in DOMAIN req[q].stack : req'[q].stack[j] = req[q].stack[k]
    BY <1>1, <2>1, OuterKeeps, RequestKnown DEF StorageInv, Steady, KeepsStep
  <2> QED
    BY <1>1, <1>2, <1>3, <1>6, <2>1, <2>2, SettlesKeep
<1> QED
  BY <1>4, <1>5, <1>6 DEF ReceiveRefresh

LEMMA WritesKeep ==
    ASSUME StorageInv, NEW q \in Requests, SaveAccess(q) \/ ClearAccess(q) \/ ClearRefresh(q)
    PROVE  /\ \A d \in Requests : (IssuesAtTheEnd(d) /\ Unpresented(d))'
           /\ StoredIsReplaced'
<1>1. /\ UNCHANGED <<pairs, faults, http>> /\ req[q] \in RequestStates
      /\ http[q].pc = "idle" /\ http[q].issued = None
  <2>1. Steady(q) /\ req[q] \in RequestStates /\ UNCHANGED <<pairs, faults, http>>
    BY RequestKnown DEF StorageInv, SaveAccess, ClearAccess, ClearRefresh, serverVars
  <2>2. http[q].pc = "idle"
    BY <2>1 DEF Steady, KeepsStep, SaveAccess, ClearAccess, ClearRefresh
  <2> QED
    BY <2>1, <2>2, SentOrReceived
<1>2. CASE SaveAccess(q)
  <2>1. /\ storage'.refresh = storage.refresh
        /\ req'[q].pair = req[q].pair /\ req'[q].stack = req[q].stack /\ req'[q].pc = "saveRefresh"
        /\ \A d \in Requests \ {q} : req'[d] = req[d]
    BY <1>1, <1>2, Typed DEF SaveAccess, RequestStates, StorageInv
  <2> QED
    BY <1>1, <2>1, SettlesKeep
<1>3. CASE ClearAccess(q)
  <2>1. /\ storage'.refresh = storage.refresh /\ req[q].pc = "clearAccess"
        /\ req'[q].pair = req[q].pair /\ req'[q].stack = req[q].stack
        /\ \A d \in Requests \ {q} : req'[d] = req[d]
    BY <1>1, <1>3, Typed DEF ClearAccess, RequestStates, StorageInv
  <2>2. ~ Replacing(q)
    BY <1>1, <2>1 DEF Replacing
  <2> QED
    BY <1>1, <2>1, <2>2, SettlesKeep
<1>4. CASE ClearRefresh(q)
  <2>1. storage'.refresh = None
    BY <1>4, Typed DEF ClearRefresh, StorageInv
  <2>2. CASE End(q)
    BY <1>1, <2>1, <2>2, SettlesKeep, EndSettles
  <2>3. CASE /\ req[q].stack # <<>>
             /\ req' = [req EXCEPT ![q].pc = "clearAccess", ![q].again = FALSE, ![q].stack = Outer(@)]
    <3>1. /\ req'[q].pair = req[q].pair /\ req'[q].stack = Outer(req[q].stack)
          /\ \A d \in Requests \ {q} : req'[d] = req[d]
      BY <1>1, <2>3, Typed DEF RequestStates, StorageInv
    <3>2. \A j \in DOMAIN req'[q].stack : \E k \in DOMAIN req[q].stack : req'[q].stack[j] = req[q].stack[k]
      BY <2>3, <3>1, OuterKeeps, RequestKnown DEF StorageInv
    <3> QED
      BY <1>1, <2>1, <3>1, <3>2, SettlesKeep
  <2> QED
    BY <1>4, <2>2, <2>3 DEF ClearRefresh
<1> QED
  BY <1>2, <1>3, <1>4

\* The pair in hand becomes the stored one: good, and no longer in hand.
LEMMA SaveRefreshKeeps2 ==
    ASSUME StorageInv, NEW q \in Requests, SaveRefresh(q)
    PROVE  /\ \A d \in Requests : (IssuesAtTheEnd(d) /\ Unpresented(d))'
           /\ StoredIsReplaced'
<1>1. /\ req[q].pc = "saveRefresh" /\ AfterSave(q) /\ storage'.refresh = req[q].pair
  BY Typed DEF SaveRefresh, StorageInv
<1>2. req[q] \in RequestStates /\ http[q].pc = "idle" /\ http[q].issued = None
  BY <1>1, RequestKnown, SentOrReceived DEF StorageInv, Steady, KeepsStep
<1>3. None \notin Pairs /\ \A d \in Requests : None \notin InHand(d)
  BY Typed, InHandIssued DEF StorageInv
<1>4. /\ UNCHANGED <<pairs, faults>> /\ http'[q].pc \in {"idle", "sent"} /\ http'[q].issued = None
      /\ req'[q].pair = None
      /\ \A d \in Requests \ {q} : req'[d] = req[d] /\ http'[d] = http[d]
      /\ \A j \in DOMAIN req'[q].stack : \E k \in DOMAIN req[q].stack : req'[q].stack[j] = req[q].stack[k]
      /\ \/ http'[q] = http[q]
         \/ \E k \in DOMAIN req[q].stack : http'[q].token = req[q].stack[k]
  <2>1. CASE req[q].stack = <<>>
    <3>1. End(q) /\ UNCHANGED <<pairs, faults, http>>
      BY <1>1, <2>1 DEF AfterSave, serverVars
    <3> QED
      BY <1>2, <3>1, EndSettles
  <2>2. CASE req[q].stack # <<>> /\ Len(req[q].stack) = 1
    <3>1. /\ req' = [req EXCEPT ![q].pc = "send", ![q].retried = TRUE, ![q].again = FALSE,
                                ![q].stack = <<>>, ![q].pair = None]
          /\ UNCHANGED <<pairs, faults, http>>
      BY <1>1, <2>2 DEF AfterSave, serverVars
    <3>2. req'[q].pair = None /\ req'[q].stack = <<>> /\ \A d \in Requests \ {q} : req'[d] = req[d]
      BY <1>2, <3>1, Typed DEF RequestStates, StorageInv
    <3>3. DOMAIN <<>> = {}
      OBVIOUS
    <3> QED
      BY <1>2, <3>1, <3>2, <3>3
  <2>3. CASE req[q].stack # <<>> /\ Len(req[q].stack) # 1
    <3>1. /\ req' = [req EXCEPT ![q].pc = "rotate", ![q].again = TRUE,
                                ![q].stack = Outer(@), ![q].pair = None]
          /\ Server!Send(q, "refresh", Innermost(Outer(req[q].stack)))
      BY <1>1, <2>3 DEF AfterSave
    <3>2. /\ req'[q].pair = None /\ req'[q].stack = Outer(req[q].stack)
          /\ \A d \in Requests \ {q} : req'[d] = req[d]
      BY <1>2, <3>1, Typed DEF RequestStates, StorageInv
    <3>3. req[q].stack \in Seq(Pairs)
      BY <1>2 DEF RequestStates
    <3>4. \A j \in DOMAIN req'[q].stack : \E k \in DOMAIN req[q].stack : req'[q].stack[j] = req[q].stack[k]
      BY <2>3, <3>2, <3>3, OuterKeeps
    <3>5. \E k \in DOMAIN req[q].stack : Innermost(Outer(req[q].stack)) = req[q].stack[k]
      BY <2>3, <3>3, LastOfOuter
    <3>6. /\ UNCHANGED <<pairs, faults>> /\ http'[q].pc = "sent" /\ http'[q].issued = None
          /\ http'[q].token = Innermost(Outer(req[q].stack))
          /\ \A d \in Requests \ {q} : http'[d] = http[d]
      BY <3>1, SentOrReceived
    <3>7. \E k \in DOMAIN req[q].stack : http'[q].token = req[q].stack[k]
      BY <3>5, <3>6
    <3> QED
      BY <3>2, <3>4, <3>6, <3>7
  <2> QED
    BY <2>1, <2>2, <2>3
<1>5. InHand(q)' = {} /\ \A d \in Requests \ {q} : InHand(d)' = InHand(d)
  BY <1>3, <1>4 DEF InHand
<1>6. IssuesAtTheEnd(q)'
  BY <1>4 DEF IssuesAtTheEnd
<1>7. ASSUME NEW d \in Requests
      PROVE  /\ storage'.refresh \notin InHand(d)'
             /\ http'[q].kind = "refresh" => http'[q].token \notin InHand(d)'
             /\ \A j \in DOMAIN req'[q].stack : req'[q].stack[j] \notin InHand(d)'
  <2>1. CASE d = q
    BY <1>5, <2>1
  <2>2. CASE d # q
    <3>1. req[q].pair \notin InHand(d)
      <4>1. CASE req[q].pair = None
        BY <1>3, <4>1
      <4>2. CASE req[q].pair # None
        <5>1. req[q].pair \in InHand(q)
          BY <1>2, <4>2 DEF InHand, RequestStates
        <5> QED
          BY <2>2, <5>1 DEF StorageInv, Unpresented
      <4> QED
        BY <4>1, <4>2
    <3>2. InHand(d)' = InHand(d)
      BY <1>5, <2>2
    <3>3. /\ \A k \in DOMAIN req[q].stack : req[q].stack[k] \notin InHand(d)
          /\ http[q].kind = "refresh" => http[q].token \notin InHand(d)
      BY Unhanded
    <3>4. \A j \in DOMAIN req'[q].stack : req'[q].stack[j] \notin InHand(d)
      BY <1>4, <3>3
    <3>5. http'[q].kind = "refresh" => http'[q].token \notin InHand(d)
      BY <1>4, <3>3
    <3> QED
      BY <1>1, <3>1, <3>2, <3>4, <3>5
  <2> QED
    BY <2>1, <2>2
<1>8. \A d \in Requests : (IssuesAtTheEnd(d) /\ Unpresented(d))'
  BY <1>4, <1>5, <1>6, <1>7, RequestKeeps
<1>9. StoredIsReplaced'
  <2>1. req[q].pair # None => pairs[req[q].pair].refresh = "valid"
    BY <1>2 DEF InHand, RequestStates, StorageInv, Unpresented
  <2> QED
    BY <1>1, <1>4, <2>1 DEF StoredIsReplaced, RefreshTokenIsOver
<1> QED
  BY <1>8, <1>9

LEMMA StorageStep == StorageInv /\ [Next]_vars => StorageInv'
<1> SUFFICES ASSUME StorageInv, [Next]_vars
             PROVE  (\A d \in Requests : (IssuesAtTheEnd(d) /\ Unpresented(d))') /\ StoredIsReplaced'
  BY StepHolds DEF StorageInv
<1> DEFINE Kept == (\A d \in Requests : (IssuesAtTheEnd(d) /\ Unpresented(d))') /\ StoredIsReplaced'
<1>1. ASSUME NEW i \in Unused, Forget(i) PROVE Kept
  BY <1>1, ForgetKeeps2
<1>2. ASSUME NEW q \in Requests, NEW call \in Calls, Begin(q, call) PROVE Kept
  BY <1>2, SendsKeep
<1>3. ASSUME NEW q \in Requests, Application(q) PROVE Kept
  BY <1>3, SendsKeep, ReceiveAnswerKeeps2, ReceiveRefreshKeeps2, WritesKeep, SaveRefreshKeeps2 DEF Application
<1>4. ASSUME NEW q \in Requests, Handler(q) PROVE Kept
  <2>1. UNCHANGED clientVars /\ Server!Handler(q)
    BY <1>4 DEF Handler
  <2>2. CASE Server!RevokeRefreshToken(q) \/ Server!CreateRefreshToken(q)
    BY <2>1, <2>2, RevokeKeeps2, CreateKeeps2
  <2>3. CASE \/ Server!CallApi(q) \/ Server!Login(q) \/ Server!Limited(q)
             \/ Server!GetRefreshToken(q) \/ Server!GetUserByID(q)
    BY <2>1, <2>3, HandlersAreQuiet, QuietKeeps
  <2> QED
    BY <2>1, <2>2, <2>3 DEF Server!Handler
<1>5. ASSUME Environment PROVE Kept
  <2>1. UNCHANGED clientVars /\ Server!Environment
    BY <1>5 DEF Environment
  <2>2. CASE \E q \in Requests : Server!LookupFails(q) \/ Server!Lose(q)
    BY <2>1, <2>2, HandlersAreQuiet, QuietKeeps
  <2>3. CASE Server!Admin
    BY <2>1, <2>3, SameIsQuiet, QuietKeeps DEF Server!Admin, Server!EditUser
  <2> QED
    BY <2>1, <2>2, <2>3 DEF Server!Environment
<1>6. ASSUME NEW i \in Pairs, Expire(i) PROVE Kept
  BY <1>6, ExpireKeeps2 DEF Expire
<1>7. CASE NextWindow \/ UNCHANGED vars
  BY <1>7, SameIsQuiet, QuietKeeps DEF NextWindow, Server!NextWindow, vars, serverVars
<1> QED
  BY <1>1, <1>2, <1>3, <1>4, <1>5, <1>6, <1>7 DEF Next

LEMMA StorageInit == Init => StorageInv
<1> SUFFICES ASSUME Init PROVE StorageInv
  OBVIOUS
<1>1. Inv
  BY InitHolds
<1>2. \A q \in Requests : /\ http[q].pc = "idle" /\ http[q].kind = None /\ http[q].issued = None
                          /\ req[q].pair = None
  BY DEF Init, Server!Init, Server!Idle, IdleRequest
<1>3. ASSUME NEW q \in Requests PROVE IssuesAtTheEnd(q) /\ Unpresented(q)
  BY <1>1, <1>2, Typed DEF IssuesAtTheEnd, Unpresented, InHand
<1>4. StoredIsReplaced
  <2>1. CASE storage = [access |-> None, refresh |-> None]
    BY <2>1 DEF StoredIsReplaced, RefreshTokenIsOver
  <2>2. CASE \E old \in Pairs : storage = [access |-> old, refresh |-> old] /\ pairs = Server!OnePair(old)
    BY <2>2 DEF StoredIsReplaced, Server!OnePair, Server!NewPair
  <2> QED
    BY <2>1, <2>2 DEF Init
<1> QED
  BY <1>1, <1>3, <1>4 DEF StorageInv

\* The interceptor and its storage: however calls, refreshes, logins and
\* logouts overlap, what they leave behind is a refresh token that is good or
\* over, unless an answer was lost.
THEOREM SettledSessionIsGood == Spec => []SettledTokenIsGood
<1>1. ASSUME StorageInv, \A q \in Requests : ~ InFlight(q), faults = 0
      PROVE  RefreshTokenIsOver \/ pairs[storage.refresh].refresh = "valid"
  <2>1. ASSUME NEW q \in Requests PROVE ~ Replacing(q)
    <3>1. req[q].pc = "idle"
      BY <1>1 DEF InFlight
    <3>2. http[q].pc = "idle"
      BY <1>1, <3>1, RequestKnown DEF StorageInv, Steady, KeepsStep
    <3> QED
      BY <1>1, <3>1, <3>2, SentOrReceived DEF Replacing
  <2> QED
    BY <1>1, <2>1 DEF StorageInv, StoredIsReplaced
<1>2. StorageInv => SettledTokenIsGood
  BY <1>1 DEF SettledTokenIsGood
<1> QED
  BY <1>2, StorageInit, StorageStep, PTL DEF Spec

=============================================================================
