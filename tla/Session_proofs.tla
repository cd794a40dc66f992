--------------------------- MODULE Session_proofs ---------------------------
(***************************************************************************)
(* Proofs about Session for any number of connections, clients that send   *)
(* anything, and any limit, faults and changes by the admin.               *)
(***************************************************************************)
EXTENDS Session, TLAPS

-----------------------------------------------------------------------------
(* The inductive invariant, exchange by exchange.                          *)

\* The pairs an exchange refers to are issued.
RefersToIssued(c) ==
    /\ http[c].token # None => pairs[http[c].token] # None
    /\ http[c].issued # None => pairs[http[c].issued] # None

\* What the handler has established when it reaches a statement.
WhereItStands(c) ==
    /\ http[c].pc = "sent" => http[c].kind \in Kinds
    /\ http[c].pc = "sent" /\ http[c].kind = "refresh" => http[c].token # None
    /\ http[c].pc \in {"GetUserByID", "RevokeRefreshToken"} => http[c].token # None
    /\ http[c].pc \in {"RevokeRefreshToken", "CreateRefreshToken"} => http[c].role \in Roles

\* A refresh that goes past the lookup began with a valid token; one that began
\* with another will find what it began with, or worse.
StoodValid(c) ==
    http[c].kind = "refresh" =>
        /\ http[c].pc = "sent" /\ http[c].stood # "valid" =>
              pairs[http[c].token].refresh # "valid"
        /\ \/ http[c].pc \in {"GetUserByID", "RevokeRefreshToken", "CreateRefreshToken"}
           \/ http[c].issued # None
           => http[c].stood = "valid"

\* The rights of now are among those held during an exchange, and so are the
\* ones its handler read and the ones it signed.
RightsNoted(c) ==
    /\ http[c].pc # "idle" => Rights \in held[c]
    /\ http[c].pc \in {"RevokeRefreshToken", "CreateRefreshToken"} =>
          <<TRUE, http[c].role>> \in held[c]
    /\ http[c].issued # None => <<TRUE, pairs[http[c].issued].role>> \in held[c]

Stands(c) == RefersToIssued(c) /\ WhereItStands(c) /\ StoodValid(c) /\ RightsNoted(c)

Inv == TypeOK /\ \A c \in Connections : Stands(c)

-----------------------------------------------------------------------------
(* What steps have in common.                                              *)

\* What a step must leave of the pairs that exchange d refers to.
KeptFor(d) ==
    \A i \in Pairs \cap {http[d].token, http[d].issued} :
        pairs[i] # None =>
            /\ pairs'[i] # None
            /\ pairs'[i].role = pairs[i].role
            /\ pairs[i].refresh # "valid" => pairs'[i].refresh # "valid"

\* An exchange that a step does not move stands where it stood.
LEMMA OthersStand ==
    ASSUME Inv, NEW d \in Connections, http'[d] = http[d], KeptFor(d),
           held[d] \subseteq held'[d], http[d].pc # "idle" => Rights' \in held'[d]
    PROVE  Stands(d)'
<1> USE DEF Inv, Stands
<1>1. /\ http[d] \in Exchanges
      /\ http[d].token # None => http[d].token \in Pairs
      /\ http[d].issued # None => http[d].issued \in Pairs
  BY DEF TypeOK, Exchanges
<1>2. RefersToIssued(d)'
  BY <1>1 DEF RefersToIssued, KeptFor
<1>3. WhereItStands(d)'
  BY DEF WhereItStands
<1>4. StoodValid(d)'
  BY <1>1 DEF StoodValid, WhereItStands, RefersToIssued, KeptFor
<1>5. RightsNoted(d)'
  BY <1>1 DEF RightsNoted, RefersToIssued, KeptFor
<1> QED
  BY <1>2, <1>3, <1>4, <1>5

\* An answer that hands out nothing.
LEMMA AnswerStands ==
    ASSUME WellFormedConstants, Inv, NEW c \in Connections, NEW status \in Statuses,
           Answer(c, status), http[c].pc # "idle", pairs' = pairs, Rights' = Rights, held' = held
    PROVE  http' \in [Connections -> Exchanges] /\ \A d \in Connections : Stands(d)'
<1>1. /\ http'[c].pc = "answered" /\ http'[c].token = None /\ http'[c].issued = None
      /\ http'[c].kind = http[c].kind
      /\ \A d \in Connections \ {c} : http'[d] = http[d]
  BY DEF Answer, Idle, Inv, TypeOK
<1>2. http' \in [Connections -> Exchanges]
  BY DEF Answer, Idle, Inv, TypeOK, Exchanges
<1>3. Stands(c)'
  BY <1>1 DEF Inv, Stands, RefersToIssued, WhereItStands, StoodValid, RightsNoted
<1>4. ASSUME NEW d \in Connections \ {c} PROVE Stands(d)'
  BY <1>1, <1>4, OthersStand DEF KeptFor, Inv, Stands, RightsNoted
<1> QED
  BY <1>2, <1>3, <1>4
-----------------------------------------------------------------------------
(* The steps.                                                              *)

LEMMA SendKeeps ==
    ASSUME WellFormedConstants, Inv, NEW c \in Connections, NEW kind \in Kinds,
           NEW token \in Issued \cup {None}, Send(c, kind, token)
    PROVE  Inv'
<1>1. /\ http'[c].pc = "sent" /\ http'[c].kind = kind /\ http'[c].token = token
      /\ http'[c].issued = None /\ held'[c] = {Rights}
      /\ http'[c].stood = IF kind = "refresh" THEN pairs[token].refresh ELSE None
      /\ \A d \in Connections \ {c} : http'[d] = http[d] /\ held'[d] = held[d]
      /\ UNCHANGED <<user, pairs, window, edits, faults>>
  BY DEF Send, Idle, Inv, TypeOK
<1>2. token \in Pairs \cup {None} /\ (kind = "refresh" => token \in Pairs /\ pairs[token] \in PairRows)
  BY DEF Send, Issued, Inv, TypeOK
<1>3. TypeOK'
  <2>1. http' \in [Connections -> Exchanges]
    BY <1>2 DEF Send, Idle, Inv, TypeOK, Exchanges, PairRows
  <2>2. held' \in [Connections -> SUBSET (BOOLEAN \X Roles)]
    BY DEF Send, Inv, TypeOK, Rights, UserRows
  <2> QED
    BY <1>1, <2>1, <2>2 DEF Inv, TypeOK
<1>4. Stands(c)'
  BY <1>1, <1>2 DEF Send, Issued, WellFormedConstants, Stands, RefersToIssued, WhereItStands, StoodValid, RightsNoted, Rights
<1>5. ASSUME NEW d \in Connections \ {c} PROVE Stands(d)'
  BY <1>1, <1>5, OthersStand DEF KeptFor, Inv, Stands, RightsNoted, Rights
<1> QED
  BY <1>3, <1>4, <1>5 DEF Inv

LEMMA ReceiveKeeps ==
    ASSUME WellFormedConstants, Inv, NEW c \in Connections, Receive(c)
    PROVE  Inv'
<1>1. /\ http'[c] = Idle
      /\ \A d \in Connections \ {c} : http'[d] = http[d] /\ held'[d] = held[d]
      /\ UNCHANGED <<user, pairs, window, edits, faults>>
  BY DEF Receive, Inv, TypeOK
<1>2. TypeOK'
  BY <1>1 DEF Receive, Idle, Inv, TypeOK, Exchanges
<1>3. Stands(c)'
  BY <1>1 DEF Idle, WellFormedConstants, Stands, RefersToIssued, WhereItStands, StoodValid, RightsNoted
<1>4. ASSUME NEW d \in Connections \ {c} PROVE Stands(d)'
  BY <1>1, <1>4, OthersStand DEF KeptFor, Inv, Stands, RightsNoted, Rights
<1> QED
  BY <1>2, <1>3, <1>4 DEF Inv

\* A step that answers and hands out nothing.
LEMMA RefusalKeeps ==
    ASSUME WellFormedConstants, Inv, NEW c \in Connections, NEW status \in Statuses,
           Answer(c, status), http[c].pc # "idle", UNCHANGED <<user, pairs, held>>,
           window' \in 0..RateLimit, edits' \in 0..MaxEvents, faults' \in 0..MaxEvents
    PROVE  Inv'
<1>1. Rights' = Rights
  BY DEF Rights
<1> QED
  BY <1>1, AnswerStands DEF Inv, TypeOK

LEMMA CallApiKeeps ==
    ASSUME WellFormedConstants, Inv, NEW c \in Connections, CallApi(c)
    PROVE  Inv'
<1>1. http[c].pc = "sent" /\ UNCHANGED <<pairs, window, edits, faults, held>>
  BY DEF CallApi, Arrived
<1>2. ASSUME NEW status \in Statuses, Answer(c, status), UNCHANGED user PROVE Inv'
  BY <1>1, <1>2, RefusalKeeps DEF Inv, TypeOK
<1>3. CASE ~ Authenticated(c) \/ http[c].kind = "password"
  BY <1>2, <1>3 DEF CallApi, Statuses
<1>4. CASE http[c].kind = "name" /\ user.named /\ Authenticated(c)
  BY <1>2, <1>4 DEF CallApi, Statuses
<1>5. CASE ~ (http[c].kind = "name" /\ user.named) /\ Authenticated(c) /\ http[c].kind # "password"
  <2>1. /\ user' = IF http[c].kind = "name" THEN [user EXCEPT !.named = TRUE] ELSE user
        /\ http' = [http EXCEPT ![c].pc = "answered", ![c].status = "ok", ![c].named = user'.named]
    BY <1>5 DEF CallApi
  <2>2. user' \in UserRows /\ Rights' = Rights
    BY <2>1 DEF Inv, TypeOK, UserRows, Rights
  <2>3. /\ http'[c] = [http[c] EXCEPT !.pc = "answered", !.status = "ok", !.named = user'.named]
        /\ \A d \in Connections \ {c} : http'[d] = http[d]
    BY <2>1 DEF Inv, TypeOK
  <2>5. http[c] \in Exchanges
    BY DEF Inv, TypeOK
  <2>8. user'.named \in BOOLEAN
    BY <2>2 DEF UserRows
  <2>9. http'[c] \in Exchanges
    BY <2>3, <2>5, <2>8 DEF Exchanges, Statuses
  <2>10. http' \in [Connections -> Exchanges]
    BY <2>1, <2>3, <2>9 DEF Inv, TypeOK
  <2>4. TypeOK'
    BY <1>1, <2>2, <2>10 DEF Inv, TypeOK
  <2>6. Stands(c)'
    BY <1>1, <2>2, <2>3, <2>5 DEF Inv, Exchanges, Stands, RefersToIssued, WhereItStands, StoodValid, RightsNoted
  <2>7. ASSUME NEW d \in Connections \ {c} PROVE Stands(d)'
    BY <1>1, <2>2, <2>3, <2>7, OthersStand DEF KeptFor, Inv, Stands, RightsNoted
  <2> QED
    BY <2>4, <2>6, <2>7 DEF Inv
<1> QED
  BY <1>3, <1>4, <1>5

LEMMA LoginKeeps ==
    ASSUME WellFormedConstants, Inv, NEW c \in Connections, Login(c)
    PROVE  Inv'
<1>1. http[c].pc = "sent" /\ http[c].kind = "login"
      /\ UNCHANGED <<user, pairs, window, edits, faults, held>>
  BY DEF Login, Arrived
<1>2. ASSUME NEW status \in Statuses, Answer(c, status) PROVE Inv'
  BY <1>1, <1>2, RefusalKeeps DEF Inv, TypeOK
<1>3. CASE Answer(c, "forbidden") \/ Answer(c, "unauthorized")
  BY <1>2, <1>3 DEF Statuses
<1>4. CASE /\ user.active
           /\ http' = [http EXCEPT ![c].pc = "CreateRefreshToken", ![c].role = user.role,
                                   ![c].named = user.named]
  <2>1. user.named \in BOOLEAN /\ user.role \in Roles /\ user.active = TRUE
    BY <1>4 DEF Inv, TypeOK, UserRows
  <2>2. /\ http[c] \in Exchanges
        /\ http'[c] = [http[c] EXCEPT !.pc = "CreateRefreshToken", !.role = user.role,
                                      !.named = user.named]
        /\ \A d \in Connections \ {c} : http'[d] = http[d]
    BY <1>4 DEF Inv, TypeOK
  <2>8. http'[c] \in Exchanges
    BY <2>1, <2>2 DEF Exchanges
  <2>3. http' \in [Connections -> Exchanges]
    BY <1>4, <2>2, <2>8 DEF Inv, TypeOK
  <2>4. TypeOK'
    BY <1>1, <2>3 DEF Inv, TypeOK
  <2>5. /\ http'[c].pc = "CreateRefreshToken" /\ http'[c].role = user.role
        /\ http'[c].kind = "login" /\ http'[c].token = http[c].token
        /\ http'[c].issued = http[c].issued
    BY <1>1, <2>2 DEF Exchanges
  <2>6. Stands(c)'
    BY <1>1, <2>1, <2>5 DEF Inv, Stands, RefersToIssued, WhereItStands, StoodValid, RightsNoted, Rights
  <2>7. ASSUME NEW d \in Connections \ {c} PROVE Stands(d)'
    BY <1>1, <2>2, <2>7, OthersStand DEF KeptFor, Inv, Stands, RightsNoted, Rights
  <2> QED
    BY <2>4, <2>6, <2>7 DEF Inv
<1> QED
  BY <1>3, <1>4 DEF Login

LEMMA GetRefreshTokenKeeps ==
    ASSUME WellFormedConstants, Inv, NEW c \in Connections, GetRefreshToken(c)
    PROVE  Inv'
<1>1. http[c].pc = "sent" /\ http[c].kind = "refresh"
      /\ UNCHANGED <<user, pairs, edits, faults, held>>
  BY DEF GetRefreshToken, Arrived
<1>2. window' \in 0..RateLimit
  BY DEF GetRefreshToken, Inv, TypeOK, WellFormedConstants
<1>3. CASE ~ ValidToken(http[c].token)
  BY <1>1, <1>2, <1>3, RefusalKeeps DEF GetRefreshToken, Statuses, Inv, TypeOK
<1>4. CASE ValidToken(http[c].token)
  <2>1. http' = [http EXCEPT ![c].pc = "GetUserByID"]
    BY <1>4 DEF GetRefreshToken, Goto
  <2>2. /\ http[c] \in Exchanges
        /\ http'[c] = [http[c] EXCEPT !.pc = "GetUserByID"]
        /\ \A d \in Connections \ {c} : http'[d] = http[d]
    BY <2>1 DEF Inv, TypeOK
  <2>3. TypeOK'
    BY <1>1, <1>2, <2>1 DEF Inv, TypeOK, Exchanges
  <2>4. /\ http'[c].pc = "GetUserByID" /\ http'[c].kind = "refresh"
        /\ http'[c].token = http[c].token /\ http'[c].issued = http[c].issued
        /\ http'[c].stood = http[c].stood
    BY <1>1, <2>2 DEF Exchanges
  <2>5. Stands(c)'
    BY <1>1, <1>4, <2>4 DEF ValidToken, Inv, Stands, RefersToIssued, WhereItStands, StoodValid, RightsNoted, Rights
  <2>6. ASSUME NEW d \in Connections \ {c} PROVE Stands(d)'
    BY <1>1, <2>2, <2>6, OthersStand DEF KeptFor, Inv, Stands, RightsNoted, Rights
  <2> QED
    BY <2>3, <2>5, <2>6 DEF Inv
<1> QED
  BY <1>3, <1>4

LEMMA GetUserByIDKeeps ==
    ASSUME WellFormedConstants, Inv, NEW c \in Connections, GetUserByID(c)
    PROVE  Inv'
<1>1. http[c].pc = "GetUserByID" /\ UNCHANGED <<user, pairs, window, edits, faults, held>>
  BY DEF GetUserByID
<1>2. CASE ~ user.active
  BY <1>1, <1>2, RefusalKeeps DEF GetUserByID, Statuses, Inv, TypeOK
<1>3. CASE user.active
  <2>1. http' = [http EXCEPT ![c].pc = "RevokeRefreshToken", ![c].role = user.role]
    BY <1>3 DEF GetUserByID
  <2>2. user.role \in Roles /\ user.active = TRUE
    BY <1>3 DEF Inv, TypeOK, UserRows
  <2>3. /\ http[c] \in Exchanges
        /\ http'[c] = [http[c] EXCEPT !.pc = "RevokeRefreshToken", !.role = user.role]
        /\ \A d \in Connections \ {c} : http'[d] = http[d]
    BY <2>1 DEF Inv, TypeOK
  <2>8. http'[c] \in Exchanges
    BY <2>2, <2>3 DEF Exchanges
  <2>4. TypeOK'
    BY <1>1, <2>1, <2>3, <2>8 DEF Inv, TypeOK
  <2>5. /\ http'[c].pc = "RevokeRefreshToken" /\ http'[c].role = user.role
        /\ http'[c].kind = http[c].kind /\ http'[c].token = http[c].token
        /\ http'[c].issued = http[c].issued /\ http'[c].stood = http[c].stood
    BY <2>3 DEF Exchanges
  <2>6. Stands(c)'
    BY <1>1, <2>2, <2>5 DEF Inv, Stands, RefersToIssued, WhereItStands, StoodValid, RightsNoted, Rights
  <2>7. ASSUME NEW d \in Connections \ {c} PROVE Stands(d)'
    BY <1>1, <2>3, <2>7, OthersStand DEF KeptFor, Inv, Stands, RightsNoted, Rights
  <2> QED
    BY <2>4, <2>6, <2>7 DEF Inv
<1> QED
  BY <1>2, <1>3

LEMMA RevokeKeeps ==
    ASSUME WellFormedConstants, Inv, NEW c \in Connections, RevokeRefreshToken(c)
    PROVE  Inv'
<1> DEFINE t == http[c].token
<1>1. /\ http[c].pc = "RevokeRefreshToken" /\ http' = [http EXCEPT ![c].pc = "CreateRefreshToken"]
      /\ pairs' = [pairs EXCEPT ![t].refresh = "revoked"]
      /\ UNCHANGED <<user, window, edits, faults, held>>
  BY DEF RevokeRefreshToken, Goto
<1>2. t \in Pairs /\ pairs[t] \in PairRows
  BY <1>1 DEF Inv, Stands, RefersToIssued, WhereItStands, TypeOK, Exchanges
<1>3. /\ pairs' \in [Pairs -> PairRows \cup {None}]
      /\ \A i \in Pairs : i # t => pairs'[i] = pairs[i]
      /\ pairs'[t] \in PairRows /\ pairs'[t].role = pairs[t].role
      /\ pairs'[t].refresh = "revoked"
  BY <1>1, <1>2 DEF Inv, TypeOK, PairRows
<1>4. \A d \in Connections : KeptFor(d)
  BY <1>3 DEF KeptFor, WellFormedConstants
<1>5. /\ http[c] \in Exchanges
      /\ http'[c] = [http[c] EXCEPT !.pc = "CreateRefreshToken"]
      /\ \A d \in Connections \ {c} : http'[d] = http[d]
  BY <1>1 DEF Inv, TypeOK
<1>6. TypeOK'
  BY <1>1, <1>3 DEF Inv, TypeOK, Exchanges
<1>7. /\ http'[c].pc = "CreateRefreshToken" /\ http'[c].role = http[c].role
      /\ http'[c].kind = http[c].kind /\ http'[c].token = http[c].token
      /\ http'[c].issued = http[c].issued /\ http'[c].stood = http[c].stood
  BY <1>5 DEF Exchanges
<1>8. Stands(c)'
  <2>1. http[c].issued # None => http[c].issued \in Pairs
    BY <1>5 DEF Exchanges
  <2>2. RefersToIssued(c)'
    BY <1>2, <1>4, <1>7, <2>1 DEF KeptFor, Inv, Stands, RefersToIssued
  <2>3. WhereItStands(c)' /\ StoodValid(c)'
    BY <1>1, <1>7 DEF Inv, Stands, WhereItStands, StoodValid
  <2>4. RightsNoted(c)'
    BY <1>1, <1>4, <1>7, <2>1 DEF KeptFor, Inv, Stands, RefersToIssued, RightsNoted, Rights
  <2> QED
    BY <2>2, <2>3, <2>4 DEF Stands
<1>9. ASSUME NEW d \in Connections \ {c} PROVE Stands(d)'
  BY <1>1, <1>4, <1>5, <1>9, OthersStand DEF Inv, Stands, RightsNoted, Rights
<1> QED
  BY <1>6, <1>8, <1>9 DEF Inv

LEMMA CreateKeeps ==
    ASSUME WellFormedConstants, Inv, NEW c \in Connections, CreateRefreshToken(c)
    PROVE  Inv'
<1>1. /\ http[c].pc = "CreateRefreshToken" /\ http[c].role \in Roles
      /\ <<TRUE, http[c].role>> \in held[c] /\ Rights \in held[c]
      /\ UNCHANGED <<user, window, edits, faults, held>>
  BY DEF CreateRefreshToken, Inv, Stands, WhereItStands, RightsNoted
<1>2. PICK i \in Pairs \ Issued :
         /\ pairs' = [pairs EXCEPT ![i] = NewPair(http[c].role)]
         /\ http' = [http EXCEPT ![c].pc = "answered", ![c].status = "ok", ![c].issued = i]
  BY DEF CreateRefreshToken
<1>3. /\ i \in Pairs /\ pairs[i] = None /\ i # None
      /\ NewPair(http[c].role) \in PairRows
      /\ NewPair(http[c].role).role = http[c].role
  BY <1>1, <1>2 DEF Issued, NewPair, PairRows, WellFormedConstants
<1>4. /\ pairs' \in [Pairs -> PairRows \cup {None}]
      /\ \A j \in Pairs : j # i => pairs'[j] = pairs[j]
      /\ pairs'[i] # None /\ pairs'[i].role = http[c].role
  BY <1>2, <1>3 DEF Inv, TypeOK, WellFormedConstants
<1>5. \A d \in Connections : KeptFor(d)
  BY <1>3, <1>4 DEF KeptFor
<1>6. /\ http[c] \in Exchanges
      /\ http'[c] = [http[c] EXCEPT !.pc = "answered", !.status = "ok", !.issued = i]
      /\ \A d \in Connections \ {c} : http'[d] = http[d]
  BY <1>2 DEF Inv, TypeOK
<1>7. http'[c] \in Exchanges
  BY <1>3, <1>6 DEF Exchanges, Statuses
<1>8. TypeOK'
  BY <1>1, <1>2, <1>4, <1>6, <1>7 DEF Inv, TypeOK
<1>9. /\ http'[c].pc = "answered" /\ http'[c].issued = i /\ http'[c].token = http[c].token
      /\ http'[c].kind = http[c].kind /\ http'[c].stood = http[c].stood
  BY <1>6 DEF Exchanges
<1>10. Stands(c)'
  <2>1. http[c].token # None => http[c].token \in Pairs
    BY <1>6 DEF Exchanges
  <2>2. RefersToIssued(c)'
    BY <1>4, <1>5, <1>9, <2>1 DEF KeptFor, Inv, Stands, RefersToIssued
  <2>3. WhereItStands(c)' /\ StoodValid(c)'
    BY <1>1, <1>9 DEF Inv, Stands, WhereItStands, StoodValid
  <2>4. RightsNoted(c)'
    BY <1>1, <1>4, <1>9 DEF RightsNoted, Rights
  <2> QED
    BY <2>2, <2>3, <2>4 DEF Stands
<1>11. ASSUME NEW d \in Connections \ {c} PROVE Stands(d)'
  BY <1>1, <1>5, <1>6, <1>11, OthersStand DEF Inv, Stands, RightsNoted, Rights
<1> QED
  BY <1>8, <1>10, <1>11 DEF Inv

LEMMA FaultKeeps ==
    ASSUME WellFormedConstants, Inv, NEW c \in Connections,
           Limited(c) \/ LookupFails(c) \/ Lose(c)
    PROVE  Inv'
<1>1. http[c].pc # "idle" /\ UNCHANGED <<user, pairs, edits, held>>
  BY DEF Limited, LookupFails, Lose, Arrived
<1>2. \E status \in Statuses : Answer(c, status)
  BY DEF Limited, LookupFails, Lose, Statuses
<1>3. window' \in 0..RateLimit
  BY DEF Limited, LookupFails, Lose, Inv, TypeOK, WellFormedConstants
<1>4. faults' \in 0..MaxEvents
  BY DEF Limited, LookupFails, Lose, Inv, TypeOK, WellFormedConstants
<1>5. edits' \in 0..MaxEvents
  BY <1>1 DEF Inv, TypeOK
<1> QED
  BY <1>1, <1>2, <1>3, <1>4, <1>5, RefusalKeeps

LEMMA ExpireKeeps ==
    ASSUME WellFormedConstants, Inv, NEW i \in Pairs, Expire(i)
    PROVE  Inv'
<1>1. UNCHANGED <<user, http, window, edits, faults, held>>
  BY DEF Expire
<1>2. PICK c \in Connections : /\ http[c].pc = "sent" /\ http[c].token = i
                               /\ \/ pairs' = [pairs EXCEPT ![i].access = "expired", ![i].refresh = "expired"]
                                  \/ pairs' = [pairs EXCEPT ![i].access = "expired"]
  BY DEF Expire
<1>3. pairs[i] \in PairRows
  BY <1>2 DEF Inv, Stands, RefersToIssued, TypeOK, WellFormedConstants
<1>4. /\ pairs' \in [Pairs -> PairRows \cup {None}]
      /\ \A j \in Pairs : j # i => pairs'[j] = pairs[j]
      /\ pairs'[i] \in PairRows /\ pairs'[i].role = pairs[i].role
      /\ pairs'[i].refresh \in {pairs[i].refresh, "expired"}
  <2>1. CASE pairs' = [pairs EXCEPT ![i].access = "expired", ![i].refresh = "expired"]
    BY <1>3, <2>1 DEF Inv, TypeOK, PairRows
  <2>2. CASE pairs' = [pairs EXCEPT ![i].access = "expired"]
    BY <1>3, <2>2 DEF Inv, TypeOK, PairRows
  <2> QED
    BY <1>2, <2>1, <2>2
<1>5. \A d \in Connections : KeptFor(d)
  BY <1>4 DEF KeptFor, WellFormedConstants
<1>6. TypeOK'
  BY <1>1, <1>4 DEF Inv, TypeOK
<1>7. ASSUME NEW d \in Connections PROVE Stands(d)'
  BY <1>1, <1>5, <1>7, OthersStand DEF Inv, Stands, RightsNoted, Rights
<1> QED
  BY <1>6, <1>7 DEF Inv

LEMMA ForgetKeeps ==
    ASSUME WellFormedConstants, Inv, NEW i \in Pairs, Forget(i)
    PROVE  Inv'
<1>1. /\ pairs' = [pairs EXCEPT ![i] = None]
      /\ \A d \in Connections : i \notin {http[d].token, http[d].issued}
      /\ UNCHANGED <<user, http, window, edits, faults, held>>
  BY DEF Forget
<1>2. TypeOK'
  BY <1>1 DEF Inv, TypeOK
<1>3. \A d \in Connections : KeptFor(d)
  BY <1>1 DEF KeptFor, Inv, TypeOK
<1>4. ASSUME NEW d \in Connections PROVE Stands(d)'
  BY <1>1, <1>3, <1>4, OthersStand DEF Inv, Stands, RightsNoted, Rights
<1> QED
  BY <1>2, <1>4 DEF Inv

LEMMA NextWindowKeeps ==
    ASSUME WellFormedConstants, Inv, NextWindow
    PROVE  Inv'
<1>1. window' = 0 /\ UNCHANGED <<user, pairs, http, edits, faults, held>>
  BY DEF NextWindow
<1>2. TypeOK'
  BY <1>1 DEF Inv, TypeOK, WellFormedConstants
<1>3. ASSUME NEW d \in Connections PROVE Stands(d)'
  BY <1>1, <1>3, OthersStand DEF KeptFor, Inv, Stands, RightsNoted, Rights
<1> QED
  BY <1>2, <1>3 DEF Inv

LEMMA AdminKeeps ==
    ASSUME WellFormedConstants, Inv, Admin
    PROVE  Inv'
<1>1. PICK row \in UserRows : EditUser(row)
  <2>1. user \in UserRows
    BY DEF Inv, TypeOK
  <2>2. /\ \A active \in BOOLEAN : [user EXCEPT !.active = active] \in UserRows
        /\ \A role \in Roles : [user EXCEPT !.role = role] \in UserRows
        /\ [user EXCEPT !.named = TRUE] \in UserRows
    BY <2>1 DEF UserRows
  <2> QED
    BY <2>2 DEF Admin
<1>2. /\ user' = row /\ UNCHANGED <<pairs, http, window, faults>>
      /\ held' = [c \in Connections |->
                    IF http[c].pc = "idle" THEN held[c] ELSE held[c] \cup {<<row.active, row.role>>}]
  BY <1>1 DEF EditUser
<1>3. <<row.active, row.role>> \in BOOLEAN \X Roles /\ Rights' = <<row.active, row.role>>
  BY <1>2 DEF UserRows, Rights
<1>4. edits' \in 0..MaxEvents
  BY <1>1 DEF EditUser, Inv, TypeOK, WellFormedConstants
<1>5. held' \in [Connections -> SUBSET (BOOLEAN \X Roles)]
  BY <1>2, <1>3 DEF Inv, TypeOK
<1>6. TypeOK'
  BY <1>2, <1>4, <1>5 DEF Inv, TypeOK
<1>7. ASSUME NEW d \in Connections PROVE Stands(d)'
  <2>1. held[d] \subseteq held'[d] /\ (http[d].pc # "idle" => Rights' \in held'[d])
    BY <1>2, <1>3
  <2> QED
    BY <1>2, <2>1, OthersStand DEF KeptFor, Inv
<1> QED
  BY <1>6, <1>7 DEF Inv

-----------------------------------------------------------------------------
(* The theorems.                                                           *)

LEMMA InitStands == ASSUME WellFormedConstants PROVE Init => Inv
<1> SUFFICES ASSUME Init PROVE Inv
  OBVIOUS
<1>1. pairs \in [Pairs -> PairRows \cup {None}]
  BY DEF Init, OnePair, NewPair, PairRows, Roles
<1>2. TypeOK
  BY <1>1 DEF Init, TypeOK, Idle, Exchanges, UserRows, Roles, WellFormedConstants
<1>3. ASSUME NEW c \in Connections PROVE Stands(c)
  BY DEF Init, Idle, WellFormedConstants, Stands, RefersToIssued, WhereItStands, StoodValid, RightsNoted
<1> QED
  BY <1>2, <1>3 DEF Inv

\* Every step of a server with any clients keeps the invariant.
LEMMA StepKeeps == ASSUME WellFormedConstants, Inv, [Next]_vars PROVE Inv'
<1>1. CASE \E c \in Connections, kind \in Kinds, token \in Issued \cup {None} : Send(c, kind, token)
  BY <1>1, SendKeeps
<1>2. CASE \E c \in Connections : Receive(c) \/ Handler(c)
  BY <1>2, ReceiveKeeps, CallApiKeeps, LoginKeeps, FaultKeeps, GetRefreshTokenKeeps,
     GetUserByIDKeeps, RevokeKeeps, CreateKeeps DEF Handler
<1>3. CASE NextWindow
  BY <1>3, NextWindowKeeps
<1>4. CASE Environment
  BY <1>4, FaultKeeps, AdminKeeps DEF Environment
<1>5. CASE \E i \in Pairs : Expire(i) \/ Forget(i)
  BY <1>5, ExpireKeeps, ForgetKeeps
<1>6. CASE UNCHANGED vars
  BY <1>6 DEF vars, Inv, TypeOK, Stands, RefersToIssued, WhereItStands, StoodValid, RightsNoted, Rights
<1> QED
  BY <1>1, <1>2, <1>3, <1>4, <1>5, <1>6 DEF Next

\* The server keeps the types, whatever clients send.
THEOREM TypeCorrect == ASSUME WellFormedConstants PROVE Spec => []TypeOK
<1>1. Inv => TypeOK
  BY DEF Inv
<1> QED
  BY <1>1, InitStands, StepKeeps, PTL DEF Spec

\* No exchange that began with a token revoked or expired ends with a pair:
\* AuthHandler.Refresh, its statements interleaved with any number of others.
THEOREM RevokedBuysNothing == ASSUME WellFormedConstants PROVE Spec => []RevokedIsNeverHonoured
<1>1. Inv => RevokedIsNeverHonoured
  BY DEF Inv, Stands, StoodValid, RevokedIsNeverHonoured
<1> QED
  BY <1>1, InitStands, StepKeeps, PTL DEF Spec

\* No pair grants what the user was not allowed at a moment of the exchange
\* that issued it, whatever an admin changes meanwhile.
THEOREM PairsGrantWhatWasHeld == ASSUME WellFormedConstants PROVE Spec => []RightsWereHeld
<1>1. Inv => RightsWereHeld
  BY DEF Inv, Stands, RightsNoted, RightsWereHeld
<1> QED
  BY <1>1, InitStands, StepKeeps, PTL DEF Spec

=============================================================================
