------------------------------- MODULE Alerts -------------------------------
(***************************************************************************)
(* What a user saves as an alert (a watch) and an admin as the settings:   *)
(* WatchHandler.Create, Update, SetActive and Delete                       *)
(* (src/backend/internal/httpapi/watch_handler.go) and ScanSettingsHandler *)
(* .Update (scan_settings_handler.go). Create, Update and the settings are *)
(* transactions of several statements, READ COMMITTED; the others are in   *)
(* autocommit. Each statement is an action; what a transaction wrote is    *)
(* the others' only once it commits, but the row it updated is locked.     *)
(*                                                                         *)
(* scan_settings is one row, with default words and intervals below it as  *)
(* an alert has blocked words and marketplaces, and is treated alike under *)
(* the name Settings. The goroutines a new alert starts are ScanScheduler. *)
(***************************************************************************)
EXTENDS Integers, FiniteSets

CONSTANTS
    Requests,      \* the requests, each with one body
    Bodies,        \* the bodies they may have
    Watches,       \* watch ids, each generated once
    Settings,      \* the row of scan_settings
    Users, Terms, Marketplaces,
    Scalars,       \* the columns of a row that a body brings, as one value
    Malformed,     \* the Scalars the handler rejects (a number, a mode, a region)
    Impossible,    \* those a CHECK rejects
    Blank,         \* terms of nothing but spaces
    Unknown,       \* slugs that are no row of marketplaces, intervals no CHECK allows
    Fold,          \* strings.ToLower
    Seed,          \* the default words of migration 000003
    Saved,         \* the owners of the alerts saved earlier
    Deleted, None

Operations == {"create", "update", "setActive", "delete", "settings"}

Rows == Watches \cup {Settings}

Optional(S) == S \cup {None}

\* One record for the bodies of all operations, path and claims included. For
\* the settings, blocked are the default words and marketplaces the intervals.
BodyRecords ==
    [op : Operations, by : Users, admin : BOOLEAN, watch : Optional(Watches),
     scalars : Scalars, keywords : SUBSET Terms, blocked : SUBSET Terms,
     marketplaces : SUBSET Marketplaces, active : BOOLEAN]

ASSUME ConstantsAssumption ==
    /\ Bodies \subseteq BodyRecords
    /\ \A b \in Bodies : /\ b.op \in {"update", "setActive", "delete"} => b.watch \in Watches
                         /\ b.op = "settings" => b.admin
    /\ Malformed \cup Impossible \subseteq Scalars
    /\ Blank \subseteq Terms
    /\ Unknown \subseteq Marketplaces
    /\ DOMAIN Fold = Terms
    /\ Seed \subseteq Terms
    /\ \A s, t \in Seed : Fold[s] = Fold[t] => s = t
    /\ DOMAIN Saved \subseteq Watches
    /\ \A w \in DOMAIN Saved : Saved[w] \in Users
    /\ Scalars \ (Malformed \cup Impossible) # {}
    /\ Settings \notin Watches
    /\ None \notin Rows \cup Requests

VARIABLES
    rows,      \* the committed rows of watches, and scan_settings
    children,  \* the committed rows of watch_keywords, watch_blocked_words and
               \* watch_marketplaces, default_blocked_words and
               \* marketplace_scan_settings; by says whose they are
    lock,      \* the transaction that updated a row and has not ended
    req,       \* the state of each request
    seeds      \* history variable: the default words that were current at some
               \* time since a request arrived

vars == <<rows, children, lock, req, seeds>>

RowRecords == [owner : Optional(Users), scalars : Scalars \ (Malformed \cup Impossible),
               active : BOOLEAN, by : Optional(Requests)]

ASSUME RowAssumption == None # Deleted /\ {None, Deleted} \cap RowRecords = {}

Kinds == {"keyword", "blocked", "marketplace"}

ChildRecords == [of : Rows, kind : Kinds, term : Terms \cup (Marketplaces \ Unknown),
                 by : Optional(Requests)]

Statements ==
    {"GetWatchByID", "CreateWatch", "ListDefaultBlockedWords", "UpdateWatch",
     "DeleteKeywords", "DeleteBlockedWords", "DeleteMarketplaces", "WriteChildren",
     "Commit", "SetWatchActive", "DeleteWatch"}

\* of is the row acted upon; row is the one to be committed; the answers are
\*   ok 2xx, bad 400, missing 404, error 500
RequestStates ==
    [pc : {"idle", "answered"} \cup Statements,
     body : Optional(Bodies), of : Optional(Rows), row : Optional(RowRecords),
     blocked : SUBSET Terms, removed : SUBSET ChildRecords, added : SUBSET ChildRecords,
     answer : {"ok", "bad", "missing", "error", None}]

IdleRequest == [pc |-> "idle", body |-> None, of |-> None, row |-> None, blocked |-> {},
                removed |-> {}, added |-> {}, answer |-> None]

Body(r) == req[r].body

Exists(row) == rows[row] \notin {None, Deleted}

Folded(words) == {Fold[t] : t \in words}

Below(row, kind) == {c \in children : c.of = row /\ c.kind = kind}

Listed(row, kind) == {c.term : c \in Below(row, kind)}

DefaultWords == Listed(Settings, "blocked")

\* A request answers: its transaction, if any, is over, and all it holds with it.
Answer(r, answer) ==
    req' = [req EXCEPT ![r] = [IdleRequest EXCEPT !.pc = "answered", !.body = Body(r),
                                                  !.answer = answer]]

\* Faulty: no deferred Rollback.
UnlockOnlyCommitted(r) ==
    lock' = [row \in Rows |-> IF lock[row] = r /\ req[r].pc = "Commit" THEN None ELSE lock[row]]

Unlock(r) == lock' = [row \in Rows |-> IF lock[row] = r THEN None ELSE lock[row]]

\* Nothing of it was committed.
Refuse(r, answer) ==
    /\ Answer(r, answer)
    /\ Unlock(r)
    /\ UNCHANGED <<rows, children, seeds>>

Goto(r, statement) == req' = [req EXCEPT ![r].pc = statement]

-----------------------------------------------------------------------------
\* The settings of the migrations, and the alerts saved earlier, with nothing
\* below them but marketplaces.
Init ==
    /\ LET valid == CHOOSE v \in Scalars \ (Malformed \cup Impossible) : TRUE
           Row(user) == [owner |-> user, scalars |-> valid, active |-> TRUE, by |-> None]
       IN  rows = [row \in Rows |-> IF row = Settings THEN Row(None)
                                    ELSE IF row \in DOMAIN Saved THEN Row(Saved[row]) ELSE None]
    /\ children = [of : {Settings}, kind : {"blocked"}, term : Seed, by : {None}] \cup
          [of : DOMAIN Saved, kind : {"marketplace"}, term : Marketplaces \ Unknown, by : {None}]
    /\ lock = [row \in Rows |-> None]
    /\ req = [r \in Requests |-> IdleRequest]
    /\ seeds = [r \in Requests |-> {}]

\* Faulty: an unknown keyword_match_mode passes.
WellFormedAnyScalars(b) ==
    /\ b.op \in {"create", "update"} => b.keywords \ Blank # {}
    /\ b.op = "settings" => b.marketplaces # {}

\* What the handlers check before the first statement: parseKeywordMatchMode,
\* validateKeywords, the numbers, the settings' region and intervals.
WellFormed(b) ==
    /\ b.op \in {"create", "update", "settings"} => b.scalars \notin Malformed
    /\ b.op \in {"create", "update"} => b.keywords \ Blank # {}
    /\ b.op = "settings" => b.marketplaces # {}

FirstStatement(b) ==
    CASE b.op = "create"   -> "CreateWatch"
      [] b.op = "settings" -> "UpdateWatch"
      [] OTHER             -> "GetWatchByID"

Arrive(r) ==
    /\ req[r].pc = "idle"
    /\ \E b \in Bodies :
          req' = [req EXCEPT ![r] =
                     IF WellFormed(b)
                     THEN [@ EXCEPT !.pc = FirstStatement(b), !.body = b,
                                    !.of = IF b.op = "settings" THEN Settings ELSE b.watch]
                     ELSE [@ EXCEPT !.pc = "answered", !.body = b, !.answer = "bad"]]
    /\ seeds' = [seeds EXCEPT ![r] = {DefaultWords}]
    /\ UNCHANGED <<rows, children, lock>>

\* Faulty: looks only whether there is such an alert.
GetWatchOfAnyone(r) ==
    /\ req[r].pc = "GetWatchByID"
    /\ LET b == Body(r)
       IN  IF ~ Exists(b.watch)
           THEN Refuse(r, "missing")
           ELSE /\ Goto(r, CASE b.op = "update"    -> "UpdateWatch"
                             [] b.op = "setActive" -> "SetWatchActive"
                             [] b.op = "delete"    -> "DeleteWatch")
                /\ UNCHANGED <<rows, children, lock, seeds>>

\* getOwnedWatch: a stranger's alert is not found.
GetWatchByID(r) ==
    /\ req[r].pc = "GetWatchByID"
    /\ LET b == Body(r)
       IN  IF ~ Exists(b.watch) \/ (rows[b.watch].owner # b.by /\ ~ b.admin)
           THEN Refuse(r, "missing")
           ELSE /\ Goto(r, CASE b.op = "update"    -> "UpdateWatch"
                             [] b.op = "setActive" -> "SetWatchActive"
                             [] b.op = "delete"    -> "DeleteWatch")
                /\ UNCHANGED <<rows, children, lock, seeds>>

\* Ids that no request has generated.
Free == {w \in Watches : rows[w] = None /\ \A r \in Requests : req[r].row # None => req[r].of # w}

\* When the ids of the model are used up the statement fails.
CreateWatch(r) ==
    /\ req[r].pc = "CreateWatch"
    /\ IF Body(r).scalars \in Impossible \/ Free = {}
       THEN Refuse(r, "bad")
       ELSE /\ \E w \in Free :
                  req' = [req EXCEPT ![r].pc = "ListDefaultBlockedWords", ![r].of = w,
                                     ![r].row = [owner |-> Body(r).by, scalars |-> Body(r).scalars,
                                                 active |-> TRUE, by |-> r]]
            /\ UNCHANGED <<rows, children, lock, seeds>>

\* Of each word a list has in several spellings, one.
OneSpelling(words, unique) ==
    /\ unique \subseteq words
    /\ Folded(unique) = Folded(words)
    /\ \A s, t \in unique : Fold[s] = Fold[t] => s = t

\* Faulty: compares the spellings.
MergedAsSpelled(words, defaults, merged) == merged = words \cup defaults

\* mergeWithDefaultBlockedWords: the user's words first, then the defaults that
\* are none of them.
Merged(words, defaults, merged) ==
    \E unique \in SUBSET words :
        /\ OneSpelling(words, unique)
        /\ merged = unique \cup {d \in defaults : Fold[d] \notin Folded(unique)}

ListDefaultBlockedWords(r) ==
    /\ req[r].pc = "ListDefaultBlockedWords"
    /\ \E merged \in SUBSET Terms :
          /\ Merged(Body(r).blocked, DefaultWords, merged)
          /\ req' = [req EXCEPT ![r].pc = "WriteChildren", ![r].blocked = merged]
    /\ UNCHANGED <<rows, children, lock, seeds>>

\* Faulty: an edited alert is active again.
ActivatedRow(r) == [rows[req[r].of] EXCEPT !.scalars = Body(r).scalars, !.by = r, !.active = TRUE]

UpdatedRow(r) == [rows[req[r].of] EXCEPT !.scalars = Body(r).scalars, !.by = r]

\* The default words are written once in one spelling each, an alert's blocked
\* words as they are.
StartReplacing(r) ==
    \E words \in SUBSET Body(r).blocked :
        /\ IF Body(r).op = "settings" THEN OneSpelling(Body(r).blocked, words)
           ELSE words = Body(r).blocked
        /\ req' = [req EXCEPT ![r].row = UpdatedRow(r), ![r].blocked = words,
                              ![r].pc = IF Body(r).op = "settings" THEN "DeleteBlockedWords"
                                        ELSE "DeleteKeywords"]

\* Faulty: through the pool, outside the transaction.
UpdateWatchAtOnce(r) ==
    /\ req[r].pc = "UpdateWatch"
    /\ lock[req[r].of] = None
    /\ IF ~ Exists(req[r].of) \/ Body(r).scalars \in Impossible
       THEN Refuse(r, "bad")
       ELSE /\ StartReplacing(r)
            /\ lock' = [lock EXCEPT ![req[r].of] = r]
            /\ rows' = [rows EXCEPT ![req[r].of] = UpdatedRow(r)]
            /\ UNCHANGED <<children, seeds>>

\* Faulty: takes no lock, as if the children were replaced before the UPDATE.
UpdateWatchUnlocked(r) ==
    /\ req[r].pc = "UpdateWatch"
    /\ IF ~ Exists(req[r].of) \/ Body(r).scalars \in Impossible
       THEN Refuse(r, "bad")
       ELSE StartReplacing(r) /\ UNCHANGED <<rows, children, lock, seeds>>

\* UpdateWatch, and UpdateScanSettings: waits for the transaction that holds
\* the row, and then finds what it left.
UpdateWatch(r) ==
    /\ req[r].pc = "UpdateWatch"
    /\ lock[req[r].of] = None
    /\ IF ~ Exists(req[r].of) \/ Body(r).scalars \in Impossible
       THEN Refuse(r, "bad")
       ELSE /\ StartReplacing(r)
            /\ lock' = [lock EXCEPT ![req[r].of] = r]
            /\ UNCHANGED <<rows, children, seeds>>

\* DELETE .. WHERE watch_id: the rows that are committed by now.
DeleteChildren(r, statement, kind, next) ==
    /\ req[r].pc = statement
    /\ req' = [req EXCEPT ![r].pc = next, ![r].removed = @ \cup Below(req[r].of, kind)]
    /\ UNCHANGED <<rows, children, lock, seeds>>

ChildrenOf(r, kind, terms) == [of : {req[r].of}, kind : {kind}, term : terms, by : {r}]

\* writeWatchChildren; for the settings, AddDefaultBlockedWord and
\* UpsertMarketplaceScanSetting. A foreign key or a CHECK may refuse a row.
WriteChildren(r) ==
    /\ req[r].pc = "WriteChildren"
    /\ IF Body(r).marketplaces \cap Unknown # {}
       THEN Refuse(r, "bad")
       ELSE /\ req' = [req EXCEPT ![r].pc = "Commit",
                         ![r].added = ChildrenOf(r, "blocked", req[r].blocked)
                             \cup ChildrenOf(r, "marketplace", Body(r).marketplaces)
                             \cup IF Body(r).op = "settings" THEN {}
                                  ELSE ChildrenOf(r, "keyword", Body(r).keywords)]
            /\ UNCHANGED <<rows, children, lock, seeds>>

\* The default words changed, for every request not yet answered.
NoteSeeds ==
    seeds' = [s \in Requests |->
                IF req[s].pc \in Statements THEN seeds[s] \cup {DefaultWords'} ELSE seeds[s]]

\* The reply to COMMIT comes, or is lost.
Commit(r) ==
    /\ req[r].pc = "Commit"
    /\ rows' = [rows EXCEPT ![req[r].of] = req[r].row]
    /\ children' = (children \ req[r].removed) \cup req[r].added
    /\ Answer(r, "ok") \/ Answer(r, "error")
    /\ Unlock(r)
    /\ NoteSeeds

\* An alert deleted after getOwnedWatch read it is no row: 500.
SetWatchActive(r) ==
    /\ req[r].pc = "SetWatchActive"
    /\ lock[req[r].of] = None
    /\ IF ~ Exists(req[r].of)
       THEN Refuse(r, "error")
       ELSE /\ rows' = [rows EXCEPT ![req[r].of].active = Body(r).active]
            /\ Answer(r, "ok") \/ Answer(r, "error")
            /\ UNCHANGED <<children, lock, seeds>>

\* The children go by ON DELETE CASCADE. No row to delete is success too.
DeleteWatch(r) ==
    /\ req[r].pc = "DeleteWatch"
    /\ lock[req[r].of] = None
    /\ rows' = [rows EXCEPT ![req[r].of] = Deleted]
    /\ children' = {c \in children : c.of # req[r].of}
    /\ Answer(r, "ok") \/ Answer(r, "error")
    /\ UNCHANGED <<lock, seeds>>

\* A statement fails, or the process or the connection of a request does, and
\* its transaction is rolled back.
Fail(r) ==
    /\ req[r].pc \in Statements
    /\ Refuse(r, "error")

Statement(r) ==
    \/ GetWatchByID(r)
    \/ CreateWatch(r)
    \/ ListDefaultBlockedWords(r)
    \/ UpdateWatch(r)
    \/ DeleteChildren(r, "DeleteKeywords", "keyword", "DeleteBlockedWords")
    \/ DeleteChildren(r, "DeleteBlockedWords", "blocked", "DeleteMarketplaces")
    \/ DeleteChildren(r, "DeleteMarketplaces", "marketplace", "WriteChildren")
    \/ WriteChildren(r)
    \/ Commit(r)
    \/ SetWatchActive(r)
    \/ DeleteWatch(r)

Next == \E r \in Requests : Arrive(r) \/ Statement(r) \/ Fail(r)

Spec == Init /\ [][Next]_vars

-----------------------------------------------------------------------------
\* The type of every variable.
TypeOK ==
    /\ rows \in [Rows -> RowRecords \cup {None, Deleted}]
    /\ children \subseteq ChildRecords
    /\ lock \in [Rows -> Optional(Requests)]
    /\ req \in [Requests -> RequestStates]
    /\ seeds \in [Requests -> SUBSET SUBSET Terms]

\* What a row's last writer asked to have below it, but for a new alert's
\* blocked words.
Wanted(row, kind) ==
    LET b == Body(rows[row].by)
    IN  CASE kind = "keyword"     -> IF row = Settings THEN {} ELSE b.keywords
          [] kind = "marketplace" -> b.marketplaces
          [] kind = "blocked"     -> b.blocked

\* An alert is what one request saved, its columns and everything below it,
\* however many edits, pauses and deletions of it run at once, and so are the
\* settings: a replacement never mixes with another one's, and nothing
\* is left below a deleted alert (watch_handler.go:264-367 "replace completo, nao
\* merge"). It is the lock of UpdateWatch, the first statement that writes, that
\* keeps two replacements of the children apart.
EachAlertIsOneRequests ==
    /\ \A c \in children : Exists(c.of) /\ c.by = rows[c.of].by
    /\ \A row \in Rows : Exists(row) /\ rows[row].by # None =>
          /\ Listed(row, "keyword") = Wanted(row, "keyword")
          /\ Listed(row, "marketplace") = Wanted(row, "marketplace")
          /\ IF row = Settings
             THEN OneSpelling(Wanted(row, "blocked"), Listed(row, "blocked"))
             ELSE Body(rows[row].by).op = "update" =>
                      Listed(row, "blocked") = Wanted(row, "blocked")

\* A new alert blocks the user's words and the default words of one moment
\* of its creation, each in one spelling, the user's; it never gets half of
\* a list that an admin is replacing, nor one saved later (watch_handler.go:136-143,
\* 222-249; migration 000003).
SeedIsOneListOfItsTime ==
    \A w \in Watches : Exists(w) /\ rows[w].by # None /\ Body(rows[w].by).op = "create" =>
        LET mine == Body(rows[w].by).blocked
            words == Listed(w, "blocked")
        IN  \E defaults \in seeds[rows[w].by] :
                /\ OneSpelling(mine \cup defaults, words)
                /\ \A t \in words : Fold[t] \in Folded(mine) => t \in mine

\* A request that was refused left nothing, though it may fail after its
\* scalars and some children were written (watch_handler.go:72-73 "em uma unica
\* transacao").
RefusedLeavesNothing ==
    \A r \in Requests : req[r].answer \in {"bad", "missing"} =>
        /\ \A row \in Rows : Exists(row) => rows[row].by # r
        /\ \A c \in children : c.by # r

\* Only SetActive pauses or resumes an alert: an edit that runs at the same time,
\* and writes the row after it, takes nothing back (watches.sql.go:326-383 leaves
\* active alone; watch_handler.go:465-498).
PauseSurvivesEdits ==
    [][\A w \in Watches :
          Exists(w) /\ Exists(w)' /\ rows'[w].active # rows[w].active =>
              \E r \in Requests : /\ req[r].pc = "SetWatchActive"
                                  /\ req'[r].pc = "answered"
                                  /\ Body(r).active = rows'[w].active]_vars

\* No request waits for ever, whatever fails: the transaction that holds a row
\* is under way and waits for no other row, and one that ends in any way lets
\* go of it (watch_handler.go:305 and scan_settings_handler.go:107, the deferred
\* Rollback; one row of two is locked at most).
LocksAreLetGo ==
    \A row \in Rows : lock[row] # None =>
        req[lock[row]].pc \in {"DeleteKeywords", "DeleteBlockedWords", "DeleteMarketplaces",
                              "WriteChildren", "Commit"}

-----------------------------------------------------------------------------
\* The bodies that neither the handler nor the database refuses.
Acceptable ==
    {b \in Bodies : /\ WellFormed(b)
                    /\ b.op \in {"create", "update", "settings"} =>
                          b.scalars \notin Impossible /\ b.marketplaces \cap Unknown = {}}

\* A row with all that is committed below it.
Whole(row) ==
    IF Exists(row)
    THEN [owner |-> rows[row].owner, scalars |-> rows[row].scalars, active |-> rows[row].active,
          keywords |-> Listed(row, "keyword"), blocked |-> Listed(row, "blocked"),
          marketplaces |-> Listed(row, "marketplace")]
    ELSE rows[row]

Store == INSTANCE AlertStore
         WITH Bodies <- Acceptable,
              alerts <- [row \in Rows |-> Whole(row)],
              lists  <- {DefaultWords} \cup UNION {seeds[r] : r \in Requests}

ASSUME StoreAssumption == {None, Deleted} \cap Store!AlertRecords = {}

\* However the statements of creations, edits, pauses, deletions and saved settings
\* interleave, and wherever they fail, what is committed changes as if each
\* request had come alone and done all it says in one step: only by the owner
\* or an admin, never back from a deletion, an edit keeping whose the alert is
\* and whether it is active, a new alert seeded with a list there was
\* (watch_handler.go:72-73 "em uma unica transacao", 264-367, 465-498, 552-572;
\* authz.go:20-35; scan_settings_handler.go:76-168).
AlertsImplemented == Store!Spec

=============================================================================
