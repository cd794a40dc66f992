----------------------------- MODULE AlertStore -----------------------------
(***************************************************************************)
(* What WatchHandler and ScanSettingsHandler promise of the alerts and the *)
(* scan settings, which Alerts implements with a row, the rows below it    *)
(* and a transaction of many statements: every request happens at once or  *)
(* not at all, and saves all it says. What a reader sees who reads the     *)
(* parts of an alert one by one is not promised.                           *)
(***************************************************************************)
CONSTANTS
    Bodies,    \* the requests that no check refuses
    Watches, Settings, Users, Scalars, Terms, Marketplaces, Fold, Deleted, None

VARIABLES
    alerts,    \* the alerts, and the settings, each with all that is below it
    lists      \* the default words there have been

Rows == Watches \cup {Settings}

AlertRecords ==
    [owner : Users \cup {None}, scalars : Scalars, active : BOOLEAN, keywords : SUBSET Terms,
     blocked : SUBSET Terms, marketplaces : SUBSET Marketplaces]

Exists(row) == alerts[row] \notin {None, Deleted}

Asked(op) == {b \in Bodies : b.op = op}

Folded(words) == {Fold[t] : t \in words}

\* Of each word a list has in several spellings, one.
OneSpelling(words, unique) ==
    /\ unique \subseteq words
    /\ Folded(unique) = Folded(words)
    /\ \A s, t \in unique : Fold[s] = Fold[t] => s = t

\* The user's words and the default ones in one spelling each, and that the
\* user's if he has the word.
Seeded(mine, defaults, words) ==
    /\ OneSpelling(mine \cup defaults, words)
    /\ \A t \in words : Fold[t] \in Folded(mine) => t \in mine

\* The owner, or an admin.
May(b, watch) == alerts[watch].owner = b.by \/ b.admin

\* All that a request says of an alert, and what it does not.
Alert(b, owner, active, keywords, blocked) ==
    [owner |-> owner, scalars |-> b.scalars, active |-> active, keywords |-> keywords,
     blocked |-> blocked, marketplaces |-> b.marketplaces]

Init ==
    /\ alerts \in [Rows -> AlertRecords \cup {None}]
    /\ alerts[Settings] # None
    /\ lists = {alerts[Settings].blocked}

\* A new alert is its user's, active, and seeded with one list of default words.
Create(b) ==
    /\ \E watch \in Watches, defaults \in lists, words \in SUBSET Terms :
          /\ alerts[watch] = None
          /\ Seeded(b.blocked, defaults, words)
          /\ alerts' = [alerts EXCEPT ![watch] = Alert(b, b.by, TRUE, b.keywords, words)]
    /\ UNCHANGED lists

\* All of it is replaced, but for whose it is and whether it is active.
Update(b) ==
    /\ Exists(b.watch)
    /\ May(b, b.watch)
    /\ alerts' = [alerts EXCEPT ![b.watch] =
                     Alert(b, @.owner, @.active, b.keywords, b.blocked)]
    /\ UNCHANGED lists

SetActive(b) ==
    /\ Exists(b.watch)
    /\ May(b, b.watch)
    /\ alerts' = [alerts EXCEPT ![b.watch].active = b.active]
    /\ UNCHANGED lists

Delete(b) ==
    /\ Exists(b.watch)
    /\ May(b, b.watch)
    /\ alerts' = [alerts EXCEPT ![b.watch] = Deleted]
    /\ UNCHANGED lists

\* The settings have no keywords.
SaveSettings(b) ==
    /\ b.admin
    /\ \E words \in SUBSET Terms :
          /\ OneSpelling(b.blocked, words)
          /\ alerts' = [alerts EXCEPT ![Settings] = Alert(b, @.owner, @.active, {}, words)]
          /\ lists' = lists \cup {words}

Next ==
    \/ \E b \in Asked("create")    : Create(b)
    \/ \E b \in Asked("update")    : Update(b)
    \/ \E b \in Asked("setActive") : SetActive(b)
    \/ \E b \in Asked("delete")    : Delete(b)
    \/ \E b \in Asked("settings")  : SaveSettings(b)

Spec == Init /\ [][Next]_<<alerts, lists>>
=============================================================================
