---------------------------- MODULE Alerts_proofs ----------------------------
(***************************************************************************)
(* Proofs about Alerts, for any requests, bodies and alerts. A step is the *)
(* step of one request, and either changes only what that request and its  *)
(* lock are, or what is committed (Commit, SetWatchActive, DeleteWatch);   *)
(* what another request relies on is kept by its lock, or by an alert's id *)
(* being its alone.                                                        *)
(***************************************************************************)
EXTENDS Alerts, TLAPS

-----------------------------------------------------------------------------
(* The inductive invariant.                                                *)

\* The statements of a transaction that holds the row.
Writing == {"DeleteKeywords", "DeleteBlockedWords", "DeleteMarketplaces", "WriteChildren",
            "Commit"}

Replacing(r) == req[r].pc \in Writing /\ Body(r).op \in {"update", "settings"}

Creating(r) ==
    /\ req[r].pc \in {"ListDefaultBlockedWords", "WriteChildren", "Commit"}
    /\ Body(r).op = "create"

\* What is committed below a row.
Family(row) == {c \in children : c.of = row}

\* The kinds of children a replacement has deleted when it is at a statement.
Emptied(pc) == CASE pc = "DeleteKeywords"     -> {}
                 [] pc = "DeleteBlockedWords" -> {"keyword"}
                 [] pc = "DeleteMarketplaces" -> {"keyword", "blocked"}
                 [] OTHER                     -> Kinds

\* The operations that have a statement.
OperationsAt(pc) == CASE pc = "GetWatchByID"   -> {"update", "setActive", "delete"}
                      [] pc = "CreateWatch"    -> {"create"}
                      [] pc = "ListDefaultBlockedWords" -> {"create"}
                      [] pc = "SetWatchActive" -> {"setActive"}
                      [] pc = "DeleteWatch"    -> {"delete"}
                      [] pc \in {"WriteChildren", "Commit"} -> {"create", "update", "settings"}
                      [] OTHER                 -> {"update", "settings"}

\* The words in one spelling each, a word of the user's in one of his.
Seeded(mine, defaults, words) ==
    /\ OneSpelling(mine \cup defaults, words)
    /\ \A t \in words : Fold[t] \in Folded(mine) => t \in mine

Target(b) == IF b.op = "settings" THEN Settings ELSE b.watch

\* A request is at a statement of its operation, and has not deleted anything
\* before it may.
AtItsStatement(r) ==
    /\ req[r].pc = "idle" => req[r] = IdleRequest
    /\ req[r].pc \in Statements =>
          /\ Body(r) \in Bodies
          /\ WellFormed(Body(r))
          /\ Body(r).op \in OperationsAt(req[r].pc)
          /\ Body(r).op # "create" => req[r].of = Target(Body(r))
          /\ Body(r).op = "create" \/ req[r].pc \notin Writing => req[r].removed = {}
    /\ req[r].pc \in {"UpdateWatch", "SetWatchActive", "DeleteWatch"} => rows[req[r].of] # None

\* A replacement holds its row, has that row as it is but for what it edits, and
\* has deleted all the children of a kind there are: nobody added one since.
ReplaceOK(r) ==
    Replacing(r) =>
        /\ lock[req[r].of] = r
        /\ Exists(req[r].of)
        /\ req[r].row = UpdatedRow(r)
        /\ req[r].row # None
        /\ req[r].removed = {c \in Family(req[r].of) : c.kind \in Emptied(req[r].pc)}
        /\ IF Body(r).op = "settings" THEN OneSpelling(Body(r).blocked, req[r].blocked)
           ELSE req[r].blocked = Body(r).blocked

\* A new alert's id is no row yet.
CreateOK(r) ==
    Creating(r) =>
        /\ req[r].of \in Watches
        /\ rows[req[r].of] = None
        /\ req[r].row = [owner |-> Body(r).by, scalars |-> Body(r).scalars, active |-> TRUE,
                         by |-> r]
        /\ req[r].row # None
        /\ req[r].pc # "ListDefaultBlockedWords" =>
              \E defaults \in seeds[r] : Seeded(Body(r).blocked, defaults, req[r].blocked)

Additions(r) ==
    ChildrenOf(r, "blocked", req[r].blocked)
        \cup ChildrenOf(r, "marketplace", Body(r).marketplaces)
        \cup IF Body(r).op = "settings" THEN {} ELSE ChildrenOf(r, "keyword", Body(r).keywords)

AddedOK(r) ==
    req[r].pc = "Commit" =>
        /\ req[r].added = Additions(r)
        /\ Body(r).marketplaces \cap Unknown = {}

SeedsOK(r) == req[r].pc \in Statements => DefaultWords \in seeds[r]

RequestOK(r) == AtItsStatement(r) /\ ReplaceOK(r) /\ CreateOK(r) /\ AddedOK(r) /\ SeedsOK(r)

\* An id is generated once.
IdsApart ==
    \A r, s \in Requests : Creating(r) /\ Creating(s) /\ req[r].of = req[s].of => r = s

LocksHeld ==
    \A row \in Rows : lock[row] # None => Replacing(lock[row]) /\ req[lock[row]].of = row

ChildrenOK ==
    \A c \in children : /\ Exists(c.of)
                        /\ c.by = rows[c.of].by
                        /\ c.of = Settings => c.kind # "keyword"
                        /\ c.kind = "blocked" => c.term \in Terms

\* The settings are always there, with their words in one spelling each.
SettingsOK ==
    /\ Exists(Settings)
    /\ \A s, t \in DefaultWords : Fold[s] = Fold[t] => s = t

\* What is below a row is what the request that saved it asked for.
SavedBy(row, r) ==
    /\ req[r].pc = "answered"
    /\ req[r].answer \notin {"bad", "missing"}
    /\ Listed(row, "keyword") = IF row = Settings THEN {} ELSE Body(r).keywords
    /\ Listed(row, "marketplace") = Body(r).marketplaces
    /\ row = Settings => OneSpelling(Body(r).blocked, Listed(row, "blocked"))
    /\ row # Settings /\ Body(r).op = "update" => Listed(row, "blocked") = Body(r).blocked
    /\ row # Settings /\ Body(r).op = "create" =>
          \E defaults \in seeds[r] : Seeded(Body(r).blocked, defaults, Listed(row, "blocked"))

RowsOK == \A row \in Rows : Exists(row) /\ rows[row].by # None => SavedBy(row, rows[row].by)

IInv ==
    /\ TypeOK
    /\ \A r \in Requests : RequestOK(r)
    /\ IdsApart
    /\ LocksHeld
    /\ ChildrenOK
    /\ SettingsOK
    /\ RowsOK

-----------------------------------------------------------------------------
(* Operators.                                                              *)

\* The words of a new alert are in one spelling each: the user's, and the
\* defaults' when he has none (mergeWithDefaultBlockedWords).
LEMMA MergedIsSeeded ==
    ASSUME NEW mine \in SUBSET Terms, NEW defaults \in SUBSET Terms, NEW merged \in SUBSET Terms,
           \A s, t \in defaults : Fold[s] = Fold[t] => s = t,
           Merged(mine, defaults, merged)
    PROVE  Seeded(mine, defaults, merged)
<1>1. PICK unique \in SUBSET mine :
         /\ OneSpelling(mine, unique)
         /\ merged = unique \cup {d \in defaults : Fold[d] \notin Folded(unique)}
  BY DEF Merged
<1>2. Folded(unique) = Folded(mine)
  BY <1>1 DEF OneSpelling
<1>3. merged \subseteq mine \cup defaults
  BY <1>1
<1>4. Folded(merged) \subseteq Folded(mine \cup defaults)
  BY <1>3 DEF Folded
<1>5. ASSUME NEW t \in mine \cup defaults
      PROVE  Fold[t] \in Folded(merged)
  <2>1. Folded(unique) \subseteq Folded(merged)
    BY <1>1 DEF Folded
  <2>2. CASE Fold[t] \in Folded(unique)
    BY <2>1, <2>2
  <2>3. CASE Fold[t] \notin Folded(unique)
    <3>1. t \in defaults
      BY <1>2, <2>3 DEF Folded
    <3> QED BY <3>1, <2>3, <1>1 DEF Folded
  <2> QED BY <2>2, <2>3
<1>6. Folded(merged) = Folded(mine \cup defaults)
  BY <1>4, <1>5 DEF Folded
<1>7. ASSUME NEW s \in merged, NEW t \in merged, Fold[s] = Fold[t]
      PROVE  s = t
  <2>1. CASE s \in unique /\ t \in unique
    BY <2>1, <1>1, <1>7 DEF OneSpelling
  <2>2. CASE s \notin unique /\ t \notin unique
    BY <2>2, <1>1, <1>7
  <2>3. CASE s \in unique /\ t \notin unique
    BY <2>3, <1>1, <1>7 DEF Folded
  <2>4. CASE s \notin unique /\ t \in unique
    BY <2>4, <1>1, <1>7 DEF Folded
  <2> QED BY <2>1, <2>2, <2>3, <2>4
<1>8. \A t \in merged : Fold[t] \in Folded(mine) => t \in mine
  BY <1>1, <1>2
<1> QED BY <1>3, <1>6, <1>7, <1>8 DEF Seeded, OneSpelling

\* The children a request adds are of its row, of one kind, its own, and have the
\* terms it says.
LEMMA ChildrenAdded ==
    ASSUME NEW r, NEW kind, NEW terms
    PROVE  /\ \A c \in ChildrenOf(r, kind, terms) : /\ c.of = req[r].of
                                                    /\ c.kind = kind
                                                    /\ c.by = r
                                                    /\ c.term \in terms
           /\ terms = {c.term : c \in ChildrenOf(r, kind, terms)}
<1>1. \A c \in ChildrenOf(r, kind, terms) :
         c.of = req[r].of /\ c.kind = kind /\ c.by = r /\ c.term \in terms
  BY DEF ChildrenOf
<1>2. ASSUME NEW t \in terms
      PROVE  \E c \in ChildrenOf(r, kind, terms) : c.term = t
  <2>1. [of |-> req[r].of, kind |-> kind, term |-> t, by |-> r] \in ChildrenOf(r, kind, terms)
    BY DEF ChildrenOf
  <2> QED BY <2>1
<1> QED BY <1>1, <1>2

-----------------------------------------------------------------------------
(* A step of one request, and the others.                                  *)

\* What a step of r leaves to the others: their states, the rows they hold and
\* what is below those, the ids they were given.
OthersKept(r) ==
    /\ \A s \in Requests : s # r =>
          /\ req'[s] = req[s]
          /\ seeds[s] \subseteq seeds'[s]
          /\ req[s].pc \in Statements => DefaultWords' \in seeds'[s]
    /\ \A row \in Rows : lock[row] \notin {None, r} => /\ lock'[row] = lock[row]
                                                       /\ rows'[row] = rows[row]
                                                       /\ Family(row)' = Family(row)
    /\ \A row \in Rows : rows[row] # None => rows'[row] # None
    /\ \A row \in Rows : rows[row] = None /\ rows'[row] # None =>
          Creating(r) /\ req[r].of = row

\* The request keeps its own bargain: what it holds it is replacing, and an
\* id it has is the one it had or one nobody had.
OwnPart(r) ==
    /\ RequestOK(r)'
    /\ \A row \in Rows : lock[row] \in {None, r} /\ lock'[row] # None =>
          lock'[row] = r /\ Replacing(r)' /\ req'[r].of = row
    /\ Creating(r)' => \/ Creating(r) /\ req'[r].of = req[r].of
                       \/ req'[r].of \in Free

\* What another request relies on is still so.
LEMMA OthersStay ==
    ASSUME IInv, NEW r \in Requests, OthersKept(r), NEW s \in Requests, s # r
    PROVE  RequestOK(s)'
<1> DEFINE q == req[s]
<1>1. /\ req'[s] = req[s]
      /\ seeds[s] \subseteq seeds'[s]
      /\ RequestOK(s)
  BY DEF OthersKept, IInv
<1>2. /\ Body(s)' = Body(s)
      /\ Replacing(s)' = Replacing(s)
      /\ Creating(s)' = Creating(s)
  BY <1>1 DEF Body, Replacing, Creating
<1>3. req[s].pc \in Statements => req[s].of \in Rows \/ req[s].pc = "CreateWatch"
  <2>1. ASSUME req[s].pc \in Statements, req[s].pc # "CreateWatch", Body(s).op = "create"
        PROVE  req[s].of \in Rows
    BY <2>1, <1>1 DEF RequestOK, AtItsStatement, OperationsAt, CreateOK, Creating, Statements, Rows
  <2>2. ASSUME req[s].pc \in Statements, Body(s).op # "create"
        PROVE  req[s].of \in Rows
    <3>1. /\ Body(s) \in Bodies
          /\ Body(s).op \in OperationsAt(req[s].pc)
          /\ req[s].of = Target(Body(s))
      BY <2>2, <1>1 DEF RequestOK, AtItsStatement
    <3>2. Body(s).op \in {"update", "setActive", "delete", "settings"}
      BY <3>1, <2>2, ConstantsAssumption DEF BodyRecords, Operations
    <3> QED BY <3>1, <3>2, ConstantsAssumption DEF Target, Rows
  <2> QED BY <2>1, <2>2
<1>4. AtItsStatement(s)'
  <2>1. ASSUME req[s].pc \in {"UpdateWatch", "SetWatchActive", "DeleteWatch"}
        PROVE  rows'[req[s].of] # None
    <3>1. rows[req[s].of] # None /\ req[s].of \in Rows
      BY <2>1, <1>1, <1>3 DEF RequestOK, AtItsStatement, Statements
    <3> QED BY <3>1 DEF OthersKept
  <2> QED BY <2>1, <1>1, <1>2 DEF RequestOK, AtItsStatement
<1>5. ReplaceOK(s)'
  <2>1. ASSUME Replacing(s)
        PROVE  ReplaceOK(s)'
    <3> DEFINE row == req[s].of
    <3>1. row \in Rows /\ lock[row] = s /\ s \notin {None, r}
      BY <2>1, <1>1, <1>3, ConstantsAssumption
      DEF RequestOK, ReplaceOK, Replacing, Writing, Statements
    <3>2. lock'[row] = s /\ rows'[row] = rows[row] /\ Family(row)' = Family(row)
      <4>1. ASSUME NEW x \in Rows, x = row
            PROVE  lock'[x] = s /\ rows'[x] = rows[x] /\ Family(x)' = Family(x)
        BY <3>1, <4>1 DEF OthersKept
      <4>2. \A x \in Rows : x = row => Family(x)' = Family(x)
        BY <4>1
      <4>3. req'[s].of = row
        BY <1>1
      <4> QED BY <3>1, <4>1, <4>3 DEF Family
    <3>3. req'[s] = req[s] /\ UpdatedRow(s)' = UpdatedRow(s) /\ Exists(row)' = Exists(row)
      BY <1>1, <3>2 DEF UpdatedRow, Body, Exists
    <3>4. Family(req[s].of)' = Family(req[s].of)
      BY <3>2
    <3> QED BY <1>1, <1>2, <3>2, <3>3, <3>4, <2>1 DEF RequestOK, ReplaceOK
  <2> QED BY <2>1, <1>2 DEF ReplaceOK
<1>6. CreateOK(s)'
  <2>1. ASSUME Creating(s)
        PROVE  rows'[req[s].of] = None
    <3>1. req[s].of \in Rows /\ rows[req[s].of] = None
      BY <2>1, <1>1 DEF RequestOK, CreateOK, Rows
    <3>2. ~ (Creating(r) /\ req[r].of = req[s].of)
      BY <2>1 DEF IInv, IdsApart
    <3> QED BY <3>1, <3>2 DEF OthersKept
  <2> QED BY <2>1, <1>1, <1>2 DEF RequestOK, CreateOK
<1>7. AddedOK(s)'
  BY <1>1, <1>2 DEF RequestOK, AddedOK, Additions, ChildrenOf
<1>8. SeedsOK(s)'
  BY <1>1 DEF OthersKept, SeedsOK
<1> QED BY <1>4, <1>5, <1>6, <1>7, <1>8 DEF RequestOK

\* The invariant is kept by a step that does its own part, leaves the others
\* alone and keeps what is committed as it must be.
LEMMA StepKeeps ==
    ASSUME IInv, NEW r \in Requests, OthersKept(r), OwnPart(r),
           TypeOK', ChildrenOK', SettingsOK', RowsOK'
    PROVE  IInv'
<1>1. \A s \in Requests : RequestOK(s)'
  BY OthersStay DEF OwnPart
<1>2. \A s \in Requests : s # r => /\ req'[s] = req[s]
                                   /\ Creating(s)' = Creating(s)
                                   /\ Replacing(s)' = Replacing(s)
  BY DEF OthersKept, Creating, Replacing, Body
<1>3. IdsApart'
  <2>1. ASSUME NEW s \in Requests, s # r, Creating(s), Creating(r)', req'[r].of = req[s].of
        PROVE  FALSE
    <3>1. CASE Creating(r) /\ req'[r].of = req[r].of
      BY <2>1, <3>1 DEF IInv, IdsApart
    <3>2. CASE req'[r].of \in Free
      <4>1. req[s].row # None
        BY <2>1 DEF IInv, RequestOK, CreateOK
      <4> QED BY <2>1, <3>2, <4>1 DEF Free
    <3> QED BY <2>1, <3>1, <3>2 DEF OwnPart
  <2>2. ASSUME NEW s \in Requests, NEW t \in Requests, Creating(s)', Creating(t)',
               req'[s].of = req'[t].of
        PROVE  s = t
    BY <1>2, <2>1, <2>2 DEF IInv, IdsApart
  <2> QED BY <2>2 DEF IdsApart
<1>4. LocksHeld'
  <2>1. ASSUME NEW row \in Rows, NEW s, s = lock'[row], s # None
        PROVE  Replacing(s)' /\ req'[s].of = row
    <3>1. CASE lock[row] \in {None, r}
      BY <2>1, <3>1 DEF OwnPart
    <3>2. CASE lock[row] \notin {None, r}
      <4>1. lock[row] = s /\ s \in Requests /\ s # r
        BY <2>1, <3>2 DEF OthersKept, IInv, TypeOK, Optional
      <4> QED BY <4>1, <2>1, <1>2 DEF IInv, LocksHeld
    <3> QED BY <3>1, <3>2
  <2>2. \A row \in Rows : \A s :
           s = lock'[row] /\ s # None => Replacing(s)' /\ req'[s].of = row
    BY <2>1
  <2> QED BY <2>2 DEF LocksHeld, Replacing, Body
<1> QED BY <1>1, <1>3, <1>4 DEF IInv

\* What is committed is still what its savers asked for, when nothing committed
\* changes and no request that is over does.
LEMMA CommittedStays ==
    ASSUME IInv, NEW r \in Requests, OthersKept(r), req[r].pc # "answered",
           UNCHANGED <<rows, children>>
    PROVE  ChildrenOK' /\ SettingsOK' /\ RowsOK'
<1>1. ChildrenOK' /\ SettingsOK'
  BY DEF IInv, ChildrenOK, SettingsOK, DefaultWords, Listed, Below, Exists
<1>2. ASSUME NEW row \in Rows, NEW s, s = rows[row].by, Exists(row), s # None
      PROVE  SavedBy(row, s)'
  <2>1. SavedBy(row, s) /\ s \in Requests
    BY <1>2 DEF IInv, RowsOK, TypeOK, Exists, RowRecords, Optional
  <2>2. req'[s] = req[s] /\ seeds[s] \subseteq seeds'[s]
    BY <2>1 DEF SavedBy, OthersKept
  <2> QED BY <2>1, <2>2 DEF SavedBy, Listed, Below, Body
<1>3. \A row \in Rows : \A s :
         s = rows[row].by /\ Exists(row) /\ s # None => SavedBy(row, s)'
  BY <1>2
<1>4. RowsOK'
  BY <1>3 DEF RowsOK, SavedBy, Exists, Listed, Below, Body
<1> QED BY <1>1, <1>4

-----------------------------------------------------------------------------
(* The steps that commit nothing.                                          *)

\* Such a step needs to see to its own part only.
LEMMA UncommittedStep ==
    ASSUME IInv, NEW r \in Requests, req[r].pc # "answered",
           NEW q \in RequestStates, req' = [req EXCEPT ![r] = q],
           UNCHANGED <<rows, children>>,
           NEW S \in SUBSET SUBSET Terms, seeds' = [seeds EXCEPT ![r] = S],
           lock' \in [Rows -> Optional(Requests)],
           \A row \in Rows : lock[row] \notin {None, r} => lock'[row] = lock[row],
           OwnPart(r)
    PROVE  IInv'
<1>1. req \in [Requests -> RequestStates] /\ seeds \in [Requests -> SUBSET SUBSET Terms]
  BY DEF IInv, TypeOK
<1>2. \A s \in Requests : s # r => req'[s] = req[s] /\ seeds'[s] = seeds[s]
  BY <1>1
<1>3. OthersKept(r)
  <2>1. \A row : Family(row)' = Family(row)
    BY DEF Family
  <2>2. DefaultWords' = DefaultWords
    BY DEF DefaultWords, Listed, Below
  <2>3. \A s \in Requests : s # r /\ req[s].pc \in Statements => DefaultWords' \in seeds'[s]
    BY <1>2, <2>2 DEF IInv, RequestOK, SeedsOK
  <2> QED BY <1>2, <2>1, <2>3 DEF OthersKept
<1>4. TypeOK'
  BY <1>1 DEF IInv, TypeOK
<1>5. ChildrenOK' /\ SettingsOK' /\ RowsOK'
  BY <1>3, CommittedStays
<1> QED BY <1>3, <1>4, <1>5, StepKeeps

\* What is left of a request that is over: its body and its answer.
Over(body, answer) == [IdleRequest EXCEPT !.pc = "answered", !.body = body, !.answer = answer]

\* An answered request is of its type.
LEMMA Answered ==
    ASSUME NEW body \in Optional(Bodies), NEW answer \in {"ok", "bad", "missing", "error"},
           NEW q, q = Over(body, answer)
    PROVE  q \in RequestStates /\ q.pc = "answered" /\ q.body = body /\ q.answer = answer
<1> DEFINE q1 == [IdleRequest EXCEPT !.pc = "answered"]
           q2 == [q1 EXCEPT !.body = body]
<1>1. IdleRequest \in RequestStates
  BY DEF IdleRequest, RequestStates, Optional
<1>2. q1 \in RequestStates /\ q1.pc = "answered"
  BY <1>1 DEF RequestStates
<1>3. q2 \in RequestStates /\ q2.pc = "answered" /\ q2.body = body
  <2> HIDE DEF q1
  <2> QED BY <1>2 DEF RequestStates
<1>4. q = [q2 EXCEPT !.answer = answer]
  BY DEF Over
<1> HIDE DEF q2
<1> QED BY <1>3, <1>4 DEF RequestStates

\* A refused request holds nothing any more.
LEMMA RefuseKeeps ==
    ASSUME IInv, NEW r \in Requests, req[r].pc \in Statements,
           NEW answer \in {"ok", "bad", "missing", "error"}, Refuse(r, answer)
    PROVE  IInv'
<1> DEFINE q == Over(Body(r), answer)
<1>1. req[r].pc # "answered" /\ req \in [Requests -> RequestStates]
  BY DEF Statements, IInv, TypeOK
<1>2. Body(r) \in Optional(Bodies)
  BY <1>1 DEF Body, RequestStates
<1>3. q \in RequestStates /\ q.pc = "answered"
  BY <1>2, Answered
<1>4. req' = [req EXCEPT ![r] = q] /\ req'[r] = q
  BY <1>1, Zenon DEF Refuse, Answer, Over
<1>5. seeds' = [seeds EXCEPT ![r] = seeds[r]] /\ seeds[r] \in SUBSET SUBSET Terms
  BY DEF Refuse, IInv, TypeOK
<1>6. /\ lock' \in [Rows -> Optional(Requests)]
      /\ \A row \in Rows : lock[row] \notin {None, r} => lock'[row] = lock[row]
      /\ \A row \in Rows : lock[row] \in {None, r} => lock'[row] = None
  BY DEF Refuse, Unlock, IInv, TypeOK, Optional
<1>7. req'[r].pc = "answered"
  BY <1>3, <1>4
<1> HIDE DEF q
<1>8. OwnPart(r)
  <2>1. ~ Creating(r)' /\ ~ Replacing(r)'
    BY <1>7 DEF Creating, Replacing, Writing
  <2>2. RequestOK(r)'
    BY <1>7, <2>1 DEF RequestOK, AtItsStatement, ReplaceOK, CreateOK, AddedOK, SeedsOK, Statements
  <2> QED BY <2>1, <2>2, <1>6 DEF OwnPart
<1> QED BY <1>1, <1>3, <1>4, <1>5, <1>6, <1>8, UncommittedStep DEF Refuse

\* A step that goes to another statement and neither takes nor gives up a row.
LEMMA GotoKeeps ==
    ASSUME IInv, NEW r \in Requests, req[r].pc # "answered",
           NEW q \in RequestStates, req' = [req EXCEPT ![r] = q],
           UNCHANGED <<rows, children, lock, seeds>>,
           Replacing(r) => Replacing(r)' /\ q.of = req[r].of,
           Creating(r)' => \/ Creating(r) /\ q.of = req[r].of
                           \/ q.of \in Free,
           RequestOK(r)'
    PROVE  IInv'
<1>1. req'[r] = q
  BY DEF IInv, TypeOK
<1>2. OwnPart(r)
  <2>1. ASSUME NEW row \in Rows, lock[row] \in {None, r}, lock'[row] # None
        PROVE  lock'[row] = r /\ Replacing(r)' /\ req'[r].of = row
    <3>1. lock[row] = r /\ lock'[row] = r
      BY <2>1
    <3>2. Replacing(r) /\ req[r].of = row
      BY <3>1, <2>1 DEF IInv, LocksHeld
    <3> QED BY <3>1, <3>2, <1>1
  <2> QED BY <2>1, <1>1 DEF OwnPart
<1>3. seeds' = [seeds EXCEPT ![r] = seeds[r]] /\ seeds[r] \in SUBSET SUBSET Terms
  BY DEF IInv, TypeOK
<1> QED BY <1>2, <1>3, UncommittedStep DEF IInv, TypeOK

\* What is known of a request at a statement.
LEMMA AtStatement ==
    ASSUME IInv, NEW r \in Requests, req[r].pc \in Statements
    PROVE  /\ req[r].pc # "answered"
           /\ req[r] \in RequestStates
           /\ Body(r) \in Bodies
           /\ Body(r) \in BodyRecords
           /\ WellFormed(Body(r))
           /\ Body(r).op \in OperationsAt(req[r].pc)
           /\ Body(r).op # "create" => req[r].of = Target(Body(r)) /\ req[r].of \in Rows
           /\ req[r].of \in Optional(Rows)
           /\ RequestOK(r)
           /\ DefaultWords \in SUBSET Terms
<1>1. /\ req[r] \in RequestStates
      /\ RequestOK(r)
      /\ req[r].pc # "answered"
      /\ DefaultWords \in SUBSET Terms
  BY DEF IInv, TypeOK, Statements, ChildrenOK, DefaultWords, Listed, Below
<1>2. Body(r) \in Bodies /\ Body(r) \in BodyRecords
  BY <1>1, ConstantsAssumption DEF RequestOK, AtItsStatement
<1>3. Body(r).op # "create" => req[r].of = Target(Body(r)) /\ req[r].of \in Rows
  <2>1. Body(r).op # "create" => req[r].of = Target(Body(r))
    BY <1>1 DEF RequestOK, AtItsStatement
  <2>2. Body(r).op # "create" => Target(Body(r)) \in Rows
    BY <1>2, ConstantsAssumption DEF Target, Rows, BodyRecords, Operations
  <2> QED BY <2>1, <2>2
<1> QED BY <1>1, <1>2, <1>3 DEF RequestOK, AtItsStatement, RequestStates

\* A request whose statement alone changes.
LEMMA NextStatement ==
    ASSUME req \in [Requests -> RequestStates], NEW r \in Requests, NEW statement \in Statements,
           Goto(r, statement)
    PROVE  /\ req' = [req EXCEPT ![r] = req'[r]]
           /\ req'[r] \in RequestStates
           /\ req'[r].pc = statement
           /\ req'[r].body = req[r].body
           /\ req'[r].of = req[r].of
           /\ req'[r].row = req[r].row
           /\ req'[r].blocked = req[r].blocked
           /\ req'[r].removed = req[r].removed
           /\ req'[r].added = req[r].added
<1> DEFINE q == [req[r] EXCEPT !.pc = statement]
<1>1. req[r] \in RequestStates
  OBVIOUS
<1>2. q \in RequestStates /\ q.pc = statement
  BY <1>1 DEF RequestStates
<1>3. /\ q.body = req[r].body
      /\ q.of = req[r].of
      /\ q.row = req[r].row
      /\ q.blocked = req[r].blocked
      /\ q.removed = req[r].removed
      /\ q.added = req[r].added
  BY <1>1 DEF RequestStates
<1>4. req' = [req EXCEPT ![r] = q]
  BY DEF Goto
<1>5. req'[r] = q
  BY <1>4
<1> HIDE DEF q
<1> QED BY <1>2, <1>3, <1>4, <1>5

\* getOwnedWatch writes nothing, and the alert it lets through is a row.
LEMMA GetWatchByIDKeeps ==
    ASSUME IInv, NEW r \in Requests, GetWatchByID(r)
    PROVE  IInv'
<1>1. req[r].pc = "GetWatchByID" /\ req[r].pc \in Statements
  BY DEF GetWatchByID, Statements
<1>2. CASE Refuse(r, "missing")
  BY <1>1, <1>2, RefuseKeeps
<1>3. CASE ~ Refuse(r, "missing")
  <2>1. /\ Body(r).op \in {"update", "setActive", "delete"}
        /\ req[r].of = Body(r).watch
        /\ req[r].removed = {}
    BY <1>1, AtStatement DEF OperationsAt, Target, RequestOK, AtItsStatement, Writing
  <2>2. /\ Exists(req[r].of)
        /\ UNCHANGED <<rows, children, lock, seeds>>
    BY <1>3, <2>1, Zenon DEF GetWatchByID
  <2>3. PICK statement \in {"UpdateWatch", "SetWatchActive", "DeleteWatch"} :
           /\ Goto(r, statement)
           /\ Body(r).op \in OperationsAt(statement)
    <3>1. Goto(r, CASE Body(r).op = "update"    -> "UpdateWatch"
                    [] Body(r).op = "setActive" -> "SetWatchActive"
                    [] Body(r).op = "delete"    -> "DeleteWatch")
      BY <1>3, Zenon DEF GetWatchByID
    <3>2. CASE Body(r).op = "update"
      BY <3>1, <3>2 DEF OperationsAt
    <3>3. CASE Body(r).op = "setActive"
      BY <3>1, <3>3 DEF OperationsAt
    <3>4. CASE Body(r).op = "delete"
      BY <3>1, <3>4 DEF OperationsAt
    <3> QED BY <2>1, <3>2, <3>3, <3>4
  <2>4. req \in [Requests -> RequestStates] /\ statement \in Statements
    BY DEF IInv, TypeOK, Statements
  <2>5. /\ req' = [req EXCEPT ![r] = req'[r]]
        /\ req'[r] \in RequestStates
        /\ req'[r].pc = statement
        /\ req'[r].body = req[r].body
        /\ req'[r].of = req[r].of
        /\ req'[r].removed = req[r].removed
    BY <2>3, <2>4, NextStatement
  <2>6. /\ ~ Replacing(r)
        /\ ~ Replacing(r)'
        /\ ~ Creating(r)'
    BY <1>1, <2>5 DEF Replacing, Creating, Writing
  <2>7. RequestOK(r)'
    <3>1. AtItsStatement(r)'
      BY <1>1, <2>1, <2>2, <2>3, <2>5, AtStatement DEF AtItsStatement, Body, Exists, Writing
    <3>2. SeedsOK(r)'
      BY <1>1, <2>2, AtStatement DEF RequestOK, SeedsOK, DefaultWords, Listed, Below
    <3> QED BY <2>5, <2>6, <3>1, <3>2 DEF RequestOK, ReplaceOK, CreateOK, AddedOK
  <2> QED BY <1>1, <2>2, <2>5, <2>6, <2>7, AtStatement, GotoKeeps
<1> QED BY <1>2, <1>3

\* A request arrives when it was idle, and is refused at once or is at the
\* first statement of its operation.
LEMMA ArriveKeeps ==
    ASSUME IInv, NEW r \in Requests, Arrive(r)
    PROVE  IInv'
<1>1. /\ req[r].pc = "idle"
      /\ req[r] = IdleRequest
      /\ req \in [Requests -> RequestStates]
      /\ IdleRequest \in RequestStates
  BY DEF Arrive, IInv, TypeOK, RequestOK, AtItsStatement
<1>2. ~ Replacing(r) /\ ~ Creating(r)
  BY <1>1 DEF Replacing, Creating, Writing
<1>3. PICK b \in Bodies :
         req' = [req EXCEPT ![r] =
                    IF WellFormed(b)
                    THEN [@ EXCEPT !.pc = FirstStatement(b), !.body = b,
                                   !.of = IF b.op = "settings" THEN Settings ELSE b.watch]
                    ELSE [@ EXCEPT !.pc = "answered", !.body = b, !.answer = "bad"]]
  BY Zenon DEF Arrive
<1>4. /\ b \in BodyRecords
      /\ b.op \in Operations
      /\ Target(b) \in Optional(Rows)
  BY ConstantsAssumption DEF BodyRecords, Target, Rows, Optional
<1>5. /\ DefaultWords \in SUBSET Terms
      /\ DefaultWords' = DefaultWords
      /\ seeds' = [seeds EXCEPT ![r] = {DefaultWords}]
      /\ seeds'[r] = {DefaultWords}
      /\ UNCHANGED <<rows, children, lock>>
      /\ {DefaultWords} \in SUBSET SUBSET Terms
      /\ lock' \in [Rows -> Optional(Requests)]
      /\ \A row \in Rows : lock[row] \notin {None, r} => lock'[row] = lock[row]
      /\ req[r].pc # "answered"
  BY <1>1 DEF Arrive, IInv, TypeOK, ChildrenOK, DefaultWords, Listed, Below
<1>6. CASE WellFormed(b)
  <2> DEFINE q1 == [req[r] EXCEPT !.pc = FirstStatement(b)]
             q2 == [q1 EXCEPT !.body = b]
             q  == [q2 EXCEPT !.of = Target(b)]
  <2>1. FirstStatement(b) \in {"CreateWatch", "UpdateWatch", "GetWatchByID"}
    BY DEF FirstStatement
  <2>2. /\ q1 \in RequestStates
        /\ q1.pc = FirstStatement(b)
        /\ q1.removed = {}
    <3> HIDE DEF IdleRequest
    <3>1. IdleRequest.removed = {}
      BY DEF IdleRequest
    <3> QED BY <1>1, <2>1, <3>1 DEF RequestStates, Statements
  <2>3. /\ q2 \in RequestStates
        /\ q2.pc = FirstStatement(b)
        /\ q2.removed = {}
        /\ q2.body = b
    <3> HIDE DEF q1
    <3> QED BY <2>2 DEF RequestStates, Optional
  <2>4. /\ q \in RequestStates
        /\ q.pc = FirstStatement(b)
        /\ q.removed = {}
        /\ q.body = b
        /\ q.of = Target(b)
    <3> HIDE DEF q2
    <3> QED BY <2>3, <1>4 DEF RequestStates
  <2>5. req' = [req EXCEPT ![r] = q]
    BY <1>3, <1>6, Zenon DEF Target
  <2> HIDE DEF q
  <2>6. req'[r] = q
    BY <2>5, <1>1
  <2>7. /\ q.pc \in Statements
        /\ b.op \in OperationsAt(q.pc)
        /\ q.pc \notin Writing
        /\ q.pc = "UpdateWatch" => b.op = "settings"
        /\ q.pc # "idle"
    <3>1. b.op = "create" => FirstStatement(b) = "CreateWatch"
      BY DEF FirstStatement
    <3>2. b.op = "settings" => FirstStatement(b) = "UpdateWatch"
      BY DEF FirstStatement
    <3>3. b.op \notin {"create", "settings"} => FirstStatement(b) = "GetWatchByID"
      BY DEF FirstStatement
    <3> QED BY <3>1, <3>2, <3>3, <2>4, <1>4 DEF Statements, Writing, OperationsAt, Operations
  <2>8. AtItsStatement(r)'
    <3>1. q.pc = "UpdateWatch" => rows[q.of] # None
      BY <2>4, <2>7 DEF IInv, SettingsOK, Exists, Target
    <3> QED BY <2>1, <2>4, <2>6, <2>7, <3>1, <1>5, <1>6 DEF AtItsStatement, Body
  <2>9. ~ Replacing(r)' /\ ~ Creating(r)' /\ req'[r].pc # "Commit"
    BY <2>1, <2>4, <2>6 DEF Replacing, Creating, Writing
  <2>10. OwnPart(r)
    <3>1. SeedsOK(r)'
      BY <1>5 DEF SeedsOK
    <3>2. RequestOK(r)'
      BY <2>8, <2>9, <3>1 DEF RequestOK, ReplaceOK, CreateOK, AddedOK
    <3>3. \A row \in Rows : lock'[row] # r
      BY <1>2, <1>5, ConstantsAssumption DEF IInv, LocksHeld
    <3> QED BY <3>2, <3>3, <2>9, <1>5 DEF OwnPart
  <2> QED BY <2>4, <2>5, <2>10, <1>5, UncommittedStep
<1>7. CASE ~ WellFormed(b)
  <2> DEFINE q1 == [req[r] EXCEPT !.pc = "answered"]
             q2 == [q1 EXCEPT !.body = b]
             q  == [q2 EXCEPT !.answer = "bad"]
  <2>1. q1 \in RequestStates /\ q1.pc = "answered"
    BY <1>1 DEF RequestStates
  <2>2. q2 \in RequestStates /\ q2.pc = "answered"
    <3> HIDE DEF q1
    <3> QED BY <2>1 DEF RequestStates, Optional
  <2>3. q \in RequestStates /\ q.pc = "answered"
    <3> HIDE DEF q2
    <3> QED BY <2>2 DEF RequestStates
  <2>4. req' = [req EXCEPT ![r] = q]
    BY <1>3, <1>7, Zenon
  <2> HIDE DEF q
  <2>5. req'[r].pc = "answered"
    BY <2>3, <2>4, <1>1
  <2>6. OwnPart(r)
    <3>1. ~ Replacing(r)' /\ ~ Creating(r)'
      BY <2>5 DEF Replacing, Creating, Writing
    <3>2. RequestOK(r)'
      BY <2>5, <3>1 DEF RequestOK, AtItsStatement, ReplaceOK, CreateOK, AddedOK, SeedsOK, Statements
    <3>3. \A row \in Rows : lock'[row] # r
      BY <1>2, <1>5, ConstantsAssumption DEF IInv, LocksHeld
    <3> QED BY <3>1, <3>2, <3>3, <1>5 DEF OwnPart
  <2> QED BY <2>3, <2>4, <2>6, <1>5, UncommittedStep
<1> QED BY <1>6, <1>7

\* CreateWatch takes an id nobody has, and the row it will commit is one.
LEMMA CreateWatchKeeps ==
    ASSUME IInv, NEW r \in Requests, CreateWatch(r)
    PROVE  IInv'
<1>1. /\ req[r].pc = "CreateWatch"
      /\ req[r].pc \in Statements
      /\ req \in [Requests -> RequestStates]
  BY DEF CreateWatch, Statements, IInv, TypeOK
<1>2. CASE Refuse(r, "bad")
  BY <1>1, <1>2, RefuseKeeps
<1>3. CASE ~ Refuse(r, "bad")
  <2> DEFINE row == [owner |-> Body(r).by, scalars |-> Body(r).scalars, active |-> TRUE,
                     by |-> r]
  <2>1. /\ Body(r).scalars \notin Impossible
        /\ UNCHANGED <<rows, children, lock, seeds>>
    BY <1>3, Zenon DEF CreateWatch
  <2>2. PICK w \in Free :
           req' = [req EXCEPT ![r].pc = "ListDefaultBlockedWords", ![r].of = w, ![r].row = row]
    BY <1>3, Zenon DEF CreateWatch
  <2>3. w \in Watches /\ rows[w] = None /\ w \in Optional(Rows)
    BY <2>2 DEF Free, Optional, Rows
  <2>4. /\ Body(r) \in BodyRecords
        /\ Body(r) \in Bodies
        /\ WellFormed(Body(r))
        /\ Body(r).op = "create"
        /\ DefaultWords \in seeds[r]
        /\ req[r].removed = {}
    BY <1>1, AtStatement DEF OperationsAt, RequestOK, SeedsOK, AtItsStatement
  <2>5. row \in RowRecords /\ row # None
    <3>1. Body(r).scalars \notin Malformed /\ Body(r).scalars \in Scalars /\ Body(r).by \in Users
      BY <2>4 DEF WellFormed, BodyRecords
    <3>2. row \in RowRecords
      BY <2>1, <3>1 DEF RowRecords, Optional
    <3> QED BY <3>2, RowAssumption
  <2> HIDE DEF row
  <2> DEFINE q1 == [req[r] EXCEPT !.pc = "ListDefaultBlockedWords"]
             q2 == [q1 EXCEPT !.of = w]
             q  == [q2 EXCEPT !.row = row]
  <2>6. /\ q1 \in RequestStates
        /\ q1.pc = "ListDefaultBlockedWords"
        /\ q1.body = req[r].body
        /\ q1.removed = {}
    BY <1>1, <2>4 DEF RequestStates, Statements
  <2>7. /\ q2 \in RequestStates
        /\ q2.pc = "ListDefaultBlockedWords"
        /\ q2.body = req[r].body
        /\ q2.removed = {}
        /\ q2.of = w
    <3> HIDE DEF q1
    <3> QED BY <2>3, <2>6 DEF RequestStates
  <2>8. /\ q \in RequestStates
        /\ q.pc = "ListDefaultBlockedWords"
        /\ q.body = req[r].body
        /\ q.removed = {}
        /\ q.of = w
        /\ q.row = row
    <3> HIDE DEF q2
    <3> QED BY <2>5, <2>7 DEF RequestStates, Optional
  <2>9. req' = [req EXCEPT ![r] = q]
    BY <2>2, <1>1
  <2> HIDE DEF q
  <2>10. req'[r] = q
    BY <2>9, <1>1
  <2>11. /\ ~ Replacing(r)
         /\ ~ Replacing(r)'
         /\ req'[r].of \in Free
         /\ Body(r)' = Body(r)
    BY <1>1, <2>2, <2>8, <2>10 DEF Replacing, Writing, Body
  <2>12. RequestOK(r)'
    <3>1. AtItsStatement(r)'
      BY <2>4, <2>8, <2>10, <2>11
      DEF AtItsStatement, Statements, OperationsAt
    <3>2. CreateOK(r)'
      BY <2>1, <2>3, <2>5, <2>8, <2>10, <2>11 DEF CreateOK, row
    <3>3. SeedsOK(r)'
      BY <2>1, <2>4 DEF SeedsOK, DefaultWords, Listed, Below
    <3> QED BY <2>8, <2>10, <2>11, <3>1, <3>2, <3>3 DEF RequestOK, ReplaceOK, AddedOK
  <2> HIDE DEF row
  <2> QED BY <1>1, <2>1, <2>8, <2>9, <2>10, <2>11, <2>12, AtStatement, GotoKeeps
<1> QED BY <1>2, <1>3

\* The default words a new alert gets are those current now.
LEMMA ListDefaultBlockedWordsKeeps ==
    ASSUME IInv, NEW r \in Requests, ListDefaultBlockedWords(r)
    PROVE  IInv'
<1>1. /\ req[r].pc = "ListDefaultBlockedWords"
      /\ req[r].pc \in Statements
      /\ req \in [Requests -> RequestStates]
      /\ UNCHANGED <<rows, children, lock, seeds>>
  BY DEF ListDefaultBlockedWords, Statements, IInv, TypeOK
<1>2. PICK merged \in SUBSET Terms :
         /\ Merged(Body(r).blocked, DefaultWords, merged)
         /\ req' = [req EXCEPT ![r].pc = "WriteChildren", ![r].blocked = merged]
  BY DEF ListDefaultBlockedWords
<1>3. /\ Body(r) \in BodyRecords
      /\ Body(r).op = "create"
      /\ DefaultWords \in seeds[r]
      /\ DefaultWords \in SUBSET Terms
      /\ RequestOK(r)
  BY <1>1, AtStatement DEF OperationsAt, RequestOK, SeedsOK
<1>4. Seeded(Body(r).blocked, DefaultWords, merged)
  BY <1>2, <1>3, MergedIsSeeded DEF IInv, SettingsOK, BodyRecords
<1> DEFINE q1 == [req[r] EXCEPT !.pc = "WriteChildren"]
           q  == [q1 EXCEPT !.blocked = merged]
<1>5. /\ q1 \in RequestStates
      /\ q1.pc = "WriteChildren"
      /\ q1.body = req[r].body
      /\ q1.of = req[r].of
      /\ q1.row = req[r].row
      /\ q1.removed = req[r].removed
  BY <1>1 DEF RequestStates, Statements
<1>6. /\ q \in RequestStates
      /\ q.pc = "WriteChildren"
      /\ q.body = req[r].body
      /\ q.of = req[r].of
      /\ q.row = req[r].row
      /\ q.removed = req[r].removed
      /\ q.blocked = merged
  <2> HIDE DEF q1
  <2> QED BY <1>5 DEF RequestStates
<1>7. req' = [req EXCEPT ![r] = q]
  BY <1>1, <1>2
<1> HIDE DEF q
<1>8. req'[r] = q
  BY <1>1, <1>7
<1>9. /\ ~ Replacing(r)
      /\ ~ Replacing(r)'
      /\ Creating(r)
      /\ Body(r)' = Body(r)
  BY <1>1, <1>3, <1>6, <1>8 DEF Replacing, Creating, Writing, Body
<1>10. RequestOK(r)'
  <2>1. AtItsStatement(r)'
    BY <1>1, <1>3, <1>6, <1>8, <1>9
    DEF RequestOK, AtItsStatement, Statements, OperationsAt
  <2>2. CreateOK(r)'
    BY <1>1, <1>3, <1>4, <1>6, <1>8, <1>9 DEF RequestOK, CreateOK
  <2>3. SeedsOK(r)'
    BY <1>1, <1>3 DEF SeedsOK, DefaultWords, Listed, Below
  <2> QED BY <1>6, <1>8, <1>9, <2>1, <2>2, <2>3 DEF RequestOK, ReplaceOK, AddedOK
<1> QED BY <1>1, <1>6, <1>7, <1>9, <1>10, AtStatement, GotoKeeps

\* A replacement is as it must be when it holds the row, nothing having been committed.
LEMMA ReplacementIs ==
    ASSUME NEW r \in Requests, NEW q, req'[r] = q, UNCHANGED <<rows, children>>,
           lock'[q.of] = r,
           Exists(q.of),
           q.row = [rows[q.of] EXCEPT !.scalars = q.body.scalars, !.by = r],
           q.row # None,
           q.removed = {c \in Family(q.of) : c.kind \in Emptied(q.pc)},
           IF q.body.op = "settings" THEN OneSpelling(q.body.blocked, q.blocked)
           ELSE q.blocked = q.body.blocked
    PROVE  ReplaceOK(r)'
<1>1. ReplaceOK(r)' <=>
         (Replacing(r)' =>
            /\ lock'[q.of] = r
            /\ rows'[q.of] \notin {None, Deleted}
            /\ q.row = [rows'[q.of] EXCEPT !.scalars = q.body.scalars, !.by = r]
            /\ q.row # None
            /\ q.removed = {c \in {d \in children' : d.of = q.of} : c.kind \in Emptied(q.pc)}
            /\ IF q.body.op = "settings" THEN OneSpelling(q.body.blocked, q.blocked)
               ELSE q.blocked = q.body.blocked)
  BY DEF ReplaceOK, Exists, UpdatedRow, Family, Body
<1> QED BY <1>1 DEF Family, Exists

\* UpdateWatch takes the row when nobody holds it, and will commit it as it is
\* now but for the columns of the body.
LEMMA UpdateWatchKeeps ==
    ASSUME IInv, NEW r \in Requests, UpdateWatch(r)
    PROVE  IInv'
<1>1. /\ req[r].pc = "UpdateWatch"
      /\ req[r].pc \in Statements
      /\ req \in [Requests -> RequestStates]
      /\ lock \in [Rows -> Optional(Requests)]
      /\ seeds \in [Requests -> SUBSET SUBSET Terms]
      /\ lock[req[r].of] = None
  BY DEF UpdateWatch, Statements, IInv, TypeOK
<1>2. CASE Refuse(r, "bad")
  BY <1>1, <1>2, RefuseKeeps
<1>3. CASE ~ Refuse(r, "bad")
  <2> DEFINE b == Body(r)
             of == req[r].of
             row == UpdatedRow(r)
             statement == IF b.op = "settings" THEN "DeleteBlockedWords" ELSE "DeleteKeywords"
  <2>1. /\ Exists(of)
        /\ b.scalars \notin Impossible
        /\ StartReplacing(r)
        /\ lock' = [lock EXCEPT ![of] = r]
        /\ UNCHANGED <<rows, children, seeds>>
    BY <1>3, Zenon DEF UpdateWatch
  <2>2. PICK words \in SUBSET b.blocked :
           /\ IF b.op = "settings" THEN OneSpelling(b.blocked, words) ELSE words = b.blocked
           /\ req' = [req EXCEPT ![r].row = row, ![r].blocked = words, ![r].pc = statement]
    BY <2>1, Zenon DEF StartReplacing
  <2>3. /\ b \in BodyRecords
        /\ b \in Bodies
        /\ WellFormed(b)
        /\ b.op \in {"update", "settings"}
        /\ of = Target(b)
        /\ of \in Rows
        /\ DefaultWords \in seeds[r]
        /\ req[r].removed = {}
    BY <1>1, AtStatement DEF OperationsAt, RequestOK, SeedsOK, AtItsStatement, Writing
  <2>4. row \in RowRecords
    <3>1. b.scalars \notin Malformed /\ b.scalars \in Scalars
      BY <2>3 DEF WellFormed, BodyRecords
    <3>2. rows[of] \in RowRecords
      BY <2>1, <2>3 DEF IInv, TypeOK, Exists
    <3> DEFINE row1 == [rows[of] EXCEPT !.scalars = b.scalars]
    <3>3. row1 \in RowRecords
      BY <2>1, <3>1, <3>2 DEF RowRecords
    <3>4. row = [row1 EXCEPT !.by = r]
      BY DEF UpdatedRow
    <3> HIDE DEF row1, row
    <3> QED BY <3>3, <3>4 DEF RowRecords, Optional
  <2>5. words \in SUBSET Terms /\ statement \in Statements
    BY <2>3 DEF BodyRecords, Statements
  <2>6. statement = IF b.op = "settings" THEN "DeleteBlockedWords" ELSE "DeleteKeywords"
    OBVIOUS
  <2> HIDE DEF row, statement
  <2> DEFINE q1 == [req[r] EXCEPT !.row = row]
             q2 == [q1 EXCEPT !.blocked = words]
             q  == [q2 EXCEPT !.pc = statement]
  <2>7. /\ q1 \in RequestStates
        /\ q1.body = b
        /\ q1.of = of
        /\ q1.row = row
        /\ q1.removed = {}
    BY <1>1, <2>3, <2>4 DEF RequestStates, Body, Optional
  <2>8. /\ q2 \in RequestStates
        /\ q2.body = b
        /\ q2.of = of
        /\ q2.row = row
        /\ q2.removed = {}
        /\ q2.blocked = words
    <3> HIDE DEF q1
    <3> QED BY <2>5, <2>7 DEF RequestStates
  <2>9. /\ q \in RequestStates
        /\ q.body = b
        /\ q.of = of
        /\ q.row = row
        /\ q.removed = {}
        /\ q.blocked = words
        /\ q.pc = statement
    <3> HIDE DEF q2
    <3> QED BY <2>5, <2>8 DEF RequestStates
  <2>10. req' = [req EXCEPT ![r] = q]
    BY <2>2, <1>1
  <2> HIDE DEF q
  <2>11. req'[r] = q
    BY <2>10, <1>1
  <2>12. /\ Replacing(r)'
         /\ ~ Creating(r)'
         /\ ~ Replacing(r)
         /\ Body(r)' = b
    BY <1>1, <2>3, <2>6, <2>9, <2>11 DEF Replacing, Creating, Writing, Body
  <2>13. /\ lock' \in [Rows -> Optional(Requests)]
         /\ lock'[of] = r
         /\ \A x \in Rows : x # of => lock'[x] = lock[x]
    BY <1>1, <2>1, <2>3 DEF Optional
  <2>14. ReplaceOK(r)'
    <3>1. {} = {c \in Family(of) : c.kind \in Emptied(statement)}
      <4>1. CASE b.op = "settings"
        <5>1. Emptied(statement) = {"keyword"} /\ of = Settings
          BY <4>1, <2>3, <2>6 DEF Emptied, Target
        <5> QED BY <5>1 DEF Family, IInv, ChildrenOK
      <4>2. CASE b.op # "settings"
        BY <4>2, <2>6 DEF Emptied
      <4> QED BY <4>1, <4>2
    <3>2. q.row = [rows[q.of] EXCEPT !.scalars = q.body.scalars, !.by = r]
      BY <2>9 DEF UpdatedRow, row
    <3>3. q.row # None
      BY <2>4, <2>9, RowAssumption
    <3> QED BY <2>1, <2>2, <2>9, <2>11, <2>13, <3>1, <3>2, <3>3, ReplacementIs
  <2>15. RequestOK(r)'
    <3>1. req'[r].pc \in {"DeleteBlockedWords", "DeleteKeywords"}
      BY <2>6, <2>9, <2>11
    <3>2. AtItsStatement(r)'
      BY <2>3, <2>9, <2>11, <2>12, <3>1
      DEF AtItsStatement, Statements, OperationsAt, Writing
    <3>3. SeedsOK(r)'
      BY <2>1, <2>3 DEF SeedsOK, DefaultWords, Listed, Below
    <3> QED BY <2>12, <2>14, <3>1, <3>2, <3>3 DEF RequestOK, CreateOK, AddedOK
  <2>16. OwnPart(r)
    <3>1. ASSUME NEW x \in Rows, lock[x] \in {None, r}, lock'[x] # None
          PROVE  x = of
      BY <3>1, <2>12, <2>13 DEF IInv, LocksHeld
    <3> QED BY <3>1, <2>9, <2>11, <2>12, <2>13, <2>15 DEF OwnPart
  <2>17. \A x \in Rows : lock[x] \notin {None, r} => lock'[x] = lock[x]
    BY <1>1, <2>13
  <2>18. seeds' = [seeds EXCEPT ![r] = seeds[r]] /\ seeds[r] \in SUBSET SUBSET Terms
    BY <1>1, <2>1
  <2> QED BY <1>1, <2>1, <2>9, <2>10, <2>13, <2>16, <2>17, <2>18, AtStatement, UncommittedStep
<1> QED BY <1>2, <1>3

\* A DELETE takes all the children of its kind that are committed, and all of
\* the kinds before are gone.
LEMMA DeleteChildrenKeeps ==
    ASSUME IInv, NEW r \in Requests, NEW statement, NEW kind, NEW next,
           DeleteChildren(r, statement, kind, next),
           \/ statement = "DeleteKeywords" /\ kind = "keyword" /\ next = "DeleteBlockedWords"
           \/ statement = "DeleteBlockedWords" /\ kind = "blocked" /\ next = "DeleteMarketplaces"
           \/ statement = "DeleteMarketplaces" /\ kind = "marketplace" /\ next = "WriteChildren"
    PROVE  IInv'
<1> DEFINE b == Body(r)
           of == req[r].of
           removed == req[r].removed \cup Below(of, kind)
<1>1. /\ req[r].pc = statement
      /\ req[r].pc \in Statements
      /\ statement \in Writing
      /\ statement \notin {"WriteChildren", "Commit"}
      /\ next \in Writing
      /\ next \in Statements
      /\ next \notin {"Commit", "UpdateWatch", "SetWatchActive", "DeleteWatch", "idle"}
      /\ req \in [Requests -> RequestStates]
      /\ children \subseteq ChildRecords
      /\ req' = [req EXCEPT ![r].pc = next, ![r].removed = removed]
      /\ UNCHANGED <<rows, children, lock, seeds>>
  BY DEF DeleteChildren, Statements, Writing, IInv, TypeOK
<1>2. /\ b \in BodyRecords
      /\ b \in Bodies
      /\ b.op \in {"update", "settings"}
      /\ b.op \in OperationsAt(next)
      /\ of \in Rows
      /\ DefaultWords \in seeds[r]
      /\ RequestOK(r)
  BY <1>1, AtStatement DEF OperationsAt, RequestOK, SeedsOK
<1>3. Replacing(r) /\ ~ Creating(r)
  BY <1>1, <1>2 DEF Replacing, Creating
<1>4. removed \in SUBSET ChildRecords
  BY <1>1 DEF RequestStates, Below
<1>5. removed = {c \in Family(of) : c.kind \in Emptied(next)}
  <2>1. /\ req[r].removed = {c \in Family(of) : c.kind \in Emptied(statement)}
    BY <1>1, <1>2, <1>3 DEF RequestOK, ReplaceOK
  <2>2. \A c \in Family(of) :
           c.kind \in Emptied(next) <=> c.kind \in Emptied(statement) \/ c.kind = kind
    <3>1. \A c \in Family(of) : c.kind \in Kinds
      BY <1>1 DEF Family, ChildRecords
    <3>2. /\ Emptied("DeleteKeywords") = {}
          /\ Emptied("DeleteBlockedWords") = {"keyword"}
          /\ Emptied("DeleteMarketplaces") = {"keyword", "blocked"}
          /\ Emptied("WriteChildren") = Kinds
      BY DEF Emptied
    <3> QED BY <3>1, <3>2 DEF Kinds
  <2> QED BY <2>1, <2>2 DEF Below, Family
<1> HIDE DEF removed
<1> DEFINE q1 == [req[r] EXCEPT !.pc = next]
           q  == [q1 EXCEPT !.removed = removed]
<1>6. /\ q1 \in RequestStates
      /\ q1.pc = next
      /\ q1.body = b
      /\ q1.of = of
      /\ q1.row = req[r].row
      /\ q1.blocked = req[r].blocked
  BY <1>1 DEF RequestStates, Body
<1>7. /\ q \in RequestStates
      /\ q.pc = next
      /\ q.body = b
      /\ q.of = of
      /\ q.row = req[r].row
      /\ q.blocked = req[r].blocked
      /\ q.removed = removed
  <2> HIDE DEF q1
  <2> QED BY <1>4, <1>6 DEF RequestStates
<1>8. req' = [req EXCEPT ![r] = q]
  BY <1>1
<1> HIDE DEF q
<1>9. req'[r] = q
  BY <1>1, <1>8
<1>10. /\ Replacing(r)'
       /\ ~ Creating(r)'
       /\ Body(r)' = b
  BY <1>1, <1>2, <1>7, <1>9 DEF Replacing, Creating, Body
<1>11. ReplaceOK(r)'
  <2>1. ReplaceOK(r)
    BY <1>2 DEF RequestOK
  <2>2. /\ lock'[q.of] = r
        /\ Exists(q.of)
        /\ q.row = [rows[q.of] EXCEPT !.scalars = q.body.scalars, !.by = r]
        /\ q.row # None
        /\ IF q.body.op = "settings" THEN OneSpelling(q.body.blocked, q.blocked)
           ELSE q.blocked = q.body.blocked
    BY <1>1, <1>3, <1>7, <2>1 DEF ReplaceOK, UpdatedRow
  <2>3. q.removed = {c \in Family(q.of) : c.kind \in Emptied(q.pc)}
    BY <1>5, <1>7
  <2>4. UNCHANGED <<rows, children>>
    BY <1>1
  <2>5. req'[r] = q
    BY <1>9
  <2> HIDE DEF q1, b, of
  <2> QED BY <2>2, <2>3, <2>4, <2>5, ReplacementIs
<1>12. RequestOK(r)'
  <2>1. AtItsStatement(r)'
    BY <1>1, <1>2, <1>7, <1>9, <1>10 DEF RequestOK, AtItsStatement
  <2>2. SeedsOK(r)'
    BY <1>1, <1>2 DEF SeedsOK, DefaultWords, Listed, Below
  <2> QED BY <1>1, <1>7, <1>9, <1>10, <1>11, <2>1, <2>2 DEF RequestOK, CreateOK, AddedOK
<1> QED BY <1>1, <1>7, <1>8, <1>10, <1>12, AtStatement, GotoKeeps

\* The rows that WriteChildren inserts are of their type: an unknown slug was refused.
LEMMA AdditionsTyped ==
    ASSUME NEW r \in Requests, Body(r) \in BodyRecords, req[r] \in RequestStates,
           req[r].of \in Rows, Body(r).marketplaces \cap Unknown = {}
    PROVE  Additions(r) \in SUBSET ChildRecords
<1>1. /\ req[r].blocked \subseteq Terms
      /\ Body(r).marketplaces \subseteq Marketplaces \ Unknown
      /\ Body(r).keywords \subseteq Terms
  BY DEF RequestStates, BodyRecords
<1>2. ASSUME NEW kind \in Kinds, NEW terms \in SUBSET (Terms \cup (Marketplaces \ Unknown))
      PROVE  ChildrenOf(r, kind, terms) \subseteq ChildRecords
  BY DEF ChildrenOf, ChildRecords, Optional
<1>3. {"blocked", "marketplace", "keyword"} \subseteq Kinds
  BY DEF Kinds
<1> QED BY <1>1, <1>2, <1>3 DEF Additions

\* A new alert or a replacement gets to Commit with what it is to add.
LEMMA WriteChildrenKeeps ==
    ASSUME IInv, NEW r \in Requests, WriteChildren(r)
    PROVE  IInv'
<1> DEFINE b == Body(r)
           of == req[r].of
           added == Additions(r)
<1>1. /\ req[r].pc = "WriteChildren"
      /\ req[r].pc \in Statements
      /\ req[r].pc \in Writing
      /\ req \in [Requests -> RequestStates]
  BY DEF WriteChildren, Statements, Writing, IInv, TypeOK
<1>2. CASE Refuse(r, "bad")
  BY <1>1, <1>2, RefuseKeeps
<1>3. CASE ~ Refuse(r, "bad")
  <2>1. /\ b.marketplaces \cap Unknown = {}
        /\ req' = [req EXCEPT ![r].pc = "Commit", ![r].added = added]
        /\ UNCHANGED <<rows, children, lock, seeds>>
    BY <1>3, Zenon DEF WriteChildren, Additions
  <2>2. /\ b \in BodyRecords
        /\ b \in Bodies
        /\ b.op \in {"create", "update", "settings"}
        /\ DefaultWords \in seeds[r]
        /\ RequestOK(r)
    BY <1>1, AtStatement DEF OperationsAt, RequestOK, SeedsOK
  <2>3. IF b.op = "create" THEN Creating(r) /\ ~ Replacing(r) ELSE Replacing(r) /\ ~ Creating(r)
    BY <1>1, <2>2 DEF Replacing, Creating
  <2>4. of \in Rows
    BY <1>1, <2>2, <2>3, AtStatement DEF RequestOK, CreateOK, Rows
  <2>5. added \in SUBSET ChildRecords
    BY <1>1, <2>1, <2>2, <2>4, AdditionsTyped
  <2>6. req'[r].of = of /\ Body(r)' = b /\ req'[r].blocked = req[r].blocked =>
            Additions(r)' = added
    BY DEF Additions, ChildrenOf
  <2> HIDE DEF added
  <2> DEFINE q1 == [req[r] EXCEPT !.pc = "Commit"]
             q  == [q1 EXCEPT !.added = added]
  <2>7. /\ q1 \in RequestStates
        /\ q1.pc = "Commit"
        /\ q1.body = b
        /\ q1.of = of
        /\ q1.row = req[r].row
        /\ q1.blocked = req[r].blocked
        /\ q1.removed = req[r].removed
    BY <1>1 DEF RequestStates, Statements, Body
  <2>8. /\ q \in RequestStates
        /\ q.pc = "Commit"
        /\ q.body = b
        /\ q.of = of
        /\ q.row = req[r].row
        /\ q.blocked = req[r].blocked
        /\ q.removed = req[r].removed
        /\ q.added = added
    <3> HIDE DEF q1
    <3> QED BY <2>5, <2>7 DEF RequestStates
  <2>9. req' = [req EXCEPT ![r] = q]
    BY <1>1, <2>1
  <2> HIDE DEF q
  <2>10. req'[r] = q
    BY <1>1, <2>9
  <2>11. /\ Replacing(r)' = Replacing(r)
         /\ Creating(r)' = Creating(r)
         /\ Body(r)' = b
    BY <1>1, <2>2, <2>8, <2>10 DEF Replacing, Creating, Body, Writing
  <2>12. ReplaceOK(r)'
    <3>1. CASE Replacing(r)
      <4>1. ReplaceOK(r)
        BY <2>2 DEF RequestOK
      <4>2. Emptied("WriteChildren") = Kinds /\ Emptied("Commit") = Kinds
        BY DEF Emptied
      <4>3. /\ lock'[q.of] = r
            /\ Exists(q.of)
            /\ q.row = [rows[q.of] EXCEPT !.scalars = q.body.scalars, !.by = r]
            /\ q.row # None
            /\ q.removed = {c \in Family(q.of) : c.kind \in Emptied(q.pc)}
            /\ IF q.body.op = "settings" THEN OneSpelling(q.body.blocked, q.blocked)
               ELSE q.blocked = q.body.blocked
        BY <1>1, <2>1, <2>8, <3>1, <4>1, <4>2 DEF ReplaceOK, UpdatedRow
      <4> QED BY <2>1, <2>10, <4>3, ReplacementIs
    <3>2. CASE ~ Replacing(r)
      BY <3>2, <2>11 DEF ReplaceOK
    <3> QED BY <3>1, <3>2
  <2>13. CreateOK(r)'
    BY <1>1, <2>1, <2>2, <2>8, <2>10, <2>11 DEF RequestOK, CreateOK
  <2>14. AddedOK(r)'
    BY <2>1, <2>6, <2>8, <2>10, <2>11 DEF AddedOK, added
  <2>15. AtItsStatement(r)'
    BY <1>1, <2>2, <2>8, <2>10, <2>11
    DEF RequestOK, AtItsStatement, Statements, OperationsAt, Writing
  <2>16. SeedsOK(r)'
    BY <2>1, <2>2 DEF SeedsOK, DefaultWords, Listed, Below
  <2>17. RequestOK(r)'
    BY <2>12, <2>13, <2>14, <2>15, <2>16 DEF RequestOK
  <2> QED BY <1>1, <2>1, <2>8, <2>9, <2>11, <2>17, AtStatement, GotoKeeps
<1> QED BY <1>2, <1>3

-----------------------------------------------------------------------------
(* The steps that commit.                                                  *)

\* A request that answers is over, and the others are as they were.
LEMMA AnswerEffect ==
    ASSUME IInv, NEW r \in Requests, NEW answer \in {"ok", "bad", "missing", "error"},
           Answer(r, answer)
    PROVE  /\ req' \in [Requests -> RequestStates]
           /\ req'[r].pc = "answered"
           /\ req'[r].body = req[r].body
           /\ req'[r].answer = answer
           /\ \A s \in Requests : s # r => req'[s] = req[s]
           /\ RequestOK(r)'
           /\ ~ Creating(r)'
           /\ ~ Replacing(r)'
<1> DEFINE q == Over(Body(r), answer)
<1>1. req \in [Requests -> RequestStates]
  BY DEF IInv, TypeOK
<1>2. Body(r) \in Optional(Bodies)
  BY <1>1 DEF Body, RequestStates
<1>3. q \in RequestStates /\ q.pc = "answered" /\ q.body = Body(r) /\ q.answer = answer
  BY <1>2, Answered
<1>4. req' = [req EXCEPT ![r] = q]
  BY Zenon DEF Answer, Over
<1> HIDE DEF q
<1>5. req'[r] = q /\ \A s \in Requests : s # r => req'[s] = req[s]
  BY <1>1, <1>4
<1>6. req' \in [Requests -> RequestStates]
  BY <1>1, <1>3, <1>4
<1>7. ~ Creating(r)' /\ ~ Replacing(r)'
  BY <1>3, <1>5 DEF Creating, Replacing, Writing
<1>8. RequestOK(r)'
  BY <1>3, <1>5, <1>7 DEF RequestOK, AtItsStatement, ReplaceOK, CreateOK, AddedOK, SeedsOK,
                     Statements
<1> QED BY <1>3, <1>5, <1>6, <1>7, <1>8 DEF Body

\* A row that was saved and is not saved again is as it was saved.
LEMMA SavedStays ==
    ASSUME IInv, NEW r \in Requests, OthersKept(r), req[r].pc # "answered",
           NEW row \in Rows, Exists(row), NEW s, s = rows[row].by, s # None,
           Family(row)' = Family(row)
    PROVE  SavedBy(row, s)'
<1>1. SavedBy(row, s) /\ s \in Requests
  BY DEF IInv, RowsOK, TypeOK, Exists, RowRecords, Optional
<1>2. req'[s] = req[s] /\ seeds[s] \subseteq seeds'[s]
  BY <1>1 DEF SavedBy, OthersKept
<1>3. \A kind : Listed(row, kind)' = Listed(row, kind)
  <2>1. ASSUME NEW kind
        PROVE  Below(row, kind)' = Below(row, kind)
    BY DEF Below, Family
  <2> QED BY <2>1 DEF Listed
<1> QED BY <1>1, <1>2, <1>3 DEF SavedBy, Body

\* A commit puts the row of the request, saved by it, with the request's
\* children and no others below it, and leaves the other rows alone.
LEMMA CommitEffect ==
    ASSUME IInv, NEW r \in Requests, NEW of, of = req[r].of, Commit(r)
    PROVE  /\ req[r].pc # "answered"
           /\ \/ Body(r).op \in {"update", "settings"} /\ Replacing(r)
              \/ Body(r).op = "create" /\ Creating(r)
           /\ of \in Rows
           /\ of = Settings <=> Body(r).op = "settings"
           /\ rows' \in [Rows -> RowRecords \cup {None, Deleted}]
           /\ \A x \in Rows : x # of => rows'[x] = rows[x]
           /\ rows'[of] \in RowRecords
           /\ rows'[of].by = r
           /\ Exists(of) => rows'[of].active = rows[of].active
           /\ children' \subseteq ChildRecords
           /\ \A x \in Rows : x # of => Family(x)' = Family(x)
           /\ Family(of)' = Additions(r)
           /\ \E answer \in {"ok", "error"} : Answer(r, answer)
           /\ Unlock(r)
<1>1. /\ req[r].pc = "Commit"
      /\ req[r].pc \in Statements
      /\ req[r].pc \in Writing
      /\ req[r] \in RequestStates
      /\ rows \in [Rows -> RowRecords \cup {None, Deleted}]
      /\ children \subseteq ChildRecords
      /\ rows' = [rows EXCEPT ![of] = req[r].row]
      /\ children' = (children \ req[r].removed) \cup req[r].added
      /\ \E answer \in {"ok", "error"} : Answer(r, answer)
      /\ Unlock(r)
  BY DEF Commit, Statements, Writing, IInv, TypeOK
<1>2. /\ Body(r) \in Bodies
      /\ Body(r) \in BodyRecords
      /\ WellFormed(Body(r))
      /\ Body(r).op \in {"create", "update", "settings"}
      /\ Body(r).op # "create" => of = Target(Body(r))
      /\ RequestOK(r)
  BY <1>1, AtStatement DEF OperationsAt
<1>3. \/ Body(r).op \in {"update", "settings"} /\ Replacing(r)
      \/ Body(r).op = "create" /\ Creating(r)
  BY <1>1, <1>2 DEF Replacing, Creating
<1>4. of \in Rows /\ (of = Settings <=> Body(r).op = "settings")
  <2>1. CASE Body(r).op = "create"
    BY <2>1, <1>2, <1>3, ConstantsAssumption DEF Replacing, RequestOK, CreateOK, Rows
  <2>2. CASE Body(r).op # "create"
    BY <2>2, <1>2, ConstantsAssumption DEF Target, Rows
  <2> QED BY <2>1, <2>2
<1>5. req[r].added = Additions(r) /\ Body(r).marketplaces \cap Unknown = {}
  BY <1>1, <1>2 DEF RequestOK, AddedOK
<1>6. Additions(r) \subseteq ChildRecords
  BY <1>1, <1>2, <1>4, <1>5, AdditionsTyped
<1>7. \A c \in Additions(r) : c.of = of
  BY ChildrenAdded DEF Additions
<1>8. req[r].removed = Family(of)
  <2>1. CASE Replacing(r)
    <3>1. req[r].removed = {c \in Family(of) : c.kind \in Kinds}
      BY <2>1, <1>1, <1>2 DEF RequestOK, ReplaceOK, Emptied
    <3>2. \A c \in Family(of) : c.kind \in Kinds
      BY <1>1 DEF Family, ChildRecords
    <3> QED BY <3>1, <3>2
  <2>2. CASE Creating(r) /\ Body(r).op = "create"
    <3>1. req[r].removed = {} /\ rows[of] = None
      BY <2>2, <1>1, <1>2 DEF RequestOK, AtItsStatement, CreateOK
    <3>2. Family(of) = {}
      BY <3>1 DEF Family, IInv, ChildrenOK, Exists
    <3> QED BY <3>1, <3>2
  <2> QED BY <2>1, <2>2, <1>3
<1>9. ASSUME NEW x \in Rows, x # of
      PROVE  Family(x)' = Family(x) /\ rows'[x] = rows[x]
  BY <1>1, <1>5, <1>7, <1>8, <1>9 DEF Family
<1>10. Family(of)' = Additions(r)
  BY <1>1, <1>5, <1>7, <1>8 DEF Family
<1>11. /\ req[r].row \in RowRecords
       /\ req[r].row.by = r
       /\ Exists(of) => req[r].row.active = rows[of].active
  <2>1. Body(r).scalars \in Scalars
    BY <1>2 DEF BodyRecords
  <2>2. CASE Replacing(r)
    <3>1. rows[of] \in RowRecords /\ req[r].row = UpdatedRow(r)
      BY <2>2, <1>1, <1>2, <1>4 DEF RequestOK, ReplaceOK, Exists
    <3>2. req[r].row \in Optional(RowRecords)
      BY <1>1 DEF RequestStates
    <3> DEFINE row1 == [rows[of] EXCEPT !.scalars = Body(r).scalars]
    <3>3. /\ DOMAIN row1 = {"owner", "scalars", "active", "by"}
          /\ row1.owner = rows[of].owner
          /\ row1.active = rows[of].active
      BY <3>1 DEF RowRecords
    <3>4. UpdatedRow(r) = [row1 EXCEPT !.by = r]
      BY DEF UpdatedRow
    <3>5. UpdatedRow(r).by = r /\ UpdatedRow(r).active = rows[of].active
      <4> HIDE DEF row1
      <4> QED BY <3>3, <3>4
    <3>6. req[r].row # None
      BY <2>2, <1>2 DEF RequestOK, ReplaceOK
    <3> QED BY <3>1, <3>2, <3>5, <3>6 DEF Optional
  <2>3. CASE Creating(r)
    <3>1. /\ rows[of] = None
          /\ req[r].row # None
          /\ req[r].row.by = r
      BY <2>3, <1>2 DEF RequestOK, CreateOK
    <3>2. req[r].row \in Optional(RowRecords)
      BY <1>1 DEF RequestStates
    <3> QED BY <3>1, <3>2 DEF Exists, Optional
  <2> QED BY <2>2, <2>3, <1>3
<1>12. rows'[of] = req[r].row /\ rows' \in [Rows -> RowRecords \cup {None, Deleted}]
  BY <1>1, <1>4, <1>11
<1>13. children' \subseteq ChildRecords
  BY <1>1, <1>5, <1>6
<1> QED BY <1>1, <1>3, <1>4, <1>9, <1>10, <1>11, <1>12, <1>13

\* What is listed below a row whose children are the additions of a request.
LEMMA AdditionsListed ==
    ASSUME NEW r, NEW row, Family(row)' = Additions(r)
    PROVE  /\ Listed(row, "blocked")' = req[r].blocked
           /\ Listed(row, "marketplace")' = Body(r).marketplaces
           /\ Listed(row, "keyword")' = IF Body(r).op = "settings" THEN {} ELSE Body(r).keywords
<1>1. \A kind : Listed(row, kind)' = {c.term : c \in {d \in Additions(r) : d.kind = kind}}
  <2>1. \A kind : Below(row, kind)' = {d \in Family(row)' : d.kind = kind}
    BY DEF Below, Family
  <2> QED BY <2>1 DEF Listed
<1> DEFINE blocked == ChildrenOf(r, "blocked", req[r].blocked)
           marketplaces == ChildrenOf(r, "marketplace", Body(r).marketplaces)
           keywords == ChildrenOf(r, "keyword", Body(r).keywords)
<1>2. /\ \A c \in blocked : c.kind = "blocked"
      /\ req[r].blocked = {c.term : c \in blocked}
  BY ChildrenAdded
<1>3. /\ \A c \in marketplaces : c.kind = "marketplace"
      /\ Body(r).marketplaces = {c.term : c \in marketplaces}
  BY ChildrenAdded
<1>4. /\ \A c \in keywords : c.kind = "keyword"
      /\ Body(r).keywords = {c.term : c \in keywords}
  BY ChildrenAdded
<1>5. Additions(r) = blocked \cup marketplaces
                        \cup IF Body(r).op = "settings" THEN {} ELSE keywords
  BY DEF Additions
<1> HIDE DEF blocked, marketplaces, keywords
<1>6. /\ {d \in Additions(r) : d.kind = "blocked"} = blocked
      /\ {d \in Additions(r) : d.kind = "marketplace"} = marketplaces
      /\ {d \in Additions(r) : d.kind = "keyword"} =
            IF Body(r).op = "settings" THEN {} ELSE keywords
  BY <1>2, <1>3, <1>4, <1>5
<1>7. Listed(row, "blocked")' = req[r].blocked
  BY <1>1, <1>2, <1>6
<1>8. Listed(row, "marketplace")' = Body(r).marketplaces
  BY <1>1, <1>3, <1>6
<1>9. Listed(row, "keyword")' = IF Body(r).op = "settings" THEN {} ELSE Body(r).keywords
  <2>1. Listed(row, "keyword")' = {c.term : c \in IF Body(r).op = "settings" THEN {} ELSE keywords}
    BY <1>1, <1>6
  <2>2. CASE Body(r).op = "settings"
    BY <2>1, <2>2
  <2>3. CASE Body(r).op # "settings"
    BY <2>1, <2>3, <1>4
  <2> QED BY <2>2, <2>3
<1> QED BY <1>7, <1>8, <1>9

\* The row that a commit writes was saved by its request.
LEMMA CommitSaves ==
    ASSUME IInv, NEW r \in Requests, NEW of, of = req[r].of, Commit(r)
    PROVE  SavedBy(of, r)'
<1>1. PICK answer \in {"ok", "error"} : Answer(r, answer)
  BY CommitEffect
<1>2. /\ req'[r].pc = "answered"
      /\ req'[r].answer \notin {"bad", "missing"}
      /\ Body(r)' = Body(r)
  BY <1>1, AnswerEffect DEF Body
<1>3. /\ \/ Body(r).op \in {"update", "settings"} /\ Replacing(r)
         \/ Body(r).op = "create" /\ Creating(r)
      /\ of = Settings <=> Body(r).op = "settings"
      /\ Family(of)' = Additions(r)
      /\ req[r].pc = "Commit"
      /\ RequestOK(r)
  <2>1. /\ \/ Body(r).op \in {"update", "settings"} /\ Replacing(r)
           \/ Body(r).op = "create" /\ Creating(r)
        /\ of = Settings <=> Body(r).op = "settings"
        /\ Family(of)' = Additions(r)
    BY CommitEffect, Zenon
  <2> QED BY <2>1 DEF Commit, IInv
<1>4. /\ Listed(of, "blocked")' = req[r].blocked
      /\ Listed(of, "marketplace")' = Body(r).marketplaces
      /\ Listed(of, "keyword")' = IF Body(r).op = "settings" THEN {} ELSE Body(r).keywords
  BY <1>3, AdditionsListed
<1>5. seeds[r] \subseteq seeds'[r]
  BY DEF Commit, NoteSeeds
<1>6. Replacing(r) => IF Body(r).op = "settings" THEN OneSpelling(Body(r).blocked, req[r].blocked)
                      ELSE req[r].blocked = Body(r).blocked
  BY <1>3 DEF RequestOK, ReplaceOK
<1>7. Creating(r) => \E defaults \in seeds'[r] : Seeded(Body(r).blocked, defaults, req[r].blocked)
  BY <1>3, <1>5 DEF RequestOK, CreateOK
<1>8. \A s, t, u : /\ OneSpelling(s, t)' = OneSpelling(s, t)
                   /\ Seeded(s, t, u)' = Seeded(s, t, u)
  BY DEF OneSpelling, Seeded, Folded
<1>9. of = Settings => OneSpelling(Body(r).blocked, Listed(of, "blocked")')
  BY <1>3, <1>4, <1>6
<1>10. of # Settings /\ Body(r).op = "update" => Listed(of, "blocked")' = Body(r).blocked
  BY <1>3, <1>4, <1>6
<1>11. of # Settings /\ Body(r).op = "create" =>
          \E defaults \in seeds'[r] : Seeded(Body(r).blocked, defaults, Listed(of, "blocked")')
  BY <1>3, <1>4, <1>7
<1> QED BY <1>2, <1>3, <1>4, <1>9, <1>10, <1>11 DEF SavedBy, OneSpelling, Seeded, Folded

\* The commit of one request leaves what the others rely on.
LEMMA CommitLeavesOthers ==
    ASSUME IInv, NEW r \in Requests, NEW of, of = req[r].of, Commit(r)
    PROVE  OthersKept(r)
<1>1. PICK answer \in {"ok", "error"} : Answer(r, answer)
  BY CommitEffect
<1>2. \A s \in Requests : s # r => req'[s] = req[s]
  BY <1>1, AnswerEffect
<1>3. \A s \in Requests : /\ seeds[s] \subseteq seeds'[s]
                          /\ req[s].pc \in Statements => DefaultWords' \in seeds'[s]
  BY DEF Commit, NoteSeeds
<1>4. ASSUME NEW x \in Rows, lock[x] \notin {None, r}
      PROVE  lock'[x] = lock[x] /\ rows'[x] = rows[x] /\ Family(x)' = Family(x)
  <2>1. lock[x] \in Requests /\ Replacing(lock[x]) /\ req[lock[x]].of = x
    BY <1>4 DEF IInv, TypeOK, LocksHeld, Optional
  <2>2. x # of
    <3>1. CASE Replacing(r)
      BY <3>1, <1>4 DEF IInv, RequestOK, ReplaceOK
    <3>2. CASE Creating(r)
      <4>1. rows[of] = None
        BY <3>2 DEF IInv, RequestOK, CreateOK
      <4>2. ReplaceOK(lock[x])
        BY <2>1 DEF IInv, RequestOK
      <4>3. rows[x] # None
        BY <2>1, <4>2 DEF ReplaceOK, Exists
      <4> QED BY <4>1, <4>3
    <3> QED BY <3>1, <3>2, CommitEffect
  <2>3. rows'[x] = rows[x] /\ Family(x)' = Family(x)
    BY <2>2, CommitEffect
  <2>4. lock'[x] = lock[x]
    BY <1>4, CommitEffect DEF Unlock
  <2> QED BY <2>3, <2>4
<1>5. ASSUME NEW x \in Rows
      PROVE  /\ rows[x] # None => rows'[x] # None
             /\ rows[x] = None /\ rows'[x] # None => Creating(r) /\ of = x
  <2>1. CASE x = of
    <3>1. rows'[x] # None
      BY <2>1, CommitEffect, RowAssumption
    <3>2. Replacing(r) => rows[x] # None
      BY <2>1 DEF IInv, RequestOK, ReplaceOK, Exists
    <3> QED BY <2>1, <3>1, <3>2, CommitEffect
  <2>2. CASE x # of
    BY <2>2, CommitEffect
  <2> QED BY <2>1, <2>2
<1> QED BY <1>2, <1>3, <1>4, <1>5 DEF OthersKept

\* A commit keeps the invariant.
LEMMA CommitKeeps ==
    ASSUME IInv, NEW r \in Requests, Commit(r)
    PROVE  IInv'
<1>1. PICK of : of = req[r].of
  OBVIOUS
<1>2. /\ req[r].pc # "answered"
      /\ of \in Rows
      /\ rows' \in [Rows -> RowRecords \cup {None, Deleted}]
      /\ \A x \in Rows : x # of => rows'[x] = rows[x] /\ Family(x)' = Family(x)
      /\ rows'[of] \in RowRecords
      /\ rows'[of].by = r
      /\ children' \subseteq ChildRecords
      /\ Family(of)' = Additions(r)
      /\ Unlock(r)
  BY <1>1, CommitEffect
<1>3. /\ \/ Body(r).op \in {"update", "settings"} /\ Replacing(r)
         \/ Body(r).op = "create" /\ Creating(r)
      /\ of = Settings <=> Body(r).op = "settings"
  BY <1>1, CommitEffect, Zenon
<1>4. PICK answer \in {"ok", "error"} : Answer(r, answer)
  BY <1>1, CommitEffect
<1>5. /\ req' \in [Requests -> RequestStates]
      /\ RequestOK(r)'
      /\ ~ Creating(r)'
      /\ ~ Replacing(r)'
  BY <1>4, AnswerEffect
<1>6. OthersKept(r)
  BY <1>1, CommitLeavesOthers
<1>7. /\ lock' \in [Rows -> Optional(Requests)]
      /\ \A x \in Rows : lock[x] \in {None, r} => lock'[x] = None
  BY <1>2 DEF Unlock, IInv, TypeOK, Optional
<1>8. OwnPart(r)
  BY <1>5, <1>7 DEF OwnPart
<1>9. /\ Listed(of, "blocked")' = req[r].blocked
      /\ Listed(of, "keyword")' = IF Body(r).op = "settings" THEN {} ELSE Body(r).keywords
  BY <1>2, AdditionsListed
<1>10. req[r].blocked \subseteq Terms /\ req[r].pc \in Statements
  BY <1>3 DEF IInv, TypeOK, RequestStates, Replacing, Creating, Writing, Statements
<1>11. ChildrenOK'
  <2>1. ASSUME NEW c \in children'
        PROVE  /\ rows'[c.of] \notin {None, Deleted}
               /\ c.by = rows'[c.of].by
               /\ c.of = Settings => c.kind # "keyword"
               /\ c.kind = "blocked" => c.term \in Terms
    <3>1. c.of \in Rows
      BY <1>2 DEF ChildRecords
    <3>2. CASE c.of = of
      <4>1. c \in Additions(r)
        BY <3>2, <1>2 DEF Family
      <4>2. c.by = r
        BY <4>1, ChildrenAdded DEF Additions
      <4>3. c.kind = "keyword" => Body(r).op # "settings"
        BY <4>1, ChildrenAdded DEF Additions
      <4>4. c.kind = "blocked" => c.term \in req[r].blocked
        BY <4>1, ChildrenAdded DEF Additions
      <4> QED BY <3>2, <4>2, <4>3, <4>4, <1>2, <1>3, <1>10, RowAssumption
    <3>3. CASE c.of # of
      <4>1. c \in Family(c.of)' /\ Family(c.of)' = Family(c.of) /\ rows'[c.of] = rows[c.of]
        <5>1. ASSUME NEW x \in Rows, x = c.of
              PROVE  c \in Family(x)' /\ Family(x)' = Family(x) /\ rows'[x] = rows[x]
          BY <5>1, <3>3, <1>2 DEF Family
        <5> QED BY <5>1, <3>1
      <4>2. c \in children
        BY <4>1 DEF Family
      <4> QED BY <4>1, <4>2 DEF IInv, ChildrenOK, Exists
    <3> QED BY <3>2, <3>3
  <2> QED BY <2>1 DEF ChildrenOK, Exists
<1>12. SettingsOK'
  <2>1. CASE of = Settings
    <3>1. DefaultWords' = req[r].blocked
      BY <2>1, <1>9 DEF DefaultWords
    <3>2. OneSpelling(Body(r).blocked, req[r].blocked)
      BY <2>1, <1>3 DEF IInv, RequestOK, ReplaceOK
    <3>3. rows'[Settings] \notin {None, Deleted}
      BY <2>1, <1>2, RowAssumption
    <3> QED BY <3>1, <3>2, <3>3 DEF SettingsOK, OneSpelling, Exists
  <2>2. CASE of # Settings
    <3>1. Settings \in Rows
      BY DEF Rows
    <3>2. Family(Settings)' = Family(Settings) /\ rows'[Settings] = rows[Settings]
      BY <2>2, <3>1, <1>2
    <3>3. DefaultWords' = DefaultWords
      BY <3>2 DEF DefaultWords, Listed, Below, Family
    <3> QED BY <3>2, <3>3 DEF IInv, SettingsOK, Exists
  <2> QED BY <2>1, <2>2
<1>13. RowsOK'
  <2>1. ASSUME NEW x \in Rows, NEW s, s = rows'[x].by, Exists(x)', s # None
        PROVE  SavedBy(x, s)'
    <3>1. CASE x = of
      BY <3>1, <2>1, <1>1, <1>2, CommitSaves
    <3>2. CASE x # of
      <4>1. Exists(x) /\ s = rows[x].by /\ Family(x)' = Family(x)
        BY <3>2, <2>1, <1>2 DEF Exists
      <4> QED BY <4>1, <2>1, <1>2, <1>6, SavedStays
    <3> QED BY <3>1, <3>2
  <2>2. \A x \in Rows : \A s :
           s = rows'[x].by /\ Exists(x)' /\ s # None => SavedBy(x, s)'
    BY <2>1
  <2> QED BY <2>2 DEF RowsOK, SavedBy, Exists, Listed, Below, Body
<1>14. TypeOK'
  <2>1. DefaultWords' \in SUBSET Terms
    BY <1>2, <1>11 DEF ChildrenOK, DefaultWords, Listed, Below
  <2>2. seeds' \in [Requests -> SUBSET SUBSET Terms]
    BY <2>1 DEF Commit, NoteSeeds, IInv, TypeOK
  <2> QED BY <2>2, <1>2, <1>5, <1>7 DEF TypeOK
<1> QED BY <1>6, <1>8, <1>11, <1>12, <1>13, <1>14, StepKeeps

\* A statement in autocommit is done to an alert nobody holds, by a request that
\* holds nothing and has no new alert.
LEMMA InAutocommit ==
    ASSUME IInv, NEW r \in Requests, NEW of, of = req[r].of,
           req[r].pc \in {"SetWatchActive", "DeleteWatch"}
    PROVE  /\ req[r].pc \in Statements
           /\ req[r].pc # "answered"
           /\ Body(r) \in BodyRecords
           /\ of \in Watches
           /\ of \in Rows
           /\ of # Settings
           /\ rows[of] # None
           /\ ~ Creating(r)
           /\ \A x \in Rows : lock[x] # r
<1>1. req[r].pc \in Statements
  BY DEF Statements
<1>2. /\ Body(r) \in Bodies
      /\ Body(r) \in BodyRecords
      /\ Body(r).op \in {"setActive", "delete"}
      /\ of = Target(Body(r))
      /\ RequestOK(r)
      /\ req[r].pc # "answered"
  BY <1>1, AtStatement DEF OperationsAt
<1>3. of \in Watches /\ of \in Rows /\ of # Settings
  BY <1>2, ConstantsAssumption DEF Target, Rows
<1>4. ~ Replacing(r) /\ ~ Creating(r)
  BY DEF Replacing, Creating, Writing
<1>5. rows[of] # None
  BY <1>2 DEF RequestOK, AtItsStatement
<1>6. \A x \in Rows : lock[x] # r
  BY <1>4, ConstantsAssumption DEF IInv, LocksHeld
<1> QED BY <1>1, <1>2, <1>3, <1>4, <1>5, <1>6

\* Pausing changes one column that no replacement writes.
LEMMA SetWatchActiveKeeps ==
    ASSUME IInv, NEW r \in Requests, SetWatchActive(r)
    PROVE  IInv'
<1>1. PICK of : of = req[r].of
  OBVIOUS
<1>2. req[r].pc = "SetWatchActive" /\ lock[of] = None
  BY <1>1 DEF SetWatchActive
<1>3. /\ req[r].pc \in Statements
      /\ req[r].pc # "answered"
      /\ Body(r) \in BodyRecords
      /\ of \in Watches
      /\ of \in Rows
      /\ of # Settings
      /\ rows[of] # None
      /\ ~ Creating(r)
      /\ \A x \in Rows : lock[x] # r
  BY <1>1, <1>2, InAutocommit
<1>4. CASE Refuse(r, "error")
  BY <1>3, <1>4, RefuseKeeps
<1>5. CASE ~ Refuse(r, "error")
  <2>1. /\ Exists(of)
        /\ rows' = [rows EXCEPT ![of].active = Body(r).active]
        /\ \E answer \in {"ok", "error"} : Answer(r, answer)
        /\ UNCHANGED <<children, lock, seeds>>
    BY <1>1, <1>5 DEF SetWatchActive
  <2>2. PICK answer \in {"ok", "error"} : Answer(r, answer)
    BY <2>1
  <2>3. /\ req' \in [Requests -> RequestStates]
        /\ RequestOK(r)'
        /\ ~ Creating(r)'
        /\ ~ Replacing(r)'
        /\ \A s \in Requests : s # r => req'[s] = req[s]
    BY <2>2, AnswerEffect
  <2>4. /\ rows \in [Rows -> RowRecords \cup {None, Deleted}]
        /\ rows[of] \in RowRecords
        /\ Body(r).active \in BOOLEAN
    BY <1>3, <2>1 DEF IInv, TypeOK, Exists, BodyRecords
  <2>5. rows' \in [Rows -> RowRecords \cup {None, Deleted}]
    <3> DEFINE row == [rows[of] EXCEPT !.active = Body(r).active]
    <3>1. row \in RowRecords
      BY <2>4 DEF RowRecords
    <3>2. rows' = [rows EXCEPT ![of] = row]
      BY <2>1
    <3> HIDE DEF row
    <3> QED BY <2>4, <3>1, <3>2
  <2>6. rows'[of] \notin {None, Deleted} /\ rows'[of].by = rows[of].by
    <3> DEFINE row == [rows[of] EXCEPT !.active = Body(r).active]
    <3>1. row \in RowRecords /\ row.by = rows[of].by
      BY <2>4 DEF RowRecords
    <3>2. rows'[of] = row
      BY <1>3, <2>1, <2>4
    <3> HIDE DEF row
    <3> QED BY <3>1, <3>2, RowAssumption
  <2>7. \A x \in Rows : x # of => rows'[x] = rows[x]
    BY <2>1, <2>4
  <2>8. \A x : Exists(x) /\ x \in Rows <=> rows'[x] \notin {None, Deleted} /\ x \in Rows
    BY <2>1, <2>6, <2>7 DEF Exists
  <2>9. \A x : Family(x)' = Family(x)
    BY <2>1 DEF Family
  <2>10. DefaultWords' = DefaultWords
    BY <2>1 DEF DefaultWords, Listed, Below
  <2>11. OthersKept(r)
    <3>1. \A s \in Requests : s # r /\ req[s].pc \in Statements => DefaultWords' \in seeds'[s]
      BY <2>1, <2>10 DEF IInv, RequestOK, SeedsOK
    <3>2. \A x \in Rows : lock[x] \notin {None, r} => rows'[x] = rows[x]
      BY <1>2, <2>7
    <3>3. \A x \in Rows : rows[x] # None <=> rows'[x] # None
      BY <1>3, <2>6, <2>7
    <3> QED BY <2>1, <2>3, <2>9, <3>1, <3>2, <3>3 DEF OthersKept
  <2>12. OwnPart(r)
    BY <1>3, <2>1, <2>3 DEF OwnPart
  <2>13. ChildrenOK'
    <3>1. ASSUME NEW c \in children
          PROVE  rows'[c.of] \notin {None, Deleted} /\ rows'[c.of].by = rows[c.of].by
      <4>1. c.of \in Rows /\ Exists(c.of)
        BY DEF IInv, TypeOK, ChildRecords, ChildrenOK
      <4> QED BY <4>1, <2>6, <2>7, <2>8
    <3> QED BY <3>1, <2>1 DEF IInv, ChildrenOK, Exists
  <2>14. SettingsOK'
    <3>1. rows'[Settings] = rows[Settings]
      BY <1>3, <2>7 DEF Rows
    <3> QED BY <3>1, <2>10 DEF IInv, SettingsOK, Exists
  <2>15. RowsOK'
    <3>1. ASSUME NEW x \in Rows, NEW s, s = rows'[x].by, Exists(x)', s # None
          PROVE  SavedBy(x, s)'
      <4>1. Exists(x) /\ s = rows[x].by
        BY <3>1, <2>6, <2>7, <2>8 DEF Exists
      <4> QED BY <4>1, <3>1, <1>3, <2>9, <2>11, SavedStays
    <3>2. \A x \in Rows : \A s :
             s = rows'[x].by /\ Exists(x)' /\ s # None => SavedBy(x, s)'
      BY <3>1
    <3> QED BY <3>2 DEF RowsOK, SavedBy, Exists, Listed, Below, Body
  <2>16. TypeOK'
    BY <2>1, <2>3, <2>5 DEF IInv, TypeOK
  <2> QED BY <2>11, <2>12, <2>13, <2>14, <2>15, <2>16, StepKeeps
<1> QED BY <1>4, <1>5

\* A deleted alert leaves nothing below it, and its id is not used again.
LEMMA DeleteWatchKeeps ==
    ASSUME IInv, NEW r \in Requests, DeleteWatch(r)
    PROVE  IInv'
<1>1. PICK of : of = req[r].of
  OBVIOUS
<1>2. /\ req[r].pc = "DeleteWatch"
      /\ lock[of] = None
      /\ rows' = [rows EXCEPT ![of] = Deleted]
      /\ children' = {c \in children : c.of # of}
      /\ \E answer \in {"ok", "error"} : Answer(r, answer)
      /\ UNCHANGED <<lock, seeds>>
  BY <1>1 DEF DeleteWatch
<1>3. /\ req[r].pc \in Statements
      /\ req[r].pc # "answered"
      /\ of \in Rows
      /\ of # Settings
      /\ rows[of] # None
      /\ ~ Creating(r)
      /\ \A x \in Rows : lock[x] # r
  BY <1>1, <1>2, InAutocommit
<1>4. PICK answer \in {"ok", "error"} : Answer(r, answer)
  BY <1>2
<1>5. /\ req' \in [Requests -> RequestStates]
      /\ RequestOK(r)'
      /\ ~ Creating(r)'
      /\ ~ Replacing(r)'
      /\ \A s \in Requests : s # r => req'[s] = req[s]
  BY <1>4, AnswerEffect
<1>6. /\ rows \in [Rows -> RowRecords \cup {None, Deleted}]
      /\ rows' \in [Rows -> RowRecords \cup {None, Deleted}]
      /\ rows'[of] = Deleted
      /\ \A x \in Rows : x # of => rows'[x] = rows[x]
  BY <1>2, <1>3 DEF IInv, TypeOK
<1>7. \A x : x # of => Family(x)' = Family(x)
  BY <1>2 DEF Family
<1>8. Settings \in Rows
  BY DEF Rows
<1>9. DefaultWords' = DefaultWords
  <2>1. Family(Settings)' = Family(Settings)
    BY <1>3, <1>7
  <2> QED BY <2>1 DEF DefaultWords, Listed, Below, Family
<1>10. OthersKept(r)
  <2>1. \A s \in Requests : s # r /\ req[s].pc \in Statements => DefaultWords' \in seeds'[s]
    BY <1>2, <1>9 DEF IInv, RequestOK, SeedsOK
  <2>2. \A x \in Rows : lock[x] \notin {None, r} => rows'[x] = rows[x] /\ Family(x)' = Family(x)
    BY <1>2, <1>6, <1>7
  <2>3. \A x \in Rows : rows[x] # None <=> rows'[x] # None
    BY <1>3, <1>6, RowAssumption
  <2> QED BY <1>2, <1>5, <2>1, <2>2, <2>3 DEF OthersKept
<1>11. OwnPart(r)
  BY <1>2, <1>3, <1>5 DEF OwnPart
<1>12. ChildrenOK'
  <2>1. ASSUME NEW c \in children, c.of # of
        PROVE  rows'[c.of] = rows[c.of]
    <3>1. c.of \in Rows
      BY DEF IInv, TypeOK, ChildRecords
    <3> QED BY <3>1, <2>1, <1>6
  <2> QED BY <2>1, <1>2 DEF IInv, ChildrenOK, Exists
<1>13. SettingsOK'
  BY <1>3, <1>6, <1>8, <1>9 DEF IInv, SettingsOK, Exists
<1>14. RowsOK'
  <2>1. ASSUME NEW x \in Rows, NEW s, s = rows'[x].by, Exists(x)', s # None
        PROVE  SavedBy(x, s)'
    <3>1. x # of
      BY <2>1, <1>6 DEF Exists
    <3>2. Exists(x) /\ s = rows[x].by /\ Family(x)' = Family(x)
      BY <3>1, <2>1, <1>6, <1>7 DEF Exists
    <3> QED BY <3>2, <2>1, <1>3, <1>10, SavedStays
  <2>2. \A x \in Rows : \A s :
           s = rows'[x].by /\ Exists(x)' /\ s # None => SavedBy(x, s)'
    BY <2>1
  <2> QED BY <2>2 DEF RowsOK, SavedBy, Exists, Listed, Below, Body
<1>15. TypeOK'
  BY <1>2, <1>5, <1>6 DEF IInv, TypeOK
<1> QED BY <1>10, <1>11, <1>12, <1>13, <1>14, <1>15, StepKeeps

-----------------------------------------------------------------------------
(* The invariant.                                                          *)

\* The settings and the alerts of the migrations are as they must be.
LEMMA InitInv == Init => IInv
<1> SUFFICES ASSUME Init PROVE IInv
  OBVIOUS
<1> DEFINE valid == CHOOSE v \in Scalars \ (Malformed \cup Impossible) : TRUE
           Row(user) == [owner |-> user, scalars |-> valid, active |-> TRUE, by |-> None]
<1>1. valid \in Scalars \ (Malformed \cup Impossible)
  BY ConstantsAssumption
<1>2. /\ rows = [row \in Rows |-> IF row = Settings THEN Row(None)
                                  ELSE IF row \in DOMAIN Saved THEN Row(Saved[row]) ELSE None]
      /\ children = [of : {Settings}, kind : {"blocked"}, term : Seed, by : {None}] \cup
            [of : DOMAIN Saved, kind : {"marketplace"}, term : Marketplaces \ Unknown, by : {None}]
      /\ lock = [row \in Rows |-> None]
      /\ req = [r \in Requests |-> IdleRequest]
      /\ seeds = [r \in Requests |-> {}]
  BY Zenon DEF Init
<1> HIDE DEF valid
<1>3. \A user \in Optional(Users) : Row(user) \in RowRecords /\ Row(user).by = None
  BY <1>1 DEF RowRecords, Optional
<1> HIDE DEF Row
<1>4. /\ rows \in [Rows -> RowRecords \cup {None, Deleted}]
      /\ rows[Settings] \in RowRecords
      /\ \A w \in DOMAIN Saved : rows[w] \in RowRecords
      /\ \A x \in Rows : rows[x] = None \/ rows[x].by = None
  BY <1>2, <1>3, ConstantsAssumption DEF Rows, Optional
<1>5. children \subseteq ChildRecords
  <2>1. Settings \in Rows /\ DOMAIN Saved \subseteq Rows /\ Seed \subseteq Terms
    BY ConstantsAssumption DEF Rows
  <2> QED BY <1>2, <2>1 DEF ChildRecords, Kinds, Optional
<1>6. IdleRequest \in RequestStates
  BY DEF IdleRequest, RequestStates, Optional
<1>7. TypeOK
  BY <1>2, <1>4, <1>5, <1>6 DEF TypeOK, Optional
<1>8. \A r \in Requests : req[r] = IdleRequest /\ req[r].pc = "idle"
  BY <1>2 DEF IdleRequest
<1>9. \A r \in Requests : ~ Replacing(r) /\ ~ Creating(r)
  BY <1>8 DEF Replacing, Creating, Writing
<1>10. \A r \in Requests : RequestOK(r)
  BY <1>8, <1>9
  DEF RequestOK, AtItsStatement, ReplaceOK, CreateOK, AddedOK, SeedsOK,
                     Statements
<1>11. ChildrenOK
  <2>1. ASSUME NEW c \in children
        PROVE  /\ c.of = Settings \/ c.of \in DOMAIN Saved
               /\ c.by = None
               /\ c.kind # "keyword"
               /\ c.kind = "blocked" => c.term \in Terms
    <3>1. CASE c \in [of : {Settings}, kind : {"blocked"}, term : Seed, by : {None}]
      BY <3>1, ConstantsAssumption
    <3>2. CASE c \in [of : DOMAIN Saved, kind : {"marketplace"}, term : Marketplaces \ Unknown,
                      by : {None}]
      BY <3>2
    <3> QED BY <3>1, <3>2, <1>2
  <2>2. ASSUME NEW x \in {Settings} \cup DOMAIN Saved
        PROVE  rows[x] \notin {None, Deleted} /\ rows[x].by = None
    <3>1. x \in Rows /\ rows[x] \in RowRecords
      BY <1>4, ConstantsAssumption DEF Rows
    <3> QED BY <3>1, <1>4, RowAssumption
  <2> QED BY <2>1, <2>2 DEF ChildrenOK, Exists
<1>12. SettingsOK
  <2>1. Exists(Settings)
    BY <1>4, RowAssumption DEF Exists
  <2>2. DefaultWords \subseteq Seed
    <3>1. ASSUME NEW c \in children, c.kind = "blocked"
          PROVE  c.term \in Seed
      <4>1. CASE c \in [of : {Settings}, kind : {"blocked"}, term : Seed, by : {None}]
        BY <4>1
      <4>2. CASE c \in [of : DOMAIN Saved, kind : {"marketplace"}, term : Marketplaces \ Unknown,
                        by : {None}]
        BY <4>2, <3>1
      <4> QED BY <4>1, <4>2, <1>2
    <3> QED BY <3>1 DEF DefaultWords, Listed, Below
  <2> QED BY <2>1, <2>2, ConstantsAssumption DEF SettingsOK
<1>13. RowsOK
  BY <1>4 DEF RowsOK, Exists
<1>14. LocksHeld
  BY <1>2 DEF LocksHeld
<1> QED BY <1>7, <1>9, <1>10, <1>11, <1>12, <1>13, <1>14 DEF IInv, IdsApart

\* Every step keeps the invariant.
LEMMA NextInv == IInv /\ [Next]_vars => IInv'
<1> SUFFICES ASSUME IInv, [Next]_vars PROVE IInv'
  OBVIOUS
<1>1. CASE UNCHANGED vars
  <2>1. rows' = rows /\ children' = children /\ lock' = lock /\ req' = req /\ seeds' = seeds
    BY <1>1 DEF vars
  <2>2. TypeOK' /\ ChildrenOK' /\ SettingsOK'
    BY <2>1 DEF IInv, TypeOK, ChildrenOK, SettingsOK, Exists, DefaultWords, Listed, Below
  <2>3. IdsApart' /\ LocksHeld'
    BY <2>1 DEF IInv, IdsApart, LocksHeld, Creating, Replacing, Body
  <2>4. RowsOK'
    BY <2>1 DEF IInv, RowsOK, SavedBy, Exists, Listed, Below, Body
  <2>5. ASSUME NEW r \in Requests
        PROVE  RequestOK(r)'
    <3>1. RequestOK(r)
      BY DEF IInv
    <3>2. AtItsStatement(r)'
      BY <2>1, <3>1 DEF RequestOK, AtItsStatement, Body
    <3>3. ReplaceOK(r)'
      BY <2>1, <3>1 DEF RequestOK, ReplaceOK, Replacing, Body, Exists, UpdatedRow, Family
    <3>4. CreateOK(r)'
      BY <2>1, <3>1 DEF RequestOK, CreateOK, Creating, Body
    <3>5. AddedOK(r)'
      BY <2>1, <3>1 DEF RequestOK, AddedOK, Additions, ChildrenOf, Body
    <3>6. SeedsOK(r)'
      BY <2>1, <3>1 DEF RequestOK, SeedsOK, DefaultWords, Listed, Below
    <3> QED BY <3>2, <3>3, <3>4, <3>5, <3>6 DEF RequestOK
  <2> QED BY <2>2, <2>3, <2>4, <2>5 DEF IInv
<1>2. ASSUME NEW r \in Requests, Arrive(r)
      PROVE  IInv'
  BY <1>2, ArriveKeeps
<1>3. ASSUME NEW r \in Requests, Statement(r)
      PROVE  IInv'
  <2>1. CASE GetWatchByID(r)
    BY <2>1, GetWatchByIDKeeps
  <2>2. CASE CreateWatch(r)
    BY <2>2, CreateWatchKeeps
  <2>3. CASE ListDefaultBlockedWords(r)
    BY <2>3, ListDefaultBlockedWordsKeeps
  <2>4. CASE UpdateWatch(r)
    BY <2>4, UpdateWatchKeeps
  <2>5. CASE DeleteChildren(r, "DeleteKeywords", "keyword", "DeleteBlockedWords")
    BY <2>5, DeleteChildrenKeeps
  <2>6. CASE DeleteChildren(r, "DeleteBlockedWords", "blocked", "DeleteMarketplaces")
    BY <2>6, DeleteChildrenKeeps
  <2>7. CASE DeleteChildren(r, "DeleteMarketplaces", "marketplace", "WriteChildren")
    BY <2>7, DeleteChildrenKeeps
  <2>8. CASE WriteChildren(r)
    BY <2>8, WriteChildrenKeeps
  <2>9. CASE Commit(r)
    BY <2>9, CommitKeeps
  <2>10. CASE SetWatchActive(r)
    BY <2>10, SetWatchActiveKeeps
  <2>11. CASE DeleteWatch(r)
    BY <2>11, DeleteWatchKeeps
  <2> QED BY <1>3, <2>1, <2>2, <2>3, <2>4, <2>5, <2>6, <2>7, <2>8, <2>9, <2>10, <2>11
          DEF Statement
<1>4. ASSUME NEW r \in Requests, Fail(r)
      PROVE  IInv'
  BY <1>4, RefuseKeeps DEF Fail
<1> QED BY <1>1, <1>2, <1>3, <1>4 DEF Next

\* The invariant holds for ever.
LEMMA Invariant == Spec => []IInv
BY InitInv, NextInv, PTL DEF Spec

-----------------------------------------------------------------------------
(* The theorems.                                                           *)

\* Every variable keeps its type: a row and its children have columns the
\* tables allow, whatever bodies arrive (watch_handler.go:72-145).
THEOREM TypeCorrect == Spec => []TypeOK
<1>1. IInv => TypeOK
  BY DEF IInv
<1> QED BY <1>1, Invariant, PTL

\* A row is held only by a request that is replacing what is below it, which
\* waits for no other row: there is no cycle to wait in (watch_handler.go:298-362,
\* scan_settings_handler.go:101-141).
THEOREM LocksAreOfWriters == Spec => []LocksAreLetGo
<1>1. IInv => LocksAreLetGo
  BY DEF IInv, LocksHeld, Replacing, Writing, LocksAreLetGo
<1> QED BY <1>1, Invariant, PTL

\* However many edits, pauses, deletions and settings run at once, and fail
\* wherever they may, an alert and all below it are one request's.
THEOREM AlertsAreWhole == Spec => []EachAlertIsOneRequests
<1>1. IInv => EachAlertIsOneRequests
  <2> SUFFICES ASSUME IInv PROVE EachAlertIsOneRequests
    OBVIOUS
  <2>1. \A c \in children : Exists(c.of) /\ c.by = rows[c.of].by
    BY DEF IInv, ChildrenOK
  <2>2. ASSUME NEW row \in Rows, Exists(row), rows[row].by # None
        PROVE  /\ Listed(row, "keyword") = Wanted(row, "keyword")
               /\ Listed(row, "marketplace") = Wanted(row, "marketplace")
               /\ IF row = Settings
                  THEN OneSpelling(Wanted(row, "blocked"), Listed(row, "blocked"))
                  ELSE Body(rows[row].by).op = "update" =>
                           Listed(row, "blocked") = Wanted(row, "blocked")
    <3>1. SavedBy(row, rows[row].by)
      BY <2>2 DEF IInv, RowsOK
    <3>2. /\ Wanted(row, "keyword") = IF row = Settings THEN {} ELSE Body(rows[row].by).keywords
          /\ Wanted(row, "marketplace") = Body(rows[row].by).marketplaces
          /\ Wanted(row, "blocked") = Body(rows[row].by).blocked
      BY DEF Wanted
    <3> QED BY <3>1, <3>2 DEF SavedBy
  <2> QED BY <2>1, <2>2 DEF EachAlertIsOneRequests
<1> QED BY <1>1, Invariant, PTL

\* A new alert blocks the user's words and the default words of one moment of its
\* creation, whatever an admin does to the list meanwhile.
THEOREM SeedsAreWhole == Spec => []SeedIsOneListOfItsTime
<1>1. IInv => SeedIsOneListOfItsTime
  <2> SUFFICES ASSUME IInv, NEW w \in Watches, Exists(w), rows[w].by # None,
                      Body(rows[w].by).op = "create"
               PROVE  \E defaults \in seeds[rows[w].by] :
                         /\ OneSpelling(Body(rows[w].by).blocked \cup defaults,
                                        Listed(w, "blocked"))
                         /\ \A t \in Listed(w, "blocked") :
                               Fold[t] \in Folded(Body(rows[w].by).blocked) =>
                                  t \in Body(rows[w].by).blocked
    BY Zenon DEF SeedIsOneListOfItsTime
  <2>1. w \in Rows /\ w # Settings
    BY ConstantsAssumption DEF Rows
  <2>2. SavedBy(w, rows[w].by)
    BY <2>1 DEF IInv, RowsOK
  <2> QED BY <2>1, <2>2 DEF SavedBy, Seeded
<1> QED BY <1>1, Invariant, PTL

\* A request that was refused has saved no row and no child, though it may have
\* failed after writing most of them.
THEOREM RefusalsLeaveNothing == Spec => []RefusedLeavesNothing
<1>1. IInv => RefusedLeavesNothing
  <2> SUFFICES ASSUME IInv, NEW r \in Requests, req[r].answer \in {"bad", "missing"}
               PROVE  /\ \A row \in Rows : Exists(row) => rows[row].by # r
                      /\ \A c \in children : c.by # r
    BY DEF RefusedLeavesNothing
  <2>1. ASSUME NEW row \in Rows, Exists(row), rows[row].by = r
        PROVE  FALSE
    <3>1. r # None
      BY ConstantsAssumption
    <3>2. SavedBy(row, r)
      BY <2>1, <3>1 DEF IInv, RowsOK
    <3> QED BY <3>2 DEF SavedBy
  <2>2. ASSUME NEW c \in children, c.by = r
        PROVE  FALSE
    <3>1. c.of \in Rows /\ Exists(c.of) /\ rows[c.of].by = r
      BY <2>2 DEF IInv, TypeOK, ChildRecords, ChildrenOK
    <3> QED BY <3>1, <2>1
  <2> QED BY <2>1, <2>2
<1> QED BY <1>1, Invariant, PTL

\* Whether an alert is active changes by SetActive only: an edit writes the row
\* as its UPDATE found it, which nobody paused since.
THEOREM PausesSurvive == Spec => PauseSurvivesEdits
<1> DEFINE A == \A w \in Watches :
                   Exists(w) /\ Exists(w)' /\ rows'[w].active # rows[w].active =>
                      \E r \in Requests : /\ req[r].pc = "SetWatchActive"
                                          /\ req'[r].pc = "answered"
                                          /\ Body(r).active = rows'[w].active
<1>1. IInv /\ [Next]_vars => [A]_vars
  <2> SUFFICES ASSUME IInv, [Next]_vars, NEW w \in Watches, Exists(w), Exists(w)',
                      rows'[w].active # rows[w].active
               PROVE  \E r \in Requests : /\ req[r].pc = "SetWatchActive"
                                          /\ req'[r].pc = "answered"
                                          /\ Body(r).active = rows'[w].active
    BY Zenon
  <2>1. rows'[w] # rows[w]
    OBVIOUS
  <2>2. w \in Rows
    BY DEF Rows
  <2>3. PICK r \in Requests : Commit(r) \/ SetWatchActive(r) \/ DeleteWatch(r)
    BY <2>1 DEF Next, Statement, Arrive, Fail, Refuse, GetWatchByID, CreateWatch,
       ListDefaultBlockedWords, UpdateWatch, DeleteChildren, WriteChildren, vars
  <2>4. CASE Commit(r)
    <3>1. PICK of : of = req[r].of
      OBVIOUS
    <3>2. w = of => rows'[w].active = rows[w].active
      BY <2>4, <3>1, CommitEffect
    <3>3. w # of => rows'[w] = rows[w]
      BY <2>2, <2>4, <3>1, CommitEffect
    <3> QED BY <3>2, <3>3
  <2>5. CASE SetWatchActive(r)
    <3>1. ~ Refuse(r, "error")
      BY <2>1 DEF Refuse
    <3>2. /\ req[r].pc = "SetWatchActive"
          /\ rows' = [rows EXCEPT ![req[r].of].active = Body(r).active]
          /\ \E answer \in {"ok", "error"} : Answer(r, answer)
      BY <2>5, <3>1 DEF SetWatchActive
    <3>3. req'[r].pc = "answered"
      BY <3>2, AnswerEffect
    <3>4. rows \in [Rows -> RowRecords \cup {None, Deleted}] /\ rows[w] \in RowRecords
      BY <2>2 DEF IInv, TypeOK, Exists
    <3>5. w = req[r].of
      BY <2>1, <2>2, <3>2, <3>4
    <3>6. rows'[w].active = Body(r).active
      BY <2>2, <3>2, <3>4, <3>5 DEF RowRecords
    <3> QED BY <3>2, <3>3, <3>6
  <2>6. CASE DeleteWatch(r)
    <3>1. /\ rows' = [rows EXCEPT ![req[r].of] = Deleted]
          /\ rows \in [Rows -> RowRecords \cup {None, Deleted}]
      BY <2>6 DEF DeleteWatch, IInv, TypeOK
    <3>2. rows'[w] = Deleted
      BY <2>1, <2>2, <3>1
    <3> QED BY <3>2 DEF Exists
  <2> QED BY <2>3, <2>4, <2>5, <2>6
<1>2. PauseSurvivesEdits <=> [][A]_vars
  BY DEF PauseSurvivesEdits
<1> HIDE DEF A
<1> QED BY <1>1, <1>2, Invariant, PTL DEF Spec

-----------------------------------------------------------------------------
(* The refinement. What is committed changes by COMMIT, the UPDATE of a    *)
(* pause and the DELETE, each of which is a request of AlertStore that was *)
(* permitted when its first statement looked and is permitted still.       *)

\* What an owner or an admin asks for an alert he has.
Edits == {"update", "setActive", "delete"}

\* The statements after getOwnedWatch.
Past == {"UpdateWatch", "SetWatchActive", "DeleteWatch"} \cup Writing

\* Once let through, a request stays permitted: an alert keeps its owner for as
\* long as there is the alert.
MayStill(b) == rows[b.watch] = Deleted \/ rows[b.watch].owner = b.by \/ b.admin

Permitted(r) == req[r].pc \in Past /\ Body(r).op \in Edits => MayStill(Body(r))

\* A request that has not arrived has seen no default words.
Unseen(r) == req[r].pc = "idle" => seeds[r] = {}

\* The children of an alert have terms of their kind.
TermOK(c) == c.term \in IF c.kind = "marketplace" THEN Marketplaces ELSE Terms

StoreInv == (\A r \in Requests : Permitted(r) /\ Unseen(r)) /\ \A c \in children : TermOK(c)

\* A request keeps its body once it has arrived, and does not arrive again.
LEMMA BodyStays ==
    ASSUME IInv, NEW r \in Requests, Statement(r) \/ Fail(r)
    PROVE  Body(r)' = Body(r) /\ req'[r].pc # "idle"
<1> DEFINE Kept == Body(r)' = Body(r) /\ req'[r].pc # "idle"
<1>1. /\ req \in [Requests -> RequestStates]
      /\ req[r] \in RequestStates
      /\ DOMAIN req[r] = {"pc", "body", "of", "row", "blocked", "removed", "added", "answer"}
  BY DEF IInv, TypeOK, RequestStates
<1>2. ASSUME NEW answer \in {"ok", "bad", "missing", "error"}, Answer(r, answer)
      PROVE  Kept
  BY <1>2, AnswerEffect DEF Body
<1>3. ASSUME NEW answer \in {"ok", "bad", "missing", "error"}, Refuse(r, answer)
      PROVE  Kept
  BY <1>2, <1>3 DEF Refuse
<1>4. ASSUME NEW statement, statement # "idle", Goto(r, statement)
      PROVE  Kept
  BY <1>1, <1>4 DEF Goto, Body
<1>5. ASSUME NEW x, NEW y, NEW z, x # "idle",
             \/ req' = [req EXCEPT ![r].pc = x, ![r].of = y, ![r].row = z]
             \/ req' = [req EXCEPT ![r].pc = x, ![r].blocked = y]
             \/ req' = [req EXCEPT ![r].row = y, ![r].blocked = z, ![r].pc = x]
             \/ req' = [req EXCEPT ![r].pc = x, ![r].removed = y]
             \/ req' = [req EXCEPT ![r].pc = x, ![r].added = y]
      PROVE  Kept
  BY <1>1, <1>5 DEF Body
<1>6. GetWatchByID(r) => Kept
  <2> SUFFICES ASSUME GetWatchByID(r) PROVE Kept
    OBVIOUS
  <2>1. Body(r).op \in {"update", "setActive", "delete"}
    <3>1. req[r].pc = "GetWatchByID" /\ req[r].pc \in Statements
      BY DEF GetWatchByID, Statements
    <3> QED BY <3>1, AtStatement DEF OperationsAt
  <2>2. Refuse(r, "missing") \/ \E statement : statement # "idle" /\ Goto(r, statement)
    BY <2>1 DEF GetWatchByID
  <2> QED BY <2>2, <1>3, <1>4
<1>7. CreateWatch(r) => Kept
  <2> SUFFICES ASSUME CreateWatch(r) PROVE Kept
    OBVIOUS
  <2>1. CASE Refuse(r, "bad")
    BY <2>1, <1>3
  <2>2. CASE ~ Refuse(r, "bad")
    <3>1. PICK w \in Free :
             req' = [req EXCEPT ![r].pc = "ListDefaultBlockedWords", ![r].of = w,
                                ![r].row = [owner |-> Body(r).by, scalars |-> Body(r).scalars,
                                            active |-> TRUE, by |-> r]]
      BY <2>2, Zenon DEF CreateWatch
    <3> QED BY <3>1, <1>5
  <2> QED BY <2>1, <2>2
<1>8. ListDefaultBlockedWords(r) => Kept
  BY <1>5 DEF ListDefaultBlockedWords
<1>9. UpdateWatch(r) => Kept
  <2> SUFFICES ASSUME UpdateWatch(r) PROVE Kept
    OBVIOUS
  <2>1. CASE Refuse(r, "bad")
    BY <2>1, <1>3
  <2>2. CASE ~ Refuse(r, "bad")
    <3>1. StartReplacing(r)
      BY <2>2, Zenon DEF UpdateWatch
    <3>2. PICK words \in SUBSET Body(r).blocked :
             req' = [req EXCEPT ![r].row = UpdatedRow(r), ![r].blocked = words,
                        ![r].pc = IF Body(r).op = "settings" THEN "DeleteBlockedWords"
                                  ELSE "DeleteKeywords"]
      BY <3>1, Zenon DEF StartReplacing
    <3> QED BY <3>2, <1>5
  <2> QED BY <2>1, <2>2
<1>10. ASSUME NEW statement, NEW kind, NEW next, next # "idle",
             DeleteChildren(r, statement, kind, next)
       PROVE  Kept
  <2>1. \E y : req' = [req EXCEPT ![r].pc = next, ![r].removed = y]
    BY <1>10 DEF DeleteChildren
  <2> QED BY <2>1, <1>5, <1>10
<1>11. WriteChildren(r) => Kept
  <2> SUFFICES ASSUME WriteChildren(r) PROVE Kept
    OBVIOUS
  <2>1. CASE Refuse(r, "bad")
    BY <2>1, <1>3
  <2>2. CASE ~ Refuse(r, "bad")
    <3>1. \E y : req' = [req EXCEPT ![r].pc = "Commit", ![r].added = y]
      BY <2>2 DEF WriteChildren
    <3> QED BY <3>1, <1>5
  <2> QED BY <2>1, <2>2
<1>12. Commit(r) => Kept
  BY <1>2 DEF Commit
<1>13. SetWatchActive(r) => Kept
  BY <1>2, <1>3 DEF SetWatchActive
<1>14. DeleteWatch(r) => Kept
  BY <1>2 DEF DeleteWatch
<1>15. Fail(r) => Kept
  BY <1>3 DEF Fail
<1> QED BY <1>6, <1>7, <1>8, <1>9, <1>10, <1>11, <1>12, <1>13, <1>14, <1>15 DEF Statement

\* What a commit does to the columns of its row.
LEMMA CommitRow ==
    ASSUME IInv, NEW r \in Requests, NEW of, of = req[r].of, Commit(r)
    PROVE  /\ rows'[of] \in RowRecords
           /\ rows'[of].scalars = Body(r).scalars
           /\ Body(r).op = "create" => /\ rows[of] = None
                                       /\ rows'[of].owner = Body(r).by
                                       /\ rows'[of].active = TRUE
           /\ Body(r).op # "create" => /\ Exists(of)
                                       /\ rows'[of].owner = rows[of].owner
                                       /\ rows'[of].active = rows[of].active
<1>1. /\ req[r].pc = "Commit"
      /\ rows \in [Rows -> RowRecords \cup {None, Deleted}]
      /\ rows' = [rows EXCEPT ![of] = req[r].row]
      /\ RequestOK(r)
  BY DEF Commit, IInv, TypeOK
<1>2. /\ of \in Rows
      /\ rows'[of] \in RowRecords
      /\ Exists(of) => rows'[of].active = rows[of].active
  BY CommitEffect
<1>3. \/ Body(r).op \in {"update", "settings"} /\ Replacing(r)
      \/ Body(r).op = "create" /\ Creating(r)
  BY CommitEffect, Zenon
<1>4. rows'[of] = req[r].row
  BY <1>1, <1>2
<1>5. CASE Creating(r)
  BY <1>5, <1>1, <1>2, <1>4 DEF RequestOK, CreateOK, Creating
<1>6. CASE Body(r).op # "create" /\ Replacing(r)
  <2>1. /\ rows[of] \in RowRecords
        /\ Exists(of)
        /\ req[r].row = UpdatedRow(r)
    BY <1>6, <1>1, <1>2 DEF RequestOK, ReplaceOK, Exists
  <2> DEFINE row1 == [rows[of] EXCEPT !.scalars = Body(r).scalars]
  <2>2. /\ DOMAIN row1 = {"owner", "scalars", "active", "by"}
        /\ row1.owner = rows[of].owner
        /\ row1.scalars = Body(r).scalars
    BY <2>1 DEF RowRecords
  <2>3. UpdatedRow(r) = [row1 EXCEPT !.by = r]
    BY DEF UpdatedRow
  <2>4. UpdatedRow(r).owner = rows[of].owner /\ UpdatedRow(r).scalars = Body(r).scalars
    <3> HIDE DEF row1
    <3> QED BY <2>2, <2>3
  <2> QED BY <1>2, <1>4, <1>6, <2>1, <2>4
<1> QED BY <1>3, <1>5, <1>6

\* Only these three write what is committed.
LEMMA Writers ==
    ASSUME IInv, NEW r \in Requests, Arrive(r) \/ Statement(r) \/ Fail(r)
    PROVE  \/ Commit(r) \/ DeleteWatch(r)
           \/ SetWatchActive(r) /\ ~ Refuse(r, "error")
           \/ UNCHANGED <<rows, children>>
BY DEF Statement, Arrive, Fail, Refuse, GetWatchByID, CreateWatch, ListDefaultBlockedWords,
       UpdateWatch, DeleteChildren, WriteChildren, SetWatchActive

\* An alert keeps its owner, and once deleted is no alert again.
LEMMA OwnersStay ==
    ASSUME IInv, NEW r \in Requests, Arrive(r) \/ Statement(r) \/ Fail(r), NEW x \in Rows
    PROVE  /\ Exists(x) => rows'[x] = Deleted \/ rows'[x].owner = rows[x].owner
           /\ rows[x] = Deleted => rows'[x] = Deleted
<1>1. rows \in [Rows -> RowRecords \cup {None, Deleted}]
  BY DEF IInv, TypeOK
<1>2. PICK of : of = req[r].of
  OBVIOUS
<1>3. CASE Commit(r)
  <2>1. x # of => rows'[x] = rows[x]
    BY <1>2, <1>3, CommitEffect
  <2>2. rows[of] = None \/ (Exists(of) /\ rows'[of].owner = rows[of].owner)
    <3>1. CASE Body(r).op = "create"
      BY <3>1, <1>2, <1>3, CommitRow
    <3>2. CASE Body(r).op # "create"
      BY <3>2, <1>2, <1>3, CommitRow
    <3> QED BY <3>1, <3>2
  <2> QED BY <2>1, <2>2, RowAssumption DEF Exists
<1>4. CASE DeleteWatch(r)
  <2>1. rows' = [rows EXCEPT ![of] = Deleted]
    BY <1>2, <1>4 DEF DeleteWatch
  <2> QED BY <1>1, <2>1
<1>5. CASE SetWatchActive(r) /\ ~ Refuse(r, "error")
  <2>1. Exists(of) /\ rows' = [rows EXCEPT ![of].active = Body(r).active]
    BY <1>2, <1>5 DEF SetWatchActive
  <2>2. CASE x = of
    <3>1. rows[x] \in RowRecords
      BY <1>1, <2>1, <2>2 DEF Exists
    <3>2. rows'[x] = [rows[x] EXCEPT !.active = Body(r).active]
      BY <1>1, <2>1, <2>2
    <3>3. [rows[x] EXCEPT !.active = Body(r).active].owner = rows[x].owner
      BY <3>1 DEF RowRecords
    <3> QED BY <3>2, <3>3, <2>1, <2>2 DEF Exists
  <2>3. CASE x # of
    BY <1>1, <2>1, <2>3
  <2> QED BY <2>2, <2>3
<1>6. CASE UNCHANGED <<rows, children>>
  BY <1>6 DEF Exists
<1> QED BY <1>3, <1>4, <1>5, <1>6, Writers

\* The step of one request is not another's.
LEMMA OtherRequests ==
    ASSUME IInv, NEW r \in Requests, Arrive(r) \/ Statement(r) \/ Fail(r),
           NEW s \in Requests, s # r
    PROVE  req'[s] = req[s] /\ (req[s].pc = "idle" => seeds'[s] = seeds[s])
<1>1. req \in [Requests -> RequestStates] /\ seeds \in [Requests -> SUBSET SUBSET Terms]
  BY DEF IInv, TypeOK
<1>2. ASSUME NEW x, req' = [req EXCEPT ![r] = x]
      PROVE  req'[s] = req[s]
  BY <1>1, <1>2
<1>3. \E x : req' = [req EXCEPT ![r] = x]
  BY DEF Statement, Arrive, Fail, Refuse, Answer, Goto, GetWatchByID, CreateWatch,
     ListDefaultBlockedWords, UpdateWatch, StartReplacing, DeleteChildren, WriteChildren, Commit,
     SetWatchActive, DeleteWatch
<1>4. \/ UNCHANGED seeds
      \/ seeds' = [seeds EXCEPT ![r] = {DefaultWords}]
      \/ NoteSeeds
  BY DEF Statement, Arrive, Fail, Refuse, GetWatchByID, CreateWatch,
     ListDefaultBlockedWords, UpdateWatch, DeleteChildren, WriteChildren, Commit,
     SetWatchActive, DeleteWatch
<1>5. req[s].pc = "idle" => seeds'[s] = seeds[s]
  BY <1>1, <1>4 DEF NoteSeeds, Statements
<1> QED BY <1>2, <1>3, <1>5

\* A request that arrives is no edit past getOwnedWatch.
LEMMA Arrived ==
    ASSUME IInv, NEW r \in Requests, Arrive(r)
    PROVE  req'[r].pc # "idle" /\ (Body(r)'.op \in Edits => req'[r].pc \notin Past)
<1>1. /\ req \in [Requests -> RequestStates]
      /\ DOMAIN req[r] = {"pc", "body", "of", "row", "blocked", "removed", "added", "answer"}
  BY DEF IInv, TypeOK, RequestStates
<1>2. PICK b \in Bodies :
         req' = [req EXCEPT ![r] =
                    IF WellFormed(b)
                    THEN [@ EXCEPT !.pc = FirstStatement(b), !.body = b,
                                   !.of = IF b.op = "settings" THEN Settings ELSE b.watch]
                    ELSE [@ EXCEPT !.pc = "answered", !.body = b, !.answer = "bad"]]
  BY Zenon DEF Arrive
<1>3. req'[r].body = b /\ req'[r].pc \in {FirstStatement(b), "answered"}
  <2>1. CASE WellFormed(b)
    BY <1>1, <1>2, <2>1
  <2>2. CASE ~ WellFormed(b)
    BY <1>1, <1>2, <2>2
  <2> QED BY <2>1, <2>2
<1>4. /\ FirstStatement(b) # "idle"
      /\ b.op \in Edits => FirstStatement(b) = "GetWatchByID"
  BY DEF FirstStatement, Edits
<1> QED BY <1>3, <1>4 DEF Body, Past, Writing

\* An edit gets past getOwnedWatch by being let through.
LEMMA LetThrough ==
    ASSUME IInv, NEW r \in Requests, Statement(r) \/ Fail(r), Body(r).op \in Edits,
           req[r].pc \notin Past, req'[r].pc \in Past
    PROVE  /\ UNCHANGED <<rows, children>>
           /\ rows[Body(r).watch].owner = Body(r).by \/ Body(r).admin
<1>1. req[r].pc \in Statements
  BY DEF Statement, Fail, GetWatchByID, CreateWatch, ListDefaultBlockedWords, UpdateWatch,
     DeleteChildren, WriteChildren, Commit, SetWatchActive, DeleteWatch, Statements
<1>2. req[r].pc = "GetWatchByID"
  BY <1>1, AtStatement DEF OperationsAt, Edits, Past, Writing, Statements
<1>3. ASSUME NEW answer \in {"ok", "bad", "missing", "error"}, Refuse(r, answer)
      PROVE  FALSE
  <2>1. req'[r].pc = "answered"
    BY <1>3, AnswerEffect DEF Refuse
  <2> QED BY <2>1 DEF Past, Writing
<1>4. GetWatchByID(r) /\ ~ Refuse(r, "missing")
  BY <1>2, <1>3 DEF Statement, Fail, CreateWatch, ListDefaultBlockedWords, UpdateWatch,
     DeleteChildren, WriteChildren, Commit, SetWatchActive, DeleteWatch
<1> QED BY <1>4 DEF GetWatchByID

\* A step keeps what the edits of alerts were let through for.
LEMMA StoreInvKept == IInv /\ IInv' /\ StoreInv /\ [Next]_vars => StoreInv'
<1> SUFFICES ASSUME IInv, IInv', StoreInv, [Next]_vars
             PROVE  /\ \A s \in Requests : Permitted(s)' /\ Unseen(s)'
                    /\ \A c \in children' : TermOK(c)
  BY DEF StoreInv, TermOK
<1>1. CASE UNCHANGED vars
  BY <1>1 DEF StoreInv, Permitted, Unseen, MayStill, TermOK, Body, vars
<1>2. CASE Next
  <2>1. PICK r \in Requests : Arrive(r) \/ Statement(r) \/ Fail(r)
    BY <1>2 DEF Next
  <2>2. ASSUME NEW b \in Bodies, b.op \in Edits, MayStill(b), rows[b.watch] # None
        PROVE  MayStill(b)'
    <3>1. b.watch \in Rows
      BY <2>2, ConstantsAssumption DEF Edits, Rows
    <3>2. /\ Exists(b.watch) => rows'[b.watch] = Deleted
                                   \/ rows'[b.watch].owner = rows[b.watch].owner
          /\ rows[b.watch] = Deleted => rows'[b.watch] = Deleted
      BY <2>1, <3>1, OwnersStay
    <3> QED BY <2>2, <3>2 DEF MayStill, Exists
  <2>3. ASSUME NEW s \in Requests
        PROVE  Permitted(s)' /\ Unseen(s)'
    <3>3. ASSUME req[s].pc \in Past \cup {"GetWatchByID"}, Body(s).op \in Edits
          PROVE  Body(s) \in Bodies /\ req[s].of = Body(s).watch
      <4>1. req[s].pc \in Statements
        BY <3>3 DEF Past, Writing, Statements
      <4> QED BY <3>3, <4>1, AtStatement DEF Edits, Target
    <3>4. ASSUME req[s].pc \in Past, Body(s).op \in Edits
          PROVE  rows[Body(s).watch] # None
      <4>1. RequestOK(s) /\ req[s].of = Body(s).watch
        BY <3>3, <3>4 DEF IInv
      <4>2. CASE req[s].pc \in Writing
        <5>1. Body(s).op = "update"
          <6>1. req[s].pc \in Statements
            BY <4>2 DEF Writing, Statements
          <6> QED BY <6>1, <4>2, <3>4, AtStatement DEF OperationsAt, Writing, Edits
        <5> QED BY <4>1, <4>2, <5>1 DEF RequestOK, ReplaceOK, Replacing, Exists
      <4>3. CASE req[s].pc \in {"UpdateWatch", "SetWatchActive", "DeleteWatch"}
        BY <4>1, <4>3 DEF RequestOK, AtItsStatement
      <4> QED BY <3>4, <4>2, <4>3 DEF Past
    <3>5. CASE s # r
      <4>1. req'[s] = req[s] /\ (req[s].pc = "idle" => seeds'[s] = seeds[s])
        BY <2>1, <3>5, OtherRequests
      <4>2. ASSUME Permitted(s), req[s].pc \in Past, Body(s).op \in Edits
            PROVE  MayStill(Body(s))'
        <5>1. MayStill(Body(s)) /\ Body(s) \in Bodies /\ rows[Body(s).watch] # None
          BY <4>2, <3>3, <3>4 DEF Permitted
        <5> QED BY <5>1, <4>1, <4>2, <2>2 DEF MayStill, Body
      <4> QED BY <4>1, <4>2 DEF StoreInv, Permitted, Unseen, Body
    <3>6. CASE s = r /\ Arrive(r)
      <4>1. req'[s].pc # "idle" /\ (Body(s)'.op \in Edits => req'[s].pc \notin Past)
        BY <3>6, Arrived
      <4> QED BY <4>1 DEF Permitted, Unseen
    <3>7. CASE s = r /\ (Statement(r) \/ Fail(r))
      <4>1. Body(s)' = Body(s) /\ req'[s].pc # "idle"
        BY <3>7, BodyStays
      <4>2. ASSUME req'[s].pc \in Past, Body(s).op \in Edits
            PROVE  MayStill(Body(s))'
        <5>1. CASE req[s].pc \in Past
          <6>1. MayStill(Body(s)) /\ Body(s) \in Bodies /\ rows[Body(s).watch] # None
            BY <5>1, <4>2, <3>3, <3>4 DEF StoreInv, Permitted
          <6> QED BY <6>1, <4>1, <4>2, <2>2 DEF MayStill
        <5>2. CASE req[s].pc \notin Past
          <6>1. /\ UNCHANGED <<rows, children>>
                /\ rows[Body(s).watch].owner = Body(s).by \/ Body(s).admin
            BY <3>7, <4>2, <5>2, LetThrough
          <6> QED BY <4>1, <6>1 DEF MayStill
        <5> QED BY <5>1, <5>2
      <4> QED BY <4>1, <4>2 DEF Permitted, Unseen
    <3> QED BY <2>1, <3>5, <3>6, <3>7
  <2>4. ASSUME NEW c \in children'
        PROVE  TermOK(c)
    <3>1. CASE Commit(r)
      <4>1. CASE c \in children
        BY <4>1 DEF StoreInv
      <4>2. CASE c \notin children
        <5>1. c \in Additions(r) /\ Body(r) \in BodyRecords
          <6>1. req[r].pc = "Commit" /\ req[r].pc \in Statements
            BY <3>1 DEF Commit, Statements
          <6>2. req[r].added = Additions(r)
            BY <6>1 DEF IInv, RequestOK, AddedOK
          <6> QED BY <3>1, <4>2, <6>1, <6>2, AtStatement DEF Commit
        <5>2. req[r].blocked \subseteq Terms
          BY DEF IInv, TypeOK, RequestStates
        <5>3. /\ Body(r).keywords \subseteq Terms
              /\ Body(r).marketplaces \subseteq Marketplaces
          BY <5>1 DEF BodyRecords
        <5> QED BY <5>1, <5>2, <5>3, ChildrenAdded DEF Additions, TermOK
      <4> QED BY <4>1, <4>2
    <3>2. CASE ~ Commit(r)
      <4>1. children' \subseteq children
        BY <2>1, <3>2, Writers DEF SetWatchActive, DeleteWatch, Refuse
      <4> QED BY <4>1 DEF StoreInv
    <3> QED BY <3>1, <3>2
  <2> QED BY <2>3, <2>4
<1> QED BY <1>1, <1>2

\* The variables of AlertStore.
Wholes == [row \in Rows |-> Whole(row)]

Lists == {DefaultWords} \cup UNION {seeds[r] : r \in Requests}

\* Nobody has asked for anything at first.
LEMMA InitStore == Init => StoreInv
<1> SUFFICES ASSUME Init
             PROVE  (\A r \in Requests : Permitted(r) /\ Unseen(r)) /\ \A c \in children : TermOK(c)
  BY DEF StoreInv
<1>1. /\ req = [x \in Requests |-> IdleRequest]
      /\ seeds = [x \in Requests |-> {}]
      /\ children = [of : {Settings}, kind : {"blocked"}, term : Seed, by : {None}] \cup
            [of : DOMAIN Saved, kind : {"marketplace"}, term : Marketplaces \ Unknown, by : {None}]
  BY Zenon DEF Init
<1>2. \A r \in Requests : req[r].pc = "idle" /\ seeds[r] = {}
  BY <1>1 DEF IdleRequest
<1>3. ASSUME NEW c \in children
      PROVE  TermOK(c)
  <2>1. CASE c \in [of : {Settings}, kind : {"blocked"}, term : Seed, by : {None}]
    BY <2>1, ConstantsAssumption DEF TermOK
  <2>2. CASE c \in [of : DOMAIN Saved, kind : {"marketplace"}, term : Marketplaces \ Unknown,
                    by : {None}]
    BY <2>2 DEF TermOK
  <2> QED BY <2>1, <2>2, <1>1
<1> QED BY <1>2, <1>3 DEF Permitted, Unseen, Past, Writing

\* The invariant of the refinement.
LEMMA StoreInvariant == Spec => [](IInv /\ StoreInv)
BY InitInv, InitStore, NextInv, StoreInvKept, PTL DEF Spec

\* An alert is the same when its row and all below it are.
LEMMA WholeKept ==
    ASSUME NEW x \in Rows, rows'[x] = rows[x], Family(x)' = Family(x)
    PROVE  Whole(x)' = Whole(x)
<1>1. \A kind : Listed(x, kind)' = Listed(x, kind)
  <2>1. ASSUME NEW kind
        PROVE  Below(x, kind)' = Below(x, kind)
    BY DEF Below, Family
  <2> QED BY <2>1 DEF Listed
<1> QED BY <1>1 DEF Whole, Exists

\* An alert with all below it is one.
LEMMA WholeTyped ==
    ASSUME IInv, StoreInv, NEW x \in Rows, Exists(x)
    PROVE  Whole(x) \in Store!AlertRecords /\ Whole(x) \notin {None, Deleted}
<1>1. rows[x] \in RowRecords
  BY DEF IInv, TypeOK, Exists
<1>2. /\ Listed(x, "keyword") \in SUBSET Terms
      /\ Listed(x, "blocked") \in SUBSET Terms
      /\ Listed(x, "marketplace") \in SUBSET Marketplaces
  BY DEF StoreInv, TermOK, Listed, Below
<1>3. Whole(x) \in Store!AlertRecords
  BY <1>1, <1>2 DEF Whole, Store!AlertRecords, RowRecords, Optional
<1> QED BY <1>3, StoreAssumption

\* A step that writes one alert.
LEMMA OneAlert ==
    ASSUME NEW of \in Rows, \A x \in Rows : x # of => rows'[x] = rows[x] /\ Family(x)' = Family(x),
           NEW alert, alert = Whole(of)'
    PROVE  Wholes' = [Wholes EXCEPT ![of] = alert]
<1>1. \A x \in Rows : x # of => Whole(x)' = Whole(x)
  BY WholeKept
<1>2. Wholes' = [x \in Rows |-> Whole(x)']
  BY DEF Wholes
<1>3. [Wholes EXCEPT ![of] = alert] = [x \in Rows |-> IF x = of THEN alert ELSE Whole(x)]
  BY DEF Wholes
<1>4. ASSUME NEW x \in Rows
      PROVE  Whole(x)' = IF x = of THEN alert ELSE Whole(x)
  <2>1. CASE x = of
    BY <2>1
  <2>2. CASE x # of
    BY <1>1, <2>2
  <2> QED BY <2>1, <2>2
<1> HIDE DEF Wholes
<1> QED BY <1>2, <1>3, <1>4

\* The lists there have been do not change but when the default words do.
LEMMA ListsGrow ==
    ASSUME IInv, StoreInv, NEW r \in Requests, Arrive(r) \/ Statement(r) \/ Fail(r)
    PROVE  /\ Commit(r) => Lists' = Lists \cup {DefaultWords'}
           /\ ~ Commit(r) /\ DefaultWords' = DefaultWords => Lists' = Lists
<1>1. seeds \in [Requests -> SUBSET SUBSET Terms]
  BY DEF IInv, TypeOK
<1>2. CASE Commit(r)
  <2>1. DefaultWords \in seeds[r]
    BY <1>2 DEF Commit, IInv, RequestOK, SeedsOK, Statements
  <2>2. req[r].pc \in Statements
    BY <1>2 DEF Commit, Statements
  <2>3. \A s \in Requests : seeds'[s] = IF req[s].pc \in Statements
                                        THEN seeds[s] \cup {DefaultWords'} ELSE seeds[s]
    BY <1>2 DEF Commit, NoteSeeds
  <2>4. PICK words1 : words1 = DefaultWords'
    OBVIOUS
  <2> DEFINE words == DefaultWords
  <2>5. UNION {seeds'[s] : s \in Requests} = (UNION {seeds[s] : s \in Requests}) \cup {words1}
    <3>1. \A s \in Requests : /\ seeds[s] \subseteq seeds'[s]
                              /\ seeds'[s] \subseteq seeds[s] \cup {words1}
      BY <2>3, <2>4
    <3>2. words1 \in seeds'[r]
      BY <2>2, <2>3, <2>4
    <3>3. \A x : (\E s \in Requests : x \in seeds'[s])
                   <=> (\E s \in Requests : x \in seeds[s]) \/ x = words1
      BY <3>1, <3>2
    <3>4. \A x : x \in UNION {seeds'[s] : s \in Requests}
                   <=> \E s \in Requests : x \in seeds'[s]
      OBVIOUS
    <3>5. \A x : x \in UNION {seeds[s] : s \in Requests}
                   <=> \E s \in Requests : x \in seeds[s]
      OBVIOUS
    <3> QED BY <3>3, <3>4, <3>5
  <2>6. words \in UNION {seeds[s] : s \in Requests}
    BY <2>1
  <2>7. Lists' = {words1} \cup UNION {seeds'[s] : s \in Requests}
    BY <2>4 DEF Lists
  <2>8. Lists = {words} \cup UNION {seeds[s] : s \in Requests}
    BY DEF Lists
  <2> QED BY <1>2, <2>4, <2>5, <2>6, <2>7, <2>8
<1>3. CASE ~ Commit(r) /\ DefaultWords' = DefaultWords
  <2>1. UNCHANGED seeds \/ Arrive(r)
    BY <1>3 DEF Statement, Fail, Refuse, GetWatchByID, CreateWatch, ListDefaultBlockedWords,
       UpdateWatch, DeleteChildren, WriteChildren, SetWatchActive, DeleteWatch
  <2>2. CASE UNCHANGED seeds
    BY <1>3, <2>2 DEF Lists
  <2>3. CASE Arrive(r)
    <3>1. seeds[r] = {} /\ seeds' = [seeds EXCEPT ![r] = {DefaultWords}]
      BY <2>3 DEF Arrive, StoreInv, Unseen
    <3>2. \A s \in Requests : seeds'[s] = IF s = r THEN {DefaultWords} ELSE seeds[s]
      BY <1>1, <3>1
    <3> DEFINE words == DefaultWords
    <3>3. UNION {seeds'[s] : s \in Requests} = (UNION {seeds[s] : s \in Requests}) \cup {words}
      BY <3>1, <3>2
    <3>4. Lists' = {words} \cup UNION {seeds'[s] : s \in Requests}
      BY <1>3 DEF Lists
    <3>5. Lists = {words} \cup UNION {seeds[s] : s \in Requests}
      BY DEF Lists
    <3> QED BY <1>3, <3>3, <3>4, <3>5
  <2> QED BY <2>1, <2>2, <2>3
<1> QED BY <1>2, <1>3

\* The commit of a creation, an edit or the settings is the step of that request.
LEMMA CommitIsStep ==
    ASSUME IInv, StoreInv, NEW r \in Requests, Commit(r)
    PROVE  Store!Next
<1>1. PICK of : of = req[r].of
  OBVIOUS
<1>2. PICK b : b = Body(r)
  OBVIOUS
<1>3. /\ of \in Rows
      /\ \A x \in Rows : x # of => rows'[x] = rows[x] /\ Family(x)' = Family(x)
      /\ Family(of)' = Additions(r)
      /\ rows'[of] \in RowRecords
      /\ rows'[of].scalars = b.scalars
  <2>1. rows'[of].scalars = b.scalars
    BY <1>1, <1>2, CommitRow
  <2> QED BY <2>1, <1>1, CommitEffect
<1>4. /\ of = Settings <=> b.op = "settings"
      /\ b.op \in {"create", "update", "settings"}
  BY <1>1, <1>2, CommitEffect, Zenon
<1>5. /\ Listed(of, "blocked")' = req[r].blocked
      /\ Listed(of, "marketplace")' = b.marketplaces
      /\ Listed(of, "keyword")' = IF b.op = "settings" THEN {} ELSE b.keywords
  BY <1>2, <1>3, AdditionsListed
<1>6. Whole(of)' = Store!Alert(b, rows'[of].owner, rows'[of].active,
                               IF b.op = "settings" THEN {} ELSE b.keywords, req[r].blocked)
  BY <1>3, <1>5, RowAssumption DEF Whole, Exists, Store!Alert
<1>7. /\ req[r].pc = "Commit"
      /\ req[r].pc \in Statements
      /\ req[r].pc \in Past
      /\ req[r].blocked \in SUBSET Terms
      /\ RequestOK(r)
  BY DEF Commit, Statements, Past, Writing, IInv, TypeOK, RequestStates
<1>8. /\ b \in Bodies
      /\ WellFormed(b)
      /\ b.op # "create" => of = Target(b)
  BY <1>1, <1>2, <1>7, AtStatement
<1>9. b \in Acceptable
  <2>1. b.scalars \notin Impossible
    BY <1>3 DEF RowRecords
  <2>2. b.marketplaces \cap Unknown = {}
    BY <1>2, <1>7 DEF RequestOK, AddedOK
  <2> QED BY <1>8, <2>1, <2>2 DEF Acceptable
<1>10. Lists' = Lists \cup {DefaultWords'}
  BY ListsGrow DEF Statement
<1>11. \A s, t : Store!OneSpelling(s, t) <=> OneSpelling(s, t)
  BY DEF Store!OneSpelling, OneSpelling, Store!Folded, Folded
<1>12. \A s, t, u : Store!Seeded(s, t, u) <=> Seeded(s, t, u)
  BY <1>11 DEF Store!Seeded, Seeded, Store!Folded, Folded
<1>13. ASSUME b.op # "settings"
       PROVE  Lists' = Lists
  <2>1. Family(Settings)' = Family(Settings)
    BY <1>3, <1>4, <1>13 DEF Rows
  <2>2. DefaultWords' = DefaultWords
    BY <2>1 DEF DefaultWords, Listed, Below, Family
  <2> QED BY <1>10, <2>2 DEF Lists
<1>14. CASE b.op = "create"
  <2>1. /\ Creating(r)
        /\ of \in Watches
        /\ rows[of] = None
        /\ rows'[of].owner = b.by
        /\ rows'[of].active = TRUE
    BY <1>1, <1>2, <1>7, <1>14, CommitRow DEF Creating, RequestOK, CreateOK
  <2>2. PICK defaults \in seeds[r] : Seeded(b.blocked, defaults, req[r].blocked)
    BY <1>2, <1>7, <2>1 DEF RequestOK, CreateOK
  <2>3. defaults \in Lists
    BY DEF Lists
  <2>4. Wholes' = [Wholes EXCEPT ![of] = Store!Alert(b, b.by, TRUE, b.keywords, req[r].blocked)]
    <3>1. Whole(of)' = Store!Alert(b, b.by, TRUE, b.keywords, req[r].blocked)
      BY <1>6, <1>14, <2>1
    <3> QED BY <1>3, <3>1, OneAlert
  <2>5. Wholes[of] = None
    BY <1>3, <2>1 DEF Wholes, Whole, Exists
  <2>6. Store!Create(b)
    BY <1>7, <1>12, <1>13, <1>14, <2>1, <2>2, <2>3, <2>4, <2>5
    DEF Store!Create, Wholes, Lists
  <2> QED BY <1>9, <1>14, <2>6 DEF Store!Next, Store!Asked
<1>15. ASSUME b.op # "create"
       PROVE  /\ Exists(of)
              /\ Wholes[of].owner = rows'[of].owner
              /\ Wholes[of].active = rows'[of].active
  <2>1. /\ Exists(of)
        /\ rows'[of].owner = rows[of].owner
        /\ rows'[of].active = rows[of].active
    BY <1>1, <1>2, <1>15, CommitRow
  <2> QED BY <1>3, <2>1 DEF Wholes, Whole
<1>16. CASE b.op = "update"
  <2>1. of = b.watch /\ req[r].blocked = b.blocked
    BY <1>2, <1>7, <1>8, <1>16 DEF Target, RequestOK, ReplaceOK, Replacing, Writing
  <2>2. Wholes' = [Wholes EXCEPT ![of] = Store!Alert(b, @.owner, @.active, b.keywords, b.blocked)]
    BY <1>3, <1>6, <1>15, <1>16, <2>1, OneAlert
  <2>3. Wholes[of] \notin {None, Deleted}
    BY <1>3, <1>15, <1>16, WholeTyped DEF Wholes
  <2>4. Wholes[of].owner = b.by \/ b.admin
    <3>1. rows[of].owner = b.by \/ b.admin
      BY <1>2, <1>7, <1>15, <1>16, <2>1 DEF StoreInv, Permitted, MayStill, Edits, Exists
    <3> QED BY <1>3, <1>15, <1>16, <3>1 DEF Wholes, Whole
  <2>5. Store!Update(b)
    BY <1>13, <1>16, <2>1, <2>2, <2>3, <2>4
    DEF Store!Update, Store!Exists, Store!May, Wholes, Lists
  <2> QED BY <1>9, <1>16, <2>5 DEF Store!Next, Store!Asked
<1>17. CASE b.op = "settings"
  <2>1. of = Settings /\ OneSpelling(b.blocked, req[r].blocked)
    BY <1>2, <1>4, <1>7, <1>17 DEF RequestOK, ReplaceOK, Replacing, Writing
  <2>2. Wholes' = [Wholes EXCEPT ![of] = Store!Alert(b, @.owner, @.active, {}, req[r].blocked)]
    BY <1>3, <1>6, <1>15, <1>17, OneAlert
  <2>3. DefaultWords' = req[r].blocked
    BY <1>5, <2>1 DEF DefaultWords
  <2>4. b.admin
    BY <1>8, <1>17, ConstantsAssumption
  <2>5. Store!SaveSettings(b)
    BY <1>7, <1>10, <1>11, <2>1, <2>2, <2>3, <2>4 DEF Store!SaveSettings, Wholes, Lists
  <2> QED BY <1>9, <1>17, <2>5 DEF Store!Next, Store!Asked
<1> QED BY <1>4, <1>14, <1>16, <1>17

\* A pause or a deletion under way is of an alert there was, by someone permitted.
LEMMA InAutocommitPermitted ==
    ASSUME IInv, StoreInv, NEW r \in Requests, NEW b, b = Body(r),
           req[r].pc \in {"SetWatchActive", "DeleteWatch"}
    PROVE  /\ b \in Acceptable
           /\ req[r].of = b.watch
           /\ b.watch \in Rows /\ b.watch # Settings
           /\ b.op = IF req[r].pc = "SetWatchActive" THEN "setActive" ELSE "delete"
           /\ Exists(b.watch) => /\ Store!Exists(b.watch)
                                 /\ Store!May(b, b.watch)
<1>1. req[r].pc \in Statements /\ req[r].pc \in Past
  BY DEF Statements, Past
<1>2. /\ b \in Bodies
      /\ WellFormed(b)
      /\ b.op = IF req[r].pc = "SetWatchActive" THEN "setActive" ELSE "delete"
      /\ b.op # "create" => req[r].of = Target(b)
  BY <1>1, AtStatement DEF OperationsAt
<1>3. /\ req[r].of = b.watch
      /\ b.watch \in Rows /\ b.watch # Settings
  BY <1>2, ConstantsAssumption DEF Target, Rows
<1>4. b \in Acceptable
  BY <1>2 DEF Acceptable
<1>5. ASSUME Exists(b.watch)
      PROVE  Store!Exists(b.watch) /\ Store!May(b, b.watch)
  <2>1. Wholes[b.watch] \notin {None, Deleted}
    BY <1>3, <1>5, WholeTyped DEF Wholes
  <2>2. rows[b.watch].owner = b.by \/ b.admin
    BY <1>1, <1>2, <1>5 DEF StoreInv, Permitted, MayStill, Edits, Exists
  <2>3. Wholes[b.watch].owner = b.by \/ b.admin
    BY <1>3, <1>5, <2>2 DEF Wholes, Whole
  <2> QED BY <2>1, <2>3 DEF Store!Exists, Store!May, Wholes
<1> QED BY <1>2, <1>3, <1>4, <1>5

\* A pause that finds its row is the step of the request.
LEMMA SetWatchActiveIsStep ==
    ASSUME IInv, StoreInv, NEW r \in Requests, SetWatchActive(r), ~ Refuse(r, "error")
    PROVE  Store!Next
<1>1. PICK b : b = Body(r)
  OBVIOUS
<1>2. /\ req[r].pc = "SetWatchActive"
      /\ Exists(req[r].of)
      /\ rows' = [rows EXCEPT ![req[r].of].active = b.active]
      /\ UNCHANGED <<children, seeds>>
  BY <1>1 DEF SetWatchActive
<1>3. PICK of : of = b.watch
  OBVIOUS
<1>4. /\ b \in Acceptable
      /\ req[r].of = of
      /\ of \in Rows /\ of # Settings
      /\ b.op = "setActive"
      /\ Store!Exists(of)
      /\ Store!May(b, of)
  BY <1>1, <1>2, <1>3, InAutocommitPermitted
<1>5. /\ rows \in [Rows -> RowRecords \cup {None, Deleted}]
      /\ rows[of] \in RowRecords
      /\ b.active \in BOOLEAN
  BY <1>2, <1>4, ConstantsAssumption DEF IInv, TypeOK, Exists, Acceptable, BodyRecords
<1>6. \A x \in Rows : x # of => rows'[x] = rows[x]
  BY <1>2, <1>4, <1>5
<1>7. /\ rows'[of] \in RowRecords
      /\ rows'[of].owner = rows[of].owner
      /\ rows'[of].scalars = rows[of].scalars
      /\ rows'[of].active = b.active
  <2> DEFINE row == [rows[of] EXCEPT !.active = b.active]
  <2>1. /\ row \in RowRecords
        /\ row.owner = rows[of].owner
        /\ row.scalars = rows[of].scalars
        /\ row.active = b.active
    BY <1>5 DEF RowRecords
  <2>2. rows'[of] = row
    BY <1>2, <1>4, <1>5
  <2> HIDE DEF row
  <2> QED BY <2>1, <2>2
<1>8. \A x : Family(x)' = Family(x)
  BY <1>2 DEF Family
<1>9. Lists' = Lists /\ \A kind : Listed(of, kind)' = Listed(of, kind)
  BY <1>2 DEF Lists, DefaultWords, Listed, Below
<1>10. Whole(of)' = [Whole(of) EXCEPT !.active = b.active]
  BY <1>2, <1>4, <1>7, <1>9, RowAssumption DEF Whole, Exists
<1>11. Wholes' = [Wholes EXCEPT ![of].active = b.active]
  <2>1. Wholes' = [Wholes EXCEPT ![of] = [Whole(of) EXCEPT !.active = b.active]]
    BY <1>4, <1>6, <1>8, <1>10, OneAlert
  <2>2. Wholes[of] = Whole(of)
    BY <1>4 DEF Wholes
  <2> QED BY <2>1, <2>2
<1>12. Store!SetActive(b)
  BY <1>3, <1>4, <1>9, <1>11 DEF Store!SetActive, Wholes, Lists
<1> QED BY <1>4, <1>12 DEF Store!Next, Store!Asked

\* A deletion is the step of the request, or finds the alert deleted already.
LEMMA DeleteWatchIsStep ==
    ASSUME IInv, StoreInv, NEW r \in Requests, DeleteWatch(r)
    PROVE  Store!Next \/ UNCHANGED <<Wholes, Lists>>
<1>1. PICK b : b = Body(r)
  OBVIOUS
<1>2. PICK of : of = b.watch
  OBVIOUS
<1>3. /\ req[r].pc = "DeleteWatch"
      /\ rows' = [rows EXCEPT ![req[r].of] = Deleted]
      /\ children' = {c \in children : c.of # req[r].of}
      /\ UNCHANGED seeds
  BY DEF DeleteWatch
<1>4. /\ b \in Acceptable
      /\ req[r].of = of
      /\ of \in Rows /\ of # Settings
      /\ b.op = "delete"
      /\ Exists(of) => Store!Exists(of) /\ Store!May(b, of)
  BY <1>1, <1>2, <1>3, InAutocommitPermitted
<1>5. /\ rows \in [Rows -> RowRecords \cup {None, Deleted}]
      /\ rows'[of] = Deleted
      /\ \A x \in Rows : x # of => rows'[x] = rows[x] /\ Family(x)' = Family(x)
  BY <1>3, <1>4 DEF IInv, TypeOK, Family
<1>6. Whole(of)' = Deleted
  BY <1>5 DEF Whole, Exists
<1>7. Wholes' = [Wholes EXCEPT ![of] = Deleted]
  BY <1>4, <1>5, <1>6, OneAlert
<1>8. Lists' = Lists
  <2>1. Family(Settings)' = Family(Settings)
    BY <1>4, <1>5 DEF Rows
  <2> QED BY <1>3, <2>1 DEF Lists, DefaultWords, Listed, Below, Family
<1>9. CASE Exists(of)
  <2>1. Store!Delete(b)
    BY <1>2, <1>4, <1>7, <1>8, <1>9 DEF Store!Delete, Wholes, Lists
  <2> QED BY <1>4, <2>1 DEF Store!Next, Store!Asked
<1>10. CASE ~ Exists(of)
  <2>1. rows[of] = Deleted
    BY <1>1, <1>2, <1>3, <1>4, <1>10, InAutocommit DEF Exists
  <2>2. Wholes[of] = Deleted
    BY <1>4, <1>10, <2>1 DEF Wholes, Whole
  <2>3. Wholes' = Wholes
    BY <1>7, <2>2 DEF Wholes
  <2> QED BY <1>8, <2>3
<1> QED BY <1>9, <1>10

\* The migrations' settings and the alerts saved earlier are whole.
LEMMA InitIsWhole == Init => Store!Init
<1> SUFFICES ASSUME Init PROVE Store!Init
  OBVIOUS
<1>1. IInv /\ \A r \in Requests : seeds[r] = {}
  BY InitInv, Zenon DEF Init
<1>2. StoreInv
  BY InitStore
<1>3. \A x \in Rows : rows[x] # Deleted
  <2> DEFINE valid == CHOOSE v \in Scalars \ (Malformed \cup Impossible) : TRUE
             Row(user) == [owner |-> user, scalars |-> valid, active |-> TRUE, by |-> None]
  <2>1. rows = [row \in Rows |-> IF row = Settings THEN Row(None)
                                 ELSE IF row \in DOMAIN Saved THEN Row(Saved[row]) ELSE None]
    BY Zenon DEF Init
  <2>2. valid \in Scalars \ (Malformed \cup Impossible)
    BY ConstantsAssumption
  <2> HIDE DEF valid
  <2>3. \A user \in Optional(Users) : Row(user) \in RowRecords
    BY <2>2 DEF RowRecords, Optional
  <2> HIDE DEF Row
  <2> QED BY <2>1, <2>3, ConstantsAssumption, RowAssumption DEF Optional
<1>4. ASSUME NEW x \in Rows
      PROVE  Whole(x) \in Store!AlertRecords \cup {None}
  <2>1. CASE Exists(x)
    BY <1>1, <1>2, <2>1, WholeTyped
  <2>2. CASE ~ Exists(x)
    BY <1>3, <2>2 DEF Exists, Whole
  <2> QED BY <2>1, <2>2
<1>5. Wholes \in [Rows -> Store!AlertRecords \cup {None}]
  BY <1>4 DEF Wholes
<1>6. Settings \in Rows /\ Exists(Settings)
  BY <1>1 DEF Rows, IInv, SettingsOK
<1>7. Wholes[Settings] # None /\ Wholes[Settings].blocked = DefaultWords
  BY <1>1, <1>2, <1>6, WholeTyped DEF Wholes, Whole, DefaultWords
<1>8. Lists = {DefaultWords}
  BY <1>1 DEF Lists
<1> QED BY <1>5, <1>7, <1>8 DEF Store!Init, Store!Rows, Rows, Wholes, Lists

\* Every step is one of the store's, or leaves it alone.
LEMMA StepIsStep ==
    ASSUME IInv, StoreInv, [Next]_vars
    PROVE  Store!Next \/ UNCHANGED <<Wholes, Lists>>
<1>1. CASE UNCHANGED vars
  BY <1>1 DEF vars, Wholes, Lists, Whole, Exists, DefaultWords, Listed, Below, Rows
<1>2. CASE Next
  <2>1. PICK r \in Requests : Arrive(r) \/ Statement(r) \/ Fail(r)
    BY <1>2 DEF Next
  <2>2. CASE Commit(r)
    BY <2>2, CommitIsStep
  <2>3. CASE DeleteWatch(r)
    BY <2>3, DeleteWatchIsStep
  <2>4. CASE SetWatchActive(r) /\ ~ Refuse(r, "error")
    BY <2>4, SetWatchActiveIsStep
  <2>5. CASE UNCHANGED <<rows, children>> /\ ~ Commit(r)
    <3>1. Wholes' = Wholes /\ DefaultWords' = DefaultWords
      BY <2>5 DEF Wholes, Whole, Exists, DefaultWords, Listed, Below
    <3>2. Lists' = Lists
      BY <2>1, <2>5, <3>1, ListsGrow
    <3> QED BY <3>1, <3>2
  <2> QED BY <2>1, <2>2, <2>3, <2>4, <2>5, Writers
<1> QED BY <1>1, <1>2

\* However the statements of the requests interleave and wherever they fail, what is
\* committed changes as if each request, of an owner or an admin, had come alone
\* and done all it says in one step.
THEOREM AlertsAreSavedWhole == Spec => AlertsImplemented
<1>1. IInv /\ StoreInv /\ [Next]_vars => [Store!Next]_<<Wholes, Lists>>
  BY StepIsStep
<1>2. AlertsImplemented <=> Store!Init /\ [][Store!Next]_<<Wholes, Lists>>
  BY DEF AlertsImplemented, Store!Spec, Wholes, Lists
<1> QED BY <1>1, <1>2, InitIsWhole, StoreInvariant, PTL DEF Spec

=============================================================================
