----------------------------- MODULE ScanRunner -----------------------------
(***************************************************************************)
(* Runner.RunWatchMarketplace (src/backend/internal/scan/runner.go) for    *)
(* one watch: any number of executions ("scans") run as goroutines against *)
(* the same PostgreSQL rows. Every SQL statement runs in autocommit at     *)
(* READ COMMITTED, so every statement is one action; what the goroutine    *)
(* does in memory goes with the statement next to it. The one exception is *)
(* InsertOfferPricePointIfChanged, an INSERT .. SELECT whose condition is  *)
(* evaluated on a snapshot: it is two actions, the decision and the commit.*)
(*                                                                         *)
(* The watch's owner edits the watch and (un)marks offers meanwhile, any   *)
(* statement may fail, and a goroutine may be cut at any point by a crash, *)
(* a shutdown or, under TriggerScan, a closed request.                     *)
(***************************************************************************)
EXTENDS Integers, FiniteSets, Sequences, Classification

CONSTANTS
    Scans,         \* the executions of RunWatchMarketplace, named by scan id
    Marketplaces,  \* the marketplaces of the watch
    Registered,    \* those with an entry in Runner.fetchers
    ExternalIds,   \* listing identities within a marketplace
    Terms,         \* keywords, blocked words and what titles are made of
    WatchConfigs,  \* the configurations the owner may save
    Results,       \* the listing sequences a Fetcher may return
    Overlap,       \* may two scans of one marketplace run at a time?
    MaxFaults,     \* bound on failed statements and interrupted scans
    None           \* an absent row or value

Keys == Marketplaces \X ExternalIds

Modes == {"all", "any"}

Configs == [target : Nat, mode : Modes,
            keywords : SUBSET Terms, blocked : SUBSET Terms]

Listings == [id : ExternalIds, title : SUBSET Terms, price : Nat]

OfferRows == [title : SUBSET Terms, price : Nat, available : BOOLEAN,
              monitored : BOOLEAN, firstSeen : Scans, lastChecked : Scans]

PointRows == [at : Nat, price : Nat, scan : Scans]

ScanRows == [open : BOOLEAN, status : {"success", "failed"}, found : Nat,
             new : Nat, seen : Nat, failure : BOOLEAN]

ASSUME ConstantsAssumption ==
    /\ Registered \subseteq Marketplaces
    /\ WatchConfigs \subseteq Configs
    /\ Results \subseteq Seq(Listings)
    /\ Overlap \in BOOLEAN
    /\ MaxFaults \in Nat

ASSUME NoneAssumption ==
    /\ None \notin OfferRows
    /\ None \notin ScanRows
    /\ None \notin Nat
    /\ None \notin Marketplaces

VARIABLES
    watch,      \* the watches row with its keyword and blocked-word rows
    job,        \* the local state of each execution
    scans,      \* the scans rows
    offers,     \* the offers rows, by their natural key
    points,     \* the offer_price_points rows of each offer
    clock,      \* now() as the price statements of each offer see it
    notified,   \* number of notifications rows of each offer
    faults,     \* faults so far, for the bound only
    crossings   \* history variable: how often a monitored offers row went
                \* from above the target of the writing scan to or below it

vars == <<watch, job, scans, offers, points, clock, notified, faults, crossings>>

-----------------------------------------------------------------------------
(* The goroutine. pc names the next statement:                             *)
(*   create, keywords, blocked, fetch   before the loop over the listings  *)
(*   next      filter, GetOfferByExternalID; mark when the list is empty   *)
(*   upsert, point, insert, count       the loop body                      *)
(*   finish    FinishScan                                                  *)
(* A job ends "done" (RunWatchMarketplace returned nil), or "aborted" (it  *)
(* returned an error, or its goroutine was cut).                           *)

InLoop == {"upsert", "point", "insert", "count"}

Running == {"create", "keywords", "blocked", "fetch", "next", "finish"} \cup InLoop

Ended == {"done", "aborted"}

Jobs == [pc : {"idle"} \cup Running \cup Ended,
         market : Marketplaces \cup {None},
         config : Configs,
         listings : Seq(Listings),
         previous : Nat \cup {None},   \* previous.PriceCents, if hasPrevious
         isNew : BOOLEAN,              \* row.IsNew
         monitored : BOOLEAN,          \* row.Monitored
         observedAt : Nat,             \* of a price point not yet committed
         status : {"success", "failed"},
         found : Nat,                  \* totalOffersFound
         new : Nat,                    \* newOffersCount
         seen : Nat,                   \* seenOffersCount
         seenIds : SUBSET ExternalIds] \* seenExternalIDs

IdleJob == [pc |-> "idle", market |-> None,
            config |-> [target |-> 0, mode |-> "any", keywords |-> {}, blocked |-> {}],
            listings |-> <<>>, previous |-> None, isNew |-> FALSE,
            monitored |-> FALSE, observedAt |-> 0, status |-> "success",
            found |-> 0, new |-> 0, seen |-> 0, seenIds |-> {}]

InFlight(s) == job[s].pc \in Running

Listing(s) == Head(job[s].listings)

Key(s) == <<job[s].market, Listing(s).id>>

Goto(s, label) == job' = [job EXCEPT ![s].pc = label]

\* `continue`: on to the next listing, forgetting the loop's locals.
Continue(j) == [j EXCEPT !.pc = "next", !.listings = Tail(@), !.previous = None,
                         !.isNew = FALSE, !.monitored = FALSE, !.observedAt = 0]

\* Faulty: keyword_match_mode is ignored.
AcceptsAny(config, title) ==
    /\ ~ ContainsBlockedWord(title, config.blocked)
    /\ MatchesAnyKeyword(title, config.keywords)

\* The two filters at the head of the loop, under the configuration the
\* goroutine holds in memory.
Accepts(config, title) ==
    /\ ~ ContainsBlockedWord(title, config.blocked)
    /\ IF config.mode = "all"
       THEN MatchesAllKeywords(title, config.keywords)
       ELSE MatchesAnyKeyword(title, config.keywords)

-----------------------------------------------------------------------------
Init ==
    /\ watch \in WatchConfigs
    /\ job = [s \in Scans |-> IdleJob]
    /\ scans = [s \in Scans |-> None]
    /\ offers = [k \in Keys |-> None]
    /\ points = [k \in Keys |-> {}]
    /\ clock = [k \in Keys |-> 0]
    /\ notified = [k \in Keys |-> 0]
    /\ faults = 0
    /\ crossings = [k \in Keys |-> 0]

(* A goroutine starts, or TriggerScan reaches the marketplace. It holds the *)
(* watches row as its caller read it: target and mode are frozen here, the  *)
(* keywords and blocked words are read later. Without Overlap the caller    *)
(* is assumed to wait for the previous scan of the marketplace to end,      *)
(* which no code ensures (see ScanRunner's runs in the README).             *)
Launch(s, m) ==
    /\ job[s].pc = "idle"
    /\ Overlap \/ ~ \E t \in Scans : InFlight(t) /\ job[t].market = m
    /\ job' = [job EXCEPT ![s].pc = "create",
                          ![s].market = m,
                          ![s].config.target = watch.target,
                          ![s].config.mode = watch.mode]
    /\ UNCHANGED <<watch, scans, offers, points, clock, notified, faults, crossings>>

CreateScan(s) ==
    /\ job[s].pc = "create"
    /\ scans' = [scans EXCEPT ![s] = [open |-> TRUE, status |-> "success", found |-> 0,
                                      new |-> 0, seen |-> 0, failure |-> FALSE]]
    /\ Goto(s, "keywords")
    /\ UNCHANGED <<watch, offers, points, clock, notified, faults, crossings>>

ListWatchKeywords(s) ==
    /\ job[s].pc = "keywords"
    /\ job' = [job EXCEPT ![s].pc = "blocked", ![s].config.keywords = watch.keywords]
    /\ UNCHANGED <<watch, scans, offers, points, clock, notified, faults, crossings>>

\* resolveRegion, which reads nothing the scan's outcome depends on here,
\* goes with it.
ListWatchBlockedWords(s) ==
    /\ job[s].pc = "blocked"
    /\ job' = [job EXCEPT ![s].pc = "fetch", ![s].config.blocked = watch.blocked]
    /\ UNCHANGED <<watch, scans, offers, points, clock, notified, faults, crossings>>

Fetch(s) ==
    /\ job[s].pc = "fetch"
    /\ job[s].market \in Registered
    /\ \E listings \in Results :
          job' = [job EXCEPT ![s].pc = "next", ![s].listings = listings]
    /\ UNCHANGED <<watch, scans, offers, points, clock, notified, faults, crossings>>

\* The Fetcher answers with an error (anti-bot page, timeout, no token) and
\* no listings. The scan is recorded as failed and goes on with an empty list.
FetchFails(s) ==
    /\ job[s].pc = "fetch"
    /\ job[s].market \in Registered
    /\ job' = [job EXCEPT ![s].pc = "next", ![s].status = "failed"]
    /\ scans' = [scans EXCEPT ![s].failure = TRUE]
    /\ UNCHANGED <<watch, offers, points, clock, notified, faults, crossings>>

\* No Fetcher for the slug: a warning, and on with an empty list.
NoFetcher(s) ==
    /\ job[s].pc = "fetch"
    /\ job[s].market \notin Registered
    /\ Goto(s, "next")
    /\ UNCHANGED <<watch, scans, offers, points, clock, notified, faults, crossings>>

SkipListing(s) ==
    /\ job[s].pc = "next"
    /\ job[s].listings # <<>>
    /\ ~ Accepts(job[s].config, Listing(s).title)
    /\ job' = [job EXCEPT ![s] = Continue(@)]
    /\ UNCHANGED <<watch, scans, offers, points, clock, notified, faults, crossings>>

GetPrevious(s) ==
    /\ job[s].pc = "next"
    /\ job[s].listings # <<>>
    /\ Accepts(job[s].config, Listing(s).title)
    /\ job' = [job EXCEPT ![s].pc = "upsert",
                          ![s].previous = IF offers[Key(s)] = None
                                          THEN None
                                          ELSE offers[Key(s)].price]
    /\ UNCHANGED <<watch, scans, offers, points, clock, notified, faults, crossings>>

-----------------------------------------------------------------------------
(* The rest of the loop body, for a listing that passed the filters.       *)

\* Faulty: the INSERT forgets last_checked_scan_id.
UpsertedRowUnchecked(s) ==
    LET row == offers[Key(s)]
    IN  [title       |-> Listing(s).title,
         price       |-> Listing(s).price,
         available   |-> TRUE,
         monitored   |-> IF row = None THEN FALSE ELSE row.monitored,
         firstSeen   |-> IF row = None THEN s ELSE row.firstSeen,
         lastChecked |-> IF row = None THEN None ELSE s]

\* Faulty: ON CONFLICT also resets monitored.
UpsertedRowUnmonitored(s) ==
    LET row == offers[Key(s)]
    IN  [title       |-> Listing(s).title,
         price       |-> Listing(s).price,
         available   |-> TRUE,
         monitored   |-> FALSE,
         firstSeen   |-> IF row = None THEN s ELSE row.firstSeen,
         lastChecked |-> s]

\* Faulty: ON CONFLICT leaves available as it was.
UpsertedRowStillHidden(s) ==
    LET row == offers[Key(s)]
    IN  [title       |-> Listing(s).title,
         price       |-> Listing(s).price,
         available   |-> IF row = None THEN TRUE ELSE row.available,
         monitored   |-> IF row = None THEN FALSE ELSE row.monitored,
         firstSeen   |-> IF row = None THEN s ELSE row.firstSeen,
         lastChecked |-> s]

\* The row UpsertOffer leaves: ON CONFLICT keeps monitored and
\* first_seen_scan_id, and makes the offer available again.
UpsertedRow(s) ==
    LET row == offers[Key(s)]
    IN  [title       |-> Listing(s).title,
         price       |-> Listing(s).price,
         available   |-> TRUE,
         monitored   |-> IF row = None THEN FALSE ELSE row.monitored,
         firstSeen   |-> IF row = None THEN s ELSE row.firstSeen,
         lastChecked |-> s]

\* What the history variable counts: the row itself moves across the target.
CrossesTarget(s) ==
    LET row == offers[Key(s)]
    IN  /\ row # None
        /\ row.monitored
        /\ row.price > job[s].config.target
        /\ Listing(s).price <= job[s].config.target

WriteOffer(s) ==
    /\ offers' = [offers EXCEPT ![Key(s)] = UpsertedRow(s)]
    /\ crossings' = [crossings EXCEPT ![Key(s)] = IF CrossesTarget(s) THEN @ + 1 ELSE @]

UpsertOffer(s) ==
    /\ job[s].pc = "upsert"
    /\ WriteOffer(s)
    /\ job' = [job EXCEPT ![s].pc = "point",
                          ![s].isNew = (offers[Key(s)] = None),
                          ![s].monitored = UpsertedRow(s).monitored]
    /\ UNCHANGED <<watch, scans, points, clock, notified, faults>>

\* The price at the end of a history, as a set: empty for an empty history.
LatestPrice(k) == {p.price : p \in {q \in points[k] : \A r \in points[k] : r.at <= q.at}}

\* Faulty: no NOT EXISTS branch, so NULL != price never holds.
PriceChangedWithoutFirst(s) ==
    points[Key(s)] # {} /\ Listing(s).price \notin LatestPrice(Key(s))

\* Faulty: inserts at every verification.
PriceAlwaysChanged(s) == TRUE

\* Faulty: compares with every point, not the latest one.
PriceNeverSeen(s) == Listing(s).price \notin {p.price : p \in points[Key(s)]}

PriceChanged(s) == Listing(s).price \notin LatestPrice(Key(s))

\* InsertOfferPricePointIfChanged, its SELECT: the snapshot holds the points
\* committed so far. observed_at is the statement's own start.
SkipPricePoint(s) ==
    /\ job[s].pc = "point"
    /\ ~ PriceChanged(s)
    /\ Goto(s, "count")
    /\ UNCHANGED <<watch, scans, offers, points, clock, notified, faults, crossings>>

DecidePricePoint(s) ==
    /\ job[s].pc = "point"
    /\ PriceChanged(s)
    /\ clock' = [clock EXCEPT ![Key(s)] = @ + 1]
    /\ job' = [job EXCEPT ![s].pc = "insert", ![s].observedAt = clock[Key(s)] + 1]
    /\ UNCHANGED <<watch, scans, offers, points, notified, faults, crossings>>

\* ... and its INSERT, when it commits.
InsertPricePoint(s) ==
    /\ job[s].pc = "insert"
    /\ points' = [points EXCEPT ![Key(s)] =
                     @ \cup {[at |-> job[s].observedAt, price |-> Listing(s).price, scan |-> s]}]
    /\ job' = [job EXCEPT ![s].pc = "count", ![s].observedAt = 0]
    /\ UNCHANGED <<watch, scans, offers, clock, notified, faults, crossings>>

\* Faulty: any price at or below the target is news.
DropWithoutPrevious(s) ==
    /\ job[s].previous # None
    /\ job[s].monitored
    /\ Listing(s).price <= job[s].config.target

\* Faulty: reaching the target exactly does not count.
DropStrictlyBelow(s) ==
    /\ job[s].previous # None
    /\ job[s].monitored
    /\ job[s].previous > job[s].config.target
    /\ Listing(s).price < job[s].config.target

\* The price before the upsert against the price listed now, and the target
\* the goroutine started with.
DropDetected(s) ==
    /\ job[s].previous # None
    /\ job[s].monitored
    /\ job[s].previous > job[s].config.target
    /\ Listing(s).price <= job[s].config.target

\* Faulty: takes an offer for new when the earlier read found no row.
CountedByPrevious(j) ==
    [j EXCEPT !.new     = IF j.previous = None THEN @ + 1 ELSE @,
              !.seen    = IF j.previous = None THEN @ ELSE @ + 1,
              !.found   = @ + 1,
              !.seenIds = @ \cup {Head(j.listings).id}]

\* Faulty: remembers the id of known offers only.
CountedForgettingNew(j) ==
    [j EXCEPT !.new     = IF j.isNew THEN @ + 1 ELSE @,
              !.seen    = IF j.isNew THEN @ ELSE @ + 1,
              !.found   = @ + 1,
              !.seenIds = IF j.isNew THEN @ ELSE @ \cup {Head(j.listings).id}]

\* The counters, and the id among those seen. Before `continue`.
Counted(j) ==
    [j EXCEPT !.new     = IF j.isNew THEN @ + 1 ELSE @,
              !.seen    = IF j.isNew THEN @ ELSE @ + 1,
              !.found   = @ + 1,
              !.seenIds = @ \cup {Head(j.listings).id}]

CountAndNotify(s) ==
    /\ job[s].pc = "count"
    /\ notified' = [notified EXCEPT ![Key(s)] = IF DropDetected(s) THEN @ + 1 ELSE @]
    /\ job' = [job EXCEPT ![s] = Continue(Counted(@))]
    /\ UNCHANGED <<watch, scans, offers, points, clock, faults, crossings>>

\* After the loop: every available offer of this marketplace that the scan
\* did not see. A failed fetch and a missing Fetcher saw none.
MarkOffersUnavailable(s) ==
    /\ job[s].pc = "next"
    /\ job[s].listings = <<>>
    /\ offers' = [k \in Keys |->
                    IF offers[k] # None /\ k[1] = job[s].market /\ k[2] \notin job[s].seenIds
                    THEN [offers[k] EXCEPT !.available = FALSE]
                    ELSE offers[k]]
    /\ Goto(s, "finish")
    /\ UNCHANGED <<watch, scans, points, clock, notified, faults, crossings>>

\* Faulty: a failed scan returns without closing its row.
FinishOnlySuccess(s) ==
    /\ job[s].pc = "finish"
    /\ IF job[s].status = "failed"
       THEN UNCHANGED scans
       ELSE scans' = [scans EXCEPT ![s].open = FALSE, ![s].status = job[s].status,
                                   ![s].found = job[s].found, ![s].new = job[s].new,
                                   ![s].seen = job[s].seen]
    /\ Goto(s, "done")
    /\ UNCHANGED <<watch, offers, points, clock, notified, faults, crossings>>

FinishScan(s) ==
    /\ job[s].pc = "finish"
    /\ scans' = [scans EXCEPT ![s].open = FALSE, ![s].status = job[s].status,
                              ![s].found = job[s].found, ![s].new = job[s].new,
                              ![s].seen = job[s].seen]
    /\ Goto(s, "done")
    /\ UNCHANGED <<watch, offers, points, clock, notified, faults, crossings>>

-----------------------------------------------------------------------------
(* Failed statements. faults bounds how many there are.                    *)

Fault == faults < MaxFaults /\ faults' = faults + 1

Abort(j) == [j EXCEPT !.pc = "aborted", !.listings = <<>>, !.previous = None,
                      !.isNew = FALSE, !.monitored = FALSE, !.observedAt = 0]

\* The statements whose error RunWatchMarketplace returns. After CreateScan
\* the scans row stays as CreateScan wrote it.
ReturnError(s) ==
    /\ Fault
    /\ job[s].pc \in {"create", "keywords", "blocked", "finish"}
    /\ job' = [job EXCEPT ![s] = Abort(@)]
    /\ UNCHANGED <<watch, scans, offers, points, clock, notified, crossings>>

\* The fetch fails and so does RecordScanMarketplaceFailure, which is logged.
RecordFailureFails(s) ==
    /\ Fault
    /\ job[s].pc = "fetch"
    /\ job[s].market \in Registered
    /\ job' = [job EXCEPT ![s].pc = "next", ![s].status = "failed"]
    /\ UNCHANGED <<watch, scans, offers, points, clock, notified, crossings>>

\* An error of GetOfferByExternalID reads as "no previous offer".
GetPreviousFails(s) ==
    /\ Fault
    /\ job[s].pc = "next"
    /\ job[s].listings # <<>>
    /\ Accepts(job[s].config, Listing(s).title)
    /\ Goto(s, "upsert")
    /\ UNCHANGED <<watch, scans, offers, points, clock, notified, crossings>>

\* An error of UpsertOffer drops the listing, unseen and uncounted. The row
\* may have been written all the same: the reply was what got lost.
UpsertFails(s) ==
    /\ Fault
    /\ job[s].pc = "upsert"
    /\ \/ UNCHANGED <<offers, crossings>>
       \/ WriteOffer(s)
    /\ job' = [job EXCEPT ![s] = Continue(@)]
    /\ UNCHANGED <<watch, scans, points, clock, notified>>

PricePointFails(s) ==
    /\ Fault
    /\ job[s].pc \in {"point", "insert"}
    /\ job' = [job EXCEPT ![s].pc = "count", ![s].observedAt = 0]
    /\ UNCHANGED <<watch, scans, offers, points, clock, notified, crossings>>

NotifyFails(s) ==
    /\ Fault
    /\ job[s].pc = "count"
    /\ DropDetected(s)
    /\ job' = [job EXCEPT ![s] = Continue(Counted(@))]
    /\ UNCHANGED <<watch, scans, offers, points, clock, notified, crossings>>

MarkFails(s) ==
    /\ Fault
    /\ job[s].pc = "next"
    /\ job[s].listings = <<>>
    /\ Goto(s, "finish")
    /\ UNCHANGED <<watch, scans, offers, points, clock, notified, crossings>>

\* The goroutine is cut: the process dies, or its context is cancelled and
\* no later statement reaches the database.
Interrupt(s) ==
    /\ Fault
    /\ InFlight(s)
    /\ job' = [job EXCEPT ![s] = Abort(@)]
    /\ UNCHANGED <<watch, scans, offers, points, clock, notified, crossings>>

-----------------------------------------------------------------------------
(* The owner, through OfferHandler.SetMonitored and WatchHandler.Update.   *)

SetMonitored(k, monitored) ==
    /\ offers[k] # None
    /\ offers' = [offers EXCEPT ![k].monitored = monitored]
    /\ UNCHANGED <<watch, job, scans, points, clock, notified, faults, crossings>>

\* One transaction: the new row and its new word lists appear together. The
\* marketplaces stay the same here.
UpdateWatch(config) ==
    /\ watch' = config
    /\ UNCHANGED <<job, scans, offers, points, clock, notified, faults, crossings>>

User ==
    \/ \E k \in Keys, monitored \in BOOLEAN : SetMonitored(k, monitored)
    \/ \E config \in WatchConfigs : UpdateWatch(config)

Step(s) ==
    \/ CreateScan(s)
    \/ ListWatchKeywords(s)
    \/ ListWatchBlockedWords(s)
    \/ Fetch(s)
    \/ FetchFails(s)
    \/ NoFetcher(s)
    \/ SkipListing(s)
    \/ GetPrevious(s)
    \/ UpsertOffer(s)
    \/ SkipPricePoint(s)
    \/ DecidePricePoint(s)
    \/ InsertPricePoint(s)
    \/ CountAndNotify(s)
    \/ MarkOffersUnavailable(s)
    \/ FinishScan(s)

Failure(s) ==
    \/ ReturnError(s)
    \/ RecordFailureFails(s)
    \/ GetPreviousFails(s)
    \/ UpsertFails(s)
    \/ PricePointFails(s)
    \/ NotifyFails(s)
    \/ MarkFails(s)
    \/ Interrupt(s)

Next ==
    \/ \E s \in Scans, m \in Marketplaces : Launch(s, m)
    \/ \E s \in Scans : Step(s) \/ Failure(s)
    \/ User

Spec == Init /\ [][Next]_vars

\* A goroutine keeps running: every statement answers or fails, and both
\* Fetchers have a timeout (30 s for OLX, 90 s for Facebook). Nothing obliges
\* a scan to be launched, a fault to happen or the owner to act.
FairSpec == Spec /\ \A s \in Scans : WF_vars(Step(s))

-----------------------------------------------------------------------------
(* What the runner promises, whatever overlaps and whatever fails.         *)

\* The type of every variable.
TypeOK ==
    /\ watch \in WatchConfigs
    /\ job \in [Scans -> Jobs]
    /\ scans \in [Scans -> ScanRows \cup {None}]
    /\ offers \in [Keys -> OfferRows \cup {None}]
    /\ points \in [Keys -> SUBSET PointRows]
    /\ clock \in [Keys -> Nat]
    /\ notified \in [Keys -> Nat]
    /\ faults \in 0..MaxFaults
    /\ crossings \in [Keys -> Nat]

FirstSeenBy(s) == {k \in Keys : offers[k] # None /\ offers[k].firstSeen = s}

\* The report of a finished scan is exact: it counts every offer it was the
\* first to see, once, however many scans raced to create the row; only a
\* failed statement may make it count too few. What it found is what was new
\* plus what was known (runner.go:194-217, UpsertOffer's is_new).
ReportExact ==
    \A s \in Scans :
        scans[s] # None /\ ~ scans[s].open =>
            /\ scans[s].found = scans[s].new + scans[s].seen
            /\ scans[s].new <= Cardinality(FirstSeenBy(s))
            /\ faults = 0 => scans[s].new = Cardinality(FirstSeenBy(s))

\* What the owner excludes is never stored: an offer last written by a scan
\* has none of the non-empty blocked words that scan read and, in mode all,
\* every non-empty keyword, even when the owner edits the watch between the
\* reads, the fetch and the upsert (runner.go:49-56, 134-146, 170; CONTEXT.md
\* Palavra bloqueada; migration 000009). Of the keywords in mode any nothing is
\* asked: the documents say that they exclude nothing, and the code that they do.
StoredOffersPassTheFilter ==
    \A k \in Keys :
        offers[k] # None =>
            LET config == job[offers[k].lastChecked].config
            IN  /\ offers[k].title \cap (config.blocked \ {EmptyTerm}) = {}
                /\ config.mode = "all" =>
                      config.keywords \ {EmptyTerm} \subseteq offers[k].title

\* An observed offer is never without a price history for long: once no scan
\* that may still be inserting its first point is in flight and no statement
\* failed, each offer has a point
\* (UpsertOffer followed by InsertOfferPricePointIfChanged, runner.go:170-192).
EveryOfferHasHistory ==
    faults = 0 =>
        \A k \in Keys :
            offers[k] # None /\ points[k] = {} =>
                \E s \in Scans : job[s].pc \in {"point", "insert"} /\ Key(s) = k

\* A rescan never undoes what belongs to others: it deletes no offer and no
\* price point, leaves first_seen_scan_id and the owner's monitored flag of
\* every offer as they were, and touches no offer of a marketplace on which
\* no scan is in flight (the ON CONFLICT list of UpsertOffer, the WHERE of
\* MarkOffersUnavailableNotInForMarketplace).
RescanPreservesOwnersRows ==
    [][\A k \in Keys :
          /\ points[k] \subseteq points'[k]
          /\ offers[k] # None =>
                /\ offers'[k] # None
                /\ offers'[k].firstSeen = offers[k].firstSeen
                /\ job' # job =>
                      /\ offers'[k].monitored = offers[k].monitored
                      /\ offers'[k] # offers[k] =>
                            \E s \in Scans : InFlight(s) /\ job[s].market = k[1]]_vars

\* A scan hides no offer it has itself just stored: in the step that makes an
\* offer unavailable, the last scan to write its row is not the one that
\* hides it, whatever other scans wrote in between. Only a failed statement
\* breaks this: UpsertOffer wrote the row, its reply was lost, and the
\* listing is not among seenExternalIDs (runner.go:170-183, 216, 221-227).
NoScanHidesItsOwnOffers ==
    [][\A k \in Keys, s \in Scans :
          /\ faults = 0
          /\ offers[k] # None /\ offers[k].available /\ ~ offers'[k].available
          /\ job'[s] # job[s]
          => offers[k].lastChecked # s]_vars

\* Each scan ends: a goroutine that was launched returns with its scans row
\* closed, unless a fault cut the scan (the loop consumes its list,
\* runner.go:133-237; FinishScan, runner.go:239-256).
EveryScanEnds ==
    \A s \in Scans :
        InFlight(s) ~> \/ job[s].pc = "done" /\ ~ scans[s].open
                       \/ job[s].pc = "aborted"

-----------------------------------------------------------------------------
(* What needs the scans of a marketplace to run one at a time. The code    *)
(* writes down these expectations and does not ensure that condition.      *)

Quiet(k) == ~ \E s \in Scans : InFlight(s) /\ job[s].market = k[1]

\* Consecutive points of a history, in the order ListOfferPricePoints gives.
Adjacent(k, p, q) ==
    /\ p.at < q.at
    /\ ~ \E r \in points[k] : p.at < r.at /\ r.at < q.at

\* A price history has no two consecutive points of the same price: "um novo
\* ponto so e registrado quando o valor difere do ultimo observado"
\* (offers.sql:62-63, CONTEXT.md Historico de Preco).
NoRepeatedPoint ==
    \A k \in Keys : \A p, q \in points[k] : Adjacent(k, p, q) => p.price # q.price

\* The points of a history with i - 1 points before them: one, since
\* observed_at of two points of one offer differs, each insertion deciding at
\* a later tick of the offer's clock.
Earlier(history, p) == {q \in history : q.at < p.at}

Nth(history, i) == {p \in history : Cardinality(Earlier(history, p)) = i - 1}

\* The prices of a history from its oldest point to its latest.
InOrder(history) ==
    [i \in 1..Cardinality(history) |-> (CHOOSE p \in Nth(history, i) : TRUE).price]

PricesInOrder(k) == InOrder(points[k])

ListedPrices == UNION {{l[i].price : i \in DOMAIN l} : l \in Results}

History == INSTANCE PriceHistory
               WITH history <- [k \in Keys |-> PricesInOrder(k)], Prices <- ListedPrices

\* Whatever fails or is cut, and whoever edits the watch, the rows of
\* offer_price_points are the histories that PriceHistory describes: they grow
\* at their end only, by one price at a time, which differs from the last
\* (InsertOfferPricePointIfChanged, offers.sql:61-76).
HistoryImplemented == History!Spec

\* Between scans, and unless a statement failed, the latest point of an offer
\* is the price of its row: the chart ends where the listing stands.
HistoryEndsAtCurrentPrice ==
    faults = 0 =>
        \A k \in Keys :
            offers[k] # None /\ Quiet(k) =>
                LatestPrice(k) = {offers[k].price}

\* The owner is told of a crossing once: never more notifications than times
\* the offer's row crossed the target while monitored (runner.go:200-204, "evita
\* repetir a cada Scan reverificado sem mudanca real de faixa").
NoRepeatedNotification ==
    \A k \in Keys : notified[k] <= crossings[k]

\* ... and no crossing goes untold: between scans the two are equal, unless a
\* statement failed or a scan was cut between the upsert and the notification.
\* So nothing but these crossings is told: not an offer seen for the first time,
\* nor a drop of an offer nobody monitors or on one side of the target, by
\* whatever percentage, although the documents promise both (CONTEXT.md:27, 68):
\* nothing reads price_drop_threshold_percent (runner.go:194-215).
EveryCrossingIsNotified ==
    faults = 0 => \A k \in Keys : Quiet(k) => notified[k] = crossings[k]

\* When a scan whose Fetcher answered has marked what it did not see, the
\* available offers of its marketplace are exactly the ones it stored, unless a
\* statement failed (MarkOffersUnavailableNotInForMarketplace after the loop). A
\* scan that could not ask, its fetch failed or its Fetcher missing, has seen
\* nothing, and nothing is asked of it here (FailedFetchHidesNothing is about it).
ListingIsWhatTheScanSaw ==
    faults = 0 =>
        \A s \in Scans :
            job[s].pc = "finish" /\ job[s].status = "success" /\ job[s].market \in Registered =>
                job[s].seenIds =
                    {k[2] : k \in {k \in Keys : /\ k[1] = job[s].market
                                                /\ offers[k] # None
                                                /\ offers[k].available}}

-----------------------------------------------------------------------------
(* What the domain document says of an offer, and the code does not do.    *)

\* "Uma Offer permanece disponivel na listagem enquanto o anuncio original
\* seguir ativo no Marketplace" (CONTEXT.md, Offer): a scan that could not
\* ask the marketplace knows nothing of its listings and hides none.
FailedFetchHidesNothing ==
    [][\A k \in Keys, s \in Scans :
          offers[k] # None /\ offers[k].available /\ ~ offers'[k].available
          /\ job[s].pc = "next" /\ job'[s].pc = "finish" =>
              job[s].status = "success"]_vars

=============================================================================
