---------------------------- MODULE ScanScheduler ----------------------------
(***************************************************************************)
(* When scans run: Scheduler.tick (src/backend/internal/scan/scheduler.go),*)
(* Runner.RunWatchMarketplaceAndReschedule (runner.go), and the handlers   *)
(* that write what they read: WatchHandler (Create, Update, SetActive,     *)
(* TriggerScan, Delete), UserHandler.SetActive, ScanSettingsHandler.Update.*)
(*                                                                         *)
(* A pair of a watch and a marketplace is a watch_marketplaces row. Its    *)
(* next_scan_at is modelled by the time left: wait 0 is due. What a scan   *)
(* does is ScanRunner; here it is a goroutine that runs and then reads the *)
(* marketplace's interval and writes the next time, in two statements.     *)
(***************************************************************************)
EXTENDS Integers, FiniteSets, FiniteSetsExt

CONSTANTS
    Watches,       \* watch ids, each used once
    Users,         \* their possible owners
    Owner,         \* the owner of each watch
    Marketplaces,
    Requests,      \* how often a saved body names each marketplace
    Intervals,     \* minimum and maximum intervals an admin may configure
    MaxRunning,    \* bound on the goroutines of one pair
    MaxEdits,      \* bound on updates of watches
    MaxFaults,     \* bound on failed statements and restarts
    None           \* no row

Keys == Watches \X Marketplaces

Settings == [Marketplaces -> Intervals \cup {None}]

ASSUME ConstantsAssumption ==
    /\ Owner \in [Watches -> Users]
    /\ Requests \subseteq [Marketplaces -> Nat]
    /\ Intervals \subseteq {i \in [min : Nat \ {0}, max : Nat] : i.min <= i.max}
    /\ MaxRunning \in Nat
    /\ MaxEdits \in Nat
    /\ MaxFaults \in Nat
    /\ None \notin Nat
    /\ None \notin Intervals

VARIABLES
    watch,      \* "new" until created, "active" or "inactive", "deleted"
    userActive, \* users.active
    wait,       \* time to next_scan_at of each pair, None without a row
    settings,   \* the marketplace_scan_settings rows
    running,    \* goroutines scanning a pair, launched since its last edit
    stale,      \* ... launched before it, with the watch as it was
    leaving,    \* goroutines that have read an interval and not yet written
    triggered,  \* marketplaces a TriggerScan request has yet to scan
    edits,      \* updates so far, for the bound only
    faults,     \* faults so far, for the bound only
    asked,      \* history variable: the marketplaces last saved for a watch
    scanned     \* history variable: pairs scanned since their last edit

vars == <<watch, userActive, wait, settings, running, stale, leaving, triggered,
          edits, faults, asked, scanned>>

-----------------------------------------------------------------------------
Exists(w) == watch[w] \in {"active", "inactive"}

Named(request) == {m \in Marketplaces : request[m] > 0}

Goroutines(k) == running[k] + stale[k] + MapThenSumSet(LAMBDA i : leaving[k][i], Intervals)

\* Faulty: joins the interval, which a marketplace need not have.
EligibleWithInterval(k) ==
    /\ wait[k] # None
    /\ watch[k[1]] = "active"
    /\ userActive[Owner[k[1]]]
    /\ settings[k[2]] # None

\* The joins and the WHERE of DueWatchMarketplaces, but for the time.
Eligible(k) ==
    /\ wait[k] # None
    /\ watch[k[1]] = "active"
    /\ userActive[Owner[k[1]]]

\* Faulty: forgets to join the owner.
DueWhateverItsOwner == {k \in Keys : watch[k[1]] = "active" /\ wait[k] = 0}

Due == {k \in Keys : Eligible(k) /\ wait[k] = 0}

\* The schedule rows of w become those of the marketplaces in names, all due.
Schedule(w, names) ==
    wait' = [k \in Keys |-> IF k[1] # w THEN wait[k] ELSE IF k[2] \in names THEN 0 ELSE None]

\* What runs for w was launched with the watch as it was.
Outdate(w) ==
    /\ stale' = [k \in Keys |-> IF k[1] = w THEN stale[k] + running[k] ELSE stale[k]]
    /\ running' = [k \in Keys |-> IF k[1] = w THEN 0 ELSE running[k]]
    /\ scanned' = {k \in scanned : k[1] # w}

-----------------------------------------------------------------------------
\* The tables as the migrations leave them for a new installation: users are
\* active, and no marketplace has an interval.
Init ==
    /\ watch = [w \in Watches |-> "new"]
    /\ userActive = [u \in Users |-> TRUE]
    /\ wait = [k \in Keys |-> None]
    /\ settings = [m \in Marketplaces |-> None]
    /\ running = [k \in Keys |-> 0]
    /\ stale = [k \in Keys |-> 0]
    /\ leaving = [k \in Keys |-> [i \in Intervals |-> 0]]
    /\ triggered = [w \in Watches |-> {}]
    /\ edits = 0
    /\ faults = 0
    /\ asked = [w \in Watches |-> {}]
    /\ scanned = {}

\* One transaction, and then a goroutine for every entry of req.Marketplaces:
\* the rows are due as well (next_scan_at DEFAULT now()), and a marketplace
\* named twice has one row and two goroutines. The owner need not be active:
\* an access token outlives a deactivation.
Create(w, request) ==
    /\ watch[w] = "new"
    /\ watch' = [watch EXCEPT ![w] = "active"]
    /\ Schedule(w, Named(request))
    /\ running' = [k \in Keys |-> IF k[1] = w THEN request[k[2]] ELSE running[k]]
    /\ asked' = [asked EXCEPT ![w] = Named(request)]
    /\ UNCHANGED <<userActive, settings, stale, leaving, triggered, edits, faults, scanned>>

\* One transaction. The schedule rows are deleted and inserted anew, so every
\* edit, of whatever field, makes each marketplace due at once.
Update(w, request) ==
    /\ Exists(w)
    /\ edits < MaxEdits
    /\ edits' = edits + 1
    /\ Schedule(w, Named(request))
    /\ Outdate(w)
    /\ asked' = [asked EXCEPT ![w] = Named(request)]
    /\ UNCHANGED <<watch, userActive, settings, leaving, triggered, faults>>

SetActive(w, active) ==
    /\ Exists(w)
    /\ watch' = [watch EXCEPT ![w] = IF active THEN "active" ELSE "inactive"]
    /\ UNCHANGED <<userActive, wait, settings, running, stale, leaving, triggered,
                   edits, faults, asked, scanned>>

\* ON DELETE CASCADE takes the schedule rows; goroutines go on without them.
Delete(w) ==
    /\ Exists(w)
    /\ watch' = [watch EXCEPT ![w] = "deleted"]
    /\ Schedule(w, {})
    /\ Outdate(w)
    /\ asked' = [asked EXCEPT ![w] = {}]
    /\ UNCHANGED <<userActive, settings, leaving, triggered, edits, faults>>

SetUserActive(u, active) ==
    /\ userActive' = [userActive EXCEPT ![u] = active]
    /\ UNCHANGED <<watch, wait, settings, running, stale, leaving, triggered,
                   edits, faults, asked, scanned>>

\* The request must name an interval; marketplaces it leaves out lose theirs.
UpdateSettings(new) ==
    /\ \E m \in Marketplaces : new[m] # None
    /\ settings' = new
    /\ UNCHANGED <<watch, userActive, wait, running, stale, leaving, triggered,
                   edits, faults, asked, scanned>>

\* An admin's request scans each marketplace of the watch, one after another,
\* in the request's own context and without rescheduling. It looks neither at
\* watches.active nor at users.active. One request at a time per watch here.
TriggerScan(w) ==
    /\ Exists(w)
    /\ triggered[w] = {}
    /\ triggered' = [triggered EXCEPT ![w] = {m \in Marketplaces : wait[<<w, m>>] # None}]
    /\ UNCHANGED <<watch, userActive, wait, settings, running, stale, leaving,
                   edits, faults, asked, scanned>>

TriggeredScanEnds(w, m) ==
    /\ m \in triggered[w]
    /\ triggered' = [triggered EXCEPT ![w] = @ \ {m}]
    /\ UNCHANGED <<watch, userActive, wait, settings, running, stale, leaving,
                   edits, faults, asked, scanned>>

-----------------------------------------------------------------------------
\* Faulty: takes the due rows out, as from a queue.
TickTakingRows ==
    /\ Due # {}
    /\ \A k \in Due : Goroutines(k) < MaxRunning
    /\ running' = [k \in Keys |-> IF k \in Due THEN running[k] + 1 ELSE running[k]]
    /\ wait' = [k \in Keys |-> IF k \in Due THEN None ELSE wait[k]]
    /\ UNCHANGED <<watch, userActive, settings, stale, leaving, triggered,
                   edits, faults, asked, scanned>>

\* One goroutine for every due pair, whatever already runs for it; the rows
\* stay due until a goroutine writes them.
Tick ==
    /\ Due # {}
    /\ \A k \in Due : Goroutines(k) < MaxRunning
    /\ running' = [k \in Keys |-> IF k \in Due THEN running[k] + 1 ELSE running[k]]
    /\ UNCHANGED <<watch, userActive, wait, settings, stale, leaving, triggered,
                   edits, faults, asked, scanned>>

TimePasses ==
    /\ \E k \in Keys : wait[k] \notin {0, None}
    /\ wait' = [k \in Keys |-> IF wait[k] \in {0, None} THEN wait[k] ELSE wait[k] - 1]
    /\ UNCHANGED <<watch, userActive, settings, running, stale, leaving, triggered,
                   edits, faults, asked, scanned>>

\* Faulty: takes the missing interval for one.
ReadIntervalAnyway(k) ==
    /\ leaving' = [leaving EXCEPT ![k] = [i \in Intervals \cup {settings[k[2]]} |->
                                            IF i = settings[k[2]] THEN 1 ELSE 0]]
    /\ UNCHANGED <<watch, userActive, wait, settings, triggered, edits, asked>>

\* RunWatchMarketplace has returned, with or without an error, and the
\* intervals are read. Without one for this marketplace the goroutine logs an
\* error and stops.
ReadInterval(k) ==
    /\ leaving' = IF settings[k[2]] = None THEN leaving
                  ELSE [leaving EXCEPT ![k][settings[k[2]]] = @ + 1]
    /\ UNCHANGED <<watch, userActive, wait, settings, triggered, edits, asked>>

\* The scan of a goroutine launched since the last edit is over.
ScanEnds(k) ==
    /\ running[k] > 0
    /\ running' = [running EXCEPT ![k] = @ - 1]
    /\ ReadInterval(k)
    /\ scanned' = scanned \cup {k}
    /\ UNCHANGED <<stale, faults>>

\* The scan of a goroutine that was overtaken by an edit is over.
StaleScanEnds(k) ==
    /\ stale[k] > 0
    /\ stale' = [stale EXCEPT ![k] = @ - 1]
    /\ ReadInterval(k)
    /\ UNCHANGED <<running, faults, scanned>>

\* Faulty: inserts the row when there is none.
RescheduleOrInsert(k, i) ==
    /\ leaving[k][i] > 0
    /\ leaving' = [leaving EXCEPT ![k][i] = @ - 1]
    /\ \E n \in i.min..i.max : wait' = [wait EXCEPT ![k] = n]
    /\ UNCHANGED <<watch, userActive, settings, running, stale, triggered,
                   edits, faults, asked, scanned>>

\* An UPDATE: a row deleted meanwhile stays deleted, and one inserted anew by
\* Update is written like any other.
Reschedule(k, i) ==
    /\ leaving[k][i] > 0
    /\ leaving' = [leaving EXCEPT ![k][i] = @ - 1]
    /\ IF wait[k] = None
       THEN UNCHANGED wait
       ELSE \E n \in i.min..i.max : wait' = [wait EXCEPT ![k] = n]
    /\ UNCHANGED <<watch, userActive, settings, running, stale, triggered,
                   edits, faults, asked, scanned>>

-----------------------------------------------------------------------------
Fault == faults < MaxFaults /\ faults' = faults + 1

\* CreateScan or a read after it fails: nothing was scanned, and the goroutine
\* reschedules all the same.
ScanFails(k) ==
    /\ Fault
    /\ running[k] > 0
    /\ running' = [running EXCEPT ![k] = @ - 1]
    /\ ReadInterval(k)
    /\ UNCHANGED <<stale, scanned>>

\* The intervals cannot be read, and the goroutine stops.
ReadIntervalFails(k) ==
    /\ Fault
    /\ \/ /\ running[k] > 0
          /\ running' = [running EXCEPT ![k] = @ - 1]
          /\ scanned' = scanned \cup {k}
          /\ UNCHANGED stale
       \/ /\ stale[k] > 0
          /\ stale' = [stale EXCEPT ![k] = @ - 1]
          /\ UNCHANGED <<running, scanned>>
    /\ UNCHANGED <<watch, userActive, wait, settings, leaving, triggered, edits, asked>>

RescheduleFails(k, i) ==
    /\ Fault
    /\ leaving[k][i] > 0
    /\ leaving' = [leaving EXCEPT ![k][i] = @ - 1]
    /\ UNCHANGED <<watch, userActive, wait, settings, running, stale, triggered,
                   edits, asked, scanned>>

\* The process stops and starts again: goroutines and requests are gone, the
\* tables stay, and nothing but the tables is read at the start.
Restart ==
    /\ Fault
    /\ running' = [k \in Keys |-> 0]
    /\ stale' = [k \in Keys |-> 0]
    /\ leaving' = [k \in Keys |-> [i \in Intervals |-> 0]]
    /\ triggered' = [w \in Watches |-> {}]
    /\ UNCHANGED <<watch, userActive, wait, settings, edits, asked, scanned>>

-----------------------------------------------------------------------------
WatchHandler ==
    \E w \in Watches :
        \/ \E request \in Requests : Create(w, request) \/ Update(w, request)
        \/ \E active \in BOOLEAN : SetActive(w, active)
        \/ Delete(w)
        \/ TriggerScan(w)
        \/ \E m \in Marketplaces : TriggeredScanEnds(w, m)

Admin ==
    \/ \E u \in Users, active \in BOOLEAN : SetUserActive(u, active)
    \/ \E new \in Settings : UpdateSettings(new)

Goroutine(k) ==
    \/ ScanEnds(k)
    \/ StaleScanEnds(k)
    \/ \E i \in Intervals : Reschedule(k, i)

Failure ==
    \/ \E k \in Keys : \/ ScanFails(k)
                       \/ ReadIntervalFails(k)
                       \/ \E i \in Intervals : RescheduleFails(k, i)
    \/ Restart

Next ==
    \/ WatchHandler
    \/ Admin
    \/ Tick
    \/ TimePasses
    \/ \E k \in Keys : Goroutine(k)
    \/ Failure

Spec == Init /\ [][Next]_vars

\* The ticker of Scheduler.Run keeps firing and time keeps passing; every
\* goroutine comes to an end (ScanRunner's EveryScanEnds). Nobody is obliged to
\* use a handler, and no fault is obliged to happen.
FairSpec ==
    /\ Spec
    /\ WF_vars(Tick)
    /\ WF_vars(TimePasses)
    /\ \A k \in Keys : /\ WF_vars(ScanEnds(k))
                       /\ WF_vars(StaleScanEnds(k))
                       /\ \A i \in Intervals : WF_vars(Reschedule(k, i))

-----------------------------------------------------------------------------
\* The type of every variable.
TypeOK ==
    /\ watch \in [Watches -> {"new", "active", "inactive", "deleted"}]
    /\ userActive \in [Users -> BOOLEAN]
    /\ wait \in [Keys -> Nat \cup {None}]
    /\ settings \in Settings
    /\ running \in [Keys -> Nat]
    /\ stale \in [Keys -> Nat]
    /\ leaving \in [Keys -> [Intervals -> Nat]]
    /\ triggered \in [Watches -> SUBSET Marketplaces]
    /\ edits \in 0..MaxEdits
    /\ faults \in 0..MaxFaults
    /\ asked \in [Watches -> SUBSET Marketplaces]
    /\ scanned \subseteq Keys

\* Whatever is still running for a watch, its schedule is the one its owner
\* last saved: a goroutine that outlives a removed marketplace or a deleted
\* watch brings no row back, and none disappears otherwise
\* (Update and Delete in watch_handler.go against RescheduleWatchMarketplace).
ScheduleIsWhatTheOwnerSaved ==
    \A w \in Watches : {m \in Marketplaces : wait[<<w, m>>] # None} = asked[w]

\* What the owner may expect scans of, whatever the tables hold.
Wanted(k) ==
    /\ k[2] \in asked[k[1]]
    /\ watch[k[1]] = "active"
    /\ userActive[Owner[k[1]]]

\* Nothing loses a pair: an active pair of an active owner is being scanned
\* again and again, through failed statements, restarts, edits and
\* marketplaces without an interval (tick reads next_scan_at only, and a
\* goroutine that is cut leaves the row due).
EveryActivePairRecurs ==
    \A k \in Keys : []<>(Wanted(k) => running[k] + stale[k] > 0)

\* Every edit is put to use: a scan that was launched after it comes to an
\* end, even when an older goroutine reschedules the pair the edit made due
\* (watch_handler.go:337, runner.go:316).
EveryEditIsScanned ==
    \A k \in Keys : Wanted(k) ~> (k \in scanned \/ ~ Wanted(k))

\* A pause holds: once a watch or its owner stays inactive, the goroutines it
\* had come to an end and the scheduler starts no other. TriggerScan, which
\* asks nobody, is not the scheduler's.
PausedGoesQuiet ==
    \A k \in Keys :
        LET paused == watch[k[1]] # "active" \/ ~ userActive[Owner[k[1]]]
        IN  <>[]paused => <>[](Goroutines(k) = 0)

-----------------------------------------------------------------------------
(* What comments and documents say, and the code does not do.              *)

\* "O proximo Scan de cada (Watch, marketplace) e reagendado para um instante
\* aleatorio dentro do intervalo [...] com fallback pro global em
\* scan_settings" (scheduler.go:16-20): the last goroutine of a pair, ending
\* without a fault, leaves it in the future.
EndedScanIsRescheduled ==
    [][\A k \in Keys :
          Goroutines(k) = 1 /\ Goroutines(k)' = 0 /\ faults' = faults /\ wait[k] # None
              => wait'[k] # 0]_vars

=============================================================================
