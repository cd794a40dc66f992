# Achapramim in TLA+

Achapramim watches marketplaces for its users. A user saves a *watch* (Alerta:
target price, keywords, blocked words, marketplaces); a scheduler scans each
marketplace of each active watch at random intervals; a scan filters what the
marketplace lists, stores it as *offers*, keeps a price history, notifies the
owner of a price that drops to the target, and hides what is no longer listed.
These modules model that system from its source, check it with TLC on small
instances, and prove about it with TLAPS.

All paths below are relative to `src/backend/internal/` unless they start with
`src/`.

## Inventory

| component | state | operations | used by |
|---|---|---|---|
| Scheduler (`scan/scheduler.go`) | none of its own; reads `watch_marketplaces.next_scan_at`, `watches.active`, `users.active` | `Run`, `tick` every poll interval: one goroutine per due (watch, marketplace) | `main` |
| Runner (`scan/runner.go`) | `scans`, `offers`, `offer_price_points`, `notifications`, `scan_marketplace_failures`; counters of one execution in memory | `RunWatchMarketplace`, `RunWatchMarketplaceAndReschedule` | scheduler, `WatchHandler.Create`, `WatchHandler.TriggerScan` |
| Classification (`scan/classification.go`) | none | filters and score of a listing | runner |
| Fetchers (`scan/marketplace`, `sidecar`) | none | `Fetch`: listings, or an error, within 30 s (OLX) or 90 s (Facebook) | runner |
| WatchHandler (`httpapi/watch_handler.go`) | `watches`, `watch_keywords`, `watch_blocked_words`, `watch_marketplaces` | Create, Get, List, Update, SetActive, TriggerScan, Delete | HTTP |
| OfferHandler (`httpapi/offer_handler.go`) | `offers.monitored` | List, SetMonitored, PriceHistory, ListScans | HTTP |
| NotificationHandler | `notifications.read_at` | List, UnreadCount, MarkRead, MarkAllRead | HTTP |
| ScanSettingsHandler | `scan_settings`, `marketplace_scan_settings`, `default_blocked_words` | Get, Update | HTTP (admin) |
| Sessions (`httpapi/auth_handler.go`, `auth`) | `refresh_tokens`; access tokens are stateless | Login, Refresh, Authenticate, RequireAdmin | HTTP |
| Users (`httpapi/user_handler.go`, `me_handler.go`, `bootstrap`) | `users` | Create, UpdateRole, SetActive, SetUsername, UpdateProfile, EnsureAdmin | HTTP, `main` |
| Client (`src/frontend/app/lib/core`) | access and refresh token, current user, route | sign in, refresh-and-retry interceptor, logout, redirects | the Flutter screens |
| Link preview, Apify usage, observability, config | none that is shared | request and response | HTTP |

The components share nothing but PostgreSQL rows. Only `WatchHandler.Create` and
`Update` and `ScanSettingsHandler.Update` use transactions; the runner and
everything else run each statement in autocommit at READ COMMITTED. Outside
these, nothing locks a watch, a marketplace or an offer across statements.

### What is hard here

- **Overlap.** `tick` starts a goroutine for every due pair and looks at nothing
  that is in flight; `next_scan_at` moves only when a scan ends. A scan slower
  than the poll interval, `TriggerScan`, and `Update` (which makes the
  marketplaces due again) all give two scans of one marketplace at a time.
- **Partial failure.** The runner logs and skips a failed upsert, price point,
  notification or marking, and returns early on the others.
- **Crash and shutdown.** A scan can be cut between any two statements; nothing
  resumes it. `TriggerScan` runs in the request's context.
- **Stale reads.** Target, keyword mode and owner are the caller's copy of the
  watch; the words are read later; the previous price is read one statement
  before it is overwritten.
- **Failed fetch.** No listings and an error go on exactly like an empty result.
- **Rotation.** `Refresh` reads, revokes and reissues in separate statements,
  and the client may refresh several times at once; its refresh goes through the
  interceptor that asks for refreshes.
- **Replacement.** An edit of an alert and of the settings deletes and inserts
  child rows statement by statement at READ COMMITTED, while others do the same.
- **Two statements for one request.** A profile update, a change of password, the
  bootstrap and the first access look in one statement and write in another.

### What makes each component correct

- Runner: reports count each offer once; an offer always has a history, which
  ends at its price and never repeats one; one notification per crossing of the
  target; a scan
  never hides what it has just stored, nor undoes what the owner set.
- Filters: nothing with a word that the configuration of a scan blocks is stored,
  nor, in mode `all`, without a keyword of it.
- Scheduler and watches: every active pair is scanned again and again, at the
  interval of its marketplace; nothing is scanned for a paused watch or owner
  except what was already due.
- Alerts and settings: what is saved is one request's, a refused request leaves
  nothing, an edit does not undo a pause, and no lock outlives its transaction.
- Sessions: a refresh token is worth nothing once its rotation is known; a
  deactivated or demoted user keeps rights only through the exchanges then in
  flight and until an access token expires; the client sends a call again at
  most once and never settles on a token that was rotated away.
- Users: a login denotes one user (which the code does not ensure); the first
  access names only who has no username; no request takes back what another
  wrote; an answer tells what was done, unless it is an error.

## Modules

| module | models |
|---|---|
| `Classification` | `containsBlockedWord`, `matchesAllKeywords`, `matchesAnyKeyword`. A title is the set of terms it contains, since `strings.Contains` over lowered strings is all the code asks of it; lists are sets, since neither order nor repetition matters to a filter. The empty term keeps its special role. |
| `Ranking` | the score of a listing (`classify` and its two halves, and the rounding of what is stored) and the choice of `TopOffersByWatch` over inputs that are constants. A score is the fraction that the code's floats approximate. |
| `OfferList` | `Ranking` together with `ScanRunner`: the score and the listing of what scans have stored |
| `MCRanking` | small inputs for `Ranking`, beside the constants of `MCScanRunner` |
| `ScanRunner` | `RunWatchMarketplace`, any number of executions for one watch, with the owner editing and statements failing. |
| `PriceHistory` | the abstract history of offers, which `ScanRunner` implements |
| `MCScanRunner` | values of the constants for TLC |
| `ScanRunner_proofs` | TLAPS proofs about `ScanRunner`, whatever overlaps |
| `ScanSerial_proofs` | TLAPS proofs about the behaviours of `ScanRunner` in which the scans of a marketplace do not overlap, the refinement of `PriceHistory` among them |
| `Ranking_proofs` | TLAPS proofs about the score, the filters and the listing, for any inputs and for what scans store |
| `ScanScheduler` | when scans run: `tick`, `RunWatchMarketplaceAndReschedule`, and the handlers that write what they read |
| `MCScanScheduler` | values of the constants for TLC |
| `ScanScheduler_proofs` | TLAPS proofs about `ScanScheduler` |
| `Alerts` | `WatchHandler` and `ScanSettingsHandler.Update`, transaction by transaction, statement by statement |
| `AlertStore` | the abstract store of alerts and settings, where a request happens at once, which `Alerts` implements |
| `MCAlerts` | values of the constants for TLC |
| `Alerts_proofs` | TLAPS proofs about `Alerts`, the refinement of `AlertStore` among them |
| `Users` | `UserHandler`, `MeHandler` and `EnsureAdmin`: the requests that write `users` |
| `MCUsers` | values of the constants for TLC |
| `Users_proofs` | TLAPS proofs about `Users` |
| `Session` | the server's side of a session: `AuthHandler`, access tokens, the middleware, the limit on refreshes |
| `Session_proofs` | TLAPS proofs about `Session` |
| `Client` | the application's side, composed with `Session`: the interceptor, the stored tokens, the status |
| `MCClient` | values of the constants for TLC |
| `Client_proofs` | TLAPS proofs about `Client`, from those about `Session` |

### ScanRunner and the code

One SQL statement is one action; what the goroutine does in memory until the
next statement belongs to the action next to it. `job[s]` is the local state of
execution `s`, and `job[s].pc` names its next statement.

| pc | action | statement |
|---|---|---|
| `idle` | `Launch` | the caller's copy of the watch: target and mode are frozen here |
| `create` | `CreateScan` | the `scans` row, born `success` and open |
| `keywords`, `blocked` | `ListWatchKeywords`, `ListWatchBlockedWords` | the words, read fresh (`resolveRegion` goes with the second) |
| `fetch` | `Fetch`, `FetchFails`, `NoFetcher` | listings; an error and a failure row; a warning |
| `next` | `SkipListing`, `GetPrevious` | the filters, then `GetOfferByExternalID` |
| `upsert` | `UpsertOffer` | `ON CONFLICT` keeps `monitored` and `first_seen_scan_id`; `is_new` |
| `point`, `insert` | `SkipPricePoint`, `DecidePricePoint`, `InsertPricePoint` | the one statement whose condition and effect are two actions: an `INSERT .. SELECT` decides on a snapshot, and another scan may commit in between |
| `count` | `CountAndNotify` | counters, and the notification when `DropDetected` |
| `next`, no listing left | `MarkOffersUnavailable` | every available offer of the marketplace not among the seen ids |
| `finish` | `FinishScan` | counters and status, and the row is closed |

A scan ends `done` or `aborted`. Failures are actions of their own (`ReturnError`,
`RecordFailureFails`, `GetPreviousFails`, `UpsertFails`, which may or may not
have written the row, `PricePointFails`, `NotifyFails`, `MarkFails`,
`Interrupt`), limited by `MaxFaults`. `SetMonitored` and `UpdateWatch` are the
owner. `observed_at` is the start of the inserting statement; since points of
different offers are never compared, each offer has a clock of its own.
`crossings` is a history variable: how often the row of a monitored offer went
from above the writing scan's target to or below it. `notified` is compared
with it.

Left out: URLs, images, the region, the score (it orders a list and decides
nothing here; `Ranking` has it), and wording.

`PriceHistory` says what `offer_price_points` is for: a sequence of prices for
each offer, to which a price is appended when it is not the last one, and to
which nothing else happens. `HistoryImplemented` is that specification with
`history` mapped to the prices of an offer's points in the order of
`observed_at`. It needs scans that do not overlap.

### ScanScheduler and the code

A pair of a watch and a marketplace is a `watch_marketplaces` row. `wait` is the
time left to its `next_scan_at`: 0 is due, `None` is no row. A transaction is
one action; a goroutine takes two, since `RunWatchMarketplaceAndReschedule`
reads the intervals in one statement and writes the next time in another, and
anything may happen in between.

| state | code |
|---|---|
| `watch`, `userActive`, `settings` | `watches.active` and the row's existence, `users.active`, `marketplace_scan_settings` |
| `running`, `stale` | goroutines of a pair still in `RunWatchMarketplace`, launched since the last edit of the watch or before it |
| `leaving` | goroutines that have read an interval and not yet written the next time |
| `triggered` | marketplaces that a `TriggerScan` request has yet to scan |
| `asked`, `scanned` | history variables: what the owner last saved; the pairs scanned since |

| action | code |
|---|---|
| `Create` | one transaction, then a goroutine for each entry of the body; the rows are born due |
| `Update` | one transaction, which replaces the schedule rows: all are due again |
| `SetActive`, `Delete`, `SetUserActive`, `UpdateSettings` | the handlers of those names; `Delete` cascades to the rows |
| `TriggerScan`, `TriggeredScanEnds` | the request, and each of its scans, one after another |
| `Tick` | `DueWatchMarketplaces` and a goroutine for each of its rows |
| `ScanEnds`, `StaleScanEnds` | `RunWatchMarketplace` returns and `ListMarketplaceScanSettings` answers |
| `Reschedule` | `RescheduleWatchMarketplace`, an `UPDATE` that finds the row or does not |
| `ScanFails`, `ReadIntervalFails`, `RescheduleFails`, `Restart` | failures, limited by `MaxFaults` |

The two modules meet at the launch of a scan. `ScanRunner` lets a scan of one
watch start whenever it likes (`Launch`), which covers every start the scheduler
and the handlers produce, overlapping ones included; `ScanScheduler` takes from
`ScanRunner` only that a scan ends (`EveryScanEnds`, run `overlap`). They are
not composed state by state: a scan reads and writes nothing the scheduler
reads.

### Alerts and the code

A request is a process; `req[r].pc` names its next statement. What a
transaction writes stays in its `req[r]` (`row`, `removed`, `added`) until
`Commit`, as at READ COMMITTED; `lock` is the row lock that its `UPDATE` took. The
row of `scan_settings`, with default words and intervals, has the shape of an
alert with blocked words and marketplaces, and `Update` of either is the same
sequence: so both are one set of actions.

| statement | code |
|---|---|
| `GetWatchByID` | `getOwnedWatch`: a stranger's alert is not found, an admin finds any |
| `CreateWatch`, `ListDefaultBlockedWords` | the new alert and the default words merged into its own |
| `UpdateWatch` | `UpdateWatch` or `UpdateScanSettings`: waits for the row's lock and takes it |
| `DeleteChildren`, three times | `ReplaceWatchKeywords` and its like: each deletes what is committed when it runs |
| `WriteChildren` | the inserts, which a foreign key or a CHECK may refuse |
| `Commit` | everything becomes visible; the reply may be lost |
| `SetWatchActive`, `DeleteWatch` | autocommit |
| `Fail` | any statement, and the deferred rollback |

Columns that a body brings together are one value (`scalars`); a term is a
spelling, and `Fold` its lower case. The goroutines a new alert starts, and the
times of its rows, are `ScanScheduler`'s.

`AlertStore` says what all this is for: an alert is one value with its words and
marketplaces, and a request replaces, pauses or deletes it at once, if it is the
owner's or an admin's, or does nothing. `AlertsImplemented` is that specification
with `alerts` mapped to the committed rows, each with the children that refer to
it (`Whole`), and `lists` to the default words there have been. A request is
allowed in `AlertStore` by what holds when it takes effect; the code checks
permission, and reads the default words, some statements earlier. That this is
the same is what has to be shown.

### Users and the code

Again a request is a process and `pc` names its statement; all are in
autocommit. `Taken` is the two unique indexes, which do not look at each other; an email is
any text, as nothing looks at its form. `Arrive` takes any body from any
user that exists, since an access token outlives a demotion. `WriteAndAnswer`
ends a request whose last statement wrote: its reply comes or is lost.
`GetUserByID` keeps in `row` what `UpdateProfile` and `ChangePassword` hold
while others write.

### Session, Client and the code

`Session` is the server for one user: the `users` row, the `pairs` of tokens
issued (an access token with its role claim, and a `refresh_tokens` row), and
the exchange on each connection. Its `Next` allows any client. `Client`
instantiates it with a connection for each request of the application and
replaces that client by the Flutter code: `Client!Next` never takes
`Server!Send` or `Server!Receive` except as part of an application step.

| state of `Client` | code |
|---|---|
| `req[q].pc` | where the call stands: between `send` and `wait` the request interceptor, `refresh` and `rotate` `_tryRefresh`, then the two writes of `saveTokens` or the two deletions of `clear`, each an await |
| `req[q].stack` | the refreshes of a call that wait for each other: `_tryRefresh` posts through the intercepted `Dio`, so its own 401 starts another |
| `storage` | `AuthStorage` |
| `status` | `AuthNotifier.state`, which the router's redirect follows |

`Allowed` says when the screens and providers make each call; the profile is
read at any time, from the start. Time is lazy: a token's term ends only while
a request that presents it is on its way, since nothing else could tell.
`Forget` is no step of the code: a pair that neither the storage, nor a
request, nor an exchange refers to any more gives its model value back. It
changes no behaviour of the rest, as a pair is only ever presented by one of
these; it goes before any other step so that it adds no interleavings.

### Ranking and the code

`Classify` takes the title as its set of terms, the keywords as a list (one that
is given twice counts twice, an empty one counts in the length and matches
nothing), prices in cents and the tolerance in hundredths of a percent. What
float64 rounds off is far below the four decimals that are stored (`Stored`).
`TopOffersByWatch` is the set of answers the query may give, since `LIMIT`
chooses freely among equals. The module has no state. `OfferList` extends it and
`ScanRunner`: `Table` is the rows that `List` reads, each scored by the alert as it was
when the row was written, since an edit scores nothing anew (`runner.go:148` is the
only caller of `classify`). Each of its three properties is about the inputs that
the constants give and about what is stored in the state at hand; `FilterFollows` relates
the score of a stored offer to the keywords and mode of the scan that stored it.

## Runs

| run | configuration | shows |
|---|---|---|
| `overlap` | 2 scans at will, 2 marketplaces (one without Fetcher), an identity listed or not, the owner swaps mode, keywords and blocked words, 1 fault, under fairness | `TypeOK`, `ReportExact`, `EveryOfferHasHistory`, `RescanPreservesOwnersRows`, `NoScanHidesItsOwnOffers`, `StoredOffersPassTheFilter`, `EveryScanEnds`; `ScoreFollows`, `FilterFollows` and `ListingFollows`, over small inputs and of what is stored |
| `serial` | 3 scans, one at a time, 2 identities, prices 2 and 3, target 2 raised to 3 by the owner, 1 fault | `HistoryImplemented`, `HistoryEndsAtCurrentPrice`, `NoRepeatedNotification`, `EveryCrossingIsNotified`, `ListingIsWhatTheScanSaw` |
| `schedule` | 1 watch, 2 marketplaces named once or the first of them twice, an interval of 1, at most 2 goroutines a pair, 1 update, 1 fault, under fairness | `TypeOK`, `ScheduleIsWhatTheOwnerSaved`, `EveryActivePairRecurs`, `EveryEditIsScanned`, `PausedGoesQuiet` |
| `users` | 4 requests with any of 27 bodies, 2 users, 2 valid usernames and an invalid one, one email that is a username | `TypeOK`, `AnswersAreHonest`, `FirstAccessOnce`, `BootstrapOnlyWhenEmpty`, `OmittedColumnsStay` |
| `alerts` | 3 requests with any of 11 bodies, an alert saved earlier and one to come, 3 users of whom one is an admin, a word in two spellings | `TypeOK`, `EachAlertIsOneRequests`, `SeedIsOneListOfItsTime`, `RefusedLeavesNothing`, `LocksAreLetGo`, `PauseSurvivesEdits`, `AlertsImplemented` |
| `session` | 2 overlapping calls of the application, 3 pairs of tokens at a time, 2 refreshes in a window, 1 change by an admin or fault | `TypeOK`, `RevokedIsNeverHonoured`, `RightsWereHeld`, `OnlyNamedUsersEnter`, `SentAtMostTwice`, `RecursionIsCut`, `SettledTokenIsGood` |
| `overlap_repeats_notification` | 3 scans at will, no fault | `NoRepeatedNotification` is violated |
| `overlap_repeats_point` | 2 scans at will, no fault | `NoRepeatedPoint` is violated |
| `failed_fetch_hides` | 2 scans, no fault | `FailedFetchHidesNothing` is violated |
| `missing_interval` | the instance of `schedule`, no fault | `EndedScanIsRescheduled` is violated |
| `ambiguous_login` | the instance of `users` | `LoginsDenoteOneUser` is violated |
| `shared_refresh_logs_out` | 2 calls at start, 5 refreshes in a window, nothing goes wrong | `SessionLasts` is violated |

Two scans are enough for every race between two statements, since each property
relates one scan, or one row, to at most one other writer; the third scan of
`serial` lets a price drop, rise and drop again, and lets an offer disappear
and come back. Prices are on either side of the target and on it. In `overlap` one
identity is enough: scans race for one row, an empty listing misses it, and
every safety property of that run is a theorem for any identities, listings and
prices (see Proofs); the two identities of `serial` let a scan see one offer and
miss the other. One fault at any statement shows
what a single failure does; `faults = 0` in a property says that it is promised
only while no statement failed. The set of scans is finite, so every behaviour
stops: the configurations do not check deadlock.

`serial` states what the code's comments promise, and of the documents what the
code keeps; it assumes that scans of one marketplace do not overlap (`Overlap =
FALSE`), which no code ensures. The two `overlap_repeats_*` runs drop that
assumption and show both promises broken by two scans that interleave;
`failed_fetch_hides` shows that a marketplace that could not be read has all its
offers hidden.

The score and the listing are checked in `overlap` too (`MCRanking`): over titles of
two terms, lists of at most two keywords with empty and repeated ones, prices at
the target, within the tolerance, at its edge and beyond, and listings of four
offers with every combination of ties and marks; and in every state, of the offer
stored there, with the keywords that its scan read before or after an edit.

In the scheduler's runs one watch is enough because the actions of two watches
touch different rows and share only the tick, which treats every due pair
alike; two marketplaces let an update drop one and keep another, and let one
have an interval and not the other. Two goroutines of a pair are the old one an
edit overtook and the one launched after it, or the two of a marketplace named
twice. An interval of 1 separates due from not due. Nothing stops for good here
(a user can always be disabled or enabled), and deadlock is checked.
`missing_interval` shows that a marketplace without an interval is scanned at
every tick and never rescheduled. (An admin's `TriggerScan` scans a paused
watch as well; the code says nothing against it.)

A race over a login, a first access or an alert is between two writers; the
requests beyond the second create what they race over, or read it meanwhile.
Every statement may fail, without a bound, as a request has few. The bodies are
one of each kind that the handlers and the schema tell apart. Requests are
finite in number and do not come back, so these runs stop; `LocksAreLetGo` says
what deadlock checking would.

In `session` two calls are enough for two rotations of one token to race, three
pairs for the one that both hold and the one each gets; `SettledTokenIsGood`
and the counts of refreshes are about at most that many. The window of two
refreshes is reached by two calls or by one that recurses. No deadlock is
checked since a pair may be missing for one more token. `shared_refresh_logs_out`
is the start of the application with an expired access token: the check of the
session and the profile provider both refresh, the second is refused, refreshes
what the first has stored, repeats its refused post and clears a good pair.

`ambiguous_login` is a creation with an email that is no address and a first
access that takes it for a username.

### Where documents and code disagree

The six violations are listed as findings in `PROJECT.json`, with the lines that
say otherwise. Three more findings need no counterexample, since a property that
holds says the contrary of a document:

- `EveryCrossingIsNotified` (run `serial`) is an equality: a crossing of the target
  by a monitored offer is notified, and nothing else. `src/CONTEXT.md:27` and `:68` and
  `src/README.md:73` promise a notification of every new offer and of every drop
  beyond the alert's percentage; no code reads `price_drop_threshold_percent`
  when it notifies.
- `FilterFollows` (run `overlap`): in mode `any` a stored offer scores on a keyword,
  as a listing without any is left out. `src/CONTEXT.md:35`, `src/README.md:36` and
  migration 000009 say that keywords only influence the score then; the comment
  of `matchesAnyKeyword` says what the code does. `StoredOffersPassTheFilter` asks only
  for what both agree on: blocked words, and mode `all`.
- `FirstAccessOnce` (run `users`) says that a user who is named stays named, not that
  the name stays: `src/CONTEXT.md:56` calls it permanent, and the profile and the admin
  change it.

A failed fetch hides every offer (`failed_fetch_hides`), so `ListingIsWhatTheScanSaw`
speaks only of scans whose fetch succeeded. A creation, or a change of role, may be
answered 400 although it was committed, when its reply was lost: that 400 is the
answer to any unexpected error, and `AnswersAreHonest` counts it among the errors,
which leave the client in doubt (`Unexpected`).

**Fairness.** `FairSpec` has weak fairness of `Step(s)` for each scan: a goroutine
keeps running, each statement answers or fails, and both Fetchers give up after
a timeout. Nothing obliges a scan to be launched, the owner to act or a
statement to fail.

`FairSpec` of `ScanScheduler` has weak fairness of `Tick` (the ticker of
`Scheduler.Run` fires for as long as the process lives, and a restart starts it
again), of `TimePasses`, and of each goroutine's `ScanEnds`, `StaleScanEnds` and
`Reschedule`. Weak is enough: what is due stays due until a goroutine writes it,
and a goroutine stays where it is until it moves.

The other modules state safety only: what their requests and calls promise does
not depend on when they end.

**Mutants.** The operators whose comment starts with `Faulty:` are plausible bugs in the
definition below them. Nothing uses them: each shows that the property paired
with it in `PROJECT.json` would notice the bug.

## Proofs

`ScanRunner_proofs` proves, for every set of scans, marketplaces, identities,
terms, configurations and listing sequences, overlapping or not, and any number
of failures:

- `TypeCorrect`: `Spec => []TypeOK`. `TypeOK` is not inductive: a listing at hand
  is needed for `Head`, a marketplace for the key, a `scans` row for the update.
  `TypeInv` adds `WhereItStands`, which says so by `pc`.
- `ReportsAreExact`: `Spec => []ReportExact`. `ReportExact` speaks of closed
  reports only. The inductive `Counts` says of each scan that the offers it was
  first to see are those it counted plus the one it has upserted and not yet
  counted (`Uncounted`), with `<=` once a statement failed; it holds because
  only `UpsertOffer` creates rows, `is_new` is decided by the row itself, and
  nothing changes `first_seen_scan_id`. The finiteness of the first-seen sets is
  part of it, as the constants may be infinite.

- `FilterIsKept` (`StoredOffersPassTheFilter`), `HistoryFollows`
  (`EveryOfferHasHistory`) and `OwnOffersStayVisible` (`NoScanHidesItsOwnOffers`) come
  from `OffersInv`. A row alone says nothing of the filter, so the invariant
  relates it to the scan that last wrote it (`RowOK`): its configuration is final,
  accepts the title (in either mode), and, unless a statement failed, the offer is among what it
  has seen or about to be. `Filtered` says that a listing at hand has passed the
  filters; `FirstPointComes` names the scan that still owes an offer its point.
- `OwnersRowsStay` (`RescanPreservesOwnersRows`), action by action: only
  `WriteOffer` and the marking change rows under a scan.

- `StatementsLeadOn`, the safety half of `EveryScanEnds`: each step of a scan is a
  later phase, or has a listing less to see, or is a later statement about the
  same listing (`LeadsOn`), and no other step changes it. The order has no
  infinite descent, as the lists are finite; what fairness adds, that the steps
  are taken, is left to the run.
- `RowsTellTheEnd`: a `scans` row is closed when its scan is done, with its counts,
  and never before (`ClosedWhenDone`); a scan that is cut leaves an open row.

All rest on `ConstantsAssumption` and `NoneAssumption`.

`ScanSerial_proofs` has the properties of the run `serial`, and `NoRepeatedPoint`,
of every behaviour in which no two goroutines are in flight for one marketplace:
`Spec /\ []Alone => []P`. It does not matter why they are not. `ScansRunAlone`
proves `[]Alone` for `Overlap = FALSE`, the constants of `serial`, so the theorems
state what that run checks; but they hold as well of a behaviour of the code as it
is in which scans happen not to overlap. No code ensures that: it is the
hypothesis under which the comments and documents are right, and the runs
`overlap_repeats_*` show that it cannot be dropped. Failures, interruptions and
the owner's edits are not restricted. The invariant `SerialInv`, on top of
`TypeInv`, says:

- `Alone`: one goroutine is in flight a marketplace. So what a
  goroutine holds in memory stays true while it runs: the previous price
  (`MemoryOK`), the decision that a point is due at the end of the history
  (`DecisionOK`), the ids it has seen (`SeenOK`).
- `ChainOK`: the points of an offer are finite and differ in `observed_at`,
  neighbours differ in price, and the latest is where `PricesInOrder` ends. From
  it come `NoPointRepeats` (`NoRepeatedPoint`) and `HistoriesAreKept`
  (`HistoryImplemented`): Init maps to Init, and each step appends a price that
  differs from the last to one history, or leaves all as they are. That the
  prices in order of a set with a later point are those of the set with one
  appended is proved from the cardinalities of what is earlier.
- `EndOK` and `CrossingsOK`: a history ends at the row's price, and every crossing is
  told, or one scan is about to see to it (`Recording`, `Telling`). From them come
  `HistoriesEndThere`, `CrossingsAreToldOnce` and `CrossingsAreTold`; from `SeenOK`
  `ListingsAreTrue`.

`Ranking_proofs` proves `ScoreFollows`, `FilterFollows` and `ListingFollows` of
`ScanRunner`'s specification, whatever overlaps and fails, and for every value of the
constants that `InputsAssumption` admits: any titles, lists of keywords, targets,
tolerances and prices in the naturals, and any finite sets of offers. The three
`...AlwaysFollow` lemmas say it of any inputs: fractions are compared by cross
products, so the order survives the mean (`MeanFollows`) and the rounding
(`StoredFollows`). Of what is stored it follows with `OffersInv`, `TypeInv`, and one
more invariant, that the stored offers are finitely many (`FinitelyMany`), as the
identities need not be.

`ScanScheduler_proofs` proves, for every set of watches, owners, marketplaces,
requests and intervals, and any bounds:

- `TypeCorrect`: `Spec => []TypeOK`, which is inductive here. What needs an
  argument is that no count goes below zero and no next time is negative
  (`NextTimeType`: an interval lies within the naturals).
- `OwnersScheduleHolds`: `Spec => []ScheduleIsWhatTheOwnerSaved`. The invariant is
  restated pair by pair (`RowsAsAsked`, equivalent by `PairByPair`), so that a
  step that writes one pair leaves the others to `SameRows`, and the three
  transactions that replace a watch's rows share `ScheduleRows`.
- `NoPairIsPutOff` (`WaitsAreBounded`): a pair on schedule is due, or due within the
  longest interval there is. With time passing and ticks coming, this is why
  `EveryActivePairRecurs`.
- `OnlyWhatIsDueStarts`: in each step, the goroutines of a pair grow only when its
  watch is created, or by one while the pair is due, its watch and owner active
  (`StartedWhenDue`). It is the safety half of `PausedGoesQuiet`: a pause starts
  nothing, so what is left is for the goroutines to end. An edit moves goroutines
  from `running` to `stale` and keeps their sum (`OutdateStartsNothing`).

They rest on `ConstantsAssumption`.

`Session_proofs` proves of the server, for any set of connections and of pairs,
any limit and any clients (its `Next` lets them send what they like):

- `TypeCorrect`, `RevokedBuysNothing`, `PairsGrantWhatWasHeld`. The invariant adds
  to the types where an exchange stands (which token or pair it holds by `pc`,
  and that it was issued), that a refresh past its first statement began with a
  valid token (`StoodValid`), and that the rights of the user were noted in
  `held` for every exchange under way (`RightsNoted`).

`Client_proofs` proves every invariant of the run `session`, for any number of
overlapping calls, pairs of tokens, refreshes in a window, admin's changes and
faults. `ApplicationIsAClient` is `Spec => Server!Spec`: each step of the application is a
step of `Session` or leaves its variables alone (`IsServerStep`, which needs that
the application presents only tokens that were issued). So the invariant of
`Session_proofs` is kept without another proof, and with it `RevokedBuysNothing`
and `PairsGrantWhatWasHeld`. To it `Inv` adds, request by request:

- `TypeCorrect`: the types, and that request and connection keep step
  (`KeepsStep`).
- `CallsAreRetriedOnce`: `SendsCounted` ties the count to `retried` and to the
  place of the call, since between the refusal and the second send the count is
  1 and a refresh may recurse.
- `RefreshesAreBounded`: `StackPaidFor`. A refresh goes on the stack when the one
  before it was answered 401, and that answer was counted in `window` by then.
- `NobodyUnnamedEnters`: `NamedSeen` carries the fact from the server's answer to
  the status, across the writes to the storage; a user once named stays named.

`SettledSessionIsGood` needs the storage as well (`StorageInv`): a pair on its way
to the storage, in an answer or in a request's hands, is valid, in nobody
else's hands, not stored yet and presented by nobody, so nobody can revoke it
(`Unpresented`); and as long as no answer was lost, the stored token is good,
over, or some request is between revoking it and writing what replaces it
(`StoredIsReplaced`). Both rest on `Server!WellFormedConstants`, assumed of the
instance in `ConstantsAssumption`, and were checked by TLC on the constants of
`session` first.

`Users_proofs` proves every property of the run `users`, for any users, requests
and bodies. A step of a request is of one of three kinds (`StepOf`): it looks or
is refused (`Looks`), writes one column of its user (`Writes`), or creates a user
(`Creates`); each kind keeps the invariant, and each action is of one kind. The
invariant adds to the types:

- for each request, that its statement is one of its operation
  (`AtItsStatement`), that the user of a `/me` request exists (`Found`), and what it
  has written by then (`DoneSoFar`), from which its answer can be honest;
- for the rows: every user has been created by a request that is over
  (`EveryUserHasOrigin`), and the bootstrap's email is taken once there is a user
  (`AdminKept`), since only the bootstrap finds the table empty and no handler
  writes an email.

`FirstAccessOnce` and `OmittedColumnsStay` are read off the kinds of steps: who
writes a username writes a valid one, and in a first access over NULL only
(`MayName`). They rest on `ConstantsAssumption`, which asks nothing of emails beyond
their being given. TLC checked the invariant on the constants of `users` first.

`Alerts_proofs` proves every property of the run `alerts`, for any requests,
bodies, alerts and words. What is committed changes in three actions (`Commit`,
`SetWatchActive`, `DeleteWatch`); all others change one request and its lock. The
invariant `IInv` says:

- of each request (`RequestOK`): its statement is one of its operation; from its
  `UPDATE` on a replacement holds the lock of a row that exists and is as it was
  found, and what it has deleted is all that there is of those kinds, since who
  would add a child needs the lock (`ReplaceOK`); a new alert's id is no row yet
  (`CreateOK`) and no other request's (`IdsApart`); what it adds is what its body
  asks for (`AddedOK`); and the default words of now are among those of its time
  (`SeedsOK`).
- of the rows: a lock is held by a replacement of that row (`LocksHeld`); each child
  has a row, saved by the same request (`ChildrenOK`); the settings are there, their
  words in one spelling each (`SettingsOK`); and each row and what is below it are
  what the request that saved it asked for (`RowsOK`).

`AlertsAreWhole` and `SeedsAreWhole` follow from `RowsOK` and `ChildrenOK`,
`RefusalsLeaveNothing` since who is refused has saved no row, `LocksAreOfWriters`
from `LocksHeld`, and `PausesSurvive` from `ReplaceOK`, as a commit writes the
`active` that is there. They rest on `ConstantsAssumption`, in which the seeded words
differ by more than their case, as those of migration 000003 do, and on
`RowAssumption` (a row is neither absent nor deleted). TLC checked the invariant
on the constants of `alerts` first.

`AlertsAreSavedWhole` is `Spec => AlertsImplemented`. A replacement takes effect at its
`Commit`, the pause and the deletion at their one statement; every other step, the
failures among them, changes nothing that `AlertStore` sees (`WholeKept`). A commit
changes one alert to the value `AlertStore` has for its body (`CommitIsStep`),
since its deletions and inserts are all that is below the row by then
(`ReplaceOK`, `AddedOK`). On top of `IInv` the proof needs `StoreInv`: permission
that `getOwnedWatch` gave still holds at the commit, as no request changes an owner
(`Permitted`, `OwnersStay`); a new alert's default words are one of the lists there
have been; a request that has not arrived has seen none (`Unseen`); and children
are made of terms and marketplaces (`TermOK`), so the value mapped to is an alert.

Model-checked only: `EveryScanEnds`, `EveryActivePairRecurs`, `EveryEditIsScanned` and
`PausedGoesQuiet`, which are liveness under fairness, out of this prover's reach;
`StatementsLeadOn`, `NoPairIsPutOff` and `OnlyWhatIsDueStarts` are what they rest on.
The six properties that runs find violated are not theorems of the code as it
is; two of them, `NoRepeatedNotification` and `NoRepeatedPoint`, are theorems of the
behaviours without overlap.

## Plan

Everything planned is written: every safety property and every refinement that a
run checks is a theorem, for every value of the constants. What could follow:

1. A model of the inbox and of the three reads of `loadWatchResponse`, whose
   hazards no property covers yet.
2. `ScanRunner` and `ScanScheduler` as one specification, in which the launches of
   the first are the second's; now they meet at `Launch`, which allows them all.

Not modelled, and why:

- The inbox (`NotificationHandler`): two reads, and two updates of `read_at` that
  can be repeated at will and that nothing else reads.
- Reads: the responses of Get and List, which format rows; that `loadWatchResponse`
  reads three tables one after another is listed as a hazard.
- Screens, theme and translations (presentation), link preview and Apify usage
  (stateless I/O), scraping and parsing of the marketplaces, configuration,
  logging and tracing.
- The generated code beyond its SQL: the scanning of columns into structs.
- Hashing and signing: a token is what its row and claim say.
