----------------------------- MODULE OfferList -----------------------------
(***************************************************************************)
(* Ranking together with ScanRunner: what the score and the listing make   *)
(* of the offers that scans have stored. A row is scored when it is        *)
(* written (runner.go:148), by the alert as it was then; no edit scores it *)
(* anew, so the rows of one listing may have been scored by several.       *)
(***************************************************************************)
EXTENDS ScanRunner, Ranking

StoredOffers == {k \in Keys : offers[k] # None}

\* The rows of the watch as List reads them, each scored by the search in by.
Table(by) ==
    {[id |-> k,
      classification |-> Stored(Score(offers[k].title, by[k], offers[k].price)),
      available |-> offers[k].available,
      monitored |-> offers[k].monitored] : k \in StoredOffers}

\* The lists of keywords that a scan with config holds.
HeldBy(config) == {search \in Searches : WordsOf(search) = config.keywords}

-----------------------------------------------------------------------------
(* The properties: of the inputs that the constants give, which are the    *)
(* same in every state, and of what is stored.                             *)

InputScoresFollow == ScoresFollow(Titles, Prices)

InputFiltersFollow == FiltersFollow(Titles)

InputListingsFollow == ListingsFollow(OfferSets)

\* The score never puts a worse offer before a better one, among any listings
\* and among those that scans have stored.
ScoreFollows ==
    /\ InputScoresFollow
    /\ ScoresFollow({offers[k].title : k \in StoredOffers},
                    {offers[k].price : k \in StoredOffers})

\* The score takes nothing for a mismatch that the filters took for a match:
\* whatever the owner edits while a scan runs, an offer scores on some keyword,
\* or on all, as the mode asks, by the keywords of the scan that stored it
\* (runner.go:134-148: the filters and classify get the same keywords).
FilterFollows ==
    /\ InputFiltersFollow
    /\ \A k \in StoredOffers :
          LET config == job[offers[k].lastChecked].config
          IN  \A search \in HeldBy(config) :
                 /\ config.mode = "any" => SomeScore(offers[k].title, search)
                 /\ config.mode = "all" /\ EmptyTerm \notin config.keywords =>
                       FullScore(offers[k].title, search)

\* What List answers has the monitored offers and the best of the others,
\* among any rows and among those that scans have stored and marked, whichever
\* alerts they were scored by.
ListingFollows ==
    /\ InputListingsFollow
    /\ ListingsFollow({Table(by) : by \in [StoredOffers -> Searches]})

=============================================================================
