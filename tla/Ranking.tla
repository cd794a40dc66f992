------------------------------ MODULE Ranking ------------------------------
(***************************************************************************)
(* The score of a listing (src/backend/internal/scan/classification.go)    *)
(* and what it decides: which offers of a watch TopOffersByWatch lists     *)
(* (db/sqlcgen/offers.sql.go). The order of the list is that of the scores,*)
(* the monitored offers first.                                             *)
(*                                                                         *)
(* A score is a fraction <<n, d>>: the code computes it in float64, and    *)
(* stores it with four decimals. A tolerance is in hundredths of a percent,*)
(* as NUMERIC(5, 2) keeps it. Keywords are a list here, since one that is  *)
(* repeated counts twice.                                                  *)
(***************************************************************************)
EXTENDS Classification, Integers, FiniteSets, Sequences

CONSTANTS
    Words,       \* what keywords are made of
    Titles,      \* the titles of listings
    Searches,    \* what alerts look for
    Prices,      \* the prices of listings, in cents
    OfferSets,   \* what a watch may have stored
    Limits       \* of the offers to list

\* An offer is a row with classification, available and monitored.
ASSUME InputsAssumption ==
    /\ Searches \subseteq [keywords : Seq(Words), target : Nat, tolerance : Nat]
    /\ Prices \subseteq Nat
    /\ \A rows \in OfferSets :
          /\ IsFiniteSet(rows)
          /\ \A o \in rows : /\ o.classification \in Int
                             /\ {o.available, o.monitored} \subseteq BOOLEAN
    /\ Limits \subseteq Nat

Nothing == <<0, 1>>

Full == <<1, 1>>

AtMost(s, t) == s[1] * t[2] <= t[1] * s[2]

Matches(title, keywords) ==
    {i \in 1..Len(keywords) : keywords[i] # EmptyTerm /\ Contains(title, keywords[i])}

\* Faulty: an empty keyword counts as one that every title has.
MatchRatioOfNonEmpty(title, keywords) ==
    IF keywords = <<>> THEN Full
    ELSE <<Cardinality({i \in 1..Len(keywords) :
                          keywords[i] = EmptyTerm \/ Contains(title, keywords[i])}), Len(keywords)>>

\* Empty keywords match nothing, and count in the length all the same.
KeywordMatchRatio(title, keywords) ==
    IF keywords = <<>> THEN Full
    ELSE <<Cardinality(Matches(title, keywords)), Len(keywords)>>

Distance(target, price) == IF price < target THEN target - price ELSE price - target

\* Faulty: nothing stops the score at zero.
PriceScoreUnclamped(target, tolerance, price) ==
    IF target <= 0 THEN Nothing
    ELSE IF tolerance = 0 THEN IF price = target THEN Full ELSE Nothing
    ELSE <<target * tolerance - 10000 * Distance(target, price), target * tolerance>>

\* 1 at the target, 0 at the edge of the tolerance and beyond. The width of the
\* tolerance is in ten thousandths of a cent.
PriceProximityScore(target, tolerance, price) ==
    IF target <= 0 THEN Nothing
    ELSE IF tolerance = 0 THEN IF price = target THEN Full ELSE Nothing
    ELSE LET width == target * tolerance
             left == width - 10000 * Distance(target, price)
         IN  IF left < 0 THEN Nothing ELSE <<left, width>>

Mean(s, t) == <<s[1] * t[2] + t[1] * s[2], 2 * s[2] * t[2]>>

Classify(title, keywords, target, tolerance, price) ==
    Mean(KeywordMatchRatio(title, keywords), PriceProximityScore(target, tolerance, price))

\* The stored score, in ten thousandths: floatToNumeric.
Stored(s) == (20000 * s[1] + s[2]) \div (2 * s[2])

-----------------------------------------------------------------------------
(* Which offers are listed.                                                *)

Available(rows) == {o \in rows : o.available}

\* ORDER BY classification DESC LIMIT, which is free to choose among equals.
TopOf(rows, limit) ==
    {top \in SUBSET rows :
        /\ Cardinality(top) = IF Cardinality(rows) < limit THEN Cardinality(rows) ELSE limit
        /\ \A o \in top, p \in rows \ top : p.classification <= o.classification}

\* Faulty: the monitored ones take their places from the limit.
TopMonitoredFirst(rows, limit) ==
    LET monitored == {o \in Available(rows) : o.monitored}
    IN  {monitored \cup rest : rest \in TopOf(Available(rows) \ monitored,
            IF limit < Cardinality(monitored) THEN 0 ELSE limit - Cardinality(monitored))}

\* The sets of offers that the query may answer, for max_offers as the limit.
TopOffersByWatch(rows, limit) ==
    {top \cup {o \in Available(rows) : o.monitored} : top \in TopOf(Available(rows), limit)}

-----------------------------------------------------------------------------
(* What they promise.                                                      *)

Between0And1(s) == 0 <= s[1] /\ s[1] <= s[2] /\ 0 < s[2]

Score(title, search, price) ==
    Classify(title, search.keywords, search.target, search.tolerance, price)

\* A score lies between 0 and 1, and does not fall when the price is as close
\* to the target or closer and as many keywords match or more, before and after
\* it is rounded: an edge (a target or tolerance of 0, a price beyond the
\* tolerance) never puts a worse listing first (classification.go:11-35, 92-117).
ScoresAreBetween0And1(titles, prices) ==
    \A title \in titles, search \in Searches, price \in prices :
        Between0And1(Score(title, search, price))

BetterScoresNoLess(titles, prices) ==
    \A search \in Searches, s, t \in titles, p, q \in prices :
        /\ Cardinality(Matches(s, search.keywords)) <= Cardinality(Matches(t, search.keywords))
        /\ Distance(search.target, q) <= Distance(search.target, p)
        => LET worse == Score(s, search, p)
               better == Score(t, search, q)
           IN  AtMost(worse, better) /\ Stored(worse) <= Stored(better)

ScoresFollow(titles, prices) ==
    ScoresAreBetween0And1(titles, prices) /\ BetterScoresNoLess(titles, prices)

\* The filters and the score ask the same of a title: the filter of mode any
\* lets pass what scores on some keyword, and the full score is for the titles
\* that the filter of mode all lets pass, if no keyword is empty
\* (classification.go:19-35, 50-91).
WordsOf(search) == {search.keywords[i] : i \in 1..Len(search.keywords)}

SomeScore(title, search) == KeywordMatchRatio(title, search.keywords)[1] > 0

FullScore(title, search) ==
    KeywordMatchRatio(title, search.keywords)[1] = KeywordMatchRatio(title, search.keywords)[2]

FiltersFollow(titles) ==
    \A title \in titles, search \in Searches :
        /\ MatchesAnyKeyword(title, WordsOf(search)) <=> SomeScore(title, search)
        /\ FullScore(title, search) <=> /\ MatchesAllKeywords(title, WordsOf(search))
                                        /\ EmptyTerm \notin WordsOf(search)

\* Whatever ties there are, the listing has every available offer that is
\* monitored, at most the limit of others, and leaves an available offer out
\* only if as many as the limit are as good (offers.sql.go:191-211 "as top-N por
\* Classificacao mais as marcadas como monitored").
NoneOfTheBestIsLeftOut(rows, limit, list) ==
    \A o \in Available(rows) \ list :
        /\ ~ o.monitored
        /\ Cardinality({p \in list : p.classification >= o.classification}) >= limit

OthersAreWithinLimit(rows, limit, list) ==
    /\ list \subseteq Available(rows)
    /\ Cardinality({o \in list : ~ o.monitored}) <= limit

ListingsFollow(tables) ==
    \A rows \in tables, limit \in Limits : \A list \in TopOffersByWatch(rows, limit) :
        NoneOfTheBestIsLeftOut(rows, limit, list) /\ OthersAreWithinLimit(rows, limit, list)

=============================================================================
