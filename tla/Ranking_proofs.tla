--------------------------- MODULE Ranking_proofs ---------------------------
(***************************************************************************)
(* Proofs about Ranking, for any titles, searches, prices, sets of offers  *)
(* and limits, and of OfferList, for whatever scans overlap and fail.      *)
(***************************************************************************)
EXTENDS OfferList, ScanRunner_proofs

Fractions == Nat \X (Nat \ {0})

-----------------------------------------------------------------------------
(* Arithmetic.                                                             *)

\* Multiplying keeps an order.
LEMMA ProductsKeepOrder ==
    ASSUME NEW a \in Int, NEW b \in Int, NEW c \in Nat, a <= b
    PROVE  a * c <= b * c
BY Z3

\* Dividing by a common factor keeps it.
LEMMA FactorsKeepOrder ==
    ASSUME NEW a \in Int, NEW b \in Int, NEW c \in Nat \ {0}, a * c <= b * c
    PROVE  a <= b
BY Z3

\* A quotient is within its dividend.
LEMMA QuotientWithin ==
    ASSUME NEW a \in Nat, NEW d \in Nat \ {0}
    PROVE  a \div d \in Nat /\ d * (a \div d) <= a
BY Z3

\* It is the greatest such number.
LEMMA QuotientIsGreatest ==
    ASSUME NEW a \in Nat, NEW d \in Nat \ {0}, NEW q \in Nat, d * q <= a
    PROVE  q <= a \div d
BY Z3

-----------------------------------------------------------------------------
(* The matches of a title.                                                 *)

\* A title matches at most all keywords, and at least none.
LEMMA MatchesFinite ==
    ASSUME NEW title, NEW keywords \in Seq(Words)
    PROVE  /\ Matches(title, keywords) \subseteq 1..Len(keywords)
           /\ IsFiniteSet(1..Len(keywords))
           /\ IsFiniteSet(Matches(title, keywords))
           /\ Cardinality(Matches(title, keywords)) \in Nat
           /\ Cardinality(Matches(title, keywords)) <= Len(keywords)
           /\ Cardinality(1..Len(keywords)) = Len(keywords)
           /\ Len(keywords) \in Nat
           /\ keywords # <<>> => Len(keywords) # 0
<1>1. Matches(title, keywords) \subseteq 1..Len(keywords) /\ Len(keywords) \in Nat
  BY DEF Matches
<1>2. IsFiniteSet(1..Len(keywords)) /\ Cardinality(1..Len(keywords)) = Len(keywords)
  <2> DEFINE n == Len(keywords)
  <2>1. 1 \in Int /\ n \in Int /\ n \in Nat
    BY <1>1
  <2> HIDE DEF n
  <2>2. IsFiniteSet(1..n) /\ Cardinality(1..n) = IF 1 > n THEN 0 ELSE n - 1 + 1
    BY <2>1, FS_Interval
  <2>3. Cardinality(1..n) = n
    BY <2>1, <2>2
  <2> QED BY <2>2, <2>3 DEF n
<1>3. /\ IsFiniteSet(Matches(title, keywords))
      /\ Cardinality(Matches(title, keywords)) <= Cardinality(1..Len(keywords))
  BY <1>1, <1>2, FS_Subset
<1>4. Cardinality(Matches(title, keywords)) \in Nat
  BY <1>3, FS_CardinalityType
<1>5. keywords # <<>> => Len(keywords) # 0
  OBVIOUS
<1> QED BY <1>1, <1>2, <1>3, <1>4, <1>5

\* The ratio is a fraction between 0 and 1.
LEMMA RatioBetween ==
    ASSUME NEW title, NEW keywords \in Seq(Words)
    PROVE  /\ KeywordMatchRatio(title, keywords) \in Fractions
           /\ Between0And1(KeywordMatchRatio(title, keywords))
<1>1. CASE keywords = <<>>
  BY <1>1 DEF KeywordMatchRatio, Full, Between0And1, Fractions
<1>2. CASE keywords # <<>>
  <2> DEFINE n == Cardinality(Matches(title, keywords))
             d == Len(keywords)
  <2>1. n \in Nat /\ d \in Nat \ {0} /\ n <= d
    BY <1>2, MatchesFinite
  <2>2. KeywordMatchRatio(title, keywords) = <<n, d>>
    BY <1>2 DEF KeywordMatchRatio
  <2> HIDE DEF n, d
  <2> QED BY <2>1, <2>2 DEF Between0And1, Fractions
<1> QED BY <1>1, <1>2

\* More matches, no smaller ratio.
LEMMA RatioFollows ==
    ASSUME NEW s, NEW t, NEW keywords \in Seq(Words),
           Cardinality(Matches(s, keywords)) <= Cardinality(Matches(t, keywords))
    PROVE  AtMost(KeywordMatchRatio(s, keywords), KeywordMatchRatio(t, keywords))
<1>1. CASE keywords = <<>>
  BY <1>1 DEF KeywordMatchRatio, Full, AtMost
<1>2. CASE keywords # <<>>
  <2> DEFINE m == Cardinality(Matches(s, keywords))
             n == Cardinality(Matches(t, keywords))
             d == Len(keywords)
  <2>1. m \in Nat /\ n \in Nat /\ d \in Nat /\ m <= n
    BY MatchesFinite
  <2>2. KeywordMatchRatio(s, keywords) = <<m, d>> /\ KeywordMatchRatio(t, keywords) = <<n, d>>
    BY <1>2 DEF KeywordMatchRatio
  <2> HIDE DEF m, n, d
  <2>3. m * d <= n * d
    BY <2>1, ProductsKeepOrder
  <2> QED BY <2>2, <2>3 DEF AtMost
<1> QED BY <1>1, <1>2

-----------------------------------------------------------------------------
(* The proximity of a price.                                               *)

\* A distance between prices is a price.
LEMMA DistanceType ==
    ASSUME NEW target \in Nat, NEW price \in Nat
    PROVE  /\ Distance(target, price) \in Nat
           /\ Distance(target, price) = 0 <=> price = target
BY DEF Distance

\* The proximity is a fraction between 0 and 1.
LEMMA ProximityBetween ==
    ASSUME NEW target \in Nat, NEW tolerance \in Nat, NEW price \in Nat
    PROVE  /\ PriceProximityScore(target, tolerance, price) \in Fractions
           /\ Between0And1(PriceProximityScore(target, tolerance, price))
<1> DEFINE width == target * tolerance
           left == width - 10000 * Distance(target, price)
           score == PriceProximityScore(target, tolerance, price)
<1>1. CASE target = 0 \/ tolerance = 0
  <2>1. score \in {Nothing, Full}
    BY <1>1 DEF PriceProximityScore
  <2> QED BY <2>1 DEF Nothing, Full, Between0And1, Fractions
<1>2. CASE target # 0 /\ tolerance # 0
  <2>1. width \in Nat \ {0}
    BY <1>2, Z3
  <2>2. score = IF left < 0 THEN Nothing ELSE <<left, width>>
    BY <1>2 DEF PriceProximityScore
  <2>3. left \in Int /\ left <= width
    BY <2>1, DistanceType
  <2> HIDE DEF score, left, width
  <2>4. left < 0 => score \in Fractions /\ Between0And1(score)
    BY <2>2 DEF Nothing, Between0And1, Fractions
  <2>5. ~ left < 0 => score \in Fractions /\ Between0And1(score)
    BY <2>1, <2>2, <2>3 DEF Between0And1, Fractions
  <2>6. score \in Fractions /\ Between0And1(score)
    BY <2>4, <2>5
  <2> QED BY <2>6 DEF score
<1> QED BY <1>1, <1>2

\* A price as close or closer, no smaller proximity.
LEMMA ProximityFollows ==
    ASSUME NEW target \in Nat, NEW tolerance \in Nat, NEW p \in Nat, NEW q \in Nat,
           Distance(target, q) <= Distance(target, p)
    PROVE  AtMost(PriceProximityScore(target, tolerance, p),
                  PriceProximityScore(target, tolerance, q))
<1> DEFINE width == target * tolerance
           far == width - 10000 * Distance(target, p)
           near == width - 10000 * Distance(target, q)
           worse == PriceProximityScore(target, tolerance, p)
           better == PriceProximityScore(target, tolerance, q)
<1>1. CASE target = 0
  BY <1>1 DEF PriceProximityScore, Nothing, AtMost
<1>2. CASE target # 0 /\ tolerance = 0
  <2>1. /\ worse = IF p = target THEN Full ELSE Nothing
        /\ better = IF q = target THEN Full ELSE Nothing
    BY <1>2 DEF PriceProximityScore
  <2>2. p = target => q = target
    BY DistanceType
  <2> QED BY <2>1, <2>2 DEF Full, Nothing, AtMost
<1>3. CASE target # 0 /\ tolerance # 0
  <2>1. width \in Nat \ {0}
    BY <1>3, Z3
  <2>2. /\ worse = IF far < 0 THEN Nothing ELSE <<far, width>>
        /\ better = IF near < 0 THEN Nothing ELSE <<near, width>>
    BY <1>3 DEF PriceProximityScore
  <2>3. far \in Int /\ near \in Int /\ far <= near
    <3> DEFINE m == Distance(target, p)
               n == Distance(target, q)
    <3>1. m \in Nat /\ n \in Nat /\ n <= m
      BY DistanceType
    <3> HIDE DEF m, n, width
    <3>2. /\ width - 10000 * m \in Int
          /\ width - 10000 * n \in Int
          /\ width - 10000 * m <= width - 10000 * n
      BY <2>1, <3>1
    <3> QED BY <3>2 DEF m, n
  <2>4. AtMost(worse, better)
    <3> HIDE DEF worse, better, far, near, width
    <3>1. CASE far < 0 /\ near < 0
      BY <2>2, <3>1 DEF Nothing, AtMost
    <3>2. CASE far < 0 /\ ~ near < 0
      <4>1. 0 * width <= near * 1
        BY <2>1, <2>3, <3>2
      <4> QED BY <2>2, <3>2, <4>1 DEF Nothing, AtMost
    <3>3. CASE ~ far < 0
      <4>1. far * width <= near * width
        BY <2>1, <2>3, ProductsKeepOrder
      <4>2. ~ near < 0
        BY <2>3, <3>3
      <4> QED BY <2>2, <3>3, <4>1, <4>2 DEF AtMost
    <3> QED BY <3>1, <3>2, <3>3
  <2> QED BY <2>4
<1> QED BY <1>1, <1>2, <1>3

-----------------------------------------------------------------------------
(* The score.                                                              *)

\* The mean of two fractions between 0 and 1 is one.
LEMMA MeanBetween ==
    ASSUME NEW s \in Fractions, NEW t \in Fractions, Between0And1(s), Between0And1(t)
    PROVE  Mean(s, t) \in Fractions /\ Between0And1(Mean(s, t))
<1> DEFINE a == s[1]
           b == s[2]
           c == t[1]
           d == t[2]
<1>1. a \in Nat /\ b \in Nat \ {0} /\ c \in Nat /\ d \in Nat \ {0} /\ a <= b /\ c <= d
  BY DEF Fractions, Between0And1
<1>2. Mean(s, t) = <<a * d + c * b, 2 * b * d>>
  BY DEF Mean
<1> HIDE DEF a, b, c, d
<1>3. a * d <= b * d /\ c * b <= d * b
  BY <1>1, ProductsKeepOrder
<1>4. /\ a * d \in Nat
      /\ c * b \in Nat
      /\ b * d \in Nat \ {0}
      /\ d * b = b * d
      /\ 2 * b * d = 2 * (b * d)
  BY <1>1, Z3
<1> DEFINE n == a * d + c * b
           m == 2 * b * d
<1>5. n \in Nat /\ m \in Nat \ {0} /\ n <= m
  BY <1>3, <1>4
<1> HIDE DEF n, m
<1>6. <<n, m>> \in Fractions /\ Between0And1(<<n, m>>)
  BY <1>5 DEF Fractions, Between0And1
<1> QED BY <1>2, <1>6 DEF n, m

\* The mean follows both.
LEMMA MeanFollows ==
    ASSUME NEW s \in Fractions, NEW t \in Fractions, NEW u \in Fractions, NEW v \in Fractions,
           AtMost(s, u), AtMost(t, v)
    PROVE  AtMost(Mean(s, t), Mean(u, v))
<1> DEFINE a == s[1]
           b == s[2]
           c == t[1]
           d == t[2]
           e == u[1]
           f == u[2]
           g == v[1]
           h == v[2]
<1>1. /\ a \in Nat /\ b \in Nat \ {0} /\ c \in Nat /\ d \in Nat \ {0}
      /\ e \in Nat /\ f \in Nat \ {0} /\ g \in Nat /\ h \in Nat \ {0}
      /\ a * f <= e * b
      /\ c * h <= g * d
  BY DEF Fractions, AtMost
<1>2. /\ Mean(s, t) = <<a * d + c * b, 2 * b * d>>
      /\ Mean(u, v) = <<e * h + g * f, 2 * f * h>>
  BY DEF Mean
<1> HIDE DEF a, b, c, d, e, f, g, h
<1>3. (a * f) * (d * h) <= (e * b) * (d * h) /\ (c * h) * (b * f) <= (g * d) * (b * f)
  <2>1. /\ a * f \in Int
        /\ e * b \in Int
        /\ c * h \in Int
        /\ g * d \in Int
        /\ d * h \in Nat
        /\ b * f \in Nat
    BY <1>1, Z3
  <2> QED BY <1>1, <2>1, ProductsKeepOrder
<1>4. /\ (a * d + c * b) * (2 * f * h) = 2 * ((a * f) * (d * h)) + 2 * ((c * h) * (b * f))
      /\ (e * h + g * f) * (2 * b * d) = 2 * ((e * b) * (d * h)) + 2 * ((g * d) * (b * f))
  BY <1>1, Z3
<1>5. /\ (a * f) * (d * h) \in Int
      /\ (e * b) * (d * h) \in Int
      /\ (c * h) * (b * f) \in Int
      /\ (g * d) * (b * f) \in Int
  BY <1>1, Z3
<1>6. (a * d + c * b) * (2 * f * h) <= (e * h + g * f) * (2 * b * d)
  BY <1>3, <1>4, <1>5
<1> QED BY <1>2, <1>6 DEF AtMost

\* Rounding to four decimals keeps the order.
LEMMA StoredFollows ==
    ASSUME NEW s \in Fractions, NEW t \in Fractions, AtMost(s, t)
    PROVE  Stored(s) <= Stored(t)
<1> DEFINE a == s[1]
           b == s[2]
           c == t[1]
           d == t[2]
           q == (20000 * a + b) \div (2 * b)
<1>1. a \in Nat /\ b \in Nat \ {0} /\ c \in Nat /\ d \in Nat \ {0} /\ a * d <= c * b
  BY DEF Fractions, AtMost
<1>2. Stored(s) = q /\ Stored(t) = (20000 * c + d) \div (2 * d)
  BY DEF Stored
<1> HIDE DEF a, b, c, d
<1>3. /\ 20000 * a + b \in Nat
      /\ 2 * b \in Nat \ {0}
      /\ 20000 * c + d \in Nat
      /\ 2 * d \in Nat \ {0}
  BY <1>1
<1>4. q \in Nat /\ (2 * b) * q <= 20000 * a + b
  BY <1>3, QuotientWithin
<1> HIDE DEF q
<1>5. (2 * d) * q <= 20000 * c + d
  <2>1. (2 * b * q) * d <= (20000 * a + b) * d
    <3>1. 2 * b * q \in Int /\ 2 * b * q = (2 * b) * q
      BY <1>1, <1>4, Z3
    <3> QED BY <1>1, <1>3, <1>4, <3>1, ProductsKeepOrder
  <2>2. (20000 * a + b) * d <= (20000 * c + d) * b
    <3>1. /\ (20000 * a + b) * d = 20000 * (a * d) + b * d
          /\ (20000 * c + d) * b = 20000 * (c * b) + b * d
      BY <1>1, Z3
    <3>2. a * d \in Int /\ c * b \in Int /\ b * d \in Int
      BY <1>1, Z3
    <3> QED BY <1>1, <3>1, <3>2
  <2>3. (2 * b * q) * d = ((2 * d) * q) * b
    BY <1>1, <1>4, Z3
  <2>4. /\ (2 * d) * q \in Int
        /\ (2 * b * q) * d \in Int
        /\ (20000 * a + b) * d \in Int
        /\ (20000 * c + d) * b \in Int
    BY <1>1, <1>4, Z3
  <2>5. ((2 * d) * q) * b <= (20000 * c + d) * b
    BY <2>1, <2>2, <2>3, <2>4
  <2> QED BY <1>1, <1>3, <2>4, <2>5, FactorsKeepOrder
<1> QED BY <1>2, <1>3, <1>4, <1>5, QuotientIsGreatest

\* A score is between 0 and 1, and a better listing never scores lower, before and
\* after it is rounded: for any titles and prices.
LEMMA ScoresAlwaysFollow ==
    ASSUME NEW titles, NEW prices \in SUBSET Nat
    PROVE  ScoresFollow(titles, prices)
<1> USE DEF Score
<1> SUFFICES ASSUME NEW search \in Searches, NEW s \in titles, NEW t \in titles,
                    NEW p \in prices, NEW q \in prices
             PROVE  /\ Between0And1(Score(s, search, p))
                    /\ /\ Cardinality(Matches(s, search.keywords))
                             <= Cardinality(Matches(t, search.keywords))
                       /\ Distance(search.target, q) <= Distance(search.target, p)
                       => /\ AtMost(Score(s, search, p), Score(t, search, q))
                          /\ Stored(Score(s, search, p)) <= Stored(Score(t, search, q))
  BY DEF ScoresFollow, ScoresAreBetween0And1, BetterScoresNoLess
<1> DEFINE keywords == search.keywords
           target == search.target
           tolerance == search.tolerance
<1>0. /\ keywords \in Seq(Words) /\ target \in Nat /\ tolerance \in Nat
      /\ p \in Nat /\ q \in Nat
  BY InputsAssumption
<1> DEFINE ratio(title) == KeywordMatchRatio(title, keywords)
           proximity(price) == PriceProximityScore(target, tolerance, price)
           score(title, price) == Classify(title, keywords, target, tolerance, price)
<1> HIDE DEF keywords, target, tolerance
<1>1. \A title : ratio(title) \in Fractions /\ Between0And1(ratio(title))
  BY <1>0, RatioBetween
<1>2. \A price \in {p, q} :
         proximity(price) \in Fractions /\ Between0And1(proximity(price))
  BY <1>0, ProximityBetween
<1>3. \A title : \A price \in {p, q} :
         score(title, price) \in Fractions /\ Between0And1(score(title, price))
  BY <1>1, <1>2, MeanBetween DEF Classify
<1>4. ASSUME Cardinality(Matches(s, keywords)) <= Cardinality(Matches(t, keywords)),
             Distance(target, q) <= Distance(target, p)
      PROVE  AtMost(score(s, p), score(t, q)) /\ Stored(score(s, p)) <= Stored(score(t, q))
  <2>1. AtMost(ratio(s), ratio(t))
    BY <1>0, <1>4, RatioFollows
  <2>2. AtMost(proximity(p), proximity(q))
    BY <1>0, <1>4, ProximityFollows
  <2>3. AtMost(score(s, p), score(t, q))
    BY <1>1, <1>2, <2>1, <2>2, MeanFollows DEF Classify
  <2> QED BY <1>3, <2>3, StoredFollows
<1> QED BY <1>3, <1>4 DEF keywords, target, tolerance

-----------------------------------------------------------------------------
(* The filters and the listing.                                            *)

\* The filters keep what the score says of a title's keywords, for any titles
\* and searches.
LEMMA FiltersAlwaysFollow ==
    ASSUME NEW titles
    PROVE  FiltersFollow(titles)
<1> DEFINE Listed(keywords) == {keywords[i] : i \in 1..Len(keywords)}
<1> SUFFICES ASSUME NEW title \in titles, NEW keywords \in Seq(Words)
             PROVE  /\ MatchesAnyKeyword(title, Listed(keywords)) <=>
                          KeywordMatchRatio(title, keywords)[1] > 0
                    /\ KeywordMatchRatio(title, keywords)[1] = KeywordMatchRatio(title, keywords)[2]
                          <=> /\ MatchesAllKeywords(title, Listed(keywords))
                              /\ EmptyTerm \notin Listed(keywords)
  <2>1. \A search \in Searches :
           search.keywords \in Seq(Words) /\ WordsOf(search) = Listed(search.keywords)
    BY InputsAssumption DEF WordsOf
  <2> HIDE DEF Listed
  <2> QED BY <2>1, Zenon DEF FiltersFollow, SomeScore, FullScore
<1>1. CASE keywords = <<>>
  BY <1>1 DEF MatchesAnyKeyword, MatchesAllKeywords, KeywordMatchRatio, Full
<1>2. CASE keywords # <<>>
  <2> DEFINE matches == Matches(title, keywords)
             n == Cardinality(matches)
             d == Len(keywords)
  <2>1. /\ matches \subseteq 1..d
        /\ IsFiniteSet(1..d)
        /\ IsFiniteSet(matches)
        /\ n \in Nat
        /\ Cardinality(1..d) = d
        /\ d \in Nat
        /\ d # 0
    BY <1>2, MatchesFinite
  <2>2. KeywordMatchRatio(title, keywords) = <<n, d>>
    BY <1>2 DEF KeywordMatchRatio
  <2>3. n > 0 <=> matches # {}
    BY <2>1, FS_EmptySet
  <2>4. n = d <=> matches = 1..d
    BY <2>1, FS_Subset
  <2>5. matches # {} <=> MatchesAnyKeyword(title, Listed(keywords))
    <3>1. Listed(keywords) # {}
      BY <2>1
    <3> QED BY <3>1 DEF Matches, MatchesAnyKeyword
  <2>6. matches = 1..d <=> /\ MatchesAllKeywords(title, Listed(keywords))
                           /\ EmptyTerm \notin Listed(keywords)
    BY DEF Matches, MatchesAllKeywords
  <2>7. KeywordMatchRatio(title, keywords)[1] = n /\ KeywordMatchRatio(title, keywords)[2] = d
    <3> HIDE DEF n, d
    <3> QED BY <2>2
  <2>8. MatchesAnyKeyword(title, Listed(keywords)) <=> KeywordMatchRatio(title, keywords)[1] > 0
    <3> HIDE DEF n, d, matches, Listed
    <3> QED BY <2>3, <2>5, <2>7
  <2>9. KeywordMatchRatio(title, keywords)[1] = KeywordMatchRatio(title, keywords)[2]
        <=> MatchesAllKeywords(title, Listed(keywords)) /\ EmptyTerm \notin Listed(keywords)
    <3> HIDE DEF n, d, matches, Listed
    <3> QED BY <2>4, <2>6, <2>7, Zenon
  <2> QED BY <2>8, <2>9, Zenon
<1> QED BY <1>1, <1>2

\* The listing has what is monitored, and of the rest only what as many as the
\* limit are not better than, for any offers and any limit.
LEMMA ListingsAlwaysFollow ==
    ASSUME NEW tables,
           \A rows \in tables : IsFiniteSet(rows) /\ \A o \in rows : o.classification \in Int
    PROVE  ListingsFollow(tables)
<1> SUFFICES ASSUME NEW rows \in tables, NEW limit \in Limits,
                    NEW list \in TopOffersByWatch(rows, limit)
             PROVE  /\ list \subseteq Available(rows)
                    /\ Cardinality({o \in list : ~ o.monitored}) <= limit
                    /\ \A o \in Available(rows) \ list :
                          /\ ~ o.monitored
                          /\ Cardinality({p \in list : p.classification >= o.classification})
                                >= limit
  BY DEF ListingsFollow, NoneOfTheBestIsLeftOut, OthersAreWithinLimit
<1>0. /\ IsFiniteSet(rows)
      /\ \A o \in rows : o.classification \in Int
      /\ limit \in Nat
  BY InputsAssumption
<1> DEFINE available == Available(rows)
           monitored == {o \in available : o.monitored}
<1>1. PICK top \in TopOf(available, limit) : list = top \cup monitored
  BY DEF TopOffersByWatch
<1>2. /\ top \subseteq available
      /\ Cardinality(top) = IF Cardinality(available) < limit THEN Cardinality(available)
                            ELSE limit
      /\ \A o \in top, p \in available \ top : p.classification <= o.classification
  BY <1>1 DEF TopOf
<1>3. /\ available \subseteq rows
      /\ IsFiniteSet(available)
      /\ Cardinality(available) \in Nat
      /\ IsFiniteSet(top)
      /\ Cardinality(top) \in Nat
      /\ IsFiniteSet(list)
      /\ limit \in Nat
  <2>1. available \subseteq rows /\ IsFiniteSet(rows)
    BY <1>0 DEF Available
  <2>2. IsFiniteSet(available) /\ list \subseteq available
    BY <2>1, <1>1, <1>2, FS_Subset
  <2> QED BY <1>0, <2>1, <2>2, <1>2, FS_Subset, FS_CardinalityType
<1>4. list \subseteq available
  BY <1>1, <1>2
<1>5. Cardinality({o \in list : ~ o.monitored}) <= limit
  <2> DEFINE others == {o \in list : ~ o.monitored}
  <2>1. others \subseteq top
    BY <1>1
  <2>2. Cardinality(others) <= Cardinality(top) /\ Cardinality(others) \in Nat
    BY <2>1, <1>3, FS_Subset, FS_CardinalityType
  <2> HIDE DEF others
  <2>3. Cardinality(top) <= limit
    BY <1>2, <1>3
  <2>4. Cardinality(others) <= limit
    BY <2>2, <2>3, <1>3
  <2> QED BY <2>4 DEF others
<1>6. ASSUME NEW o \in available \ list
      PROVE  /\ ~ o.monitored
             /\ Cardinality({p \in list : p.classification >= o.classification}) >= limit
  <2> DEFINE good == {p \in list : p.classification >= o.classification}
  <2>1. o \notin top /\ ~ o.monitored
    BY <1>1
  <2>2. top \subseteq good
    BY <1>0, <2>1, <1>1, <1>2, <1>3
  <2>3. Cardinality(top) = limit
    <3>1. Cardinality(top) # Cardinality(available)
      BY <2>1, <1>2, <1>3, FS_Subset
    <3> QED BY <3>1, <1>2
  <2>4. IsFiniteSet(good)
    BY <1>3, FS_Subset
  <2>5. Cardinality(top) <= Cardinality(good) /\ Cardinality(good) \in Nat
    BY <2>2, <2>4, FS_Subset, FS_CardinalityType
  <2> HIDE DEF good
  <2>6. Cardinality(good) >= limit
    BY <2>3, <2>5, <1>3
  <2> QED BY <2>1, <2>6 DEF good
<1> QED BY <1>4, <1>5, <1>6

-----------------------------------------------------------------------------
(* The offers that scans have stored.                                      *)

\* They are finitely many, however many there could be: a statement stores one.
FinitelyMany == IsFiniteSet(StoredOffers)

\* A step of a scan stores at most the offer at hand.
LEMMA OneOfferAtATime ==
    ASSUME TypeInv, FinitelyMany, NEW s \in Scans, OffersEffect(s)
    PROVE  FinitelyMany'
<1>1. CASE UNCHANGED offers
  BY <1>1 DEF FinitelyMany, StoredOffers
<1>2. CASE Writes(s)
  <2>1. StoredOffers' \subseteq StoredOffers \cup {Key(s)}
    BY <1>2 DEF Writes, WriteOffer, StoredOffers, TypeInv, TypeOK
  <2>2. IsFiniteSet(StoredOffers \cup {Key(s)})
    BY FS_AddElement DEF FinitelyMany
  <2> QED BY <2>1, <2>2, FS_Subset DEF FinitelyMany
<1>3. CASE MarkOffersUnavailable(s)
  <2>1. StoredOffers' \subseteq StoredOffers
    BY <1>3 DEF MarkOffersUnavailable, StoredOffers
  <2> QED BY <2>1, FS_Subset DEF FinitelyMany
<1> QED BY <1>1, <1>2, <1>3 DEF OffersEffect

\* The owner stores none.
LEMMA OwnerStoresNone ==
    ASSUME TypeInv, FinitelyMany, User \/ UNCHANGED vars
    PROVE  FinitelyMany'
<1>1. StoredOffers' \subseteq StoredOffers
  BY DEF User, SetMonitored, UpdateWatch, vars, StoredOffers, TypeInv, TypeOK
<1> QED BY <1>1, FS_Subset DEF FinitelyMany

\* So they are finitely many in every state.
LEMMA OffersAreFinite == Spec => [](TypeInv /\ FinitelyMany)
<1>1. Init => FinitelyMany
  <2>1. Init => StoredOffers = {}
    BY DEF Init, StoredOffers
  <2> QED BY <2>1, FS_EmptySet DEF FinitelyMany
<1>2. TypeInv /\ FinitelyMany /\ [Next]_vars => FinitelyMany'
  <2> SUFFICES ASSUME TypeInv, FinitelyMany, [Next]_vars PROVE FinitelyMany'
    OBVIOUS
  <2>1. CASE User \/ UNCHANGED vars
    BY <2>1, OwnerStoresNone
  <2>2. ASSUME NEW s \in Scans, Effect(s) PROVE FinitelyMany'
    BY <2>2, OneOfferAtATime DEF Effect
  <2> QED BY <2>1, <2>2, NextEffect
<1> QED BY <1>1, <1>2, AlwaysTyped, PTL DEF Spec

\* A score is stored as a number.
LEMMA StoredIsANumber ==
    ASSUME NEW title, NEW search \in Searches, NEW price \in Nat
    PROVE  Stored(Score(title, search, price)) \in Int
<1> DEFINE ratio == KeywordMatchRatio(title, search.keywords)
           proximity == PriceProximityScore(search.target, search.tolerance, price)
           score == Mean(ratio, proximity)
<1>1. search.keywords \in Seq(Words) /\ search.target \in Nat /\ search.tolerance \in Nat
  BY InputsAssumption
<1>2. score \in Fractions
  BY <1>1, RatioBetween, ProximityBetween, MeanBetween
<1> HIDE DEF score
<1>3. Stored(score) \in Int
  BY <1>2 DEF Stored, Fractions
<1> QED BY <1>3 DEF Score, Classify, score

\* No offer that a scan has stored scores below a worse one, for any alert
\* (classification.go:11-35, 92-117).
THEOREM ScoreFollowsTheListing == Spec => []ScoreFollows
<1>1. InputScoresFollow
  BY ScoresAlwaysFollow, InputsAssumption DEF InputScoresFollow
<1>2. TypeInv => ScoreFollows
  <2> SUFFICES ASSUME TypeInv PROVE ScoreFollows
    OBVIOUS
  <2>1. {offers[k].price : k \in StoredOffers} \in SUBSET Nat
    BY DEF TypeInv, TypeOK, StoredOffers, OfferRows
  <2> QED BY <1>1, <2>1, ScoresAlwaysFollow DEF ScoreFollows
<1> QED BY <1>2, AlwaysTyped, PTL

\* What a scan has stored scores by the keywords it held, whatever the owner
\* edits meanwhile and whatever fails (runner.go:134-148).
THEOREM FiltersFollowTheScore == Spec => []FilterFollows
<1>1. InputFiltersFollow
  BY FiltersAlwaysFollow DEF InputFiltersFollow
<1>2. OffersInv => FilterFollows
  <2> SUFFICES ASSUME OffersInv, NEW k \in StoredOffers,
                      NEW config, config = job[offers[k].lastChecked].config,
                      NEW search \in HeldBy(config)
               PROVE  /\ config.mode = "any" => SomeScore(offers[k].title, search)
                      /\ config.mode = "all" /\ EmptyTerm \notin config.keywords =>
                            FullScore(offers[k].title, search)
    BY <1>1, Zenon DEF FilterFollows
  <2> DEFINE title == offers[k].title
  <2>1. Accepts(config, title)
    BY DEF OffersInv, RowOK, StoredOffers
  <2>2. search \in Searches /\ WordsOf(search) = config.keywords
    BY DEF HeldBy
  <2>3. /\ MatchesAnyKeyword(title, config.keywords) <=> SomeScore(title, search)
        /\ FullScore(title, search) <=> /\ MatchesAllKeywords(title, config.keywords)
                                        /\ EmptyTerm \notin config.keywords
    <3>1. FiltersFollow({title})
      BY FiltersAlwaysFollow
    <3> QED BY <2>2, <3>1, Zenon DEF FiltersFollow
  <2>4. config.mode = "any" => MatchesAnyKeyword(title, config.keywords)
    BY <2>1 DEF Accepts
  <2>5. config.mode = "all" => MatchesAllKeywords(title, config.keywords)
    BY <2>1 DEF Accepts
  <2> QED BY <2>3, <2>4, <2>5, Zenon
<1> QED BY <1>2, AlwaysOffers, PTL

\* The rows of a listing are finitely many and have numbers for scores.
LEMMA TableIsScored ==
    ASSUME TypeInv, FinitelyMany, NEW by \in [StoredOffers -> Searches]
    PROVE  IsFiniteSet(Table(by)) /\ \A o \in Table(by) : o.classification \in Int
<1> DEFINE row == [k \in StoredOffers |->
                     [id |-> k,
                      classification |-> Stored(Score(offers[k].title, by[k], offers[k].price)),
                      available |-> offers[k].available,
                      monitored |-> offers[k].monitored]]
<1>1. \A k \in StoredOffers : row[k].classification \in Int
  <2>1. \A k \in StoredOffers : by[k] \in Searches /\ offers[k].price \in Nat
    BY DEF TypeInv, TypeOK, StoredOffers, OfferRows
  <2> QED BY <2>1, StoredIsANumber
<1>2. Table(by) = {row[k] : k \in StoredOffers}
  BY DEF Table
<1>3. row \in [StoredOffers -> Table(by)]
  BY <1>2
<1> HIDE DEF row
<1>4. row \in Surjection(StoredOffers, Table(by))
  BY <1>2, <1>3 DEF Surjection
<1>5. IsFiniteSet(Table(by))
  BY <1>4, FS_Surjection DEF FinitelyMany
<1> QED BY <1>1, <1>2, <1>5

\* What List answers is right for the offers scans have stored, whichever alerts
\* they were scored by and whatever was marked (offers.sql.go:191-211).
THEOREM ListingFollowsTheScores == Spec => []ListingFollows
<1>1. InputListingsFollow
  BY ListingsAlwaysFollow, InputsAssumption DEF InputListingsFollow
<1>2. TypeInv /\ FinitelyMany => ListingFollows
  <2> SUFFICES ASSUME TypeInv, FinitelyMany PROVE ListingFollows
    OBVIOUS
  <2> DEFINE tables == {Table(by) : by \in [StoredOffers -> Searches]}
  <2>1. \A rows \in tables : IsFiniteSet(rows) /\ \A o \in rows : o.classification \in Int
    BY TableIsScored
  <2> HIDE DEF tables
  <2>2. ListingsFollow(tables)
    BY <2>1, ListingsAlwaysFollow
  <2> QED BY <1>1, <2>2 DEF ListingFollows, tables
<1> QED BY <1>2, OffersAreFinite, PTL

=============================================================================
