-------------------------- MODULE ScanSerial_proofs --------------------------
(***************************************************************************)
(* What ScanRunner promises of the behaviours in which the scans of a      *)
(* marketplace run one at a time (Alone), whatever fails or is cut and     *)
(* whoever edits the watch: histories that end at the current price and    *)
(* repeat no price, one notification for each crossing of the target, and  *)
(* listings of what a scan that succeeded saw. Without Overlap all         *)
(* behaviours are such; with it the runs show that the theorems fail for   *)
(* the others.                                                             *)
(***************************************************************************)
EXTENDS ScanRunner_proofs, SequenceTheorems

-----------------------------------------------------------------------------
(* The inductive invariant.                                                *)

\* One goroutine at a time works on a marketplace.
Alone ==
    \A s, t \in Scans :
        InFlight(s) /\ InFlight(t) /\ job[s].market = job[t].market => s = t

IsListed(k) == offers[k] # None /\ offers[k].available

\* What a goroutine remembers of the tables is still what they hold.
MemoryOK(s) ==
    /\ job[s].pc \notin InLoop => job[s].previous = None
    /\ job[s].pc = "upsert" /\ job[s].previous # None =>
          offers[Key(s)] # None /\ offers[Key(s)].price = job[s].previous
    /\ job[s].pc = "upsert" /\ job[s].previous = None /\ faults = 0 =>
          offers[Key(s)] = None
    /\ job[s].pc \in AfterUpsert =>
          IsListed(Key(s)) /\ offers[Key(s)].price = Listing(s).price

\* A price point decided upon still belongs at the end of its history.
DecisionOK(s) ==
    job[s].pc = "insert" =>
        /\ job[s].observedAt = clock[Key(s)]
        /\ \A p \in points[Key(s)] : p.at < clock[Key(s)]
        /\ PriceChanged(s)

\* What it has recorded as seen is available, and when it has marked the rest
\* nothing else is, unless a statement failed.
SeenOK(s) ==
    /\ job[s].pc \in Early => job[s].seenIds = {}
    /\ faults = 0 /\ InFlight(s) =>
          \A id \in job[s].seenIds : IsListed(<<job[s].market, id>>)
    /\ faults = 0 /\ job[s].pc = "finish" =>
          \A k \in Keys : k[1] = job[s].market /\ IsListed(k) => k[2] \in job[s].seenIds

\* The prices it works on are among those some Fetcher returned.
PricesOK(s) ==
    \A i \in DOMAIN job[s].listings : job[s].listings[i].price \in ListedPrices

ScanOK(s) == MemoryOK(s) /\ DecisionOK(s) /\ SeenOK(s) /\ PricesOK(s)

\* A history is a chain in time whose neighbours differ, and its last price is
\* the one PricesInOrder ends with.
ChainOK(k) ==
    /\ IsFiniteSet(points[k])
    /\ \A p, q \in points[k] : p.at = q.at => p = q
    /\ \A p \in points[k] : p.at <= clock[k]
    /\ \A p, q \in points[k] : Adjacent(k, p, q) => p.price # q.price
    /\ points[k] # {} => LatestPrice(k) = {PricesInOrder(k)[Cardinality(points[k])]}

\* A scan that may yet add a point to the history of k, and one that is to
\* tell its owner of a crossing of the target.
Recording(s, k) == job[s].pc \in {"point", "insert"} /\ Key(s) = k

Telling(s, k) == job[s].pc \in AfterUpsert /\ Key(s) = k /\ DropDetected(s)

\* A history ends at the price of the row, or a scan is at it.
EndOK(k) ==
    faults = 0 /\ offers[k] # None =>
        \/ LatestPrice(k) = {offers[k].price}
        \/ \E s \in Scans : Recording(s, k)

\* Every crossing is told, about to be told, or lost to a fault.
Untold(k) == IF \E s \in Scans : Telling(s, k) THEN 1 ELSE 0

CrossingsOK(k) ==
    /\ notified[k] + Untold(k) <= crossings[k]
    /\ faults = 0 => notified[k] + Untold(k) = crossings[k]

KeyOK(k) == ChainOK(k) /\ EndOK(k) /\ CrossingsOK(k)

SerialInv ==
    /\ Alone
    /\ \A s \in Scans : ScanOK(s)
    /\ \A k \in Keys : KeyOK(k)

-----------------------------------------------------------------------------
(* The histories.                                                          *)

\* A sequence that agrees with a shorter one by a place is that one extended.
LEMMA Extended ==
    ASSUME NEW n \in Nat, NEW values,
           NEW short \in [1..n -> values], NEW long \in [1..(n + 1) -> values],
           \A i \in 1..n : long[i] = short[i]
    PROVE  long = Append(short, long[n + 1])
<1>1. long[n + 1] \in values
  OBVIOUS
<1>2. short \in Seq(values) /\ Len(short) = n
  OBVIOUS
<1>3. long \in Seq(values) /\ Len(long) = n + 1
  OBVIOUS
<1>4. /\ Append(short, long[n + 1]) \in Seq(values)
      /\ Len(Append(short, long[n + 1])) = n + 1
      /\ Append(short, long[n + 1])[n + 1] = long[n + 1]
      /\ \A i \in 1..n : Append(short, long[n + 1])[i] = short[i]
  BY <1>1, <1>2, AppendProperties
<1>5. ASSUME NEW i \in 1..(n + 1) PROVE long[i] = Append(short, long[n + 1])[i]
  <2>1. i \in 1..n \/ i = n + 1
    OBVIOUS
  <2> QED
    BY <1>4, <2>1
<1> QED
  BY <1>3, <1>4, <1>5, SeqEqual

\* A point later than all others comes last in the order of a history.
LEMMA LaterPointIsLast ==
    ASSUME NEW history \in SUBSET PointRows, IsFiniteSet(history),
           NEW last \in PointRows, \A p \in history : p.at < last.at
    PROVE  /\ InOrder(history \cup {last}) = Append(InOrder(history), last.price)
           /\ Cardinality(history \cup {last}) = Cardinality(history) + 1
           /\ InOrder(history \cup {last})[Cardinality(history) + 1] = last.price
<1> DEFINE n == Cardinality(history)
           longer == history \cup {last}
<1>t. \A p \in longer : p.at \in Nat
  BY DEF PointRows
<1>1. last \notin history
  BY <1>t
<1>2. n \in Nat /\ IsFiniteSet(longer) /\ Cardinality(longer) = n + 1
  BY <1>1, FS_AddElement, FS_CardinalityType
<1>3. /\ Earlier(longer, last) = history
      /\ \A p \in history : Earlier(longer, p) = Earlier(history, p)
  BY <1>t DEF Earlier
<1>4. ASSUME NEW p \in history
      PROVE  Cardinality(Earlier(history, p)) \in Nat /\ Cardinality(Earlier(history, p)) < n
  <2>1. IsFiniteSet(history \ {p}) /\ Cardinality(history \ {p}) = n - 1
    BY FS_RemoveElement
  <2>2. Earlier(history, p) \subseteq history \ {p}
    BY <1>t DEF Earlier
  <2>3. /\ IsFiniteSet(Earlier(history, p))
        /\ Cardinality(Earlier(history, p)) <= Cardinality(history \ {p})
    BY <2>1, <2>2, FS_Subset
  <2>4. Cardinality(Earlier(history, p)) \in Nat
    BY <2>3, FS_CardinalityType
  <2> QED
    BY <1>2, <2>1, <2>3, <2>4
<1>5. \A i \in 1..n : Nth(longer, i) = Nth(history, i)
  <2> SUFFICES ASSUME NEW i \in 1..n PROVE Nth(longer, i) = Nth(history, i)
    OBVIOUS
  <2>1. Cardinality(Earlier(longer, last)) # i - 1
    BY <1>2, <1>3
  <2>2. \A p \in history : Cardinality(Earlier(longer, p)) = Cardinality(Earlier(history, p))
    BY <1>3
  <2> QED
    BY <2>1, <2>2 DEF Nth
<1>6. Nth(longer, n + 1) = {last}
  <2>1. \A p \in history : Cardinality(Earlier(longer, p)) # (n + 1) - 1
    BY <1>2, <1>3, <1>4
  <2>2. Cardinality(Earlier(longer, last)) = (n + 1) - 1
    BY <1>2, <1>3
  <2> QED
    BY <2>1, <2>2 DEF Nth
<1>7. /\ InOrder(longer) = [i \in 1..(n + 1) |-> (CHOOSE p \in Nth(longer, i) : TRUE).price]
      /\ InOrder(history) = [i \in 1..n |-> (CHOOSE p \in Nth(history, i) : TRUE).price]
  BY <1>2 DEF InOrder
<1> HIDE DEF n, longer
<1>8. InOrder(longer)[n + 1] = last.price
  <2>1. (CHOOSE p \in Nth(longer, n + 1) : TRUE) = last
    BY <1>6
  <2>2. InOrder(longer)[n + 1] = (CHOOSE p \in Nth(longer, n + 1) : TRUE).price
    BY <1>2, <1>7
  <2> QED
    BY <2>1, <2>2
<1>9. \A i \in 1..n : InOrder(longer)[i] = InOrder(history)[i]
  <2> SUFFICES ASSUME NEW i \in 1..n PROVE InOrder(longer)[i] = InOrder(history)[i]
    OBVIOUS
  <2>1. Nth(longer, i) = Nth(history, i)
    BY <1>5
  <2>2. i \in 1..(n + 1)
    BY <1>2
  <2>3. InOrder(longer)[i] = (CHOOSE p \in Nth(longer, i) : TRUE).price
    BY <1>7, <2>2
  <2>4. InOrder(history)[i] = (CHOOSE p \in Nth(history, i) : TRUE).price
    BY <1>7
  <2> QED
    BY <2>1, <2>3, <2>4
<1>10. InOrder(longer) = Append(InOrder(history), last.price)
  <2> DEFINE short == InOrder(history)
             long == InOrder(longer)
             values == {long[i] : i \in 1..(n + 1)}
  <2>1. short \in [1..n -> values] /\ long \in [1..(n + 1) -> values]
    <3>1. \A i \in 1..n : i \in 1..(n + 1) /\ short[i] = long[i]
      BY <1>2, <1>9
    <3>2. \A i \in 1..n : short[i] \in values
      BY <3>1
    <3>3. \A i \in 1..(n + 1) : long[i] \in values
      OBVIOUS
    <3> HIDE DEF values
    <3> QED
      BY <1>7, <3>2, <3>3
  <2>2. n \in Nat /\ \A i \in 1..n : long[i] = short[i]
    BY <1>2, <1>9
  <2>3. long = Append(short, long[n + 1])
    <3> HIDE DEF short, long, values
    <3> QED
      BY <2>1, <2>2, Extended
  <2> QED
    BY <1>8, <2>3
<1> QED
  BY <1>2, <1>8, <1>10 DEF n, longer

\* Two points of one history are never recorded at one time, so its latest
\* price is one price.
LEMMA OneLatest ==
    ASSUME TypeInv, NEW k \in Keys, ChainOK(k), NEW price \in LatestPrice(k)
    PROVE  LatestPrice(k) = {price}
<1>1. \A p \in points[k] : p.at \in Nat
  BY DEF TypeInv, TypeOK, PointRows
<1> QED
  BY <1>1 DEF LatestPrice, ChainOK

\* A chain that gets no point stays one.
LEMMA ChainStays ==
    ASSUME TypeInv, NEW k \in Keys, ChainOK(k),
           points'[k] = points[k], clock'[k] \in Nat, clock[k] <= clock'[k]
    PROVE  ChainOK(k)'
<1>1. \A p \in points[k] : p.at \in Nat
  BY DEF TypeInv, TypeOK, PointRows
<1>2. clock[k] \in Nat
  BY DEF TypeInv, TypeOK
<1>3. /\ LatestPrice(k)' = LatestPrice(k)
      /\ PricesInOrder(k)' = PricesInOrder(k)
      /\ \A p, q : Adjacent(k, p, q)' <=> Adjacent(k, p, q)
  BY DEF LatestPrice, PricesInOrder, Adjacent
<1>4. \A p \in points'[k] : p.at <= clock'[k]
  BY <1>1, <1>2 DEF ChainOK
<1> QED
  BY <1>3, <1>4 DEF ChainOK

\* A chain that gets a point after all others, of another price than the
\* latest, stays one and ends with it.
LEMMA ChainGrows ==
    ASSUME TypeInv, NEW k \in Keys, ChainOK(k), NEW new \in PointRows,
           \A p \in points[k] : p.at < new.at,
           new.at = clock[k], clock'[k] = clock[k],
           new.price \notin LatestPrice(k),
           points'[k] = points[k] \cup {new}
    PROVE  ChainOK(k)' /\ LatestPrice(k)' = {new.price}
<1>1. \A p \in points'[k] : p.at \in Nat
  BY DEF TypeInv, TypeOK, PointRows
<1>2. IsFiniteSet(points'[k])
  BY FS_AddElement DEF ChainOK
<1>3. \A p, q \in points'[k] : p.at = q.at => p = q
  BY <1>1 DEF ChainOK
<1>4. \A p \in points'[k] : p.at <= clock'[k]
  BY <1>1 DEF ChainOK
<1>5. ASSUME NEW p \in points'[k], NEW q \in points'[k], Adjacent(k, p, q)'
      PROVE  p.price # q.price
  <2>1. CASE q = new
    <3>1. p \in points[k] /\ \A r \in points[k] : r.at <= p.at
      BY <1>1, <1>5, <2>1 DEF Adjacent
    <3> QED
      BY <2>1, <3>1 DEF LatestPrice
  <2>2. CASE q # new
    <3>1. p \in points[k] /\ q \in points[k]
      BY <1>1, <1>5, <2>2 DEF Adjacent
    <3>2. Adjacent(k, p, q)
      BY <1>5 DEF Adjacent
    <3> QED
      BY <3>1, <3>2 DEF ChainOK
  <2> QED
    BY <2>1, <2>2
<1>6. LatestPrice(k)' = {new.price}
  BY <1>1 DEF LatestPrice
<1>7. PricesInOrder(k)'[Cardinality(points'[k])] = new.price
  <2>1. /\ points[k] \in SUBSET PointRows
        /\ IsFiniteSet(points[k])
    BY DEF TypeInv, TypeOK, ChainOK
  <2>2. /\ Cardinality(points[k] \cup {new}) = Cardinality(points[k]) + 1
        /\ InOrder(points[k] \cup {new})[Cardinality(points[k]) + 1] = new.price
    BY <2>1, LaterPointIsLast
  <2> QED
    BY <2>2 DEF PricesInOrder
<1> QED
  BY <1>2, <1>3, <1>4, <1>5, <1>6, <1>7 DEF ChainOK

-----------------------------------------------------------------------------
(* What a statement leaves alone.                                          *)

\* Nothing about the offer k changes but its availability and its owner's flag.
SamePrices(k) ==
    /\ offers'[k] = None <=> offers[k] = None
    /\ offers[k] # None => offers'[k].price = offers[k].price
    /\ points'[k] = points[k]
    /\ clock'[k] \in Nat /\ clock[k] <= clock'[k]
    /\ notified'[k] = notified[k]
    /\ crossings'[k] = crossings[k]

SameRow(k) ==
    /\ offers'[k] = offers[k]
    /\ points'[k] = points[k]
    /\ clock'[k] = clock[k]
    /\ notified'[k] = notified[k]
    /\ crossings'[k] = crossings[k]

\* A statement of s: no other goroutine moves, no row of another marketplace
\* changes, and s stays on its own.
Own(s) ==
    /\ \A t \in Scans \ {s} : job'[t] = job[t]
    /\ faults' = 0 => faults = 0
    /\ \A k \in Keys : ~ (InFlight(s) /\ k[1] = job[s].market) => SameRow(k)

LEMMA StatementsAreOwn ==
    ASSUME TypeInv, NEW s \in Scans,
           Step(s) \/ Failure(s) \/ \E m \in Marketplaces : Launch(s, m)
    PROVE  Own(s)
<1>1. LocalEffect(s)
  BY BeforeLoopEffect, LoopEffect, AfterLoopEffect, FailureEffect DEF Step, Effect
<1>2. ASSUME NEW k \in Keys, ~ (InFlight(s) /\ k[1] = job[s].market)
      PROVE  SameRow(k)
  <2>1. ASSUME job[s].pc \in InLoop PROVE Key(s) \in Keys /\ Key(s) # k
    BY <1>2, <2>1, AtHand DEF InFlight, Key, Running, TypeInv, WhereItStands
  <2>t. /\ offers \in [Keys -> OfferRows \cup {None}]
        /\ points \in [Keys -> SUBSET PointRows]
        /\ clock \in [Keys -> Nat]
        /\ notified \in [Keys -> Nat]
        /\ crossings \in [Keys -> Nat]
    BY DEF TypeInv, TypeOK
  <2>2. CASE UNCHANGED <<offers, points, clock, notified, crossings>>
    BY <2>2 DEF SameRow
  <2>3. CASE UpsertOffer(s) \/ UpsertFails(s)
    BY <2>t, <2>1, <2>3 DEF UpsertOffer, UpsertFails, WriteOffer, SameRow, InLoop
  <2>4. CASE DecidePricePoint(s) \/ InsertPricePoint(s) \/ CountAndNotify(s)
    BY <2>t, <2>1, <2>4 DEF DecidePricePoint, InsertPricePoint, CountAndNotify, SameRow, InLoop
  <2>5. CASE MarkOffersUnavailable(s)
    <3>1. k[1] # job[s].market
      BY <1>2, <2>5 DEF MarkOffersUnavailable, InFlight, Running
    <3> QED
      BY <2>t, <2>5, <3>1 DEF MarkOffersUnavailable, SameRow
  <2> QED
    BY <2>2, <2>3, <2>4, <2>5 DEF Step, Failure, Launch, CreateScan, ListWatchKeywords,
           ListWatchBlockedWords, Fetch, FetchFails, NoFetcher, SkipListing, GetPrevious,
           SkipPricePoint, FinishScan, ReturnError, RecordFailureFails, GetPreviousFails,
           PricePointFails, NotifyFails, MarkFails, Interrupt
<1> QED
  BY <1>1, <1>2 DEF Own, LocalEffect

\* What a goroutine remembers survives the statements of the others.
LEMMA OthersRemember ==
    ASSUME TypeInv, Alone, NEW s \in Scans, Own(s),
           NEW t \in Scans \ {s}, ScanOK(t)
    PROVE  ScanOK(t)'
<1>1. job'[t] = job[t] /\ (faults' = 0 => faults = 0) /\ job[t] \in Jobs
  BY DEF Own, TypeInv, TypeOK
<1>2. ASSUME InFlight(t), NEW k \in Keys, k[1] = job[t].market PROVE SameRow(k)
  BY <1>2 DEF Alone, Own
<1>3. ASSUME job[t].pc \in InLoop
      PROVE  /\ Key(t)' = Key(t) /\ Listing(t)' = Listing(t)
             /\ SameRow(Key(t))
  <2>1. Key(t) \in Keys /\ InFlight(t) /\ Key(t)[1] = job[t].market
    BY <1>3, AtHand DEF InFlight, Running, TypeInv, WhereItStands, Key
  <2> QED
    BY <1>1, <1>2, <2>1 DEF Key, Listing
<1>4. MemoryOK(t)'
  BY <1>1, <1>3 DEF ScanOK, MemoryOK, IsListed, SameRow, InLoop, AfterUpsert
<1>5. DecisionOK(t)'
  <2>1. CASE job[t].pc = "insert"
    BY <1>1, <1>3, <2>1 DEF ScanOK, DecisionOK, SameRow, PriceChanged, LatestPrice, InLoop
  <2>2. CASE job[t].pc # "insert"
    BY <1>1, <2>2 DEF DecisionOK
  <2> QED
    BY <2>1, <2>2
<1>6. SeenOK(t)'
  <2>1. ASSUME InFlight(t), NEW k \in Keys, k[1] = job[t].market
        PROVE  offers'[k] = offers[k]
    BY <1>2, <2>1 DEF SameRow
  <2>2. ASSUME InFlight(t), NEW id \in job[t].seenIds
        PROVE  offers'[<<job[t].market, id>>] = offers[<<job[t].market, id>>]
    <3>1. <<job[t].market, id>> \in Keys
      BY <1>1, <2>2 DEF Jobs, Keys, InFlight, TypeInv, WhereItStands
    <3> QED
      BY <2>1, <2>2, <3>1
  <2>3. InFlight(t)' <=> InFlight(t)
    BY <1>1 DEF InFlight
  <2>4. job[t].pc = "finish" => InFlight(t)
    BY DEF InFlight, Running
  <2>5. SeenOK(t)
    BY DEF ScanOK
  <2>6. (faults = 0 /\ InFlight(t) => \A id \in job[t].seenIds : IsListed(<<job[t].market, id>>))'
    BY <1>1, <2>2, <2>3, <2>5 DEF SeenOK, IsListed
  <2>7. (faults = 0 /\ job[t].pc = "finish" =>
           \A k \in Keys : k[1] = job[t].market /\ IsListed(k) => k[2] \in job[t].seenIds)'
    BY <1>1, <2>1, <2>4, <2>5 DEF SeenOK, IsListed
  <2>8. (job[t].pc \in Early => job[t].seenIds = {})'
    BY <1>1, <2>5 DEF SeenOK
  <2> QED
    BY <2>6, <2>7, <2>8 DEF SeenOK
<1>7. PricesOK(t)'
  BY <1>1 DEF ScanOK, PricesOK
<1> QED
  BY <1>4, <1>5, <1>6, <1>7 DEF ScanOK

\* Another goroutine records and tells what it did.
LEMMA OthersWork ==
    ASSUME NEW t \in Scans, NEW k \in Keys, job'[t] = job[t]
    PROVE  /\ Recording(t, k)' <=> Recording(t, k)
           /\ Telling(t, k)' <=> Telling(t, k)
BY DEF Recording, Telling, Key, Listing, DropDetected

\* Where the end of a history is kept, it stays.
LEMMA EndStays ==
    ASSUME NEW s \in Scans, NEW k \in Keys, EndOK(k), Own(s),
           offers'[k] = None <=> offers[k] = None,
           offers[k] # None => offers'[k].price = offers[k].price,
           points'[k] = points[k],
           faults' = 0 /\ Recording(s, k) =>
              \/ Recording(s, k)'
              \/ offers[k] # None => LatestPrice(k) = {offers[k].price}
    PROVE  EndOK(k)'
<1> SUFFICES ASSUME faults' = 0, offers'[k] # None
             PROVE  \/ LatestPrice(k)' = {offers'[k].price}
                    \/ \E t \in Scans : Recording(t, k)'
  BY DEF EndOK
<1>1. LatestPrice(k)' = LatestPrice(k) /\ offers[k] # None /\ offers'[k].price = offers[k].price
  BY DEF LatestPrice
<1>2. LatestPrice(k) = {offers[k].price} \/ \E t \in Scans : Recording(t, k)
  BY <1>1 DEF EndOK, Own
<1>3. \A t \in Scans \ {s} : Recording(t, k)' <=> Recording(t, k)
  BY OthersWork DEF Own
<1> QED
  BY <1>1, <1>2, <1>3

\* Where nothing is written of a crossing, it stays told or untold.
LEMMA CrossingsStay ==
    ASSUME TypeInv, NEW s \in Scans, NEW k \in Keys, CrossingsOK(k), Own(s),
           notified'[k] = notified[k], crossings'[k] = crossings[k],
           Telling(s, k)' => Telling(s, k),
           faults' = 0 /\ Telling(s, k) => Telling(s, k)'
    PROVE  CrossingsOK(k)'
<1>1. \A t \in Scans \ {s} : Telling(t, k)' <=> Telling(t, k)
  BY OthersWork DEF Own
<1>2. /\ Untold(k)' <= Untold(k) /\ Untold(k) \in Nat /\ Untold(k)' \in Nat
      /\ faults' = 0 => Untold(k)' = Untold(k)
  BY <1>1 DEF Untold
<1>3. notified[k] \in Nat /\ crossings[k] \in Nat
  BY DEF TypeInv, TypeOK
<1> QED
  BY <1>2, <1>3 DEF CrossingsOK, Own

\* A statement that adds no point and tells of no crossing, neither now nor later,
\* leaves what is promised of the offer k.
LEMMA KeyStays ==
    ASSUME TypeInv, NEW s \in Scans, NEW k \in Keys, KeyOK(k), SamePrices(k), Own(s),
           faults' = 0 /\ Recording(s, k) =>
              \/ Recording(s, k)'
              \/ offers[k] # None => LatestPrice(k) = {offers[k].price},
           Telling(s, k)' => Telling(s, k),
           faults' = 0 /\ Telling(s, k) => Telling(s, k)'
    PROVE  KeyOK(k)'
<1>1. ChainOK(k)'
  BY ChainStays DEF KeyOK, SamePrices
<1>2. EndOK(k)'
  BY EndStays DEF KeyOK, SamePrices
<1>3. CrossingsOK(k)'
  BY CrossingsStay DEF KeyOK, SamePrices
<1> QED
  BY <1>1, <1>2, <1>3 DEF KeyOK

\* A goroutine that is not past its upsert, and whose statement leaves the
\* prices alone, disturbs no key.
LEMMA AwayStays ==
    ASSUME TypeInv, NEW s \in Scans, NEW k \in Keys, KeyOK(k), SamePrices(k), Own(s),
           job[s].pc \notin AfterUpsert,
           job'[s].pc \notin AfterUpsert
    PROVE  KeyOK(k)'
<1>1. ~ Recording(s, k) /\ ~ Telling(s, k) /\ ~ Telling(s, k)'
  BY DEF Recording, Telling, AfterUpsert
<1> QED
  BY <1>1, KeyStays

LEMMA UnchangedRows ==
    ASSUME TypeInv, UNCHANGED <<offers, points, clock, notified, crossings>>, NEW k \in Keys
    PROVE  SamePrices(k)
BY DEF SamePrices, TypeInv, TypeOK

-----------------------------------------------------------------------------
(* The statements, one by one: what s remembers afterwards, and what is     *)
(* promised of each offer.                                                 *)

\* Before the loop nothing is remembered yet.
LEMMA BeforeLoopSerial ==
    ASSUME TypeInv, SerialInv, NEW s \in Scans,
           \/ \E m \in Marketplaces : Launch(s, m)
           \/ CreateScan(s)
           \/ ListWatchKeywords(s)
           \/ ListWatchBlockedWords(s)
           \/ Fetch(s)
           \/ FetchFails(s)
           \/ NoFetcher(s)
           \/ RecordFailureFails(s)
    PROVE  ScanOK(s)' /\ \A k \in Keys : KeyOK(k)'
<1>j. job \in [Scans -> Jobs] /\ job[s] \in Jobs /\ ScanOK(s)
  BY DEF TypeInv, TypeOK, SerialInv
<1>1. /\ job[s].pc \in Early
      /\ job'[s].pc \in {"create", "keywords", "blocked", "fetch", "next"}
      /\ job'[s].previous = job[s].previous
      /\ job'[s].seenIds = job[s].seenIds
      /\ job'[s].listings = job[s].listings \/ job'[s].listings \in Results
  <2>1. ASSUME NEW m \in Marketplaces, Launch(s, m)
        PROVE  /\ job[s].pc \in Early /\ job'[s].pc = "create"
               /\ job'[s].previous = job[s].previous
               /\ job'[s].seenIds = job[s].seenIds
               /\ job'[s].listings = job[s].listings
    BY <2>1, LaunchJob DEF Early
  <2>2. CASE CreateScan(s) \/ NoFetcher(s)
    BY <1>j, <2>2 DEF CreateScan, NoFetcher, Goto, Early, Jobs
  <2>3. CASE ListWatchKeywords(s) \/ ListWatchBlockedWords(s)
    BY <1>j, <2>3 DEF ListWatchKeywords, ListWatchBlockedWords, Early, Jobs
  <2>4. CASE Fetch(s)
    <3>1. PICK listings \in Results :
             job' = [job EXCEPT ![s].pc = "next", ![s].listings = listings]
      BY <2>4 DEF Fetch
    <3>2. job[s].pc = "fetch"
      BY <2>4 DEF Fetch
    <3> QED
      BY <1>j, <3>1, <3>2 DEF Early, Jobs
  <2>5. CASE FetchFails(s) \/ RecordFailureFails(s)
    BY <1>j, <2>5 DEF FetchFails, RecordFailureFails, Early, Jobs
  <2> QED
    BY <2>1, <2>2, <2>3, <2>4, <2>5
<1>2. job'[s].previous = None /\ job'[s].seenIds = {}
  BY <1>j, <1>1 DEF ScanOK, MemoryOK, SeenOK, Early, InLoop
<1>3. PricesOK(s)'
  <2>1. \A l \in Results : \A i \in DOMAIN l : l[i].price \in ListedPrices
    BY DEF ListedPrices
  <2> QED
    BY <1>j, <1>1, <2>1 DEF ScanOK, PricesOK
<1>4. ScanOK(s)'
  BY <1>1, <1>2, <1>3 DEF ScanOK, MemoryOK, DecisionOK, SeenOK, InLoop, AfterUpsert
<1>5. ASSUME NEW k \in Keys PROVE KeyOK(k)'
  <2>1. UNCHANGED <<offers, points, clock, notified, crossings>>
    BY DEF Launch, CreateScan, ListWatchKeywords, ListWatchBlockedWords, Fetch, FetchFails,
           NoFetcher, RecordFailureFails
  <2>2. Own(s)
    <3>1. Step(s) \/ Failure(s) \/ \E m \in Marketplaces : Launch(s, m)
      BY DEF Step, Failure
    <3> QED
      BY <3>1, StatementsAreOwn
  <2>3. job[s].pc \notin AfterUpsert /\ job'[s].pc \notin AfterUpsert
    BY <1>1 DEF Early, AfterUpsert
  <2>4. KeyOK(k) /\ SamePrices(k)
    BY <2>1, UnchangedRows DEF SerialInv
  <2> QED
    BY <2>2, <2>3, <2>4, AwayStays
<1> QED
  BY <1>4, <1>5

\* What is left of a goroutine's listings was listed.
LEMMA TailPrices ==
    ASSUME TypeInv, NEW s \in Scans, PricesOK(s), job[s].listings # <<>>,
           job'[s].listings = Tail(job[s].listings)
    PROVE  PricesOK(s)'
<1>1. job[s].listings \in Seq(Listings)
  BY DEF TypeInv, TypeOK, Jobs
<1>2. /\ Len(Tail(job[s].listings)) = Len(job[s].listings) - 1
      /\ \A i \in 1..Len(Tail(job[s].listings)) :
             Tail(job[s].listings)[i] = job[s].listings[i + 1]
      /\ Tail(job[s].listings) \in Seq(Listings)
      /\ Len(job[s].listings) \in Nat
  BY <1>1, HeadTailProperties
<1> QED
  BY <1>1, <1>2 DEF PricesOK

\* Going on to the next listing, or giving up, forgets the listing at hand.
LEMMA Forgets ==
    ASSUME TypeInv, NEW s \in Scans, ScanOK(s), UNCHANGED offers,
           faults' = 0 => faults = 0,
           \/ /\ job[s].pc \in Running /\ job[s].listings # <<>>
              /\ job'[s] = Continue(job[s])
           \/ /\ job'[s] = Abort(job[s])
              /\ faults' # 0
    PROVE  ScanOK(s)'
<1>j. job[s] \in Jobs
  BY DEF TypeInv, TypeOK
<1>1. CASE /\ job[s].pc \in Running /\ job[s].listings # <<>>
           /\ job'[s] = Continue(job[s])
  <2>1. /\ job'[s].pc = "next" /\ job'[s].previous = None
        /\ job'[s].seenIds = job[s].seenIds /\ job'[s].market = job[s].market
        /\ job'[s].listings = Tail(job[s].listings)
    BY <1>j, <1>1 DEF Continue, Jobs
  <2>2. PricesOK(s)'
    BY <1>1, <2>1, TailPrices DEF ScanOK
  <2>3. SeenOK(s)'
    <3>1. InFlight(s)
      BY <1>1 DEF InFlight
    <3> QED
      BY <2>1, <3>1 DEF ScanOK, SeenOK, IsListed, Early
  <2> QED
    BY <2>1, <2>2, <2>3 DEF ScanOK, MemoryOK, DecisionOK, InLoop, AfterUpsert
<1>2. CASE /\ job'[s] = Abort(job[s]) /\ faults' # 0
  <2>1. /\ job'[s].pc = "aborted" /\ job'[s].previous = None /\ job'[s].listings = <<>>
    BY <1>j, <1>2 DEF Abort, Jobs
  <2> QED
    BY <1>2, <2>1 DEF ScanOK, MemoryOK, DecisionOK, SeenOK, PricesOK, InLoop, AfterUpsert, Early
<1> QED
  BY <1>1, <1>2

\* SkipListing, GetOfferByExternalID and its failure.
LEMMA ReadSerial ==
    ASSUME TypeInv, SerialInv, NEW s \in Scans,
           SkipListing(s) \/ GetPrevious(s) \/ GetPreviousFails(s)
    PROVE  ScanOK(s)' /\ \A k \in Keys : KeyOK(k)'
<1>j. /\ job \in [Scans -> Jobs] /\ job[s] \in Jobs /\ ScanOK(s)
      /\ job[s].pc = "next" /\ job[s].pc \in Running /\ job[s].listings # <<>>
  BY DEF TypeInv, TypeOK, SerialInv, SkipListing, GetPrevious, GetPreviousFails, Running
<1>o. Own(s)
  BY StatementsAreOwn DEF Step, Failure
<1>r. UNCHANGED <<offers, points, clock, notified, crossings>>
  BY DEF SkipListing, GetPrevious, GetPreviousFails
<1>1. CASE SkipListing(s)
  <2>1. job'[s] = Continue(job[s])
    BY <1>j, <1>1 DEF SkipListing
  <2>2. ScanOK(s)'
    BY <1>j, <1>o, <1>r, <2>1, Forgets DEF Own
  <2>3. job'[s].pc \notin AfterUpsert
    BY <1>j, <2>1 DEF Continue, Jobs, AfterUpsert
  <2> QED
    BY <1>j, <1>o, <1>r, <2>2, <2>3, AwayStays, UnchangedRows DEF SerialInv, AfterUpsert
<1>2. CASE GetPrevious(s) \/ GetPreviousFails(s)
  <2>1. /\ job'[s].pc = "upsert" /\ job'[s].listings = job[s].listings
        /\ job'[s].market = job[s].market /\ job'[s].seenIds = job[s].seenIds
    BY <1>j, <1>2 DEF GetPrevious, GetPreviousFails, Goto, Jobs
  <2>2. Key(s)' = Key(s) /\ Key(s) \in Keys
    BY <1>j, <2>1, AtHand DEF Key, Listing
  <2>3. MemoryOK(s)'
    <3>1. CASE GetPrevious(s)
      <4>1. job'[s].previous = IF offers[Key(s)] = None THEN None ELSE offers[Key(s)].price
        BY <1>j, <3>1 DEF GetPrevious, Jobs
      <4>2. offers[Key(s)] # None => offers[Key(s)].price # None
        BY <2>2, NoneAssumption DEF TypeInv, TypeOK, OfferRows
      <4> QED
        BY <1>r, <2>1, <2>2, <4>1, <4>2 DEF MemoryOK, InLoop, AfterUpsert
    <3>2. CASE GetPreviousFails(s)
      <4>1. job'[s].previous = None
        BY <1>j, <3>2 DEF GetPreviousFails, Goto, Jobs, ScanOK, MemoryOK, InLoop
      <4>2. faults' # 0
        BY <3>2 DEF GetPreviousFails, Fault, TypeInv, TypeOK
      <4> QED
        BY <2>1, <4>1, <4>2 DEF MemoryOK, InLoop, AfterUpsert
    <3> QED
      BY <1>2, <3>1, <3>2
  <2>4. SeenOK(s)'
    <3>1. InFlight(s)
      BY <1>j DEF InFlight
    <3> QED
      BY <1>j, <1>o, <1>r, <2>1, <3>1 DEF Own, ScanOK, SeenOK, IsListed, Early
  <2>5. ScanOK(s)'
    BY <1>j, <2>1, <2>3, <2>4 DEF ScanOK, DecisionOK, PricesOK
  <2> QED
    BY <1>j, <1>o, <1>r, <2>1, <2>5, AwayStays, UnchangedRows DEF SerialInv, AfterUpsert
<1> QED
  BY <1>1, <1>2

\* The goroutine with k at hand is the only one to record or tell about it.
LEMMA NobodyElse ==
    ASSUME TypeInv, Alone, NEW s \in Scans, job[s].pc \in InLoop,
           NEW t \in Scans \ {s}
    PROVE  ~ Recording(t, Key(s)) /\ ~ Telling(t, Key(s))
<1>1. InFlight(s)
  BY DEF InFlight, Running
<1>2. job[t].pc \in AfterUpsert => InFlight(t)
  BY DEF AfterUpsert, InFlight, Running, InLoop
<1> QED
  BY <1>1, <1>2 DEF Alone, Recording, Telling, AfterUpsert, Key

\* UpsertOffer, answered or not.
LEMMA UpsertSerial ==
    ASSUME TypeInv, SerialInv, NEW s \in Scans,
           UpsertOffer(s) \/ UpsertFails(s)
    PROVE  ScanOK(s)' /\ \A k \in Keys : KeyOK(k)'
<1>j. /\ job \in [Scans -> Jobs] /\ job[s] \in Jobs /\ ScanOK(s)
      /\ job[s].pc = "upsert" /\ job[s].pc \in InLoop /\ job[s].pc \in Running
      /\ job[s].listings # <<>> /\ job[s].pc \notin Early
  BY DEF TypeInv, TypeOK, WhereItStands, SerialInv, UpsertOffer, UpsertFails, Running, InLoop,
         Early
<1>k. /\ Key(s) \in Keys /\ Listing(s) \in Listings /\ UpsertedRow(s) \in OfferRows
      /\ Key(s) = <<job[s].market, Listing(s).id>>
  BY <1>j, AtHand, UpsertedRowType DEF Key
<1>o. Own(s)
  BY StatementsAreOwn DEF Step, Failure
<1>r. UNCHANGED <<points, clock, notified>>
  BY DEF UpsertOffer, UpsertFails
<1>w. ASSUME WriteOffer(s)
      PROVE  /\ offers'[Key(s)] = UpsertedRow(s)
             /\ \A k \in Keys \ {Key(s)} : SamePrices(k) /\ offers'[k] = offers[k]
             /\ offers'[Key(s)] # None /\ offers'[Key(s)].available
             /\ offers'[Key(s)].price = Listing(s).price
             /\ crossings'[Key(s)] = IF CrossesTarget(s) THEN crossings[Key(s)] + 1
                                     ELSE crossings[Key(s)]
  <2>1. /\ offers' = [offers EXCEPT ![Key(s)] = UpsertedRow(s)]
        /\ \A k \in Keys \ {Key(s)} : crossings'[k] = crossings[k]
    BY <1>w DEF WriteOffer, TypeInv, TypeOK
  <2>2. /\ offers'[Key(s)] = UpsertedRow(s)
        /\ \A k \in Keys \ {Key(s)} : offers'[k] = offers[k]
    BY <1>k, <2>1 DEF TypeInv, TypeOK
  <2>3. UpsertedRow(s).available /\ UpsertedRow(s).price = Listing(s).price
    BY DEF UpsertedRow
  <2>4. \A k \in Keys \ {Key(s)} : SamePrices(k)
    BY <1>r, <2>1, <2>2 DEF SamePrices, TypeInv, TypeOK
  <2>5. crossings'[Key(s)] = IF CrossesTarget(s) THEN crossings[Key(s)] + 1
                             ELSE crossings[Key(s)]
    BY <1>k, <1>w DEF WriteOffer, TypeInv, TypeOK
  <2> QED
    BY <1>k, <2>2, <2>3, <2>4, <2>5, NoneAssumption
<1>b. ASSUME NEW k \in Keys, k = Key(s)
      PROVE  /\ Untold(k) = 0
             /\ \A t \in Scans \ {s} : ~ Telling(t, k)' /\ ~ Recording(t, k)'
             /\ ChainOK(k)'
             /\ notified[k] \in Nat /\ crossings[k] \in Nat
             /\ notified[k] <= crossings[k]
             /\ faults = 0 => notified[k] = crossings[k]
  <2>1. KeyOK(k) /\ \A t \in Scans \ {s} : ~ Telling(t, k) /\ ~ Recording(t, k)
    BY <1>j, <1>b, NobodyElse DEF SerialInv
  <2>2. ~ Telling(s, k)
    BY <1>j DEF Telling, AfterUpsert
  <2>3. Untold(k) = 0
    BY <2>1, <2>2 DEF Untold
  <2>4. clock[k] \in Nat /\ notified[k] \in Nat /\ crossings[k] \in Nat
    BY DEF TypeInv, TypeOK
  <2>5. ChainOK(k)'
    BY <1>r, <2>1, <2>4, ChainStays DEF KeyOK
  <2>6. \A t \in Scans \ {s} : ~ Telling(t, k)' /\ ~ Recording(t, k)'
    BY <1>o, <2>1, OthersWork DEF Own
  <2> QED
    BY <2>1, <2>3, <2>4, <2>5, <2>6 DEF KeyOK, CrossingsOK
<1>1. CASE UpsertOffer(s)
  <2>1. /\ WriteOffer(s) /\ faults' = faults
        /\ job'[s].pc = "point" /\ job'[s].market = job[s].market
        /\ job'[s].listings = job[s].listings /\ job'[s].previous = job[s].previous
        /\ job'[s].config = job[s].config /\ job'[s].seenIds = job[s].seenIds
        /\ job'[s].monitored = UpsertedRow(s).monitored
    BY <1>j, <1>1 DEF UpsertOffer, Jobs
  <2>2. Key(s)' = Key(s) /\ Listing(s)' = Listing(s)
    BY <2>1 DEF Key, Listing
  <2>3. MemoryOK(s)'
    BY <1>w, <2>1, <2>2 DEF MemoryOK, IsListed, InLoop
  <2>4. SeenOK(s)'
    <3>1. ASSUME faults = 0, NEW id \in job[s].seenIds
          PROVE  /\ offers'[<<job[s].market, id>>] # None
                 /\ offers'[<<job[s].market, id>>].available
      <4>1. IsListed(<<job[s].market, id>>) /\ <<job[s].market, id>> \in Keys
        BY <1>j, <3>1 DEF ScanOK, SeenOK, InFlight, Jobs, Keys, TypeInv, WhereItStands
      <4> QED
        BY <1>w, <2>1, <4>1 DEF IsListed
    <3> QED
      BY <2>1, <3>1 DEF SeenOK, IsListed, Early
  <2>5. ScanOK(s)'
    BY <1>j, <2>1, <2>3, <2>4 DEF ScanOK, DecisionOK, PricesOK
  <2>6. ASSUME NEW k \in Keys, k # Key(s) PROVE KeyOK(k)'
    <3>1. KeyOK(k) /\ SamePrices(k)
      BY <1>w, <2>1, <2>6 DEF SerialInv
    <3>2. ~ Recording(s, k) /\ ~ Telling(s, k) /\ ~ Telling(s, k)'
      BY <2>2, <2>6 DEF Recording, Telling
    <3> QED
      BY <1>o, <3>1, <3>2, KeyStays
  <2>7. ASSUME NEW k \in Keys, k = Key(s) PROVE KeyOK(k)'
    <3>1. EndOK(k)'
      BY <2>1, <2>2, <2>7 DEF EndOK, Recording
    <3>2. Telling(s, k)' <=> /\ job[s].previous # None
                            /\ UpsertedRow(s).monitored
                            /\ job[s].previous > job[s].config.target
                            /\ Listing(s).price <= job[s].config.target
      BY <2>1, <2>2, <2>7 DEF Telling, DropDetected, AfterUpsert
    <3>3. /\ job[s].previous # None =>
                 offers[k] # None /\ offers[k].price = job[s].previous
          /\ job[s].previous = None /\ faults = 0 => offers[k] = None
      BY <1>j, <2>7 DEF ScanOK, MemoryOK
    <3>4. /\ UpsertedRow(s).monitored <=> offers[k] # None /\ offers[k].monitored
      <4>1. offers[k] # None => offers[k].monitored \in BOOLEAN
        BY DEF TypeInv, TypeOK, OfferRows
      <4> QED
        BY <2>7, <4>1 DEF UpsertedRow
    <3>5. /\ Telling(s, k)' => CrossesTarget(s)
          /\ faults = 0 /\ CrossesTarget(s) => Telling(s, k)'
      BY <2>7, <3>2, <3>3, <3>4 DEF CrossesTarget
    <3>6. Untold(k)' = IF Telling(s, k)' THEN 1 ELSE 0
      BY <1>b, <2>7 DEF Untold
    <3>7. CrossingsOK(k)'
      <4>1. crossings'[k] = IF CrossesTarget(s) THEN crossings[k] + 1 ELSE crossings[k]
        BY <1>w, <2>1, <2>7
      <4>2. notified'[k] = notified[k]
        BY <1>r
      <4> QED
        BY <1>b, <2>1, <2>7, <3>5, <3>6, <4>1, <4>2 DEF CrossingsOK
    <3> QED
      BY <1>b, <2>7, <3>1, <3>7 DEF KeyOK
  <2> QED
    BY <2>5, <2>6, <2>7
<1>2. CASE UpsertFails(s)
  <2>1. /\ job'[s] = Continue(job[s]) /\ faults' # 0
        /\ job'[s].pc = "next" /\ job'[s].previous = None
        /\ job'[s].listings = Tail(job[s].listings)
    BY <1>j, <1>2 DEF UpsertFails, Continue, Fault, TypeInv, TypeOK, Jobs
  <2>2. CASE UNCHANGED <<offers, crossings>>
    <3>1. ScanOK(s)'
      BY <1>j, <2>1, <2>2, Forgets
    <3> QED
      BY <1>j, <1>o, <1>r, <2>1, <2>2, <3>1, AwayStays, UnchangedRows DEF SerialInv, AfterUpsert
  <2>3. CASE WriteOffer(s)
    <3>1. PricesOK(s)'
      BY <1>j, <2>1, TailPrices DEF ScanOK
    <3>2. ScanOK(s)'
      BY <2>1, <3>1 DEF ScanOK, MemoryOK, DecisionOK, SeenOK, Early, InLoop, AfterUpsert
    <3>3. ASSUME NEW k \in Keys, k # Key(s) PROVE KeyOK(k)'
      BY <1>j, <1>o, <1>w, <2>1, <2>3, <3>3, AwayStays DEF SerialInv, AfterUpsert
    <3>4. ASSUME NEW k \in Keys, k = Key(s) PROVE KeyOK(k)'
      <4>1. Untold(k)' = 0
        BY <1>b, <2>1, <3>4 DEF Untold, Telling, AfterUpsert
      <4>2. crossings'[k] = crossings[k] \/ crossings'[k] = crossings[k] + 1
        BY <1>w, <2>3, <3>4
      <4> QED
        BY <1>b, <1>r, <2>1, <3>4, <4>1, <4>2 DEF KeyOK, EndOK, CrossingsOK
    <3> QED
      BY <3>2, <3>3, <3>4
  <2> QED
    BY <1>2, <2>2, <2>3 DEF UpsertFails
<1> QED
  BY <1>1, <1>2

\* InsertOfferPricePointIfChanged, whether it inserts, skips or fails.
LEMMA PointSerial ==
    ASSUME TypeInv, SerialInv, NEW s \in Scans,
           SkipPricePoint(s) \/ DecidePricePoint(s) \/ InsertPricePoint(s) \/ PricePointFails(s)
    PROVE  ScanOK(s)' /\ \A k \in Keys : KeyOK(k)'
<1>j. /\ job \in [Scans -> Jobs] /\ job[s] \in Jobs /\ ScanOK(s)
      /\ job[s].pc \in {"point", "insert"} /\ job[s].pc \in AfterUpsert
      /\ job[s].pc \in InLoop /\ job[s].pc \in Running
      /\ job[s].listings # <<>>
  BY DEF TypeInv, TypeOK, WhereItStands, SerialInv, SkipPricePoint, DecidePricePoint,
         InsertPricePoint, PricePointFails, Running, InLoop, AfterUpsert
<1>k. /\ Key(s) \in Keys /\ Listing(s) \in Listings
      /\ Key(s) = <<job[s].market, Listing(s).id>>
  BY <1>j, AtHand DEF Key
<1>o. Own(s)
  BY StatementsAreOwn DEF Step, Failure
<1>r. UNCHANGED <<offers, notified, crossings>>
  BY DEF SkipPricePoint, DecidePricePoint, InsertPricePoint, PricePointFails
<1>t. /\ points \in [Keys -> SUBSET PointRows] /\ clock \in [Keys -> Nat]
      /\ offers \in [Keys -> OfferRows \cup {None}]
  BY DEF TypeInv, TypeOK
<1>1. /\ job'[s].pc \in {"insert", "count"}
      /\ job'[s].market = job[s].market /\ job'[s].listings = job[s].listings
      /\ job'[s].previous = job[s].previous /\ job'[s].monitored = job[s].monitored
      /\ job'[s].config = job[s].config /\ job'[s].seenIds = job[s].seenIds
  BY <1>j DEF SkipPricePoint, DecidePricePoint, InsertPricePoint, PricePointFails, Goto, Jobs
<1>2. Key(s)' = Key(s) /\ Listing(s)' = Listing(s) /\ job'[s].pc \in AfterUpsert
  BY <1>1 DEF Key, Listing, AfterUpsert
<1>3. MemoryOK(s)' /\ SeenOK(s)' /\ PricesOK(s)'
  <2>1. MemoryOK(s)'
    BY <1>j, <1>r, <1>1, <1>2 DEF ScanOK, MemoryOK, IsListed, InLoop
  <2>2. SeenOK(s)'
    <3>1. InFlight(s)
      BY <1>j DEF InFlight
    <3> QED
      BY <1>j, <1>o, <1>r, <1>1, <3>1 DEF Own, ScanOK, SeenOK, IsListed, Early
  <2> QED
    BY <1>j, <1>1, <2>1, <2>2 DEF ScanOK, PricesOK
<1>4. ASSUME NEW k \in Keys PROVE Telling(s, k)' <=> Telling(s, k)
  BY <1>j, <1>1, <1>2 DEF Telling, DropDetected
<1>5. ASSUME NEW k \in Keys, UNCHANGED <<points, clock>> PROVE SamePrices(k)
  BY <1>r, <1>5, UnchangedRows
<1>6. CASE SkipPricePoint(s) \/ PricePointFails(s)
  <2>1. job'[s].pc = "count" /\ UNCHANGED <<points, clock>>
    BY <1>j, <1>6 DEF SkipPricePoint, PricePointFails, Goto, Jobs
  <2>2. ASSUME NEW k \in Keys, faults' = 0, Recording(s, k), offers[k] # None
        PROVE  LatestPrice(k) = {offers[k].price}
    <3>1. SkipPricePoint(s) /\ k = Key(s)
      BY <1>6, <2>2 DEF PricePointFails, Fault, TypeInv, TypeOK, Recording
    <3>2. Listing(s).price \in LatestPrice(k)
      BY <3>1 DEF SkipPricePoint, PriceChanged
    <3>3. offers[k].price = Listing(s).price
      BY <1>j, <3>1 DEF ScanOK, MemoryOK
    <3>4. ChainOK(k)
      BY DEF SerialInv, KeyOK
    <3> QED
      BY <3>2, <3>3, <3>4, OneLatest
  <2>3. DecisionOK(s)'
    BY <2>1 DEF DecisionOK
  <2> QED
    BY <1>o, <1>3, <1>4, <1>5, <2>1, <2>2, <2>3, KeyStays DEF SerialInv, ScanOK
<1>7. CASE DecidePricePoint(s)
  <2>1. /\ job'[s].pc = "insert" /\ job'[s].observedAt = clock[Key(s)] + 1
        /\ clock' = [clock EXCEPT ![Key(s)] = clock[Key(s)] + 1]
        /\ points' = points /\ PriceChanged(s)
    BY <1>j, <1>7 DEF DecidePricePoint, Jobs
  <2>2. DecisionOK(s)'
    <3>1. clock'[Key(s)] = clock[Key(s)] + 1 /\ clock[Key(s)] \in Nat
      BY <1>k, <1>t, <2>1
    <3>2. ASSUME NEW p \in points[Key(s)] PROVE p.at < clock'[Key(s)]
      <4>1. p.at <= clock[Key(s)] /\ p.at \in Nat
        BY <1>k, <1>t, <3>2 DEF SerialInv, KeyOK, ChainOK, PointRows
      <4> QED
        BY <3>1, <4>1
    <3> QED
      BY <1>2, <2>1, <3>1, <3>2 DEF DecisionOK, PriceChanged, LatestPrice
  <2>3. ASSUME NEW k \in Keys PROVE KeyOK(k)'
    <3>1. SamePrices(k)
      BY <1>k, <1>r, <1>t, <2>1 DEF SamePrices
    <3>2. Recording(s, k) => Recording(s, k)'
      BY <1>2, <2>1 DEF Recording
    <3> QED
      BY <1>o, <1>4, <3>1, <3>2, KeyStays DEF SerialInv
  <2> QED
    BY <1>3, <2>2, <2>3 DEF ScanOK
<1>8. CASE InsertPricePoint(s)
  <2> DEFINE new == [at |-> job[s].observedAt, price |-> Listing(s).price, scan |-> s]
  <2>1. /\ job'[s].pc = "count" /\ job[s].pc = "insert"
        /\ points' = [points EXCEPT ![Key(s)] = points[Key(s)] \cup {new}]
        /\ clock' = clock
    BY <1>j, <1>8 DEF InsertPricePoint, Jobs
  <2>2. DecisionOK(s)'
    BY <2>1 DEF DecisionOK
  <2>3. ASSUME NEW k \in Keys, k # Key(s) PROVE KeyOK(k)'
    <3>1. SamePrices(k)
      BY <1>r, <1>t, <2>1, <2>3 DEF SamePrices
    <3>2. ~ Recording(s, k)
      BY <2>3 DEF Recording
    <3> QED
      BY <1>o, <1>4, <3>1, <3>2, KeyStays DEF SerialInv
  <2>4. ASSUME NEW k \in Keys, k = Key(s) PROVE KeyOK(k)'
    <3>1. /\ new.at = clock[k] /\ new.price = Listing(s).price
          /\ \A p \in points[k] : p.at < new.at
          /\ new.price \notin LatestPrice(k)
      BY <1>j, <2>1, <2>4 DEF ScanOK, DecisionOK, PriceChanged
    <3>2. new \in PointRows
      BY <1>j, <1>k DEF Jobs, Listings, PointRows
    <3>3. points'[k] = points[k] \cup {new} /\ clock'[k] = clock[k]
      BY <1>t, <2>1, <2>4
    <3>4. KeyOK(k)
      BY DEF SerialInv
    <3>5. ChainOK(k)' /\ LatestPrice(k)' = {new.price}
      <4> HIDE DEF new
      <4> QED
        BY <3>1, <3>2, <3>3, <3>4, ChainGrows DEF KeyOK
    <3>6. offers'[k].price = Listing(s).price
      BY <1>j, <1>r, <2>4 DEF ScanOK, MemoryOK
    <3>7. EndOK(k)'
      BY <3>1, <3>5, <3>6 DEF EndOK
    <3>8. CrossingsOK(k)'
      BY <1>o, <1>r, <1>4, <3>4, CrossingsStay DEF KeyOK
    <3> QED
      BY <3>5, <3>7, <3>8 DEF KeyOK
  <2> QED
    BY <1>3, <2>2, <2>3, <2>4 DEF ScanOK
<1> QED
  BY <1>6, <1>7, <1>8

\* Counting the listing and telling the owner, or failing to.
LEMMA CountSerial ==
    ASSUME TypeInv, SerialInv, NEW s \in Scans,
           CountAndNotify(s) \/ NotifyFails(s)
    PROVE  ScanOK(s)' /\ \A k \in Keys : KeyOK(k)'
<1>j. /\ job \in [Scans -> Jobs] /\ job[s] \in Jobs /\ ScanOK(s)
      /\ job[s].pc = "count" /\ job[s].pc \in AfterUpsert
      /\ job[s].pc \in InLoop /\ job[s].pc \in Running
      /\ job[s].listings # <<>>
  BY DEF TypeInv, TypeOK, WhereItStands, SerialInv, CountAndNotify, NotifyFails, Running,
         InLoop, AfterUpsert
<1>k. /\ Key(s) \in Keys
      /\ Key(s) = <<job[s].market, Listing(s).id>>
  BY <1>j, AtHand DEF Key
<1>o. Own(s)
  BY StatementsAreOwn DEF Step, Failure
<1>r. UNCHANGED <<offers, points, clock, crossings>>
  BY DEF CountAndNotify, NotifyFails
<1>t. notified \in [Keys -> Nat] /\ crossings \in [Keys -> Nat] /\ clock \in [Keys -> Nat]
  BY DEF TypeInv, TypeOK
<1>1. /\ job'[s].pc = "next" /\ job'[s].previous = None
      /\ job'[s].market = job[s].market /\ job'[s].listings = Tail(job[s].listings)
      /\ job'[s].seenIds = job[s].seenIds \cup {Listing(s).id}
  <2>1. job'[s] = Continue(Counted(job[s]))
    BY <1>j DEF CountAndNotify, NotifyFails
  <2> QED
    BY <1>j, <2>1 DEF Continue, Counted, Jobs, Listing
<1>2. ScanOK(s)'
  <2>1. ASSUME faults = 0, NEW id \in job'[s].seenIds
        PROVE  /\ offers'[<<job[s].market, id>>] # None
               /\ offers'[<<job[s].market, id>>].available
    <3>1. CASE id \in job[s].seenIds
      BY <1>j, <1>r, <2>1, <3>1 DEF ScanOK, SeenOK, InFlight, IsListed
    <3>2. CASE id = Listing(s).id
      BY <1>j, <1>k, <1>r, <3>2 DEF ScanOK, MemoryOK, IsListed
    <3> QED
      BY <1>1, <2>1, <3>1, <3>2
  <2>2. SeenOK(s)'
    BY <1>o, <1>1, <2>1 DEF Own, SeenOK, IsListed, Early
  <2>3. PricesOK(s)'
    BY <1>j, <1>1, TailPrices DEF ScanOK
  <2> QED
    BY <1>1, <2>2, <2>3 DEF ScanOK, MemoryOK, DecisionOK, InLoop, AfterUpsert
<1>3. ASSUME NEW k \in Keys PROVE ~ Telling(s, k)' /\ ~ Recording(s, k)'
  BY <1>1 DEF Telling, Recording, AfterUpsert
<1>4. ASSUME NEW k \in Keys PROVE ChainOK(k)' /\ EndOK(k)' /\ CrossingsOK(k)
  <2>1. KeyOK(k) /\ clock[k] \in Nat /\ ~ Recording(s, k)
    BY <1>j, <1>t DEF SerialInv, Recording
  <2>2. ChainOK(k)'
    BY <1>r, <2>1, ChainStays DEF KeyOK
  <2>3. EndOK(k)'
    BY <1>o, <1>r, <2>1, EndStays DEF KeyOK
  <2> QED
    BY <2>1, <2>2, <2>3 DEF KeyOK
<1>5. ASSUME NEW k \in Keys, k # Key(s) PROVE CrossingsOK(k)'
  <2>1. notified'[k] = notified[k]
    BY <1>5, <1>t DEF CountAndNotify, NotifyFails
  <2>2. ~ Telling(s, k)
    BY <1>5 DEF Telling
  <2> QED
    BY <1>o, <1>r, <1>3, <1>4, <2>1, <2>2, CrossingsStay
<1>6. ASSUME NEW k \in Keys, k = Key(s) PROVE CrossingsOK(k)'
  <2>1. \A t \in Scans \ {s} : ~ Telling(t, k) /\ ~ Telling(t, k)'
    <3>1. \A t \in Scans \ {s} : ~ Telling(t, k)
      BY <1>j, <1>6, NobodyElse DEF SerialInv
    <3> QED
      BY <1>o, <3>1, OthersWork DEF Own
  <2>2. Untold(k) = (IF DropDetected(s) THEN 1 ELSE 0) /\ Untold(k)' = 0
    <3>1. Telling(s, k) <=> DropDetected(s)
      BY <1>j, <1>6 DEF Telling
    <3> QED
      BY <1>3, <2>1, <3>1 DEF Untold
  <2>3. notified[k] \in Nat /\ crossings[k] \in Nat /\ crossings'[k] = crossings[k]
    BY <1>r, <1>t
  <2>4. CASE CountAndNotify(s)
    <3>1. notified'[k] = IF DropDetected(s) THEN notified[k] + 1 ELSE notified[k]
      BY <1>t, <1>6, <2>4 DEF CountAndNotify
    <3> QED
      BY <1>o, <1>4, <2>2, <2>3, <3>1 DEF CrossingsOK, Own
  <2>5. CASE NotifyFails(s)
    <3>1. notified'[k] = notified[k] /\ faults' # 0
      BY <2>5 DEF NotifyFails, Fault, TypeInv, TypeOK
    <3> QED
      BY <1>4, <2>2, <2>3, <3>1 DEF CrossingsOK
  <2> QED
    BY <2>4, <2>5
<1> QED
  BY <1>2, <1>4, <1>5, <1>6 DEF KeyOK

\* Marking what was not seen, failing to, and closing the scans row.
LEMMA AfterLoopSerial ==
    ASSUME TypeInv, SerialInv, NEW s \in Scans,
           MarkOffersUnavailable(s) \/ MarkFails(s) \/ FinishScan(s)
    PROVE  ScanOK(s)' /\ \A k \in Keys : KeyOK(k)'
<1>j. /\ job \in [Scans -> Jobs] /\ job[s] \in Jobs /\ ScanOK(s)
      /\ job[s].pc \in {"next", "finish"}
      /\ job[s].pc \notin AfterUpsert /\ job[s].pc \notin InLoop /\ job[s].pc \in Running
  BY DEF TypeInv, TypeOK, SerialInv, MarkOffersUnavailable, MarkFails, FinishScan, Running,
         InLoop, AfterUpsert
<1>o. Own(s)
  BY StatementsAreOwn DEF Step, Failure
<1>1. /\ job'[s].pc = (IF job[s].pc = "next" THEN "finish" ELSE "done")
      /\ job'[s].previous = job[s].previous /\ job'[s].seenIds = job[s].seenIds
      /\ job'[s].market = job[s].market /\ job'[s].listings = job[s].listings
  BY <1>j DEF MarkOffersUnavailable, MarkFails, FinishScan, Goto, Jobs
<1>2. MemoryOK(s)' /\ DecisionOK(s)' /\ PricesOK(s)'
  BY <1>j, <1>1 DEF ScanOK, MemoryOK, DecisionOK, PricesOK, InLoop, AfterUpsert
<1>3. SeenOK(s)'
  <2>1. CASE MarkOffersUnavailable(s)
    <3>1. job[s].pc = "next" /\ faults' = faults
      BY <2>1 DEF MarkOffersUnavailable
    <3>2. ASSUME NEW k \in Keys
          PROVE  /\ k[1] = job[s].market /\ k[2] \in job[s].seenIds => offers'[k] = offers[k]
                 /\ /\ k[1] = job[s].market
                    /\ offers'[k] # None /\ offers'[k].available
                    => k[2] \in job[s].seenIds
      <4>1. CASE offers[k] # None /\ k[1] = job[s].market /\ k[2] \notin job[s].seenIds
        <5>1. offers'[k] = [offers[k] EXCEPT !.available = FALSE]
          BY <2>1, <4>1 DEF MarkOffersUnavailable
        <5>2. offers[k] \in OfferRows
          BY <4>1 DEF TypeInv, TypeOK
        <5>3. ~ offers'[k].available
          BY <5>1, <5>2 DEF OfferRows
        <5> QED
          BY <4>1, <5>3
      <4>2. CASE ~ (offers[k] # None /\ k[1] = job[s].market /\ k[2] \notin job[s].seenIds)
        BY <2>1, <4>2 DEF MarkOffersUnavailable
      <4> QED
        BY <4>1, <4>2
    <3>3. ASSUME faults = 0, NEW id \in job[s].seenIds
          PROVE  /\ offers'[<<job[s].market, id>>] # None
                 /\ offers'[<<job[s].market, id>>].available
      <4>1. IsListed(<<job[s].market, id>>) /\ <<job[s].market, id>> \in Keys
        BY <1>j, <3>3 DEF ScanOK, SeenOK, InFlight, Jobs, Keys, TypeInv, WhereItStands
      <4> QED
        BY <3>2, <3>3, <4>1 DEF IsListed
    <3>4. job'[s].pc = "finish"
      BY <1>1, <3>1
    <3> QED
      BY <1>1, <3>1, <3>2, <3>3, <3>4 DEF SeenOK, IsListed, Early
  <2>2. CASE MarkFails(s)
    <3>1. faults' # 0 /\ job[s].pc = "next"
      BY <2>2 DEF MarkFails, Fault, TypeInv, TypeOK
    <3> QED
      BY <1>1, <3>1 DEF SeenOK, Early
  <2>3. CASE FinishScan(s)
    <3>1. job'[s].pc = "done"
      BY <1>1, <2>3 DEF FinishScan
    <3> QED
      BY <3>1 DEF SeenOK, InFlight, Running, InLoop, Early
  <2> QED
    BY <2>1, <2>2, <2>3
<1>4. ASSUME NEW k \in Keys PROVE SamePrices(k)
  <2>1. CASE MarkOffersUnavailable(s)
    <3>1. UNCHANGED <<points, clock, notified, crossings>>
      BY <2>1 DEF MarkOffersUnavailable
    <3>2. /\ offers'[k] = None <=> offers[k] = None
          /\ offers[k] # None => offers'[k].price = offers[k].price
      <4>1. \/ offers'[k] = offers[k]
            \/ offers[k] # None /\ offers'[k] = [offers[k] EXCEPT !.available = FALSE]
        BY <2>1 DEF MarkOffersUnavailable
      <4>2. offers[k] # None => offers[k] \in OfferRows
        BY DEF TypeInv, TypeOK
      <4>3. offers[k] # None =>
               LET row == [offers[k] EXCEPT !.available = FALSE]
               IN  row \in OfferRows /\ row.price = offers[k].price
        BY <4>2 DEF OfferRows
      <4> QED
        BY <4>1, <4>3, NoneAssumption
    <3> QED
      BY <3>1, <3>2 DEF SamePrices, TypeInv, TypeOK
  <2>2. CASE MarkFails(s) \/ FinishScan(s)
    BY <2>2, UnchangedRows DEF MarkFails, FinishScan
  <2> QED
    BY <2>1, <2>2
<1>5. job'[s].pc \notin AfterUpsert
  BY <1>1 DEF AfterUpsert
<1> QED
  BY <1>j, <1>o, <1>2, <1>3, <1>4, <1>5, AwayStays DEF SerialInv, ScanOK

\* A goroutine that returns an error, or is cut.
LEMMA CutSerial ==
    ASSUME TypeInv, SerialInv, NEW s \in Scans, ReturnError(s) \/ Interrupt(s)
    PROVE  ScanOK(s)' /\ \A k \in Keys : KeyOK(k)'
<1>j. job \in [Scans -> Jobs] /\ job[s] \in Jobs /\ ScanOK(s)
  BY DEF TypeInv, TypeOK, SerialInv
<1>o. Own(s)
  BY StatementsAreOwn DEF Failure
<1>1. /\ job'[s] = Abort(job[s]) /\ faults' # 0
      /\ UNCHANGED <<offers, points, clock, notified, crossings>>
  BY <1>j DEF ReturnError, Interrupt, Fault, TypeInv, TypeOK
<1>2. ScanOK(s)'
  BY <1>j, <1>1, Forgets
<1>3. job'[s].pc = "aborted"
  BY <1>j, <1>1, LocalFields
<1>4. ASSUME NEW k \in Keys PROVE KeyOK(k)'
  <2>1. ~ Telling(s, k)'
    BY <1>3 DEF Telling, AfterUpsert
  <2> QED
    BY <1>o, <1>1, <2>1, UnchangedRows, KeyStays DEF SerialInv
<1> QED
  BY <1>2, <1>4

\* The owner's flag is none of what is remembered or promised here.
LEMMA UserSerial ==
    ASSUME TypeInv, SerialInv, User
    PROVE  SerialInv'
<1>1. UNCHANGED <<job, points, clock, notified, faults, crossings>>
  BY DEF User, SetMonitored, UpdateWatch
<1>2. ASSUME NEW k \in Keys
      PROVE  /\ offers'[k] = None <=> offers[k] = None
             /\ offers[k] # None => /\ offers'[k].price = offers[k].price
                                    /\ offers'[k].available = offers[k].available
  <2>1. ASSUME NEW l \in Keys, NEW monitored \in BOOLEAN, SetMonitored(l, monitored)
        PROVE  /\ offers'[k] = None <=> offers[k] = None
               /\ offers[k] # None => /\ offers'[k].price = offers[k].price
                                      /\ offers'[k].available = offers[k].available
    <3> DEFINE row == [offers[l] EXCEPT !.monitored = monitored]
    <3>1. /\ row \in OfferRows /\ row.price = offers[l].price
          /\ row.available = offers[l].available /\ offers[l] # None
      BY <2>1 DEF SetMonitored, TypeInv, TypeOK, OfferRows
    <3>2. offers' = [offers EXCEPT ![l] = row]
      BY <2>1 DEF SetMonitored, TypeInv, TypeOK
    <3> HIDE DEF row
    <3> QED
      BY <3>1, <3>2, NoneAssumption DEF TypeInv, TypeOK
  <2>2. ASSUME NEW config \in WatchConfigs, UpdateWatch(config) PROVE UNCHANGED offers
    BY <2>2 DEF UpdateWatch
  <2> QED
    BY <2>1, <2>2 DEF User
<1>3. Alone'
  BY <1>1 DEF SerialInv, Alone, InFlight
<1>4. ASSUME NEW s \in Scans PROVE ScanOK(s)'
  <2>1. ScanOK(s) /\ job[s] \in Jobs
    BY DEF SerialInv, TypeInv, TypeOK
  <2>2. job[s].pc \in InLoop => Key(s) \in Keys
    BY AtHand DEF TypeInv, WhereItStands, Running
  <2>3. ASSUME InFlight(s), NEW id \in job[s].seenIds PROVE <<job[s].market, id>> \in Keys
    BY <2>1, <2>3 DEF InFlight, Jobs, Keys, TypeInv, WhereItStands
  <2>4. MemoryOK(s)'
    BY <1>1, <1>2, <2>1, <2>2 DEF ScanOK, MemoryOK, IsListed, InLoop, AfterUpsert, Key, Listing
  <2>5. DecisionOK(s)'
    BY <1>1, <2>1 DEF ScanOK, DecisionOK, PriceChanged, LatestPrice, Key, Listing
  <2>6. SeenOK(s)'
    BY <1>1, <1>2, <2>1, <2>3 DEF ScanOK, SeenOK, IsListed, InFlight
  <2> QED
    BY <1>1, <2>1, <2>4, <2>5, <2>6 DEF ScanOK, PricesOK
<1>5. ASSUME NEW k \in Keys PROVE KeyOK(k)'
  <2>1. KeyOK(k) /\ clock[k] \in Nat
    BY DEF SerialInv, TypeInv, TypeOK
  <2>2. ChainOK(k)'
    BY <1>1, <2>1, ChainStays DEF KeyOK
  <2>3. \A t \in Scans : /\ Recording(t, k)' <=> Recording(t, k)
                         /\ Telling(t, k)' <=> Telling(t, k)
    BY <1>1, OthersWork
  <2>4. EndOK(k)'
    BY <1>1, <1>2, <2>1, <2>3 DEF KeyOK, EndOK, LatestPrice
  <2>5. Untold(k)' = Untold(k)
    BY <2>3 DEF Untold
  <2> QED
    BY <1>1, <2>1, <2>2, <2>4, <2>5 DEF KeyOK, CrossingsOK
<1> QED
  BY <1>3, <1>4, <1>5 DEF SerialInv

-----------------------------------------------------------------------------
(* SerialInv is inductive as long as scans do not overlap.                 *)

\* Without Overlap a goroutine keeps its marketplace for itself.
LEMMA AloneStays ==
    ASSUME Overlap = FALSE, TypeInv, Alone, NEW s \in Scans,
           Step(s) \/ Failure(s) \/ \E m \in Marketplaces : Launch(s, m)
    PROVE  Alone'
<1>j. job \in [Scans -> Jobs] /\ job[s] \in Jobs
  BY DEF TypeInv, TypeOK
<1>1. \A t \in Scans \ {s} : job'[t] = job[t]
  BY StatementsAreOwn DEF Own
<1>2. ASSUME Step(s) \/ Failure(s) PROVE InFlight(s) /\ job'[s].market = job[s].market
  <2>1. InFlight(s)
    BY <1>2 DEF Step, Failure, CreateScan, ListWatchKeywords, ListWatchBlockedWords, Fetch,
           FetchFails, NoFetcher, SkipListing, GetPrevious, UpsertOffer, SkipPricePoint,
           DecidePricePoint, InsertPricePoint, CountAndNotify, MarkOffersUnavailable,
           FinishScan, ReturnError, RecordFailureFails, GetPreviousFails, UpsertFails,
           PricePointFails, NotifyFails, MarkFails, Interrupt, InFlight, Running, InLoop
  <2>2. CASE CreateScan(s) \/ NoFetcher(s) \/ GetPreviousFails(s)
    BY <1>j, <2>1, <2>2 DEF CreateScan, NoFetcher, GetPreviousFails, Goto, Jobs
  <2>3. CASE ListWatchKeywords(s) \/ ListWatchBlockedWords(s)
    BY <1>j, <2>1, <2>3 DEF ListWatchKeywords, ListWatchBlockedWords, Jobs
  <2>4. CASE Fetch(s)
    BY <1>j, <2>1, <2>4 DEF Fetch, Jobs
  <2>5. CASE FetchFails(s) \/ RecordFailureFails(s)
    BY <1>j, <2>1, <2>5 DEF FetchFails, RecordFailureFails, Jobs
  <2>6. CASE ReturnError(s) \/ Interrupt(s)
    BY <1>j, <2>1, <2>6, LocalFields DEF ReturnError, Interrupt
  <2>7. CASE job[s].pc \notin Early
    <3>1. LocalEffect(s)
      BY <1>2, BeforeLoopEffect, LoopEffect, AfterLoopEffect, FailureEffect DEF Step, Effect
    <3> QED
      BY <2>1, <2>7, <3>1 DEF LocalEffect
  <2>8. \/ CreateScan(s) \/ NoFetcher(s) \/ GetPreviousFails(s)
        \/ ListWatchKeywords(s) \/ ListWatchBlockedWords(s) \/ Fetch(s)
        \/ FetchFails(s) \/ RecordFailureFails(s)
        \/ ReturnError(s) \/ Interrupt(s)
        \/ job[s].pc \notin Early
    BY <1>2 DEF Step, Failure, SkipListing, GetPrevious, UpsertOffer, SkipPricePoint,
           DecidePricePoint, InsertPricePoint, CountAndNotify, MarkOffersUnavailable,
           FinishScan, UpsertFails, PricePointFails, NotifyFails, MarkFails, Early
  <2> QED
    BY <2>1, <2>2, <2>3, <2>4, <2>5, <2>6, <2>7, <2>8
<1>3. CASE Step(s) \/ Failure(s)
  BY <1>1, <1>2, <1>3 DEF Alone, InFlight
<1>4. ASSUME NEW m \in Marketplaces, Launch(s, m) PROVE Alone'
  <2>1. ~ \E t \in Scans : InFlight(t) /\ job[t].market = m
    BY <1>4 DEF Launch
  <2>2. job'[s].market = m
    BY <1>4, LaunchJob
  <2> QED
    BY <1>1, <2>1, <2>2 DEF Alone, InFlight
<1> QED
  BY <1>3, <1>4

\* SerialInv holds initially.
LEMMA InitSerial == Init => SerialInv
<1> SUFFICES ASSUME Init PROVE SerialInv
  OBVIOUS
<1>1. \A s \in Scans : job[s] = IdleJob
  BY DEF Init
<1>2. Alone
  BY <1>1 DEF Alone, InFlight, IdleJob, Running, InLoop
<1>3. ASSUME NEW s \in Scans PROVE ScanOK(s)
  BY <1>1 DEF ScanOK, MemoryOK, DecisionOK, SeenOK, PricesOK, IdleJob, InFlight, Running,
         InLoop, AfterUpsert
<1>4. ASSUME NEW k \in Keys PROVE KeyOK(k)
  <2>1. /\ offers[k] = None /\ points[k] = {} /\ notified[k] = 0 /\ crossings[k] = 0
    BY DEF Init
  <2>2. ChainOK(k)
    BY <2>1, FS_EmptySet DEF ChainOK
  <2>3. Untold(k) = 0
    BY <1>1 DEF Untold, Telling, IdleJob, AfterUpsert
  <2> QED
    BY <2>1, <2>2, <2>3 DEF KeyOK, EndOK, CrossingsOK
<1> QED
  BY <1>2, <1>3, <1>4 DEF SerialInv

\* Every step preserves it that lets no two scans overlap.
LEMMA NextSerial == TypeInv /\ SerialInv /\ [Next]_vars /\ Alone' => SerialInv'
<1> SUFFICES ASSUME TypeInv, SerialInv, [Next]_vars, Alone' PROVE SerialInv'
  OBVIOUS
<1>1. ASSUME NEW s \in Scans,
             Step(s) \/ Failure(s) \/ \E m \in Marketplaces : Launch(s, m)
      PROVE  SerialInv'
  <2>1. ScanOK(s)' /\ \A k \in Keys : KeyOK(k)'
    BY <1>1, BeforeLoopSerial, ReadSerial, UpsertSerial, PointSerial, CountSerial,
       AfterLoopSerial, CutSerial DEF Step, Failure
  <2>2. \A t \in Scans \ {s} : ScanOK(t)'
    BY <1>1, StatementsAreOwn, OthersRemember DEF SerialInv
  <2> QED
    BY <2>1, <2>2 DEF SerialInv
<1>2. CASE UNCHANGED vars
  <2>1. ASSUME NEW s \in Scans PROVE ScanOK(s)'
    BY <1>2 DEF vars, SerialInv, ScanOK, MemoryOK, DecisionOK, SeenOK, PricesOK, IsListed,
           InFlight, PriceChanged, LatestPrice, Key, Listing
  <2>2. ASSUME NEW k \in Keys PROVE KeyOK(k)'
    <3>1. KeyOK(k) /\ clock[k] \in Nat
      BY DEF SerialInv, TypeInv, TypeOK
    <3>2. ChainOK(k)'
      BY <1>2, <3>1, ChainStays DEF KeyOK, vars
    <3>3. \A t \in Scans : /\ Recording(t, k)' <=> Recording(t, k)
                           /\ Telling(t, k)' <=> Telling(t, k)
      BY <1>2, OthersWork DEF vars
    <3>4. EndOK(k)'
      BY <1>2, <3>1, <3>3 DEF KeyOK, EndOK, LatestPrice, vars
    <3>5. Untold(k)' = Untold(k)
      BY <3>3 DEF Untold
    <3> QED
      BY <1>2, <3>1, <3>2, <3>4, <3>5 DEF KeyOK, CrossingsOK, vars
  <2> QED
    BY <2>1, <2>2 DEF SerialInv
<1> QED
  BY <1>1, <1>2, UserSerial DEF Next

\* It holds in every state.
LEMMA AlwaysSerial == Spec /\ []Alone => [](TypeInv /\ SerialInv)
<1>1. Init => TypeInv /\ SerialInv
  BY InitType, InitSerial
<1>2. TypeInv /\ SerialInv /\ [Next]_vars /\ Alone' => (TypeInv /\ SerialInv)'
  BY NextType, NextSerial
<1> QED
  BY <1>1, <1>2, PTL DEF Spec

-----------------------------------------------------------------------------
(* The theorems.                                                           *)

\* Between the scans of a marketplace no statement is about an offer of it.
LEMMA QuietKeys ==
    ASSUME TypeInv, NEW k \in Keys, Quiet(k), NEW s \in Scans
    PROVE  ~ Recording(s, k) /\ ~ Telling(s, k)
BY DEF Quiet, Recording, Telling, InFlight, Running, InLoop, AfterUpsert, Key

\* Without Overlap the scans of a marketplace run one at a time, as the theorems
\* below ask: if the callers wait for each other, which the code does not
\* make them do (scheduler.go:73), or in any behaviour where they happen to.
THEOREM ScansRunAlone ==
    ASSUME Overlap = FALSE
    PROVE  Spec => []Alone
<1>1. Init => Alone
  BY InitSerial DEF SerialInv
<1>2. ASSUME TypeInv, Alone, [Next]_vars PROVE Alone'
  <2>1. CASE User \/ UNCHANGED vars
    BY <1>2, <2>1, UserLeavesScans DEF vars, Alone, InFlight
  <2>2. CASE ~ (User \/ UNCHANGED vars)
    BY <1>2, <2>2, AloneStays DEF Next
  <2> QED
    BY <2>1, <2>2
<1> QED
  BY <1>1, <1>2, AlwaysTyped, PTL DEF Spec

\* Scans that do not overlap leave every history at the price of its row,
\* unless a statement failed (offers.sql:61-76).
THEOREM HistoriesEndThere ==
    Spec /\ []Alone => []HistoryEndsAtCurrentPrice
<1>1. TypeInv /\ SerialInv => HistoryEndsAtCurrentPrice
  BY QuietKeys DEF SerialInv, KeyOK, EndOK, HistoryEndsAtCurrentPrice
<1> QED
  BY <1>1, AlwaysSerial, PTL

\* They never put two points of the same price next to each other, whatever
\* fails or is cut (offers.sql:62-63).
THEOREM NoPointRepeats ==
    Spec /\ []Alone => []NoRepeatedPoint
<1>1. TypeInv /\ SerialInv => NoRepeatedPoint
  BY DEF SerialInv, KeyOK, ChainOK, NoRepeatedPoint
<1> QED
  BY <1>1, AlwaysSerial, PTL

\* They tell the owner of a crossing at most once, whatever fails or is cut
\* (runner.go:200-204) ...
THEOREM CrossingsAreToldOnce ==
    Spec /\ []Alone => []NoRepeatedNotification
<1>1. TypeInv /\ SerialInv => NoRepeatedNotification
  <2> SUFFICES ASSUME TypeInv, SerialInv, NEW k \in Keys PROVE notified[k] <= crossings[k]
    BY DEF NoRepeatedNotification
  <2>1. notified[k] + Untold(k) <= crossings[k] /\ Untold(k) \in {0, 1}
    BY DEF SerialInv, KeyOK, CrossingsOK, Untold
  <2>2. notified[k] \in Nat /\ crossings[k] \in Nat
    BY DEF TypeInv, TypeOK
  <2> QED
    BY <2>1, <2>2
<1> QED
  BY <1>1, AlwaysSerial, PTL

\* ... and at least once, unless a statement failed.
THEOREM CrossingsAreTold ==
    Spec /\ []Alone => []EveryCrossingIsNotified
<1>1. TypeInv /\ SerialInv => EveryCrossingIsNotified
  <2> SUFFICES ASSUME TypeInv, SerialInv, faults = 0, NEW k \in Keys, Quiet(k)
               PROVE  notified[k] = crossings[k]
    BY DEF EveryCrossingIsNotified
  <2>1. Untold(k) = 0
    BY QuietKeys DEF Untold
  <2>2. notified[k] + Untold(k) = crossings[k] /\ notified[k] \in Nat
    BY DEF SerialInv, KeyOK, CrossingsOK, TypeInv, TypeOK
  <2> QED
    BY <2>1, <2>2
<1> QED
  BY <1>1, AlwaysSerial, PTL

\* When a scan whose fetch succeeded has marked what it did not see, the
\* marketplace's available offers are those it stored, unless a statement
\* failed (runner.go:221-227).
THEOREM ListingsAreTrue ==
    Spec /\ []Alone => []ListingIsWhatTheScanSaw
<1>1. TypeInv /\ SerialInv => ListingIsWhatTheScanSaw
  <2> SUFFICES ASSUME TypeInv, SerialInv, faults = 0, NEW s \in Scans, job[s].pc = "finish",
                      job[s].status = "success", job[s].market \in Registered
               PROVE  job[s].seenIds = {k[2] : k \in {k \in Keys : /\ k[1] = job[s].market
                                                                  /\ offers[k] # None
                                                                  /\ offers[k].available}}
    BY DEF ListingIsWhatTheScanSaw
  <2>1. /\ job[s] \in Jobs /\ job[s].market \in Marketplaces /\ InFlight(s)
        /\ SeenOK(s)
    BY DEF TypeInv, TypeOK, WhereItStands, InFlight, Running, SerialInv, ScanOK
  <2>2. ASSUME NEW id \in job[s].seenIds
        PROVE  \E k \in Keys : /\ k[1] = job[s].market /\ offers[k] # None
                               /\ offers[k].available /\ k[2] = id
    <3>1. <<job[s].market, id>> \in Keys
      BY <2>1, <2>2 DEF Jobs, Keys
    <3> QED
      BY <2>1, <2>2, <3>1 DEF SeenOK, IsListed
  <2>3. ASSUME NEW k \in Keys, k[1] = job[s].market, offers[k] # None, offers[k].available
        PROVE  k[2] \in job[s].seenIds
    BY <2>1, <2>3 DEF SeenOK, IsListed
  <2> QED
    BY <2>2, <2>3
<1> QED
  BY <1>1, AlwaysSerial, PTL

-----------------------------------------------------------------------------
(* The histories implement PriceHistory.                                   *)

\* The order of a history is a sequence, as long as it has points.
LEMMA OrderIsSequence ==
    ASSUME NEW history, IsFiniteSet(history)
    PROVE  /\ Len(InOrder(history)) = Cardinality(history)
           /\ InOrder(history) = <<>> <=> history = {}
<1> DEFINE n == Cardinality(history)
           values == {InOrder(history)[i] : i \in 1..n}
<1>1. n \in Nat /\ (n = 0 <=> history = {})
  BY FS_CardinalityType, FS_EmptySet
<1>2. InOrder(history) \in [1..n -> values]
  <2>1. \A i \in 1..n : InOrder(history)[i] \in values
    OBVIOUS
  <2>2. InOrder(history) = [i \in 1..n |-> (CHOOSE p \in Nth(history, i) : TRUE).price]
    BY DEF InOrder
  <2> HIDE DEF values, n
  <2> QED
    BY <2>1, <2>2
<1> HIDE DEF values, n
<1>3. InOrder(history) \in Seq(values) /\ Len(InOrder(history)) = n
  BY <1>1, <1>2
<1>4. InOrder(history) = <<>> <=> n = 0
  BY <1>1, <1>3, EmptySeq
<1> QED
  BY <1>1, <1>3, <1>4 DEF n

\* A point inserted is a price recorded.
LEMMA InsertRecords ==
    ASSUME TypeInv, SerialInv, NEW s \in Scans, InsertPricePoint(s),
           NEW k \in Keys, k = Key(s)
    PROVE  /\ Listing(s).price \in ListedPrices
           /\ PricesInOrder(k) # <<>> =>
                 PricesInOrder(k)[Len(PricesInOrder(k))] # Listing(s).price
           /\ PricesInOrder(k)' = Append(PricesInOrder(k), Listing(s).price)
           /\ \A l \in Keys \ {k} : points'[l] = points[l]
<1>1. /\ job[s] \in Jobs /\ job[s].pc = "insert"
      /\ job[s].listings # <<>> /\ job[s].listings \in Seq(Listings)
      /\ Listing(s) \in Listings
      /\ points \in [Keys -> SUBSET PointRows]
      /\ ScanOK(s) /\ ChainOK(k)
  BY AtHand DEF TypeInv, TypeOK, WhereItStands, Jobs, InsertPricePoint, SerialInv, KeyOK,
         Running, InLoop
<1>2. Listing(s).price \in ListedPrices
  <2>1. 1 \in DOMAIN job[s].listings /\ Head(job[s].listings) = job[s].listings[1]
    BY <1>1
  <2> QED
    BY <1>1, <2>1 DEF ScanOK, PricesOK, Listing
<1>3. /\ Listing(s).price \notin LatestPrice(k)
      /\ job[s].observedAt = clock[k]
      /\ \A p \in points[k] : p.at < clock[k]
  BY <1>1 DEF ScanOK, DecisionOK, PriceChanged
<1> DEFINE new == [at |-> job[s].observedAt, price |-> Listing(s).price, scan |-> s]
<1>4. /\ points'[k] = points[k] \cup {new}
      /\ \A l \in Keys \ {k} : points'[l] = points[l]
  BY <1>1 DEF InsertPricePoint
<1>5. new \in PointRows /\ new.at = clock[k] /\ new.price = Listing(s).price
  BY <1>1, <1>3 DEF Jobs, Listings, PointRows
<1> HIDE DEF new
<1>6. IsFiniteSet(points[k]) /\ points[k] \in SUBSET PointRows
  BY <1>1 DEF ChainOK
<1>7. PricesInOrder(k)' = Append(PricesInOrder(k), Listing(s).price)
  <2>1. InOrder(points[k] \cup {new}) = Append(InOrder(points[k]), new.price)
    BY <1>3, <1>5, <1>6, LaterPointIsLast
  <2> QED
    BY <1>4, <1>5, <2>1 DEF PricesInOrder
<1>8. ASSUME PricesInOrder(k) # <<>>
      PROVE  PricesInOrder(k)[Len(PricesInOrder(k))] # Listing(s).price
  <2>1. points[k] # {} /\ Len(PricesInOrder(k)) = Cardinality(points[k])
    BY <1>6, <1>8, OrderIsSequence DEF PricesInOrder
  <2>2. LatestPrice(k) = {PricesInOrder(k)[Cardinality(points[k])]}
    BY <1>1, <2>1 DEF ChainOK
  <2> QED
    BY <1>3, <2>1, <2>2
<1> QED
  BY <1>2, <1>4, <1>7, <1>8

\* Only InsertPricePoint writes price points.
LEMMA OnlyInserts ==
    ASSUME [Next]_vars, ~ \E s \in Scans : InsertPricePoint(s)
    PROVE  UNCHANGED points
<1>1. ASSUME NEW s \in Scans,
             \/ \E m \in Marketplaces : Launch(s, m)
             \/ CreateScan(s)
             \/ ListWatchKeywords(s)
             \/ ListWatchBlockedWords(s)
             \/ Fetch(s)
             \/ FetchFails(s)
             \/ NoFetcher(s)
      PROVE  UNCHANGED points
  BY <1>1
     DEF Launch, CreateScan, ListWatchKeywords, ListWatchBlockedWords, Fetch, FetchFails, NoFetcher
<1>2. ASSUME NEW s \in Scans,
             \/ SkipListing(s)
             \/ GetPrevious(s)
             \/ UpsertOffer(s)
             \/ SkipPricePoint(s)
             \/ DecidePricePoint(s)
      PROVE  UNCHANGED points
  BY <1>2 DEF SkipListing, GetPrevious, UpsertOffer, SkipPricePoint, DecidePricePoint
<1>3. ASSUME NEW s \in Scans, CountAndNotify(s) \/ MarkOffersUnavailable(s) \/ FinishScan(s)
      PROVE  UNCHANGED points
  BY <1>3 DEF CountAndNotify, MarkOffersUnavailable, FinishScan
<1>4. ASSUME NEW s \in Scans,
             ReturnError(s) \/ RecordFailureFails(s) \/ GetPreviousFails(s) \/ UpsertFails(s)
      PROVE  UNCHANGED points
  BY <1>4 DEF ReturnError, RecordFailureFails, GetPreviousFails, UpsertFails
<1>5. ASSUME NEW s \in Scans,
             PricePointFails(s) \/ NotifyFails(s) \/ MarkFails(s) \/ Interrupt(s)
      PROVE  UNCHANGED points
  BY <1>5 DEF PricePointFails, NotifyFails, MarkFails, Interrupt
<1>6. CASE User
  BY <1>6 DEF User, SetMonitored, UpdateWatch
<1>7. CASE UNCHANGED vars
  BY <1>7 DEF vars
<1>8. ASSUME NEW s \in Scans, Step(s) PROVE UNCHANGED points
  BY <1>1, <1>2, <1>3, <1>8 DEF Step
<1>9. ASSUME NEW s \in Scans, Failure(s) PROVE UNCHANGED points
  BY <1>4, <1>5, <1>9 DEF Failure
<1> QED
  BY <1>1, <1>6, <1>7, <1>8, <1>9 DEF Next

\* Scans that do not overlap implement PriceHistory, whatever fails or is cut:
\* what InsertOfferPricePointIfChanged leaves in offer_price_points are
\* histories that grow at their end, by one price that differs from the last.
THEOREM HistoriesAreKept ==
    Spec /\ []Alone => HistoryImplemented
<1> DEFINE h == [k \in Keys |-> PricesInOrder(k)]
<1>1. Init => History!Init
  <2> SUFFICES ASSUME Init PROVE h = [k \in Keys |-> <<>>]
    BY DEF History!Init
  <2>1. ASSUME NEW k \in Keys PROVE PricesInOrder(k) = <<>>
    <3>1. points[k] = {} /\ IsFiniteSet(points[k])
      BY FS_EmptySet DEF Init
    <3> QED
      BY <3>1, OrderIsSequence DEF PricesInOrder
  <2> QED
    BY <2>1
<1>2. TypeInv /\ SerialInv /\ [Next]_vars => [History!Next]_h
  <2> SUFFICES ASSUME TypeInv, SerialInv, [Next]_vars PROVE [History!Next]_h
    OBVIOUS
  <2>1. CASE \E s \in Scans : InsertPricePoint(s)
    <3>1. PICK s \in Scans : InsertPricePoint(s)
      BY <2>1
    <3>2. Key(s) \in Keys
      BY <3>1, AtHand DEF InsertPricePoint, TypeInv, WhereItStands, Running, InLoop
    <3>3. PICK k \in Keys : k = Key(s)
      BY <3>2
    <3>4. PICK price \in ListedPrices : price = Listing(s).price
      BY <3>1, <3>3, InsertRecords
    <3>5. /\ PricesInOrder(k) # <<>> => PricesInOrder(k)[Len(PricesInOrder(k))] # price
          /\ PricesInOrder(k)' = Append(PricesInOrder(k), price)
          /\ \A l \in Keys \ {k} : PricesInOrder(l)' = PricesInOrder(l)
      BY <3>1, <3>3, <3>4, InsertRecords DEF PricesInOrder
    <3>6. h' = [h EXCEPT ![k] = Append(h[k], price)]
      BY <3>5
    <3>7. History!Record(k, price)
      BY <3>5, <3>6 DEF History!Record
    <3> QED
      BY <3>7 DEF History!Next
  <2>2. CASE ~ \E s \in Scans : InsertPricePoint(s)
    <3>1. points' = points
      BY <2>2, OnlyInserts
    <3>2. h' = h
      BY <3>1 DEF PricesInOrder
    <3> QED
      BY <3>2
  <2> QED
    BY <2>1, <2>2
<1>3. HistoryImplemented <=> History!Init /\ [][History!Next]_h
  BY DEF HistoryImplemented, History!Spec
<1> HIDE DEF h
<1> QED
  BY <1>1, <1>2, <1>3, AlwaysSerial, PTL DEF Spec

=============================================================================
