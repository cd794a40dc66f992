-------------------------- MODULE ScanRunner_proofs --------------------------
(***************************************************************************)
(* Proofs about ScanRunner for every set of scans, marketplaces, listings  *)
(* and configurations, with and without overlapping scans. The first part  *)
(* is about the scans and their counts; the second about the offers: the   *)
(* filter, the history, the owner's columns, and what a scan may hide.     *)
(***************************************************************************)
EXTENDS ScanRunner, FiniteSetTheorems, TLAPS

-----------------------------------------------------------------------------
(* The type invariant needs to know where a goroutine stands.              *)

\* A running goroutine has a marketplace, one in the loop body has a listing
\* at hand, and one past CreateScan has its scans row.
WhereItStands ==
    \A s \in Scans :
        /\ job[s].pc \in Running => job[s].market \in Marketplaces
        /\ job[s].pc \in InLoop => job[s].listings # <<>>
        /\ job[s].pc \in Running \ {"create"} => scans[s] # None

TypeInv == TypeOK /\ WhereItStands

\* What a goroutine with a listing at hand works on.
LEMMA AtHand ==
    ASSUME TypeInv, NEW s \in Scans, job[s].pc \in Running, job[s].listings # <<>>
    PROVE  /\ job[s] \in Jobs
           /\ Listing(s) \in Listings
           /\ Key(s) \in Keys
           /\ Tail(job[s].listings) \in Seq(Listings)
<1>1. job[s] \in Jobs /\ job[s].market \in Marketplaces
  BY DEF TypeInv, TypeOK, WhereItStands
<1>2. job[s].listings \in Seq(Listings)
  BY <1>1 DEF Jobs
<1>3. Listing(s) \in Listings /\ Tail(job[s].listings) \in Seq(Listings)
  BY <1>2 DEF Listing
<1>4. Key(s) \in Keys
  BY <1>1, <1>3 DEF Key, Keys, Listings
<1> QED
  BY <1>1, <1>3, <1>4

\* Going on to the next listing leaves a well-typed local state.
LEMMA ContinueType ==
    ASSUME NEW j \in Jobs, Tail(j.listings) \in Seq(Listings)
    PROVE  Continue(j) \in Jobs
BY DEF Continue, Jobs, Running

\* Counting a listing leaves a well-typed local state.
LEMMA CountedType ==
    ASSUME NEW j \in Jobs, Head(j.listings) \in Listings
    PROVE  Counted(j) \in Jobs /\ Counted(j).listings = j.listings
<1>1. Head(j.listings).id \in ExternalIds
  BY DEF Listings
<1>2. /\ j.new \in Nat /\ j.seen \in Nat /\ j.found \in Nat
      /\ j.new + 1 \in Nat /\ j.seen + 1 \in Nat /\ j.found + 1 \in Nat
  BY DEF Jobs
<1>3. CASE j.isNew
  BY <1>1, <1>2, <1>3 DEF Counted, Jobs
<1>4. CASE ~ j.isNew
  BY <1>1, <1>2, <1>4 DEF Counted, Jobs
<1> QED
  BY <1>3, <1>4

\* Cutting a goroutine leaves a well-typed local state.
LEMMA AbortType ==
    ASSUME NEW j \in Jobs
    PROVE  Abort(j) \in Jobs
<1>1. <<>> \in Seq(Listings)
  OBVIOUS
<1>2. "aborted" \in {"idle"} \cup Running \cup Ended
  BY DEF Ended
<1> QED
  BY <1>1, <1>2 DEF Abort, Jobs

\* The row an upsert leaves is an offers row.
LEMMA UpsertedRowType ==
    ASSUME TypeInv, NEW s \in Scans, job[s].pc \in Running, job[s].listings # <<>>
    PROVE  UpsertedRow(s) \in OfferRows
<1>1. Listing(s) \in Listings /\ Key(s) \in Keys
  BY AtHand
<1>2. offers[Key(s)] # None => offers[Key(s)] \in OfferRows
  BY <1>1 DEF TypeInv, TypeOK
<1> QED
  BY <1>1, <1>2 DEF UpsertedRow, OfferRows, Listings

\* An upsert keeps the offers table and the history variable typed.
LEMMA WriteOfferType ==
    ASSUME TypeInv, NEW s \in Scans, job[s].pc \in Running, job[s].listings # <<>>,
           WriteOffer(s)
    PROVE  /\ offers' \in [Keys -> OfferRows \cup {None}]
           /\ crossings' \in [Keys -> Nat]
<1>1. UpsertedRow(s) \in OfferRows /\ Key(s) \in Keys
  BY UpsertedRowType, AtHand
<1> QED
  BY <1>1 DEF WriteOffer, TypeInv, TypeOK

-----------------------------------------------------------------------------
(* One goroutine moves, to the local state j.                              *)
LEMMA JobStep ==
    ASSUME TypeInv, NEW s \in Scans, NEW j \in Jobs,
           job' = [job EXCEPT ![s] = j],
           j.pc \in Running => j.market \in Marketplaces,
           j.pc \in InLoop => j.listings # <<>>,
           j.pc \in Running \ {"create"} => scans'[s] # None,
           \A t \in Scans \ {s} : scans'[t] = scans[t]
    PROVE  job' \in [Scans -> Jobs] /\ WhereItStands'
<1>1. job \in [Scans -> Jobs] /\ WhereItStands
  BY DEF TypeInv, TypeOK
<1>2. job' \in [Scans -> Jobs] /\ job'[s] = j /\ \A t \in Scans \ {s} : job'[t] = job[t]
  BY <1>1
<1>3. ASSUME NEW t \in Scans
      PROVE  /\ job'[t].pc \in Running => job'[t].market \in Marketplaces
             /\ job'[t].pc \in InLoop => job'[t].listings # <<>>
             /\ job'[t].pc \in Running \ {"create"} => scans'[t] # None
  <2>1. CASE t = s
    BY <1>2, <2>1
  <2>2. CASE t # s
    BY <1>1, <1>2, <2>2 DEF WhereItStands
  <2> QED
    BY <2>1, <2>2
<1> QED
  BY <1>2, <1>3 DEF WhereItStands

\* TypeInv holds initially.
LEMMA InitType == Init => TypeInv
<1> SUFFICES ASSUME Init PROVE TypeInv
  OBVIOUS
<1>1. IdleJob \in Jobs
  <2>1. <<>> \in Seq(Listings)
    OBVIOUS
  <2>2. IdleJob.config \in Configs
    BY DEF IdleJob, Configs, Modes
  <2> QED
    BY <2>1, <2>2 DEF IdleJob, Jobs
<1>2. TypeOK
  BY <1>1, ConstantsAssumption DEF Init, TypeOK
<1>3. WhereItStands
  BY DEF Init, WhereItStands, IdleJob, Running, InLoop
<1> QED
  BY <1>2, <1>3 DEF TypeInv

\* The statements in front of the loop preserve TypeInv.
LEMMA BeforeLoopType ==
    ASSUME TypeInv, NEW s \in Scans
    PROVE  /\ \A m \in Marketplaces : Launch(s, m) => TypeInv'
           /\ CreateScan(s) => TypeInv'
           /\ ListWatchKeywords(s) => TypeInv'
           /\ ListWatchBlockedWords(s) => TypeInv'
           /\ Fetch(s) => TypeInv'
           /\ FetchFails(s) => TypeInv'
           /\ NoFetcher(s) => TypeInv'
<1> USE DEF TypeInv
<1>j. job \in [Scans -> Jobs] /\ job[s] \in Jobs /\ job[s].config \in Configs
  BY DEF TypeOK, Jobs
<1>w. watch \in Configs
  BY ConstantsAssumption DEF TypeOK
<1>1. ASSUME NEW m \in Marketplaces, Launch(s, m) PROVE TypeInv'
  <2> DEFINE c == [job[s].config EXCEPT !.target = watch.target, !.mode = watch.mode]
             j == [job[s] EXCEPT !.pc = "create", !.market = m, !.config = c]
  <2>1. c \in Configs
    BY <1>j, <1>w DEF Configs
  <2>2. j \in Jobs
    BY <1>j, <2>1 DEF Jobs, Running
  <2>3. job' = [job EXCEPT ![s] = j]
    BY <1>1, <1>j DEF Launch, Jobs, Configs
  <2>4. /\ j.pc \in Running => j.market \in Marketplaces
        /\ j.pc \in InLoop => j.listings # <<>>
        /\ j.pc \in Running \ {"create"} => scans'[s] # None
    BY <1>j DEF InLoop, Jobs
  <2>5. UNCHANGED scans
    BY <1>1 DEF Launch
  <2>6. job' \in [Scans -> Jobs] /\ WhereItStands'
    <3> HIDE DEF j
    <3> QED BY <2>2, <2>3, <2>4, <2>5, JobStep
  <2> QED
    BY <1>1, <2>6 DEF Launch, TypeOK
<1>2. ASSUME CreateScan(s) PROVE TypeInv'
  <2> DEFINE j == [job[s] EXCEPT !.pc = "keywords"]
  <2>1. j \in Jobs
    BY <1>j, <1>2 DEF CreateScan, Jobs, Running
  <2>2. job' = [job EXCEPT ![s] = j]
    BY <1>2, <1>j DEF CreateScan, Goto
  <2>r. [open |-> TRUE, status |-> "success", found |-> 0, new |-> 0, seen |-> 0, failure |-> FALSE] \in ScanRows
    BY DEF ScanRows
  <2>3. /\ j.market \in Marketplaces
        /\ scans' = [scans EXCEPT ![s] = [open |-> TRUE, status |-> "success", found |-> 0, new |-> 0, seen |-> 0, failure |-> FALSE]]
        /\ scans'[s] # None
        /\ \A t \in Scans \ {s} : scans'[t] = scans[t]
    BY <1>2, <1>j, <2>r, NoneAssumption DEF CreateScan, WhereItStands, TypeOK, Jobs, Running
  <2>4. j.pc \notin InLoop /\ j.pc # "create"
    BY <1>j DEF InLoop, Jobs
  <2>5. job' \in [Scans -> Jobs] /\ WhereItStands'
    <3> HIDE DEF j
    <3> QED BY <2>1, <2>2, <2>3, <2>4, JobStep
  <2> QED
    BY <1>2, <2>r, <2>3, <2>5 DEF CreateScan, TypeOK
<1>3. ASSUME ListWatchKeywords(s) PROVE TypeInv'
  <2> DEFINE j == [job[s] EXCEPT !.pc = "blocked", !.config = [job[s].config EXCEPT !.keywords = watch.keywords]]
  <2>1. j \in Jobs
    BY <1>j, <1>3, <1>w DEF ListWatchKeywords, Jobs, Running, Configs
  <2>2. job' = [job EXCEPT ![s] = j]
    BY <1>3, <1>j DEF ListWatchKeywords, Goto
  <2>3. /\ j.market \in Marketplaces
        /\ scans'[s] # None
        /\ \A t \in Scans \ {s} : scans'[t] = scans[t]
    BY <1>3, <1>j DEF ListWatchKeywords, WhereItStands, Jobs, Running
  <2>4. j.pc \notin InLoop /\ j.pc # "create"
    BY <1>j DEF InLoop, Jobs
  <2>5. job' \in [Scans -> Jobs] /\ WhereItStands'
    <3> HIDE DEF j
    <3> QED BY <2>1, <2>2, <2>3, <2>4, JobStep
  <2> QED
    BY <1>3, <2>5 DEF ListWatchKeywords, TypeOK
<1>4. ASSUME ListWatchBlockedWords(s) PROVE TypeInv'
  <2> DEFINE j == [job[s] EXCEPT !.pc = "fetch", !.config = [job[s].config EXCEPT !.blocked = watch.blocked]]
  <2>1. j \in Jobs
    BY <1>j, <1>4, <1>w DEF ListWatchBlockedWords, Jobs, Running, Configs
  <2>2. job' = [job EXCEPT ![s] = j]
    BY <1>4, <1>j DEF ListWatchBlockedWords, Goto
  <2>3. /\ j.market \in Marketplaces
        /\ scans'[s] # None
        /\ \A t \in Scans \ {s} : scans'[t] = scans[t]
    BY <1>4, <1>j DEF ListWatchBlockedWords, WhereItStands, Jobs, Running
  <2>4. j.pc \notin InLoop /\ j.pc # "create"
    BY <1>j DEF InLoop, Jobs
  <2>5. job' \in [Scans -> Jobs] /\ WhereItStands'
    <3> HIDE DEF j
    <3> QED BY <2>1, <2>2, <2>3, <2>4, JobStep
  <2> QED
    BY <1>4, <2>5 DEF ListWatchBlockedWords, TypeOK
<1>5. ASSUME Fetch(s) PROVE TypeInv'
  <2>1. PICK listings \in Results :
           job' = [job EXCEPT ![s].pc = "next", ![s].listings = listings]
    BY <1>5 DEF Fetch
  <2> DEFINE j == [job[s] EXCEPT !.pc = "next", !.listings = listings]
  <2>2. j \in Jobs
    BY <1>j, ConstantsAssumption DEF Jobs, Running
  <2>3. job' = [job EXCEPT ![s] = j]
    BY <2>1, <1>j
  <2>4. /\ j.market \in Marketplaces
        /\ scans'[s] # None
        /\ \A t \in Scans \ {s} : scans'[t] = scans[t]
    BY <1>5, <1>j DEF Fetch, WhereItStands, Jobs, Running
  <2>5. j.pc \notin InLoop /\ j.pc # "create"
    BY <1>j DEF InLoop, Jobs
  <2>6. job' \in [Scans -> Jobs] /\ WhereItStands'
    <3> HIDE DEF j
    <3> QED BY <2>2, <2>3, <2>4, <2>5, JobStep
  <2> QED
    BY <1>5, <2>6 DEF Fetch, TypeOK
<1>6. ASSUME FetchFails(s) PROVE TypeInv'
  <2> DEFINE j == [job[s] EXCEPT !.pc = "next", !.status = "failed"]
  <2>1. j \in Jobs
    BY <1>j, <1>6 DEF FetchFails, Jobs, Running
  <2>2. job' = [job EXCEPT ![s] = j]
    BY <1>6, <1>j DEF FetchFails, Goto
  <2>r. [scans[s] EXCEPT !.failure = TRUE] \in ScanRows
    <3>1. scans[s] # None
      BY <1>6 DEF FetchFails, WhereItStands, Running
    <3> QED
      BY <3>1 DEF TypeOK, ScanRows
  <2>3. /\ j.market \in Marketplaces
        /\ scans' = [scans EXCEPT ![s] = [scans[s] EXCEPT !.failure = TRUE]]
        /\ scans'[s] # None
        /\ \A t \in Scans \ {s} : scans'[t] = scans[t]
    BY <1>6, <1>j, <2>r, NoneAssumption DEF FetchFails, WhereItStands, TypeOK, Jobs, Running
  <2>4. j.pc \notin InLoop /\ j.pc # "create"
    BY <1>j DEF InLoop, Jobs
  <2>5. job' \in [Scans -> Jobs] /\ WhereItStands'
    <3> HIDE DEF j
    <3> QED BY <2>1, <2>2, <2>3, <2>4, JobStep
  <2> QED
    BY <1>6, <2>r, <2>3, <2>5 DEF FetchFails, TypeOK
<1>7. ASSUME NoFetcher(s) PROVE TypeInv'
  <2> DEFINE j == [job[s] EXCEPT !.pc = "next"]
  <2>1. j \in Jobs
    BY <1>j, <1>7 DEF NoFetcher, Jobs, Running
  <2>2. job' = [job EXCEPT ![s] = j]
    BY <1>7, <1>j DEF NoFetcher, Goto
  <2>3. /\ j.market \in Marketplaces
        /\ scans'[s] # None
        /\ \A t \in Scans \ {s} : scans'[t] = scans[t]
    BY <1>7, <1>j DEF NoFetcher, WhereItStands, Jobs, Running
  <2>4. j.pc \notin InLoop /\ j.pc # "create"
    BY <1>j DEF InLoop, Jobs
  <2>5. job' \in [Scans -> Jobs] /\ WhereItStands'
    <3> HIDE DEF j
    <3> QED BY <2>1, <2>2, <2>3, <2>4, JobStep
  <2> QED
    BY <1>7, <2>5 DEF NoFetcher, TypeOK
<1> QED
  BY <1>1, <1>2, <1>3, <1>4, <1>5, <1>6, <1>7

\* Past CreateScan only FetchFails and FinishScan write a scans row, and no
\* step changes the marketplace of a goroutine.
LEMMA LoopStep ==
    ASSUME TypeInv, NEW s \in Scans, NEW j \in Jobs,
           job[s].pc \in Running,
           job' = [job EXCEPT ![s] = j],
           j.market = job[s].market,
           j.pc \in InLoop => j.listings # <<>>,
           j.pc = "create" \/ job[s].pc = "create" => j.pc \notin Running,
           UNCHANGED scans
    PROVE  job' \in [Scans -> Jobs] /\ WhereItStands'
<1>1. j.pc \in Running => j.market \in Marketplaces
  BY DEF TypeInv, WhereItStands
<1>2. j.pc \in Running \ {"create"} => scans'[s] # None
  BY DEF TypeInv, WhereItStands
<1> QED
  BY <1>1, <1>2, JobStep

\* The statements of the loop preserve TypeInv.
LEMMA LoopType ==
    ASSUME TypeInv, NEW s \in Scans
    PROVE  /\ SkipListing(s) => TypeInv'
           /\ GetPrevious(s) => TypeInv'
           /\ UpsertOffer(s) => TypeInv'
           /\ SkipPricePoint(s) => TypeInv'
           /\ DecidePricePoint(s) => TypeInv'
           /\ InsertPricePoint(s) => TypeInv'
           /\ CountAndNotify(s) => TypeInv'
<1> USE DEF TypeInv
<1>j. /\ job \in [Scans -> Jobs] /\ job[s] \in Jobs
      /\ clock \in [Keys -> Nat] /\ notified \in [Keys -> Nat]
      /\ points \in [Keys -> SUBSET PointRows]
      /\ offers \in [Keys -> OfferRows \cup {None}]
  BY DEF TypeOK
<1>h. ASSUME job[s].pc \in Running, job[s].listings # <<>>
      PROVE  /\ Listing(s) \in Listings
             /\ Key(s) \in Keys
             /\ Tail(job[s].listings) \in Seq(Listings)
             /\ Head(job[s].listings) \in Listings
             /\ Continue(job[s]) \in Jobs
             /\ Continue(job[s]).market = job[s].market
             /\ Continue(job[s]).pc = "next"
             /\ Continue(Counted(job[s])) \in Jobs
             /\ Continue(Counted(job[s])).market = job[s].market
             /\ Continue(Counted(job[s])).pc = "next"
  <2>1. /\ Listing(s) \in Listings /\ Key(s) \in Keys
        /\ Tail(job[s].listings) \in Seq(Listings)
    BY <1>h, AtHand
  <2>2. Head(job[s].listings) \in Listings
    BY <2>1 DEF Listing
  <2>3. Continue(job[s]) \in Jobs
    BY <1>j, <2>1, ContinueType
  <2>4. Counted(job[s]) \in Jobs /\ Counted(job[s]).listings = job[s].listings
    BY <1>j, <2>2, CountedType
  <2>5. Continue(Counted(job[s])) \in Jobs
    BY <2>1, <2>4, ContinueType
  <2>6. /\ Continue(job[s]).market = job[s].market
        /\ Continue(job[s]).pc = "next"
        /\ Continue(Counted(job[s])).market = job[s].market
        /\ Continue(Counted(job[s])).pc = "next"
    BY <1>j DEF Continue, Counted, Jobs
  <2> QED
    BY <2>1, <2>2, <2>3, <2>5, <2>6
<1>l. job[s].pc \in InLoop => job[s].pc \in Running /\ job[s].listings # <<>>
  BY DEF WhereItStands, Running
<1>1. ASSUME SkipListing(s) PROVE TypeInv'
  <2>1. job[s].pc \in Running /\ job[s].listings # <<>> /\ job[s].pc # "create"
    BY <1>1 DEF SkipListing, Running
  <2>2. job' = [job EXCEPT ![s] = Continue(job[s])] /\ UNCHANGED scans
    BY <1>1 DEF SkipListing
  <2>3. job' \in [Scans -> Jobs] /\ WhereItStands'
    BY <1>h, <2>1, <2>2, LoopStep DEF InLoop
  <2> QED
    BY <1>1, <2>3 DEF SkipListing, TypeOK
<1>2. ASSUME GetPrevious(s) PROVE TypeInv'
  <2> DEFINE p == IF offers[Key(s)] = None THEN None ELSE offers[Key(s)].price
             j == [job[s] EXCEPT !.pc = "upsert", !.previous = p]
  <2>1. job[s].pc \in Running /\ job[s].listings # <<>> /\ job[s].pc # "create"
    BY <1>2 DEF GetPrevious, Running
  <2>2. p \in Nat \cup {None}
    BY <1>h, <1>j, <2>1 DEF OfferRows
  <2>3. j \in Jobs /\ j.market = job[s].market /\ j.pc = "upsert" /\ j.listings = job[s].listings
    <3> HIDE DEF p
    <3> QED BY <1>j, <2>2 DEF Jobs, Running, InLoop
  <2>4. job' = [job EXCEPT ![s] = j] /\ UNCHANGED scans
    BY <1>2, <1>j DEF GetPrevious
  <2>5. job' \in [Scans -> Jobs] /\ WhereItStands'
    <3> HIDE DEF j
    <3> QED BY <2>1, <2>3, <2>4, LoopStep
  <2> QED
    BY <1>2, <2>5 DEF GetPrevious, TypeOK
<1>3. ASSUME UpsertOffer(s) PROVE TypeInv'
  <2> DEFINE m == UpsertedRow(s).monitored
             new == (offers[Key(s)] = None)
             j == [job[s] EXCEPT !.pc = "point", !.isNew = new, !.monitored = m]
  <2>1. job[s].pc \in Running /\ job[s].listings # <<>> /\ job[s].pc # "create"
    BY <1>3, <1>l DEF UpsertOffer, InLoop
  <2>2. m \in BOOLEAN /\ new \in BOOLEAN
    BY <2>1, UpsertedRowType DEF OfferRows
  <2>3. j \in Jobs /\ j.market = job[s].market /\ j.pc = "point" /\ j.listings = job[s].listings
    <3> HIDE DEF m, new
    <3> QED BY <1>j, <2>2 DEF Jobs, Running, InLoop
  <2>4. job' = [job EXCEPT ![s] = j] /\ UNCHANGED scans
    <3>1. job' = [job EXCEPT ![s].pc = "point", ![s].isNew = new, ![s].monitored = m]
      BY <1>3 DEF UpsertOffer
    <3> HIDE DEF m, new
    <3> QED BY <1>3, <1>j, <3>1 DEF UpsertOffer
  <2>5. job' \in [Scans -> Jobs] /\ WhereItStands'
    <3> HIDE DEF j
    <3> QED BY <2>1, <2>3, <2>4, LoopStep
  <2>6. offers' \in [Keys -> OfferRows \cup {None}] /\ crossings' \in [Keys -> Nat]
    BY <1>3, <2>1, WriteOfferType DEF UpsertOffer
  <2> QED
    BY <1>3, <2>5, <2>6 DEF UpsertOffer, TypeOK
<1>4. ASSUME SkipPricePoint(s) PROVE TypeInv'
  <2> DEFINE j == [job[s] EXCEPT !.pc = "count"]
  <2>1. job[s].pc \in Running /\ job[s].listings # <<>> /\ job[s].pc # "create"
    BY <1>4, <1>l DEF SkipPricePoint, InLoop
  <2>2. j \in Jobs /\ j.market = job[s].market /\ j.pc = "count" /\ j.listings = job[s].listings
    BY <1>j DEF Jobs, Running, InLoop
  <2>3. job' = [job EXCEPT ![s] = j] /\ UNCHANGED scans
    BY <1>4, <1>j DEF SkipPricePoint, Goto
  <2>4. job' \in [Scans -> Jobs] /\ WhereItStands'
    <3> HIDE DEF j
    <3> QED BY <2>1, <2>2, <2>3, LoopStep
  <2> QED
    BY <1>4, <2>4 DEF SkipPricePoint, TypeOK
<1>5. ASSUME DecidePricePoint(s) PROVE TypeInv'
  <2> DEFINE at == clock[Key(s)] + 1
             j == [job[s] EXCEPT !.pc = "insert", !.observedAt = at]
  <2>1. job[s].pc \in Running /\ job[s].listings # <<>> /\ job[s].pc # "create"
    BY <1>5, <1>l DEF DecidePricePoint, InLoop
  <2>2. at \in Nat
    BY <1>h, <1>j, <2>1
  <2>3. j \in Jobs /\ j.market = job[s].market /\ j.pc = "insert" /\ j.listings = job[s].listings
    <3> HIDE DEF at
    <3> QED BY <1>j, <2>2 DEF Jobs, Running, InLoop
  <2>4. /\ job' = [job EXCEPT ![s] = j]
        /\ clock' = [clock EXCEPT ![Key(s)] = at]
        /\ UNCHANGED scans
    BY <1>5, <1>j DEF DecidePricePoint
  <2>5. job' \in [Scans -> Jobs] /\ WhereItStands'
    <3> HIDE DEF j
    <3> QED BY <2>1, <2>3, <2>4, LoopStep
  <2>6. clock' \in [Keys -> Nat]
    <3> HIDE DEF at
    <3> QED BY <1>j, <2>2, <2>4
  <2> QED
    BY <1>5, <2>5, <2>6 DEF DecidePricePoint, TypeOK
<1>6. ASSUME InsertPricePoint(s) PROVE TypeInv'
  <2> DEFINE row == [at |-> job[s].observedAt, price |-> Listing(s).price, scan |-> s]
             j == [job[s] EXCEPT !.pc = "count", !.observedAt = 0]
  <2>1. job[s].pc \in Running /\ job[s].listings # <<>> /\ job[s].pc # "create"
    BY <1>6, <1>l DEF InsertPricePoint, InLoop
  <2>2. row \in PointRows
    BY <1>h, <1>j, <2>1 DEF PointRows, Listings, Jobs
  <2>3. j \in Jobs /\ j.market = job[s].market /\ j.pc = "count" /\ j.listings = job[s].listings
    BY <1>j DEF Jobs, Running, InLoop
  <2>4. /\ job' = [job EXCEPT ![s] = j]
        /\ points' = [points EXCEPT ![Key(s)] = @ \cup {row}]
        /\ UNCHANGED scans
    BY <1>6, <1>j DEF InsertPricePoint
  <2>5. job' \in [Scans -> Jobs] /\ WhereItStands'
    <3> HIDE DEF j
    <3> QED BY <2>1, <2>3, <2>4, LoopStep
  <2>6. points' \in [Keys -> SUBSET PointRows]
    <3> HIDE DEF row
    <3> QED BY <1>j, <2>2, <2>4
  <2> QED
    BY <1>6, <2>5, <2>6 DEF InsertPricePoint, TypeOK
<1>7. ASSUME CountAndNotify(s) PROVE TypeInv'
  <2>1. job[s].pc \in Running /\ job[s].listings # <<>> /\ job[s].pc # "create"
    BY <1>7, <1>l DEF CountAndNotify, InLoop
  <2>2. job' = [job EXCEPT ![s] = Continue(Counted(job[s]))] /\ UNCHANGED scans
    BY <1>7 DEF CountAndNotify
  <2>3. job' \in [Scans -> Jobs] /\ WhereItStands'
    BY <1>h, <2>1, <2>2, LoopStep DEF InLoop
  <2>4. notified' \in [Keys -> Nat]
    BY <1>7, <1>j, <1>h, <2>1 DEF CountAndNotify
  <2> QED
    BY <1>7, <2>3, <2>4 DEF CountAndNotify, TypeOK
<1> QED
  BY <1>1, <1>2, <1>3, <1>4, <1>5, <1>6, <1>7

\* Marking and finishing preserve TypeInv.
LEMMA AfterLoopType ==
    ASSUME TypeInv, NEW s \in Scans
    PROVE  /\ MarkOffersUnavailable(s) => TypeInv'
           /\ FinishScan(s) => TypeInv'
<1> USE DEF TypeInv
<1>j. job \in [Scans -> Jobs] /\ job[s] \in Jobs
  BY DEF TypeOK
<1>1. ASSUME MarkOffersUnavailable(s) PROVE TypeInv'
  <2> DEFINE j == [job[s] EXCEPT !.pc = "finish"]
  <2>1. /\ job[s].pc \in Running /\ job[s].pc # "create"
        /\ j \in Jobs /\ j.market = job[s].market /\ j.pc = "finish"
    BY <1>1, <1>j DEF MarkOffersUnavailable, Jobs, Running
  <2>2. job' = [job EXCEPT ![s] = j] /\ UNCHANGED scans
    BY <1>1, <1>j DEF MarkOffersUnavailable, Goto
  <2>3. job' \in [Scans -> Jobs] /\ WhereItStands'
    <3> HIDE DEF j
    <3> QED BY <2>1, <2>2, LoopStep DEF InLoop
  <2>4. offers' \in [Keys -> OfferRows \cup {None}]
    <3>1. \A k \in Keys : offers[k] # None => [offers[k] EXCEPT !.available = FALSE] \in OfferRows
      BY DEF TypeOK, OfferRows
    <3> QED
      BY <1>1, <3>1 DEF MarkOffersUnavailable, TypeOK
  <2> QED
    BY <1>1, <2>3, <2>4 DEF MarkOffersUnavailable, TypeOK
<1>2. ASSUME FinishScan(s) PROVE TypeInv'
  <2> DEFINE j == [job[s] EXCEPT !.pc = "done"]
             row == [scans[s] EXCEPT !.open = FALSE, !.status = job[s].status,
                                     !.found = job[s].found, !.new = job[s].new,
                                     !.seen = job[s].seen]
  <2>1. j \in Jobs /\ j.pc = "done"
    BY <1>j DEF Jobs, Ended
  <2>2. job' = [job EXCEPT ![s] = j]
    BY <1>2, <1>j DEF FinishScan, Goto
  <2>3. row \in ScanRows
    <3>1. scans[s] \in ScanRows
      BY <1>2 DEF FinishScan, WhereItStands, Running, TypeOK
    <3> QED
      BY <1>j, <3>1 DEF ScanRows, Jobs
  <2>4. scans' = [scans EXCEPT ![s] = row]
    BY <1>2 DEF FinishScan, TypeOK
  <2>5. scans' \in [Scans -> ScanRows \cup {None}] /\ \A t \in Scans \ {s} : scans'[t] = scans[t]
    <3> HIDE DEF row
    <3> QED BY <2>3, <2>4 DEF TypeOK
  <2>6. job' \in [Scans -> Jobs] /\ WhereItStands'
    <3>1. j.pc \notin Running /\ j.pc \notin InLoop
      BY <2>1 DEF Running, InLoop
    <3> HIDE DEF j
    <3> QED BY <2>1, <2>2, <2>5, <3>1, JobStep
  <2> QED
    BY <1>2, <2>5, <2>6 DEF FinishScan, TypeOK
<1> QED
  BY <1>1, <1>2

\* Failed statements and cut goroutines preserve TypeInv.
LEMMA FailureType ==
    ASSUME TypeInv, NEW s \in Scans, Failure(s)
    PROVE  TypeInv'
<1> USE DEF TypeInv
<1>j. job \in [Scans -> Jobs] /\ job[s] \in Jobs
  BY DEF TypeOK
<1>f. Fault => faults' \in 0..MaxFaults
  BY ConstantsAssumption DEF Fault, TypeOK
<1>a. ASSUME job[s].pc \in Running, job' = [job EXCEPT ![s] = Abort(@)], UNCHANGED scans
      PROVE  job' \in [Scans -> Jobs] /\ WhereItStands'
  <2>1. Abort(job[s]) \in Jobs
    BY <1>j, AbortType
  <2>2. Abort(job[s]).market = job[s].market /\ Abort(job[s]).pc = "aborted"
    BY <1>j DEF Abort, Jobs
  <2> QED
    BY <1>a, <2>1, <2>2, LoopStep DEF Running, InLoop
<1>l. job[s].pc \in InLoop => job[s].pc \in Running /\ job[s].listings # <<>>
  BY DEF WhereItStands, Running
<1>1. CASE ReturnError(s)
  <2>1. job' \in [Scans -> Jobs] /\ WhereItStands'
    BY <1>1, <1>a DEF ReturnError, Running
  <2> QED
    BY <1>1, <1>f, <2>1 DEF ReturnError, TypeOK
<1>2. CASE RecordFailureFails(s)
  <2> DEFINE j == [job[s] EXCEPT !.pc = "next", !.status = "failed"]
  <2>1. /\ job[s].pc \in Running /\ job[s].pc # "create"
        /\ j \in Jobs /\ j.market = job[s].market /\ j.pc = "next"
    BY <1>2, <1>j DEF RecordFailureFails, Jobs, Running
  <2>2. job' = [job EXCEPT ![s] = j] /\ UNCHANGED scans
    BY <1>2, <1>j DEF RecordFailureFails
  <2>3. job' \in [Scans -> Jobs] /\ WhereItStands'
    <3> HIDE DEF j
    <3> QED BY <2>1, <2>2, LoopStep DEF InLoop
  <2> QED
    BY <1>2, <1>f, <2>3 DEF RecordFailureFails, TypeOK
<1>3. CASE GetPreviousFails(s)
  <2> DEFINE j == [job[s] EXCEPT !.pc = "upsert"]
  <2>1. /\ job[s].pc \in Running /\ job[s].pc # "create"
        /\ j \in Jobs /\ j.market = job[s].market /\ j.pc = "upsert"
        /\ j.listings # <<>>
    BY <1>3, <1>j DEF GetPreviousFails, Jobs, Running, InLoop
  <2>2. job' = [job EXCEPT ![s] = j] /\ UNCHANGED scans
    BY <1>3, <1>j DEF GetPreviousFails, Goto
  <2>3. job' \in [Scans -> Jobs] /\ WhereItStands'
    <3> HIDE DEF j
    <3> QED BY <2>1, <2>2, LoopStep DEF InLoop
  <2> QED
    BY <1>3, <1>f, <2>3 DEF GetPreviousFails, TypeOK
<1>4. CASE UpsertFails(s)
  <2>1. job[s].pc \in Running /\ job[s].listings # <<>> /\ job[s].pc # "create"
    BY <1>4, <1>l DEF UpsertFails, InLoop
  <2>2. Continue(job[s]) \in Jobs
    BY <1>j, <2>1, AtHand, ContinueType
  <2>3. Continue(job[s]).market = job[s].market /\ Continue(job[s]).pc = "next"
    BY <1>j DEF Continue, Jobs
  <2>4. job' \in [Scans -> Jobs] /\ WhereItStands'
    BY <1>4, <2>1, <2>2, <2>3, LoopStep DEF UpsertFails, InLoop
  <2>5. offers' \in [Keys -> OfferRows \cup {None}] /\ crossings' \in [Keys -> Nat]
    BY <1>4, <2>1, WriteOfferType DEF UpsertFails, TypeOK
  <2> QED
    BY <1>4, <1>f, <2>4, <2>5 DEF UpsertFails, TypeOK
<1>5. CASE PricePointFails(s)
  <2> DEFINE j == [job[s] EXCEPT !.pc = "count", !.observedAt = 0]
  <2>1. job[s].pc \in Running /\ job[s].listings # <<>> /\ job[s].pc # "create"
    BY <1>5, <1>l DEF PricePointFails, InLoop
  <2>2. j \in Jobs /\ j.market = job[s].market /\ j.pc = "count" /\ j.listings = job[s].listings
    BY <1>j DEF Jobs, Running, InLoop
  <2>3. job' = [job EXCEPT ![s] = j] /\ UNCHANGED scans
    BY <1>5, <1>j DEF PricePointFails
  <2>4. job' \in [Scans -> Jobs] /\ WhereItStands'
    <3> HIDE DEF j
    <3> QED BY <2>1, <2>2, <2>3, LoopStep
  <2> QED
    BY <1>5, <1>f, <2>4 DEF PricePointFails, TypeOK
<1>6. CASE NotifyFails(s)
  <2>1. job[s].pc \in Running /\ job[s].listings # <<>> /\ job[s].pc # "create"
    BY <1>6, <1>l DEF NotifyFails, InLoop
  <2>2. /\ Counted(job[s]) \in Jobs /\ Counted(job[s]).listings = job[s].listings
        /\ Tail(job[s].listings) \in Seq(Listings)
    BY <1>j, <2>1, AtHand, CountedType DEF Listing
  <2>3. Continue(Counted(job[s])) \in Jobs
    BY <2>2, ContinueType
  <2>4. /\ Continue(Counted(job[s])).market = job[s].market
        /\ Continue(Counted(job[s])).pc = "next"
    BY <1>j DEF Continue, Counted, Jobs
  <2>5. job' \in [Scans -> Jobs] /\ WhereItStands'
    BY <1>6, <2>1, <2>3, <2>4, LoopStep DEF NotifyFails, InLoop
  <2> QED
    BY <1>6, <1>f, <2>5 DEF NotifyFails, TypeOK
<1>7. CASE MarkFails(s)
  <2> DEFINE j == [job[s] EXCEPT !.pc = "finish"]
  <2>1. /\ job[s].pc \in Running /\ job[s].pc # "create"
        /\ j \in Jobs /\ j.market = job[s].market /\ j.pc = "finish"
    BY <1>7, <1>j DEF MarkFails, Jobs, Running
  <2>2. job' = [job EXCEPT ![s] = j] /\ UNCHANGED scans
    BY <1>7, <1>j DEF MarkFails, Goto
  <2>3. job' \in [Scans -> Jobs] /\ WhereItStands'
    <3> HIDE DEF j
    <3> QED BY <2>1, <2>2, LoopStep DEF InLoop
  <2> QED
    BY <1>7, <1>f, <2>3 DEF MarkFails, TypeOK
<1>8. CASE Interrupt(s)
  <2>1. job' \in [Scans -> Jobs] /\ WhereItStands'
    BY <1>8, <1>a DEF Interrupt, InFlight
  <2> QED
    BY <1>8, <1>f, <2>1 DEF Interrupt, TypeOK
<1> QED
  BY <1>1, <1>2, <1>3, <1>4, <1>5, <1>6, <1>7, <1>8 DEF Failure

\* The owner's edits preserve TypeInv.
LEMMA UserType ==
    ASSUME TypeInv, User
    PROVE  TypeInv'
<1> USE DEF TypeInv
<1>1. ASSUME NEW k \in Keys, NEW monitored \in BOOLEAN, SetMonitored(k, monitored)
      PROVE  TypeInv'
  <2>1. [offers[k] EXCEPT !.monitored = monitored] \in OfferRows
    BY <1>1 DEF SetMonitored, TypeOK, OfferRows
  <2>2. offers' \in [Keys -> OfferRows \cup {None}]
    BY <1>1, <2>1 DEF SetMonitored, TypeOK
  <2> QED
    BY <1>1, <2>2 DEF SetMonitored, TypeOK, WhereItStands
<1>2. ASSUME NEW config \in WatchConfigs, UpdateWatch(config)
      PROVE  TypeInv'
  BY <1>2 DEF UpdateWatch, TypeOK, WhereItStands
<1> QED
  BY <1>1, <1>2 DEF User

\* Every step preserves TypeInv.
LEMMA NextType == TypeInv /\ [Next]_vars => TypeInv'
<1> SUFFICES ASSUME TypeInv, [Next]_vars PROVE TypeInv'
  OBVIOUS
<1>1. ASSUME NEW s \in Scans, Step(s) PROVE TypeInv'
  BY <1>1, BeforeLoopType, LoopType, AfterLoopType DEF Step
<1>2. ASSUME NEW s \in Scans, NEW m \in Marketplaces, Launch(s, m) PROVE TypeInv'
  BY <1>2, BeforeLoopType
<1>3. CASE UNCHANGED vars
  BY <1>3 DEF vars, TypeInv, TypeOK, WhereItStands
<1> QED
  BY <1>1, <1>2, <1>3, FailureType, UserType DEF Next

\* TypeInv holds in every state.
LEMMA AlwaysTyped == Spec => []TypeInv
BY InitType, NextType, PTL DEF Spec

\* Every variable keeps its type, for every set of scans, marketplaces and
\* listings, overlapping or not, however many statements fail.
THEOREM TypeCorrect == Spec => []TypeOK
<1>1. TypeInv => TypeOK
  BY DEF TypeInv
<1> QED
  BY <1>1, AlwaysTyped, PTL

-----------------------------------------------------------------------------
(* ReportExact. While a scan runs, the offers it was the first to see are  *)
(* those it has counted, plus the one whose upsert said is_new and which   *)
(* it has yet to count; a fault may only take from the count.              *)

Uncounted(s) == IF job[s].isNew THEN 1 ELSE 0

CountOK(s) ==
    /\ IsFiniteSet(FirstSeenBy(s))
    /\ job[s].new + Uncounted(s) <= Cardinality(FirstSeenBy(s))
    /\ faults = 0 => job[s].new + Uncounted(s) = Cardinality(FirstSeenBy(s))
    /\ job[s].found = job[s].new + job[s].seen
    /\ job[s].isNew => job[s].pc \in {"point", "insert", "count"}
    /\ scans[s] # None /\ ~ scans[s].open =>
          /\ job[s].pc = "done"
          /\ scans[s].new = job[s].new
          /\ scans[s].seen = job[s].seen
          /\ scans[s].found = job[s].found

Counts == \A s \in Scans : CountOK(s)

\* The other scans keep their counts when s moves and only s gains offers.
LEMMA OthersCount ==
    ASSUME TypeInv, Counts, NEW s \in Scans, CountOK(s)',
           \A t \in Scans \ {s} : /\ job'[t] = job[t]
                                  /\ scans'[t] = scans[t]
                                  /\ FirstSeenBy(t)' = FirstSeenBy(t),
           faults' = faults \/ Fault
    PROVE  Counts'
<1>1. faults' = 0 => faults = 0
  BY DEF Fault, TypeInv, TypeOK
<1>2. ASSUME NEW t \in Scans \ {s} PROVE CountOK(t)'
  <2>1. CountOK(t)
    BY DEF Counts
  <2>2. Uncounted(t)' = Uncounted(t)
    BY DEF Uncounted
  <2> QED
    BY <1>1, <2>1, <2>2 DEF CountOK
<1> QED
  BY <1>2 DEF Counts

\* A step of s that counts nothing and finds no new offer.
LEMMA SameCount ==
    ASSUME TypeInv, Counts, NEW s \in Scans,
           job[s].pc # "done",
           FirstSeenBy(s)' = FirstSeenBy(s),
           job'[s].new = job[s].new, job'[s].seen = job[s].seen,
           job'[s].found = job[s].found, job'[s].isNew = job[s].isNew,
           job'[s].isNew => job'[s].pc \in {"point", "insert", "count"},
           scans'[s] = scans[s] \/ scans'[s].open,
           faults' = faults \/ Fault
    PROVE  CountOK(s)'
<1>1. CountOK(s)
  BY DEF Counts
<1>2. faults' = 0 => faults = 0
  BY DEF Fault, TypeInv, TypeOK
<1>3. Uncounted(s)' = Uncounted(s)
  BY DEF Uncounted
<1> QED
  BY <1>1, <1>2, <1>3 DEF CountOK

\* What a write of the listing at hand does to the first-seen sets.
LEMMA FirstSeenWrite ==
    ASSUME TypeInv, NEW s \in Scans, job[s].pc \in Running, job[s].listings # <<>>,
           WriteOffer(s)
    PROVE  /\ \A t \in Scans \ {s} : FirstSeenBy(t)' = FirstSeenBy(t)
           /\ offers[Key(s)] # None => FirstSeenBy(s)' = FirstSeenBy(s)
           /\ offers[Key(s)] = None =>
                 /\ FirstSeenBy(s)' = FirstSeenBy(s) \cup {Key(s)}
                 /\ Key(s) \notin FirstSeenBy(s)
<1> DEFINE row == UpsertedRow(s)
           k == Key(s)
<1>1. k \in Keys /\ row \in OfferRows /\ row # None
  BY AtHand, UpsertedRowType, NoneAssumption
<1>2. row.firstSeen = IF offers[k] = None THEN s ELSE offers[k].firstSeen
  BY DEF UpsertedRow
<1>3. offers' = [offers EXCEPT ![k] = row] /\ offers \in [Keys -> OfferRows \cup {None}]
  BY DEF WriteOffer, TypeInv, TypeOK
<1> HIDE DEF row, k
<1>4. offers'[k] = row /\ \A l \in Keys \ {k} : offers'[l] = offers[l]
  BY <1>1, <1>3
<1>5. \A t \in Scans \ {s} : FirstSeenBy(t)' = FirstSeenBy(t)
  BY <1>1, <1>2, <1>4 DEF FirstSeenBy
<1>6. offers[k] # None => FirstSeenBy(s)' = FirstSeenBy(s)
  BY <1>1, <1>2, <1>4 DEF FirstSeenBy
<1>7. offers[k] = None => FirstSeenBy(s)' = FirstSeenBy(s) \cup {k} /\ k \notin FirstSeenBy(s)
  BY <1>1, <1>2, <1>4 DEF FirstSeenBy
<1> QED
  BY <1>5, <1>6, <1>7 DEF k

\* Counts holds initially: nothing is stored and nothing counted.
LEMMA InitCounts == Init => Counts
<1> SUFFICES ASSUME Init, NEW s \in Scans PROVE CountOK(s)
  BY DEF Counts
<1>1. FirstSeenBy(s) = {}
  BY DEF Init, FirstSeenBy
<1>2. IsFiniteSet(FirstSeenBy(s)) /\ Cardinality(FirstSeenBy(s)) = 0
  BY <1>1, FS_EmptySet
<1> QED
  BY <1>2 DEF Init, CountOK, Uncounted, IdleJob

\* A step that only moves the goroutine along, or opens or annotates its row.
LEMMA QuietCounts ==
    ASSUME TypeInv, Counts, NEW s \in Scans, UNCHANGED <<offers, faults>>,
           \/ \E m \in Marketplaces : Launch(s, m)
           \/ CreateScan(s) \/ ListWatchKeywords(s) \/ ListWatchBlockedWords(s)
           \/ Fetch(s) \/ FetchFails(s) \/ NoFetcher(s) \/ SkipListing(s)
           \/ GetPrevious(s) \/ SkipPricePoint(s) \/ DecidePricePoint(s)
           \/ InsertPricePoint(s)
    PROVE  Counts'
<1>1. /\ job \in [Scans -> Jobs] /\ job[s] \in Jobs
      /\ scans \in [Scans -> ScanRows \cup {None}]
  BY DEF TypeInv, TypeOK
<1>2. \A t \in Scans : FirstSeenBy(t)' = FirstSeenBy(t)
  BY DEF FirstSeenBy
<1>3. CountOK(s)
  BY DEF Counts
<1>4. job[s].pc # "done" /\ \A t \in Scans \ {s} : job'[t] = job[t] /\ scans'[t] = scans[t]
  BY <1>1 DEF Launch, CreateScan, ListWatchKeywords, ListWatchBlockedWords, Fetch, FetchFails,
         NoFetcher, SkipListing, GetPrevious, SkipPricePoint, DecidePricePoint,
         InsertPricePoint, Goto
<1>5. /\ job'[s].new = job[s].new /\ job'[s].seen = job[s].seen
      /\ job'[s].found = job[s].found /\ job'[s].isNew = job[s].isNew
      /\ job'[s].isNew => job'[s].pc \in {"point", "insert", "count"}
  <2>1. CASE SkipListing(s)
    BY <1>1, <1>3, <2>1 DEF SkipListing, Continue, Jobs, CountOK
  <2>2. ASSUME NEW m \in Marketplaces, Launch(s, m)
        PROVE  /\ job'[s].new = job[s].new /\ job'[s].seen = job[s].seen
               /\ job'[s].found = job[s].found /\ job'[s].isNew = job[s].isNew
               /\ ~ job[s].isNew
    BY <1>1, <1>3, <2>2 DEF Launch, Jobs, CountOK
  <2>3. CASE CreateScan(s)
    BY <1>1, <1>3, <2>3 DEF CreateScan, Goto, Jobs, CountOK
  <2>4. CASE ListWatchKeywords(s)
    <3>1. job'[s] = [job[s] EXCEPT !.pc = "blocked",
                                   !.config = [@ EXCEPT !.keywords = watch.keywords]]
      BY <1>1, <2>4 DEF ListWatchKeywords
    <3>2. job[s].pc = "keywords"
      BY <2>4 DEF ListWatchKeywords
    <3> QED
      BY <1>1, <1>3, <3>1, <3>2 DEF Jobs, CountOK
  <2>10. CASE ListWatchBlockedWords(s)
    <3>1. job'[s] = [job[s] EXCEPT !.pc = "fetch",
                                   !.config = [@ EXCEPT !.blocked = watch.blocked]]
      BY <1>1, <2>10 DEF ListWatchBlockedWords
    <3>2. job[s].pc = "blocked"
      BY <2>10 DEF ListWatchBlockedWords
    <3> QED
      BY <1>1, <1>3, <3>1, <3>2 DEF Jobs, CountOK
  <2>5. CASE Fetch(s)
    <3>1. ~ job[s].isNew
      BY <1>3, <2>5 DEF Fetch, CountOK
    <3>2. PICK listings \in Results : job'[s] = [job[s] EXCEPT !.pc = "next", !.listings = listings]
      BY <1>1, <2>5 DEF Fetch
    <3> QED
      BY <1>1, <3>1, <3>2 DEF Jobs
  <2>6. CASE FetchFails(s)
    BY <1>1, <1>3, <2>6 DEF FetchFails, Jobs, CountOK
  <2>11. CASE NoFetcher(s)
    BY <1>1, <1>3, <2>11 DEF NoFetcher, Goto, Jobs, CountOK
  <2>7. CASE GetPrevious(s)
    BY <1>1, <1>3, <2>7 DEF GetPrevious, Jobs, CountOK
  <2>8. CASE SkipPricePoint(s)
    BY <1>1, <1>3, <2>8 DEF SkipPricePoint, Goto, Jobs, CountOK
  <2>9. CASE DecidePricePoint(s) \/ InsertPricePoint(s)
    BY <1>1, <1>3, <2>9 DEF DecidePricePoint, InsertPricePoint, Jobs, CountOK
  <2> QED
    BY <2>1, <2>2, <2>3, <2>4, <2>5, <2>6, <2>7, <2>8, <2>9, <2>10, <2>11
<1>6. scans'[s] = scans[s] \/ scans'[s].open
  <2>1. CASE FetchFails(s)
    <3>1. scans[s] # None /\ job[s].pc = "fetch"
      BY <2>1 DEF FetchFails, TypeInv, WhereItStands, Running
    <3>2. scans[s] \in ScanRows /\ scans[s].open
      BY <1>1, <1>3, <3>1 DEF CountOK, ScanRows
    <3> QED
      BY <1>1, <2>1, <3>2 DEF FetchFails, ScanRows
  <2>2. CASE CreateScan(s)
    BY <1>1, <2>2 DEF CreateScan
  <2>3. CASE ~ FetchFails(s) /\ ~ CreateScan(s)
    BY <2>3 DEF Launch, ListWatchKeywords, ListWatchBlockedWords, Fetch, NoFetcher,
           SkipListing, GetPrevious, SkipPricePoint, DecidePricePoint, InsertPricePoint
  <2> QED
    BY <2>1, <2>2, <2>3
<1>7. CountOK(s)'
  BY <1>2, <1>4, <1>5, <1>6, SameCount
<1> QED
  BY <1>2, <1>4, <1>7, OthersCount

\* UpsertOffer creates a row exactly when is_new tells the scan so.
LEMMA UpsertCounts ==
    ASSUME TypeInv, Counts, NEW s \in Scans, UpsertOffer(s)
    PROVE  Counts'
<1>1. /\ job \in [Scans -> Jobs] /\ job[s] \in Jobs
      /\ job[s].pc = "upsert" /\ job[s].pc \in Running /\ job[s].listings # <<>>
  BY DEF TypeInv, TypeOK, WhereItStands, UpsertOffer, Running, InLoop
<1>2. CountOK(s) /\ ~ job[s].isNew
  BY <1>1 DEF Counts, CountOK
<1>3. /\ job'[s].new = job[s].new /\ job'[s].seen = job[s].seen
      /\ job'[s].found = job[s].found /\ job'[s].pc = "point"
      /\ job'[s].isNew = (offers[Key(s)] = None)
      /\ \A t \in Scans \ {s} : job'[t] = job[t]
      /\ UNCHANGED <<scans, faults>>
  BY <1>1 DEF UpsertOffer, Jobs
<1>4. /\ \A t \in Scans \ {s} : FirstSeenBy(t)' = FirstSeenBy(t)
      /\ offers[Key(s)] # None => FirstSeenBy(s)' = FirstSeenBy(s)
      /\ offers[Key(s)] = None =>
            /\ FirstSeenBy(s)' = FirstSeenBy(s) \cup {Key(s)}
            /\ Key(s) \notin FirstSeenBy(s)
  BY <1>1, FirstSeenWrite DEF UpsertOffer
<1>5. CountOK(s)'
  <2>1. CASE offers[Key(s)] # None
    BY <1>1, <1>2, <1>3, <1>4, <2>1 DEF CountOK, Uncounted
  <2>2. CASE offers[Key(s)] = None
    <3>1. /\ IsFiniteSet(FirstSeenBy(s)')
          /\ Cardinality(FirstSeenBy(s)') = Cardinality(FirstSeenBy(s)) + 1
      BY <1>2, <1>4, <2>2, FS_AddElement DEF CountOK
    <3>2. Uncounted(s) = 0 /\ Uncounted(s)' = 1
      BY <1>2, <1>3, <2>2 DEF Uncounted
    <3>3. Cardinality(FirstSeenBy(s)) \in Nat /\ job[s].new \in Nat
      BY <1>1, <1>2, FS_CardinalityType DEF CountOK, Jobs
    <3> QED
      BY <1>1, <1>2, <1>3, <3>1, <3>2, <3>3 DEF CountOK
  <2> QED
    BY <2>1, <2>2
<1> QED
  BY <1>3, <1>4, <1>5, OthersCount

\* CountAndNotify and NotifyFails differ in the notification only.
LEMMA CountedCounts ==
    ASSUME TypeInv, Counts, NEW s \in Scans, job[s].pc = "count",
           job' = [job EXCEPT ![s] = Continue(Counted(@))],
           UNCHANGED <<offers, scans>>, faults' = faults \/ Fault
    PROVE  Counts'
<1>1. job \in [Scans -> Jobs] /\ job[s] \in Jobs
  BY DEF TypeInv, TypeOK
<1>2. CountOK(s) /\ \A t \in Scans : FirstSeenBy(t)' = FirstSeenBy(t)
  BY DEF Counts, FirstSeenBy
<1>3. /\ job[s].new \in Nat /\ job[s].seen \in Nat /\ job[s].found \in Nat
      /\ Cardinality(FirstSeenBy(s)) \in Nat
  BY <1>1, <1>2, FS_CardinalityType DEF CountOK, Jobs
<1>4. /\ job'[s] = Continue(Counted(job[s]))
      /\ \A t \in Scans \ {s} : job'[t] = job[t]
  BY <1>1
<1>5. /\ job'[s].new = (IF job[s].isNew THEN job[s].new + 1 ELSE job[s].new)
      /\ job'[s].seen = (IF job[s].isNew THEN job[s].seen ELSE job[s].seen + 1)
      /\ job'[s].found = job[s].found + 1
      /\ ~ job'[s].isNew
  BY <1>1, <1>4 DEF Continue, Counted, Jobs
<1>6. faults' = 0 => faults = 0
  BY DEF Fault, TypeInv, TypeOK
<1>7. CountOK(s)'
  BY <1>2, <1>3, <1>5, <1>6 DEF CountOK, Uncounted
<1> QED
  BY <1>2, <1>4, <1>7, OthersCount

\* Marking changes no first-seen scan, and finishing writes what was counted.
LEMMA AfterLoopCounts ==
    ASSUME TypeInv, Counts, NEW s \in Scans
    PROVE  /\ MarkOffersUnavailable(s) => Counts'
           /\ FinishScan(s) => Counts'
<1>1. /\ job \in [Scans -> Jobs] /\ job[s] \in Jobs
      /\ scans \in [Scans -> ScanRows \cup {None}]
      /\ offers \in [Keys -> OfferRows \cup {None}]
      /\ CountOK(s)
  BY DEF TypeInv, TypeOK, Counts
<1>2. ASSUME MarkOffersUnavailable(s) PROVE Counts'
  <2>1. \A k \in Keys : /\ offers'[k] = None <=> offers[k] = None
                        /\ offers[k] # None => offers'[k].firstSeen = offers[k].firstSeen
    <3>1. \A k \in Keys : offers[k] # None =>
             LET row == [offers[k] EXCEPT !.available = FALSE]
             IN  row \in OfferRows /\ row.firstSeen = offers[k].firstSeen
      BY <1>1 DEF OfferRows
    <3> QED
      BY <1>1, <1>2, <3>1, NoneAssumption DEF MarkOffersUnavailable
  <2>2. \A t \in Scans : FirstSeenBy(t)' = FirstSeenBy(t)
    BY <2>1 DEF FirstSeenBy
  <2>3. /\ job[s].pc # "done" /\ UNCHANGED <<scans, faults>>
        /\ job'[s].new = job[s].new /\ job'[s].seen = job[s].seen
        /\ job'[s].found = job[s].found /\ job'[s].isNew = job[s].isNew
        /\ ~ job[s].isNew
        /\ \A t \in Scans \ {s} : job'[t] = job[t]
    BY <1>1, <1>2 DEF MarkOffersUnavailable, Goto, Jobs, CountOK
  <2>4. CountOK(s)'
    BY <2>2, <2>3, SameCount
  <2> QED
    BY <2>2, <2>3, <2>4, OthersCount
<1>3. ASSUME FinishScan(s) PROVE Counts'
  <2>1. \A t \in Scans : FirstSeenBy(t)' = FirstSeenBy(t)
    BY <1>3 DEF FinishScan, FirstSeenBy
  <2>2. /\ job'[s] = [job[s] EXCEPT !.pc = "done"] /\ UNCHANGED faults
        /\ \A t \in Scans \ {s} : job'[t] = job[t] /\ scans'[t] = scans[t]
    BY <1>1, <1>3 DEF FinishScan, Goto
  <2>3. /\ scans'[s].new = job[s].new /\ scans'[s].seen = job[s].seen
        /\ scans'[s].found = job[s].found
    <3>1. scans[s] \in ScanRows
      BY <1>1, <1>3 DEF FinishScan, TypeInv, WhereItStands, Running
    <3> QED
      BY <1>1, <1>3, <3>1 DEF FinishScan, ScanRows
  <2>4. /\ job'[s].new = job[s].new /\ job'[s].seen = job[s].seen /\ job'[s].pc = "done"
        /\ job'[s].found = job[s].found /\ job'[s].isNew = job[s].isNew /\ ~ job[s].isNew
    BY <1>1, <1>3, <2>2 DEF FinishScan, Jobs, CountOK
  <2>5. CountOK(s)'
    BY <1>1, <2>1, <2>2, <2>3, <2>4 DEF CountOK, Uncounted
  <2> QED
    BY <2>1, <2>2, <2>5, OthersCount
<1> QED
  BY <1>2, <1>3

\* A failure may lose a count, and never invents one.
LEMMA FailureCounts ==
    ASSUME TypeInv, Counts, NEW s \in Scans, Failure(s)
    PROVE  Counts'
<1>1. /\ job \in [Scans -> Jobs] /\ job[s] \in Jobs /\ CountOK(s)
      /\ job[s].new \in Nat /\ Uncounted(s) \in {0, 1}
      /\ Cardinality(FirstSeenBy(s)) \in Nat
  BY FS_CardinalityType DEF TypeInv, TypeOK, Counts, CountOK, Jobs, Uncounted
<1>2. Fault /\ faults' # 0
  BY DEF Failure, ReturnError, RecordFailureFails, GetPreviousFails, UpsertFails,
         PricePointFails, NotifyFails, MarkFails, Interrupt, Fault, TypeInv, TypeOK
<1>3. ASSUME UNCHANGED <<offers, scans>>, job[s].pc # "done",
             \A t \in Scans \ {s} : job'[t] = job[t],
             job'[s].new = job[s].new, job'[s].seen = job[s].seen,
             job'[s].found = job[s].found,
             job'[s].isNew => job[s].isNew /\ job'[s].pc \in {"point", "insert", "count"}
      PROVE  Counts'
  <2>1. \A t \in Scans : FirstSeenBy(t)' = FirstSeenBy(t)
    BY <1>3 DEF FirstSeenBy
  <2>2. Uncounted(s)' <= Uncounted(s)
    BY <1>3 DEF Uncounted
  <2>3. CountOK(s)'
    BY <1>1, <1>2, <1>3, <2>1, <2>2 DEF CountOK, Uncounted
  <2> QED
    BY <1>2, <1>3, <2>1, <2>3, OthersCount
<1>4. CASE ReturnError(s)
  BY <1>1, <1>3, <1>4 DEF ReturnError, Abort, Jobs
<1>5. CASE RecordFailureFails(s)
  BY <1>1, <1>3, <1>5 DEF RecordFailureFails, Jobs, CountOK
<1>6. CASE GetPreviousFails(s)
  BY <1>1, <1>3, <1>6 DEF GetPreviousFails, Goto, Jobs, CountOK
<1>7. CASE UpsertFails(s)
  <2>1. job[s].pc = "upsert" /\ job[s].pc \in Running /\ job[s].listings # <<>>
    BY <1>7 DEF UpsertFails, TypeInv, WhereItStands, Running, InLoop
  <2>2. /\ job'[s].new = job[s].new /\ job'[s].seen = job[s].seen
        /\ job'[s].found = job[s].found /\ ~ job'[s].isNew /\ ~ job[s].isNew
        /\ \A t \in Scans \ {s} : job'[t] = job[t]
        /\ UNCHANGED scans
    BY <1>1, <1>7, <2>1 DEF UpsertFails, Continue, Jobs, CountOK
  <2>3. CASE UNCHANGED offers
    BY <1>3, <2>1, <2>2, <2>3
  <2>4. CASE WriteOffer(s)
    <3>1. /\ \A t \in Scans \ {s} : FirstSeenBy(t)' = FirstSeenBy(t)
          /\ \/ FirstSeenBy(s)' = FirstSeenBy(s)
             \/ FirstSeenBy(s)' = FirstSeenBy(s) \cup {Key(s)} /\ Key(s) \notin FirstSeenBy(s)
      BY <2>1, <2>4, FirstSeenWrite
    <3>2. /\ IsFiniteSet(FirstSeenBy(s)')
          /\ Cardinality(FirstSeenBy(s)) <= Cardinality(FirstSeenBy(s)')
          /\ Cardinality(FirstSeenBy(s)') \in Nat
      <4>1. IsFiniteSet(FirstSeenBy(s))
        BY <1>1 DEF CountOK
      <4>2. CASE FirstSeenBy(s)' = FirstSeenBy(s)
        BY <1>1, <4>1, <4>2
      <4>3. CASE FirstSeenBy(s)' = FirstSeenBy(s) \cup {Key(s)} /\ Key(s) \notin FirstSeenBy(s)
        <5>1. /\ IsFiniteSet(FirstSeenBy(s) \cup {Key(s)})
              /\ Cardinality(FirstSeenBy(s) \cup {Key(s)}) = Cardinality(FirstSeenBy(s)) + 1
          BY <4>1, <4>3, FS_AddElement
        <5> QED
          BY <1>1, <4>3, <5>1
      <4> QED
        BY <3>1, <4>2, <4>3
    <3>3. CountOK(s)'
      BY <1>1, <1>2, <2>1, <2>2, <3>2 DEF CountOK, Uncounted
    <3> QED
      BY <1>2, <2>2, <3>1, <3>3, OthersCount
  <2> QED
    BY <1>7, <2>3, <2>4 DEF UpsertFails
<1>8. CASE PricePointFails(s)
  BY <1>1, <1>3, <1>8 DEF PricePointFails, Jobs, CountOK
<1>9. CASE NotifyFails(s)
  BY <1>2, <1>9, CountedCounts DEF NotifyFails
<1>10. CASE MarkFails(s)
  BY <1>1, <1>3, <1>10 DEF MarkFails, Goto, Jobs, CountOK
<1>11. CASE Interrupt(s)
  BY <1>1, <1>3, <1>11 DEF Interrupt, InFlight, Running, InLoop, Abort, Jobs
<1> QED
  BY <1>4, <1>5, <1>6, <1>7, <1>8, <1>9, <1>10, <1>11 DEF Failure

\* The owner's edits touch neither counters nor first-seen scans.
LEMMA UserCounts ==
    ASSUME TypeInv, Counts, User
    PROVE  Counts'
<1>1. \A t \in Scans : FirstSeenBy(t)' = FirstSeenBy(t)
  <2>1. ASSUME NEW k \in Keys, NEW monitored \in BOOLEAN, SetMonitored(k, monitored)
        PROVE  \A t \in Scans : FirstSeenBy(t)' = FirstSeenBy(t)
    <3> DEFINE row == [offers[k] EXCEPT !.monitored = monitored]
    <3>1. row \in OfferRows /\ row.firstSeen = offers[k].firstSeen /\ offers[k] # None
      BY <2>1 DEF SetMonitored, TypeInv, TypeOK, OfferRows
    <3>2. offers'[k] = row /\ \A l \in Keys \ {k} : offers'[l] = offers[l]
      BY <2>1 DEF SetMonitored, TypeInv, TypeOK
    <3> HIDE DEF row
    <3> QED
      BY <3>1, <3>2, NoneAssumption DEF FirstSeenBy
  <2>2. ASSUME NEW config \in WatchConfigs, UpdateWatch(config)
        PROVE  \A t \in Scans : FirstSeenBy(t)' = FirstSeenBy(t)
    BY <2>2 DEF UpdateWatch, FirstSeenBy
  <2> QED
    BY <2>1, <2>2 DEF User
<1>2. UNCHANGED <<job, scans, faults>>
  BY DEF User, SetMonitored, UpdateWatch
<1> QED
  BY <1>1, <1>2 DEF Counts, CountOK, Uncounted

\* Every step preserves Counts.
LEMMA NextCounts == TypeInv /\ Counts /\ [Next]_vars => Counts'
<1> SUFFICES ASSUME TypeInv, Counts, [Next]_vars PROVE Counts'
  OBVIOUS
<1>1. ASSUME NEW s \in Scans, Step(s) PROVE Counts'
  <2>1. CASE UpsertOffer(s)
    BY <2>1, UpsertCounts
  <2>2. CASE CountAndNotify(s)
    BY <2>2, CountedCounts DEF CountAndNotify
  <2>3. CASE MarkOffersUnavailable(s) \/ FinishScan(s)
    BY <2>3, AfterLoopCounts
  <2>4. CASE /\ ~ UpsertOffer(s) /\ ~ CountAndNotify(s)
             /\ ~ MarkOffersUnavailable(s) /\ ~ FinishScan(s)
    <3>1. \/ CreateScan(s) \/ ListWatchKeywords(s) \/ ListWatchBlockedWords(s)
          \/ Fetch(s) \/ FetchFails(s) \/ NoFetcher(s) \/ SkipListing(s)
          \/ GetPrevious(s) \/ SkipPricePoint(s) \/ DecidePricePoint(s)
          \/ InsertPricePoint(s)
      BY <1>1, <2>4 DEF Step
    <3>2. UNCHANGED <<offers, faults>>
      BY <3>1 DEF CreateScan, ListWatchKeywords, ListWatchBlockedWords, Fetch, FetchFails,
             NoFetcher, SkipListing, GetPrevious, SkipPricePoint, DecidePricePoint,
             InsertPricePoint
    <3> QED
      BY <3>1, <3>2, QuietCounts
  <2> QED
    BY <2>1, <2>2, <2>3, <2>4
<1>2. ASSUME NEW s \in Scans, NEW m \in Marketplaces, Launch(s, m) PROVE Counts'
  <2>1. UNCHANGED <<offers, faults>>
    BY <1>2 DEF Launch
  <2> QED
    BY <1>2, <2>1, QuietCounts
<1>3. CASE UNCHANGED vars
  BY <1>3 DEF vars, Counts, CountOK, Uncounted, FirstSeenBy
<1> QED
  BY <1>1, <1>2, <1>3, FailureCounts, UserCounts DEF Next

\* The report of a finished scan counts each offer it was the first to see
\* exactly once, and found = new + seen, however many scans race to create
\* the same row and whatever the owner does; failed statements only lower
\* the number of new offers.
THEOREM ReportsAreExact == Spec => []ReportExact
<1>1. TypeInv /\ Counts => ReportExact
  <2> SUFFICES ASSUME TypeInv, Counts, NEW s \in Scans, scans[s] # None, ~ scans[s].open
               PROVE  /\ scans[s].found = scans[s].new + scans[s].seen
                      /\ scans[s].new <= Cardinality(FirstSeenBy(s))
                      /\ faults = 0 => scans[s].new = Cardinality(FirstSeenBy(s))
    BY DEF ReportExact
  <2>1. CountOK(s)
    BY DEF Counts
  <2>2. Uncounted(s) = 0 /\ job[s].new + 0 = job[s].new
    BY <2>1 DEF CountOK, Uncounted, TypeInv, TypeOK, Jobs
  <2> QED
    BY <2>1, <2>2 DEF CountOK
<1>2. Spec => [](TypeInv /\ Counts)
  <2>1. Init => TypeInv /\ Counts
    BY InitType, InitCounts
  <2>2. TypeInv /\ Counts /\ [Next]_vars => (TypeInv /\ Counts)'
    BY NextType, NextCounts
  <2> QED
    BY <2>1, <2>2, PTL DEF Spec
<1> QED
  BY <1>1, <1>2, PTL

-----------------------------------------------------------------------------
(* The inductive invariant of the offers.                                  *)

\* The configuration of a goroutine and its seenExternalIDs are not final yet.
Early == {"idle", "create", "keywords", "blocked", "fetch"}

AfterUpsert == {"point", "insert", "count"}

\* A listing in the loop body passed the filters.
Filtered == \A s \in Scans : job[s].pc \in InLoop => Accepts(job[s].config, Listing(s).title)

\* The scan that last wrote the row of k had read its configuration, which
\* accepts the title of the row. Unless a statement failed it has recorded the
\* offer as seen, or is about to.
RowOK(k) ==
    offers[k] # None =>
        \E t \in Scans :
            /\ t = offers[k].lastChecked
            /\ job[t].pc \notin Early
            /\ Accepts(job[t].config, offers[k].title)
            /\ faults = 0 =>
                  /\ k[1] = job[t].market
                  /\ \/ k[2] \in job[t].seenIds
                     \/ job[t].pc \in AfterUpsert /\ Key(t) = k

\* An offer without a point has a scan about to insert its first one, unless
\* a statement failed.
FirstPointComes(k) ==
    faults = 0 /\ offers[k] # None /\ points[k] = {} =>
        \E t \in Scans : job[t].pc \in {"point", "insert"} /\ Key(t) = k

OffersInv == Filtered /\ \A k \in Keys : RowOK(k) /\ FirstPointComes(k)

-----------------------------------------------------------------------------
(* What any statement of a goroutine does to its own local state and to the *)
(* tables, as far as OffersInv is concerned.                                *)

\* The listing at hand and the decisions about it stay.
SameListing(s) ==
    /\ job'[s].market = job[s].market
    /\ job'[s].listings = job[s].listings

LocalEffect(s) ==
    /\ \A t \in Scans \ {s} : job'[t] = job[t]
    /\ faults' = 0 => faults = 0
    /\ job[s].pc \notin Early =>
          /\ job'[s].pc \notin Early
          /\ job'[s].config = job[s].config
          /\ job'[s].market = job[s].market
          /\ job[s].seenIds \subseteq job'[s].seenIds
    /\ job'[s].pc \in InLoop =>
          /\ SameListing(s)
          /\ job[s].pc \notin Early
          /\ job[s].pc \in InLoop \/ Accepts(job[s].config, Listing(s).title)
    /\ faults' = 0 /\ job[s].pc \in AfterUpsert =>
          \/ job'[s].pc \in AfterUpsert /\ SameListing(s)
          \/ Listing(s).id \in job'[s].seenIds

PointsEffect(s) ==
    /\ \A k \in Keys : points[k] \subseteq points'[k]
    /\ faults' = 0 /\ job[s].pc \in {"point", "insert"} =>
          \/ job'[s].pc \in {"point", "insert"} /\ SameListing(s)
          \/ points'[Key(s)] # {}

\* The row written is that of the listing at hand.
Writes(s) ==
    /\ job[s].pc = "upsert"
    /\ WriteOffer(s)
    /\ faults' = 0 => job'[s].pc = "point" /\ SameListing(s)

OffersEffect(s) ==
    \/ UNCHANGED offers
    \/ Writes(s)
    \/ MarkOffersUnavailable(s)

Effect(s) == LocalEffect(s) /\ PointsEffect(s) /\ OffersEffect(s)

\* What a launch does to a goroutine.
LEMMA LaunchJob ==
    ASSUME TypeInv, NEW s \in Scans, NEW m \in Marketplaces, Launch(s, m)
    PROVE  /\ job[s].pc = "idle" /\ job'[s].pc = "create" /\ job'[s].market = m
           /\ job'[s].previous = job[s].previous
           /\ job'[s].seenIds = job[s].seenIds
           /\ job'[s].listings = job[s].listings
           /\ \A t \in Scans \ {s} : job'[t] = job[t]
<1> DEFINE c == [job[s].config EXCEPT !.target = watch.target, !.mode = watch.mode]
           j == [job[s] EXCEPT !.pc = "create", !.market = m, !.config = c]
<1>1. job \in [Scans -> Jobs] /\ job[s] \in Jobs
  BY DEF TypeInv, TypeOK
<1>2. job' = [job EXCEPT ![s] = j]
  BY <1>1 DEF Launch, Jobs, Configs
<1>3. /\ j.pc = "create" /\ j.market = m /\ j.previous = job[s].previous
      /\ j.seenIds = job[s].seenIds /\ j.listings = job[s].listings
  BY <1>1 DEF Jobs
<1>4. job[s].pc = "idle"
  BY DEF Launch
<1> HIDE DEF j
<1> QED
  BY <1>1, <1>2, <1>3, <1>4

\* The statements before the loop have these effects.
LEMMA BeforeLoopEffect ==
    ASSUME TypeInv, NEW s \in Scans,
           \/ \E m \in Marketplaces : Launch(s, m)
           \/ CreateScan(s)
           \/ ListWatchKeywords(s)
           \/ ListWatchBlockedWords(s)
           \/ Fetch(s)
           \/ FetchFails(s)
           \/ NoFetcher(s)
    PROVE  Effect(s)
<1>1. /\ job[s].pc \in Early /\ job'[s].pc \notin InLoop
      /\ \A t \in Scans \ {s} : job'[t] = job[t]
  <2>j. job \in [Scans -> Jobs] /\ job[s] \in Jobs
    BY DEF TypeInv, TypeOK
  <2>1. ASSUME NEW m \in Marketplaces, Launch(s, m)
        PROVE  /\ job[s].pc \in Early /\ job'[s].pc \notin InLoop
               /\ \A t \in Scans \ {s} : job'[t] = job[t]
    BY <2>1, LaunchJob DEF Early, InLoop
  <2>2. CASE CreateScan(s) \/ NoFetcher(s)
    BY <2>j, <2>2 DEF CreateScan, NoFetcher, Goto, Early, InLoop, Jobs
  <2>3. CASE ListWatchKeywords(s) \/ ListWatchBlockedWords(s)
    BY <2>j, <2>3 DEF ListWatchKeywords, ListWatchBlockedWords, Early, InLoop, Jobs
  <2>4. CASE Fetch(s) \/ FetchFails(s)
    BY <2>j, <2>4 DEF Fetch, FetchFails, Early, InLoop, Jobs
  <2> QED
    BY <2>1, <2>2, <2>3, <2>4
<1>2. UNCHANGED <<offers, points, faults>>
  BY DEF Launch, CreateScan, ListWatchKeywords, ListWatchBlockedWords, Fetch, FetchFails,
         NoFetcher
<1>3. job[s].pc \notin AfterUpsert
  BY <1>1 DEF Early, AfterUpsert
<1> QED
  BY <1>1, <1>2, <1>3 DEF Effect, LocalEffect, PointsEffect, OffersEffect, AfterUpsert

\* What Continue, Counted and Abort leave.
LEMMA LocalFields ==
    ASSUME NEW j \in Jobs
    PROVE  /\ Continue(j).pc = "next" /\ Abort(j).pc = "aborted"
           /\ Continue(j).config = j.config /\ Abort(j).config = j.config
           /\ Continue(j).market = j.market /\ Abort(j).market = j.market
           /\ Continue(j).seenIds = j.seenIds /\ Abort(j).seenIds = j.seenIds
           /\ Continue(Counted(j)).pc = "next"
           /\ Continue(Counted(j)).config = j.config
           /\ Continue(Counted(j)).market = j.market
           /\ Continue(Counted(j)).seenIds = j.seenIds \cup {Head(j.listings).id}
BY DEF Continue, Abort, Counted, Jobs

\* So do the statements of the loop.
LEMMA LoopEffect ==
    ASSUME TypeInv, NEW s \in Scans,
           \/ SkipListing(s)
           \/ GetPrevious(s)
           \/ UpsertOffer(s)
           \/ SkipPricePoint(s)
           \/ DecidePricePoint(s)
           \/ InsertPricePoint(s)
           \/ CountAndNotify(s)
    PROVE  Effect(s)
<1>j. /\ job \in [Scans -> Jobs] /\ job[s] \in Jobs
      /\ points \in [Keys -> SUBSET PointRows]
      /\ job[s].pc \in InLoop => Key(s) \in Keys
  BY AtHand DEF TypeInv, TypeOK, WhereItStands, Running, InLoop
<1> USE DEF Effect, LocalEffect, PointsEffect, OffersEffect, SameListing, Early, InLoop, AfterUpsert
<1>1. CASE SkipListing(s)
  BY <1>j, <1>1, LocalFields DEF SkipListing
<1>2. CASE GetPrevious(s)
  BY <1>j, <1>2 DEF GetPrevious, Jobs
<1>3. CASE UpsertOffer(s)
  BY <1>j, <1>3 DEF UpsertOffer, Writes, Jobs
<1>4. CASE SkipPricePoint(s)
  <2>1. points'[Key(s)] # {}
    BY <1>4 DEF SkipPricePoint, PriceChanged, LatestPrice
  <2> QED
    BY <1>j, <1>4, <2>1 DEF SkipPricePoint, Goto, Jobs
<1>5. CASE DecidePricePoint(s)
  BY <1>j, <1>5 DEF DecidePricePoint, Jobs
<1>6. CASE InsertPricePoint(s)
  <2>1. /\ points'[Key(s)] # {}
        /\ \A k \in Keys : points[k] \subseteq points'[k]
    BY <1>j, <1>6 DEF InsertPricePoint
  <2> QED
    BY <1>j, <1>6, <2>1 DEF InsertPricePoint, Jobs
<1>7. CASE CountAndNotify(s)
  BY <1>j, <1>7, LocalFields DEF CountAndNotify, Listing
<1> QED
  BY <1>1, <1>2, <1>3, <1>4, <1>5, <1>6, <1>7

\* ... those after it ...
LEMMA AfterLoopEffect ==
    ASSUME TypeInv, NEW s \in Scans, MarkOffersUnavailable(s) \/ FinishScan(s)
    PROVE  Effect(s)
<1>j. job \in [Scans -> Jobs] /\ job[s] \in Jobs
  BY DEF TypeInv, TypeOK
<1>1. UNCHANGED <<points, faults>> /\ OffersEffect(s)
  BY DEF MarkOffersUnavailable, FinishScan, OffersEffect
<1>2. /\ job' = [job EXCEPT ![s].pc = IF job[s].pc = "next" THEN "finish" ELSE "done"]
      /\ job[s].pc \in {"next", "finish"}
  BY DEF MarkOffersUnavailable, FinishScan, Goto
<1> QED
  BY <1>j, <1>1, <1>2 DEF Effect, LocalEffect, PointsEffect, Early, InLoop, AfterUpsert, Jobs

\* ... and the failures.
LEMMA FailureEffect ==
    ASSUME TypeInv, NEW s \in Scans, Failure(s)
    PROVE  Effect(s)
<1>j. job \in [Scans -> Jobs] /\ job[s] \in Jobs
  BY DEF TypeInv, TypeOK
<1>1. faults' # 0 /\ UNCHANGED points
  BY DEF Failure, ReturnError, RecordFailureFails, GetPreviousFails, UpsertFails,
         PricePointFails, NotifyFails, MarkFails, Interrupt, Fault, TypeInv, TypeOK
<1>2. OffersEffect(s)
  BY <1>1 DEF Failure, ReturnError, RecordFailureFails, GetPreviousFails, UpsertFails,
         PricePointFails, NotifyFails, MarkFails, Interrupt, OffersEffect, Writes
<1>3. LocalEffect(s)
  <2> USE DEF LocalEffect, SameListing, Early, InLoop
  <2>1. CASE ReturnError(s) \/ Interrupt(s)
    BY <1>j, <1>1, <2>1, LocalFields DEF ReturnError, Interrupt
  <2>2. CASE UpsertFails(s)
    BY <1>j, <1>1, <2>2, LocalFields DEF UpsertFails
  <2>3. CASE NotifyFails(s)
    BY <1>j, <1>1, <2>3, LocalFields DEF NotifyFails
  <2>4. CASE RecordFailureFails(s)
    BY <1>j, <1>1, <2>4 DEF RecordFailureFails, Jobs
  <2>5. CASE GetPreviousFails(s)
    BY <1>j, <1>1, <2>5 DEF GetPreviousFails, Goto, Jobs
  <2>6. CASE PricePointFails(s)
    BY <1>j, <1>1, <2>6 DEF PricePointFails, Jobs
  <2>7. CASE MarkFails(s)
    BY <1>j, <1>1, <2>7 DEF MarkFails, Goto, Jobs
  <2> QED
    BY <2>1, <2>2, <2>3, <2>4, <2>5, <2>6, <2>7 DEF Failure
<1> QED
  BY <1>1, <1>2, <1>3 DEF Effect, PointsEffect

\* Every step is one of a goroutine with these effects, or the owner's.
LEMMA NextEffect ==
    ASSUME TypeInv, Next
    PROVE  User \/ \E s \in Scans : Effect(s)
BY BeforeLoopEffect, LoopEffect, AfterLoopEffect, FailureEffect DEF Next, Step

-----------------------------------------------------------------------------
(* OffersInv is inductive.                                                 *)

\* OffersInv holds initially.
LEMMA InitOffers == Init => OffersInv
BY DEF Init, OffersInv, Filtered, RowOK, FirstPointComes, IdleJob, InLoop

\* A row that keeps its title and its last writer stays accepted and seen.
LEMMA RowStays ==
    ASSUME NEW s \in Scans, LocalEffect(s), NEW k \in Keys, RowOK(k),
           offers[k] # None,
           offers'[k].lastChecked = offers[k].lastChecked,
           offers'[k].title = offers[k].title
    PROVE  RowOK(k)'
<1>1. PICK t \in Scans :
         /\ t = offers[k].lastChecked
         /\ job[t].pc \notin Early
         /\ Accepts(job[t].config, offers[k].title)
         /\ faults = 0 =>
               /\ k[1] = job[t].market
               /\ \/ k[2] \in job[t].seenIds
                  \/ job[t].pc \in AfterUpsert /\ Key(t) = k
  BY DEF RowOK
<1>2. /\ job'[t].pc \notin Early
      /\ job'[t].config = job[t].config
      /\ job'[t].market = job[t].market
      /\ job[t].seenIds \subseteq job'[t].seenIds
      /\ faults' = 0 => faults = 0
  BY <1>1 DEF LocalEffect
<1>3. ASSUME faults' = 0, k[2] \notin job[t].seenIds
      PROVE  \/ k[2] \in job'[t].seenIds
             \/ job'[t].pc \in AfterUpsert /\ Key(t)' = k
  <2>1. job[t].pc \in AfterUpsert /\ Key(t) = k /\ Listing(t).id = k[2]
    BY <1>1, <1>2, <1>3 DEF Key
  <2>2. CASE t = s
    BY <1>3, <2>1, <2>2 DEF LocalEffect, SameListing, Key, Listing
  <2>3. CASE t # s
    BY <2>1, <2>3 DEF LocalEffect, Key, Listing
  <2> QED
    BY <2>2, <2>3
<1> QED
  BY <1>1, <1>2, <1>3 DEF RowOK

\* Every statement keeps every row accepted and seen.
LEMMA RowsStay ==
    ASSUME TypeInv, OffersInv, NEW s \in Scans, Effect(s), NEW k \in Keys
    PROVE  RowOK(k)'
<1>1. LocalEffect(s) /\ RowOK(k) /\ OffersEffect(s)
  BY DEF Effect, OffersInv
<1>2. CASE UNCHANGED offers
  BY <1>1, <1>2, RowStays DEF RowOK
<1>3. CASE Writes(s)
  <2>1. /\ job[s].pc \in InLoop /\ job[s].pc \in Running /\ job[s].listings # <<>>
        /\ job[s].pc \notin Early
    BY <1>3 DEF Writes, InLoop, Running, Early, TypeInv, WhereItStands
  <2>2. Key(s) \in Keys /\ UpsertedRow(s) \in OfferRows
    BY <2>1, AtHand, UpsertedRowType
  <2>3. offers' = [offers EXCEPT ![Key(s)] = UpsertedRow(s)]
    BY <1>3 DEF Writes, WriteOffer
  <2>4. CASE k = Key(s)
    <3>1. /\ offers'[k].lastChecked = s
          /\ offers'[k].title = Listing(s).title
      BY <2>2, <2>3, <2>4 DEF TypeInv, TypeOK, UpsertedRow
    <3>2. /\ job'[s].pc \notin Early
          /\ Accepts(job'[s].config, offers'[k].title)
      BY <1>1, <2>1, <3>1 DEF LocalEffect, OffersInv, Filtered
    <3>3. faults' = 0 => /\ k[1] = job'[s].market
                         /\ job'[s].pc \in AfterUpsert
                         /\ Key(s)' = k
      BY <1>3, <2>4 DEF Writes, SameListing, Key, Listing, AfterUpsert
    <3> QED
      BY <3>1, <3>2, <3>3 DEF RowOK
  <2>5. CASE k # Key(s)
    <3>1. offers'[k] = offers[k]
      BY <2>2, <2>3, <2>5 DEF TypeInv, TypeOK
    <3> QED
      BY <1>1, <3>1, RowStays DEF RowOK
  <2> QED
    BY <2>4, <2>5
<1>4. CASE MarkOffersUnavailable(s)
  <2>1. CASE offers[k] = None
    BY <1>4, <2>1 DEF MarkOffersUnavailable, RowOK
  <2>2. CASE offers[k] # None
    <3>1. offers[k] \in OfferRows
      BY <2>2 DEF TypeInv, TypeOK
    <3>2. offers'[k] = offers[k] \/ offers'[k] = [offers[k] EXCEPT !.available = FALSE]
      BY <1>4 DEF MarkOffersUnavailable
    <3>3. offers'[k].lastChecked = offers[k].lastChecked /\ offers'[k].title = offers[k].title
      BY <3>1, <3>2 DEF OfferRows
    <3> QED
      BY <1>1, <2>2, <3>3, RowStays
  <2> QED
    BY <2>1, <2>2
<1> QED
  BY <1>1, <1>2, <1>3, <1>4 DEF OffersEffect

\* A first point is either there, or still to come.
LEMMA FirstPointStays ==
    ASSUME TypeInv, OffersInv, NEW s \in Scans, Effect(s), NEW k \in Keys
    PROVE  FirstPointComes(k)'
<1> SUFFICES ASSUME faults' = 0, offers'[k] # None, points'[k] = {}
             PROVE  \E t \in Scans : job'[t].pc \in {"point", "insert"} /\ Key(t)' = k
  BY DEF FirstPointComes
<1>1. LocalEffect(s) /\ PointsEffect(s) /\ OffersEffect(s) /\ FirstPointComes(k)
  BY DEF Effect, OffersInv
<1>2. faults = 0 /\ points[k] = {}
  BY <1>1 DEF LocalEffect, PointsEffect
<1>3. CASE offers[k] # None
  <2>1. PICK t \in Scans : job[t].pc \in {"point", "insert"} /\ Key(t) = k
    BY <1>1, <1>2, <1>3 DEF FirstPointComes
  <2>2. CASE t = s
    BY <1>1, <2>1, <2>2 DEF PointsEffect, SameListing, Key, Listing
  <2>3. CASE t # s
    BY <1>1, <2>1, <2>3 DEF LocalEffect, Key, Listing
  <2> QED
    BY <2>2, <2>3
<1>4. CASE offers[k] = None
  <2>1. Writes(s)
    BY <1>1, <1>4 DEF OffersEffect, MarkOffersUnavailable
  <2>2. k = Key(s)
    BY <1>4, <2>1 DEF Writes, WriteOffer, TypeInv, TypeOK
  <2> QED
    BY <2>1, <2>2 DEF Writes, SameListing, Key, Listing
<1> QED
  BY <1>3, <1>4

\* The owner's edits disturb neither.
LEMMA UserOffers ==
    ASSUME TypeInv, OffersInv, User
    PROVE  OffersInv'
<1>1. UNCHANGED <<job, points, faults>>
  BY DEF User, SetMonitored, UpdateWatch
<1>2. ASSUME NEW k \in Keys
      PROVE  /\ offers'[k] = None <=> offers[k] = None
             /\ offers[k] # None => /\ offers'[k].title = offers[k].title
                                    /\ offers'[k].lastChecked = offers[k].lastChecked
  <2>1. ASSUME NEW l \in Keys, NEW monitored \in BOOLEAN, SetMonitored(l, monitored)
        PROVE  /\ offers'[k] = None <=> offers[k] = None
               /\ offers[k] # None => /\ offers'[k].title = offers[k].title
                                      /\ offers'[k].lastChecked = offers[k].lastChecked
    <3> DEFINE row == [offers[l] EXCEPT !.monitored = monitored]
    <3>1. /\ row \in OfferRows /\ row.title = offers[l].title
          /\ row.lastChecked = offers[l].lastChecked /\ offers[l] # None
      BY <2>1 DEF SetMonitored, TypeInv, TypeOK, OfferRows
    <3>2. offers' = [offers EXCEPT ![l] = row]
      BY <2>1 DEF SetMonitored, TypeInv, TypeOK
    <3> HIDE DEF row
    <3> QED
      BY <3>1, <3>2, NoneAssumption DEF TypeInv, TypeOK
  <2>2. ASSUME NEW config \in WatchConfigs, UpdateWatch(config)
        PROVE  UNCHANGED offers
    BY <2>2 DEF UpdateWatch
  <2> QED
    BY <2>1, <2>2 DEF User
<1>3. ASSUME NEW k \in Keys PROVE RowOK(k)' /\ FirstPointComes(k)'
  <2>1. RowOK(k) /\ FirstPointComes(k)
    BY DEF OffersInv
  <2>2. RowOK(k)'
    BY <1>1, <1>2, <2>1 DEF RowOK, Key, Listing
  <2>3. FirstPointComes(k)'
    BY <1>1, <1>2, <2>1 DEF FirstPointComes, Key, Listing
  <2> QED
    BY <2>2, <2>3
<1>4. Filtered'
  BY <1>1 DEF OffersInv, Filtered, Listing
<1> QED
  BY <1>3, <1>4 DEF OffersInv

\* Every step preserves OffersInv.
LEMMA NextOffers == TypeInv /\ OffersInv /\ [Next]_vars => OffersInv'
<1> SUFFICES ASSUME TypeInv, OffersInv, [Next]_vars PROVE OffersInv'
  OBVIOUS
<1>1. ASSUME NEW s \in Scans, Effect(s) PROVE OffersInv'
  <2>1. Filtered'
    BY <1>1 DEF Effect, LocalEffect, SameListing, OffersInv, Filtered, Listing
  <2> QED
    BY <1>1, <2>1, RowsStay, FirstPointStays DEF OffersInv
<1>2. CASE UNCHANGED vars
  BY <1>2 DEF vars, OffersInv, Filtered, RowOK, FirstPointComes, Key, Listing
<1> QED
  BY <1>1, <1>2, NextEffect, UserOffers

\* It holds in every state.
LEMMA AlwaysOffers == Spec => [](TypeInv /\ OffersInv)
<1>1. Init => TypeInv /\ OffersInv
  BY InitType, InitOffers
<1>2. TypeInv /\ OffersInv /\ [Next]_vars => (TypeInv /\ OffersInv)'
  BY NextType, NextOffers
<1> QED
  BY <1>1, <1>2, PTL DEF Spec

-----------------------------------------------------------------------------
(* The theorems.                                                           *)

\* What the owner excludes is never stored, whichever scans overlap, whatever
\* fails and whenever the owner edits the watch: the row's last writer read a
\* configuration that accepts the row's title (runner.go:49-56, 134-146, 170).
THEOREM FilterIsKept == Spec => []StoredOffersPassTheFilter
<1>1. TypeInv /\ OffersInv => StoredOffersPassTheFilter
  <2> SUFFICES ASSUME TypeInv, OffersInv, NEW k \in Keys, offers[k] # None,
                      NEW config, config = job[offers[k].lastChecked].config
               PROVE  /\ offers[k].title \cap (config.blocked \ {EmptyTerm}) = {}
                      /\ config.mode = "all" =>
                            config.keywords \ {EmptyTerm} \subseteq offers[k].title
    BY DEF StoredOffersPassTheFilter
  <2>1. Accepts(config, offers[k].title)
    BY DEF OffersInv, RowOK
  <2> QED
    BY <2>1 DEF Accepts, ContainsBlockedWord, MatchesAllKeywords, Contains
<1> QED
  BY <1>1, AlwaysOffers, PTL

\* An offer without a price point has a scan about to insert its first one,
\* unless a statement failed (runner.go:170-192).
THEOREM HistoryFollows == Spec => []EveryOfferHasHistory
<1>1. TypeInv /\ OffersInv => EveryOfferHasHistory
  BY DEF OffersInv, FirstPointComes, EveryOfferHasHistory
<1> QED
  BY <1>1, AlwaysOffers, PTL

\* A scan's statement deletes no row, changes neither who saw an offer first
\* nor the owner's flag, and writes its own marketplace only.
LEMMA ScanKeepsOwners ==
    ASSUME TypeInv, NEW s \in Scans, Effect(s), NEW k \in Keys, offers[k] # None
    PROVE  /\ offers'[k] # None
           /\ offers'[k].firstSeen = offers[k].firstSeen
           /\ offers'[k].monitored = offers[k].monitored
           /\ offers'[k] # offers[k] => InFlight(s) /\ job[s].market = k[1]
<1>1. offers[k] \in OfferRows
  BY DEF TypeInv, TypeOK
<1>2. CASE UNCHANGED offers
  BY <1>2
<1>3. CASE Writes(s)
  <2>1. /\ job[s].pc \in Running /\ job[s].listings # <<>>
        /\ offers' = [offers EXCEPT ![Key(s)] = UpsertedRow(s)]
    BY <1>3 DEF Writes, WriteOffer, InLoop, Running, TypeInv, WhereItStands
  <2>2. Key(s) \in Keys /\ UpsertedRow(s) \in OfferRows
    BY <2>1, AtHand, UpsertedRowType
  <2>3. CASE k = Key(s)
    <3>1. offers'[k] = UpsertedRow(s)
      BY <2>1, <2>2, <2>3 DEF TypeInv, TypeOK
    <3>2. /\ UpsertedRow(s).firstSeen = offers[k].firstSeen
          /\ UpsertedRow(s).monitored = offers[k].monitored
      BY <2>3 DEF UpsertedRow
    <3> QED
      BY <2>1, <2>2, <2>3, <3>1, <3>2, NoneAssumption DEF InFlight, Key
  <2>4. CASE k # Key(s)
    BY <2>1, <2>2, <2>4 DEF TypeInv, TypeOK
  <2> QED
    BY <2>3, <2>4
<1>4. CASE MarkOffersUnavailable(s)
  <2>1. \/ offers'[k] = offers[k]
        \/ offers'[k] = [offers[k] EXCEPT !.available = FALSE] /\ k[1] = job[s].market
    BY <1>4 DEF MarkOffersUnavailable
  <2>2. InFlight(s)
    BY <1>4 DEF MarkOffersUnavailable, InFlight, Running
  <2>3. LET row == [offers[k] EXCEPT !.available = FALSE]
        IN  /\ row \in OfferRows
            /\ row.firstSeen = offers[k].firstSeen
            /\ row.monitored = offers[k].monitored
    BY <1>1 DEF OfferRows
  <2> QED
    BY <1>1, <2>1, <2>2, <2>3, NoneAssumption
<1> QED
  BY <1>2, <1>3, <1>4 DEF Effect, OffersEffect

\* The owner's flag is the only thing the owner's edits change.
LEMMA OwnerKeepsRows ==
    ASSUME TypeInv, User, NEW k \in Keys
    PROVE  /\ UNCHANGED <<job, points>>
           /\ offers[k] # None => /\ offers'[k] # None
                                  /\ offers'[k].firstSeen = offers[k].firstSeen
                                  /\ offers'[k].available = offers[k].available
<1>1. ASSUME NEW l \in Keys, NEW monitored \in BOOLEAN, SetMonitored(l, monitored),
             offers[k] # None
      PROVE  /\ offers'[k] # None
             /\ offers'[k].firstSeen = offers[k].firstSeen
             /\ offers'[k].available = offers[k].available
  <2> DEFINE row == [offers[l] EXCEPT !.monitored = monitored]
  <2>1. /\ row \in OfferRows /\ row.firstSeen = offers[l].firstSeen
        /\ row.available = offers[l].available
    BY <1>1 DEF SetMonitored, TypeInv, TypeOK, OfferRows
  <2>2. offers' = [offers EXCEPT ![l] = row]
    BY <1>1 DEF SetMonitored, TypeInv, TypeOK
  <2> HIDE DEF row
  <2> QED
    BY <1>1, <2>1, <2>2, NoneAssumption DEF TypeInv, TypeOK
<1>2. ASSUME NEW config \in WatchConfigs, UpdateWatch(config) PROVE UNCHANGED offers
  BY <1>2 DEF UpdateWatch
<1>3. UNCHANGED <<job, points>>
  BY DEF User, SetMonitored, UpdateWatch
<1> QED
  BY <1>1, <1>2, <1>3 DEF User

\* A rescan never undoes what belongs to others, whichever scans overlap: no
\* row or point is deleted, first_seen_scan_id and monitored stay, and a row
\* only changes while a scan of its marketplace is in flight
\* (UpsertOffer's ON CONFLICT list, MarkOffersUnavailableNotInForMarketplace).
THEOREM OwnersRowsStay == Spec => RescanPreservesOwnersRows
<1> DEFINE A == \A k \in Keys :
                   /\ points[k] \subseteq points'[k]
                   /\ offers[k] # None =>
                         /\ offers'[k] # None
                         /\ offers'[k].firstSeen = offers[k].firstSeen
                         /\ job' # job =>
                               /\ offers'[k].monitored = offers[k].monitored
                               /\ offers'[k] # offers[k] =>
                                     \E s \in Scans : InFlight(s) /\ job[s].market = k[1]
<1>1. ASSUME TypeInv, NEW s \in Scans, Effect(s) PROVE A
  BY <1>1, ScanKeepsOwners DEF Effect, PointsEffect
<1>2. ASSUME TypeInv, User PROVE A
  BY <1>2, OwnerKeepsRows
<1>3. TypeInv /\ [Next]_vars => [A]_vars
  <2> HIDE DEF A
  <2> QED
    BY <1>1, <1>2, NextEffect
<1>4. RescanPreservesOwnersRows <=> [][A]_vars
  BY DEF RescanPreservesOwnersRows
<1> HIDE DEF A
<1> QED
  BY <1>3, <1>4, AlwaysTyped, PTL DEF Spec

\* A scan hides no offer it has itself just stored, whichever scans overlap,
\* unless a statement failed (runner.go:170-183, 216, 221-227).
THEOREM OwnOffersStayVisible == Spec => NoScanHidesItsOwnOffers
<1> DEFINE A == \A k \in Keys, s \in Scans :
                   /\ faults = 0
                   /\ offers[k] # None /\ offers[k].available /\ ~ offers'[k].available
                   /\ job'[s] # job[s]
                   => offers[k].lastChecked # s
<1>1. ASSUME TypeInv, OffersInv, NEW s \in Scans, Effect(s) PROVE A
  <2> SUFFICES ASSUME NEW k \in Keys, NEW t \in Scans, faults = 0,
                      offers[k] # None, offers[k].available, ~ offers'[k].available,
                      job'[t] # job[t], offers[k].lastChecked = t
               PROVE  FALSE
    OBVIOUS
  <2>1. t = s
    BY <1>1 DEF Effect, LocalEffect
  <2>2. /\ k[1] = job[s].market
        /\ \/ k[2] \in job[s].seenIds
           \/ job[s].pc \in AfterUpsert
    BY <1>1, <2>1 DEF OffersInv, RowOK
  <2>3. CASE UNCHANGED offers
    BY <2>3
  <2>4. CASE Writes(s)
    <3>1. /\ job[s].pc \in Running /\ job[s].listings # <<>>
          /\ offers' = [offers EXCEPT ![Key(s)] = UpsertedRow(s)]
      BY <1>1, <2>4 DEF Writes, WriteOffer, InLoop, Running, TypeInv, WhereItStands
    <3>2. Key(s) \in Keys
      BY <1>1, <3>1, AtHand
    <3>3. UpsertedRow(s).available
      BY DEF UpsertedRow
    <3> QED
      BY <1>1, <3>1, <3>2, <3>3 DEF TypeInv, TypeOK
  <2>5. CASE MarkOffersUnavailable(s)
    BY <2>2, <2>5 DEF MarkOffersUnavailable, AfterUpsert
  <2> QED
    BY <1>1, <2>3, <2>4, <2>5 DEF Effect, OffersEffect
<1>2. ASSUME TypeInv, User PROVE A
  BY <1>2, OwnerKeepsRows
<1>3. TypeInv /\ OffersInv /\ [Next]_vars => [A]_vars
  <2> HIDE DEF A
  <2> QED
    BY <1>1, <1>2, NextEffect
<1>4. NoScanHidesItsOwnOffers <=> [][A]_vars
  BY DEF NoScanHidesItsOwnOffers
<1> HIDE DEF A
<1> QED
  BY <1>3, <1>4, AlwaysOffers, PTL DEF Spec

-----------------------------------------------------------------------------
(* How a scan ends. That its steps are taken, as FairSpec asks, is left to *)
(* the checks; here is what makes each of them lead on, with lists of any  *)
(* length and whatever fails.                                              *)

Looping == {"next"} \cup InLoop

\* How far it is from the end, ...
Phase(j) ==
    IF j.pc \in Looping THEN 2
    ELSE CASE j.pc = "idle"     -> 7
           [] j.pc = "create"   -> 6
           [] j.pc = "keywords" -> 5
           [] j.pc = "blocked"  -> 4
           [] j.pc = "fetch"    -> 3
           [] j.pc = "finish"   -> 1
           [] OTHER             -> 0

\* ... and in the loop, from the end of its body.
LeftOfBody(j) ==
    CASE j.pc = "next"   -> 5
      [] j.pc = "upsert" -> 4
      [] j.pc = "point"  -> 3
      [] j.pc = "insert" -> 2
      [] j.pc = "count"  -> 1
      [] OTHER           -> 0

\* A later phase, a listing less, or a later statement about the same listing.
LeadsOn(j, k) ==
    \/ Phase(k) < Phase(j)
    \/ /\ Phase(k) = Phase(j)
       /\ \/ Len(k.listings) < Len(j.listings)
          \/ k.listings = j.listings /\ LeftOfBody(k) < LeftOfBody(j)

\* To a later phase, if only since the scan is given up, ...
Onwards ==
    {<<"idle", "create">>, <<"create", "keywords">>, <<"keywords", "blocked">>,
     <<"blocked", "fetch">>, <<"fetch", "next">>, <<"next", "finish">>, <<"finish", "done">>}
    \cup Running \X {"aborted"}

\* ... and within the body.
DownTheBody ==
    {<<"next", "upsert">>, <<"upsert", "point">>, <<"point", "count">>, <<"point", "insert">>,
     <<"insert", "count">>}

\* The row of a scan is closed when it is done, with the counts it has
\* then, and never before: a scan that was cut does not look like one that ended.
ClosedWhenDone ==
    \A s \in Scans :
        /\ job[s].pc = "done" => scans[s] # None
        /\ scans[s] # None => (~ scans[s].open <=> job[s].pc = "done")
        /\ job[s].pc = "done" => /\ scans[s].status = job[s].status
                                 /\ scans[s].found = job[s].found
                                 /\ scans[s].new = job[s].new
                                 /\ scans[s].seen = job[s].seen

\* A list gets shorter by the listing at its head.
LEMMA TailIsShorter ==
    ASSUME NEW l \in Seq(Listings), l # <<>>
    PROVE  Len(Tail(l)) < Len(l)
OBVIOUS

\* Continue ends the body, for this listing.
LEMMA ContinueLeadsOn ==
    ASSUME NEW j \in Jobs, NEW k \in Jobs, j.pc \in Looping, j.listings # <<>>,
           k.pc = "next", k.listings = Tail(j.listings)
    PROVE  LeadsOn(j, k)
<1>1. Len(k.listings) < Len(j.listings)
  BY TailIsShorter DEF Jobs
<1>2. Phase(k) = 2 /\ Phase(j) = 2
  BY DEF Phase, Looping
<1> QED
  BY <1>1, <1>2 DEF LeadsOn

\* Another phase, or another statement of the body.
LEMMA StatementLeadsOn ==
    ASSUME NEW j, NEW k,
           \/ <<j.pc, k.pc>> \in Onwards
           \/ <<j.pc, k.pc>> \in DownTheBody /\ k.listings = j.listings
    PROVE  LeadsOn(j, k)
BY DEF LeadsOn, Phase, LeftOfBody, Onwards, DownTheBody, Looping, InLoop, Running, Ended

\* A launch and every statement of a scan, failed ones too, lead it on.
LEMMA ScanLeadsOn ==
    ASSUME TypeInv, NEW s \in Scans,
           (\E m \in Marketplaces : Launch(s, m)) \/ Step(s) \/ Failure(s)
    PROVE  /\ LeadsOn(job[s], job'[s])
           /\ \A t \in Scans \ {s} : job'[t] = job[t]
<1>j. job \in [Scans -> Jobs] /\ job[s] \in Jobs /\ job[s].listings \in Seq(Listings)
  BY DEF TypeInv, TypeOK, Jobs
<1>l. job[s].pc \in Looping /\ job[s].listings # <<>> =>
        /\ Continue(job[s]) \in Jobs
        /\ Continue(job[s]).pc = "next"
        /\ Continue(job[s]).listings = Tail(job[s].listings)
        /\ Continue(Counted(job[s])) \in Jobs
        /\ Continue(Counted(job[s])).pc = "next"
        /\ Continue(Counted(job[s])).listings = Tail(job[s].listings)
  <2> SUFFICES ASSUME job[s].pc \in Looping, job[s].listings # <<>>
               PROVE  /\ Continue(job[s]) \in Jobs
                      /\ Continue(job[s]).listings = Tail(job[s].listings)
                      /\ Continue(Counted(job[s])) \in Jobs
                      /\ Continue(Counted(job[s])).listings = Tail(job[s].listings)
    BY <1>j, LocalFields
  <2>1. /\ Tail(job[s].listings) \in Seq(Listings)
        /\ Head(job[s].listings) \in Listings
    BY <1>j
  <2>2. Counted(job[s]) \in Jobs /\ Counted(job[s]).listings = job[s].listings
    BY <1>j, <2>1, CountedType
  <2>3. \A j \in Jobs : Continue(j).listings = Tail(j.listings)
    BY DEF Continue, Jobs
  <2> QED
    BY <1>j, <2>1, <2>2, <2>3, ContinueType
<1>c. ASSUME job[s].pc \in Looping, job[s].listings # <<>>,
             \/ job' = [job EXCEPT ![s] = Continue(@)]
             \/ job' = [job EXCEPT ![s] = Continue(Counted(@))]
      PROVE  LeadsOn(job[s], job'[s]) /\ \A t \in Scans \ {s} : job'[t] = job[t]
  BY <1>j, <1>l, <1>c, ContinueLeadsOn
<1>1. ASSUME NEW m \in Marketplaces, Launch(s, m)
      PROVE  LeadsOn(job[s], job'[s]) /\ \A t \in Scans \ {s} : job'[t] = job[t]
  <2>1. <<job[s].pc, job'[s].pc>> \in Onwards /\ \A t \in Scans \ {s} : job'[t] = job[t]
    BY <1>1, LaunchJob DEF Onwards
  <2> QED
    BY <2>1, StatementLeadsOn
<1>2. CASE CreateScan(s) \/ NoFetcher(s) \/ MarkOffersUnavailable(s) \/ FinishScan(s)
           \/ MarkFails(s) \/ GetPreviousFails(s) \/ SkipPricePoint(s)
  <2>1. job'[s].listings = job[s].listings /\ \A t \in Scans \ {s} : job'[t] = job[t]
    BY <1>j, <1>2 DEF CreateScan, NoFetcher, MarkOffersUnavailable, FinishScan, MarkFails,
       GetPreviousFails, SkipPricePoint, Goto, Jobs
  <2>2. <<job[s].pc, job'[s].pc>> \in Onwards \cup DownTheBody
    BY <1>j, <1>2 DEF Onwards, DownTheBody, CreateScan, NoFetcher, MarkOffersUnavailable, FinishScan, MarkFails,
       GetPreviousFails, SkipPricePoint, Goto, Jobs
  <2> QED
    BY <2>1, <2>2, StatementLeadsOn
<1>3. CASE ListWatchKeywords(s) \/ ListWatchBlockedWords(s) \/ Fetch(s) \/ FetchFails(s)
           \/ RecordFailureFails(s)
  <2>1. <<job[s].pc, job'[s].pc>> \in Onwards /\ \A t \in Scans \ {s} : job'[t] = job[t]
    BY <1>j, <1>3 DEF Onwards, ListWatchKeywords, ListWatchBlockedWords, Fetch, FetchFails,
       RecordFailureFails, Jobs
  <2> QED
    BY <2>1, StatementLeadsOn
<1>4. CASE GetPrevious(s) \/ UpsertOffer(s) \/ DecidePricePoint(s) \/ InsertPricePoint(s)
           \/ PricePointFails(s)
  <2>1. /\ <<job[s].pc, job'[s].pc>> \in DownTheBody
        /\ job'[s].listings = job[s].listings
        /\ \A t \in Scans \ {s} : job'[t] = job[t]
    BY <1>j, <1>4 DEF DownTheBody, GetPrevious, UpsertOffer, DecidePricePoint, InsertPricePoint,
       PricePointFails, Jobs
  <2> QED
    BY <2>1, StatementLeadsOn
<1>5. CASE SkipListing(s) \/ CountAndNotify(s) \/ UpsertFails(s) \/ NotifyFails(s)
  <2>1. job[s].pc \in Looping /\ job[s].listings # <<>>
    BY <1>5 DEF SkipListing, CountAndNotify, UpsertFails, NotifyFails, Looping, InLoop,
       Running, TypeInv, WhereItStands
  <2> QED
    BY <1>c, <1>5, <2>1 DEF SkipListing, CountAndNotify, UpsertFails, NotifyFails
<1>6. CASE ReturnError(s) \/ Interrupt(s)
  <2>1. <<job[s].pc, job'[s].pc>> \in Onwards /\ \A t \in Scans \ {s} : job'[t] = job[t]
    BY <1>j, <1>6, LocalFields DEF Onwards, ReturnError, Interrupt, InFlight, Running
  <2> QED
    BY <2>1, StatementLeadsOn
<1> QED
  BY <1>1, <1>2, <1>3, <1>4, <1>5, <1>6 DEF Step, Failure

\* The owner leaves the scans alone.
LEMMA UserLeavesScans == User => UNCHANGED <<job, scans>>
BY DEF User, SetMonitored, UpdateWatch

\* Whatever overlaps and whatever fails, each statement leads its scan on to a later
\* phase, or to a later listing or statement of the loop: none is executed
\* again, and a list of any length comes to an end (runner.go:113-256).
THEOREM StatementsLeadOn ==
    Spec => [][\A s \in Scans : job'[s] # job[s] => LeadsOn(job[s], job'[s])]_vars
<1> DEFINE A == \A s \in Scans : job'[s] # job[s] => LeadsOn(job[s], job'[s])
<1>1. TypeInv /\ [Next]_vars => [A]_vars
  <2> SUFFICES ASSUME TypeInv, Next PROVE A
    OBVIOUS
  <2>1. CASE User
    BY <2>1, UserLeavesScans
  <2>2. ASSUME NEW s \in Scans,
               (\E m \in Marketplaces : Launch(s, m)) \/ Step(s) \/ Failure(s)
        PROVE  A
    BY <2>2, ScanLeadsOn
  <2> QED
    BY <2>1, <2>2 DEF Next
<1> HIDE DEF A
<1>2. Spec => [][A]_vars
  BY <1>1, AlwaysTyped, PTL DEF Spec
<1> QED
  BY <1>2 DEF A

\* What a statement of one scan does to its row.
RowFollows(s) ==
    /\ \A t \in Scans \ {s} : job'[t] = job[t] /\ scans'[t] = scans[t]
    /\ job[s].pc # "done"
    /\ \/ /\ job'[s].pc # "done"
          /\ \/ scans'[s] = scans[s]
             \/ scans'[s] # None /\ scans'[s].open
       \/ FinishScan(s)

\* Only FinishScan closes it, and only at the end.
LEMMA StepRow ==
    ASSUME TypeInv, ClosedWhenDone, NEW s \in Scans,
           (\E m \in Marketplaces : Launch(s, m)) \/ Step(s) \/ Failure(s)
    PROVE  RowFollows(s)
<1>j. /\ job \in [Scans -> Jobs] /\ job[s] \in Jobs
      /\ scans \in [Scans -> ScanRows \cup {None}]
      /\ job[s].pc \in Running \ {"create"} => scans[s] \in ScanRows
      /\ scans[s] # None /\ job[s].pc # "done" => scans[s].open
  BY DEF TypeInv, TypeOK, WhereItStands, ClosedWhenDone, ScanRows
<1> USE DEF RowFollows
<1>1. ASSUME NEW m \in Marketplaces, Launch(s, m) PROVE RowFollows(s)
  BY <1>1, LaunchJob DEF Launch
<1>2. CASE CreateScan(s)
  <2> DEFINE row == [open |-> TRUE, status |-> "success", found |-> 0, new |-> 0, seen |-> 0,
                     failure |-> FALSE]
  <2>1. /\ job' = [job EXCEPT ![s].pc = "keywords"] /\ job[s].pc = "create"
        /\ \A t \in Scans \ {s} : scans'[t] = scans[t]
        /\ scans'[s] = row
    BY <1>j, <1>2 DEF CreateScan, Goto
  <2>2. row \in ScanRows /\ row.open
    BY DEF ScanRows
  <2> HIDE DEF row
  <2>3. scans'[s] # None /\ scans'[s].open
    BY <2>1, <2>2, NoneAssumption
  <2> QED
    BY <1>j, <2>1, <2>3 DEF Jobs
<1>3. CASE FetchFails(s)
  <2>1. /\ job'[s].pc = "next" /\ job[s].pc = "fetch"
        /\ \A t \in Scans \ {s} : job'[t] = job[t] /\ scans'[t] = scans[t]
        /\ scans'[s] = [scans[s] EXCEPT !.failure = TRUE]
    BY <1>j, <1>3 DEF FetchFails, Jobs
  <2>2. scans[s] \in ScanRows /\ scans[s].open
    BY <1>j, <2>1, NoneAssumption DEF Running
  <2>3. scans'[s] # None /\ scans'[s].open
    BY <2>1, <2>2, NoneAssumption DEF ScanRows
  <2> QED
    BY <2>1, <2>3
<1>4. CASE FinishScan(s)
  BY <1>j, <1>4 DEF FinishScan, Goto
<1>5. ASSUME UNCHANGED scans, job[s].pc # "done", job'[s].pc # "done",
             \A t \in Scans \ {s} : job'[t] = job[t]
      PROVE  RowFollows(s)
  BY <1>5
<1>6. CASE ListWatchKeywords(s) \/ ListWatchBlockedWords(s) \/ Fetch(s) \/ NoFetcher(s)
           \/ GetPrevious(s) \/ UpsertOffer(s)
  BY <1>j, <1>5, <1>6 DEF ListWatchKeywords, ListWatchBlockedWords, Fetch, NoFetcher,
     GetPrevious, UpsertOffer, Goto, Jobs
<1>7. CASE SkipPricePoint(s) \/ DecidePricePoint(s) \/ InsertPricePoint(s)
           \/ MarkOffersUnavailable(s)
  BY <1>j, <1>5, <1>7 DEF SkipPricePoint, DecidePricePoint, InsertPricePoint,
     MarkOffersUnavailable, Goto, Jobs
<1>8. CASE SkipListing(s) \/ CountAndNotify(s) \/ UpsertFails(s) \/ NotifyFails(s)
  BY <1>j, <1>5, <1>8, LocalFields DEF SkipListing, CountAndNotify, UpsertFails, NotifyFails
<1>9. CASE ReturnError(s) \/ Interrupt(s)
  BY <1>j, <1>5, <1>9, LocalFields DEF ReturnError, Interrupt, InFlight, Running, InLoop
<1>10. CASE RecordFailureFails(s) \/ GetPreviousFails(s) \/ PricePointFails(s) \/ MarkFails(s)
  BY <1>j, <1>5, <1>10 DEF RecordFailureFails, GetPreviousFails, PricePointFails, MarkFails,
     Goto, Jobs
<1> QED
  BY <1>1, <1>2, <1>3, <1>4, <1>6, <1>7, <1>8, <1>9, <1>10 DEF Step, Failure

\* The row of a scan tells when it has ended, and what it counted: it is closed in the
\* one step that ends the scan, so that of a scan cut before stays open, and a
\* closed one has the totals of the whole loop (runner.go:239-256).
THEOREM RowsTellTheEnd == Spec => []ClosedWhenDone
<1>1. Init => ClosedWhenDone
  BY DEF Init, ClosedWhenDone, IdleJob
<1>2. ASSUME TypeInv, ClosedWhenDone, [Next]_vars PROVE ClosedWhenDone'
  <2>1. CASE User \/ UNCHANGED vars
    BY <1>2, <2>1, UserLeavesScans DEF vars, ClosedWhenDone
  <2>2. ASSUME NEW s \in Scans,
               (\E m \in Marketplaces : Launch(s, m)) \/ Step(s) \/ Failure(s)
        PROVE  ClosedWhenDone'
    <3>1. RowFollows(s)
      BY <1>2, <2>2, StepRow
    <3>2. CASE ~ FinishScan(s)
      BY <1>2, <3>1, <3>2 DEF RowFollows, ClosedWhenDone
    <3>3. CASE FinishScan(s)
      <4>1. /\ job \in [Scans -> Jobs] /\ job[s] \in Jobs
            /\ scans \in [Scans -> ScanRows \cup {None}]
            /\ scans[s] \in ScanRows
        BY <1>2, <3>3 DEF FinishScan, TypeInv, TypeOK, WhereItStands, Running
      <4> DEFINE row == [scans[s] EXCEPT !.open = FALSE, !.status = job[s].status,
                                         !.found = job[s].found, !.new = job[s].new,
                                         !.seen = job[s].seen]
      <4>2. scans' = [scans EXCEPT ![s] = row] /\ job' = [job EXCEPT ![s].pc = "done"]
        BY <4>1, <3>3 DEF FinishScan, Goto
      <4>3. /\ row \in ScanRows /\ row.open = FALSE /\ row.status = job[s].status
            /\ row.found = job[s].found /\ row.new = job[s].new /\ row.seen = job[s].seen
        BY <4>1 DEF ScanRows, Jobs
      <4> HIDE DEF row
      <4>4. /\ job'[s].pc = "done" /\ job'[s].status = job[s].status
            /\ job'[s].found = job[s].found /\ job'[s].new = job[s].new
            /\ job'[s].seen = job[s].seen
            /\ scans'[s] = row
        BY <4>1, <4>2 DEF Jobs
      <4>5. row # None
        BY <4>3, NoneAssumption
      <4> QED
        BY <1>2, <3>1, <4>3, <4>4, <4>5 DEF RowFollows, ClosedWhenDone
    <3> QED
      BY <3>2, <3>3
  <2> QED
    BY <1>2, <2>1, <2>2 DEF Next
<1> QED
  BY <1>1, <1>2, AlwaysTyped, PTL DEF Spec
=============================================================================
