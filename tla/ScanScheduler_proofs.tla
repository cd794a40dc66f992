------------------------ MODULE ScanScheduler_proofs ------------------------
(***************************************************************************)
(* Proofs about ScanScheduler for every set of watches, owners,            *)
(* marketplaces and intervals and any number of goroutines and faults.     *)
(***************************************************************************)
EXTENDS ScanScheduler, TLAPS

-----------------------------------------------------------------------------
(* Types.                                                                  *)

\* A new schedule is typed.
LEMMA ScheduleType ==
    ASSUME NEW w \in Watches, NEW names, wait \in [Keys -> Nat \cup {None}], Schedule(w, names)
    PROVE  wait' \in [Keys -> Nat \cup {None}]
BY DEF Schedule

\* Moving the goroutines of a watch to the stale ones keeps the counts typed.
LEMMA OutdateType ==
    ASSUME TypeOK, NEW w \in Watches, Outdate(w)
    PROVE  /\ running' \in [Keys -> Nat]
           /\ stale' \in [Keys -> Nat]
           /\ scanned' \subseteq Keys
<1>1. \A k \in Keys : running[k] \in Nat /\ stale[k] \in Nat /\ stale[k] + running[k] \in Nat
  BY DEF TypeOK
<1> QED
  BY <1>1 DEF Outdate, TypeOK

\* One goroutine more, or one less where there is one, is a number again.
LEMMA CountType ==
    ASSUME NEW f \in [Keys -> Nat], NEW k \in Keys
    PROVE  /\ f[k] > 0 => [f EXCEPT ![k] = @ - 1] \in [Keys -> Nat]
           /\ \A S \in SUBSET Keys :
                 [j \in Keys |-> IF j \in S THEN f[j] + 1 ELSE f[j]] \in [Keys -> Nat]
<1>1. f[k] > 0 => f[k] - 1 \in Nat
  OBVIOUS
<1>2. \A j \in Keys : f[j] \in Nat /\ f[j] + 1 \in Nat
  OBVIOUS
<1> QED
  BY <1>1, <1>2

\* Reading an interval leaves the counts of leaving goroutines typed.
LEMMA LeavingType ==
    ASSUME TypeOK, NEW k \in Keys
    PROVE  /\ ReadInterval(k) => leaving' \in [Keys -> [Intervals -> Nat]]
           /\ \A i \in Intervals :
                 leaving[k][i] > 0 =>
                     [leaving EXCEPT ![k][i] = @ - 1] \in [Keys -> [Intervals -> Nat]]
<1>1. ASSUME NEW i \in Intervals, NEW n \in Nat
      PROVE  [leaving EXCEPT ![k][i] = n] \in [Keys -> [Intervals -> Nat]]
  BY DEF TypeOK
<1>2. ASSUME ReadInterval(k) PROVE leaving' \in [Keys -> [Intervals -> Nat]]
  <2>1. CASE settings[k[2]] = None
    BY <1>2, <2>1 DEF ReadInterval, TypeOK
  <2>2. CASE settings[k[2]] # None
    <3>1. settings[k[2]] \in Intervals
      BY <2>2 DEF TypeOK, Settings, Keys
    <3>2. leaving[k][settings[k[2]]] + 1 \in Nat
      BY <3>1 DEF TypeOK
    <3>3. leaving' = [leaving EXCEPT ![k][settings[k[2]]] = leaving[k][settings[k[2]]] + 1]
      BY <1>2, <2>2 DEF ReadInterval
    <3> QED
      BY <1>1, <3>1, <3>2, <3>3
  <2> QED
    BY <2>1, <2>2
<1>3. ASSUME NEW i \in Intervals, leaving[k][i] > 0
      PROVE  [leaving EXCEPT ![k][i] = @ - 1] \in [Keys -> [Intervals -> Nat]]
  <2>1. leaving[k][i] - 1 \in Nat
    BY <1>3 DEF TypeOK
  <2> QED
    BY <1>1, <2>1
<1> QED
  BY <1>2, <1>3

\* One fault more stays within the bound.
LEMMA FaultType == TypeOK /\ Fault => faults' \in 0..MaxFaults
BY ConstantsAssumption DEF TypeOK, Fault

\* The tables as the migrations leave them are typed.
LEMMA InitType == Init => TypeOK
<1>1. Init => settings \in Settings
  BY DEF Init, Settings
<1> QED
  BY <1>1, ConstantsAssumption DEF Init, TypeOK

\* The handlers of a watch preserve the types.
LEMMA WatchHandlerType == TypeOK /\ WatchHandler => TypeOK'
<1> SUFFICES ASSUME TypeOK, NEW w \in Watches PROVE
        /\ \A request \in Requests : Create(w, request) \/ Update(w, request) => TypeOK'
        /\ \A active \in BOOLEAN : SetActive(w, active) => TypeOK'
        /\ Delete(w) => TypeOK'
        /\ TriggerScan(w) => TypeOK'
        /\ \A m \in Marketplaces : TriggeredScanEnds(w, m) => TypeOK'
  BY DEF WatchHandler
<1>1. ASSUME NEW request \in Requests, Create(w, request) PROVE TypeOK'
  <2>1. wait' \in [Keys -> Nat \cup {None}]
    BY <1>1, ScheduleType DEF Create, TypeOK
  <2>2. \A k \in Keys : request[k[2]] \in Nat
    BY ConstantsAssumption DEF Keys
  <2>3. running' \in [Keys -> Nat]
    BY <1>1, <2>2 DEF Create, TypeOK
  <2>4. Named(request) \in SUBSET Marketplaces
    BY DEF Named
  <2> QED
    BY <1>1, <2>1, <2>3, <2>4 DEF Create, TypeOK
<1>2. ASSUME NEW request \in Requests, Update(w, request) PROVE TypeOK'
  <2>1. wait' \in [Keys -> Nat \cup {None}]
    BY <1>2, ScheduleType DEF Update, TypeOK
  <2>2. edits' \in 0..MaxEdits
    BY <1>2, ConstantsAssumption DEF Update, TypeOK
  <2>3. Named(request) \in SUBSET Marketplaces
    BY DEF Named
  <2> QED
    BY <1>2, <2>1, <2>2, <2>3, OutdateType DEF Update, TypeOK
<1>3. ASSUME NEW active \in BOOLEAN, SetActive(w, active) PROVE TypeOK'
  BY <1>3 DEF SetActive, TypeOK
<1>4. ASSUME Delete(w) PROVE TypeOK'
  <2>1. wait' \in [Keys -> Nat \cup {None}]
    BY <1>4, ScheduleType DEF Delete, TypeOK
  <2> QED
    BY <1>4, <2>1, OutdateType DEF Delete, TypeOK
<1>5. ASSUME TriggerScan(w) PROVE TypeOK'
  BY <1>5 DEF TriggerScan, TypeOK
<1>6. ASSUME NEW m \in Marketplaces, TriggeredScanEnds(w, m) PROVE TypeOK'
  BY <1>6 DEF TriggeredScanEnds, TypeOK
<1> QED
  BY <1>1, <1>2, <1>3, <1>4, <1>5, <1>6

\* The administrator, the ticker and time preserve the types.
LEMMA AdminAndTimeType == TypeOK /\ (Admin \/ Tick \/ TimePasses) => TypeOK'
<1> SUFFICES ASSUME TypeOK PROVE Admin \/ Tick \/ TimePasses => TypeOK'
  OBVIOUS
<1>1. ASSUME NEW u \in Users, NEW active \in BOOLEAN, SetUserActive(u, active) PROVE TypeOK'
  BY <1>1 DEF SetUserActive, TypeOK
<1>2. ASSUME NEW new \in Settings, UpdateSettings(new) PROVE TypeOK'
  BY <1>2 DEF UpdateSettings, TypeOK
<1>3. ASSUME Tick PROVE TypeOK'
  <2>1. running' \in [Keys -> Nat]
    <3>1. running \in [Keys -> Nat] /\ \A k \in Keys : running[k] + 1 \in Nat
      BY DEF TypeOK
    <3> QED
      BY <1>3, <3>1 DEF Tick
  <2> QED
    BY <1>3, <2>1 DEF Tick, TypeOK
<1>4. ASSUME TimePasses PROVE TypeOK'
  <2>1. \A k \in Keys : wait[k] \notin {0, None} => wait[k] - 1 \in Nat
    BY DEF TypeOK
  <2>2. wait' \in [Keys -> Nat \cup {None}]
    BY <1>4, <2>1 DEF TimePasses, TypeOK
  <2> QED
    BY <1>4, <2>2 DEF TimePasses, TypeOK
<1> QED
  BY <1>1, <1>2, <1>3, <1>4 DEF Admin

\* What a goroutine writes as the next time is a number.
LEMMA NextTimeType == \A i \in Intervals : i.min..i.max \subseteq Nat
BY ConstantsAssumption

\* The goroutines preserve the types.
LEMMA GoroutineType == \A k \in Keys : TypeOK /\ Goroutine(k) => TypeOK'
<1> SUFFICES ASSUME NEW k \in Keys, TypeOK, Goroutine(k) PROVE TypeOK'
  OBVIOUS
<1>1. CASE ScanEnds(k)
  <2>1. running' \in [Keys -> Nat]
    BY <1>1, CountType DEF ScanEnds, TypeOK
  <2>2. leaving' \in [Keys -> [Intervals -> Nat]]
    BY <1>1, LeavingType DEF ScanEnds
  <2> QED
    BY <1>1, <2>1, <2>2 DEF ScanEnds, ReadInterval, TypeOK
<1>2. CASE StaleScanEnds(k)
  <2>1. stale' \in [Keys -> Nat]
    BY <1>2, CountType DEF StaleScanEnds, TypeOK
  <2>2. leaving' \in [Keys -> [Intervals -> Nat]]
    BY <1>2, LeavingType DEF StaleScanEnds
  <2> QED
    BY <1>2, <2>1, <2>2 DEF StaleScanEnds, ReadInterval, TypeOK
<1>3. ASSUME NEW i \in Intervals, Reschedule(k, i) PROVE TypeOK'
  <2>1. leaving' \in [Keys -> [Intervals -> Nat]]
    BY <1>3, LeavingType DEF Reschedule
  <2>2. wait' \in [Keys -> Nat \cup {None}]
    BY <1>3, NextTimeType DEF Reschedule, TypeOK
  <2> QED
    BY <1>3, <2>1, <2>2 DEF Reschedule, TypeOK
<1> QED
  BY <1>1, <1>2, <1>3 DEF Goroutine

\* Faults preserve the types.
LEMMA FailureType == TypeOK /\ Failure => TypeOK'
<1> SUFFICES ASSUME TypeOK PROVE Failure => TypeOK'
  OBVIOUS
<1>1. ASSUME NEW k \in Keys, ScanFails(k) PROVE TypeOK'
  <2>1. running' \in [Keys -> Nat]
    BY <1>1, CountType DEF ScanFails, TypeOK
  <2>2. leaving' \in [Keys -> [Intervals -> Nat]]
    BY <1>1, LeavingType DEF ScanFails
  <2>3. faults' \in 0..MaxFaults
    BY <1>1, FaultType DEF ScanFails
  <2> QED
    BY <1>1, <2>1, <2>2, <2>3 DEF ScanFails, ReadInterval, TypeOK
<1>2. ASSUME NEW k \in Keys, ReadIntervalFails(k) PROVE TypeOK'
  <2>1. faults' \in 0..MaxFaults
    BY <1>2, FaultType DEF ReadIntervalFails
  <2>2. /\ running' \in [Keys -> Nat]
        /\ stale' \in [Keys -> Nat]
        /\ scanned' \subseteq Keys
    <3>1. CASE /\ running[k] > 0
               /\ running' = [running EXCEPT ![k] = @ - 1]
               /\ scanned' = scanned \cup {k}
               /\ UNCHANGED stale
      BY <3>1, CountType DEF TypeOK
    <3>2. CASE /\ stale[k] > 0
               /\ stale' = [stale EXCEPT ![k] = @ - 1]
               /\ UNCHANGED <<running, scanned>>
      BY <3>2, CountType DEF TypeOK
    <3> QED
      BY <1>2, <3>1, <3>2 DEF ReadIntervalFails
  <2> QED
    BY <1>2, <2>1, <2>2 DEF ReadIntervalFails, TypeOK
<1>3. ASSUME NEW k \in Keys, NEW i \in Intervals, RescheduleFails(k, i) PROVE TypeOK'
  <2>1. leaving' \in [Keys -> [Intervals -> Nat]]
    BY <1>3, LeavingType DEF RescheduleFails
  <2>2. faults' \in 0..MaxFaults
    BY <1>3, FaultType DEF RescheduleFails
  <2> QED
    BY <1>3, <2>1, <2>2 DEF RescheduleFails, TypeOK
<1>4. ASSUME Restart PROVE TypeOK'
  <2>1. faults' \in 0..MaxFaults
    BY <1>4, FaultType DEF Restart
  <2>2. running' \in [Keys -> Nat] /\ stale' \in [Keys -> Nat]
    BY <1>4 DEF Restart
  <2>3. leaving' \in [Keys -> [Intervals -> Nat]]
    BY <1>4 DEF Restart
  <2>4. triggered' \in [Watches -> SUBSET Marketplaces]
    BY <1>4 DEF Restart
  <2> QED
    BY <1>4, <2>1, <2>2, <2>3, <2>4 DEF Restart, TypeOK
<1> QED
  BY <1>1, <1>2, <1>3, <1>4 DEF Failure

\* Every variable keeps its type, whatever runs, is edited or fails.
THEOREM TypeCorrect == Spec => []TypeOK
<1>1. TypeOK /\ [Next]_vars => TypeOK'
  <2> SUFFICES ASSUME TypeOK, [Next]_vars PROVE TypeOK'
    OBVIOUS
  <2>1. CASE UNCHANGED vars
    BY <2>1 DEF vars, TypeOK
  <2> QED
    BY <2>1, WatchHandlerType, AdminAndTimeType, GoroutineType, FailureType DEF Next
<1> QED
  BY <1>1, InitType, PTL DEF Spec

-----------------------------------------------------------------------------
(* The schedule.                                                           *)

\* ScheduleIsWhatTheOwnerSaved, pair by pair.
RowsAsAsked == \A w \in Watches, m \in Marketplaces : wait[<<w, m>>] # None <=> m \in asked[w]

\* With typed variables the two say the same.
LEMMA PairByPair == TypeOK => (RowsAsAsked <=> ScheduleIsWhatTheOwnerSaved)
BY DEF TypeOK, RowsAsAsked, ScheduleIsWhatTheOwnerSaved

\* Rescheduling a watch gives it the rows of the marketplaces named.
LEMMA ScheduleRows ==
    ASSUME TypeOK, RowsAsAsked, NEW w \in Watches, NEW names \in SUBSET Marketplaces,
           Schedule(w, names), asked' = [asked EXCEPT ![w] = names]
    PROVE  RowsAsAsked'
<1> SUFFICES ASSUME NEW v \in Watches, NEW m \in Marketplaces
             PROVE  wait'[<<v, m>>] # None <=> m \in asked'[v]
  BY DEF RowsAsAsked
<1>1. <<v, m>> \in Keys /\ <<v, m>>[1] = v /\ <<v, m>>[2] = m
  BY DEF Keys
<1>2. CASE v = w
  <2>1. wait'[<<v, m>>] = IF m \in names THEN 0 ELSE None
    BY <1>1, <1>2 DEF Schedule
  <2>2. asked'[v] = names
    BY <1>2 DEF TypeOK
  <2> QED
    BY <2>1, <2>2, ConstantsAssumption
<1>3. CASE v # w
  <2>1. wait'[<<v, m>>] = wait[<<v, m>>]
    BY <1>1, <1>3 DEF Schedule
  <2>2. asked'[v] = asked[v]
    BY <1>3 DEF TypeOK
  <2> QED
    BY <2>1, <2>2 DEF RowsAsAsked
<1> QED
  BY <1>2, <1>3

\* A step that saves nothing keeps the rows if it changes times only.
LEMMA SameRows ==
    ASSUME RowsAsAsked, asked' = asked,
           \A k \in Keys : wait'[k] # None <=> wait[k] # None
    PROVE  RowsAsAsked'
<1> SUFFICES ASSUME NEW w \in Watches, NEW m \in Marketplaces
             PROVE  wait'[<<w, m>>] # None <=> m \in asked'[w]
  BY DEF RowsAsAsked
<1>1. <<w, m>> \in Keys
  BY DEF Keys
<1> QED
  BY <1>1 DEF RowsAsAsked

\* Every step keeps the rows those the owner asked for.
LEMMA NextRows == TypeOK /\ RowsAsAsked /\ [Next]_vars => RowsAsAsked'
<1> SUFFICES ASSUME TypeOK, RowsAsAsked, [Next]_vars PROVE RowsAsAsked'
  OBVIOUS
<1>1. ASSUME NEW w \in Watches, NEW request \in Requests, Create(w, request) \/ Update(w, request)
      PROVE  RowsAsAsked'
  <2>1. Named(request) \in SUBSET Marketplaces
    BY DEF Named
  <2> QED
    BY <1>1, <2>1, ScheduleRows DEF Create, Update
<1>2. ASSUME NEW w \in Watches, Delete(w) PROVE RowsAsAsked'
  BY <1>2, ScheduleRows DEF Delete
<1>3. CASE TimePasses
  <2>1. ASSUME NEW k \in Keys PROVE wait'[k] # None <=> wait[k] # None
    <3>1. wait[k] \notin {0, None} => wait[k] - 1 \in Nat
      BY DEF TypeOK
    <3>2. wait[k] \notin {0, None} => wait'[k] \in Nat
      BY <1>3, <3>1 DEF TimePasses
    <3>3. wait[k] \in {0, None} => wait'[k] = wait[k]
      BY <1>3 DEF TimePasses
    <3> QED
      BY <3>2, <3>3, ConstantsAssumption
  <2> QED
    BY <1>3, <2>1, SameRows DEF TimePasses
<1>4. ASSUME NEW k \in Keys, NEW i \in Intervals, Reschedule(k, i) PROVE RowsAsAsked'
  <2>1. CASE wait[k] = None
    BY <1>4, <2>1, SameRows DEF Reschedule
  <2>2. CASE wait[k] # None
    <3>1. PICK n \in i.min..i.max : wait' = [wait EXCEPT ![k] = n]
      BY <1>4, <2>2 DEF Reschedule
    <3>2. n # None
      BY NextTimeType, ConstantsAssumption
    <3>3. \A j \in Keys : wait'[j] # None <=> wait[j] # None
      BY <2>2, <3>1, <3>2 DEF TypeOK
    <3> QED
      BY <1>4, <3>3, SameRows DEF Reschedule
  <2> QED
    BY <2>1, <2>2
<1>5. ASSUME NEW w \in Watches,
             \/ \E active \in BOOLEAN : SetActive(w, active)
             \/ TriggerScan(w)
             \/ \E m \in Marketplaces : TriggeredScanEnds(w, m)
      PROVE  RowsAsAsked'
  BY <1>5, SameRows DEF SetActive, TriggerScan, TriggeredScanEnds
<1>6. CASE Admin \/ Tick
  BY <1>6, SameRows DEF Admin, SetUserActive, UpdateSettings, Tick
<1>7. ASSUME NEW k \in Keys, ScanEnds(k) \/ StaleScanEnds(k) PROVE RowsAsAsked'
  BY <1>7, SameRows DEF ScanEnds, StaleScanEnds, ReadInterval
<1>8. CASE Failure
  BY <1>8, SameRows
     DEF Failure, ScanFails, ReadInterval, ReadIntervalFails, RescheduleFails, Restart
<1>9. CASE UNCHANGED vars
  BY <1>9, SameRows DEF vars
<1> QED
  BY <1>1, <1>2, <1>3, <1>4, <1>5, <1>6, <1>7, <1>8, <1>9 DEF Next, WatchHandler, Goroutine

\* The schedule of a watch is the one its owner last saved, whatever runs for
\* it and whatever fails: no goroutine brings a row back or takes one away.
THEOREM OwnersScheduleHolds == Spec => []ScheduleIsWhatTheOwnerSaved
<1>1. Init => RowsAsAsked
  BY DEF Init, RowsAsAsked, Keys
<1>2. Spec => []RowsAsAsked
  BY <1>1, NextRows, TypeCorrect, PTL DEF Spec
<1> QED
  BY <1>2, PairByPair, TypeCorrect, PTL

-----------------------------------------------------------------------------
(* What the liveness properties rest on. That a tick comes, time passes    *)
(* and a goroutine ends is FairSpec's; here is what makes each of them     *)
(* count, for any number of pairs and whatever is edited or fails.         *)

\* A pair on schedule is due, or due within the longest interval there is.
WaitsAreBounded ==
    \A k \in Keys :
        wait[k] # None => wait[k] = 0 \/ \E i \in Intervals : wait[k] <= i.max

Scanning(k) == running[k] + stale[k]

\* A goroutine is started for a pair that is due, and one at a time, or by the
\* creation of its watch.
StartedWhenDue(k) ==
    Scanning(k)' > Scanning(k) =>
        \/ k \in Due /\ Scanning(k)' = Scanning(k) + 1
        \/ watch[k[1]] = "new" /\ watch'[k[1]] = "active"

\* New rows are due.
LEMMA ScheduleIsDue ==
    ASSUME WaitsAreBounded, NEW w \in Watches, NEW names, Schedule(w, names)
    PROVE  WaitsAreBounded'
BY DEF WaitsAreBounded, Schedule

\* What is not written stays within its bound.
LEMMA SameWaits == ASSUME WaitsAreBounded, wait' = wait PROVE WaitsAreBounded'
BY DEF WaitsAreBounded

\* Every step keeps the waits bounded.
LEMMA NextWaits == TypeOK /\ WaitsAreBounded /\ [Next]_vars => WaitsAreBounded'
<1> SUFFICES ASSUME TypeOK, WaitsAreBounded, [Next]_vars PROVE WaitsAreBounded'
  OBVIOUS
<1>1. ASSUME NEW w \in Watches, NEW request \in Requests, Create(w, request) \/ Update(w, request)
      PROVE  WaitsAreBounded'
  BY <1>1, ScheduleIsDue DEF Create, Update
<1>2. ASSUME NEW w \in Watches, Delete(w) PROVE WaitsAreBounded'
  BY <1>2, ScheduleIsDue DEF Delete
<1>3. CASE TimePasses
  <2> SUFFICES ASSUME NEW k \in Keys, wait'[k] # None
               PROVE  wait'[k] = 0 \/ \E i \in Intervals : wait'[k] <= i.max
    BY DEF WaitsAreBounded
  <2>1. CASE wait[k] \in {0, None}
    BY <1>3, <2>1 DEF TimePasses
  <2>2. CASE wait[k] \notin {0, None}
    <3>1. wait[k] \in Nat /\ wait'[k] = wait[k] - 1
      BY <1>3, <2>2 DEF TimePasses, TypeOK
    <3>2. PICK i \in Intervals : wait[k] <= i.max
      BY <2>2 DEF WaitsAreBounded
    <3>3. i.max \in Nat
      BY ConstantsAssumption
    <3> QED
      BY <3>1, <3>2, <3>3
  <2> QED
    BY <2>1, <2>2
<1>4. ASSUME NEW k \in Keys, NEW i \in Intervals, Reschedule(k, i) PROVE WaitsAreBounded'
  <2>1. CASE wait[k] = None
    BY <1>4, <2>1, SameWaits DEF Reschedule
  <2>2. CASE wait[k] # None
    <3>1. PICK n \in i.min..i.max : wait' = [wait EXCEPT ![k] = n]
      BY <1>4, <2>2 DEF Reschedule
    <3>2. n <= i.max
      OBVIOUS
    <3> QED
      BY <3>1, <3>2 DEF WaitsAreBounded, TypeOK
  <2> QED
    BY <2>1, <2>2
<1>5. ASSUME NEW w \in Watches,
             \/ \E active \in BOOLEAN : SetActive(w, active)
             \/ TriggerScan(w)
             \/ \E m \in Marketplaces : TriggeredScanEnds(w, m)
      PROVE  WaitsAreBounded'
  BY <1>5, SameWaits DEF SetActive, TriggerScan, TriggeredScanEnds
<1>6. CASE Admin \/ Tick
  BY <1>6, SameWaits DEF Admin, SetUserActive, UpdateSettings, Tick
<1>7. ASSUME NEW k \in Keys, ScanEnds(k) \/ StaleScanEnds(k) PROVE WaitsAreBounded'
  BY <1>7, SameWaits DEF ScanEnds, StaleScanEnds, ReadInterval
<1>8. CASE Failure
  BY <1>8, SameWaits
     DEF Failure, ScanFails, ReadInterval, ReadIntervalFails, RescheduleFails, Restart
<1>9. CASE UNCHANGED vars
  BY <1>9, SameWaits DEF vars
<1> QED
  BY <1>1, <1>2, <1>3, <1>4, <1>5, <1>6, <1>7, <1>8, <1>9 DEF Next, WatchHandler, Goroutine

\* No pair on schedule is put off beyond the longest interval, however often
\* it is edited, rescheduled by older goroutines or left by failed ones
\* (RescheduleWatchMarketplace writes a time within the interval it has read).
THEOREM NoPairIsPutOff == Spec => []WaitsAreBounded
<1>1. Init => WaitsAreBounded
  BY DEF Init, WaitsAreBounded
<1> QED
  BY <1>1, NextWaits, TypeCorrect, PTL DEF Spec

\* An edit moves the goroutines of a pair, and starts none.
LEMMA OutdateStartsNothing ==
    ASSUME TypeOK, NEW w \in Watches, Outdate(w), NEW k \in Keys
    PROVE  Scanning(k)' = Scanning(k)
<1>1. running[k] \in Nat /\ stale[k] \in Nat
  BY DEF TypeOK
<1>2. CASE k[1] = w
  BY <1>1, <1>2 DEF Outdate, Scanning
<1>3. CASE k[1] # w
  BY <1>1, <1>3 DEF Outdate, Scanning
<1> QED
  BY <1>2, <1>3

\* A goroutine that ends is one less, for its pair.
LEMMA EndStartsNothing ==
    ASSUME TypeOK, NEW j \in Keys, NEW k \in Keys,
           \/ running' = [running EXCEPT ![j] = @ - 1] /\ stale' = stale
           \/ stale' = [stale EXCEPT ![j] = @ - 1] /\ running' = running
    PROVE  Scanning(k)' \in Int /\ Scanning(k)' <= Scanning(k)
<1>1. running[k] \in Nat /\ stale[k] \in Nat
  BY DEF TypeOK
<1>2. running'[k] \in {running[k], running[k] - 1} /\ stale'[k] \in {stale[k], stale[k] - 1}
  BY DEF TypeOK
<1>3. running'[k] <= running[k] /\ stale'[k] <= stale[k] /\ running'[k] \in Int /\ stale'[k] \in Int
  BY <1>1, <1>2
<1> QED
  BY <1>1, <1>3 DEF Scanning

\* Every step starts only what is due, but for a creation.
LEMMA NextStartsWhatIsDue ==
    ASSUME TypeOK, [Next]_vars, NEW k \in Keys
    PROVE  StartedWhenDue(k)
<1>0. running[k] \in Nat /\ stale[k] \in Nat /\ Scanning(k) \in Nat
  BY DEF TypeOK, Scanning
<1>u. (running' = running /\ stale' = stale) => StartedWhenDue(k)
  BY <1>0 DEF StartedWhenDue, Scanning
<1>l. Scanning(k)' \in Int /\ Scanning(k)' <= Scanning(k) => StartedWhenDue(k)
  BY <1>0 DEF StartedWhenDue
<1>1. ASSUME NEW w \in Watches, NEW request \in Requests, Create(w, request)
      PROVE  StartedWhenDue(k)
  <2>1. CASE k[1] = w
    <3>1. watch[w] = "new" /\ watch'[w] = "active"
      BY <1>1 DEF Create, TypeOK
    <3> QED
      BY <2>1, <3>1 DEF StartedWhenDue
  <2>2. CASE k[1] # w
    BY <1>0, <1>1, <2>2 DEF Create, StartedWhenDue, Scanning
  <2> QED
    BY <2>1, <2>2
<1>2. ASSUME NEW w \in Watches,
             Delete(w) \/ \E request \in Requests : Update(w, request)
      PROVE  StartedWhenDue(k)
  <2>1. Scanning(k)' = Scanning(k)
    BY <1>2, OutdateStartsNothing DEF Delete, Update
  <2> QED
    BY <1>0, <1>l, <2>1
<1>3. CASE Tick
  <2>1. CASE k \in Due
    BY <1>0, <1>3, <2>1 DEF Tick, StartedWhenDue, Scanning
  <2>2. CASE k \notin Due
    BY <1>0, <1>3, <2>2 DEF Tick, StartedWhenDue, Scanning
  <2> QED
    BY <2>1, <2>2
<1>4. ASSUME NEW j \in Keys, ScanEnds(j) \/ StaleScanEnds(j) \/ ScanFails(j) \/ ReadIntervalFails(j)
      PROVE  StartedWhenDue(k)
  <2>1. \/ running' = [running EXCEPT ![j] = @ - 1] /\ stale' = stale
        \/ stale' = [stale EXCEPT ![j] = @ - 1] /\ running' = running
    BY <1>4 DEF ScanEnds, StaleScanEnds, ScanFails, ReadIntervalFails
  <2> QED
    BY <1>l, <2>1, EndStartsNothing
<1>5. ASSUME NEW j \in Keys, NEW i \in Intervals, Reschedule(j, i) \/ RescheduleFails(j, i)
      PROVE  StartedWhenDue(k)
  BY <1>5, <1>u DEF Reschedule, RescheduleFails
<1>6. CASE Restart
  <2>1. Scanning(k)' = 0
    BY <1>6 DEF Restart, Scanning
  <2> QED
    BY <1>0, <1>l, <2>1
<1>7. ASSUME NEW w \in Watches,
             \/ \E active \in BOOLEAN : SetActive(w, active)
             \/ TriggerScan(w)
             \/ \E m \in Marketplaces : TriggeredScanEnds(w, m)
      PROVE  StartedWhenDue(k)
  BY <1>7, <1>u DEF SetActive, TriggerScan, TriggeredScanEnds
<1>8. CASE Admin \/ TimePasses
  BY <1>8, <1>u DEF Admin, SetUserActive, UpdateSettings, TimePasses
<1>9. CASE UNCHANGED vars
  BY <1>9, <1>u DEF vars
<1> QED
  BY <1>1, <1>2, <1>3, <1>4, <1>5, <1>6, <1>7, <1>8, <1>9
     DEF Next, WatchHandler, Goroutine, Failure

\* A pause starts nothing: once a watch is created, only the scheduler starts a
\* scan of it, and only while watch and owner are active and the time has come
\* (the joins of DueWatchMarketplaces); what an edit overtakes it keeps.
THEOREM OnlyWhatIsDueStarts == Spec => [][\A k \in Keys : StartedWhenDue(k)]_vars
<1>1. TypeOK /\ [Next]_vars => [\A k \in Keys : StartedWhenDue(k)]_vars
  BY NextStartsWhatIsDue
<1> QED
  BY <1>1, TypeCorrect, PTL DEF Spec

=============================================================================
