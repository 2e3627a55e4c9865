---------------------- MODULE TelemetryServiceProofs ----------------------
(***************************************************************************)
(* The limits of the telemetry service for any number of requests,         *)
(* addresses, days and restarts: ServiceInv is inductive, the daily        *)
(* ceiling is overrun by overlapping requests only, and no address gets    *)
(* more than its limit through a window.  Its rows: each counts requests,  *)
(* each once, so that nothing thinner than the threshold is published.     *)
(***************************************************************************)
EXTENDS TelemetryService, FiniteSetTheorems, TLAPS

USE DEF None, Boots

\* Sets of requests are finite, so that their cardinalities are numbers.
LEMMA Counting ==
  \A S \in SUBSET Requests :
    /\ IsFiniteSet(S) /\ Cardinality(S) \in Nat
    /\ \A T \in SUBSET S : Cardinality(T) <= Cardinality(S)
    /\ \A r \in Requests : Cardinality(S \cup {r}) <= Cardinality(S) + 1
    /\ \A r \in Requests \ S : Cardinality(S \cup {r}) = Cardinality(S) + 1
    /\ \A T \in SUBSET Requests : Cardinality(S \cup T) <= Cardinality(S) + Cardinality(T)
<1> SUFFICES ASSUME NEW S \in SUBSET Requests
             PROVE  /\ IsFiniteSet(S) /\ Cardinality(S) \in Nat
                    /\ \A T \in SUBSET S : Cardinality(T) <= Cardinality(S)
                    /\ \A r \in Requests : Cardinality(S \cup {r}) <= Cardinality(S) + 1
                    /\ \A r \in Requests \ S : Cardinality(S \cup {r}) = Cardinality(S) + 1
                    /\ \A T \in SUBSET Requests :
                         Cardinality(S \cup T) <= Cardinality(S) + Cardinality(T)
  OBVIOUS
<1>1. IsFiniteSet(S) /\ Cardinality(S) \in Nat
  BY ServiceAssumption, FS_Subset, FS_CardinalityType
<1>2. ASSUME NEW T \in SUBSET S PROVE Cardinality(T) <= Cardinality(S)
  BY <1>1, FS_Subset
<1>3. ASSUME NEW r \in Requests \ S PROVE Cardinality(S \cup {r}) = Cardinality(S) + 1
  BY <1>1, FS_AddElement
<1>4. ASSUME NEW r \in Requests PROVE Cardinality(S \cup {r}) <= Cardinality(S) + 1
  <2>1. CASE r \in S
    <3>1. Cardinality(S \cup {r}) = Cardinality(S)
      <4>1. S \cup {r} = S
        BY <2>1
      <4> QED
        BY <4>1, Zenon
    <3> QED
      BY <3>1, <1>1
  <2>2. CASE r \notin S
    BY <2>2, <1>1, <1>3
  <2> QED
    BY <2>1, <2>2
<1>5. ASSUME NEW T \in SUBSET Requests
      PROVE  Cardinality(S \cup T) <= Cardinality(S) + Cardinality(T)
  <2>1. IsFiniteSet(T) /\ Cardinality(T) \in Nat
    BY ServiceAssumption, FS_Subset, FS_CardinalityType
  <2>2. Cardinality(S \cup T) = Cardinality(S) + Cardinality(T) - Cardinality(S \cap T)
    BY <1>1, <2>1, FS_Union
  <2>3. Cardinality(S \cap T) \in Nat
    BY <1>1, FS_Subset, FS_CardinalityType
  <2> QED
    BY <1>1, <2>1, <2>2, <2>3
<1> QED
  BY <1>1, <1>2, <1>3, <1>4, <1>5

\* Days are numbers and follow the clock.
LEMMA DaysFollowTheClock ==
  /\ \A t \in Nat : utcDay(t) \in Nat
  /\ \A t, u \in Nat : t <= u => utcDay(t) <= utcDay(u)
BY ServiceAssumption DEF utcDay

\* The counted sets are sets of requests.
LEMMA Sets ==
  /\ InFlight \in SUBSET Requests /\ Counted \in SUBSET Requests
  /\ \A i, d : /\ Carried(i, d) \in SUBSET Requests /\ OfDay(i, d) \in SUBSET Requests
               /\ FoldedBy(i, d) \in SUBSET Requests /\ AdmittedBy(i, d) \in SUBSET Requests
  /\ \A k : timesOf(k) \in SUBSET AdmittedBy(boot, k) \/ ~LimiterInv
BY DEF InFlight, Counted, Carried, OfDay, FoldedBy, AdmittedBy, timesOf, LimiterInv

\* Today is one of the days.
LEMMA TodayIsADay == TypeOK => Today \in Days /\ Today \in Nat
<1> SUFFICES ASSUME TypeOK PROVE Today \in Days /\ Today \in Nat
  OBVIOUS
<1>1. now \in Nat /\ MaxTime \in Nat /\ now <= MaxTime
  BY ServiceAssumption DEF TypeOK
<1>2. utcDay(now) \in Nat /\ utcDay(MaxTime) \in Nat /\ utcDay(now) <= utcDay(MaxTime)
  BY <1>1, DaysFollowTheClock
<1> QED
  BY <1>2 DEF Today, Days

\* The initial state satisfies the invariant.
LEMMA ServiceInit == Init => ServiceInv
<1> SUFFICES ASSUME Init PROVE ServiceInv
  OBVIOUS
<1>1. TypeOK
  BY ServiceAssumption DEF Init, TypeOK
<1>2. RequestInv
  BY DEF Init, RequestInv, Past
<1>3. \A i, d : /\ InFlight = {} /\ Carried(i, d) = {} /\ OfDay(i, d) = {}
               /\ AdmittedBy(i, d) \subseteq Requests
  BY DEF Init, InFlight, Carried, OfDay, Past, AdmittedBy
<1>4. Today \in Nat /\ Cardinality({}) = 0
  BY <1>1, TodayIsADay, FS_EmptySet
<1>5. CountInv
  BY <1>4 DEF Init, CountInv, Past
<1>6. OverlapInv
  <2>1. 1 \in Boots /\ boot = 1 /\ \A i \in Boots : peak[i] = 0
    BY ServiceAssumption DEF Init
  <2>2. Cardinality(InFlight) = 0
    BY <1>3, <1>4, Zenon
  <2>3. ASSUME NEW i, NEW d PROVE Cardinality(Carried(i, d)) = 0 /\ Cardinality(OfDay(i, d)) = 0
    BY <1>3, <1>4, Zenon
  <2> QED
    BY <2>1, <2>2, <2>3, ServiceAssumption DEF OverlapInv
<1>7. LimiterInv
  BY DEF Init, LimiterInv, Past
<1>8. LimiterExact
  <2>1. ASSUME NEW i \in Boots, NEW k PROVE AdmittedBy(i, k) = {}
    BY DEF Init, AdmittedBy
  <2> QED
    BY <2>1 DEF LimiterExact
<1> QED
  BY <1>1, <1>2, <1>5, <1>6, <1>7, <1>8 DEF ServiceInv

\* Every step keeps every variable in its type.
LEMMA ServiceType == TypeOK /\ [Next]_vars => TypeOK'
<1> SUFFICES ASSUME TypeOK, [Next]_vars PROVE TypeOK'
  OBVIOUS
<1>0. Today \in Days /\ Cardinality(InFlight) \in Nat
      /\ \A r \in Requests : /\ Cardinality(InFlight \cup {r}) \in Nat /\ From[r] \in Submitters
                            /\ BucketOf[r] \in Buckets
  <2>1. \A r \in Requests : InFlight \cup {r} \in SUBSET Requests
    BY Sets
  <2> QED
    BY <2>1, Sets, Counting, TodayIsADay DEF Submitters, Buckets
<1> USE ServiceAssumption DEF TypeOK, requests, counters, database, Answers, Answer
<1>13. ASSUME NEW w \in Reasons, recordRejection(w)
       PROVE  rejections' \in [Days -> [Reasons -> Nat]]
  <2>1. rejections[Today] \in [Reasons -> Nat]
    BY <1>0
  <2>2. [rejections[Today] EXCEPT ![w] = rejections[Today][w] + 1] \in [Reasons -> Nat]
    BY <2>1
  <2>3. rejections' = [rejections EXCEPT ![Today] =
                         [rejections[Today] EXCEPT ![w] = rejections[Today][w] + 1]]
    BY <1>0, <1>13 DEF recordRejection
  <2> QED
    BY <1>0, <2>2, <2>3
<1>14. {"daily_ceiling_reached", "body_too_large", "refused"} \subseteq Reasons
  BY DEF Reasons
<1>1. ASSUME NEW r \in Requests, dailyCeilingReached(r) PROVE TypeOK'
  <2>1. rejections' \in [Days -> [Reasons -> Nat]]
    BY <1>1, <1>13, <1>14 DEF dailyCeilingReached
  <2>2. ingestDay' \in Days \cup {None} /\ ingestToday' \in Nat
    BY <1>0, <1>1 DEF dailyCeilingReached, rollDay, countOf
  <2> QED
    BY <1>1, <2>1, <2>2 DEF dailyCeilingReached
<1>2. ASSUME NEW r \in Requests, rateLimited(r) PROVE TypeOK'
  <2>1. timesOf(From[r]) \subseteq Requests
    BY DEF timesOf
  <2> QED
    BY <1>0, <1>2, <2>1 DEF rateLimited, rollDay, countOf
<1>3. ASSUME NEW r \in Requests, admit(r) PROVE TypeOK'
  <2>1. DOMAIN hits' \subseteq Submitters /\ \A k \in DOMAIN hits' : hits'[k] \subseteq Requests
    <3> DEFINE pushed == [k \in DOMAIN hits \cup {From[r]} |->
                            IF k = From[r] THEN timesOf(k) \cup {r} ELSE hits[k]]
    <3>1. DOMAIN pushed \subseteq Submitters /\ \A k \in DOMAIN pushed : pushed[k] \subseteq Requests
      BY <1>0 DEF timesOf
    <3>2. hits' = hits \/ hits' = pushed \/ hits' = evict(pushed, r)
      BY <1>3 DEF admit, allow
    <3>3. ASSUME NEW h, DOMAIN h \subseteq Submitters,
                 \A k \in DOMAIN h : h[k] \subseteq Requests
          PROVE  /\ DOMAIN evict(h, r) \subseteq Submitters
                 /\ \A k \in DOMAIN evict(h, r) : evict(h, r)[k] \subseteq Requests
      BY <3>3 DEF evict
    <3> HIDE DEF pushed
    <3>4. hits' = hits \/ hits' = pushed => DOMAIN hits' \subseteq Submitters
            /\ \A k \in DOMAIN hits' : hits'[k] \subseteq Requests
      BY <3>1
    <3> QED
      BY <3>1, <3>2, <3>3, <3>4
  <2> QED
    BY <1>0, <1>3, <2>1 DEF admit, rollDay, countOf
<1>4. ASSUME NEW r \in Requests, bodyTooLarge(r) PROVE TypeOK'
  <2>1. rejections' \in [Days -> [Reasons -> Nat]]
    BY <1>4, <1>13, <1>14 DEF bodyTooLarge
  <2> QED
    BY <1>4, <2>1 DEF bodyTooLarge
<1>11. ASSUME NEW r \in Requests, refuse(r) PROVE TypeOK'
  <2>1. rejections' \in [Days -> [Reasons -> Nat]]
    BY <1>11, <1>13, <1>14 DEF refuse
  <2> QED
    BY <1>11, <2>1 DEF refuse
<1>12. ASSUME NEW r \in Requests, NEW xs, foldBucket(r), foldLabels(xs)
       PROVE  /\ buckets' \in [Days -> [Buckets -> Nat]] /\ labels' \in [Days -> [Labels -> Nat]]
              /\ foldedOn' \in [Requests -> Days \cup {None}]
  <2>1. foldedOn' \in [Requests -> Days \cup {None}]
    BY <1>0, <1>12 DEF foldBucket
  <2>3. buckets' \in [Days -> [Buckets -> Nat]]
    <3>1. buckets[Today] \in [Buckets -> Nat] /\ BucketOf[r] \in Buckets
      BY <1>0
    <3>2. [buckets[Today] EXCEPT ![BucketOf[r]] = buckets[Today][BucketOf[r]] + 1] \in [Buckets -> Nat]
      BY <3>1
    <3>3. buckets' = [buckets EXCEPT ![Today] =
                        [buckets[Today] EXCEPT ![BucketOf[r]] = buckets[Today][BucketOf[r]] + 1]]
      BY <1>0, <1>12 DEF foldBucket
    <3> QED
      BY <1>0, <3>2, <3>3
  <2>2. [x \in Labels |-> labels[Today][x] + (IF x \in xs THEN 1 ELSE 0)] \in [Labels -> Nat]
    <3>1. labels[Today] \in [Labels -> Nat]
      BY <1>0
    <3> QED
      BY <3>1
  <2> QED
    BY <1>0, <1>12, <2>1, <2>2, <2>3 DEF foldLabels
<1>5. ASSUME NEW r \in Requests, fold(r) PROVE TypeOK'
  BY <1>5, <1>12 DEF fold, countAccepted
<1>6. ASSUME NEW r \in Requests, disconnect(r) PROVE TypeOK'
  BY <1>6 DEF disconnect
<1>7. ASSUME Die PROVE TypeOK'
  BY <1>7 DEF Die, startService
<1>8. ASSUME NEW r \in Requests, DieFolding(r) PROVE TypeOK'
  BY <1>8, <1>12 DEF DieFolding, startService
<1>9. ASSUME Tick PROVE TypeOK'
  BY <1>9 DEF Tick
<1>10. CASE UNCHANGED vars
  BY <1>10 DEF vars
<1> QED
  BY <1>1, <1>2, <1>3, <1>4, <1>5, <1>6, <1>7, <1>8, <1>9, <1>10,
     <1>11 DEF Next

\* Every step keeps what is known of a request by where it is.
LEMMA ServiceRequests == TypeOK /\ RequestInv /\ [Next]_vars => RequestInv'
<1> SUFFICES ASSUME TypeOK, RequestInv, [Next]_vars PROVE RequestInv'
  OBVIOUS
<1>0. now \in Nat /\ boot \in Nat /\ boot >= 1 /\ Today \in Nat
  BY TodayIsADay, ServiceAssumption DEF TypeOK
<1>a. \A r \in Requests : Past(r) => admitted[r] \in Nat /\ utcDay(admitted[r]) \in Nat
                                   /\ utcDay(admitted[r]) <= Today
  <2> SUFFICES ASSUME NEW r \in Requests, Past(r)
               PROVE  /\ admitted[r] \in Nat /\ utcDay(admitted[r]) \in Nat
                      /\ utcDay(admitted[r]) <= Today
    OBVIOUS
  <2>1. admitted[r] \in Nat /\ admitted[r] <= now
    BY ServiceAssumption DEF TypeOK, RequestInv, Past
  <2> QED
    BY <1>0, <2>1, DaysFollowTheClock DEF Today
<1>b. \A r \in Requests : foldedOn[r] # None => foldedOn[r] \in Nat
  BY DaysFollowTheClock, ServiceAssumption DEF TypeOK, Days
<1> USE DEF RequestInv, Past, Today, requests, Answers, Answer, TypeOK
<1>1. ASSUME NEW r \in Requests, dailyCeilingReached(r) PROVE RequestInv'
  BY <1>0, <1>1 DEF dailyCeilingReached
<1>2. ASSUME NEW r \in Requests, rateLimited(r) PROVE RequestInv'
  BY <1>0, <1>2 DEF rateLimited
<1>3. ASSUME NEW r \in Requests, admit(r) PROVE RequestInv'
  BY <1>0, <1>3 DEF admit
<1>4. ASSUME NEW r \in Requests, bodyTooLarge(r) \/ refuse(r) \/ disconnect(r) PROVE RequestInv'
  BY <1>0, <1>4 DEF bodyTooLarge, refuse, disconnect
<1>5. ASSUME NEW r \in Requests, fold(r) PROVE RequestInv'
  BY <1>0, <1>a, <1>5 DEF fold, foldBucket
<1>6. ASSUME Die PROVE RequestInv'
  BY <1>0, <1>6 DEF Die, startService, InFlight
<1>7. ASSUME NEW r \in Requests, DieFolding(r) PROVE RequestInv'
  BY <1>0, <1>a, <1>7 DEF DieFolding, startService, foldBucket, InFlight
<1>8. ASSUME Tick PROVE RequestInv'
  <2>1. Today <= Today' /\ Today' \in Nat
    <3>1. now' \in Nat /\ now <= now'
      BY <1>0, <1>8 DEF Tick
    <3>2. utcDay(now) <= utcDay(now') /\ utcDay(now') \in Nat
      BY <1>0, <3>1, DaysFollowTheClock
    <3> QED
      BY <3>2 DEF utcDay
  <2> QED
    BY <1>0, <1>a, <1>b, <1>8, <2>1 DEF Tick
<1>9. CASE UNCHANGED vars
  BY <1>9 DEF vars
<1> QED
  BY <1>1, <1>2, <1>3, <1>4, <1>5, <1>6, <1>7, <1>8, <1>9 DEF Next

\* What a request that is past admission is known by, in numbers.
LEMMA InNumbers ==
  ASSUME TypeOK, RequestInv
  PROVE  /\ now \in Nat /\ boot \in Boots /\ Today \in Nat /\ ingestToday \in Nat
         /\ ingestDay \in Int /\ \A i \in Boots : peak[i] \in Nat
         /\ \A r \in Requests : Past(r) =>
              /\ admitted[r] \in Nat /\ admitted[r] <= now /\ bootOf[r] \in Boots
              /\ bootOf[r] <= boot
              /\ utcDay(admitted[r]) \in Nat /\ utcDay(admitted[r]) <= Today
         /\ \A r \in Requests : ~Past(r) => foldedOn[r] = None /\ state[r] # "reading"
         /\ \A r \in Requests : foldedOn[r] # None =>
              Past(r) /\ foldedOn[r] \in Nat /\ foldedOn[r] <= Today
<1>0. now \in Nat /\ boot \in Boots /\ Today \in Nat /\ ingestToday \in Nat
      /\ \A i \in Boots : peak[i] \in Nat
  BY TodayIsADay, ServiceAssumption DEF TypeOK
<1>1. Days \subseteq Nat
  BY DaysFollowTheClock, ServiceAssumption DEF Days
<1>2. ingestDay \in Int
  BY <1>1 DEF TypeOK
<1>3. ASSUME NEW r \in Requests, Past(r)
      PROVE  /\ admitted[r] \in Nat /\ admitted[r] <= now /\ bootOf[r] \in Boots
             /\ bootOf[r] <= boot
             /\ utcDay(admitted[r]) \in Nat /\ utcDay(admitted[r]) <= Today
  <2>1. admitted[r] \in Nat /\ admitted[r] <= now /\ bootOf[r] \in Boots /\ bootOf[r] <= boot
    BY <1>0, <1>3, ServiceAssumption DEF TypeOK, RequestInv, Past
  <2> QED
    BY <1>0, <2>1, DaysFollowTheClock DEF Today
<1>4. \A r \in Requests : ~Past(r) => foldedOn[r] = None /\ state[r] # "reading"
  BY DEF RequestInv
<1>5. \A r \in Requests : foldedOn[r] # None =>
        Past(r) /\ foldedOn[r] \in Nat /\ foldedOn[r] <= Today
  BY <1>1 DEF TypeOK, RequestInv
<1> QED
  BY <1>0, <1>2, <1>3, <1>4, <1>5

\* Every step keeps the day's count between what it counts.
LEMMA ServiceCount == TypeOK /\ RequestInv /\ CountInv /\ [Next]_vars => CountInv'
<1> SUFFICES ASSUME TypeOK, RequestInv, CountInv, [Next]_vars PROVE CountInv'
  OBVIOUS
<1> DEFINE Folded == FoldedBy(boot, Today)
<1>0. /\ Counted \in SUBSET Requests /\ Folded \in SUBSET Requests
      /\ Cardinality(Counted) \in Nat /\ Cardinality(Folded) \in Nat
  BY Sets, Counting
<1>n. /\ now \in Nat /\ boot \in Nat /\ Today \in Nat /\ ingestToday \in Nat /\ ingestDay \in Int
  BY InNumbers, ServiceAssumption
<1>1. ASSUME UNCHANGED <<now, boot>>, rollDay, Counted' = Counted, Folded' = Folded
      PROVE  CountInv'
  <2>1. Today' = Today
    BY <1>1 DEF Today
  <2>2. CASE ingestDay = Today
    BY <1>0, <1>n, <1>1, <2>1, <2>2 DEF CountInv, rollDay, countOf
  <2>3. CASE ingestDay # Today
    <3>1. Counted = {}
      BY <2>3, InNumbers DEF CountInv, Counted, FoldedBy, None
    <3>2. Cardinality(Counted) = 0
      BY <3>1, FS_EmptySet, Zenon
    <3>3. ingestToday' = 0 /\ ingestDay' = Today'
      BY <1>1, <2>1, <2>3 DEF rollDay, countOf
    <3> QED
      BY <1>0, <1>n, <1>1, <2>1, <3>2, <3>3 DEF CountInv
  <2> QED
    BY <2>2, <2>3
<1>2. ASSUME UNCHANGED <<now, boot, admitted, bootOf, foldedOn>>
      PROVE  Today' = Today /\ Counted' = Counted /\ Folded' = Folded
  BY <1>2 DEF Today, Counted, FoldedBy
<1>3. ASSUME NEW r \in Requests, dailyCeilingReached(r) \/ rateLimited(r) PROVE CountInv'
  BY <1>1, <1>2, <1>3 DEF dailyCeilingReached, rateLimited
<1>4. ASSUME NEW r \in Requests, admit(r) PROVE CountInv'
  <2>1. UNCHANGED <<now, boot>> /\ rollDay
    BY <1>4 DEF admit
  <2>2. foldedOn[r] = None /\ foldedOn' = foldedOn /\ Today # None
    BY <1>4, <1>n, InNumbers DEF admit, RequestInv, None
  <2>3. \A q \in Requests : q # r => admitted'[q] = admitted[q] /\ bootOf'[q] = bootOf[q]
    BY <1>4 DEF admit, TypeOK
  <2>4. Today' = Today
    BY <2>1 DEF Today
  <2>5. Counted' = Counted /\ Folded' = Folded
    BY <2>1, <2>2, <2>3, <2>4 DEF Counted, FoldedBy
  <2> QED
    BY <1>1, <2>1, <2>5
<1>5. ASSUME NEW r \in Requests, bodyTooLarge(r) \/ refuse(r) \/ disconnect(r) PROVE CountInv'
  <2>1. UNCHANGED <<now, boot, admitted, bootOf, foldedOn, counters>>
    BY <1>5 DEF bodyTooLarge, refuse, disconnect
  <2> QED
    BY <1>2, <2>1 DEF CountInv, counters, Past
<1>6. ASSUME NEW r \in Requests, fold(r) PROVE CountInv'
  <2>1. UNCHANGED <<now, boot, admitted, bootOf, ingestDay>> /\ ingestToday' = ingestToday + 1
    BY <1>6 DEF fold, countAccepted
  <2>2. /\ foldedOn[r] = None /\ bootOf[r] = boot
        /\ foldedOn' = [foldedOn EXCEPT ![r] = Today]
    BY <1>6 DEF fold, foldBucket, RequestInv
  <2>3. Today' = Today /\ Today # None
    BY <2>1, <1>n DEF Today, None
  <2>4. Folded' = Folded \cup {r} /\ r \notin Folded
    BY <2>1, <2>2, <2>3 DEF FoldedBy, TypeOK
  <2>5. Counted' = Counted \/ Counted' = Counted \cup {r}
    BY <2>1, <2>2, <2>3 DEF Counted, FoldedBy, TypeOK
  <2>6. Cardinality(Folded') = Cardinality(Folded) + 1
    BY <1>0, <2>4, Counting
  <2>7. Cardinality(Counted') <= Cardinality(Counted) + 1
    BY <1>0, <2>5, Counting
  <2>8. Cardinality(Counted') \in Nat
    BY <1>0, <2>5, Counting
  <2>9. CASE ingestDay = Today
    BY <1>0, <1>n, <2>1, <2>3, <2>6, <2>7, <2>8, <2>9 DEF CountInv
  <2>10. CASE ingestDay # Today
    BY <1>n, <2>1, <2>3, <2>10 DEF CountInv, Past
  <2> QED
    BY <2>9, <2>10
<1>7. ASSUME startService PROVE CountInv'
  <2>1. Today' = Today /\ Today # None
    BY <1>7, <1>n DEF startService, Today, None
  <2>2. \A r \in Requests : Past(r)' => bootOf'[r] # boot'
    BY <1>7, <1>n, InNumbers DEF startService, Past
  <2>3. ingestDay' = None /\ None <= Today
    BY <1>7, <1>n DEF startService, None
  <2> QED
    BY <2>1, <2>2, <2>3 DEF CountInv
<1>8. ASSUME Tick PROVE CountInv'
  <2>1. UNCHANGED <<boot, admitted, bootOf, foldedOn, ingestDay, ingestToday>>
    BY <1>8 DEF Tick, requests, counters
  <2>2. Today <= Today' /\ Today' \in Nat
    <3>1. now' \in Nat /\ now <= now'
      BY <1>n, <1>8 DEF Tick
    <3> QED
      BY <1>n, <3>1, DaysFollowTheClock DEF Today
  <2>3. CASE Today' = Today
    <3>1. Counted' = Counted /\ Folded' = Folded
      BY <2>1, <2>3 DEF Counted, FoldedBy
    <3> QED
      BY <2>1, <2>3, <3>1 DEF CountInv, Past
  <2>4. CASE Today' # Today
    <3>1. ingestDay' # Today' /\ ingestDay' <= Today'
      BY <1>n, <2>1, <2>2, <2>4 DEF CountInv
    <3>2. \A r \in Requests : Past(r)' => utcDay(admitted'[r]) # Today'
      BY <1>n, <2>1, <2>2, <2>4, InNumbers DEF Past
    <3> QED
      BY <3>1, <3>2 DEF CountInv
  <2> QED
    BY <2>3, <2>4
<1>9. CASE UNCHANGED vars
  BY <1>2, <1>9 DEF CountInv, vars, requests, counters, Past
<1> QED
  BY <1>3, <1>4, <1>5, <1>6, <1>7, <1>8, <1>9 DEF Next, Die, DieFolding

\* The sets OverlapInv counts, and the peaks they are compared with, after a
\* step that lets nothing in.
LEMMA NothingLetIn ==
  ASSUME TypeOK, RequestInv, OverlapInv, peak' = peak, boot' \in Boots,
         InFlight' = {} \/ (boot' = boot /\ InFlight' \subseteq InFlight),
         \A i \in Boots, d \in Days : /\ Carried(i, d)' \subseteq Carried(i, d)
                                     /\ OfDay(i, d)' \subseteq OfDay(i, d)
  PROVE  OverlapInv'
<1>0. \A i \in Boots : peak[i] \in Nat
  BY InNumbers
<1>1. Cardinality(InFlight') <= peak'[boot']
  <2>1. CASE InFlight' = {}
    <3>1. Cardinality(InFlight') = 0
      BY <2>1, FS_EmptySet, Zenon
    <3> QED
      BY <1>0, <3>1
  <2>2. CASE boot' = boot /\ InFlight' \subseteq InFlight
    <3>1. Cardinality(InFlight') <= Cardinality(InFlight) /\ Cardinality(InFlight) \in Nat
          /\ Cardinality(InFlight') \in Nat
      BY <2>2, Sets, Counting
    <3> QED
      BY <1>0, <2>2, <3>1 DEF OverlapInv
  <2> QED
    BY <2>1, <2>2
<1>2. ASSUME NEW i \in Boots, NEW d \in Days
      PROVE  /\ Cardinality(Carried(i, d)') <= peak'[i]
             /\ Ceiling > 0 => Cardinality(OfDay(i, d)') <= Ceiling - 1 + peak'[i]
  <2>1. /\ Cardinality(Carried(i, d)') <= Cardinality(Carried(i, d))
        /\ Cardinality(Carried(i, d)') \in Nat /\ Cardinality(Carried(i, d)) \in Nat
    BY Sets, Counting
  <2>2. /\ Cardinality(OfDay(i, d)') <= Cardinality(OfDay(i, d))
        /\ Cardinality(OfDay(i, d)') \in Nat /\ Cardinality(OfDay(i, d)) \in Nat
    BY Sets, Counting
  <2> QED
    BY <1>0, <2>1, <2>2, ServiceAssumption DEF OverlapInv
<1> QED
  BY <1>1, <1>2 DEF OverlapInv

\* Every step keeps the overlap within the peak.
LEMMA ServiceOverlap ==
  TypeOK /\ RequestInv /\ CountInv' /\ OverlapInv /\ [Next]_vars => OverlapInv'
<1> SUFFICES ASSUME TypeOK, RequestInv, CountInv', OverlapInv, [Next]_vars PROVE OverlapInv'
  OBVIOUS
<1>n. /\ now \in Nat /\ boot \in Boots /\ Today \in Nat /\ \A i \in Boots : peak[i] \in Nat
      /\ Today # None
  BY InNumbers DEF None
<1> USE DEF InFlight, Carried, OfDay, Past
<1>1. ASSUME NEW r \in Requests, dailyCeilingReached(r) \/ rateLimited(r) PROVE OverlapInv'
  <2>1. /\ UNCHANGED <<boot, admitted, bootOf, foldedOn, peak>>
        /\ \A q \in Requests : state'[q] = "reading" => state[q] = "reading"
    BY <1>1 DEF dailyCeilingReached, rateLimited, Answer, TypeOK
  <2> QED
    BY <1>n, <2>1, NothingLetIn
<1>2. ASSUME NEW r \in Requests, bodyTooLarge(r) \/ refuse(r) \/ disconnect(r) PROVE OverlapInv'
  <2>1. /\ UNCHANGED <<boot, admitted, bootOf, foldedOn, peak>>
        /\ \A q \in Requests : state'[q] = "reading" => state[q] = "reading"
    BY <1>2 DEF bodyTooLarge, refuse, disconnect, Answer, TypeOK
  <2> QED
    BY <1>n, <2>1, NothingLetIn
<1>3. ASSUME NEW r \in Requests, state[r] = "reading", foldBucket(r),
             UNCHANGED <<admitted, bootOf>>,
             \A q \in Requests : state'[q] = "reading" => state[q] = "reading"
      PROVE  /\ InFlight' \subseteq InFlight
             /\ \A i, d : /\ Carried(i, d)' \subseteq Carried(i, d)
                          /\ OfDay(i, d)' \subseteq OfDay(i, d)
  <2>1. \A q \in Requests : q # r => foldedOn'[q] = foldedOn[q]
    BY <1>3 DEF foldBucket, TypeOK
  <2> QED
    BY <1>3, <2>1
<1>4. ASSUME NEW r \in Requests, fold(r) PROVE OverlapInv'
  <2>1. /\ UNCHANGED <<boot, admitted, bootOf, peak>> /\ state[r] = "reading" /\ foldBucket(r)
        /\ \A q \in Requests : state'[q] = "reading" => state[q] = "reading"
    BY <1>4 DEF fold, Answer, TypeOK
  <2> HIDE DEF InFlight, Carried, OfDay
  <2> QED
    BY <1>n, <1>3, <2>1, NothingLetIn
<1>5. ASSUME startService
      PROVE  /\ InFlight' = {} /\ boot' \in Boots /\ UNCHANGED <<admitted, bootOf, peak>>
             /\ \A q \in Requests : state'[q] = "reading" => state[q] = "reading"
  BY <1>5, <1>n, ServiceAssumption DEF startService, TypeOK
<1>6. ASSUME Die PROVE OverlapInv'
  <2>1. startService /\ foldedOn' = foldedOn
    BY <1>6 DEF Die
  <2>2. \A i, d : Carried(i, d)' \subseteq Carried(i, d) /\ OfDay(i, d)' \subseteq OfDay(i, d)
    BY <1>5, <2>1
  <2> HIDE DEF InFlight, Carried, OfDay
  <2> QED
    BY <1>5, <2>1, <2>2, NothingLetIn
<1>7. ASSUME NEW r \in Requests, DieFolding(r) PROVE OverlapInv'
  <2>1. startService /\ foldBucket(r) /\ state[r] = "reading"
    BY <1>7 DEF DieFolding
  <2>2. \A i, d : Carried(i, d)' \subseteq Carried(i, d) /\ OfDay(i, d)' \subseteq OfDay(i, d)
    BY <1>3, <1>5, <2>1
  <2> HIDE DEF InFlight, Carried, OfDay
  <2> QED
    BY <1>5, <2>1, <2>2, NothingLetIn
<1>8. ASSUME Tick \/ UNCHANGED vars PROVE OverlapInv'
  <2>1. UNCHANGED <<boot, state, admitted, bootOf, foldedOn, peak>>
    BY <1>8 DEF Tick, vars, requests
  <2> QED
    BY <1>n, <2>1, NothingLetIn
<1>9. ASSUME NEW r \in Requests, admit(r) PROVE OverlapInv'
  <2>1. /\ UNCHANGED <<now, boot, foldedOn>> /\ state[r] = "new" /\ ~ceilingReached /\ rollDay
        /\ state' = [state EXCEPT ![r] = "reading"]
        /\ admitted' = [admitted EXCEPT ![r] = now] /\ bootOf' = [bootOf EXCEPT ![r] = boot]
        /\ ~Past(r) /\ foldedOn[r] = None
    BY <1>9, InNumbers DEF admit, Answer, RequestInv
  <2>2. InFlight' = InFlight \cup {r} /\ Today' = Today
    BY <2>1 DEF TypeOK, Today
  <2>3. /\ Cardinality(InFlight') \in Nat /\ Cardinality(InFlight) \in Nat
        /\ \A S \in SUBSET InFlight' : Cardinality(S) <= Cardinality(InFlight') /\ Cardinality(S) \in Nat
    BY <2>2, Sets, Counting
  <2>4. /\ \A i \in Boots : peak'[i] \in Nat /\ peak[i] <= peak'[i]
        /\ Cardinality(InFlight') <= peak'[boot]
    <3> HIDE DEF InFlight
    <3>1. peak' = [peak EXCEPT ![boot] = IF Cardinality(InFlight') > peak[boot]
                                         THEN Cardinality(InFlight') ELSE peak[boot]]
      BY <1>9, <2>2 DEF admit
    <3> QED
      BY <1>n, <2>3, <3>1 DEF TypeOK
  <2>5. ASSUME NEW i \in Boots, NEW d \in Days
        PROVE  Cardinality(Carried(i, d)') <= peak'[i]
    <3>1. CASE i = boot /\ d > Today
      <4>1. Carried(i, d)' \subseteq InFlight'
        BY <2>1, <3>1, <1>n, InNumbers DEF TypeOK, Days
      <4> HIDE DEF InFlight, Carried
      <4>2. Cardinality(Carried(i, d)') <= Cardinality(InFlight') /\ Cardinality(Carried(i, d)') \in Nat
        BY <2>3, <4>1
      <4> QED
        BY <2>3, <2>4, <3>1, <4>2
    <3>2. CASE ~(i = boot /\ d > Today)
      <4>1. d \in Nat
        BY DaysFollowTheClock, ServiceAssumption DEF Days
      <4>2. Carried(i, d)' = Carried(i, d)
        <5>1. \A q \in Requests : q # r => admitted'[q] = admitted[q] /\ bootOf'[q] = bootOf[q]
                                           /\ (state'[q] = "reading" <=> state[q] = "reading")
          BY <2>1 DEF TypeOK
        <5>2. admitted'[r] = now /\ bootOf'[r] = boot
          BY <2>1 DEF TypeOK
        <5> QED
          BY <2>1, <3>2, <4>1, <5>1, <5>2, <1>n DEF Today
      <4> HIDE DEF Carried, InFlight
      <4>3. Cardinality(Carried(i, d)) \in Nat /\ Cardinality(Carried(i, d)) <= peak[i]
        BY Sets, Counting DEF OverlapInv
      <4> QED
        BY <1>n, <2>4, <4>2, <4>3
    <3> QED
      BY <3>1, <3>2
  <2>6. ASSUME NEW i \in Boots, NEW d \in Days, Ceiling > 0
        PROVE  Cardinality(OfDay(i, d)') <= Ceiling - 1 + peak'[i]
    <3>1. CASE i = boot /\ d = Today
      <4>1. OfDay(i, d)' \subseteq Counted' \cup InFlight'
        BY <2>1, <2>2, <3>1 DEF Counted, FoldedBy
      <4>2. Counted' \in SUBSET Requests /\ InFlight' \in SUBSET Requests /\ OfDay(i, d)' \in SUBSET Requests
        BY DEF Counted, FoldedBy
      <4> HIDE DEF InFlight, OfDay
      <4>3. Cardinality(Counted') <= Ceiling - 1 /\ Cardinality(Counted') \in Nat
        <5>1. ingestToday' = countOf(Today) /\ ingestDay' = Today'
          BY <2>1, <2>2 DEF rollDay
        <5>2. ingestToday' < Ceiling /\ ingestToday' \in Nat
          <6>1. countOf(Today) \in Nat
            BY InNumbers DEF countOf
          <6> QED
            BY <2>1, <2>6, <5>1, <6>1, ServiceAssumption DEF ceilingReached
        <5>3. Cardinality(Counted') <= ingestToday' /\ Cardinality(Counted') \in Nat
          BY <4>2, <5>1, Counting DEF CountInv
        <5> QED
          BY <5>2, <5>3, ServiceAssumption
      <4>4. /\ Cardinality(OfDay(i, d)') <= Cardinality(Counted' \cup InFlight')
            /\ Cardinality(Counted' \cup InFlight') <= Cardinality(Counted') + Cardinality(InFlight')
            /\ Cardinality(OfDay(i, d)') \in Nat /\ Cardinality(Counted' \cup InFlight') \in Nat
        <5>1. Counted' \cup InFlight' \in SUBSET Requests
          BY <4>2
        <5>2. /\ Cardinality(OfDay(i, d)') <= Cardinality(Counted' \cup InFlight')
              /\ Cardinality(Counted' \cup InFlight') \in Nat
          BY <4>1, <5>1, Counting
        <5>3. Cardinality(Counted' \cup InFlight') <= Cardinality(Counted') + Cardinality(InFlight')
          BY <4>2, Counting
        <5>4. Cardinality(OfDay(i, d)') \in Nat
          BY <4>2, Counting
        <5> QED
          BY <5>2, <5>3, <5>4
      <4> QED
        BY <2>3, <2>4, <3>1, <4>3, <4>4, ServiceAssumption
    <3>2. CASE ~(i = boot /\ d = Today)
      <4>1. OfDay(i, d)' = OfDay(i, d)
        <5>1. \A q \in Requests : q # r => admitted'[q] = admitted[q] /\ bootOf'[q] = bootOf[q]
                                           /\ (state'[q] = "reading" <=> state[q] = "reading")
          BY <2>1 DEF TypeOK
        <5>2. admitted'[r] = now /\ bootOf'[r] = boot
          BY <2>1 DEF TypeOK
        <5> QED
          BY <2>1, <3>2, <5>1, <5>2, <1>n DEF Today
      <4> HIDE DEF OfDay, InFlight
      <4>2. Cardinality(OfDay(i, d)) \in Nat /\ Cardinality(OfDay(i, d)) <= Ceiling - 1 + peak[i]
        BY <2>6, Sets, Counting DEF OverlapInv
      <4> QED
        BY <1>n, <2>4, <4>1, <4>2, ServiceAssumption
    <3> QED
      BY <3>1, <3>2
  <2>7. boot' = boot /\ Cardinality(InFlight') <= peak'[boot']
    BY <2>1, <2>4
  <2> HIDE DEF InFlight, Carried, OfDay
  <2> QED
    BY <2>5, <2>6, <2>7 DEF OverlapInv
<1> QED
  BY <1>1, <1>2, <1>4, <1>6, <1>7, <1>8, <1>9 DEF Next

\* Every step keeps the limiter's memory of the window.
LEMMA ServiceLimiter == TypeOK /\ RequestInv /\ LimiterInv /\ [Next]_vars => LimiterInv'
<1> SUFFICES ASSUME TypeOK, RequestInv, LimiterInv, [Next]_vars PROVE LimiterInv'
  OBVIOUS
<1>n. /\ now \in Nat /\ boot \in Boots /\ Window \in Nat /\ Window > 0 /\ Limit \in Nat
  BY InNumbers, ServiceAssumption
<1>1. ASSUME UNCHANGED <<now, boot, admitted, bootOf, hits>> PROVE LimiterInv'
  BY <1>1 DEF LimiterInv, AdmittedBy, Past, cutoff
<1>2. ASSUME NEW r \in Requests,
             dailyCeilingReached(r) \/ bodyTooLarge(r) \/ refuse(r) \/ disconnect(r) \/ fold(r)
      PROVE  LimiterInv'
  BY <1>1, <1>2 DEF dailyCeilingReached, bodyTooLarge, refuse, disconnect, fold
<1>3. ASSUME NEW r \in Requests, rateLimited(r) PROVE LimiterInv'
  <2>1. /\ UNCHANGED <<now, boot, admitted, bootOf>>
        /\ hits' = [hits EXCEPT ![From[r]] = timesOf(From[r])]
    BY <1>3 DEF rateLimited
  <2>2. DOMAIN hits' = DOMAIN hits
    BY <2>1
  <2>3. \A k \in DOMAIN hits : hits'[k] = IF k = From[r] THEN timesOf(k) ELSE hits[k]
    BY <2>1
  <2> QED
    BY <2>1, <2>2, <2>3 DEF LimiterInv, AdmittedBy, Past, cutoff, timesOf
<1>4. ASSUME NEW r \in Requests, admit(r) PROVE LimiterInv'
  <2> DEFINE pushed == [k \in DOMAIN hits \cup {From[r]} |->
                          IF k = From[r] THEN timesOf(k) \cup {r} ELSE hits[k]]
             Holds(h) == /\ \A k \in DOMAIN h : h[k] \subseteq AdmittedBy(boot, k)'
                         /\ \A q \in Requests :
                              Past(q)' /\ bootOf'[q] = boot /\ admitted'[q] > cutoff
                                => From[q] \in DOMAIN h /\ q \in h[From[q]]
  <2>1. /\ UNCHANGED <<now, boot>> /\ ~Past(r) /\ admitted'[r] = now /\ bootOf'[r] = boot
        /\ \A q \in Requests : q # r => admitted'[q] = admitted[q] /\ bootOf'[q] = bootOf[q]
    BY <1>4 DEF admit, RequestInv, TypeOK
  <2>2. /\ hits' = IF Limit = 0 THEN hits
                   ELSE IF Cardinality(DOMAIN pushed) > MaxKeys THEN evict(pushed, r) ELSE pushed
    BY <1>4 DEF admit, allow
  <2>3. /\ \A k : AdmittedBy(boot, k) \subseteq AdmittedBy(boot, k)'
        /\ r \in AdmittedBy(boot, From[r])'
    <3>1. bootOf[r] # boot
      BY <1>n, <2>1 DEF RequestInv, None
    <3> QED
      BY <2>1, <3>1 DEF AdmittedBy
  <2>4. CASE Limit = 0
    <3>1. hits' = hits
      BY <2>2, <2>4
    <3> HIDE DEF pushed, Holds
    <3> QED
      BY <2>1, <2>3, <2>4, <3>1 DEF LimiterInv
  <2>5. CASE Limit > 0
    <3>1. Holds(pushed)
      <4>1. \A k \in DOMAIN pushed : pushed[k] \subseteq AdmittedBy(boot, k)'
        BY <2>3 DEF LimiterInv, timesOf
      <4>2. ASSUME NEW q \in Requests, Past(q)', bootOf'[q] = boot, admitted'[q] > cutoff
            PROVE  From[q] \in DOMAIN pushed /\ q \in pushed[From[q]]
        <5>1. CASE q = r
          BY <5>1
        <5>2. CASE q # r
          <6>1. From[q] \in DOMAIN hits /\ q \in hits[From[q]] /\ q \in timesOf(From[q])
            BY <2>1, <2>5, <4>2, <5>2 DEF LimiterInv, Past, timesOf
          <6> QED
            BY <6>1
        <5> QED
          BY <5>1, <5>2
      <4> HIDE DEF pushed
      <4> QED
        BY <4>1, <4>2
    <3>2. ASSUME NEW h, Holds(h) PROVE Holds(evict(h, r))
      <4>1. \A k \in DOMAIN evict(h, r) : k \in DOMAIN h /\ evict(h, r)[k] \subseteq h[k]
        BY DEF evict
      <4>2. ASSUME NEW q \in Requests, Past(q)', bootOf'[q] = boot, admitted'[q] > cutoff
            PROVE  From[q] \in DOMAIN evict(h, r) /\ q \in evict(h, r)[From[q]]
        <5>1. q = r \/ admitted[q] > cutoff
          BY <2>1, <4>2
        <5>2. From[q] \in DOMAIN h /\ q \in h[From[q]]
          BY <3>2, <4>2
        <5> QED
          BY <5>1, <5>2 DEF evict
      <4> QED
        BY <3>2, <4>1, <4>2
    <3>3. Holds(hits')
      <4> HIDE DEF pushed, Holds
      <4>1. hits' = pushed \/ hits' = evict(pushed, r)
        BY <1>n, <2>2, <2>5
      <4> QED
        BY <3>1, <3>2, <4>1
    <3>4. cutoff' = cutoff
      BY <2>1 DEF cutoff
    <3> HIDE DEF pushed
    <3> QED
      BY <2>1, <3>3, <3>4 DEF LimiterInv
  <2> QED
    BY <1>n, <2>4, <2>5
<1>5. ASSUME startService PROVE LimiterInv'
  <2>1. DOMAIN hits' = {}
    BY <1>5 DEF startService
  <2>2. \A r \in Requests : Past(r)' => bootOf'[r] # boot'
    BY <1>5, <1>n, InNumbers, ServiceAssumption DEF startService, Past
  <2> QED
    BY <2>1, <2>2 DEF LimiterInv
<1>6. ASSUME Tick PROVE LimiterInv'
  <2>1. UNCHANGED <<boot, admitted, bootOf, hits>> /\ now' = now + 1
    BY <1>6 DEF Tick, requests
  <2>2. \A r \in Requests : Past(r) /\ admitted[r] > now' - Window => admitted[r] > now - Window
    BY <1>n, <2>1, InNumbers
  <2> QED
    BY <2>1, <2>2 DEF LimiterInv, AdmittedBy, Past, cutoff
<1>7. CASE UNCHANGED vars
  BY <1>1, <1>7 DEF vars, requests
<1> QED
  BY <1>2, <1>3, <1>4, <1>5, <1>6, <1>7 DEF Next, Die, DieFolding

\* Every step keeps every window of every address within the limit.
LEMMA ServiceWindows ==
  TypeOK /\ RequestInv /\ LimiterInv /\ LimiterExact /\ [Next]_vars => LimiterExact'
<1> SUFFICES ASSUME TypeOK, RequestInv, LimiterInv, LimiterExact, [Next]_vars, Limit > 0
             PROVE  LimiterExact'
  BY DEF LimiterExact
<1>n. /\ now \in Nat /\ boot \in Boots /\ Window \in Nat /\ Window > 0 /\ Limit \in Nat
  BY InNumbers, ServiceAssumption
<1>1. ASSUME UNCHANGED <<admitted, bootOf>> PROVE LimiterExact'
  BY <1>1 DEF LimiterExact, AdmittedBy
<1>2. ASSUME NEW r \in Requests, admit(r) PROVE LimiterExact'
  <2>1. /\ ~Past(r) /\ admitted'[r] = now /\ bootOf'[r] = boot /\ ~overLimit(From[r])
        /\ \A q \in Requests : q # r => admitted'[q] = admitted[q] /\ bootOf'[q] = bootOf[q]
    BY <1>2 DEF admit, RequestInv, TypeOK
  <2>2. \A q \in Requests, i \in Boots : bootOf[q] = i =>
          Past(q) /\ admitted[q] \in Nat /\ admitted[q] <= now
    BY InNumbers DEF RequestInv, None
  <2>3. SUFFICES ASSUME NEW i \in Boots, NEW k \in Submitters, NEW q0 \in AdmittedBy(i, k)'
                 PROVE  Cardinality({q \in AdmittedBy(i, k)' :
                                       /\ admitted'[q] <= admitted'[q0]
                                       /\ admitted'[q] > admitted'[q0] - Window}) <= Limit
    BY DEF LimiterExact
  <2> DEFINE W == {q \in AdmittedBy(i, k)' : /\ admitted'[q] <= admitted'[q0]
                                             /\ admitted'[q] > admitted'[q0] - Window}
             V == {q \in AdmittedBy(i, k) : /\ admitted[q] <= admitted[q0]
                                            /\ admitted[q] > admitted[q0] - Window}
  <2>4. CASE i = boot /\ k = From[r] /\ admitted'[q0] = now
    <3>1. timesOf(k) \in SUBSET Requests /\ timesOf(k) \cup {r} \in SUBSET Requests
      BY DEF timesOf, TypeOK
    <3>2. W \subseteq timesOf(k) \cup {r}
      <4>1. ASSUME NEW q \in W, q # r PROVE q \in timesOf(k)
        <5>1. q \in Requests /\ bootOf[q] = boot /\ From[q] = k /\ admitted[q] > cutoff /\ Past(q)
          BY <2>1, <2>2, <2>4, <4>1 DEF AdmittedBy, cutoff
        <5> HIDE DEF W
        <5> QED
          BY <5>1 DEF LimiterInv, timesOf
      <4> QED
        BY <4>1
    <3>3. Cardinality(timesOf(k)) < Limit /\ Cardinality(timesOf(k)) \in Nat
      <4>1. Cardinality(timesOf(k)) \in Nat
        BY <3>1, Counting
      <4> HIDE DEF W, V
      <4> QED
        BY <1>n, <2>1, <2>4, <4>1 DEF overLimit
    <3>4. Cardinality(W) \in Nat /\ Cardinality(W) <= Cardinality(timesOf(k) \cup {r})
          /\ Cardinality(timesOf(k) \cup {r}) \in Nat
          /\ Cardinality(timesOf(k) \cup {r}) <= Cardinality(timesOf(k)) + 1
      <4>1. W \in SUBSET Requests
        BY DEF AdmittedBy
      <4> HIDE DEF W, V
      <4> QED
        BY <3>1, <3>2, <4>1, Counting
    <3>5. Cardinality(W) <= Limit
      <4> HIDE DEF W, V
      <4> QED
        BY <1>n, <3>3, <3>4
    <3> QED
      BY <3>5
  <2>5. CASE ~(i = boot /\ k = From[r] /\ admitted'[q0] = now)
    <3>1. q0 # r /\ q0 \in Requests /\ admitted'[q0] = admitted[q0] /\ q0 \in AdmittedBy(i, k)
          /\ admitted[q0] \in Nat /\ admitted[q0] <= now
      BY <2>1, <2>2, <2>5 DEF AdmittedBy
    <3>2. ASSUME NEW q \in Requests PROVE q \in W <=> q \in V
      <4>1. CASE q # r
        BY <2>1, <3>1, <4>1 DEF AdmittedBy
      <4>2. CASE q = r
        <5>1. r \notin V
          BY <2>1, <2>2 DEF AdmittedBy
        <5>2. r \notin W
          BY <1>n, <2>1, <2>5, <3>1 DEF AdmittedBy
        <5> QED
          BY <4>2, <5>1, <5>2
      <4> QED
        BY <4>1, <4>2
    <3>3. W = V
      BY <3>2 DEF AdmittedBy
    <3>4. Cardinality(V) <= Limit
      BY <3>1 DEF LimiterExact
    <3>5. Cardinality(W) <= Limit
      <4> HIDE DEF W, V
      <4> QED
        BY <3>3, <3>4
    <3> QED
      BY <3>5
  <2> QED
    BY <2>4, <2>5
<1>3. ~(\E r \in Requests : admit(r)) => UNCHANGED <<admitted, bootOf>>
  BY DEF Next, dailyCeilingReached, rateLimited, bodyTooLarge, refuse, fold, disconnect,
         DieFolding, Die, startService, Tick, vars, requests
<1> QED
  BY <1>1, <1>2, <1>3
-----------------------------------------------------------------------------
\* The invariant holds for any number of requests, addresses, days and starts.
THEOREM ServiceInductive == Spec => []ServiceInv
<1>1. Init => ServiceInv
  BY ServiceInit
<1>2. ServiceInv /\ [Next]_vars => ServiceInv'
  <2> SUFFICES ASSUME ServiceInv, [Next]_vars PROVE ServiceInv'
    OBVIOUS
  <2>1. TypeOK' /\ RequestInv' /\ CountInv' /\ LimiterInv' /\ LimiterExact'
    BY ServiceType, ServiceRequests, ServiceCount, ServiceLimiter, ServiceWindows DEF ServiceInv
  <2>2. OverlapInv'
    BY <2>1, ServiceOverlap DEF ServiceInv
  <2> QED
    BY <2>1, <2>2 DEF ServiceInv
<1> QED
  BY <1>1, <1>2, PTL DEF Spec

\* What startService promises of a day (server.ts:154): one start of the service
\* adds at most Ceiling - 1 submissions to it, and those that overlapped.
THEOREM CeilingOverrun == Spec => []FoldedWithinCeiling
<1>1. ServiceInv => FoldedWithinCeiling
  <2> SUFFICES ASSUME ServiceInv, Ceiling > 0, NEW i \in Boots, NEW d \in Days
               PROVE  Cardinality(FoldedBy(i, d)) <= Ceiling - 1 + 2 * peak[i]
    BY DEF FoldedWithinCeiling
  <2>0. TypeOK /\ RequestInv /\ OverlapInv
    BY DEF ServiceInv
  <2>1. peak[i] \in Nat /\ d \in Nat
    BY <2>0, InNumbers, DaysFollowTheClock, ServiceAssumption DEF Days
  <2>2. FoldedBy(i, d) \subseteq Carried(i, d) \cup OfDay(i, d)
    <3> SUFFICES ASSUME NEW r \in FoldedBy(i, d) PROVE r \in Carried(i, d) \cup OfDay(i, d)
      OBVIOUS
    <3>1. r \in Requests /\ bootOf[r] = i /\ foldedOn[r] = d /\ d # None
      BY <2>1 DEF FoldedBy, None
    <3>2. Past(r) /\ utcDay(admitted[r]) <= d /\ utcDay(admitted[r]) \in Nat
      BY <2>0, <3>1, InNumbers DEF RequestInv
    <3> QED
      BY <2>1, <3>1, <3>2 DEF Carried, OfDay
  <2>3. /\ Carried(i, d) \in SUBSET Requests /\ OfDay(i, d) \in SUBSET Requests
        /\ FoldedBy(i, d) \in SUBSET Requests /\ Carried(i, d) \cup OfDay(i, d) \in SUBSET Requests
    BY DEF Carried, OfDay, FoldedBy
  <2>4. /\ Cardinality(FoldedBy(i, d)) <= Cardinality(Carried(i, d) \cup OfDay(i, d))
        /\ Cardinality(FoldedBy(i, d)) \in Nat /\ Cardinality(Carried(i, d) \cup OfDay(i, d)) \in Nat
    BY <2>2, <2>3, Counting
  <2>5. /\ Cardinality(Carried(i, d) \cup OfDay(i, d))
             <= Cardinality(Carried(i, d)) + Cardinality(OfDay(i, d))
        /\ Cardinality(Carried(i, d)) \in Nat /\ Cardinality(OfDay(i, d)) \in Nat
    BY <2>3, Counting
  <2>6. Cardinality(Carried(i, d)) <= peak[i] /\ Cardinality(OfDay(i, d)) <= Ceiling - 1 + peak[i]
    BY <2>0 DEF OverlapInv
  <2> QED
    BY <2>1, <2>4, <2>5, <2>6, ServiceAssumption
<1> QED
  BY <1>1, ServiceInductive, PTL

\* EphemeralLimiter (server.ts:91): whatever it evicts, no window of an address
\* holds more than Limit admissions of one start.
THEOREM LimiterHolds == Spec => []LimiterExact
<1>1. ServiceInv => LimiterExact
  BY DEF ServiceInv
<1> QED
  BY <1>1, ServiceInductive, PTL

\* A 503 (server.ts:158) is answered on a full day only, a 429 (server.ts:166)
\* to an address that used up its window only.
THEOREM NoEarlyRefusal == Spec => RefusalsAreEarned
<1>1. ASSUME ServiceInv, [Next]_vars, NEW r \in Requests, state[r] = "new"
      PROVE  /\ state'[r] = "503" => Cardinality(FoldedBy(boot, Today)) >= Ceiling
             /\ state'[r] = "429" =>
                  Cardinality({q \in AdmittedBy(boot, From[r]) : admitted[q] > cutoff}) >= Limit
  <2>0. TypeOK /\ RequestInv /\ CountInv /\ LimiterInv
    BY <1>1 DEF ServiceInv
  <2>a. ASSUME state'[r] # state[r], state'[r] # "lost"
        PROVE  \/ dailyCeilingReached(r) \/ rateLimited(r) \/ admit(r)
    <3>1. ASSUME NEW q \in Requests,
                 dailyCeilingReached(q) \/ rateLimited(q) \/ admit(q)
          PROVE  q = r
      BY <2>0, <2>a, <3>1 DEF dailyCeilingReached, rateLimited, admit, Answer, TypeOK
    <3>2. ASSUME NEW q \in Requests, bodyTooLarge(q) \/ refuse(q) \/ fold(q) \/ disconnect(q)
          PROVE  FALSE
      BY <1>1, <2>0, <2>a, <3>2 DEF bodyTooLarge, refuse, fold, disconnect, Answer, TypeOK
    <3>3. ASSUME Die \/ \E q \in Requests : DieFolding(q) PROVE FALSE
      BY <2>a, <3>3 DEF Die, DieFolding, startService
    <3>4. ASSUME Tick \/ UNCHANGED vars PROVE FALSE
      BY <2>a, <3>4 DEF Tick, vars, requests
    <3> QED
      BY <1>1, <3>1, <3>2, <3>3, <3>4 DEF Next
  <2>1. state'[r] = "503" => dailyCeilingReached(r)
    BY <1>1, <2>0, <2>a DEF rateLimited, admit, Answer, TypeOK
  <2>2. state'[r] = "429" => rateLimited(r)
    BY <1>1, <2>0, <2>a DEF dailyCeilingReached, admit, Answer, TypeOK
  <2>3. ASSUME dailyCeilingReached(r) PROVE Cardinality(FoldedBy(boot, Today)) >= Ceiling
    <3>1. Ceiling > 0 /\ countOf(Today) >= Ceiling
      BY <2>3 DEF dailyCeilingReached, ceilingReached
    <3>2. ingestDay = Today /\ ingestToday >= Ceiling
      BY <3>1, ServiceAssumption DEF countOf
    <3>3. Cardinality(FoldedBy(boot, Today)) \in Nat /\ ingestToday \in Nat
      BY <2>0, Sets, Counting, InNumbers
    <3> QED
      BY <2>0, <3>2, <3>3, ServiceAssumption DEF CountInv
  <2>4. ASSUME rateLimited(r)
        PROVE  Cardinality({q \in AdmittedBy(boot, From[r]) : admitted[q] > cutoff}) >= Limit
    <3> DEFINE S == {q \in AdmittedBy(boot, From[r]) : admitted[q] > cutoff}
    <3>1. S \in SUBSET Requests
      BY DEF AdmittedBy
    <3>2. timesOf(From[r]) \subseteq S
      BY <2>0 DEF timesOf, LimiterInv
    <3>3. Cardinality(timesOf(From[r])) >= Limit
      BY <2>4 DEF rateLimited, overLimit
    <3>4. Cardinality(S) >= Limit
      <4> HIDE DEF S
      <4>1. /\ Cardinality(timesOf(From[r])) <= Cardinality(S)
            /\ Cardinality(timesOf(From[r])) \in Nat /\ Cardinality(S) \in Nat
        BY <3>1, <3>2, Counting
      <4> QED
        BY <3>3, <4>1, ServiceAssumption
    <3> QED
      BY <3>4
  <2> QED
    BY <2>1, <2>2, <2>3, <2>4
<1>2. ServiceInv /\ [Next]_vars =>
        [\A r \in Requests : state[r] = "new" =>
           /\ state'[r] = "503" => Cardinality(FoldedBy(boot, Today)) >= Ceiling
           /\ state'[r] = "429" =>
                Cardinality({q \in AdmittedBy(boot, From[r]) : admitted[q] > cutoff}) >= Limit]_vars
  BY <1>1
<1> QED
  BY <1>2, ServiceInductive, PTL DEF Spec, RefusalsAreEarned
-----------------------------------------------------------------------------
(***************************************************************************)
(* The rows of the database.  Each counts a set of requests, those of one  *)
(* bucket or with one label, and lies between those answered and those     *)
(* added on the day, wherever the process died in between.                 *)
(***************************************************************************)

FoldedTo(d) == {r \in Requests : foldedOn[r] = d}
ToldOf(d)   == {r \in FoldedTo(d) : state[r] = "202"}
OfBucket(b) == {r \in Requests : BucketOf[r] = b}
OfLabel(x)  == {r \in Requests : x \in LabelsOf[r]}

\* n counts requests of M on day d, each once.
Counts(n, d, M) ==
  Cardinality(ToldOf(d) \cap M) <= n /\ n <= Cardinality(FoldedTo(d) \cap M)

RowInv ==
  \A d \in Days : /\ \A b \in Buckets : Counts(buckets[d][b], d, OfBucket(b))
                  /\ \A x \in Labels : Counts(labels[d][x], d, OfLabel(x))

\* The same invariant, with the sets named.
LEMMA RowsNamed == RowInv <=> RowsAreRequests
<1> DEFINE BucketRow(d, b) ==
             /\ Cardinality({r \in ToldOf(d) : BucketOf[r] = b}) <= buckets[d][b]
             /\ buckets[d][b] <= Cardinality({r \in FoldedTo(d) : BucketOf[r] = b})
           LabelRow(d, x) ==
             /\ Cardinality({r \in ToldOf(d) : x \in LabelsOf[r]}) <= labels[d][x]
             /\ labels[d][x] <= Cardinality({r \in FoldedTo(d) : x \in LabelsOf[r]})
<1>1. ASSUME NEW d, NEW b
      PROVE  Counts(buckets[d][b], d, OfBucket(b)) <=> BucketRow(d, b)
  <2>1. /\ ToldOf(d) \cap OfBucket(b) = {r \in ToldOf(d) : BucketOf[r] = b}
        /\ FoldedTo(d) \cap OfBucket(b) = {r \in FoldedTo(d) : BucketOf[r] = b}
    BY DEF ToldOf, FoldedTo, OfBucket
  <2> QED
    BY <2>1, Zenon DEF Counts
<1>2. ASSUME NEW d, NEW x
      PROVE  Counts(labels[d][x], d, OfLabel(x)) <=> LabelRow(d, x)
  <2>1. /\ ToldOf(d) \cap OfLabel(x) = {r \in ToldOf(d) : x \in LabelsOf[r]}
        /\ FoldedTo(d) \cap OfLabel(x) = {r \in FoldedTo(d) : x \in LabelsOf[r]}
    BY DEF ToldOf, FoldedTo, OfLabel
  <2> QED
    BY <2>1, Zenon DEF Counts
<1>3. RowsAreRequests <=>
        \A d \in Days : (\A b \in Buckets : BucketRow(d, b)) /\ (\A x \in Labels : LabelRow(d, x))
  BY DEF RowsAreRequests, ToldOf, FoldedTo
<1> HIDE DEF BucketRow, LabelRow
<1> QED
  BY <1>1, <1>2, <1>3, Zenon DEF RowInv

\* A row that stays, when no more requests are told.
LEMMA KeptRow ==
  ASSUME NEW T \in SUBSET Requests, NEW T2 \in SUBSET T, NEW M, NEW n \in Nat,
         Cardinality(T \cap M) <= n
  PROVE  Cardinality(T2 \cap M) <= n
<1>1. /\ T \cap M \in SUBSET Requests /\ T2 \cap M \in SUBSET Requests
      /\ T2 \cap M \in SUBSET (T \cap M)
  OBVIOUS
<1>2. /\ Cardinality(T2 \cap M) <= Cardinality(T \cap M)
      /\ Cardinality(T2 \cap M) \in Nat /\ Cardinality(T \cap M) \in Nat
  BY <1>1, Counting
<1> QED
  BY <1>2

\* A row that is raised for the requests of M only, and for each that is told.
LEMMA RaisedRow ==
  ASSUME NEW F \in SUBSET Requests, NEW T \in SUBSET F, NEW M \in SUBSET Requests,
         NEW n \in Nat, NEW k \in {0, 1}, NEW r \in Requests \ F,
         NEW T2 \in SUBSET (T \cup {r}),
         Cardinality(T \cap M) <= n, n <= Cardinality(F \cap M),
         k = 1 => r \in M,  r \in T2 /\ r \in M => k = 1
  PROVE  Cardinality(T2 \cap M) <= n + k /\ n + k <= Cardinality((F \cup {r}) \cap M)
<1>1. /\ F \cap M \in SUBSET Requests /\ T \cap M \in SUBSET Requests
      /\ r \notin F \cap M /\ r \notin T \cap M
      /\ T2 \cap M \in SUBSET Requests /\ (T \cap M) \cup {r} \in SUBSET Requests
  OBVIOUS
<1>2. /\ Cardinality(F \cap M) \in Nat /\ Cardinality(T \cap M) \in Nat
      /\ Cardinality(T2 \cap M) \in Nat
      /\ Cardinality((F \cap M) \cup {r}) = Cardinality(F \cap M) + 1
      /\ Cardinality((T \cap M) \cup {r}) = Cardinality(T \cap M) + 1
  BY <1>1, Counting
<1>3. n + k <= Cardinality((F \cup {r}) \cap M)
  <2>1. CASE r \in M
    <3>1. (F \cup {r}) \cap M = (F \cap M) \cup {r}
      BY <2>1
    <3>2. Cardinality((F \cup {r}) \cap M) = Cardinality(F \cap M) + 1
      BY <1>2, <3>1, Zenon
    <3> QED
      BY <1>2, <3>2
  <2>2. CASE r \notin M
    <3>1. (F \cup {r}) \cap M = F \cap M
      BY <2>2
    <3>2. Cardinality((F \cup {r}) \cap M) = Cardinality(F \cap M)
      BY <3>1, Zenon
    <3> QED
      BY <2>2, <3>2
  <2> QED
    BY <2>1, <2>2
<1>4. Cardinality(T2 \cap M) <= n + k
  <2>1. CASE r \in T2 \cap M
    <3>1. T2 \cap M \in SUBSET ((T \cap M) \cup {r})
      OBVIOUS
    <3>2. Cardinality(T2 \cap M) <= Cardinality((T \cap M) \cup {r})
      BY <1>1, <3>1, Counting
    <3> QED
      BY <1>2, <2>1, <3>2
  <2>2. CASE r \notin T2 \cap M
    <3>1. T2 \cap M \in SUBSET (T \cap M)
      BY <2>2
    <3>2. Cardinality(T2 \cap M) <= Cardinality(T \cap M)
      BY <1>1, <3>1, Counting
    <3> QED
      BY <1>2, <3>2
  <2> QED
    BY <2>1, <2>2
<1> QED
  BY <1>3, <1>4

\* The initial state has empty rows.
LEMMA RowInit == Init => RowInv
<1> SUFFICES ASSUME Init PROVE RowInv
  OBVIOUS
<1>1. ASSUME NEW d \in Days, NEW M PROVE Counts(0, d, M)
  <2>1. ToldOf(d) \cap M = {} /\ FoldedTo(d) \cap M = {}
    <3>1. d # None
      BY ServiceAssumption DEF Days
    <3>2. \A r \in Requests : foldedOn[r] = None
      BY DEF Init
    <3> QED
      BY <3>1, <3>2 DEF ToldOf, FoldedTo
  <2>2. Cardinality(ToldOf(d) \cap M) = 0 /\ Cardinality(FoldedTo(d) \cap M) = 0
    BY <2>1, FS_EmptySet, Zenon
  <2> QED
    BY <2>2 DEF Counts
<1>2. ASSUME NEW d \in Days
      PROVE  /\ \A b \in Buckets : buckets[d][b] = 0
             /\ \A x \in Labels : labels[d][x] = 0
  BY DEF Init
<1>3. ASSUME NEW d \in Days, NEW b \in Buckets PROVE Counts(buckets[d][b], d, OfBucket(b))
  BY <1>1, <1>2, Zenon
<1>4. ASSUME NEW d \in Days, NEW x \in Labels PROVE Counts(labels[d][x], d, OfLabel(x))
  BY <1>1, <1>2, Zenon
<1> QED
  BY <1>3, <1>4 DEF RowInv

\* A step that adds no request to a day and answers none leaves the rows right.
LEMMA RowsKept ==
  ASSUME RowInv, TypeOK, UNCHANGED <<foldedOn, buckets, labels>>,
         \A r \in Requests : state'[r] = "202" => state[r] = "202"
  PROVE  RowInv'
<1>1. ASSUME NEW n \in Nat, NEW d \in Days, NEW M, Counts(n, d, M)
      PROVE  Cardinality(ToldOf(d)' \cap M) <= n /\ n <= Cardinality(FoldedTo(d)' \cap M)
  <2>1. /\ FoldedTo(d)' = FoldedTo(d) /\ ToldOf(d) \in SUBSET Requests
        /\ ToldOf(d)' \in SUBSET ToldOf(d)
    BY DEF FoldedTo, ToldOf
  <2>2. Cardinality(FoldedTo(d)' \cap M) = Cardinality(FoldedTo(d) \cap M)
    BY <2>1, Zenon
  <2>3. Cardinality(ToldOf(d) \cap M) <= n /\ n <= Cardinality(FoldedTo(d) \cap M)
    BY <1>1 DEF Counts
  <2>4. Cardinality(ToldOf(d)' \cap M) <= n
    BY <2>1, <2>3, KeptRow
  <2> QED
    BY <2>2, <2>3, <2>4, Zenon
<1>2. ASSUME NEW d \in Days, NEW b \in Buckets PROVE Counts(buckets[d][b], d, OfBucket(b))'
  <2> DEFINE n == buckets[d][b]
  <2>1. n \in Nat /\ Counts(n, d, OfBucket(b)) /\ n' = n
    BY DEF RowInv, TypeOK
  <2>2. /\ Cardinality(ToldOf(d)' \cap OfBucket(b)) <= n
        /\ n <= Cardinality(FoldedTo(d)' \cap OfBucket(b))
    BY <1>1, <2>1
  <2> QED
    BY <2>1, <2>2 DEF Counts, OfBucket
<1>3. ASSUME NEW d \in Days, NEW x \in Labels PROVE Counts(labels[d][x], d, OfLabel(x))'
  <2> DEFINE n == labels[d][x]
  <2>1. n \in Nat /\ Counts(n, d, OfLabel(x)) /\ n' = n
    BY DEF RowInv, TypeOK
  <2>2. /\ Cardinality(ToldOf(d)' \cap OfLabel(x)) <= n
        /\ n <= Cardinality(FoldedTo(d)' \cap OfLabel(x))
    BY <1>1, <2>1
  <2> QED
    BY <2>1, <2>2 DEF Counts, OfLabel
<1> QED
  BY <1>2, <1>3 DEF RowInv

\* Adding r to today's bucket and to some of its labels, all of them if r is
\* answered, leaves the rows right.
LEMMA RowsRaised ==
  ASSUME RowInv, TypeOK, NEW r \in Requests, foldedOn[r] = None,
         foldBucket(r), NEW xs \in SUBSET LabelsOf[r], foldLabels(xs),
         \A q \in Requests \ {r} : state'[q] = "202" => state[q] = "202",
         state'[r] = "202" => xs = LabelsOf[r]
  PROVE  RowInv'
<1>0. /\ Today \in Days /\ BucketOf[r] \in Buckets
      /\ \A d \in Days : d # None
  BY TodayIsADay, ServiceAssumption DEF Buckets, Days
<1>1. ASSUME NEW n \in Nat, NEW k \in {0, 1}, NEW d \in Days, NEW M \in SUBSET Requests,
             Counts(n, d, M),
             k = 1 => d = Today /\ r \in M,
             d = Today /\ state'[r] = "202" /\ r \in M => k = 1
      PROVE  Cardinality(ToldOf(d)' \cap M) <= n + k /\ n + k <= Cardinality(FoldedTo(d)' \cap M)
  <2>1. /\ FoldedTo(d) \in SUBSET Requests /\ ToldOf(d) \in SUBSET FoldedTo(d)
        /\ r \in Requests \ FoldedTo(d)
    BY <1>0 DEF FoldedTo, ToldOf
  <2>2. Cardinality(ToldOf(d) \cap M) <= n /\ n <= Cardinality(FoldedTo(d) \cap M)
    BY <1>1 DEF Counts
  <2>3. CASE d = Today
    <3>1. /\ FoldedTo(d)' = FoldedTo(d) \cup {r}
          /\ ToldOf(d)' \in SUBSET (ToldOf(d) \cup {r})
          /\ r \in ToldOf(d)' => state'[r] = "202"
      BY <2>3 DEF FoldedTo, ToldOf, foldBucket, TypeOK
    <3>2. /\ Cardinality(ToldOf(d)' \cap M) <= n + k
          /\ n + k <= Cardinality((FoldedTo(d) \cup {r}) \cap M)
      BY <1>1, <2>1, <2>2, <2>3, <3>1, RaisedRow
    <3> QED
      BY <3>1, <3>2, Zenon
  <2>4. CASE d # Today
    <3>1. /\ FoldedTo(d)' = FoldedTo(d) /\ ToldOf(d)' \in SUBSET ToldOf(d)
          /\ ToldOf(d) \in SUBSET Requests
      BY <2>1, <2>4 DEF FoldedTo, ToldOf, foldBucket, TypeOK
    <3>2. n + k = n
      BY <1>1, <2>4
    <3>3. Cardinality(ToldOf(d)' \cap M) <= n
      BY <2>2, <3>1, KeptRow
    <3> QED
      BY <2>2, <3>1, <3>2, <3>3, Zenon
  <2> QED
    BY <2>3, <2>4
<1>2. ASSUME NEW d \in Days, NEW b \in Buckets PROVE Counts(buckets[d][b], d, OfBucket(b))'
  <2> DEFINE n == buckets[d][b]
             k == IF d = Today /\ BucketOf[r] = b THEN 1 ELSE 0
  <2>1. n \in Nat /\ Counts(n, d, OfBucket(b))
    BY DEF RowInv, TypeOK
  <2>2. n' = n + k
    BY <1>0, <2>1 DEF foldBucket, TypeOK
  <2>3. /\ k \in {0, 1} /\ OfBucket(b) \in SUBSET Requests
        /\ k = 1 => d = Today /\ r \in OfBucket(b)
        /\ d = Today /\ r \in OfBucket(b) => k = 1
    BY DEF OfBucket
  <2> HIDE DEF n, k
  <2>4. /\ Cardinality(ToldOf(d)' \cap OfBucket(b)) <= n + k
        /\ n + k <= Cardinality(FoldedTo(d)' \cap OfBucket(b))
    BY <1>1, <2>1, <2>3
  <2>5. Cardinality(ToldOf(d)' \cap OfBucket(b)) <= n' /\ n' <= Cardinality(FoldedTo(d)' \cap OfBucket(b))
    BY <2>2, <2>4
  <2> QED
    BY <2>5 DEF n, Counts, OfBucket
<1>3. ASSUME NEW d \in Days, NEW x \in Labels PROVE Counts(labels[d][x], d, OfLabel(x))'
  <2> DEFINE n == labels[d][x]
             k == IF d = Today /\ x \in xs THEN 1 ELSE 0
  <2>1. n \in Nat /\ Counts(n, d, OfLabel(x))
    BY DEF RowInv, TypeOK
  <2>2. n' = n + k
    BY <1>0, <2>1 DEF foldLabels, TypeOK
  <2>3. /\ k \in {0, 1} /\ OfLabel(x) \in SUBSET Requests
        /\ k = 1 => d = Today /\ r \in OfLabel(x)
        /\ d = Today /\ state'[r] = "202" /\ r \in OfLabel(x) => k = 1
    BY DEF OfLabel
  <2> HIDE DEF n, k
  <2>4. /\ Cardinality(ToldOf(d)' \cap OfLabel(x)) <= n + k
        /\ n + k <= Cardinality(FoldedTo(d)' \cap OfLabel(x))
    BY <1>1, <2>1, <2>3
  <2>5. Cardinality(ToldOf(d)' \cap OfLabel(x)) <= n' /\ n' <= Cardinality(FoldedTo(d)' \cap OfLabel(x))
    BY <2>2, <2>4
  <2> QED
    BY <2>5 DEF n, Counts, OfLabel
<1> QED
  BY <1>2, <1>3 DEF RowInv

\* Every step keeps the rows right.
LEMMA RowStep == ServiceInv /\ RowInv /\ [Next]_vars => RowInv'
<1> SUFFICES ASSUME ServiceInv, RowInv, [Next]_vars PROVE RowInv'
  OBVIOUS
<1>0. TypeOK /\ RequestInv
  BY DEF ServiceInv
<1> DEFINE Quiet == /\ UNCHANGED <<foldedOn, buckets, labels>>
                    /\ \A r \in Requests : state'[r] = "202" => state[r] = "202"
<1>1. Quiet => RowInv'
  BY <1>0, RowsKept
<1>2. ASSUME NEW r \in Requests,
             dailyCeilingReached(r) \/ rateLimited(r) \/ admit(r)
               \/ bodyTooLarge(r) \/ refuse(r) \/ disconnect(r)
      PROVE  Quiet
  <2>1. UNCHANGED <<foldedOn, buckets, labels>>
    BY <1>2 DEF dailyCeilingReached, rateLimited, admit, bodyTooLarge, refuse, disconnect,
       database
  <2>2. PICK c \in {"503", "429", "reading", "413", "400", "lost"} :
          state' = [state EXCEPT ![r] = c]
    BY <1>2 DEF dailyCeilingReached, rateLimited, admit, bodyTooLarge, refuse, disconnect,
       Answer
  <2> QED
    BY <1>0, <2>1, <2>2 DEF TypeOK
<1>3. ASSUME NEW r \in Requests, fold(r) PROVE RowInv'
  <2>1. /\ foldedOn[r] = None /\ foldBucket(r) /\ foldLabels(LabelsOf[r])
        /\ \A q \in Requests \ {r} : state'[q] = state[q]
    BY <1>0, <1>3 DEF fold, Answer, RequestInv, TypeOK
  <2> QED
    BY <1>0, <2>1, RowsRaised
<1>4. ASSUME NEW r \in Requests, DieFolding(r) PROVE RowInv'
  <2>1. PICK xs \in SUBSET LabelsOf[r] : foldLabels(xs)
    BY <1>4 DEF DieFolding
  <2>2. /\ foldedOn[r] = None /\ foldBucket(r) /\ state'[r] # "202"
        /\ \A q \in Requests : state'[q] = "202" => state[q] = "202"
    BY <1>0, <1>4 DEF DieFolding, startService, RequestInv, TypeOK, InFlight
  <2> QED
    BY <1>0, <2>1, <2>2, RowsRaised
<1>5. CASE Die
  BY <1>0, <1>1, <1>5 DEF Die, startService, database, InFlight, TypeOK
<1>6. CASE Tick \/ UNCHANGED vars
  BY <1>1, <1>6 DEF Tick, vars, requests, database
<1> QED
  BY <1>1, <1>2, <1>3, <1>4, <1>5, <1>6 DEF Next

\* A row counts each request once (db.ts:98-123), whatever came in between and
\* wherever the process died: at least those answered 202, at most those added.
THEOREM RowsCountRequests == Spec => []RowsAreRequests
<1>1. Init => RowInv
  BY RowInit
<1>2. RowInv => RowsAreRequests
  BY RowsNamed
<1> QED
  BY <1>1, <1>2, ServiceInductive, RowStep, PTL DEF Spec

\* What is published of a day (db.ts:133) stands for Threshold requests of that day,
\* also where a restart left a fold half written.
THEOREM PublishedHidesTheFew == Spec => []PublishedIsOfMany
<1>1. TypeOK /\ RowsAreRequests => PublishedIsOfMany
  <2> SUFFICES ASSUME TypeOK, RowInv, NEW d \in Days
               PROVE  /\ \A b \in stats(d).buckets :
                           Cardinality({r \in OfBucket(b) : foldedOn[r] = d}) >= Threshold
                      /\ \A x \in stats(d).labels :
                           Cardinality({r \in OfLabel(x) : foldedOn[r] = d}) >= Threshold
    BY RowsNamed DEF PublishedIsOfMany, OfBucket, OfLabel
  <2>1. ASSUME NEW n \in Nat, NEW M \in SUBSET Requests, Counts(n, d, M), n >= Threshold
        PROVE  Cardinality({r \in M : foldedOn[r] = d}) >= Threshold
    <3>1. /\ {r \in M : foldedOn[r] = d} = FoldedTo(d) \cap M
          /\ FoldedTo(d) \cap M \in SUBSET Requests
      BY DEF FoldedTo
    <3>2. Cardinality({r \in M : foldedOn[r] = d}) = Cardinality(FoldedTo(d) \cap M)
      BY <3>1, Zenon
    <3>3. Cardinality(FoldedTo(d) \cap M) \in Nat
      BY <3>1, Counting
    <3> QED
      BY <2>1, <3>2, <3>3, ServiceAssumption DEF Counts
  <2>2. ASSUME NEW b \in stats(d).buckets
        PROVE  Cardinality({r \in OfBucket(b) : foldedOn[r] = d}) >= Threshold
    <3>1. b \in Buckets /\ buckets[d][b] >= Threshold
      BY <2>2 DEF stats, thick
    <3>2. /\ buckets[d][b] \in Nat /\ Counts(buckets[d][b], d, OfBucket(b))
          /\ OfBucket(b) \in SUBSET Requests
      BY <3>1 DEF TypeOK, RowInv, OfBucket
    <3> QED
      BY <2>1, <3>1, <3>2
  <2>3. ASSUME NEW x \in stats(d).labels
        PROVE  Cardinality({r \in OfLabel(x) : foldedOn[r] = d}) >= Threshold
    <3>1. x \in Labels /\ labels[d][x] >= Threshold
      BY <2>3 DEF stats, thick
    <3>2. /\ labels[d][x] \in Nat /\ Counts(labels[d][x], d, OfLabel(x))
          /\ OfLabel(x) \in SUBSET Requests
      BY <3>1 DEF TypeOK, RowInv, OfLabel
    <3> QED
      BY <2>1, <3>1, <3>2
  <2> QED
    BY <2>2, <2>3
<1>2. ServiceInv => TypeOK
  BY DEF ServiceInv
<1> QED
  BY <1>1, <1>2, ServiceInductive, RowsCountRequests, PTL
=============================================================================
