------------------------- MODULE TelemetryService -------------------------
(***************************************************************************)
(* The telemetry aggregation service: service/src/server.ts and db.ts.     *)
(*                                                                         *)
(* One process with one event loop: a callback runs to its end before the  *)
(* next one starts, so each is one action.  What interleaves are requests: *)
(* the headers of one are admitted (or refused) in one callback, and its   *)
(* body ends in another, possibly on another day, with any number of other *)
(* requests in between.  A kill, or a throw of SQLite that nobody catches, *)
(* ends the process between two statements of a callback; what SQLite had  *)
(* committed stays, the counters and the limiter of the process do not.    *)
(*                                                                         *)
(* Left out: the body's bytes and the validator's reasons (a body is too   *)
(* large, refused or accepted, whichever the client sent), the counts a    *)
(* bucket sums besides its submissions, and a clock that steps back.       *)
(***************************************************************************)
EXTENDS Integers, FiniteSets

CONSTANTS
  Requests,     \* POSTs to /v1/telemetry
  From,         \* From[r]: the remote address of r, which the limiter hashes
  BucketOf,     \* BucketOf[r]: platform, node and agents of r's payload
  LabelsOf,     \* LabelsOf[r]: the rules and checklist steps of r's payload
  Ceiling,      \* dailyIngestCeiling, 0 to disable
  Limit,        \* rateLimit, 0 to disable
  Window,       \* rateWindowMs, in ticks
  MaxKeys,      \* keys of the limiter before it evicts (10 000 in the code)
  Threshold,    \* K_ANONYMITY_THRESHOLD
  DayLength,    \* ticks of a UTC day
  MaxTime,      \* bound: the last tick
  MaxBoots      \* bound: starts of the service

Submitters == {From[r] : r \in Requests}
Buckets    == {BucketOf[r] : r \in Requests}
Labels     == UNION {LabelsOf[r] : r \in Requests}
Boots      == 1..MaxBoots
utcDay(t)  == t \div DayLength
Days       == 0..utcDay(MaxTime)
Reasons    == {"daily_ceiling_reached", "body_too_large", "refused"}
None       == -1

ASSUME ServiceAssumption ==
  /\ IsFiniteSet(Requests)
  /\ DOMAIN From = Requests /\ DOMAIN BucketOf = Requests /\ DOMAIN LabelsOf = Requests
  /\ Ceiling \in Nat /\ Limit \in Nat /\ Threshold \in Nat /\ Window \in Nat \ {0} /\ MaxKeys \in Nat
  /\ DayLength \in Nat \ {0} /\ MaxTime \in Nat /\ MaxBoots \in Nat \ {0}

VARIABLES
  now,          \* Date.now()
  boot,         \* which start of the service this is
  state,        \* where each request is: waiting, being read, answered, lost
  admitted,     \* when its headers were let in (history; the limiter's times)
  bootOf,       \* by which start
  foldedOn,     \* the day whose bucket it was added to (history)
  ingestDay,    \* the two counters of startService
  ingestToday,
  hits,         \* EphemeralLimiter.hits, a time standing as the request it is of
  buckets,      \* submissions of buckets, by day and bucket
  labels,       \* submissions of rule_totals and checklist_totals
  rejections,   \* n of rejections
  peak          \* most requests each start was reading at one time (history)

requests == <<state, admitted, bootOf, foldedOn>>
counters == <<ingestDay, ingestToday>>
database == <<buckets, labels, rejections>>
vars     == <<now, boot, requests, counters, hits, database, peak>>

Answers  == {"202", "400", "413", "429", "503"}
InFlight == {r \in Requests : state[r] = "reading"}
Today    == utcDay(now)

Init ==
  /\ now = 0 /\ boot = 1
  /\ state = [r \in Requests |-> "new"]
  /\ admitted = [r \in Requests |-> None]
  /\ bootOf = [r \in Requests |-> None]
  /\ foldedOn = [r \in Requests |-> None]
  /\ ingestDay = None /\ ingestToday = 0
  /\ hits = [k \in {} |-> {}]
  /\ buckets = [d \in Days |-> [b \in Buckets |-> 0]]
  /\ labels = [d \in Days |-> [x \in Labels |-> 0]]
  /\ rejections = [d \in Days |-> [w \in Reasons |-> 0]]
  /\ peak = [i \in Boots |-> 0]
-----------------------------------------------------------------------------
(* Admission: the request callback, run when the headers are there. *)

\* The day roll: the count this request is compared with.
countOf(day) == IF day = ingestDay THEN ingestToday ELSE 0
rollDay      == ingestDay' = Today /\ ingestToday' = countOf(Today)

ceilingReached == Ceiling > 0 /\ countOf(Today) >= Ceiling

cutoff   == now - Window
timesOf(k) == IF k \in DOMAIN hits THEN {q \in hits[k] : admitted[q] > cutoff} ELSE {}
overLimit(k) == Limit > 0 /\ Cardinality(timesOf(k)) >= Limit

\* Drops the keys whose times have all left the window; r's time is now.
evict(h, r) ==
  LET kept(k) == {q \in h[k] : q = r \/ admitted[q] > cutoff}
  IN  [k \in {j \in DOMAIN h : kept(j) # {}} |-> kept(k)]

\* limiter.allow of a request that is under the limit.
allow(r) ==
  LET pushed == [k \in DOMAIN hits \cup {From[r]} |->
                   IF k = From[r] THEN timesOf(k) \cup {r} ELSE hits[k]]
  IN  hits' = IF Limit = 0 THEN hits
              ELSE IF Cardinality(DOMAIN pushed) > MaxKeys THEN evict(pushed, r)
              ELSE pushed

recordRejection(reason) == rejections' = [rejections EXCEPT ![Today][reason] = @ + 1]

Answer(r, code) == state' = [state EXCEPT ![r] = code]

dailyCeilingReached(r) ==
  /\ state[r] = "new" /\ ceilingReached
  /\ rollDay
  /\ recordRejection("daily_ceiling_reached")
  /\ Answer(r, "503")
  /\ UNCHANGED <<now, boot, admitted, bootOf, foldedOn, hits, buckets, labels, peak>>

rateLimited(r) ==
  /\ state[r] = "new" /\ ~ceilingReached /\ overLimit(From[r])
  /\ rollDay
  /\ hits' = [hits EXCEPT ![From[r]] = timesOf(From[r])]
  /\ Answer(r, "429")
  /\ UNCHANGED <<now, boot, admitted, bootOf, foldedOn, database, peak>>

admit(r) ==
  /\ state[r] = "new" /\ ~ceilingReached /\ ~overLimit(From[r])
  /\ rollDay
  /\ allow(r)
  /\ Answer(r, "reading")
  /\ admitted' = [admitted EXCEPT ![r] = now]
  /\ bootOf' = [bootOf EXCEPT ![r] = boot]
  /\ LET reading == Cardinality(InFlight \cup {r})
     IN  peak' = [peak EXCEPT ![boot] = IF reading > @ THEN reading ELSE @]
  /\ UNCHANGED <<now, boot, foldedOn, database>>
-----------------------------------------------------------------------------
(* The body: the 'data', 'end' and 'error' callbacks. *)

bodyTooLarge(r) ==
  /\ state[r] = "reading"
  /\ recordRejection("body_too_large")
  /\ Answer(r, "413")
  /\ UNCHANGED <<now, boot, admitted, bootOf, foldedOn, counters, hits, buckets, labels, peak>>

\* Not JSON, or not a payload the validator lets through.
refuse(r) ==
  /\ state[r] = "reading"
  /\ recordRejection("refused")
  /\ Answer(r, "400")
  /\ UNCHANGED <<now, boot, admitted, bootOf, foldedOn, counters, hits, buckets, labels, peak>>

\* The bucket's row, then one row for every rule and every step.
foldBucket(r) ==
  /\ buckets' = [buckets EXCEPT ![Today][BucketOf[r]] = @ + 1]
  /\ foldedOn' = [foldedOn EXCEPT ![r] = Today]
foldLabels(xs) ==
  labels' = [labels EXCEPT ![Today] = [x \in Labels |-> @[x] + (IF x \in xs THEN 1 ELSE 0)]]

\* Mutation: an accepted submission is not counted.
countNothing == UNCHANGED ingestToday

countAccepted == ingestToday' = ingestToday + 1

fold(r) ==
  /\ state[r] = "reading"
  /\ foldBucket(r) /\ foldLabels(LabelsOf[r]) /\ countAccepted
  /\ Answer(r, "202")
  /\ UNCHANGED <<now, boot, admitted, bootOf, ingestDay, hits, rejections, peak>>

\* The client goes away before its body ended.
disconnect(r) ==
  /\ state[r] = "reading"
  /\ Answer(r, "lost")
  /\ UNCHANGED <<now, boot, admitted, bootOf, foldedOn, counters, hits, database, peak>>
-----------------------------------------------------------------------------
(* The end of the process and its next start. *)

\* Every open request is lost; the counters and the limiter start anew.
startService ==
  /\ boot < MaxBoots /\ boot' = boot + 1
  /\ state' = [r \in Requests |-> IF r \in InFlight THEN "lost" ELSE state[r]]
  /\ ingestDay' = None /\ ingestToday' = 0
  /\ hits' = [k \in {} |-> {}]
  /\ UNCHANGED <<now, admitted, bootOf, peak>>

\* Between two callbacks, or before the first statement of one.
Die == startService /\ UNCHANGED <<foldedOn, database>>

\* Mutation: the labels are written first.
DieLabelling(r) ==
  /\ state[r] = "reading" /\ startService
  /\ \E written \in SUBSET LabelsOf[r] : foldLabels(written)
  /\ UNCHANGED <<foldedOn, buckets, rejections>>

\* Between the statements of a fold, in the order they are run: the bucket,
\* then some of the labels, then (all of them written) before the answer.
\* A death between a rejection's row and its answer is refuse and then Die.
DieFolding(r) ==
  /\ state[r] = "reading" /\ startService
  /\ foldBucket(r)
  /\ \E written \in SUBSET LabelsOf[r] : foldLabels(written)
  /\ UNCHANGED rejections

Tick ==
  /\ now < MaxTime /\ now' = now + 1
  /\ UNCHANGED <<boot, requests, counters, hits, database, peak>>

Next ==
  \/ \E r \in Requests :
       \/ dailyCeilingReached(r) \/ rateLimited(r) \/ admit(r)
       \/ bodyTooLarge(r) \/ refuse(r) \/ fold(r) \/ disconnect(r)
       \/ DieFolding(r)
  \/ Die
  \/ Tick

Spec == Init /\ [][Next]_vars
-----------------------------------------------------------------------------
(* What /v1/stats publishes. *)

\* Mutation: a bucket one short is published.
thin(n) == n + 1 >= Threshold

thick(n) == n >= Threshold
stats(d) == [buckets |-> {b \in Buckets : thick(buckets[d][b])},
             labels  |-> {x \in Labels : thick(labels[d][x])}]
-----------------------------------------------------------------------------
(* Properties *)

FoldedBy(i, d)   == {r \in Requests : bootOf[r] = i /\ foldedOn[r] = d}
AdmittedBy(i, k) == {r \in Requests : bootOf[r] = i /\ From[r] = k}

TypeOK ==
  /\ now \in 0..MaxTime /\ boot \in Boots
  /\ state \in [Requests -> {"new", "reading", "lost"} \cup Answers]
  /\ admitted \in [Requests -> 0..MaxTime \cup {None}]
  /\ bootOf \in [Requests -> Boots \cup {None}]
  /\ foldedOn \in [Requests -> Days \cup {None}]
  /\ ingestDay \in Days \cup {None} /\ ingestToday \in Nat
  /\ DOMAIN hits \subseteq Submitters
  /\ \A k \in DOMAIN hits : hits[k] \subseteq Requests
  /\ buckets \in [Days -> [Buckets -> Nat]] /\ labels \in [Days -> [Labels -> Nat]]
  /\ rejections \in [Days -> [Reasons -> Nat]]
  /\ peak \in [Boots -> Nat]

\* The daily ceiling is overrun only by requests that overlap: those read when
\* the day began (added to it, counted on the day before) and those read when
\* the last one below the ceiling was let in.
FoldedWithinCeiling ==
  Ceiling > 0 => \A i \in Boots, d \in Days :
                   Cardinality(FoldedBy(i, d)) <= Ceiling - 1 + 2 * peak[i]

\* In no window does one start let in more than Limit requests of an address,
\* whatever the limiter forgets to stay small.
LimiterExact ==
  Limit > 0 => \A i \in Boots, k \in Submitters : \A r \in AdmittedBy(i, k) :
    Cardinality({q \in AdmittedBy(i, k) :
                   admitted[q] <= admitted[r] /\ admitted[q] > admitted[r] - Window}) <= Limit

\* A request is turned away only by a day that is full, or by an address that
\* used up its window: neither limit outlives what it counts.
RefusalsAreEarned ==
  [][\A r \in Requests : state[r] = "new" =>
       /\ state'[r] = "503" => Cardinality(FoldedBy(boot, Today)) >= Ceiling
       /\ state'[r] = "429" =>
            Cardinality({q \in AdmittedBy(boot, From[r]) : admitted[q] > cutoff}) >= Limit]_vars

\* Each row counts requests, each once: the ones answered 202 at least, and
\* none that was not added to its bucket, wherever the process died.
RowsAreRequests ==
  \A d \in Days :
    LET folded == {r \in Requests : foldedOn[r] = d}
        told   == {r \in folded : state[r] = "202"}
        of(R, b)  == Cardinality({r \in R : BucketOf[r] = b})
        with(R, x) == Cardinality({r \in R : x \in LabelsOf[r]})
    IN  /\ \A b \in Buckets : of(told, b) <= buckets[d][b] /\ buckets[d][b] <= of(folded, b)
        /\ \A x \in Labels : with(told, x) <= labels[d][x] /\ labels[d][x] <= with(folded, x)

\* "A bucket of one is a description of one machine" (db.ts:133): what is
\* published of a day stands for Threshold requests of it.
PublishedIsOfMany ==
  \A d \in Days :
    LET many(R) == Cardinality({r \in R : foldedOn[r] = d}) >= Threshold
    IN  /\ \A b \in stats(d).buckets : many({r \in Requests : BucketOf[r] = b})
        /\ \A x \in stats(d).labels : many({r \in Requests : x \in LabelsOf[r]})
-----------------------------------------------------------------------------
(* The inductive invariant behind the limits. *)

Past(r) == admitted[r] # None

\* What is known of a request by where it is.
RequestInv ==
  \A r \in Requests :
    /\ state[r] = "new" => ~Past(r)
    /\ ~Past(r) => bootOf[r] = None
    /\ state[r] = "reading" => Past(r) /\ bootOf[r] = boot /\ foldedOn[r] = None
    /\ Past(r) => admitted[r] <= now /\ bootOf[r] \in 1..boot
    /\ foldedOn[r] # None =>
         Past(r) /\ utcDay(admitted[r]) <= foldedOn[r] /\ foldedOn[r] <= Today

\* Let in on an earlier day, and added to d or still able to be.
Carried(i, d) == {r \in Requests : /\ Past(r) /\ bootOf[r] = i /\ utcDay(admitted[r]) < d
                                   /\ foldedOn[r] = d \/ r \in InFlight}
\* Let in on day d, and added to d or still able to be.
OfDay(i, d)   == {r \in Requests : /\ Past(r) /\ bootOf[r] = i /\ utcDay(admitted[r]) = d
                                   /\ foldedOn[r] = d \/ r \in InFlight}
Counted       == {r \in FoldedBy(boot, Today) : utcDay(admitted[r]) = Today}

\* The count of the day lies between what came and went on it and what was
\* added to it; on a day that has not begun for the service nothing came.
CountInv ==
  /\ ingestDay = Today => /\ Cardinality(Counted) <= ingestToday
                          /\ ingestToday <= Cardinality(FoldedBy(boot, Today))
  /\ ingestDay # Today => \A r \in Requests :
                            Past(r) /\ bootOf[r] = boot => utcDay(admitted[r]) # Today
  /\ ingestDay <= Today

OverlapInv ==
  /\ Cardinality(InFlight) <= peak[boot]
  /\ \A i \in Boots, d \in Days :
       /\ Cardinality(Carried(i, d)) <= peak[i]
       /\ Ceiling > 0 => Cardinality(OfDay(i, d)) <= Ceiling - 1 + peak[i]

\* The limiter remembers whatever is still in the window, and nothing else.
LimiterInv ==
  /\ \A k \in DOMAIN hits : hits[k] \subseteq AdmittedBy(boot, k)
  /\ Limit > 0 => \A r \in Requests :
       Past(r) /\ bootOf[r] = boot /\ admitted[r] > cutoff
         => From[r] \in DOMAIN hits /\ r \in hits[From[r]]

ServiceInv == TypeOK /\ RequestInv /\ CountInv /\ OverlapInv /\ LimiterInv /\ LimiterExact
=============================================================================
