----------------------------- MODULE HookStore -----------------------------
(***************************************************************************)
(* The hook path of usewarden: every hook delivery is an operating system  *)
(* process of its own that runs runHook (src/src/hook.ts) and handleEvent  *)
(* (src/src/engine/pipeline.ts) against one SQLite file shared by all of   *)
(* them.  Each SQL statement commits by itself, so a step here is one      *)
(* statement, and deliveries interleave between any two of them.  A        *)
(* delivery can be killed by the vendor's hook timeout at any step, and a  *)
(* write can throw SQLITE_BUSY once the busy timeout has run out.          *)
(***************************************************************************)
EXTENDS Integers, FiniteSets

CONSTANTS
  Deliveries,     \* hook processes, one per delivered payload
  Ev,             \* the normalized event each delivery carries
  Verdicts,       \* the verdicts Layer 1 may reach on each delivery
  Before,         \* <<a, b>>: the agent sends b only after a was answered
  Bucket,         \* the deduplication window (2000 ms in the code)
  EveryN,         \* policy.judge.every_n_events
  JudgeEnabled,   \* policy.judge.enabled
  CanFail,        \* may a process be killed, or a write throw SQLITE_BUSY?
  None            \* SQL NULL, or no row

Sessions == {Ev[d].session : d \in Deliveries}
Origins  == {"live", "demo", "fixture"}
Kinds    == {"pre_tool", "post_tool", "user_prompt", "session_start",
             "session_end"}

AllVerdicts == UNION {Verdicts[d] : d \in Deliveries}

VerdictOK(v) ==
  /\ v.severity \in {"info", "warn", "block"}
  /\ v.decision = IF v.severity = "block" THEN "deny" ELSE "allow"

\* What the code guarantees about its inputs: finitely many deliveries, an
\* origin and a kind from the closed lists, a positive window and period, and
\* a deny exactly when the severity is block (every return of evaluateLayer1).
ASSUME DeliveriesFinite == IsFiniteSet(Deliveries)
ASSUME EvAssumption ==
  \A d \in Deliveries : Ev[d].origin \in Origins /\ Ev[d].event \in Kinds
                        /\ Ev[d].ts \in Nat
ASSUME VerdictAssumption ==
  \A d \in Deliveries : \A v \in Verdicts[d] : VerdictOK(v)
ASSUME NoneAssumption == None \notin Origins \cup {"allow", "deny", "failopen"}
ASSUME ParameterAssumption ==
  /\ Bucket \in Nat \ {0} /\ EveryN \in Nat \ {0}
  /\ JudgeEnabled \in BOOLEAN /\ CanFail \in BOOLEAN
  /\ Before \subseteq Deliveries \X Deliveries

VARIABLES
  pc,          \* the statement each process runs next
  fresh,       \* recordEvent's result, a local of handleEvent
  verdict,     \* evaluateLayer1's result, a local of handleEvent
  reply,       \* what the agent got on stdout
  origin,      \* sessions.origin, None when there is no row
  goal,        \* sessions.goal
  ended,       \* sessions whose ended_at is set
  eventCount,  \* sessions.event_count
  events,      \* the event rows, each named by the delivery that inserted it
  incidents,   \* the Layer-1 incident rows, named likewise
  counters,    \* the counters table
  firstCatch,  \* checklist.done_at of 'first_catch', by delivery
  dispatched   \* payload files handed to a detached judge

vars == <<pc, fresh, verdict, reply, origin, goal, ended, eventCount, events,
          incidents, counters, firstCatch, dispatched>>

sessionVars == <<origin, goal, ended, eventCount>>
ledgerVars  == <<events, incidents, counters, firstCatch, dispatched>>
localVars   == <<fresh, verdict, reply>>

(***************************************************************************)
(* The two deduplication keys (store.ts, incidentDedupeHash and            *)
(* dedupeHash).  The event key leaves the agent out and takes the          *)
(* canonical tool and the verbatim target.  The incident key takes the     *)
(* vendor's own tool name and the redacted, one-lined target.              *)
(***************************************************************************)
bucketOf(ts) == ts \div Bucket

dedupeHash(e) == <<e.session, e.event, e.tool, e.target, bucketOf(e.ts)>>

incidentDedupeHash(e, v) ==
  <<e.origin, e.session, v.rule, v.severity, e.rawTool, e.shown, bucketOf(e.ts)>>

Key(d)         == dedupeHash(Ev[d])
IncidentKey(d) == incidentDedupeHash(Ev[d], verdict[d])

Counters == {"events_seen", "actions_blocked", "catches"}
Steps ==
  {"start", "session", "end", "readGoal", "writeGoal", "insert",
   "countSession", "countSeen", "evaluate", "incident", "countBlocked",
   "countCatch", "firstCatch", "sample", "render", "done", "dead"}
Final  == {"done", "dead"}
Writes == {"start", "session", "end", "writeGoal", "countSession", "countSeen",
           "incident", "countBlocked", "countCatch", "firstCatch"}

Init ==
  /\ pc = [d \in Deliveries |-> "start"]
  /\ fresh = [d \in Deliveries |-> FALSE]
  /\ verdict = [d \in Deliveries |-> None]
  /\ reply = [d \in Deliveries |-> None]
  /\ origin = [s \in Sessions |-> None]
  /\ goal = [s \in Sessions |-> None]
  /\ ended = {}
  /\ eventCount = [s \in Sessions |-> 0]
  /\ events = {}
  /\ incidents = {}
  /\ counters = [c \in Counters |-> 0]
  /\ firstCatch = None
  /\ dispatched = {}

Go(d, from, to) == pc[d] = from /\ pc' = [pc EXCEPT ![d] = to]

bump(c) == counters' = [counters EXCEPT ![c] = @ + 1]

\* new Store(): the file is opened, the schema and the checklist rows are there.
Open(d) ==
  /\ \A p \in Before : p[2] = d => pc[p[1]] \in Final
  /\ Go(d, "start", "session")
  /\ UNCHANGED <<localVars, sessionVars, ledgerVars>>

\* INSERT INTO sessions ... ON CONFLICT(id) DO NOTHING.
upsertSession(d) ==
  LET e == Ev[d] IN
  /\ Go(d, "session", CASE e.event = "session_end" -> "end"
                        [] e.event = "user_prompt" /\ e.prompt # None -> "readGoal"
                        [] OTHER -> "insert")
  /\ origin' = [origin EXCEPT ![e.session] = IF @ = None THEN e.origin ELSE @]
  /\ UNCHANGED <<localVars, goal, ended, eventCount, ledgerVars>>

endSession(d) ==
  /\ Go(d, "end", "insert")
  /\ ended' = ended \cup {Ev[d].session}
  /\ UNCHANGED <<localVars, origin, goal, eventCount, ledgerVars>>

\* Mutation: the goal is written whether or not there is one.
getGoalUnread(d) ==
  /\ Go(d, "readGoal", "writeGoal")
  /\ UNCHANGED <<localVars, sessionVars, ledgerVars>>

getGoal(d) ==
  /\ Go(d, "readGoal",
        IF goal[Ev[d].session] = None THEN "writeGoal" ELSE "insert")
  /\ UNCHANGED <<localVars, sessionVars, ledgerVars>>

setGoal(d) ==
  /\ Go(d, "writeGoal", "insert")
  /\ goal' = [goal EXCEPT ![Ev[d].session] = Ev[d].prompt]
  /\ UNCHANGED <<localVars, origin, ended, eventCount, ledgerVars>>

\* recordEvent, its INSERT.  The UNIQUE column refuses a second row with the
\* same key, and the catch-all around the statement reports any failure of
\* it, SQLITE_BUSY included, as a duplicate delivery.
Duplicate(d) == \E x \in events : Key(x) = Key(d)

\* Mutation: the column is not UNIQUE.
insertEventAgain(d) ==
  /\ Go(d, "insert", "countSession")
  /\ events' = events \cup {d}
  /\ fresh' = [fresh EXCEPT ![d] = TRUE]
  /\ UNCHANGED <<verdict, reply, sessionVars, incidents, counters, firstCatch,
                 dispatched>>

insertEvent(d) ==
  /\ ~Duplicate(d)
  /\ Go(d, "insert", "countSession")
  /\ events' = events \cup {d}
  /\ fresh' = [fresh EXCEPT ![d] = TRUE]
  /\ UNCHANGED <<verdict, reply, sessionVars, incidents, counters, firstCatch,
                 dispatched>>

skipEvent(d) ==
  /\ Duplicate(d) \/ CanFail
  /\ Go(d, "insert", "evaluate")
  /\ UNCHANGED <<localVars, sessionVars, ledgerVars>>

countSession(d) ==
  /\ Go(d, "countSession", "countSeen")
  /\ eventCount' = [eventCount EXCEPT ![Ev[d].session] = @ + 1]
  /\ UNCHANGED <<localVars, origin, goal, ended, ledgerVars>>

countSeen(d) ==
  /\ Go(d, "countSeen", "evaluate")
  /\ bump("events_seen")
  /\ UNCHANGED <<localVars, sessionVars, events, incidents, firstCatch,
                 dispatched>>

\* Mutation: only warnings are recorded before the answer goes out.
evaluateUnrecorded(d) ==
  \E v \in Verdicts[d] :
    /\ Go(d, "evaluate", IF v.severity = "warn" THEN "incident" ELSE "sample")
    /\ verdict' = [verdict EXCEPT ![d] = v]
    /\ UNCHANGED <<fresh, reply, sessionVars, ledgerVars>>

\* evaluateLayer1 on the policy, the exceptions and the git state of now.
evaluateLayer1(d) ==
  \E v \in Verdicts[d] :
    /\ Go(d, "evaluate", IF v.severity = "info" THEN "sample" ELSE "incident")
    /\ verdict' = [verdict EXCEPT ![d] = v]
    /\ UNCHANGED <<fresh, reply, sessionVars, ledgerVars>>

\* addIncident: INSERT ... ON CONFLICT(dedupe_hash) DO NOTHING; the counters
\* and the checklist are touched only when a row was really inserted.
OnRecord(d) == \E x \in incidents : IncidentKey(x) = IncidentKey(d)

addIncident(d) ==
  /\ Go(d, "incident", IF verdict[d].severity = "block"
                       THEN "countBlocked" ELSE "countCatch")
  /\ ~OnRecord(d)
  /\ incidents' = incidents \cup {d}
  /\ UNCHANGED <<localVars, sessionVars, events, counters, firstCatch,
                 dispatched>>

\* Mutation: the counters move although no row was inserted.
collapseAndCount(d) ==
  /\ Go(d, "incident", "countBlocked")
  /\ OnRecord(d)
  /\ UNCHANGED <<localVars, sessionVars, ledgerVars>>

collapseIncident(d) ==
  /\ Go(d, "incident", "sample")
  /\ OnRecord(d)
  /\ UNCHANGED <<localVars, sessionVars, ledgerVars>>

\* Mutation: a block is not also counted as a catch.
countBlockedOnly(d) ==
  /\ Go(d, "countBlocked", "sample")
  /\ bump("actions_blocked")
  /\ UNCHANGED <<localVars, sessionVars, events, incidents, firstCatch,
                 dispatched>>

countBlocked(d) ==
  /\ Go(d, "countBlocked", "countCatch")
  /\ bump("actions_blocked")
  /\ UNCHANGED <<localVars, sessionVars, events, incidents, firstCatch,
                 dispatched>>

countCatch(d) ==
  /\ Go(d, "countCatch",
        IF Ev[d].origin = "live" THEN "firstCatch" ELSE "sample")
  /\ bump("catches")
  /\ UNCHANGED <<localVars, sessionVars, events, incidents, firstCatch,
                 dispatched>>

\* completeStep('first_catch', ts): UPDATE ... WHERE done_at IS NULL.
completeStep(d) ==
  /\ Go(d, "firstCatch", "sample")
  /\ firstCatch' = IF firstCatch = None THEN d ELSE firstCatch
  /\ UNCHANGED <<localVars, sessionVars, events, incidents, counters,
                 dispatched>>

\* Mutation: a duplicate delivery is judged again.
judgeDuplicates(d) ==
  /\ JudgeEnabled /\ Ev[d].origin # "demo"
  /\ \/ verdict[d].severity = "warn"
     \/ Ev[d].event = "pre_tool" /\ eventCount[Ev[d].session] % EveryN = 0
     \/ Ev[d].event = "user_prompt"

shouldJudge(d) ==
  /\ JudgeEnabled /\ Ev[d].origin # "demo"
  /\ fresh[d]
  /\ \/ verdict[d].severity = "warn"
     \/ Ev[d].event = "pre_tool" /\ eventCount[Ev[d].session] % EveryN = 0
     \/ Ev[d].event = "user_prompt"

\* The sampling decision, and dispatchJudge, which may fail and then only warns.
sampleJudge(d) ==
  /\ Go(d, "sample", "render")
  /\ \/ shouldJudge(d) /\ dispatched' = dispatched \cup {d}
     \/ (shouldJudge(d) => CanFail) /\ UNCHANGED dispatched
  /\ UNCHANGED <<localVars, sessionVars, events, incidents, counters, firstCatch>>

\* adapter.render and the one write to stdout.
Render(d) ==
  /\ Go(d, "render", "done")
  /\ reply' = [reply EXCEPT ![d] = verdict[d].decision]
  /\ UNCHANGED <<fresh, verdict, sessionVars, ledgerVars>>

\* A statement throws: runHook's catch exits 0 with nothing on stdout, so the
\* agent goes ahead.
FailOpen(d) ==
  /\ CanFail
  /\ pc[d] \in Writes
  /\ pc[d] = "start" => \A p \in Before : p[2] = d => pc[p[1]] \in Final
  /\ pc' = [pc EXCEPT ![d] = "done"]
  /\ reply' = [reply EXCEPT ![d] = "failopen"]
  /\ UNCHANGED <<fresh, verdict, sessionVars, ledgerVars>>

\* The vendor's hook timeout, or the user, kills the process; the agent goes on.
Kill(d) ==
  /\ CanFail
  /\ pc[d] \notin Final \cup {"start"}
  /\ pc' = [pc EXCEPT ![d] = "dead"]
  /\ UNCHANGED <<localVars, sessionVars, ledgerVars>>

handleEvent(d) ==
  \/ upsertSession(d) \/ endSession(d) \/ getGoal(d) \/ setGoal(d)
  \/ insertEvent(d) \/ skipEvent(d) \/ countSession(d) \/ countSeen(d)
  \/ evaluateLayer1(d)
  \/ addIncident(d) \/ collapseIncident(d) \/ countBlocked(d) \/ countCatch(d) \/ completeStep(d)
  \/ sampleJudge(d)

runHook(d) == Open(d) \/ handleEvent(d) \/ Render(d) \/ FailOpen(d)

\* Every process has ended: the system rests until the next delivery.
AllDone == (\A d \in Deliveries : pc[d] \in Final) /\ UNCHANGED vars

Next == (\E d \in Deliveries : runHook(d) \/ Kill(d)) \/ AllDone

Spec == Init /\ [][Next]_vars
-----------------------------------------------------------------------------

\* Types of every variable; a local is set only once its statement has run.
TypeOK ==
  /\ pc \in [Deliveries -> Steps]
  /\ fresh \in [Deliveries -> BOOLEAN]
  /\ verdict \in [Deliveries -> AllVerdicts \cup {None}]
  /\ reply \in [Deliveries -> {"allow", "deny", "failopen", None}]
  /\ origin \in [Sessions -> Origins \cup {None}]
  /\ goal \in [Sessions -> {Ev[d].prompt : d \in Deliveries} \cup {None}]
  /\ ended \subseteq Sessions
  /\ eventCount \in [Sessions -> Nat]
  /\ events \subseteq Deliveries
  /\ incidents \subseteq Deliveries
  /\ counters \in [Counters -> Nat]
  /\ firstCatch \in Deliveries \cup {None}
  /\ dispatched \subseteq Deliveries

BlockRows == {d \in incidents : verdict[d].severity = "block"}

SessionRows(s) == {d \in events : Ev[d].session = s}

\* Whatever is killed, retried or duplicated, no counter runs ahead of the
\* rows it counts (the inflation docs/METRICS.md describes: more blocks on the
\* counter than there were calls).
CountersNeverInflate ==
  /\ counters["events_seen"] <= Cardinality(events)
  /\ counters["actions_blocked"] <= Cardinality(BlockRows)
  /\ counters["catches"] <= Cardinality(incidents)
  /\ \A s \in Sessions : eventCount[s] <= Cardinality(SessionRows(s))

\* Once every process has ended without a failure the counters are exact:
\* concurrent increments are not lost and a duplicate adds nothing.
QuietCountersExact ==
  ~CanFail /\ (\A d \in Deliveries : pc[d] = "done") =>
    /\ counters["events_seen"] = Cardinality(events)
    /\ counters["actions_blocked"] = Cardinality(BlockRows)
    /\ counters["catches"] = Cardinality(incidents)
    /\ \A s \in Sessions : eventCount[s] = Cardinality(SessionRows(s))

\* An agent told "deny" is on record: the incident row, its own or the one it
\* collapsed into, was committed before the verdict was printed.
DenialOnRecord ==
  \A d \in Deliveries : reply[d] = "deny" => OnRecord(d)

\* The paid judge is dispatched once per logical call: duplicate deliveries
\* racing through handleEvent never both see the event as fresh.
JudgedOncePerCall ==
  /\ dispatched \subseteq events
  /\ \A d, x \in dispatched : Key(d) = Key(x) => d = x

\* The "first catch in a real session" box is ticked by a live incident only;
\* `usewarden demo` runs the same handler and must leave it alone.
FirstCatchIsLive ==
  firstCatch # None => firstCatch \in incidents /\ Ev[firstCatch].origin = "live"

\* A prompt the agent sent after an earlier prompt of the session had been
\* taken in never replaces the declared goal, in spite of the unlocked
\* read-then-write of getGoal and setGoal.
FirstPromptIsTheGoal ==
  \A p \in Before :
    LET first == Ev[p[1]]  later == Ev[p[2]] IN
    /\ first.session = later.session
    /\ first.event = "user_prompt" /\ later.event = "user_prompt"
    /\ first.prompt # None /\ later.prompt # first.prompt
    /\ pc[p[1]] = "done" /\ reply[p[1]] # "failopen"
    => goal[later.session] # later.prompt

(***************************************************************************)
(* The inductive invariant.  What a process's program counter says about   *)
(* its own rows and locals (StageInv); that rows already inserted but not  *)
(* yet counted account for the gap between a counter and its table         *)
(* (CountInv); and that a verdict past the INSERT is on record.            *)
(***************************************************************************)
At(S) == {d \in Deliveries : pc[d] \in S}

BeforeInsert  == {"start", "session", "end", "readGoal", "writeGoal", "insert"}
Recorded      == {"countBlocked", "countCatch", "firstCatch"}
AfterRecord   == {"sample", "render"}
Decided       == {"incident"} \cup Recorded \cup AfterRecord

StageInv ==
  /\ \A d \in Deliveries :
       /\ pc[d] \in BeforeInsert => d \notin events
       /\ pc[d] \in {"countSession", "countSeen"} => d \in events
       /\ fresh[d] => d \in events
       /\ pc[d] \in Decided => verdict[d] \in Verdicts[d]
       /\ pc[d] \in Recorded => d \in incidents
       /\ pc[d] \in BeforeInsert
                    \cup {"countSession", "countSeen", "evaluate", "incident"}
            => d \notin incidents
       /\ pc[d] = "countBlocked" => verdict[d].severity = "block"
       /\ pc[d] = "firstCatch" => Ev[d].origin = "live"
  /\ \A d \in dispatched : fresh[d]
  /\ \A d, x \in events : Key(d) = Key(x) => d = x
  /\ \A d, x \in incidents : IncidentKey(d) = IncidentKey(x) => d = x
  /\ FirstCatchIsLive

SessionAt(s) == {d \in At({"countSession"}) : Ev[d].session = s}

\* Without failures the gap is exactly what is still owed.
OwedExactly ==
  /\ counters["events_seen"] + Cardinality(At({"countSession", "countSeen"}))
       = Cardinality(events)
  /\ counters["actions_blocked"] + Cardinality(At({"countBlocked"})) = Cardinality(BlockRows)
  /\ counters["catches"] + Cardinality(At({"countBlocked", "countCatch"}))
       = Cardinality(incidents)
  /\ \A s \in Sessions :
       eventCount[s] + Cardinality(SessionAt(s)) = Cardinality(SessionRows(s))

CountInv ==
  /\ counters["events_seen"] + Cardinality(At({"countSession", "countSeen"}))
       <= Cardinality(events)
  /\ counters["actions_blocked"] + Cardinality(At({"countBlocked"}))
       <= Cardinality(BlockRows)
  /\ counters["catches"] + Cardinality(At({"countBlocked", "countCatch"}))
       <= Cardinality(incidents)
  /\ \A s \in Sessions :
       eventCount[s] + Cardinality(SessionAt(s)) <= Cardinality(SessionRows(s))
  /\ ~CanFail => OwedExactly

RecordInv ==
  \A d \in Deliveries :
    /\ pc[d] \in AfterRecord /\ verdict[d].severity # "info" => OnRecord(d)
    /\ reply[d] = "deny" => OnRecord(d) /\ pc[d] = "done"

\* The conjunction that every step preserves (HookStoreProofs).
IInv == TypeOK /\ StageInv /\ CountInv /\ RecordInv

\* The events table with its counter, and the incidents table with its own,
\* are call ledgers.
EventLedger ==
  INSTANCE CallLedger WITH seen <- {Key(d) : d \in events},
                           counted <- counters["events_seen"]
IncidentLedger ==
  INSTANCE CallLedger WITH seen <- {IncidentKey(d) : d \in incidents},
                           counted <- counters["catches"]

EventsAreALedger    == EventLedger!LedgerSpec
IncidentsAreALedger == IncidentLedger!LedgerSpec
=============================================================================
