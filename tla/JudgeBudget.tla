---------------------------- MODULE JudgeBudget ----------------------------
(***************************************************************************)
(* The sampled judge, off the hook's path (src/src/engine/judge.ts,        *)
(* src/src/engine/detached.ts, cmdJudgeRun in src/src/cli.ts).  A hook     *)
(* leaves a payload file and forks `usewarden judge-run`; that process     *)
(* checks two budgets in the shared store, calls a provider that takes     *)
(* seconds, and only then records the call.  Judges of one session and of  *)
(* others run at the same time, and each can be killed anywhere.           *)
(*                                                                         *)
(* A local provider is an agent CLI, a session of its own whose hooks can  *)
(* dispatch judges in turn; the environment variable it inherits           *)
(* (USEWARDEN_JUDGE_CHILD) is what `child` records.                        *)
(***************************************************************************)
EXTENDS Integers, FiniteSets

CONSTANTS
  Judges,    \* judge processes, one per payload file
  SessionOf, \* the session each one's event belongs to
  Nested,    \* those dispatched by the hooks of a judge's own CLI session
  Goalless,  \* sessions without a goal, under a policy without invariants
  Cap,       \* policy.judge.max_calls_per_session
  Ceiling,   \* USEWARDEN_JUDGE_MAX_USD, in the unit of the costs
  Costs,     \* what one answer may cost, 0 for a local CLI or a mock
  MaxCost,   \* the most one answer costs
  CanFail    \* may a process be killed, or a statement throw?

Sessions == {SessionOf[j] : j \in Judges}

ASSUME JudgesAssumption == IsFiniteSet(Judges) /\ Nested \subseteq Judges
ASSUME BudgetAssumption == Cap \in Nat /\ Ceiling \in Nat /\ CanFail \in BOOLEAN
ASSUME CostAssumption   == MaxCost \in Nat /\ Costs \subseteq 0..MaxCost

VARIABLES
  pc,        \* what each judge does next
  child,     \* judges whose environment says they run inside a judge
  pending,   \* payload files in ~/.usewarden/pending
  attempted, \* judges that sent their prompt to a provider
  answered,  \* judges that were sent an answer, and owe its price
  cost,      \* that price
  calls,     \* counters.'judge_calls:<session>'
  ledger,    \* the judge_spend rows, by judge
  spend,     \* the sum of their cost_usd
  findings,  \* the layer-2 incidents, by judge
  drift,     \* counters.drift_caught
  peak,      \* most judges of a session at once past the cap, before the count
  peakAll    \* most judges at once past the ceiling, before the record

vars == <<pc, child, pending, attempted, answered, cost, calls, ledger, spend,
          findings, drift, peak, peakAll>>

provider == <<attempted, answered, cost>>
budget   == <<calls, ledger, spend>>
results  == <<findings, drift>>
peaks    == <<peak, peakAll>>

Steps == {"idle", "read", "discard", "checkCap", "checkSpend", "send", "wait",
          "bump", "record", "parse", "finding", "countDrift", "end"}

\* Between the cap's check and the count; between the ceiling's and the record.
PastCap(s)  == {j \in Judges : SessionOf[j] = s
                               /\ pc[j] \in {"checkSpend", "send", "wait", "bump"}}
PastCeiling == {j \in Judges : pc[j] \in {"send", "wait", "bump", "record"}}

Init ==
  /\ pc = [j \in Judges |-> "idle"]
  /\ child = {} /\ pending = {} /\ attempted = {} /\ answered = {}
  /\ cost = [j \in Judges |-> 0]
  /\ calls = [s \in Sessions |-> 0]
  /\ ledger = {} /\ spend = 0
  /\ findings = {} /\ drift = 0
  /\ peak = [s \in Sessions |-> 0] /\ peakAll = 0

Go(j, from, to) == pc[j] = from /\ pc' = [pc EXCEPT ![j] = to]

Larger(m, n) == IF m < n THEN n ELSE m

\* The hook of a session writes the payload and forks the judge.
dispatchJudge(j) ==
  /\ j \notin Nested
  /\ Go(j, "idle", "read")
  /\ pending' = pending \cup {j}
  /\ UNCHANGED <<child, provider, budget, results, peaks>>

\* The same hook, inside the CLI that answers a judge, with that judge's
\* environment.
dispatchNested(j) ==
  /\ j \in Nested
  /\ \E p \in Judges : pc[p] = "wait"
  /\ Go(j, "idle", "read")
  /\ pending' = pending \cup {j}
  /\ child' = child \cup {j}
  /\ UNCHANGED <<provider, budget, results, peaks>>

readPayload(j) ==
  /\ Go(j, "read", "discard")
  /\ UNCHANGED <<child, pending, provider, budget, results, peaks>>

\* A payload that cannot be read ends the process, after it is discarded.
discardPayload(j) ==
  /\ \E next \in {"checkCap", "end"} : Go(j, "discard", next)
  /\ pending' = pending \ {j}
  /\ UNCHANGED <<child, provider, budget, results, peaks>>

\* Mutation: the last call of the budget is let through twice.
mayJudgeOnceMore(j) ==
  /\ SessionOf[j] \notin Goalless
  /\ j \notin child
  /\ calls[SessionOf[j]] <= Cap

\* The early returns of maybeJudge: nothing to compare with, a judge of a
\* judge, the session's calls used up.
mayJudge(j) ==
  /\ SessionOf[j] \notin Goalless
  /\ j \notin child
  /\ calls[SessionOf[j]] < Cap

checkCap(j) ==
  LET s == SessionOf[j] IN
  /\ Go(j, "checkCap", IF mayJudge(j) THEN "checkSpend" ELSE "end")
  /\ peak' = IF mayJudge(j)
             THEN [peak EXCEPT ![s] = Larger(@, Cardinality(PastCap(s)) + 1)]
             ELSE peak
  /\ UNCHANGED <<child, pending, provider, budget, results, peakAll>>

\* Mutation: the ceiling itself may be spent once more.
withinCeilingOnceMore == spend <= Ceiling

withinCeiling == spend < Ceiling

\* totalJudgeSpend, a SUM over the rows there are now.
checkSpend(j) ==
  /\ Go(j, "checkSpend", IF withinCeiling THEN "send" ELSE "end")
  /\ peakAll' = IF withinCeiling
                THEN Larger(peakAll, Cardinality(PastCeiling) + 1) ELSE peakAll
  /\ UNCHANGED <<child, pending, provider, budget, results, peak>>

\* callProvider: the prompt goes out ...
callProvider(j) ==
  /\ Go(j, "send", "wait")
  /\ attempted' = attempted \cup {j}
  /\ UNCHANGED <<child, pending, answered, cost, budget, results, peaks>>

\* ... and is answered, at a price ...
answer(j) ==
  /\ Go(j, "wait", "bump")
  /\ answered' = answered \cup {j}
  /\ \E c \in Costs : cost' = [cost EXCEPT ![j] = c]
  /\ UNCHANGED <<child, pending, attempted, budget, results, peaks>>

\* ... or is not: no provider, a refusal, a timeout.  The call is not counted.
unavailable(j) ==
  /\ pc[j] \in {"send", "wait"}
  /\ pc' = [pc EXCEPT ![j] = "end"]
  /\ UNCHANGED <<child, pending, provider, budget, results, peaks>>

bump(j) ==
  /\ Go(j, "bump", "record")
  /\ calls' = [calls EXCEPT ![SessionOf[j]] = @ + 1]
  /\ UNCHANGED <<child, pending, provider, ledger, spend, results, peaks>>

\* Mutation: only an answer that parses is recorded.
recordParsed(j) ==
  /\ Go(j, "record", "parse")
  /\ \/ ledger' = ledger \cup {j} /\ spend' = spend + cost[j]
     \/ UNCHANGED <<ledger, spend>>
  /\ UNCHANGED <<child, pending, provider, calls, results, peaks>>

recordJudgeSpend(j) ==
  /\ Go(j, "record", "parse")
  /\ ledger' = ledger \cup {j}
  /\ spend' = spend + cost[j]
  /\ UNCHANGED <<child, pending, provider, calls, results, peaks>>

\* Drift, no drift, or no verdict at all when the answer is not the JSON asked for.
\* It touches nothing, so that a mock's reply, parsed before it is counted and
\* recorded at 0, is no step of its own.
parseJudgeJson(j) ==
  /\ \E next \in {"finding", "end"} : Go(j, "parse", next)
  /\ UNCHANGED <<child, pending, provider, budget, results, peaks>>

\* recordJudgeFinding: addIncident inserts, or collapses into an earlier row.
recordJudgeFinding(j) ==
  /\ \/ Go(j, "finding", "countDrift") /\ findings' = findings \cup {j}
     \/ findings # {} /\ Go(j, "finding", "end") /\ UNCHANGED findings
  /\ UNCHANGED <<child, pending, provider, budget, drift, peaks>>

countDrift(j) ==
  /\ Go(j, "countDrift", "end")
  /\ drift' = drift + 1
  /\ UNCHANGED <<child, pending, provider, budget, findings, peaks>>

maybeJudge(j) ==
  \/ checkCap(j) \/ checkSpend(j) \/ callProvider(j) \/ answer(j) \/ unavailable(j)
  \/ bump(j) \/ recordJudgeSpend(j) \/ parseJudgeJson(j)

cmdJudgeRun(j) ==
  readPayload(j) \/ discardPayload(j) \/ maybeJudge(j)
  \/ recordJudgeFinding(j) \/ countDrift(j)

\* The process is killed, or a statement throws and judge-run only logs it.
Stop(j) ==
  /\ CanFail
  /\ pc[j] \notin {"idle", "end"}
  /\ pc' = [pc EXCEPT ![j] = "end"]
  /\ UNCHANGED <<child, pending, provider, budget, results, peaks>>

Next == \E j \in Judges : \/ dispatchJudge(j) \/ dispatchNested(j)
                          \/ cmdJudgeRun(j) \/ Stop(j)

Spec == Init /\ [][Next]_vars
-----------------------------------------------------------------------------

\* Types of every variable.
TypeOK ==
  /\ pc \in [Judges -> Steps]
  /\ child \subseteq Judges /\ pending \subseteq Judges
  /\ attempted \subseteq Judges /\ answered \subseteq attempted
  /\ cost \in [Judges -> 0..MaxCost]
  /\ calls \in [Sessions -> Nat]
  /\ ledger \subseteq answered /\ spend \in Nat
  /\ findings \subseteq Judges /\ drift \in Nat
  /\ peak \in [Sessions -> Nat] /\ peakAll \in Nat

\* The session's cap, checked seconds before the call is counted, is overrun by
\* no more than the judges of the session that were in between at one time: run
\* one after the other, the cap is exact.
CapWithinOverlap ==
  \A s \in Sessions : calls[s] > 0 => calls[s] <= Cap + peak[s] - 1

\* The dollar ceiling is overrun by at most the price of the judges that were
\* past its check at one time, whatever their sessions.
CeilingWithinOverlap ==
  spend > 0 => spend <= Ceiling - 1 + MaxCost * peakAll

RowsOf(s) == {j \in ledger : SessionOf[j] = s}

\* "The spend is recorded BEFORE the response is parsed ... a provider that
\* returns 200 with unusable content has still been paid" (judge.ts:561-563):
\* no judge reaches the answer's content, and no finding stands, without its
\* price on the ledger and its call on the counter.
PaidIsOnTheLedger ==
  /\ \A j \in Judges : pc[j] \in {"parse", "finding", "countDrift"} => j \in ledger
  /\ findings \subseteq ledger
  /\ \A s \in Sessions : Cardinality(RowsOf(s)) <= calls[s]

\* "usewarden must never judge a session that IS a judge" (judge.ts:496): however
\* many hooks fire inside a judge's CLI, none of them reaches a provider.
JudgesAreNotJudged == attempted \cap child = {}

\* A payload file left behind, by a kill or a failed fork, was never sent to a
\* provider: running it again cannot pay twice.
PendingIsUnpaid == pending \cap attempted = {}

(***************************************************************************)
(* The inductive invariant: the judges between a check and its record are  *)
(* accounted for in advance.                                               *)
(***************************************************************************)
StageInv ==
  /\ \A j \in Judges :
       /\ pc[j] \in {"idle", "read", "discard", "checkCap", "checkSpend", "send",
                     "wait"} => j \notin answered
       /\ pc[j] \in {"idle", "read", "discard", "checkCap", "checkSpend", "send"}
            => j \notin attempted
       /\ pc[j] \in {"wait", "bump", "record"} => j \in attempted
       /\ pc[j] \in {"bump", "record", "parse", "finding", "countDrift"}
            => j \in answered
       /\ pc[j] \in {"bump", "record"} => j \notin ledger
       /\ pc[j] \in {"parse", "finding", "countDrift"} => j \in ledger
       /\ pc[j] \in {"checkSpend", "send", "wait"} => j \notin child
       /\ pc[j] \notin {"idle", "read", "discard", "end"} => j \notin pending
       /\ pc[j] = "idle" => j \notin child
  /\ findings \subseteq ledger
  /\ \A j \in attempted : j \notin pending /\ j \notin child /\ pc[j] # "idle"

CapInv ==
  \A s \in Sessions :
    \/ calls[s] = 0 /\ PastCap(s) = {}
    \/ calls[s] + Cardinality(PastCap(s)) <= Cap + peak[s] - 1

CeilingInv ==
  \/ spend = 0 /\ PastCeiling = {}
  \/ spend + MaxCost * Cardinality(PastCeiling) <= Ceiling - 1 + MaxCost * peakAll

\* Judges whose call is counted and not yet on the ledger.
Counted(s) == {j \in Judges : SessionOf[j] = s /\ pc[j] = "record"}

LedgerInv ==
  \A s \in Sessions :
    Cardinality(RowsOf(s)) + Cardinality(Counted(s)) <= calls[s]

BudgetInv == TypeOK /\ StageInv /\ CapInv /\ CeilingInv /\ LedgerInv
=============================================================================
