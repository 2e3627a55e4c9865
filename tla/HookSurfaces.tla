---------------------------- MODULE HookSurfaces ----------------------------
(***************************************************************************)
(* What is seen of the hook path from outside: the answers the agents read *)
(* in their own dialects (Adapters), and what usewarden reports of the     *)
(* rows the deliveries have left (Reports).  Timestamps in the database    *)
(* are shifted by Epoch, for zero is not a usable one.                     *)
(***************************************************************************)
EXTENDS HookStore

CONSTANTS
  Lowered, McpTools,          \* of Adapters
  OwnCalls,                   \* [agent, rawTool, key, target, session, prompt], tool calls
  RuleWords, TargetWords, IdleMinutes, SafeLabel,                  \* of Reports
  PAYLOAD_ROWS, MAX_RULE_KEYS, WEEK_ROWS, WEEK_SESSIONS,           \* and its limits
  Epoch,                      \* the milliseconds of tick 0
  Spend,                      \* the judge_spend rows of before
  LabelFiles, Rulings,        \* the label sets a value report may be given, the rules it replays
  Moments                     \* when a report is printed

\* A demo's session is one of its own, `usewarden-demo-` and the time
\* (src/src/demo.ts:64); the limits are numbers; and time began before tick 0.
ASSUME SessionAssumption ==
  \A d, x \in Deliveries : Ev[d].session = Ev[x].session => Ev[d].origin = Ev[x].origin
ASSUME LimitAssumption ==
  /\ {PAYLOAD_ROWS, MAX_RULE_KEYS, WEEK_ROWS, WEEK_SESSIONS} \subseteq Nat
  /\ Epoch \in Nat \ {0} /\ None \notin Nat

\* A call as it is stored with its incident, and as it is replayed.
action(d) == << Ev[d].tool, Ev[d].target >>

ASSUME LabelAssumption ==
  /\ \A file \in LabelFiles : file # None /\ IsFiniteSet(file.set.labels)
  /\ \A ruling \in Rulings, d \in Deliveries : ruling[action(d)].unevaluable \in BOOLEAN
  /\ None \notin {action(d) : d \in Deliveries} /\ None \notin BOOLEAN

A == INSTANCE Adapters
R == INSTANCE Reports

\* A call of an agent's own names the target under a key of its tool's input.
input(call) == [k \in {call.key} |-> call.target]
toolOf(call) == A!canonicalTool(call.agent, call.rawTool)

\* The keys that an agent's adapter looks a command or a path up by.
commonKeys ==
  {"command", "cmd", "script", "shell_command", "file_path", "filePath", "path",
   "absolute_path", "notebook_path", "target_file", "file"}
Keys ==
  [claude |-> commonKeys, gemini |-> commonKeys, codex |-> commonKeys,
   cursor |-> {"command", "file_path"},
   copilot |-> {"command", "cmd", "path", "file_path", "filePath"},
   opencode |-> {"command", "filePath", "file_path", "path"}]

\* Cursor's edits are not among the calls: parseCursor takes no path out of a tool's
\* input, so Layer 1 sees the edit and not the file.  An MCP tool's input is its own.
\* An empty string in a payload is taken for none (str, adapters/index.ts:36).
ASSUME CallAssumption ==
  /\ None \notin A!EVENT_KINDS \cup DOMAIN A!COPILOT_EVENTS
  /\ \A call \in OwnCalls :
       /\ call.agent \in A!AGENT_IDS
       /\ call.session # None /\ call.rawTool # None
       /\ call.target # None /\ input(call) # None
       /\ "" \notin {call.session, call.rawTool, call.target, call.prompt}
       /\ toolOf(call) # "mcp" => call.key \in Keys[call.agent]
       /\ call.agent = "cursor" =>
            <<toolOf(call), call.key>> \in {<<"bash", "command">>, <<"read", "file_path">>}

\* Each such call as every hook of its agent would bring it to the engine.
Understood ==
  [call \in OwnCalls |->
     [h \in DOMAIN A!hooksOf(call.agent) |->
        A!receive(call.agent,
                  A!sent(call.agent, h, call.session,
                         [rawTool |-> call.rawTool, input |-> input(call)], call.prompt),
                  A!hooksOf(call.agent)[h])]]

\* The store does not keep which delivery was the first: the earliest there is.
sessionRow(s) ==
  [id |-> s, agent |-> "claude", cwd |-> "repo", origin |-> origin[s], goal |-> goal[s],
   startedAt |-> Epoch + R!Min({Ev[d].ts : d \in {x \in Deliveries : Ev[x].session = s}})]

eventRow(d) ==
  [id |-> d, session |-> Ev[d].session, origin |-> Ev[d].origin, event |-> Ev[d].event,
   tool |-> Ev[d].tool, target |-> Ev[d].target, ts |-> Epoch + Ev[d].ts, fill |-> None]

incidentRow(d) ==
  [id |-> d, session |-> Ev[d].session, origin |-> Ev[d].origin, layer |-> 1,
   action |-> IF verdict[d].severity = "block" THEN "block" ELSE "warn",
   rule |-> verdict[d].rule, tool |-> Ev[d].rawTool, target |-> Ev[d].shown,
   ts |-> Epoch + Ev[d].ts, json |-> action(d)]

DB == [sessions |-> {sessionRow(s) : s \in {x \in Sessions : origin[x] # None}},
       events |-> {eventRow(d) : d \in events},
       incidents |-> {incidentRow(d) : d \in incidents},
       spend |-> Spend]
notDemo(rows) == {r \in rows : r.origin # "demo"}
WithoutDemo == [sessions |-> notDemo(DB.sessions), events |-> notDemo(DB.events),
                incidents |-> notDemo(DB.incidents), spend |-> DB.spend]
-----------------------------------------------------------------------------

\* "A receipt whose whole content is zeros ... zero is the answer and not the
\* absence of one" (src/src/receipt.ts:370): no session in which the agent was
\* told "deny" has a receipt saying that nothing needed blocking, or none at
\* all, at whatever statement other processes are killed or collapse into it,
\* and whenever the receipt is printed.
NoCleanReceiptAfterADenial ==
  \A d \in Deliveries, now \in Moments : reply[d] = "deny" =>
    /\ R!hasReceipt(DB, Ev[d].session)
    /\ R!buildReceipt(DB, Ev[d].session, now).blocked > 0

\* The five deny dialects agree (adapters/index.ts:4-8): in the protocol of
\* any agent an answer reads as a refusal exactly when it was one and a tool was
\* about to run, and Gemini CLI never finds an empty one, which it takes for a
\* hook that failed.
AnswerIsHeard ==
  \A d \in Deliveries : reply[d] \in {"allow", "deny"} =>
    \A agent \in A!AGENT_IDS : \A kind \in A!EVENT_KINDS :
      LET word == A!hears(agent, A!render(agent, verdict[d], kind))
      IN  /\ word # "failed"
          /\ word = "deny" <=> reply[d] = "deny" /\ kind = "pre_tool"

\* "Layer 1 is the same code for every agent" (docs/HOOK-MATRIX.md:215), and the
\* five deny dialects stay out of it (adapters/index.ts:4-8): whichever agent makes
\* the call a verdict was reached on, by whichever name its vendor has for the tool, some
\* hook registered with it gives the engine the tool and the target of the call, an answer
\* is a refusal to that agent exactly when the verdict is deny, every hook arrives as the
\* kind it was registered for, in its session and with the prompt, none outside pre_tool
\* refuses, and Gemini CLI never finds an empty answer.
EveryAgentHearsTheVerdict ==
  \A d \in Deliveries : pc[d] = "done" /\ reply[d] \in {"allow", "deny"} =>
    \A call \in OwnCalls :
      LET agent      == call.agent
          registered == A!hooksOf(agent)
          brought    == Understood[call]
          word(h)    == A!hears(agent, A!render(agent, verdict[d], brought[h].event))
      IN  /\ \A t \in DOMAIN A!TABLE[agent] :
               call.rawTool \in A!TABLE[agent][t] \ McpTools => toolOf(call) = t
          /\ \E h \in A!fires(agent, toolOf(call)) :
               /\ brought[h].tool = toolOf(call)
               /\ toolOf(call) # "mcp" => call.target \in {brought[h].command, brought[h].filePath}
          /\ \A h \in DOMAIN registered :
               /\ brought[h].event = registered[h] /\ brought[h].sessionId = call.session
               /\ registered[h] = "user_prompt" => brought[h].prompt = call.prompt
               /\ word(h) # "failed"
               /\ word(h) = "deny" <=> reply[d] = "deny" /\ registered[h] = "pre_tool"

\* "src/metrics.ts is the single source, and every surface" agrees with it
\* (DECISIONS.md:661): whatever hooks have done, the live figures of `usewarden
\* metrics` are the sums of the receipts and the figures of the value report, and
\* the week's are too until it reaches the limit of its queries, where it says less and
\* never more; what is priced is what was caught, no receipt contradicts itself, and
\* the telemetry payload counts live catches only and names no more than it read.
\* A demo run does not "move a number that leaves the machine" (telemetry.ts:176-180):
\* the payload is what it were had none been made.
FiguresAgree ==
  \A now \in Moments :
  LET m         == R!buildMetrics(DB)
      act       == R!activity(DB)
      payload   == R!buildPayload(DB)
      receipts  == R!Of({R!buildReceipt(DB, s.id, now) : s \in DB.sessions}, "live")
      sum(k)    == R!SumFunction([r \in receipts |-> r[k]])
      week      == R!buildWeek(DB, Epoch, now)
      weekRules == R!SumFunction(week.byRule)
  IN  /\ m.live.attempts = sum("blocked") /\ m.live.events = sum("events")
      /\ m.live.sessions = Cardinality(receipts) /\ m.live.incidents = act.liveBlocks + act.liveWarnings
      /\ act.liveBlocks = m.live.attempts /\ act.liveSessions = m.live.sessions
      /\ act.excludedDemo = m.demo.incidents
      /\ m.total.attempts = Cardinality(R!Blocks(DB.incidents))
      /\ m.savings.priced_actions + m.savings.unpriced_actions = m.live.distinct_actions
      /\ \A p \in m.problems : p[1] = "blocks outnumber events"
      /\ \A r \in receipts : r.problems \subseteq {"target", "command"}
      /\ week.blocked <= m.live.attempts /\ week.events <= m.live.events
      /\ week.sessions <= m.live.sessions /\ weekRules <= m.live.incidents
      /\ Cardinality(DB.sessions) <= WEEK_SESSIONS =>
           /\ week.blocked = m.live.attempts /\ week.events = m.live.events
           /\ week.sessions = m.live.sessions
           /\ Cardinality(DB.incidents) <= WEEK_ROWS => weekRules = m.live.incidents
      /\ payload.counts.live_catches = m.live.incidents
      /\ R!SumFunction(payload.rules) <= m.live.incidents
      /\ R!SumFunction(payload.rules) <= PAYLOAD_ROWS
      /\ payload = R!buildPayload(WithoutDemo)

AllEnded == \A d \in Deliveries : pc[d] \in Final

\* The figures of metrics, receipts, week, value report and telemetry agree once all
\* deliveries have ended, answered or killed at whatever statement.
SurfacesAgree == AllEnded => FiguresAgree

\* "A demo or fixture row cannot reach a value figure by any route"
\* (src/src/value.ts:125), and a label set describes this machine's record or
\* produces no figure (value.ts:203): whatever rows the deliveries left, a figure
\* is of labelled live rows, it is the one `usewarden replay --labels` prints, no
\* re-derivation contradicts it, and one that could not be replayed is no catch.
ValueIsOfThisRecord ==
  \A file \in LabelFiles, ruling \in Rulings :
    LET v      == R!buildValueReport(DB, ruling, file)
        c      == R!cmdReplay(DB, "live", ruling, file)
        labels == file.set.labels
        ids    == {l.id : l \in labels}
        live   == {d \in incidents : Ev[d].origin = "live"}
        denied(d) == ruling[action(d)].decision = "deny"
        passed == {l \in labels : /\ l.id \in live \cap BlockRows /\ ~ denied(l.id)
                                 /\ ~ ruling[action(l.id)].unevaluable}
    IN  /\ v.coverage.available =>
             /\ ids \subseteq live /\ file.frozen = R!labelSetHash(file.set) /\ c.exit = 0
             /\ ids \subseteq BlockRows => v.coverage.value = c.after
             /\ v.coverage.value.coverageCaught <= c.before.coverageCaught
             /\ (\A d \in ids : ~ denied(d)) => v.coverage.value.coverageCaught = 0
        /\ v.precision.available =>
             v.precision.value.indeterminate + v.precision.value.truePositives
               + v.precision.value.falsePositives + v.precision.value.unknown
               + Cardinality(passed) = Cardinality(labels)
        /\ v.labelSet.available => v.severity.available /\ v.classes.available

\* The same of the record once all deliveries have ended.
FiguresAreOfThisRecord == AllEnded => ValueIsOfThisRecord
=============================================================================
