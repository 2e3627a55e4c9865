---------------------------- MODULE MCHookStore ----------------------------
(***************************************************************************)
(* Instances of HookStore: the hook processes of one short session.        *)
(***************************************************************************)
EXTENDS HookSurfaces, TLC

CONSTANTS edit, twin, retry, prompt1, prompt2, ending, demo,
          look1, look2, look3

\* What the engine is given: an edit and its duplicate delivery one tick later; a
\* retry of it with the vendor's sibling tool; two prompts; the end of the session;
\* the same edit in a demo; and three reads sent in parallel.
Delivered(s, e, t, raw, x, p, ts, o) ==
  [session |-> s, event |-> e, tool |-> t, rawTool |-> raw, target |-> x, shown |-> x,
   prompt |-> p, ts |-> ts, origin |-> o]

Tool(raw, ts)       == Delivered("s1", "pre_tool", "edit", raw, "x", None, ts, "live")
Prompt(p, ts)       == Delivered("s1", "user_prompt", None, None, "", p, ts, "live")
Look(d)             == d :> Delivered("s1", "pre_tool", "read", "Read", d, None, 0, "live")

Received ==
  edit    :> Tool("Edit", 0) @@ twin :> Tool("Edit", 1) @@ retry :> Tool("MultiEdit", 1) @@
  prompt1 :> Prompt("p1", 0) @@ prompt2 :> Prompt("p2", 2) @@
  ending  :> Delivered("s1", "session_end", None, None, "", None, 1, "live") @@
  demo    :> Delivered("s2", "pre_tool", "edit", "Edit", "x", None, 0, "demo") @@
  Look(look1) @@ Look(look2) @@ Look(look3)

MCEv == Received

Info     == [decision |-> "allow", severity |-> "info", rule |-> None]
Waived   == [decision |-> "allow", severity |-> "warn", rule |-> "forbidden"]
Blocked  == [decision |-> "deny", severity |-> "block", rule |-> "forbidden"]

\* A waiver granted or expiring between two evaluations changes the verdict.
MCVerdicts ==
  [d \in Deliveries |->
    CASE Ev[d].event # "pre_tool" \/ Ev[d].tool = "read" -> {Info}
      [] d \in {demo, retry} -> {Blocked}
      [] OTHER    -> {Blocked, Waived}]

MCBefore ==
  {<<prompt1, prompt2>>, <<prompt1, edit>>, <<prompt1, twin>>, <<prompt2, ending>>} \cap (Deliveries \X Deliveries)
-----------------------------------------------------------------------------
(***************************************************************************)
(* The adapters: the deliveries are what Claude Code's payloads become.    *)
(***************************************************************************)
MCLowered ==
  [n \in {"Bash", "Read", "Edit", "Write"} |->
     CASE n = "Bash" -> "bash" [] n = "Read" -> "read" [] n = "Edit" -> "edit" [] n = "Write" -> "write"]
MCMcpTools == {"mcp__db__query"}

\* Every name of every tool in the adapters' tables, with a key its vendor puts the
\* target under, and a tool of an MCP server.
Call(agent, name, key) ==
  [agent |-> agent, rawTool |-> name, key |-> key, target |-> "x", session |-> "s1", prompt |-> "p1"]

KeyOf ==
  [claude |-> "file_path", gemini |-> "absolute_path", cursor |-> "file_path",
   copilot |-> "path", codex |-> "path", opencode |-> "filePath"]

MCOwnCalls ==
  UNION {UNION {{Call(agent, name, IF t = "bash" THEN "command" ELSE KeyOf[agent]) :
                    name \in A!TABLE[agent][t]} :
                  t \in IF agent = "cursor" THEN {"bash", "read"} ELSE DOMAIN A!TABLE[agent]} :
           agent \in A!AGENT_IDS}
  \cup {Call("claude", "mcp__db__query", "query"), Call("claude", "NotebookEdit", "notebook_path"),
        Call("codex", "bash", "cmd")}

ASSUME DeliveriesAreReceived ==
  \A d \in Deliveries :
    LET given == Ev[d]
        hook  == CHOOSE h \in DOMAIN A!hooksOf("claude") : A!hooksOf("claude")[h] = given.event
        call  == [rawTool |-> given.rawTool, input |-> [k \in {"file_path"} |-> given.target]]
        e     == A!receive("claude", A!sent("claude", hook, given.session, call, given.prompt),
                           given.event)
    IN  /\ e.event = given.event /\ e.sessionId = given.session /\ e.tool = given.tool
        /\ e.rawTool = given.rawTool /\ e.prompt = given.prompt
        /\ given.target = IF e.filePath = None THEN "" ELSE e.filePath
-----------------------------------------------------------------------------
(***************************************************************************)
(* The reports.  Some judge calls were made before, one of them by a local *)
(* agent CLI.                                                              *)
(***************************************************************************)
MCRuleWords   == [r \in {"forbidden"} |-> {"forbidden_paths", "scope."}]
MCTargetWords == [t \in {"x", ""} |-> IF t = "x" THEN {".env"} ELSE {}]
MCSafeLabel   == [r \in {"forbidden"} |-> "forbidden_paths"]

MCSpend ==
  {[id |-> 1, session |-> "s1", local |-> FALSE, mocked |-> FALSE,
    inTok |-> 9, outTok |-> 1, usd |-> 2],
   [id |-> 2, session |-> "s1", local |-> TRUE, mocked |-> FALSE,
    inTok |-> 0, outTok |-> 0, usd |-> 0]}

Label(d, label) ==
  [id |-> d, label |-> label, class |-> "c", actionSha |-> R!actionHash(<<"edit", "x">>)]

LabelFile(labels) ==
  LET set == [criterion |-> "c", corpus |-> "live", labels |-> labels]
  IN  [set |-> set, frozen |-> R!labelSetHash(set)]

MCLabelFiles ==
  {LabelFile({Label(edit, a)}) : a \in {"TRUE_POSITIVE", "FALSE_POSITIVE"}}
  \cup {LabelFile({Label(edit, "TRUE_POSITIVE"), Label(twin, a)}) :
          a \in {"TRUE_POSITIVE", "FALSE_POSITIVE", "UNKNOWN"}}
  \cup {LabelFile({Label(demo, "TRUE_POSITIVE")}),
        [LabelFile({Label(edit, "TRUE_POSITIVE")}) EXCEPT !.frozen = <<"edited">>]}

Ruling(decision, unevaluable) ==
  [a \in {action(d) : d \in Deliveries} |->
     [decision |-> decision, unevaluable |-> unevaluable, rule |-> "forbidden"]]

MCRulings == {Ruling("deny", FALSE), Ruling("allow", FALSE), Ruling("allow", TRUE)}
-----------------------------------------------------------------------------
(***************************************************************************)
(* Claims of the sources and documents that the model refutes, as          *)
(* invariants of instances without failures: the first with Deliveries =   *)
(* {edit, retry}, the second with {edit, twin}, the third with the looks.  *)
(***************************************************************************)
AllAnswered == \A d \in Deliveries : pc[d] = "done"

Live(S) == {d \in S : Ev[d].origin = "live"}

\* "usewarden cannot block what it never saw" (src/src/metrics.ts:298, the check
\* `usewarden doctor` fails on): with events on record, the blocked attempts do
\* not outnumber them.
BlocksWithinEvents ==
  AllAnswered /\ Live(events) # {}
    => Cardinality(Live(BlockRows)) <= Cardinality(Live(events))

\* "every incident is written in the same pipeline pass as its event, so the
\* two share a session id and a millisecond timestamp" (src/src/store.ts:537).
IncidentSharesItsEventsTimestamp ==
  \A d \in incidents :
    \E x \in events : Ev[x].session = Ev[d].session /\ Ev[x].ts = Ev[d].ts

\* "15 turns is, by construction, the longest a drift can run before
\* usewarden's own sampled judge would have looked at it" (src/src/metrics.ts:124):
\* EveryN tool calls of a session do not go by without one being sampled.
EveryWindowIsSampled ==
  AllAnswered /\ JudgeEnabled =>
    \A s \in Sessions :
      Cardinality({d \in SessionRows(s) : Ev[d].event = "pre_tool"}) >= EveryN
        => \E d \in dispatched : Ev[d].session = s
=============================================================================
