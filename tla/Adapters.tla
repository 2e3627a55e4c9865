------------------------------ MODULE Adapters ------------------------------
(***************************************************************************)
(* The six agents usewarden sits in: which hooks it registers with each    *)
(* (src/src/install/entries.ts), how a payload of theirs becomes the event *)
(* the engine works on (src/src/adapters/, runHook), and how a verdict is  *)
(* said in their own protocol.  A payload is a record of the keys that are *)
(* there; the adapters look several spellings of a key up in order.  What  *)
(* an agent puts into a payload and what it makes of the answer is the     *)
(* vendor's, taken from docs/HOOK-MATRIX.md.                               *)
(***************************************************************************)
EXTENDS Integers, Sequences, FiniteSetsExt

CONSTANTS
  None,      \* undefined
  Lowered,   \* the names that have a capital, in lower case
  McpTools   \* tool names that begin with mcp__ or mcp.

AGENT_IDS == {"claude", "gemini", "cursor", "copilot", "codex", "opencode"}

EVENT_KINDS == {"session_start", "session_end", "user_prompt", "pre_tool",
                "post_tool", "pre_compact", "config_change"}

orElse(a, b) == IF a # None THEN a ELSE b

\* The first of these keys that is there; str of a text, obj of an object.
str(o, keys) ==
  LET hits == {i \in DOMAIN keys : keys[i] \in DOMAIN o}
  IN  IF hits = {} THEN None ELSE o[keys[Min(hits)]]

obj(o, keys) == LET found == str(o, keys) IN IF found = None THEN << >> ELSE found
-----------------------------------------------------------------------------
(* The vendors' names of events and of tools *)

CODEX_EVENTS ==
  [PreToolUse |-> "pre_tool", PostToolUse |-> "post_tool",
   SessionStart |-> "session_start", SessionEnd |-> "session_end",
   UserPromptSubmit |-> "user_prompt", PreCompact |-> "pre_compact"]

EVENT_MAP ==
  [PreToolUse |-> "pre_tool", PostToolUse |-> "post_tool",
   SessionStart |-> "session_start", SessionEnd |-> "session_end",
   UserPromptSubmit |-> "user_prompt", PreCompact |-> "pre_compact",
   ConfigChange |-> "config_change"]

GEMINI_EVENTS ==
  [BeforeTool |-> "pre_tool", AfterTool |-> "post_tool",
   SessionStart |-> "session_start", SessionEnd |-> "session_end",
   PreCompress |-> "pre_compact"]

CURSOR_EVENTS ==
  [beforeShellExecution |-> "pre_tool", beforeReadFile |-> "pre_tool",
   preToolUse |-> "pre_tool", postToolUse |-> "post_tool",
   sessionStart |-> "session_start", sessionEnd |-> "session_end",
   beforeSubmitPrompt |-> "user_prompt", preCompact |-> "pre_compact"]

COPILOT_EVENTS ==
  [preToolUse |-> "pre_tool", PreToolUse |-> "pre_tool",
   postToolUse |-> "post_tool", PostToolUse |-> "post_tool",
   sessionStart |-> "session_start", SessionStart |-> "session_start",
   sessionEnd |-> "session_end", SessionEnd |-> "session_end",
   userPromptSubmitted |-> "user_prompt", UserPromptSubmitted |-> "user_prompt",
   preCompact |-> "pre_compact", PreCompact |-> "pre_compact"]

named(map, name) == IF name \in DOMAIN map THEN map[name] ELSE None

argvKind(arg) == IF arg \in EVENT_KINDS THEN arg ELSE None

\* By canonical name, what each vendor calls it.
TABLE ==
  [claude |->
     [bash |-> {"Bash", "BashOutput", "KillShell"}, read |-> {"Read", "NotebookRead"},
      write |-> {"Write"}, edit |-> {"NotebookEdit", "Edit", "MultiEdit"},
      glob |-> {"Glob"}, grep |-> {"Grep"}, web |-> {"WebFetch", "WebSearch"},
      task |-> {"Task", "Agent"}],
   gemini |->
     [bash |-> {"run_shell_command", "shell"}, read |-> {"read_file", "read_many_files"},
      write |-> {"write_file"}, edit |-> {"replace", "edit"}, glob |-> {"glob"},
      grep |-> {"search_file_content", "grep"}, web |-> {"web_fetch", "google_web_search"}],
   cursor |->
     [bash |-> {"shell", "run_terminal_cmd"}, read |-> {"read_file", "fetch_rules"},
      write |-> {"write"}, edit |-> {"edit_file", "search_replace"},
      glob |-> {"glob_file_search"}, grep |-> {"grep", "codebase_search"},
      web |-> {"web_search"}],
   copilot |->
     [bash |-> {"bash", "shell"}, read |-> {"view", "read"}, write |-> {"create", "write"},
      edit |-> {"edit", "str_replace"}, glob |-> {"glob"}, grep |-> {"grep", "search"},
      web |-> {"fetch"}],
   codex |->
     [bash |-> {"Bash", "shell", "local_shell"}, edit |-> {"apply_patch"},
      read |-> {"read_file"}, write |-> {"write_file"}, grep |-> {"grep"},
      glob |-> {"glob"}, web |-> {"web_search"}],
   opencode |->
     [bash |-> {"bash"}, read |-> {"read"}, write |-> {"write"}, edit |-> {"edit", "patch"},
      glob |-> {"glob"}, grep |-> {"grep"}, web |-> {"webfetch"}, task |-> {"task"}]]

lower(name) == IF name \in DOMAIN Lowered THEN Lowered[name] ELSE name

\* Verbatim, and then whatever the case.
canonicalTool(agent, rawTool) ==
  LET table   == TABLE[agent]
      exact   == {t \in DOMAIN table : rawTool \in table[t]}
      anyCase == {t \in DOMAIN table : \E k \in table[t] : lower(k) = lower(rawTool)}
  IN  IF rawTool \in McpTools THEN "mcp"
      ELSE IF exact # {} THEN CHOOSE t \in exact : TRUE
      ELSE IF anyCase # {} THEN CHOOSE t \in anyCase : TRUE
      ELSE "other"
-----------------------------------------------------------------------------
(* parse *)

extractCommand(input) == str(input, <<"command", "cmd", "script", "shell_command">>)

extractPath(input) ==
  str(input, <<"file_path", "filePath", "path", "absolute_path", "notebook_path",
               "target_file", "file">>)

event(agent, kind, sessionId, rawTool, command, filePath, prompt) ==
  [event |-> kind, sessionId |-> orElse(sessionId, "unknown"), rawTool |-> rawTool,
   tool |-> IF rawTool = None THEN None ELSE canonicalTool(agent, rawTool),
   command |-> command, filePath |-> filePath, prompt |-> prompt]

normalizeCommon(agent, kind, o) ==
  LET input == obj(o, <<"tool_input", "toolArgs", "toolInput", "arguments">>)
  IN  event(agent, kind, str(o, <<"session_id", "sessionId", "conversation_id">>),
            str(o, <<"tool_name", "toolName", "tool">>), extractCommand(input), extractPath(input),
            str(o, <<"prompt", "user_prompt", "userPrompt", "message">>))

parseCopilot(kind, o) ==
  LET args == obj(o, <<"toolArgs", "tool_input", "arguments">>)
  IN  event("copilot", kind, str(o, <<"sessionId", "session_id">>),
            str(o, <<"toolName", "tool_name">>), str(args, <<"command", "cmd">>),
            str(args, <<"path", "file_path", "filePath">>), str(o, <<"prompt", "userPrompt">>))

parseOpenCode(kind, o) ==
  LET input == obj(o, <<"tool_input", "args">>)
  IN  event("opencode", kind, str(o, <<"session_id", "sessionID">>),
            str(o, <<"tool_name", "tool">>), str(input, <<"command">>),
            str(input, <<"filePath", "file_path", "path">>), None)

\* Command and path from the payload itself, never from a tool's input; a command
\* makes it a shell, a path without one an edit unless it is the read hook.
parseCursor(kind, o) ==
  LET name     == str(o, <<"hook_event_name">>)
      command  == str(o, <<"command">>)
      filePath == str(o, <<"file_path">>)
      toolName == str(o, <<"tool_name">>)
      e        == event("cursor", kind, str(o, <<"conversation_id", "session_id">>), toolName,
                        command, filePath, str(o, <<"prompt", "text">>))
  IN  IF command # None THEN [e EXCEPT !.tool = "bash", !.rawTool = "shell"]
      ELSE IF toolName = None /\ filePath # None
           THEN [e EXCEPT !.tool = IF name = "beforeReadFile" THEN "read" ELSE "edit",
                          !.rawTool = orElse(name, "file")]
      ELSE e

kindOf(agent, o, arg) ==
  LET name == str(o, <<"hook_event_name">>)
  IN  CASE agent = "claude"   -> named(EVENT_MAP, name)
        [] agent = "gemini"   -> named(GEMINI_EVENTS, name)
        [] agent = "codex"    -> named(CODEX_EVENTS, name)
        [] agent = "cursor"   ->
             orElse(named(CURSOR_EVENTS, name),
               orElse(named(CURSOR_EVENTS, arg), IF "command" \in DOMAIN o THEN "pre_tool" ELSE None))
        [] agent = "copilot"  ->
             orElse(named(COPILOT_EVENTS, str(o, <<"hookEventName", "hook_event_name">>)), argvKind(arg))
        [] agent = "opencode" -> argvKind(arg)

parse(agent, o, arg) ==
  LET kind == kindOf(agent, o, arg)
  IN  CASE kind = None          -> None
        [] kind # None /\ agent \in {"claude", "gemini", "codex"} -> normalizeCommon(agent, kind, o)
        [] kind # None /\ agent = "cursor"   -> parseCursor(kind, o)
        [] kind # None /\ agent = "copilot"  -> parseCopilot(kind, o)
        [] kind # None /\ agent = "opencode" -> parseOpenCode(kind, o)

\* runHook: the kind in the command line overrides a parsed pre_tool.
receive(agent, o, arg) ==
  LET e == parse(agent, o, arg)
  IN  IF e # None /\ e.event = "pre_tool" /\ arg \in EVENT_KINDS
      THEN [e EXCEPT !.event = arg] ELSE e
-----------------------------------------------------------------------------
(* render: what is on stdout, by the key that would carry a decision *)

Silence            == [key |-> "", says |-> "nothing"]
Doc(key, decision) == [key |-> key, says |-> decision]
Message            == Doc("systemMessage", "nothing")
speaks(v)          == v.severity # "info"

\* PreToolUse alone blocks; on any other event a word is advice.
renderClaude(v, kind) ==
  IF kind # "pre_tool" THEN IF speaks(v) THEN Message ELSE Silence
  ELSE IF v.decision = "deny" THEN Doc("hookSpecificOutput", "deny")
  ELSE IF v.severity = "warn" THEN Doc("hookSpecificOutput", "allow")
  ELSE Silence

\* Mutation: nothing is said where there is nothing to say.
renderGeminiQuiet(v, kind) ==
  IF kind = "pre_tool" /\ v.decision = "deny" THEN Doc("decision", "deny")
  ELSE IF speaks(v) THEN Message ELSE Silence

\* Never silent: an empty stdout is a failed hook to Gemini CLI.
renderGemini(v, kind) ==
  IF kind = "pre_tool" /\ v.decision = "deny" THEN Doc("decision", "deny")
  ELSE IF speaks(v) THEN Message ELSE Doc("{}", "nothing")

renderCursor(v, kind) ==
  IF kind # "pre_tool" THEN Silence
  ELSE Doc("permission", IF v.decision = "deny" THEN "deny" ELSE "allow")

renderCopilot(v, kind) ==
  IF kind # "pre_tool" THEN Silence
  ELSE IF v.decision = "deny" THEN Doc("permissionDecision", "deny")
  ELSE IF v.severity = "warn" THEN Doc("permissionDecision", "allow")
  ELSE Silence

renderCodex(v, kind) ==
  IF kind # "pre_tool" THEN IF speaks(v) THEN Message ELSE Silence
  ELSE IF v.decision = "deny" THEN Doc("hookSpecificOutput", "deny")
  ELSE IF v.severity = "warn" THEN Doc("hookSpecificOutput", "nothing")
  ELSE Silence

renderOpenCode(v, kind) ==
  IF kind = "pre_tool" /\ v.decision = "deny" THEN Doc("hookSpecificOutput", "deny") ELSE Silence

render(agent, v, kind) ==
  CASE agent = "claude"   -> renderClaude(v, kind)
    [] agent = "gemini"   -> renderGemini(v, kind)
    [] agent = "cursor"   -> renderCursor(v, kind)
    [] agent = "copilot"  -> renderCopilot(v, kind)
    [] agent = "codex"    -> renderCodex(v, kind)
    [] agent = "opencode" -> renderOpenCode(v, kind)

\* The key the vendor looks for; OpenCode's plugin throws on Claude's.
Dialect ==
  [claude |-> "hookSpecificOutput", gemini |-> "decision", cursor |-> "permission",
   copilot |-> "permissionDecision", codex |-> "hookSpecificOutput",
   opencode |-> "hookSpecificOutput"]

\* What the agent does with it: anything but its own "deny" lets the tool run.
hears(agent, out) ==
  IF out.key = Dialect[agent] /\ out.says = "deny" THEN "deny"
  ELSE IF agent = "gemini" /\ out = Silence THEN "failed" ELSE "goes on"
-----------------------------------------------------------------------------
(* planFor: each hook with the kind in its command line *)

claudeShaped ==
  [claude |->
     [PreToolUse |-> "pre_tool", PostToolUse |-> "post_tool",
      SessionStart |-> "session_start", SessionEnd |-> "session_end",
      UserPromptSubmit |-> "user_prompt", PreCompact |-> "pre_compact",
      ConfigChange |-> "config_change"],
   codex |->
     [PreToolUse |-> "pre_tool", PostToolUse |-> "post_tool",
      SessionStart |-> "session_start", SessionEnd |-> "session_end",
      UserPromptSubmit |-> "user_prompt", PreCompact |-> "pre_compact"],
   gemini |->
     [BeforeTool |-> "pre_tool", AfterTool |-> "post_tool",
      SessionStart |-> "session_start", SessionEnd |-> "session_end",
      PreCompress |-> "pre_compact"]]

planFor(agent) ==
  CASE agent \in DOMAIN claudeShaped -> claudeShaped[agent]
    [] agent = "cursor" ->
         [beforeShellExecution |-> "pre_tool", beforeReadFile |-> "pre_tool",
          preToolUse |-> "pre_tool", postToolUse |-> "post_tool",
          sessionStart |-> "session_start", sessionEnd |-> "session_end",
          beforeSubmitPrompt |-> "user_prompt", preCompact |-> "pre_compact"]
    [] agent = "copilot" ->
         [preToolUse |-> "pre_tool", postToolUse |-> "post_tool",
          sessionStart |-> "session_start", sessionEnd |-> "session_end",
          userPromptSubmitted |-> "user_prompt", preCompact |-> "pre_compact"]
    [] agent = "opencode" -> << >>

\* OpenCode has no registry; its plugin asks before a tool and at no other time.
openCodePlugin == [hook \in {"tool.execute.before"} |-> "pre_tool"]

hooksOf(agent) == IF agent = "opencode" THEN openCodePlugin ELSE planFor(agent)
-----------------------------------------------------------------------------
(* The vendors: what is sent for a hook, by the tool call it is about *)

\* Cursor's two oldest hooks are about a command or a file, not about a tool.
FlatHooks == {"beforeShellExecution", "beforeReadFile"}

ToolHooks == {"pre_tool", "post_tool"}

with(o, more) ==
  [k \in DOMAIN o \cup DOMAIN more |-> IF k \in DOMAIN o THEN o[k] ELSE more[k]]

\* call = [rawTool, input], input a record with the vendor's own keys.
sent(agent, hook, session, call, prompt) ==
  LET kind == hooksOf(agent)[hook]
      who  == CASE agent = "cursor"  -> [conversation_id |-> session, hook_event_name |-> hook]
                [] agent = "copilot" -> [sessionId |-> session]
                [] OTHER -> [session_id |-> session, hook_event_name |-> hook]
      tool == IF hook \in FlatHooks THEN call.input
              ELSE IF agent = "copilot" THEN [toolName |-> call.rawTool, toolArgs |-> call.input]
              ELSE [tool_name |-> call.rawTool, tool_input |-> call.input]
      said == [prompt |-> prompt]
  IN  CASE kind \in ToolHooks     -> with(who, tool)
        [] kind = "user_prompt" -> with(who, said)
        [] OTHER                -> who

\* The hooks an agent runs before a call of this canonical tool.
fires(agent, tool) ==
  {h \in DOMAIN hooksOf(agent) :
     /\ hooksOf(agent)[h] = "pre_tool"
     /\ h = "beforeShellExecution" => tool = "bash"
     /\ h = "beforeReadFile" => tool = "read"}
=============================================================================
