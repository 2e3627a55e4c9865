-------------------------------- MODULE Layer1 --------------------------------
(***************************************************************************)
(* The deterministic rules, in the order engine/layer1.ts tries them, and  *)
(* the waivers of exceptions.ts.  An event is a call of a tool:            *)
(*   tool, path            the kind of tool, the file it names or None     *)
(*   command               the statements of a shell command               *)
(*   branch                the branch checked out, None when unknown       *)
(*   authored              whether this session wrote the file             *)
(* How the text of a command is taken apart is modelled in ShellText; here *)
(* a statement is a value and the functions below say what was found in it.*)
(***************************************************************************)
EXTENDS PolicyFile

CONSTANTS
  Anywhere,       \* the paths each entry matches when it is anchored at /
  Ephemeral,      \* the paths in an agent's scratchpad
  EnvFiles,       \* the paths named .env or .env.*
  Unrecoverable,  \* the paths git could not give back
  Targets,        \* the paths a statement names as arguments
  Opaque,         \* the statements with an argument that cannot be classified
  Refs,           \* the branches a push names
  DotenvReads,    \* the statements that name a .env file with an unsafe verb
  None

\* A rule as a card shows it.  The place of a rule in commands.deny is its
\* number, of an entry in a list of paths the entry.
RuleName(section, index, name) == [section |-> section, index |-> index, name |-> name]

Deny(rule)  == [decision |-> "deny",  severity |-> "block", rule |-> rule]
Warn(rule)  == [decision |-> "allow", severity |-> "warn",  rule |-> rule]
Allow       == [decision |-> "allow", severity |-> "info",  rule |-> None]

\* The scratchpad is in scope, but for what is forbidden anywhere.
InScratchpad(path, p) ==
  /\ p.ephemeral
  /\ path \in Ephemeral
  /\ \A f \in p.forbidden : path \notin Anywhere[f]

\* 1. A forbidden path, whatever the tool.
Forbids(e, p) == {f \in p.forbidden : e.path \in Covers[f]}

\* 2. A write outside the scope.
OutOfScope(e, p) ==
  /\ e.path # None /\ e.tool \in {"write", "edit"}
  /\ p.allowed # {}
  /\ ~ InScratchpad(e.path, p)
  /\ \A a \in p.allowed : e.path \notin Covers[a]

\* 2b. The replacement of a file git cannot give back; not seen by a replay.
OverUncommitted(e, p, fenced) ==
  /\ p.uncommitted /\ e.path # None /\ e.tool = "write" /\ ~ e.authored
  /\ ~ fenced /\ e.path \in Unrecoverable

\* Every argument of the statement is a path in the scope.
commandTargetsOnlyAllowedPaths(st, p) ==
  /\ Targets[st] # {} /\ st \notin Opaque
  /\ \A t \in Targets[st] : InScratchpad(t, p) \/ \E a \in p.allowed : t \in Inside(a)

\* An unknown branch is taken for a protected one.
targetsProtectedBranch(st, p, branch) ==
  IF Refs[st] # {} THEN Refs[st] \cap p.branches # {}
  ELSE branch = None \/ branch \in p.branches

\* 3. A rule looks at the first statement its pattern matches, and at no other.
RuleFires(r, e, p) ==
  \E i \in DOMAIN e.command :
    /\ e.command[i] \in r.pattern
    /\ \A j \in 1 .. i - 1 : e.command[j] \notin r.pattern
    /\ ~ (r.outside /\ commandTargetsOnlyAllowedPaths(e.command[i], p))
    /\ ~ r.branch \/ targetsProtectedBranch(e.command[i], p, e.branch)

Listed(e, p) == {i \in DOMAIN p.deny : e.tool = "bash" /\ RuleFires(p.deny[i], e, p)}

First(S) == CHOOSE i \in S : \A j \in S : i <= j

ListedVerdict(r, i) ==
  LET rule == RuleName("commands.deny", i, r.id)
  IN IF r.action = "block" THEN Deny(rule) ELSE Warn(rule)

\* 3b, 4. A .env file reached by a command, or by a tool that reads.
DotenvByCommand(e) == e.tool = "bash" /\ \E i \in DOMAIN e.command : e.command[i] \in DotenvReads
DotenvByTool(e)    == e.tool \in {"read", "grep"} /\ e.path \in EnvFiles

\* The first rule that fires decides; the rules after it are not asked.
evaluateLayer1Raw(e, p, fenced) ==
  IF Forbids(e, p) # {} THEN Deny(RuleName("scope.forbidden_paths", CHOOSE f \in Forbids(e, p) : TRUE, None))
  ELSE IF OutOfScope(e, p) THEN Deny(RuleName("scope.allowed_paths", None, None))
  ELSE IF OverUncommitted(e, p, fenced) THEN Deny(RuleName("scope.protect_uncommitted", None, None))
  ELSE IF Listed(e, p) # {} THEN ListedVerdict(p.deny[First(Listed(e, p))], First(Listed(e, p)))
  ELSE IF DotenvByCommand(e) THEN Deny(RuleName("scope.forbidden_paths", None, ".env via bash"))
  ELSE IF DotenvByTool(e) THEN Deny(RuleName("scope.forbidden_paths", None, ".env"))
  ELSE Allow

-----------------------------------------------------------------------------
(* Waivers.  A person types a rule as a card shows it, by its name alone, or  *)
(* by its section alone.                                                     *)

Typed(rule)  == {rule, RuleName(rule.section, None, None)}
                \cup (IF rule.name = None THEN {} ELSE {RuleName(None, None, rule.name)})
ruleMatches(typed, actual) == typed \in Typed(actual)

findException(rule, root, grants) ==
  {g \in grants : g.scope = root /\ ruleMatches(g.rule, rule)}

\* A waived denial becomes a warning that names the rule: it is still recorded.
evaluateLayer1(e, p, root, grants) ==
  LET raw == evaluateLayer1Raw(e, p, FALSE) IN
  IF raw.decision # "deny" \/ findException(raw.rule, root, grants) = {} THEN raw
  ELSE Warn(raw.rule)
=============================================================================
