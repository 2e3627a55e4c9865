----------------------------- MODULE MCPolicyGate -----------------------------
(* One repository, its neighbour, a scratchpad and a home, for TLC.  *)
EXTENDS PolicyGate

MCCovers ==
  "." :> {"code", "draft", "env"} @@ "sub" :> {"code"} @@ "~/.ssh" :> {"key"}
  @@ "**/.env" :> {"env"} @@ "../next" :> {"next"}
MCAnywhere == [MCCovers EXCEPT !["**/.env"] = {"env", "padenv"}]

Rule(id, pattern, action, outside, branch) ==
  [id |-> id, pattern |-> pattern, action |-> action, outside |-> outside, branch |-> branch]
RemoveAll   == Rule("rm-rf-outside-repo", {"rm code", "rm next"}, "block", TRUE, FALSE)
ForcePush    == Rule("force-push-protected", {"push topic", "push main"}, "block", FALSE, TRUE)
WorldWritable == Rule("chmod-777", {"chmod"}, "warn", FALSE, FALSE)

MCTargets ==
  "rm code" :> {"code"} @@ "rm next" :> {"next"} @@ "push topic" :> {} @@ "push main" :> {}
  @@ "chmod" :> {"code"} @@ "sed env" :> {"env"}
MCRefs ==
  [st \in DOMAIN MCTargets |-> CASE st = "push topic" -> {"topic"} [] st = "push main" -> {"main"} [] OTHER -> {}]

MCDefaults ==
  [allowed |-> {"."}, forbidden |-> {"~/.ssh", "**/.env"}, uncommitted |-> TRUE, ephemeral |-> TRUE,
   deny |-> << RemoveAll, ForcePush >>, branches |-> {"main"}, invariants |-> {}, goal |-> FALSE, warnPct |-> 0,
   checkpoint |-> TRUE, judge |-> TRUE, telemetry |-> FALSE, backup |-> None]

MCGlobalDocs ==
  {Absent,
   "allowed" :> {".", "../next"} @@ "backup" :> "disk",
   "forbidden" :> {"~/.ssh"} @@ "deny" :> << RemoveAll, WorldWritable >> @@ "judge" :> FALSE}
MCRepoDocs ==
  {Absent, "branches" :> Bad,
   "allowed" :> {"sub", "../next"} @@ "forbidden" :> Null @@ "uncommitted" :> FALSE @@ "backup" :> "synced",
   "branches" :> {"topic"} @@ "deny" :> << [WorldWritable EXCEPT !.action = "block"] >>
     @@ "telemetry" :> TRUE @@ "warnPct" :> Null @@ "backup" :> "synced"}

Call(tool, path, command, authored) ==
  [tool |-> tool, path |-> path, command |-> command, branch |-> "topic", authored |-> authored]
MCCalls ==
  {Call("read", p, << >>, FALSE) : p \in {"code", "env", "key", "padenv"}}
  \cup {Call("write", p, << >>, FALSE) : p \in {"code", "draft", "env", "next", "pad", "padenv"}}
  \cup {Call("edit", "draft", << >>, FALSE), Call("write", "draft", << >>, TRUE)}
  \cup {Call("bash", None, s, FALSE) :
           s \in {<< a >> : a \in DOMAIN MCTargets} \cup {<< a, "rm next" >> : a \in DOMAIN MCTargets}}

MCTypable == {RuleName("scope.allowed_paths", None, None)}

Symmetry == Permutations(Terminals)
=============================================================================
