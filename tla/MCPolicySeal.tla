----------------------------- MODULE MCPolicySeal -----------------------------
(* A policy with its edits: an entry narrowed, lists left empty, a file that      *)
(* cannot be parsed, and none.                                                   *)
EXTENDS PolicySeal

CONSTANTS p1, p2
Symmetry == Permutations({p1, p2})

MCCovers ==
  "." :> {"code"} @@ "~/docs" :> {"docs", "docs/probe"} @@ "~/docs/own" :> {"docs"}
  @@ "**/.env" :> {"env"}

Rule(id, pattern, outside, branch) ==
  [id |-> id, pattern |-> pattern, action |-> "block", outside |-> outside, branch |-> branch]

MCTargets == "rm next" :> {"next"} @@ "push main" :> {} @@ "sed env" :> {"env"}
MCRefs == [st \in DOMAIN MCTargets |-> IF st = "push main" THEN {"main"} ELSE {}]
MCProbe == "~/docs" :> "docs/probe" @@ "~/docs/own" :> "docs" @@ "**/.env" :> "env" @@ "." :> None
MCForcePush == "main" :> "push main"

MCDefaults ==
  [allowed |-> {"."}, forbidden |-> {"~/docs", "**/.env"}, uncommitted |-> TRUE, ephemeral |-> TRUE,
   deny |-> << Rule("rm-rf-outside-repo", {"rm next"}, TRUE, FALSE),
               Rule("force-push-protected", {"push main"}, FALSE, TRUE) >>,
   branches |-> {"main"}, invariants |-> {}, goal |-> FALSE, warnPct |-> 0,
   checkpoint |-> TRUE, judge |-> TRUE, telemetry |-> FALSE, backup |-> None]

MCGlobalDocs ==
  {"allowed" :> {"."} @@ "branches" :> {},
   "forbidden" :> {"~/docs/own", "**/.env"},
   "deny" :> Bad, Absent}

MCCorpus == {Call("write", "docs", << >>, "main")}

ASSUME ProbesStandForEntries
=============================================================================
