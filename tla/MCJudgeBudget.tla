--------------------------- MODULE MCJudgeBudget ---------------------------
(* Instances of JudgeBudget: judges of one user's session, one of another,  *)
(* and one dispatched inside a judge's own CLI.                             *)
EXTENDS JudgeBudget, TLC

CONSTANTS j1, j2, j3, other, inner

MCSessionOf ==
  [j \in Judges |-> CASE j = other -> "s2" [] j = inner -> "cli" [] OTHER -> "s1"]

Symmetry == Permutations({j1, j2, j3} \cap Judges)
-----------------------------------------------------------------------------
\* "Hard per-session call budget from policy" (src/src/engine/judge.ts:20).
CapIsHard == \A s \in Sessions : calls[s] <= Cap
=============================================================================
