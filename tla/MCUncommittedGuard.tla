------------------------- MODULE MCUncommittedGuard -------------------------
(* Instances of UncommittedGuard: one file, one or two sessions, the human. *)
EXTENDS UncommittedGuard, TLC

CONSTANTS claude, codex, todos

Symmetry == Permutations(Agents)
=============================================================================
