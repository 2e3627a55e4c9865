---------------------------- MODULE MCInstaller ----------------------------
(* The installer on configs of one user and one repository, for TLC. *)
EXTENDS Installer

CONSTANTS settings, repo, mine

\* No file, and one with a hook of the user's.
MCStart ==
  {Absent,
   [Absent EXCEPT !.exists = TRUE, !.container = TRUE,
                  !.groups = [NoGroups EXCEPT !["pre_tool"] = {[tagged |-> FALSE, hooks |-> {mine}]}]]}
=============================================================================
