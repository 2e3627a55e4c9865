-------------------------- MODULE UncommittedGuard --------------------------
(***************************************************************************)
(* scope.protect_uncommitted: the guard in front of a whole-file write     *)
(* (src/src/engine/layer1.ts, 2b), with what it reads: the git state of    *)
(* the file (src/src/engine/gitstate.ts) and the session's own writes in   *)
(* the events table (Store.sessionHasWrittenTo).  Between the question,    *)
(* the event row, the verdict and the agent's write, other sessions and    *)
(* the human go on working on the same files.                              *)
(*                                                                         *)
(* The content of a file is the set of the pieces of work it holds; a      *)
(* piece is known by its author and a number.                              *)
(***************************************************************************)
EXTENDS Integers, FiniteSets

CONSTANTS
  Files,      \* files inside the repository, not ignored
  Agents,     \* agent sessions
  Human,      \* the human, an author like the sessions
  Spellings,  \* ways to write a path: "abs" or "rel"
  MaxPieces,  \* bound on the pieces of work ever made
  Serial,     \* does everyone wait while a tool call is under way?
  CanFail,    \* may the insertion of an event row fail?
  None        \* no file

Authors == Agents \cup {Human}
Tools   == {"write", "edit"}

ASSUME AuthorsAssumption == Human \notin Agents
ASSUME SpellingsAssumption == Spellings \subseteq {"abs", "rel"}
ASSUME ParameterAssumption ==
  MaxPieces \in Nat /\ Serial \in BOOLEAN /\ CanFail \in BOOLEAN

VARIABLES
  disk,       \* the content of each file, None when it does not exist
  index,      \* what git has staged, None when the file is untracked
  committed,  \* the pieces in some commit of the file
  rows,       \* the write and edit rows of the events table
  call,       \* the tool call each session has under way
  pieces,     \* how many pieces of work were made
  refused,    \* calls answered "deny", and whether the file was the session's own
  wrote,      \* <<session, file>>: the session's tool did change the file
  created,    \* <<session, file, spelling>>: a call on record made the file
  lost        \* work destroyed by a whole-file write that git cannot restore

vars == <<disk, index, committed, rows, call, pieces, refused, wrote, created, lost>>

Idle  == [at |-> "idle"]
Calls == {Idle} \cup
         [at : {"asked", "recorded", "allowed"}, file : Files, as : Spellings,
          tool : Tools, agentAuthored : BOOLEAN, onRecord : BOOLEAN]
Pieces == Authors \X (1..MaxPieces)

Init ==
  /\ disk = [f \in Files |-> None]
  /\ index = [f \in Files |-> None]
  /\ committed = [f \in Files |-> {}]
  /\ rows = {}
  /\ call = [s \in Agents |-> Idle]
  /\ pieces = 0
  /\ refused = {} /\ wrote = {} /\ created = {} /\ lost = {}

Free == Serial => \A s \in Agents : call[s] = Idle

NewPiece(a) == <<a, pieces + 1>>

content(f) == IF disk[f] = None THEN {} ELSE disk[f]

\* The human types into a file.
HumanSave(f) ==
  /\ Free /\ pieces < MaxPieces
  /\ disk' = [disk EXCEPT ![f] = content(f) \cup {NewPiece(Human)}]
  /\ pieces' = pieces + 1
  /\ UNCHANGED <<index, committed, rows, call, refused, wrote, created, lost>>

\* git add and git commit, by anyone.
GitAdd(f) ==
  /\ Free /\ disk[f] # None
  /\ index' = [index EXCEPT ![f] = disk[f]]
  /\ UNCHANGED <<disk, committed, rows, call, pieces, refused, wrote, created, lost>>

GitCommit(f) ==
  /\ Free /\ index[f] # None
  /\ committed' = [committed EXCEPT ![f] = @ \cup index[f]]
  /\ UNCHANGED <<disk, index, rows, call, pieces, refused, wrote, created, lost>>

\* Mutation: the session's own history is not asked.
hasWrittenNothing(s, f, as) == FALSE

\* The query compares the path as it is written now, and resolved, with the
\* paths as they were written then.
sessionHasWrittenTo(s, f, as) ==
  \E r \in rows : r.session = s /\ r.file = f /\ r.as \in {as, "abs"}

\* A pre_tool delivery arrives; the question is asked before the row exists.
Ask(s, f, as, t) ==
  /\ Free /\ call[s] = Idle
  /\ call' = [call EXCEPT ![s] =
       [at |-> "asked", file |-> f, as |-> as, tool |-> t,
        agentAuthored |-> sessionHasWrittenTo(s, f, as), onRecord |-> FALSE]]
  /\ UNCHANGED <<disk, index, committed, rows, pieces, refused, wrote, created, lost>>

recordEvent(s) ==
  /\ call[s].at = "asked"
  /\ \/ /\ call' = [call EXCEPT ![s].at = "recorded", ![s].onRecord = TRUE]
        /\ rows' = rows \cup
             {[session |-> s, file |-> call[s].file, as |-> call[s].as]}
     \/ /\ CanFail
        /\ call' = [call EXCEPT ![s].at = "recorded"]
        /\ UNCHANGED rows
  /\ UNCHANGED <<disk, index, committed, pieces, refused, wrote, created, lost>>

gitFileState(f) ==
  CASE disk[f] = None     -> "absent"
    [] index[f] = None    -> "untracked"
    [] index[f] = disk[f] -> "clean"
    [] OTHER              -> "modified"

\* Mutation: a tracked file is taken for safe.
isUntracked(state) == state = "untracked"

isUnrecoverable(state) == state \in {"untracked", "modified"}

\* A file the session made in a call on record, under this path or its full one.
isOwn(s) ==
  \E as \in {call[s].as, "abs"} : <<s, call[s].file, as>> \in created

denied(s) ==
  /\ call[s].tool = "write"
  /\ ~call[s].agentAuthored
  /\ isUnrecoverable(gitFileState(call[s].file))

evaluateLayer1(s) ==
  /\ call[s].at = "recorded"
  /\ IF denied(s)
     THEN /\ call' = [call EXCEPT ![s] = Idle]
          /\ refused' = refused \cup
               {[session |-> s, file |-> call[s].file, own |-> isOwn(s)]}
     ELSE /\ call' = [call EXCEPT ![s].at = "allowed"]
          /\ UNCHANGED refused
  /\ UNCHANGED <<disk, index, committed, rows, pieces, wrote, created, lost>>

\* The agent's tool runs.  An edit keeps what is there, a write replaces it.
\* An edit needs something to edit.
Act(s) ==
  LET f == call[s].file  t == call[s].tool
      destroyed == IF t = "edit" THEN {}
                   ELSE {w \in content(f) : w[1] # s}
                          \ (committed[f] \cup (IF index[f] = None THEN {} ELSE index[f]))
  IN
  /\ call[s].at = "allowed"
  /\ call' = [call EXCEPT ![s] = Idle]
  /\ IF pieces < MaxPieces /\ (t = "edit" => disk[f] # None)
     THEN /\ disk' = [disk EXCEPT ![f] = {NewPiece(s)} \cup
                                         (IF t = "edit" THEN content(f) ELSE {})]
          /\ pieces' = pieces + 1
          /\ wrote' = wrote \cup {<<s, f>>}
          /\ created' = IF disk[f] = None /\ call[s].onRecord
                       THEN created \cup {<<s, f, call[s].as>>} ELSE created
          /\ lost' = lost \cup {[work |-> w, session |-> s, file |-> f,
                                 agentAuthored |-> call[s].agentAuthored,
                                 hadWritten |-> <<s, f>> \in wrote] : w \in destroyed}
     ELSE UNCHANGED <<disk, pieces, wrote, created, lost>>
  /\ UNCHANGED <<index, committed, rows, refused>>

Agent(s) ==
  \/ \E f \in Files, as \in Spellings, t \in Tools : Ask(s, f, as, t)
  \/ recordEvent(s) \/ evaluateLayer1(s) \/ Act(s)

Next ==
  \/ \E s \in Agents : Agent(s)
  \/ \E f \in Files : HumanSave(f) \/ GitAdd(f) \/ GitCommit(f)

Spec == Init /\ [][Next]_vars
-----------------------------------------------------------------------------

\* Types of every variable.
TypeOK ==
  /\ disk \in [Files -> (SUBSET Pieces) \cup {None}]
  /\ index \in [Files -> (SUBSET Pieces) \cup {None}]
  /\ committed \in [Files -> SUBSET Pieces]
  /\ rows \subseteq [session : Agents, file : Files, as : Spellings]
  /\ call \in [Agents -> Calls]
  /\ pieces \in 0..MaxPieces
  /\ refused \subseteq [session : Agents, file : Files, own : BOOLEAN]
  /\ wrote \subseteq Agents \X Files
  /\ created \subseteq Agents \X Files \X Spellings
  /\ lost \subseteq [work : Pieces, session : Agents, file : Files,
                     agentAuthored : BOOLEAN, hadWritten : BOOLEAN]

\* While calls do not overlap, a session's first touch of a file never destroys
\* work of others that git cannot restore: whatever was staged, committed or
\* typed before, it is refused.
FirstTouchProtects == \A l \in lost : l.agentAuthored

\* "the agent may always rewrite a file it created itself" (docs/GIT-AWARENESS.md:29):
\* once the call that made the file is on record, a write under that path, or
\* under the one spelling a path resolves to, is not refused, whoever worked on
\* the file since and however many calls of others came between.
OwnFilesStayWritable == \A r \in refused : ~r.own

\* "this session did not write it ... What is being protected is work the agent
\* did not do" (docs/GIT-AWARENESS.md:29-34): unrestorable work is destroyed only by
\* a session whose tool had written to the file before.
WorkItDidNotDoIsProtected == \A l \in lost : l.hadWritten

(***************************************************************************)
(* The inductive invariant behind FirstTouchProtects, when calls do not    *)
(* overlap: the state of the file that allowed a write is still its state  *)
(* when the write is made.                                                 *)
(***************************************************************************)
OneCall ==
  \A s, t \in Agents : call[s] # Idle /\ call[t] # Idle => s = t

StillRecoverable ==
  \A s \in Agents : call[s].at = "allowed" => ~denied(s)

GuardInv == TypeOK /\ OneCall /\ StillRecoverable /\ FirstTouchProtects
=============================================================================
