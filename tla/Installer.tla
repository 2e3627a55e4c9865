----------------------------- MODULE Installer -----------------------------
(***************************************************************************)
(* The control plane (src/src/install/installer.ts, src/src/status.ts):    *)
(* `usewarden init` plans, backs up, writes and records its hooks in the   *)
(* agents' own config files; `uninstall` takes them out, `restore-configs` *)
(* puts a backup back, `status` judges what it finds.  A command is one    *)
(* process that writes one file after another and can die between any two  *)
(* of them, while the user and the agents go on editing the same files.    *)
(*                                                                         *)
(* A config holds groups of hooks by event.  A hook is what it runs: a     *)
(* user's own command, usewarden at one of its locations, or something     *)
(* Elsewhere that took the place of usewarden.  A group carries usewarden's *)
(* tag or does not; tags within it come and go together.  Everything       *)
(* outside the hooks container is the number of the user's last edit.      *)
(* init's read and its write are steps apart (it asks before it writes);   *)
(* uninstall's read and write of one file follow at once and are one step. *)
(* A config is truncated and written in place: a write that fails, or in   *)
(* which the command dies, may leave the file empty or cut short.          *)
(*                                                                         *)
(* Left out: order, indentation and formatting; an event with an empty     *)
(* list stands for no event; OpenCode's plugin file, which is usewarden's  *)
(* as a whole; the policy file and the checklist, which init also touches; *)
(* a manifest cut short by a death, which restore-configs cannot read.     *)
(***************************************************************************)
EXTENDS Integers, Sequences, FiniteSets

CONSTANTS
  UserFiles,   \* the agents' configs in the home directory
  Projects,    \* repositories, each the set of its config files
  Events,      \* the hook events usewarden registers
  UserHooks,   \* hooks of the user's own
  Start,       \* configs that files may have at first
  Legacy,      \* may an older version, which hashed the tags, have been there?
  MaxMoves,    \* bound: places usewarden is installed in, one after the other
  Kept,        \* those of them that stay on disk when it moves on
  MaxEdits,    \* bound: edits by the user and the agents
  MaxBackups,  \* bound: backups taken
  CanFail,     \* may a command die, or a write fail?
  None,        \* no integrity record
  Unparseable  \* what is hashed of a file that does not parse

Files     == UserFiles \cup UNION Projects
Locations == 1..MaxMoves
Elsewhere == 0
Hooks     == UserHooks \cup Locations \cup {Elsewhere}
Groups    == [tagged : BOOLEAN, hooks : SUBSET Hooks]
Configs   == [exists : BOOLEAN, rest : 0..MaxEdits, disabled : BOOLEAN,
              container : BOOLEAN, groups : [Events -> SUBSET Groups]]

NoGroups == [e \in Events |-> {}]
Absent   == [exists |-> FALSE, rest |-> 0, disabled |-> FALSE,
             container |-> FALSE, groups |-> NoGroups]

ASSUME HooksAssumption == UserHooks \cap (Locations \cup {Elsewhere}) = {}
ASSUME ValuesAssumption ==
  None # Unparseable /\ {None, Unparseable} \cap [Events -> SUBSET Groups] = {}
ASSUME StartAssumption ==
  /\ Start \subseteq Configs
  /\ \A c \in Start, e \in Events : \A g \in c.groups[e] : ~g.tagged /\ g.hooks \subseteq UserHooks
ASSUME BoundsAssumption ==
  /\ MaxMoves \in Nat \ {0} /\ Kept \subseteq Locations /\ MaxEdits \in Nat /\ MaxBackups \in Nat
  /\ Legacy \in BOOLEAN /\ CanFail \in BOOLEAN

VARIABLES
  config,     \* what each file holds
  mangled,    \* files whose text is not JSON at the moment
  bin,        \* where usewarden is installed now
  integrity,  \* the value hashed in each file's integrity record
  created,    \* meta.'created_container:<file>'
  backups,    \* the backup directories, each with its manifest
  step,       \* what the command under way does next
  plan,       \* what it found and what it will write, by file
  todo,       \* the files it has still to do that to
  disturbed,  \* files edited under the command, or not written by it (history)
  doubtful,   \* files whose record may not be of what init wrote (history)
  unrecorded, \* files init began to write and has not recorded since (history)
  torn,       \* files written by an init that died before its notes (history)
  theirs,     \* files whose hooks container the user made (history)
  aged,       \* files whose record an older version made (history)
  edits       \* how many edits there were

vars == <<config, mangled, bin, integrity, created, backups, step, plan, todo,
          disturbed, doubtful, unrecorded, torn, theirs, aged, edits>>
files   == <<config, mangled>>
notes   == <<integrity, created>>
command == <<step, plan, todo>>
history == <<disturbed, doubtful, unrecorded, torn, theirs, aged>>

\* A file that has just been opened for writing.
Empty  == [Absent EXCEPT !.exists = TRUE]
NoPlan == [f \in {} |-> Absent]
-----------------------------------------------------------------------------
(* Whose entry is it, and what is its hash? *)

\* Mutation: an entry is usewarden's by its tag alone.
isTaggedEntry(g) == g.tagged

\* By the tag, or by what it runs: one hook of usewarden's makes the group its own.
isUsewardenEntry(g) == g.tagged \/ g.hooks \cap Locations # {}

ownGroups(c) == [e \in Events |-> {g \in c.groups[e] : isUsewardenEntry(g)}]

\* Mutation: the tag is hashed.
keepTag(own) == own

withoutTag(own) ==
  [e \in Events |-> {[g EXCEPT !.tagged = FALSE] : g \in own[e]}]

\* extractUsewardenEntries; a file that does not parse is its own value.
integrityHash(f) == IF f \in mangled THEN Unparseable ELSE withoutTag(ownGroups(config[f]))
legacyHash(f)    == IF f \in mangled THEN Unparseable ELSE ownGroups(config[f])
-----------------------------------------------------------------------------
(* What init and uninstall make of a config. *)

usewardenEntry == [tagged |-> TRUE, hooks |-> {bin}]

foreignGroups(c) == [e \in Events |-> {g \in c.groups[e] : ~isUsewardenEntry(g)}]

\* Mutation: the list of hooks is replaced, not added to.
replaceEntries(c) ==
  [c EXCEPT !.exists = TRUE, !.container = TRUE,
            !.groups = [e \in Events |-> {usewardenEntry}]]

mergeEntries(c) ==
  [c EXCEPT !.exists = TRUE, !.container = TRUE,
            !.groups = [e \in Events |-> foreignGroups(c)[e] \cup {usewardenEntry}]]

\* Mutation: the container stays, whoever made it.
removeOnly(c, dropEmptyContainer) == [c EXCEPT !.groups = foreignGroups(c)]

removeEntries(c, dropEmptyContainer) ==
  [c EXCEPT !.groups = foreignGroups(c),
            !.container = @ /\ ~(dropEmptyContainer /\ foreignGroups(c) = NoGroups)]

\* usewarden as init registers it, at one place, tagged or not.
Pristine(own, place) == \A e \in Events : \E t \in BOOLEAN : own[e] = {[tagged |-> t, hooks |-> {place}]}

\* Nothing installed, or everything by an older version.
Init ==
  /\ bin = 1
  /\ \/ config \in [Files -> Start]
     \/ Legacy /\ config = [f \in Files |-> mergeEntries(Absent)]
  /\ mangled = {}
  /\ integrity = [f \in Files |-> IF ownGroups(config[f]) = NoGroups THEN None
                                  ELSE ownGroups(config[f])]
  /\ aged = {f \in Files : integrity[f] # None} /\ created = aged
  /\ backups = <<>>
  /\ step = "idle" /\ plan = NoPlan /\ todo = {}
  /\ disturbed = {} /\ doubtful = {} /\ unrecorded = {} /\ torn = {}
  /\ theirs = {f \in Files \ aged : config[f].container}
  /\ edits = 0
-----------------------------------------------------------------------------
(* usewarden init *)

Real(p) == {f \in DOMAIN p : p[f].after # p[f].before}

\* planInit over the user's files or one project's; a file that does not parse
\* is reported and left out.
planInit(S) ==
  /\ step = "idle"
  /\ plan' = [f \in S \ mangled |-> [before |-> config[f], after |-> mergeEntries(config[f])]]
  /\ \/ Real(plan') = {} /\ step' = "record" /\ todo' = DOMAIN plan'
     \/ Real(plan') # {} /\ step' = "save" /\ todo' = Real(plan')
        /\ Len(backups) < MaxBackups
  /\ DOMAIN plan' # {}
  /\ UNCHANGED <<files, bin, notes, backups, history, edits>>

\* Mutation: what will be written is kept, in the place of what was read.
saveAfter ==
  /\ step = "save" /\ step' = "write"
  /\ backups' = Append(backups, [f \in Real(plan) |-> plan[f].after])
  /\ UNCHANGED <<files, bin, notes, plan, todo, history, edits>>

\* Every backup, then the manifest, which makes the directory a backup.
saveBackups ==
  /\ step = "save" /\ step' = "write"
  /\ backups' = Append(backups,
       [f \in Real(plan) |-> [plan[f].before EXCEPT !.exists = @ \/ config[f].exists]])
  /\ UNCHANGED <<files, bin, notes, plan, todo, history, edits>>

\* Done with f in this round; after the last one the command goes on.
Done(f, here, next) ==
  /\ step = here /\ f \in todo
  /\ todo' = todo \ {f}
  /\ step' = IF todo = {f} THEN next ELSE here

Write(f, c) ==
  /\ config' = [config EXCEPT ![f] = c]
  /\ mangled' = mangled \ {f}

\* What a write of c leaves that does not come to its end: nothing of it, or a
\* part that does not parse; the rest may be supplied later.
Tear(f, c) ==
  \/ Write(f, Empty)
  \/ config' = [config EXCEPT ![f] = c] /\ mangled' = mangled \cup {f}

\* The write throws, or the command dies in it (Die is then the next step): the
\* error is reported and the command goes on.
WriteFails(f, c) == CanFail /\ (UNCHANGED files \/ Tear(f, c))

writeConfig(f) ==
  /\ Done(f, "write", "note")
  /\ \/ Write(f, plan[f].after) /\ UNCHANGED disturbed
     \/ WriteFails(f, plan[f].after) /\ disturbed' = disturbed \cup {f}
  /\ unrecorded' = unrecorded \cup {f}
  /\ UNCHANGED <<bin, notes, backups, plan, doubtful, torn, theirs, aged, edits>>

noteContainers ==
  /\ step = "note" /\ step' = "record"
  /\ created' = created \cup {f \in Real(plan) : ~plan[f].before.container}
  /\ todo' = DOMAIN plan
  /\ UNCHANGED <<files, bin, integrity, backups, plan, history, edits>>

\* The file is read again, and what is there now becomes the baseline.
recordIntegrity(f) ==
  /\ Done(f, "record", "idle")
  /\ integrity' = [integrity EXCEPT ![f] = integrityHash(f)]
  /\ doubtful' = IF f \in disturbed THEN doubtful \cup {f} ELSE doubtful \ {f}
  /\ unrecorded' = unrecorded \ {f}
  /\ disturbed' = IF todo = {f} THEN {} ELSE disturbed
  /\ plan' = IF todo = {f} THEN NoPlan ELSE plan
  /\ aged' = aged \ {f}
  /\ UNCHANGED <<files, bin, created, backups, torn, theirs, edits>>
-----------------------------------------------------------------------------
(* usewarden uninstall, restore-configs, status *)

Known == {f \in Files : integrity[f] # None}

\* Run in a repository, or in none: detectAllScopes.
uninstall(project) ==
  /\ step = "idle" /\ step' = "remove"
  /\ todo' = UserFiles \cup Known \cup {f \in project : config[f].exists}
  /\ disturbed' = {}
  /\ UNCHANGED <<files, bin, notes, backups, plan, doubtful, unrecorded, torn, theirs, aged, edits>>

removeFrom(f) ==
  /\ step = "remove" /\ f \in todo
  /\ todo' = todo \ {f}
  /\ \/ f \in mangled /\ UNCHANGED <<files, disturbed>>
     \/ /\ f \notin mangled
        /\ LET c == removeEntries(config[f], f \in created) IN
           \/ Write(f, c) /\ UNCHANGED disturbed
           \/ WriteFails(f, c) /\ disturbed' = disturbed \cup {f}
  /\ UNCHANGED <<bin, notes, backups, step, plan, doubtful, unrecorded, torn, theirs, aged, edits>>

clearIntegrity ==
  /\ step = "remove" /\ todo = {} /\ step' = "idle"
  /\ integrity' = [f \in Files |-> None]
  /\ disturbed' = {} /\ aged' = {}
  /\ UNCHANGED <<files, bin, created, backups, plan, todo, doubtful, unrecorded, torn, theirs, edits>>

\* The latest backup, or the one that was named.  What did not exist is deleted.
restoreConfigs(i) ==
  /\ step = "idle" /\ step' = "restore"
  /\ plan' = [f \in DOMAIN backups[i] |-> [before |-> config[f], after |-> backups[i][f]]]
  /\ todo' = DOMAIN backups[i]
  /\ UNCHANGED <<files, bin, notes, backups, history, edits>>

restoreFile(f) ==
  /\ Done(f, "restore", "idle")
  /\ \/ Write(f, plan[f].after)
     \/ plan[f].after.exists /\ WriteFails(f, plan[f].after)
     \/ CanFail /\ UNCHANGED files
  /\ disturbed' = IF todo = {f} THEN {} ELSE disturbed
  /\ plan' = IF todo = {f} THEN NoPlan ELSE plan
  /\ UNCHANGED <<bin, notes, backups, doubtful, unrecorded, torn, theirs, aged, edits>>

\* The command is killed.
Die ==
  /\ CanFail /\ step # "idle" /\ step' = "idle"
  /\ torn' = IF step \in {"write", "note"} THEN torn \cup (Real(plan) \ todo) ELSE torn
  /\ plan' = NoPlan /\ todo' = {} /\ disturbed' = {}
  /\ UNCHANGED <<files, bin, notes, backups, doubtful, unrecorded, theirs, aged, edits>>

hashMatches(f) == integrity[f] \in {integrityHash(f), legacyHash(f)}

\* buildStatus writes a record of the old form anew.
migrateRecord(f) ==
  /\ integrity[f] # None /\ integrity[f] # integrityHash(f)
  /\ hashMatches(f)
  /\ integrity' = [integrity EXCEPT ![f] = integrityHash(f)]
  /\ aged' = aged \ {f}
  /\ UNCHANGED <<files, bin, created, backups, command, disturbed, doubtful, unrecorded, torn, theirs, edits>>
-----------------------------------------------------------------------------
(* The user and the agents *)

Edit(f, c) ==
  /\ edits < MaxEdits /\ edits' = edits + 1
  /\ f \notin mangled
  /\ config' = [config EXCEPT ![f] = c]
  /\ disturbed' = IF step = "idle" THEN disturbed ELSE disturbed \cup {f}
  /\ theirs' = IF c.container /\ ~config[f].container THEN theirs \cup {f} ELSE theirs
  /\ UNCHANGED <<mangled, bin, notes, backups, command, doubtful, unrecorded, torn, aged>>

saveSettings(f) == Edit(f, [config[f] EXCEPT !.exists = TRUE, !.rest = edits + 1])

switchHooks(f) ==
  config[f].exists /\ Edit(f, [config[f] EXCEPT !.disabled = ~@])

addHook(f, e, u) ==
  Edit(f, [config[f] EXCEPT !.exists = TRUE, !.container = TRUE,
                            !.groups[e] = @ \cup {[tagged |-> FALSE, hooks |-> {u}]}])

\* A hook joins a group that is there, usewarden's or another's.
joinGroup(f, e, u) ==
  \E g \in config[f].groups[e] :
    /\ u \notin g.hooks
    /\ Edit(f, [config[f] EXCEPT !.groups[e] = (@ \ {g}) \cup {[g EXCEPT !.hooks = @ \cup {u}]}])

dropHooks(f, e) ==
  /\ ownGroups(config[f])[e] # {}
  /\ Edit(f, [config[f] EXCEPT !.groups[e] = foreignGroups(config[f])[e]])

redirectHooks(f, e) ==
  /\ ownGroups(config[f])[e] # {}
  /\ Edit(f, [config[f] EXCEPT !.groups[e] =
       foreignGroups(config[f])[e] \cup
       {[g EXCEPT !.hooks = (@ \ Locations) \cup {Elsewhere}] : g \in ownGroups(config[f])[e]}])

\* An agent rewrites its settings and drops what is not in its schema.
dropTags(f) ==
  /\ \E e \in Events : \E g \in config[f].groups[e] : g.tagged
  /\ Edit(f, [config[f] EXCEPT !.groups =
       [e \in Events |-> {[g EXCEPT !.tagged = FALSE] : g \in config[f].groups[e]}]])

removeFile(f) == config[f].exists /\ Edit(f, Absent)

\* An edit is saved half done, and finished later.
mangle(f) ==
  /\ edits < MaxEdits /\ edits' = edits + 1
  /\ config[f].exists /\ f \notin mangled
  /\ mangled' = mangled \cup {f}
  /\ disturbed' = IF step = "idle" THEN disturbed ELSE disturbed \cup {f}
  /\ UNCHANGED <<config, bin, notes, backups, command, doubtful, unrecorded, torn, theirs, aged>>

mend(f) ==
  /\ f \in mangled
  /\ mangled' = mangled \ {f}
  /\ disturbed' = IF step = "idle" THEN disturbed ELSE disturbed \cup {f}
  /\ UNCHANGED <<config, bin, notes, backups, command, doubtful, unrecorded, torn, theirs, aged, edits>>

\* usewarden is installed in another place; the one before is gone unless Kept.
moveInstall ==
  /\ bin < MaxMoves /\ bin' = bin + 1
  /\ step = "idle"
  /\ UNCHANGED <<files, notes, backups, command, history, edits>>

usewarden ==
  \/ \E S \in {UserFiles} \cup Projects : planInit(S)
  \/ saveBackups \/ noteContainers
  \/ \E f \in Files : writeConfig(f) \/ recordIntegrity(f)
  \/ \E project \in {{}} \cup Projects : uninstall(project)
  \/ \E f \in Files : removeFrom(f)
  \/ clearIntegrity
  \/ \E i \in 1..Len(backups) : restoreConfigs(i)
  \/ \E f \in Files : restoreFile(f) \/ migrateRecord(f)
  \/ Die

others ==
  \/ \E f \in Files :
       \/ saveSettings(f) \/ switchHooks(f) \/ dropTags(f) \/ removeFile(f)
       \/ mangle(f) \/ mend(f)
       \/ \E e \in Events :
            \/ dropHooks(f, e) \/ redirectHooks(f, e)
            \/ \E u \in UserHooks : addHook(f, e, u) \/ joinGroup(f, e, u)
  \/ moveInstall

Next == usewarden \/ others

Spec == Init /\ [][Next]_vars
-----------------------------------------------------------------------------
(* What status says of a file while usewarden is locked. *)

hooksOf(own) == UNION {g.hooks : g \in UNION {own[e] : e \in Events}}

registered(f) == f \notin mangled /\ ownGroups(config[f]) # NoGroups

commandPointsAtUsewarden(f) == hooksOf(ownGroups(config[f])) = {bin}

\* Registered where usewarden was and where nothing is any more.
stale(f) == hooksOf(ownGroups(config[f])) \cap (Locations \ ({bin} \cup Kept)) # {}

\* Mutation: the hash is not compared.
protectedByPath(f) ==
  /\ integrity[f] # None /\ registered(f) /\ ~config[f].disabled
  /\ commandPointsAtUsewarden(f)

protected(f) ==
  /\ integrity[f] # None /\ registered(f) /\ ~config[f].disabled
  /\ commandPointsAtUsewarden(f) /\ hashMatches(f)

tampered(f) ==
  /\ integrity[f] # None /\ registered(f) /\ ~config[f].disabled
  /\ \/ ~commandPointsAtUsewarden(f) /\ ~stale(f)
     \/ commandPointsAtUsewarden(f) /\ ~hashMatches(f)
-----------------------------------------------------------------------------

\* Types of every variable.
TypeOK ==
  /\ config \in [Files -> Configs] /\ mangled \subseteq Files /\ bin \in Locations
  /\ integrity \in [Files -> [Events -> SUBSET Groups] \cup {None, Unparseable}]
  /\ created \subseteq Files
  /\ \A i \in 1..Len(backups) :
       DOMAIN backups[i] \subseteq Files /\ \A f \in DOMAIN backups[i] : backups[i][f] \in Configs
  /\ step \in {"idle", "save", "write", "note", "record", "remove", "restore"}
  /\ DOMAIN plan \subseteq Files
  /\ \A f \in DOMAIN plan : plan[f].before \in Configs /\ plan[f].after \in Configs
  /\ todo \subseteq Files /\ disturbed \subseteq Files /\ doubtful \subseteq Files
  /\ unrecorded \subseteq Files /\ torn \subseteq Files /\ theirs \subseteq Files /\ aged \subseteq Files /\ edits \in 0..MaxEdits

RunsUsewarden(g) == g.hooks \cap Locations # {}

Once(c) == \A e \in Events : \A g, h \in c.groups[e] : RunsUsewarden(g) /\ RunsUsewarden(h) => g = h

\* No event fires usewarden twice (docs/THREAT-MODEL.md, the 2026-08-24 incident),
\* whatever sequence of inits, rewrites that drop the tags, moves, uninstalls
\* and restores a file went through.
NeverTwice == \A f \in Files : Once(config[f])

\* PROTECTED of a locked usewarden means that its hook runs on every event, in
\* a file where hooks are not switched off, also when an init died between its
\* writes and its records; unless init's own write failed, or the file was
\* edited between the write and the record that made it the baseline.
ProtectedMeansRunning ==
  \A f \in Files \ doubtful : protected(f) =>
    /\ ~config[f].disabled
    /\ \A e \in Events : \E g \in config[f].groups[e] : bin \in g.hooks

Tagged(own) == \A e \in Events : \A g \in own[e] : g.tagged

recordedAt(f, place) ==
  integrity[f] \notin {None, Unparseable} /\ hooksOf(integrity[f]) = {place}

\* "False alarms are how a security tool teaches people to ignore it" (status.ts):
\* a file that runs what init registered, with or without the tags, is not called
\* TAMPERED, in whatever order moves, commands and rewrites came.  The exceptions:
\* a record that was made of a file somebody wrote under the command, or that init
\* failed to write; a file an older version registered whose tags are gone; and a
\* file that init wrote and has not recorded yet, or did not live to record
\* (installer.ts:409, 415), when the record that stands is of another place:
\* usewarden had moved, and status calls the very entries init wrote TAMPERED
\* (NeverCriesWolf).
NoFalseAlarm ==
  \A f \in Files \ doubtful :
    /\ integrity[f] # None
    /\ Pristine(ownGroups(config[f]), bin)
    /\ f \in aged => Tagged(ownGroups(config[f]))
    /\ f \in unrecorded => recordedAt(f, bin)
    => ~tampered(f)

\* The same without the last exception.  It does not hold: init at one place, a
\* move, an init that dies between its write and its record, status.
NeverCriesWolf ==
  \A f \in Files \ doubtful :
    /\ integrity[f] # None
    /\ Pristine(ownGroups(config[f]), bin)
    /\ f \in aged => Tagged(ownGroups(config[f]))
    => ~tampered(f)

Others(c) == [rest |-> c.rest, disabled |-> c.disabled, groups |-> foreignGroups(c)]

Writes(f) == step \in {"write", "remove"} /\ f \in todo /\ f \notin todo'

\* init and uninstall leave what is not in usewarden's groups as it is, though
\* init writes what it planned several steps before.  What is lost was saved by
\* somebody in between, or was in a file whose write failed half-way; uninstall,
\* unlike init, has no backup of that (installer.ts:508).
OthersUntouched ==
  [][\A f \in Files : Writes(f) /\ step' # "idle" /\ f \notin disturbed'
       => Others(config'[f]) = Others(config[f])]_vars

\* "takes a timestamped backup before it touches a byte" (README.md:303-304): what
\* init overwrites, or destroys in a write that fails, is what the newest backup
\* holds, unless somebody wrote the file since init read it.
OverwrittenIsBackedUp ==
  [][\A f \in Files : step = "write" /\ config'[f] # config[f] /\ f \notin todo' /\ f \in todo
                      /\ f \notin disturbed
       => backups[Len(backups)][f] = config[f]]_vars

\* After uninstall no file it knows of runs usewarden, and an empty hooks
\* container is left only where the user made it or an init died; files it could
\* not read or write, or that somebody wrote at that moment, excepted.
UninstallLeavesNothing ==
  [][step = "remove" /\ step' = "idle" /\ todo = {} /\ integrity' # integrity =>
       \A f \in (UserFiles \cup Known) \ (mangled \cup disturbed) :
         /\ \A e \in Events : ~\E g \in config[f].groups[e] : RunsUsewarden(g)
         /\ config[f].container /\ foreignGroups(config[f]) = NoGroups => f \in theirs \cup torn]_vars

\* "removes usewarden's hook entries, leaves your own edits alone" (README.md:310):
\* a hook of the user's is there after uninstall wherever the user put it.
OwnEditsSurvive ==
  [][\A f \in Files : step = "remove" /\ f \in todo /\ f \notin todo' =>
       hooksOf(config'[f].groups) \cap UserHooks = hooksOf(config[f].groups) \cap UserHooks]_vars
=============================================================================
