--------------------------- MODULE InstallerProofs ---------------------------
(***************************************************************************)
(* Theorems about Installer, for any files, projects, events and user's    *)
(* hooks, any number of moves, edits and backups, with failures and deaths *)
(* anywhere.                                                                *)
(***************************************************************************)
EXTENDS Installer, TLAPS

-----------------------------------------------------------------------------
(* What a change of a config does *)

\* The hooks of usewarden's in a config are of the places up to n.
Within(c, n) == \A e \in Events : \A g \in c.groups[e] : \A k \in g.hooks \cap Locations : k <= n

\* What init registers on every event.
Registered == [e \in Events |-> {usewardenEntry}]

\* A change after which usewarden is run no more often, and from no later place.
Tame(c, d) ==
  /\ Once(c) => Once(d)
  /\ \A n \in Locations : Within(c, n) => Within(d, n)

LEMMA Apart == Elsewhere \notin Locations /\ UserHooks \cap Locations = {}
  BY HooksAssumption, BoundsAssumption DEF Elsewhere, Locations

LEMMA AbsentTypes == Absent \in Configs /\ ownGroups(Absent) = NoGroups
  BY BoundsAssumption DEF Absent, Configs, NoGroups, ownGroups

LEMMA EntryOwn ==
  ASSUME bin \in Locations
  PROVE  usewardenEntry \in Groups /\ isUsewardenEntry(usewardenEntry)
  BY DEF usewardenEntry, Groups, Hooks, isUsewardenEntry

LEMMA ForeignTypes ==
  ASSUME NEW c \in Configs
  PROVE  /\ foreignGroups(c) \in [Events -> SUBSET Groups]
         /\ ownGroups(c) \in [Events -> SUBSET Groups]
         /\ \A e \in Events : \A g \in foreignGroups(c)[e] :
              g \in c.groups[e] /\ ~isUsewardenEntry(g) /\ g.hooks \cap Locations = {}
  BY DEF foreignGroups, ownGroups, Configs, isUsewardenEntry

LEMMA Merged ==
  ASSUME NEW c \in Configs, bin \in Locations
  PROVE  LET d == mergeEntries(c) IN
         d \in Configs /\ Once(d) /\ Within(d, bin) /\ ownGroups(d) = Registered
  <1> DEFINE d == mergeEntries(c)
  <1>1. usewardenEntry \in Groups /\ isUsewardenEntry(usewardenEntry) /\ usewardenEntry.hooks = {bin}
    BY EntryOwn DEF usewardenEntry
  <1>2. d.groups = [e \in Events |-> foreignGroups(c)[e] \cup {usewardenEntry}]
    BY DEF mergeEntries, Configs
  <1>3. d \in Configs
    <2>1. d.groups \in [Events -> SUBSET Groups]
      BY <1>1, <1>2, ForeignTypes
    <2> QED
      BY <1>2, <2>1 DEF mergeEntries, Configs
  <1>4. Once(d)
    BY <1>1, <1>2, ForeignTypes DEF Once, RunsUsewarden
  <1>5. Within(d, bin)
    BY <1>1, <1>2, ForeignTypes DEF Within, Locations
  <1>6. ownGroups(d) = Registered
    BY <1>1, <1>2, ForeignTypes DEF ownGroups, Registered
  <1> QED
    BY <1>3, <1>4, <1>5, <1>6

LEMMA Removed ==
  ASSUME NEW c \in Configs, NEW f
  PROVE  LET d == removeEntries(c, f \in created) IN d \in Configs /\ Tame(c, d)
  <1> DEFINE d == removeEntries(c, f \in created)
  <1>1. d.groups = foreignGroups(c)
    BY DEF removeEntries, Configs
  <1>2. d \in Configs
    BY <1>1, ForeignTypes DEF removeEntries, Configs
  <1>3. Tame(c, d)
    BY <1>1, ForeignTypes DEF Tame, Once, Within, RunsUsewarden
  <1> QED
    BY <1>2, <1>3

-----------------------------------------------------------------------------
(* The edits of the user and the agents are tame *)

LEMMA Saved ==
  ASSUME NEW c \in Configs, NEW d \in Configs, d.groups = c.groups
  PROVE  Tame(c, d)
  BY DEF Tame, Once, Within

LEMMA Added ==
  ASSUME NEW c \in Configs, NEW e \in Events, NEW u \in UserHooks
  PROVE  LET d == [c EXCEPT !.exists = TRUE, !.container = TRUE,
                            !.groups[e] = @ \cup {[tagged |-> FALSE, hooks |-> {u}]}]
         IN  d \in Configs /\ Tame(c, d)
  <1> DEFINE new == [tagged |-> FALSE, hooks |-> {u}]
             d == [c EXCEPT !.exists = TRUE, !.container = TRUE, !.groups[e] = @ \cup {new}]
  <1>1. new \in Groups /\ new.hooks \cap Locations = {}
    BY Apart DEF Groups, Hooks
  <1>2. d.groups = [c.groups EXCEPT ![e] = @ \cup {new}]
    BY DEF Configs
  <1> HIDE DEF new
  <1>3. d \in Configs
    BY <1>1 DEF Configs
  <1>4. Tame(c, d)
    <2> HIDE DEF d
    <2> QED
      BY <1>1, <1>2 DEF Tame, Once, Within, RunsUsewarden, Configs
  <1> QED
    BY <1>3, <1>4 DEF new

LEMMA Joined ==
  ASSUME NEW c \in Configs, NEW e \in Events, NEW u \in UserHooks,
         NEW g \in c.groups[e], u \notin g.hooks
  PROVE  LET d == [c EXCEPT !.groups[e] = (@ \ {g}) \cup {[g EXCEPT !.hooks = @ \cup {u}]}]
         IN  d \in Configs /\ Tame(c, d)
  <1> DEFINE new == [g EXCEPT !.hooks = @ \cup {u}]
             d == [c EXCEPT !.groups[e] = (@ \ {g}) \cup {new}]
  <1>1. g \in Groups /\ new \in Groups /\ new.hooks = g.hooks \cup {u}
    BY DEF Groups, Hooks, Configs
  <1>2. new.hooks \cap Locations = g.hooks \cap Locations
    BY <1>1, Apart
  <1>3. d.groups = [c.groups EXCEPT ![e] = (@ \ {g}) \cup {new}]
    BY DEF Configs
  <1> HIDE DEF new
  <1>4. d \in Configs
    BY <1>1 DEF Configs
  <1>5. Tame(c, d)
    <2> HIDE DEF d
    <2> QED
      BY <1>1, <1>2, <1>3 DEF Tame, Once, Within, RunsUsewarden, Configs
  <1> QED
    BY <1>4, <1>5 DEF new

LEMMA Dropped ==
  ASSUME NEW c \in Configs, NEW e \in Events
  PROVE  LET d == [c EXCEPT !.groups[e] = foreignGroups(c)[e]] IN d \in Configs /\ Tame(c, d)
  <1> DEFINE d == [c EXCEPT !.groups[e] = foreignGroups(c)[e]]
  <1>1. d.groups = [c.groups EXCEPT ![e] = foreignGroups(c)[e]]
    BY DEF Configs
  <1>2. d \in Configs
    BY ForeignTypes DEF Configs
  <1> HIDE DEF d
  <1>3. Tame(c, d)
    BY <1>1, ForeignTypes DEF Tame, Once, Within, RunsUsewarden, Configs
  <1> QED
    BY <1>2, <1>3 DEF d

LEMMA Redirected ==
  ASSUME NEW c \in Configs, NEW e \in Events
  PROVE  LET d == [c EXCEPT !.groups[e] =
                     foreignGroups(c)[e] \cup
                     {[g EXCEPT !.hooks = (@ \ Locations) \cup {Elsewhere}] : g \in ownGroups(c)[e]}]
         IN  d \in Configs /\ Tame(c, d)
  <1> DEFINE gone == {[g EXCEPT !.hooks = (@ \ Locations) \cup {Elsewhere}] : g \in ownGroups(c)[e]}
             d == [c EXCEPT !.groups[e] = foreignGroups(c)[e] \cup gone]
  <1>1. \A h \in gone : h \in Groups /\ h.hooks \cap Locations = {}
    BY ForeignTypes, Apart DEF Groups, Hooks
  <1>2. d.groups = [c.groups EXCEPT ![e] = foreignGroups(c)[e] \cup gone]
    BY DEF Configs
  <1> HIDE DEF gone
  <1>3. d \in Configs
    BY <1>1, ForeignTypes DEF Configs
  <1>4. Tame(c, d)
    <2> HIDE DEF d
    <2> QED
      BY <1>1, <1>2, ForeignTypes DEF Tame, Once, Within, RunsUsewarden, Configs
  <1> QED
    BY <1>3, <1>4 DEF gone

LEMMA Bared ==
  ASSUME NEW c \in Configs
  PROVE  LET d == [c EXCEPT !.groups =
                     [e \in Events |-> {[g EXCEPT !.tagged = FALSE] : g \in c.groups[e]}]]
         IN  d \in Configs /\ Tame(c, d)
  <1> DEFINE bare == [e \in Events |-> {[g EXCEPT !.tagged = FALSE] : g \in c.groups[e]}]
             d == [c EXCEPT !.groups = bare]
  <1>1. \A g \in Groups : /\ [g EXCEPT !.tagged = FALSE] \in Groups
                         /\ [g EXCEPT !.tagged = FALSE].hooks = g.hooks
    BY DEF Groups
  <1>2. \A e \in Events : c.groups[e] \subseteq Groups
    BY DEF Configs
  <1>3. /\ bare \in [Events -> SUBSET Groups]
        /\ \A e \in Events : \A h \in bare[e] :
             \E g \in c.groups[e] : h = [g EXCEPT !.tagged = FALSE] /\ h.hooks = g.hooks
    <2> DEFINE off(g) == [g EXCEPT !.tagged = FALSE]
    <2>1. /\ bare = [e \in Events |-> {off(g) : g \in c.groups[e]}]
          /\ \A g \in Groups : off(g) \in Groups /\ off(g).hooks = g.hooks
      BY <1>1
    <2> HIDE DEF off, bare
    <2>2. \A e \in Events : bare[e] \in SUBSET Groups
      BY <1>2, <2>1
    <2>3. bare \in [Events -> SUBSET Groups]
      BY <2>1, <2>2
    <2>4. \A e \in Events : \A h \in bare[e] : \E g \in c.groups[e] : h = off(g) /\ h.hooks = g.hooks
      BY <1>2, <2>1
    <2> QED
      BY <2>3, <2>4 DEF off
  <1> HIDE DEF bare
  <1>4. d.groups = bare
    BY DEF Configs
  <1>5. d \in Configs
    BY <1>3 DEF Configs
  <1>6. Tame(c, d)
    <2> HIDE DEF d
    <2>1. ASSUME Once(c), NEW e \in Events, NEW g \in d.groups[e], NEW h \in d.groups[e],
                 RunsUsewarden(g), RunsUsewarden(h)
          PROVE  g = h
      <3>1. PICK x \in c.groups[e] : g = [x EXCEPT !.tagged = FALSE] /\ g.hooks = x.hooks
        BY <1>3, <1>4
      <3>2. PICK y \in c.groups[e] : h = [y EXCEPT !.tagged = FALSE] /\ h.hooks = y.hooks
        BY <1>3, <1>4
      <3>3. x = y
        BY <2>1, <3>1, <3>2 DEF Once, RunsUsewarden
      <3> QED
        BY <3>1, <3>2, <3>3
    <2>2. \A n \in Locations : Within(c, n) => Within(d, n)
      BY <1>3, <1>4 DEF Within
    <2> QED
      BY <2>1, <2>2 DEF Tame, Once
  <1> QED
    BY <1>5, <1>6 DEF bare

LEMMA Emptied ==
  ASSUME NEW c \in Configs PROVE Absent \in Configs /\ Tame(c, Absent)
  BY AbsentTypes DEF Absent, NoGroups, Tame, Once, Within

\* A file that was opened for writing, and not written.
LEMMA EmptyFacts ==
  /\ Empty \in Configs /\ Empty.groups = NoGroups /\ ~Empty.container
  /\ Once(Empty) /\ \A n : Within(Empty, n)
  <1>1. Empty \in Configs /\ Empty.groups = NoGroups /\ ~Empty.container
    BY AbsentTypes DEF Empty, Absent, Configs
  <1> QED
    BY <1>1 DEF NoGroups, Once, Within

\* However a write of c ends, the file holds what it held, or c, or nothing, and
\* the other files are as they were.
LEMMA WriteEnds ==
  ASSUME TypeOK, NEW f \in Files, NEW c \in Configs, Write(f, c) \/ WriteFails(f, c)
  PROVE  /\ config' \in {config, [config EXCEPT ![f] = c], [config EXCEPT ![f] = Empty]}
         /\ config' \in [Files -> Configs] /\ mangled' \subseteq Files
         /\ \A g \in Files \ {f} : config'[g] = config[g] /\ (g \in mangled' <=> g \in mangled)
  <1>1. \/ config' = config /\ mangled' = mangled
        \/ config' = [config EXCEPT ![f] = c] /\ mangled' \in {mangled \ {f}, mangled \cup {f}}
        \/ config' = [config EXCEPT ![f] = Empty] /\ mangled' = mangled \ {f}
    BY DEF Write, WriteFails, Tear, files
  <1> QED
    BY <1>1, EmptyFacts DEF TypeOK

\* Whatever the user or an agent does to a file that parses is one tame edit.
Edits(f) ==
  \/ saveSettings(f) \/ switchHooks(f) \/ dropTags(f) \/ removeFile(f)
  \/ \E e \in Events :
       \/ dropHooks(f, e) \/ redirectHooks(f, e)
       \/ \E u \in UserHooks : addHook(f, e, u) \/ joinGroup(f, e, u)

LEMMA EditsAreTame ==
  ASSUME TypeOK, NEW f \in Files, Edits(f)
  PROVE  \E d \in Configs : Tame(config[f], d) /\ Edit(f, d)
  <1>1. config[f] \in Configs /\ edits \in 0..MaxEdits
    BY DEF TypeOK
  <1>2. CASE saveSettings(f)
    <2> DEFINE d == [config[f] EXCEPT !.exists = TRUE, !.rest = edits + 1]
    <2>1. edits < MaxEdits /\ Edit(f, d)
      BY <1>2 DEF saveSettings, Edit
    <2>2. edits + 1 \in 0..MaxEdits
      BY <1>1, <2>1, BoundsAssumption
    <2>3. d \in Configs /\ d.groups = config[f].groups
      BY <1>1, <2>2 DEF Configs
    <2> QED
      BY <1>1, <2>1, <2>3, Saved
  <1>3. CASE switchHooks(f)
    <2> DEFINE d == [config[f] EXCEPT !.disabled = ~@]
    <2>1. d \in Configs /\ d.groups = config[f].groups
      BY <1>1 DEF Configs
    <2> QED
      BY <1>1, <1>3, <2>1, Saved DEF switchHooks
  <1>4. CASE dropTags(f)
    BY <1>1, <1>4, Bared DEF dropTags
  <1>5. CASE removeFile(f)
    BY <1>1, <1>5, Emptied DEF removeFile
  <1>6. ASSUME NEW e \in Events, dropHooks(f, e) PROVE \E d \in Configs : Tame(config[f], d) /\ Edit(f, d)
    BY <1>1, <1>6, Dropped DEF dropHooks
  <1>7. ASSUME NEW e \in Events, redirectHooks(f, e) PROVE \E d \in Configs : Tame(config[f], d) /\ Edit(f, d)
    BY <1>1, <1>7, Redirected DEF redirectHooks
  <1>8. ASSUME NEW e \in Events, NEW u \in UserHooks, addHook(f, e, u)
        PROVE  \E d \in Configs : Tame(config[f], d) /\ Edit(f, d)
    BY <1>1, <1>8, Added DEF addHook
  <1>9. ASSUME NEW e \in Events, NEW u \in UserHooks, joinGroup(f, e, u)
        PROVE  \E d \in Configs : Tame(config[f], d) /\ Edit(f, d)
    BY <1>1, <1>9, Joined DEF joinGroup
  <1> QED
    BY <1>2, <1>3, <1>4, <1>5, <1>6, <1>7, <1>8, <1>9 DEF Edits

-----------------------------------------------------------------------------
(* Types *)

Saving == {"save", "write", "note", "record"}

Backup == UNION {[S -> Configs] : S \in SUBSET Files}

\* Types; the backups are a sequence, and what is still to be done is planned.
Typed ==
  /\ TypeOK /\ backups \in Seq(Backup)
  /\ step \in Saving \cup {"restore"} => todo \subseteq DOMAIN plan

LEMMA BackupFacts ==
  ASSUME backups \in Seq(Backup)
  PROVE  /\ Len(backups) \in Nat
         /\ \A i \in 1..Len(backups) :
              /\ DOMAIN backups[i] \subseteq Files
              /\ \A f \in DOMAIN backups[i] : backups[i][f] \in Configs
  <1>1. \A i \in 1..Len(backups) : backups[i] \in Backup
    OBVIOUS
  <1>2. \A b \in Backup : DOMAIN b \subseteq Files /\ \A f \in DOMAIN b : b[f] \in Configs
    BY DEF Backup
  <1> QED
    BY <1>1, <1>2

LEMMA NoPlanFacts == DOMAIN NoPlan = {}
  BY DEF NoPlan

LEMMA PlanScope ==
  /\ UserFiles \subseteq Files /\ \A P \in Projects : P \subseteq Files
  /\ NoGroups \in [Events -> SUBSET Groups]
  BY DEF Files, NoGroups

Untagged(own) == \A e \in Events : \A g \in own[e] : ~g.tagged

LEMMA HashTypes ==
  ASSUME TypeOK, NEW f \in Files
  PROVE  /\ integrityHash(f) \in [Events -> SUBSET Groups] \cup {Unparseable}
         /\ withoutTag(ownGroups(config[f])) \in [Events -> SUBSET Groups]
         /\ Untagged(withoutTag(ownGroups(config[f])))
  <1> DEFINE own == ownGroups(config[f])
             off(g) == [g EXCEPT !.tagged = FALSE]
  <1>1. own \in [Events -> SUBSET Groups]
    BY ForeignTypes DEF TypeOK
  <1>2. \A g \in Groups : off(g) \in Groups /\ ~off(g).tagged
    BY DEF Groups
  <1>3. withoutTag(own) = [e \in Events |-> {off(g) : g \in own[e]}]
    BY DEF withoutTag
  <1> HIDE DEF own, off
  <1>4. \A e \in Events : withoutTag(own)[e] \in SUBSET Groups
    BY <1>1, <1>2, <1>3
  <1>5. withoutTag(own) \in [Events -> SUBSET Groups] /\ Untagged(withoutTag(own))
    BY <1>1, <1>2, <1>3, <1>4 DEF Untagged
  <1> QED
    BY <1>5 DEF integrityHash, own

LEMMA InitTypes == Init => Typed
  <1> SUFFICES ASSUME Init PROVE Typed
    OBVIOUS
  <1>1. bin \in Locations
    BY BoundsAssumption DEF Init, Locations
  <1>2. config \in [Files -> Configs]
    <2>1. CASE config \in [Files -> Start]
      BY <2>1, StartAssumption
    <2>2. CASE config = [f \in Files |-> mergeEntries(Absent)]
      BY <1>1, <2>2, AbsentTypes, Merged
    <2> QED
      BY <2>1, <2>2 DEF Init
  <1>3. integrity \in [Files -> [Events -> SUBSET Groups] \cup {None, Unparseable}]
    <2>1. \A f \in Files : ownGroups(config[f]) \in [Events -> SUBSET Groups]
      BY <1>2, ForeignTypes
    <2>2. integrity = [f \in Files |-> IF ownGroups(config[f]) = NoGroups THEN None ELSE ownGroups(config[f])]
      BY DEF Init
    <2> QED
      BY <2>1, <2>2
  <1>4. backups = << >> /\ plan = NoPlan /\ edits \in 0..MaxEdits
    BY BoundsAssumption DEF Init
  <1>5. aged \subseteq Files /\ created \subseteq Files /\ theirs \subseteq Files /\ step = "idle"
        /\ mangled = {} /\ todo = {} /\ disturbed = {} /\ doubtful = {} /\ unrecorded = {} /\ torn = {}
    BY DEF Init
  <1> QED
    BY <1>1, <1>2, <1>3, <1>4, <1>5, NoPlanFacts DEF Typed, TypeOK, Saving

LEMMA EditTypes ==
  ASSUME Typed, NEW f \in Files, NEW d \in Configs, Edit(f, d)
  PROVE  Typed'
  <1>1. edits + 1 \in 0..MaxEdits
    BY BoundsAssumption DEF Edit, Typed, TypeOK
  <1> QED
    BY <1>1 DEF Edit, Typed, TypeOK, notes, command

\* The steps that do one file.
LEMMA FileStepTypes ==
  ASSUME Typed, NEW f \in Files,
         \/ writeConfig(f) \/ recordIntegrity(f) \/ removeFrom(f)
         \/ restoreFile(f) \/ migrateRecord(f) \/ mangle(f) \/ mend(f)
  PROVE  Typed'
  <1> USE NoPlanFacts DEF notes, files, command, history, Typed
  <1>1. ASSUME f \in todo, step \in {"write", "restore"} PROVE plan[f].after \in Configs
    BY <1>1 DEF TypeOK, Saving
  <1>2. CASE writeConfig(f)
    <2>1. f \in todo /\ step = "write" /\ todo' = todo \ {f} /\ step' \in {"write", "note"}
      BY <1>2 DEF writeConfig, Done
    <2>2. config' \in [Files -> Configs] /\ mangled' \subseteq Files
      BY <1>1, <1>2, <2>1, WriteEnds DEF writeConfig
    <2> QED
      BY <1>2, <2>1, <2>2 DEF writeConfig, TypeOK, Saving
  <1>3. CASE recordIntegrity(f)
    <2>1. f \in todo /\ step = "record" /\ todo' = todo \ {f}
          /\ (IF todo = {f} THEN step' = "idle" /\ plan' = NoPlan ELSE step' = "record" /\ plan' = plan)
      BY <1>3 DEF recordIntegrity, Done
    <2>2. integrity' \in [Files -> [Events -> SUBSET Groups] \cup {None, Unparseable}]
      BY <1>3, HashTypes DEF recordIntegrity, TypeOK
    <2> QED
      BY <1>3, <2>1, <2>2 DEF recordIntegrity, TypeOK, Saving
  <1>4. CASE removeFrom(f)
    <2>1. removeEntries(config[f], f \in created) \in Configs
      BY Removed DEF TypeOK
    <2>2. config' \in [Files -> Configs] /\ mangled' \subseteq Files
      BY <1>4, <2>1, WriteEnds DEF removeFrom, TypeOK
    <2> QED
      BY <1>4, <2>2 DEF removeFrom, TypeOK, Saving
  <1>5. CASE restoreFile(f)
    <2>1. f \in todo /\ step = "restore" /\ todo' = todo \ {f}
          /\ (IF todo = {f} THEN step' = "idle" /\ plan' = NoPlan ELSE step' = "restore" /\ plan' = plan)
      BY <1>5 DEF restoreFile, Done
    <2>2. config' \in [Files -> Configs] /\ mangled' \subseteq Files
      BY <1>1, <1>5, <2>1, WriteEnds DEF restoreFile, TypeOK
    <2> QED
      BY <1>5, <2>1, <2>2 DEF restoreFile, TypeOK, Saving
  <1>6. CASE migrateRecord(f)
    BY <1>6, HashTypes DEF migrateRecord, TypeOK
  <1>7. CASE mangle(f)
    <2>1. edits' \in 0..MaxEdits
      BY <1>7, BoundsAssumption DEF mangle, TypeOK
    <2> QED
      BY <1>7, <2>1 DEF mangle, TypeOK
  <1>8. CASE mend(f)
    BY <1>8 DEF mend, TypeOK
  <1> QED
    BY <1>2, <1>3, <1>4, <1>5, <1>6, <1>7, <1>8

\* The others.
LEMMA PlanTypes ==
  ASSUME Typed, NEW S \in {UserFiles} \cup Projects, planInit(S)
  PROVE  Typed'
  <1>1. /\ DOMAIN plan' = S \ mangled /\ S \subseteq Files
        /\ \A f \in DOMAIN plan' : plan'[f].before = config[f] /\ plan'[f].after = mergeEntries(config[f])
    BY PlanScope DEF planInit
  <1>2. \A f \in DOMAIN plan' : plan'[f].before \in Configs /\ plan'[f].after \in Configs
    BY <1>1, Merged DEF Typed, TypeOK
  <1>3. todo' \subseteq DOMAIN plan' /\ step' \in {"record", "save"}
    BY DEF planInit, Real
  <1> QED
    BY <1>1, <1>2, <1>3 DEF planInit, Typed, TypeOK, Saving, files, notes, history

LEMMA SaveTypes == ASSUME Typed, saveBackups PROVE Typed'
  <1> DEFINE b == [f \in Real(plan) |-> [plan[f].before EXCEPT !.exists = @ \/ config[f].exists]]
  <1>1. b \in Backup
    <2>1. Real(plan) \subseteq Files
      BY DEF Real, Typed, TypeOK
    <2>2. \A f \in Real(plan) : [plan[f].before EXCEPT !.exists = @ \/ config[f].exists] \in Configs
      <3>1. \A c, k \in Configs : [c EXCEPT !.exists = @ \/ k.exists] \in Configs
        BY DEF Configs
      <3>2. \A f \in Real(plan) : plan[f].before \in Configs /\ config[f] \in Configs
        BY <2>1 DEF Real, Typed, TypeOK
      <3> QED
        BY <3>1, <3>2
    <2>3. b \in [Real(plan) -> Configs]
      BY <2>2
    <2> QED
      BY <2>1, <2>3 DEF Backup
  <1>2. backups' = Append(backups, b)
    BY DEF saveBackups
  <1> HIDE DEF b
  <1>3. backups' \in Seq(Backup)
    BY <1>1, <1>2 DEF Typed
  <1>4. /\ Len(backups') \in Nat
        /\ \A i \in 1..Len(backups') :
              /\ DOMAIN backups'[i] \subseteq Files
              /\ \A f \in DOMAIN backups'[i] : backups'[i][f] \in Configs
    <2>1. \A i \in 1..Len(backups') : backups'[i] \in Backup
      BY <1>3
    <2>2. \A c \in Backup : DOMAIN c \subseteq Files /\ \A f \in DOMAIN c : c[f] \in Configs
      BY DEF Backup
    <2> QED
      BY <1>3, <2>1, <2>2
  <1> QED
    BY <1>3, <1>4 DEF saveBackups, Typed, TypeOK, Saving, files, notes, history

LEMMA CommandTypes ==
  ASSUME Typed,
         \/ noteContainers \/ clearIntegrity \/ Die \/ moveInstall
         \/ \E project \in {{}} \cup Projects : uninstall(project)
         \/ \E i \in 1..Len(backups) : restoreConfigs(i)
  PROVE  Typed'
  <1> USE NoPlanFacts DEF notes, files, command, history, Typed
  <1>1. CASE noteContainers
    <2>1. Real(plan) \subseteq Files
      BY DEF Real, TypeOK
    <2> QED
      BY <1>1, <2>1 DEF noteContainers, TypeOK, Saving
  <1>2. CASE clearIntegrity
    BY <1>2 DEF clearIntegrity, TypeOK, Saving
  <1>3. CASE Die
    <2>1. Real(plan) \subseteq Files
      BY DEF Real, TypeOK
    <2> QED
      BY <1>3, <2>1 DEF Die, TypeOK, Saving
  <1>4. CASE moveInstall
    <2>1. bin' \in Locations
      BY <1>4, BoundsAssumption DEF moveInstall, TypeOK, Locations
    <2> QED
      BY <1>4, <2>1 DEF moveInstall, TypeOK
  <1>5. ASSUME NEW project \in {{}} \cup Projects, uninstall(project) PROVE Typed'
    <2>1. todo' \subseteq Files
      BY <1>5, PlanScope DEF uninstall, Known
    <2> QED
      BY <1>5, <2>1 DEF uninstall, TypeOK, Saving
  <1>6. ASSUME NEW i \in 1..Len(backups), restoreConfigs(i) PROVE Typed'
    <2>1. /\ DOMAIN backups[i] \subseteq Files
          /\ \A f \in DOMAIN backups[i] : backups[i][f] \in Configs /\ config[f] \in Configs
      BY BackupFacts DEF TypeOK
    <2>2. /\ DOMAIN plan' = DOMAIN backups[i] /\ todo' = DOMAIN backups[i]
          /\ \A f \in DOMAIN plan' : plan'[f].before = config[f] /\ plan'[f].after = backups[i][f]
      BY <1>6 DEF restoreConfigs
    <2> QED
      BY <1>6, <2>1, <2>2 DEF restoreConfigs, TypeOK, Saving
  <1> QED
    BY <1>1, <1>2, <1>3, <1>4, <1>5, <1>6

LEMMA NextSplits ==
  ASSUME TypeOK, Next
  PROVE  \/ \E f \in Files : \E d \in Configs : Tame(config[f], d) /\ Edit(f, d)
         \/ \E f \in Files : \/ writeConfig(f) \/ recordIntegrity(f) \/ removeFrom(f)
                             \/ restoreFile(f) \/ migrateRecord(f) \/ mangle(f) \/ mend(f)
         \/ \E S \in {UserFiles} \cup Projects : planInit(S)
         \/ saveBackups
         \/ \/ noteContainers \/ clearIntegrity \/ Die \/ moveInstall
            \/ \E project \in {{}} \cup Projects : uninstall(project)
            \/ \E i \in 1..Len(backups) : restoreConfigs(i)
  <1>1. ASSUME NEW f \in Files, Edits(f)
        PROVE  \E d \in Configs : Tame(config[f], d) /\ Edit(f, d)
    BY <1>1, EditsAreTame
  <1>2. others => \/ \E f \in Files : Edits(f) \/ mangle(f) \/ mend(f)
                  \/ moveInstall
    BY DEF others, Edits
  <1> QED
    BY <1>1, <1>2 DEF Next, usewarden

LEMMA NextTypes == Typed /\ [Next]_vars => Typed'
  <1> SUFFICES ASSUME Typed, [Next]_vars PROVE Typed'
    OBVIOUS
  <1>1. CASE UNCHANGED vars
    BY <1>1 DEF vars, files, notes, command, history, Typed, TypeOK
  <1>2. CASE Next
    BY <1>2, NextSplits, EditTypes, FileStepTypes, PlanTypes, SaveTypes, CommandTypes DEF Typed
  <1> QED
    BY <1>1, <1>2

\* Every variable keeps its type, whatever is edited meanwhile and wherever a
\* command dies.
THEOREM InstallerTypeCorrect == Spec => []TypeOK
  <1>1. Typed => TypeOK
    BY DEF Typed
  <1> QED
    BY <1>1, InitTypes, NextTypes, PTL DEF Spec

-----------------------------------------------------------------------------
(* Once, and from a place usewarden was in *)

\* Run once by every event, and from no place but those up to n.
Sound(c, n) == Once(c) /\ Within(c, n)

\* What is there, and what a write or a restore can bring back.
OnceInv ==
  /\ \A f \in Files : Sound(config[f], bin)
  /\ \A f \in DOMAIN plan : Sound(plan[f].before, bin) /\ Sound(plan[f].after, bin)
  /\ \A i \in 1..Len(backups) : \A f \in DOMAIN backups[i] : Sound(backups[i][f], bin)

LEMMA StartBare ==
  ASSUME NEW c \in Start
  PROVE  c \in Configs /\ ownGroups(c) = NoGroups /\ Once(c) /\ \A n \in Locations : Within(c, n)
  <1>1. c \in Configs /\ \A e \in Events : \A g \in c.groups[e] : ~g.tagged /\ g.hooks \cap Locations = {}
    BY StartAssumption, Apart
  <1> QED
    BY <1>1 DEF ownGroups, NoGroups, isUsewardenEntry, Once, RunsUsewarden, Within

\* What Init says of one file.
LEMMA InitFile ==
  ASSUME Init, NEW f \in Files
  PROVE  /\ bin = 1 /\ bin \in Locations /\ config[f] \in Configs /\ Sound(config[f], 1)
         /\ ownGroups(config[f]) \in {NoGroups, Registered}
         /\ integrity[f] = IF ownGroups(config[f]) = NoGroups THEN None ELSE ownGroups(config[f])
         /\ f \in aged <=> integrity[f] # None
  <1>1. bin = 1 /\ bin \in Locations
    BY BoundsAssumption DEF Init, Locations
  <1>2. CASE config \in [Files -> Start]
    BY <1>1, <1>2, StartBare DEF Init, Sound
  <1>3. CASE config = [g \in Files |-> mergeEntries(Absent)]
    BY <1>1, <1>3, AbsentTypes, Merged DEF Init, Sound
  <1> QED
    BY <1>2, <1>3 DEF Init

LEMMA InitOnce == Init => OnceInv
  <1> SUFFICES ASSUME Init PROVE OnceInv
    OBVIOUS
  <1>1. backups = << >> /\ plan = NoPlan
    BY DEF Init
  <1> QED
    BY <1>1, InitFile, NoPlanFacts DEF OnceInv

LEMMA TameSound ==
  ASSUME NEW c, NEW d, NEW n \in Locations, Tame(c, d), Sound(c, n)
  PROVE  Sound(d, n)
  BY DEF Tame, Sound

\* A step that changes no plan and no backup, and makes of a config something
\* sound.
LEMMA FileOnce ==
  ASSUME OnceInv, Typed, NEW f \in Files, NEW d, Sound(d, bin),
         config' \in {config, [config EXCEPT ![f] = d], [config EXCEPT ![f] = Empty]},
         plan' \in {plan, NoPlan}, UNCHANGED << bin, backups >>
  PROVE  OnceInv'
  <1>1. \A g \in Files : Sound(config'[g], bin)
    BY EmptyFacts DEF OnceInv, Sound, Typed, TypeOK
  <1>2. \A g \in DOMAIN plan' : g \in DOMAIN plan /\ plan'[g] = plan[g]
    BY NoPlanFacts
  <1> QED
    BY <1>1, <1>2 DEF OnceInv

LEMMA NextOnce == Typed /\ OnceInv /\ [Next]_vars => OnceInv'
  <1> SUFFICES ASSUME Typed, OnceInv, [Next]_vars PROVE OnceInv'
    OBVIOUS
  <1> USE DEF files, notes, command, history
  <1>1. CASE UNCHANGED vars
    BY <1>1 DEF vars, OnceInv
  <1>2. ASSUME NEW f \in Files, NEW d \in Configs, Tame(config[f], d), Edit(f, d) PROVE OnceInv'
    <2>1. Sound(d, bin)
      BY <1>2, TameSound DEF OnceInv, Typed, TypeOK
    <2> QED
      BY <1>2, <2>1, FileOnce DEF Edit
  <1>3. ASSUME NEW f \in Files, \/ writeConfig(f) \/ recordIntegrity(f) \/ removeFrom(f)
                                \/ restoreFile(f) \/ migrateRecord(f) \/ mangle(f) \/ mend(f)
        PROVE  OnceInv'
    <2>1. Sound(config[f], bin) /\ config[f] \in Configs /\ bin \in Locations
      BY DEF OnceInv, Typed, TypeOK
    <2>2. CASE writeConfig(f) \/ restoreFile(f)
      <3>1. f \in DOMAIN plan
        BY <2>2 DEF Typed, Saving, writeConfig, restoreFile, Done
      <3>2. Sound(plan[f].after, bin)
        BY <3>1 DEF OnceInv
      <3>3. config' \in {config, [config EXCEPT ![f] = plan[f].after], [config EXCEPT ![f] = Empty]}
        <4>1. plan[f].after \in Configs
          BY <3>1 DEF Typed, TypeOK
        <4> QED
          BY <2>2, <4>1, WriteEnds DEF writeConfig, restoreFile, Typed
      <3>4. plan' \in {plan, NoPlan} /\ UNCHANGED << bin, backups >>
        BY <2>2 DEF writeConfig, restoreFile
      <3> QED
        BY <3>2, <3>3, <3>4, FileOnce
    <2>3. CASE removeFrom(f)
      <3>1. Sound(removeEntries(config[f], f \in created), bin)
        BY <2>1, Removed, TameSound
      <3>2. config' \in {config, [config EXCEPT ![f] = removeEntries(config[f], f \in created)],
                         [config EXCEPT ![f] = Empty]}
        BY <2>1, <2>3, Removed, WriteEnds DEF removeFrom, Typed
      <3>3. UNCHANGED << plan, bin, backups >>
        BY <2>3 DEF removeFrom
      <3> QED
        BY <3>1, <3>2, <3>3, FileOnce
    <2>4. CASE recordIntegrity(f) \/ migrateRecord(f) \/ mangle(f) \/ mend(f)
      <3>1. UNCHANGED << config, bin, backups >> /\ plan' \in {plan, NoPlan}
        BY <2>4 DEF recordIntegrity, migrateRecord, mangle, mend
      <3> QED
        BY <2>1, <3>1, FileOnce
    <2> QED
      BY <1>3, <2>2, <2>3, <2>4
  <1>4. ASSUME NEW S \in {UserFiles} \cup Projects, planInit(S) PROVE OnceInv'
    <2>1. /\ DOMAIN plan' \subseteq Files /\ UNCHANGED << config, bin, backups >>
          /\ \A f \in DOMAIN plan' : plan'[f].before = config[f] /\ plan'[f].after = mergeEntries(config[f])
      BY <1>4, PlanScope DEF planInit
    <2>2. \A f \in Files : Sound(config[f], bin) /\ Sound(mergeEntries(config[f]), bin)
      BY Merged DEF OnceInv, Sound, Typed, TypeOK
    <2> QED
      BY <2>1, <2>2 DEF OnceInv
  <1>5. CASE saveBackups
    <2> DEFINE b == [f \in Real(plan) |-> [plan[f].before EXCEPT !.exists = @ \/ config[f].exists]]
    <2>1. \A f \in DOMAIN b : Sound(b[f], bin)
      <3>1. \A f \in DOMAIN b : /\ f \in DOMAIN plan /\ plan[f].before \in Configs
                                /\ b[f].groups = plan[f].before.groups
        BY DEF Real, Typed, TypeOK, Configs
      <3>2. \A f \in DOMAIN b : Sound(plan[f].before, bin)
        BY <3>1 DEF OnceInv
      <3> QED
        BY <3>1, <3>2 DEF Sound, Once, Within
    <2>2. backups' = Append(backups, b) /\ UNCHANGED << config, bin, plan >>
      BY <1>5 DEF saveBackups
    <2> HIDE DEF b
    <2>3. \A i \in 1..Len(backups') : (i \in 1..Len(backups) /\ backups'[i] = backups[i]) \/ backups'[i] = b
      BY <2>2 DEF Typed
    <2> QED
      BY <2>1, <2>2, <2>3 DEF OnceInv
  <1>6. CASE noteContainers \/ clearIntegrity \/ Die \/ \E project \in {{}} \cup Projects : uninstall(project)
    <2>1. UNCHANGED << config, bin, backups >> /\ plan' \in {plan, NoPlan}
      BY <1>6 DEF noteContainers, clearIntegrity, Die, uninstall
    <2>2. \A g \in DOMAIN plan' : g \in DOMAIN plan /\ plan'[g] = plan[g]
      BY <2>1, NoPlanFacts
    <2> QED
      BY <2>1, <2>2 DEF OnceInv
  <1>7. CASE moveInstall
    <2>1. bin' = bin + 1 /\ bin \in Nat /\ UNCHANGED << config, backups, plan >>
      BY <1>7, BoundsAssumption DEF moveInstall, Typed, TypeOK, Locations
    <2>2. \A c : Sound(c, bin) => Sound(c, bin')
      BY <2>1 DEF Sound, Within, Locations
    <2> QED
      BY <2>1, <2>2 DEF OnceInv
  <1>8. ASSUME NEW i \in 1..Len(backups), restoreConfigs(i) PROVE OnceInv'
    <2>1. /\ DOMAIN plan' = DOMAIN backups[i] /\ DOMAIN backups[i] \subseteq Files
          /\ UNCHANGED << config, bin, backups >>
          /\ \A f \in DOMAIN plan' : plan'[f].before = config[f] /\ plan'[f].after = backups[i][f]
      BY <1>8, BackupFacts DEF restoreConfigs, Typed
    <2> QED
      BY <2>1 DEF OnceInv
  <1> QED
    BY <1>1, <1>2, <1>3, <1>4, <1>5, <1>6, <1>7, <1>8, NextSplits DEF Typed

\* No event fires usewarden twice, for any files and events, whatever sequence of
\* inits, rewrites, moves, uninstalls, restores, failures and deaths a file
\* went through (docs/THREAT-MODEL.md, the 2026-08-24 incident).
THEOREM NeverFiresTwice == Spec => []NeverTwice
  <1>1. OnceInv => NeverTwice
    BY DEF OnceInv, Sound, NeverTwice
  <1> QED
    BY <1>1, InitTypes, NextTypes, InitOnce, NextOnce, PTL DEF Spec

-----------------------------------------------------------------------------
(* A file in init's plan ends as planned, or disturbed *)

\* A file that init has still to write.
Pending(f) == step \in {"save", "write"} /\ f \in todo

\* init ends with every file of its plan as planned, or disturbed.
PlanInv ==
  /\ step = "save" => todo = Real(plan)
  /\ step = "note" => todo = {}
  /\ step \in Saving => \A f \in DOMAIN plan :
       /\ ownGroups(plan[f].after) = Registered
       /\ ~Pending(f) /\ f \notin disturbed => config[f] = plan[f].after /\ f \notin mangled

LEMMA InitPlan == Init => PlanInv
  BY DEF Init, PlanInv, Saving

\* What init records of a file that nobody disturbed.
LEMMA PlannedIsThere ==
  ASSUME Typed, PlanInv, NEW f \in Files, step = "record", f \in todo, f \notin disturbed
  PROVE  ownGroups(config[f]) = Registered /\ f \notin mangled
  <1>1. f \in DOMAIN plan /\ ~Pending(f)
    BY DEF Typed, Saving, Pending
  <1> QED
    BY <1>1 DEF PlanInv, Saving

LEMMA NextPlan == Typed /\ PlanInv /\ [Next]_vars => PlanInv'
  <1> SUFFICES ASSUME Typed, PlanInv, [Next]_vars PROVE PlanInv'
    OBVIOUS
  <1> USE DEF files, notes, command, history
  <1>1. CASE UNCHANGED vars
    BY <1>1 DEF vars, PlanInv, Saving, Real, Pending, Registered, usewardenEntry
  <1>2. ASSUME NEW f \in Files, UNCHANGED << bin, step, plan, todo >>,
               disturbed' = IF step = "idle" THEN disturbed ELSE disturbed \cup {f},
               \A g \in Files \ {f} : config'[g] = config[g] /\ (g \in mangled' <=> g \in mangled)
        PROVE  PlanInv'
    BY <1>2 DEF PlanInv, Saving, Real, Pending, Registered, usewardenEntry, Typed, TypeOK
  <1>3. ASSUME NEW f \in Files, NEW d \in Configs, Edit(f, d) PROVE PlanInv'
    <2>1. \A g \in Files \ {f} : config'[g] = config[g] /\ (g \in mangled' <=> g \in mangled)
      BY <1>3 DEF Edit, Typed, TypeOK
    <2> QED
      BY <1>2, <1>3, <2>1 DEF Edit
  <1>4. ASSUME NEW f \in Files, mangle(f) \/ mend(f) PROVE PlanInv'
    <2>1. \A g \in Files \ {f} : config'[g] = config[g] /\ (g \in mangled' <=> g \in mangled)
      BY <1>4 DEF mangle, mend
    <2>2. /\ UNCHANGED << bin, step, plan, todo >>
          /\ disturbed' = IF step = "idle" THEN disturbed ELSE disturbed \cup {f}
      BY <1>4 DEF mangle, mend
    <2> QED
      BY <1>2, <2>1, <2>2
  <1>5. ASSUME NEW f \in Files, writeConfig(f) PROVE PlanInv'
    <2>1. /\ step = "write" /\ f \in todo /\ todo' = todo \ {f} /\ UNCHANGED << bin, plan >>
          /\ step' = IF todo = {f} THEN "note" ELSE "write"
      BY <1>5 DEF writeConfig, Done
    <2>2. Registered' = Registered /\ DOMAIN plan \subseteq Files
      BY <2>1 DEF Registered, usewardenEntry, Typed, TypeOK
    <2>3. \/ config'[f] = plan[f].after /\ f \notin mangled' /\ disturbed' = disturbed
          \/ f \in disturbed' /\ disturbed \subseteq disturbed'
      BY <1>5 DEF writeConfig, Write, Typed, TypeOK
    <2>4. \A g \in Files \ {f} : config'[g] = config[g] /\ (g \in mangled' <=> g \in mangled)
      <3>1. plan[f].after \in Configs
        BY <2>1 DEF Typed, TypeOK, Saving
      <3> QED
        BY <1>5, <3>1, WriteEnds DEF writeConfig, Typed
    <2>5. ASSUME NEW g \in DOMAIN plan, ~Pending(g)', g \notin disturbed'
          PROVE  config'[g] = plan[g].after /\ g \notin mangled'
      <3>1. CASE g = f
        BY <2>3, <2>5, <3>1
      <3>2. CASE g # f
        <4>1. ~Pending(g) /\ g \notin disturbed
          BY <2>1, <2>3, <2>5, <3>2 DEF Pending
        <4> QED
          BY <2>1, <2>2, <2>4, <3>2, <4>1 DEF PlanInv, Saving
      <3> QED
        BY <3>1, <3>2
    <2> QED
      BY <2>1, <2>2, <2>5 DEF PlanInv, Saving
  <1>6. ASSUME NEW f \in Files, recordIntegrity(f) PROVE PlanInv'
    <2>1. CASE todo = {f}
      BY <1>6, <2>1 DEF recordIntegrity, Done, PlanInv, Saving
    <2>2. CASE todo # {f}
      <3>1. /\ step = "record" /\ step' = "record"
            /\ UNCHANGED << bin, plan, config, mangled, disturbed >>
        BY <1>6, <2>2 DEF recordIntegrity, Done
      <3> QED
        BY <3>1 DEF PlanInv, Saving, Pending, Registered, usewardenEntry
    <2> QED
      BY <2>1, <2>2
  <1>7. ASSUME NEW f \in Files, removeFrom(f) \/ restoreFile(f) PROVE PlanInv'
    <2>1. step' \in {"remove", "restore", "idle"}
      BY <1>7 DEF removeFrom, restoreFile, Done
    <2> QED
      BY <2>1 DEF PlanInv, Saving
  <1>8. ASSUME NEW f \in Files, migrateRecord(f) PROVE PlanInv'
    BY <1>8 DEF migrateRecord, PlanInv, Saving, Real, Pending, Registered, usewardenEntry
  <1>9. ASSUME NEW S \in {UserFiles} \cup Projects, planInit(S) PROVE PlanInv'
    <2>1. /\ DOMAIN plan' = S \ mangled /\ S \subseteq Files /\ UNCHANGED << bin, config, mangled >>
          /\ \A f \in DOMAIN plan' : plan'[f].before = config[f] /\ plan'[f].after = mergeEntries(config[f])
          /\ \/ step' = "record" /\ Real(plan') = {}
             \/ step' = "save" /\ todo' = Real(plan')
      BY <1>9, PlanScope DEF planInit
    <2>2. Registered' = Registered /\ \A f \in DOMAIN plan' : ownGroups(plan'[f].after) = Registered
      <3>1. Registered' = Registered
        BY <2>1 DEF Registered, usewardenEntry
      <3>2. \A f \in Files : ownGroups(mergeEntries(config[f])) = Registered
        BY Merged DEF Typed, TypeOK
      <3> QED
        BY <2>1, <3>1, <3>2
    <2>3. \A f \in DOMAIN plan' : ~Pending(f)' => plan'[f].after = plan'[f].before
      BY <2>1 DEF Pending, Real
    <2> QED
      BY <2>1, <2>2, <2>3 DEF PlanInv, Saving
  <1>10. CASE saveBackups
    BY <1>10 DEF saveBackups, PlanInv, Saving, Pending, Registered, usewardenEntry
  <1>11. CASE noteContainers
    BY <1>11 DEF noteContainers, PlanInv, Saving, Pending, Registered, usewardenEntry
  <1>12. ASSUME \/ clearIntegrity \/ Die \/ moveInstall
                \/ \E project \in {{}} \cup Projects : uninstall(project)
                \/ \E i \in 1..Len(backups) : restoreConfigs(i)
         PROVE  PlanInv'
    <2>1. step' \in {"idle", "remove", "restore"}
      BY <1>12 DEF clearIntegrity, Die, moveInstall, uninstall, restoreConfigs
    <2> QED
      BY <2>1 DEF PlanInv, Saving
  <1> QED
    BY <1>1, <1>3, <1>4, <1>5, <1>6, <1>7, <1>8, <1>9, <1>10, <1>11, <1>12, NextSplits DEF Typed

-----------------------------------------------------------------------------
(* Records *)

\* No copy of the file runs usewarden of a later place than l.
Latest(f, l) ==
  /\ Within(config[f], l)
  /\ \A i \in 1..Len(backups) : f \in DOMAIN backups[i] => Within(backups[i][f], l)
  /\ f \in DOMAIN plan => /\ Within(plan[f].before, l)
                          /\ step = "restore" => Within(plan[f].after, l)

\* A record of usewarden registered once, at the latest place; of an earlier one,
\* perhaps, when init wrote the file and has not recorded it.
Good(f) ==
  \/ integrity[f] = None
  \/ /\ integrity[f] # Unparseable
     /\ \E l \in 1..bin : Pristine(integrity[f], l) /\ (f \notin unrecorded => Latest(f, l))

RecordInv == \A f \in Files \ doubtful : Good(f)

\* The records of an older version hash the tags, the others do not.
AgedInv ==
  \A f \in Files : /\ f \in aged => integrity[f] \notin {None, Unparseable} /\ Tagged(integrity[f])
                   /\ f \notin aged => integrity[f] \in {None, Unparseable} \/ Untagged(integrity[f])

\* One group on every event, usewarden at one place and untagged.
Bare(l) == [e \in Events |-> {[tagged |-> FALSE, hooks |-> {l}]}]

LEMMA TagOff == \A g \in Groups : [g EXCEPT !.tagged = FALSE] = [tagged |-> FALSE, hooks |-> g.hooks]
  <1>1. \A g, h \in Groups : g.tagged = h.tagged /\ g.hooks = h.hooks => g = h
    BY DEF Groups
  <1>2. \A g \in Groups : /\ [g EXCEPT !.tagged = FALSE] \in Groups
                         /\ [g EXCEPT !.tagged = FALSE].hooks = g.hooks
                         /\ [g EXCEPT !.tagged = FALSE].tagged = FALSE
    BY DEF Groups
  <1>3. \A g \in Groups : [tagged |-> FALSE, hooks |-> g.hooks] \in Groups
    BY DEF Groups
  <1> SUFFICES ASSUME NEW g \in Groups
               PROVE  [g EXCEPT !.tagged = FALSE] = [tagged |-> FALSE, hooks |-> g.hooks]
    OBVIOUS
  <1> DEFINE a == [g EXCEPT !.tagged = FALSE]
             b == [tagged |-> FALSE, hooks |-> g.hooks]
  <1>4. a \in Groups /\ b \in Groups /\ a.tagged = b.tagged /\ a.hooks = b.hooks
    BY <1>2, <1>3
  <1> HIDE DEF a, b
  <1>5. a = b
    BY <1>1, <1>4
  <1> QED
    BY <1>5 DEF a, b

LEMMA PristineBare ==
  ASSUME NEW own \in [Events -> SUBSET Groups], NEW l, Pristine(own, l)
  PROVE  withoutTag(own) = Bare(l) /\ Pristine(withoutTag(own), l)
  <1>1. \A e \in Events : {[g EXCEPT !.tagged = FALSE] : g \in own[e]} = {[tagged |-> FALSE, hooks |-> {l}]}
    <2> SUFFICES ASSUME NEW e \in Events
                 PROVE  {[g EXCEPT !.tagged = FALSE] : g \in own[e]} = {[tagged |-> FALSE, hooks |-> {l}]}
      OBVIOUS
    <2>1. PICK t \in BOOLEAN : own[e] = {[tagged |-> t, hooks |-> {l}]}
      BY DEF Pristine
    <2> DEFINE g == [tagged |-> t, hooks |-> {l}]
    <2>2. [g EXCEPT !.tagged = FALSE] = [tagged |-> FALSE, hooks |-> {l}]
      <3>1. \A r \in Groups : [r EXCEPT !.tagged = FALSE] = [tagged |-> FALSE, hooks |-> r.hooks]
        BY TagOff
      <3>2. g \in Groups /\ g.hooks = {l}
        BY <2>1
      <3> HIDE DEF g
      <3> QED
        BY <3>1, <3>2
    <2> HIDE DEF g
    <2>3. {[h EXCEPT !.tagged = FALSE] : h \in {g}} = {[g EXCEPT !.tagged = FALSE]}
      OBVIOUS
    <2> QED
      BY <2>1, <2>2, <2>3 DEF g
  <1>2. withoutTag(own) = Bare(l)
    BY <1>1 DEF withoutTag, Bare
  <1>3. Pristine(Bare(l), l)
    BY DEF Pristine, Bare
  <1> QED
    BY <1>2, <1>3

LEMMA RegisteredPristine ==
  ASSUME bin \in Locations
  PROVE  Registered \in [Events -> SUBSET Groups] /\ Pristine(Registered, bin)
  BY EntryOwn DEF Registered, Pristine, usewardenEntry

LEMMA InitRecord == Init => RecordInv /\ AgedInv
  <1> SUFFICES ASSUME Init PROVE RecordInv /\ AgedInv
    OBVIOUS
  <1>1. backups = << >> /\ plan = NoPlan /\ bin = 1
    BY DEF Init
  <1>2. \A f \in Files : Latest(f, 1)
    BY <1>1, InitFile, NoPlanFacts DEF Latest, Sound
  <1>3. \A f \in Files : integrity[f] = None \/ integrity[f] = Registered
    BY InitFile
  <1>4. RecordInv
    <2> SUFFICES ASSUME NEW f \in Files PROVE Good(f)
      BY DEF RecordInv
    <2>1. Latest(f, 1) /\ bin \in Locations /\ 1 \in 1..bin
      BY <1>1, <1>2, InitFile
    <2>2. Pristine(Registered, 1)
      BY <1>1, <2>1, RegisteredPristine
    <2>3. Registered # Unparseable
      BY <2>1, RegisteredPristine, ValuesAssumption
    <2>4. CASE integrity[f] = Registered
      <3>1. Pristine(integrity[f], 1) /\ integrity[f] # Unparseable
        BY <2>2, <2>3, <2>4
      <3> QED
        BY <2>1, <3>1 DEF Good
    <2> QED
      BY <1>3, <2>4 DEF Good
  <1>5. Registered \notin {None, Unparseable} /\ Tagged(Registered)
    <2>1. bin \in Locations
      BY <1>1, BoundsAssumption DEF Locations
    <2>2. Tagged(Registered)
      BY DEF Tagged, Registered, usewardenEntry
    <2> QED
      BY <2>1, <2>2, RegisteredPristine, ValuesAssumption
  <1>6. AgedInv
    BY <1>3, <1>5, InitFile DEF AgedInv
  <1> QED
    BY <1>4, <1>6

\* The record of a file stays, and its copies grow no later.
LEMMA SameRecord ==
  ASSUME Typed, NEW f \in Files, Good(f),
         bin' \in Locations, bin <= bin', integrity'[f] = integrity[f],
         f \in unrecorded => f \in unrecorded',
         \A l \in Locations : Latest(f, l) => Latest(f, l)'
  PROVE  Good(f)'
  <1>1. bin \in Nat /\ bin' \in Nat /\ \A l \in 1..bin : l \in 1..bin' /\ l \in Locations
    BY BoundsAssumption DEF Typed, TypeOK, Locations
  <1> QED
    BY <1>1 DEF Good

\* A step that takes no backup, plans nothing, and turns no config but to what is
\* tame or restored.
LEMMA SameCopies ==
  ASSUME NEW f \in Files, NEW l \in Locations, Latest(f, l),
         Within(config[f], l) => Within(config'[f], l),
         backups' = backups, plan' \in {plan, NoPlan}, step' = "restore" => step = "restore"
  PROVE  Latest(f, l)'
  BY NoPlanFacts DEF Latest

LEMMA FileRecord ==
  ASSUME Typed, OnceInv, PlanInv, RecordInv, OnceInv', NEW f \in Files,
         \/ writeConfig(f) \/ recordIntegrity(f) \/ removeFrom(f)
         \/ restoreFile(f) \/ migrateRecord(f) \/ mangle(f) \/ mend(f)
  PROVE  RecordInv'
  <1> SUFFICES ASSUME NEW g \in Files \ doubtful' PROVE Good(g)'
    BY DEF RecordInv
  <1> USE DEF files, notes, command, history
  <1>1. bin \in Locations /\ bin \in Nat /\ config[f] \in Configs
    BY DEF Typed, TypeOK, Locations
  <1>2. CASE writeConfig(f)
    <2>1. /\ UNCHANGED << bin, integrity, backups, plan, doubtful >>
          /\ unrecorded' = unrecorded \cup {f}
          /\ step = "write" /\ step' # "restore" /\ f \in DOMAIN plan
      BY <1>2 DEF writeConfig, Done, Typed, Saving
    <2>2. CASE g = f
      BY <1>1, <2>1, <2>2 DEF RecordInv, Good
    <2>3. CASE g # f
      <3>1. plan[f].after \in Configs
        BY <2>1 DEF Typed, TypeOK
      <3>2. config'[g] = config[g]
        BY <1>2, <2>3, <3>1, WriteEnds DEF writeConfig, Typed
      <3> QED
        BY <1>1, <2>1, <3>2, SameCopies, SameRecord DEF RecordInv
    <2> QED
      BY <2>2, <2>3
  <1>3. CASE recordIntegrity(f)
    <2>1. /\ step = "record" /\ f \in todo /\ step' # "restore"
          /\ UNCHANGED << config, mangled, bin, backups >> /\ plan' \in {plan, NoPlan}
          /\ integrity' = [integrity EXCEPT ![f] = integrityHash(f)]
      BY <1>3 DEF recordIntegrity, Done
    <2>2. CASE g # f
      <3>1. /\ g \notin doubtful /\ integrity'[g] = integrity[g]
            /\ g \in unrecorded => g \in unrecorded'
        BY <1>3, <2>1, <2>2 DEF recordIntegrity, Typed, TypeOK
      <3> QED
        BY <1>1, <2>1, <3>1, SameCopies, SameRecord DEF RecordInv
    <2>3. CASE g = f
      <3>1. f \notin disturbed
        BY <1>3, <2>3 DEF recordIntegrity
      <3>2. integrity'[f] = withoutTag(Registered)
        BY <2>1, <3>1, PlannedIsThere DEF integrityHash, Typed, TypeOK
      <3>3. Pristine(integrity'[f], bin')
        BY <1>1, <2>1, <3>2, RegisteredPristine, PristineBare
      <3>6. integrity'[f] # Unparseable
        <4>1. ownGroups(config[f]) = Registered
          BY <2>1, <3>1, PlannedIsThere
        <4> QED
          BY <3>2, <4>1, HashTypes, ValuesAssumption DEF Typed
      <3>4. Latest(f, bin)'
        BY DEF Latest, OnceInv, Sound
      <3>5. bin' \in 1..bin'
        BY <1>1, <2>1 DEF Locations
      <3> QED
        BY <2>3, <3>3, <3>4, <3>5, <3>6 DEF Good
    <2> QED
      BY <2>2, <2>3
  <1>4. CASE removeFrom(f)
    <2>1. UNCHANGED << bin, integrity, backups, plan, step, doubtful, unrecorded >>
      BY <1>4 DEF removeFrom
    <2>2. \A l \in Locations : Within(config[g], l) => Within(config'[g], l)
      <3>1. \A l \in Locations : Within(config[f], l) => Within(removeEntries(config[f], f \in created), l)
        BY <1>1, Removed DEF Tame
      <3>2. config' \in {config, [config EXCEPT ![f] = removeEntries(config[f], f \in created)],
                         [config EXCEPT ![f] = Empty]}
        BY <1>1, <1>4, Removed, WriteEnds DEF removeFrom, Typed
      <3> QED
        BY <3>1, <3>2, EmptyFacts DEF Typed, TypeOK
    <2> QED
      BY <1>1, <2>1, <2>2, SameCopies, SameRecord DEF RecordInv
  <1>5. CASE restoreFile(f)
    <2>1. /\ UNCHANGED << bin, integrity, backups, doubtful, unrecorded >> /\ plan' \in {plan, NoPlan}
          /\ step = "restore" /\ f \in DOMAIN plan
      BY <1>5 DEF restoreFile, Done, Typed
    <2>2. config' \in {config, [config EXCEPT ![f] = plan[f].after], [config EXCEPT ![f] = Empty]}
      <3>1. plan[f].after \in Configs
        BY <2>1 DEF Typed, TypeOK
      <3> QED
        BY <1>5, <3>1, WriteEnds DEF restoreFile, Typed
    <2>3. ASSUME NEW l \in Locations, Latest(g, l) PROVE Latest(g, l)'
      <3>1. Within(config'[g], l)
        BY <2>1, <2>2, <2>3, EmptyFacts DEF Latest, Typed, TypeOK
      <3> QED
        BY <2>1, <2>3, <3>1, SameCopies
    <2> QED
      BY <1>1, <2>1, <2>3, SameRecord DEF RecordInv
  <1>6. CASE migrateRecord(f)
    <2>1. /\ UNCHANGED << config, mangled, bin, backups, plan, step, doubtful, unrecorded >>
          /\ integrity' = [integrity EXCEPT ![f] = integrityHash(f)] /\ integrity[f] # None
          /\ integrity[f] # integrityHash(f) /\ hashMatches(f)
      BY <1>6 DEF migrateRecord
    <2>2. CASE g # f
      <3>1. integrity'[g] = integrity[g]
        BY <2>1, <2>2 DEF Typed, TypeOK
      <3> QED
        BY <1>1, <2>1, <3>1, SameCopies, SameRecord DEF RecordInv
    <2>3. CASE g = f
      <3>1. integrity[f] = ownGroups(config[f]) /\ integrityHash(f) = withoutTag(ownGroups(config[f]))
        BY <2>1 DEF hashMatches, integrityHash, legacyHash
      <3>2. PICK l \in 1..bin : Pristine(integrity[f], l) /\ (f \notin unrecorded => Latest(f, l))
        BY <2>1, <2>3 DEF RecordInv, Good
      <3>3. Pristine(integrity'[f], l)
        BY <1>1, <2>1, <3>1, <3>2, PristineBare, ForeignTypes DEF Typed, TypeOK
      <3>4. f \notin unrecorded' => Latest(f, l)'
        BY <2>1, <3>2 DEF Latest
      <3>5. integrity'[f] # Unparseable
        BY <2>1, <3>1, HashTypes, ValuesAssumption DEF Typed, TypeOK
      <3> QED
        BY <2>1, <2>3, <3>3, <3>4, <3>5 DEF Good
    <2> QED
      BY <2>2, <2>3
  <1>7. CASE mangle(f) \/ mend(f)
    <2>1. UNCHANGED << config, bin, integrity, backups, plan, step, doubtful, unrecorded >>
      BY <1>7 DEF mangle, mend
    <2>2. \A l \in Locations : Latest(g, l) => Latest(g, l)'
      BY <2>1, SameCopies
    <2> QED
      BY <1>1, <2>1, <2>2, SameRecord DEF RecordInv
  <1> QED
    BY <1>2, <1>3, <1>4, <1>5, <1>6, <1>7

LEMMA NextRecord ==
  ASSUME Typed, OnceInv, PlanInv, RecordInv, OnceInv', [Next]_vars
  PROVE  RecordInv'
  <1> USE DEF files, notes, command, history
  <1>1. bin \in Locations /\ bin \in Nat
    BY DEF Typed, TypeOK, Locations
  <1>2. ASSUME bin' \in Locations, bin <= bin', UNCHANGED << integrity, doubtful, unrecorded >>,
               \A g \in Files : \A l \in Locations : Latest(g, l) => Latest(g, l)'
        PROVE  RecordInv'
    BY <1>2, SameRecord DEF RecordInv
  <1>3. CASE UNCHANGED vars
    BY <1>1, <1>2, <1>3, SameCopies DEF vars
  <1>4. ASSUME NEW f \in Files, NEW d \in Configs, Tame(config[f], d), Edit(f, d) PROVE RecordInv'
    <2>1. UNCHANGED << bin, integrity, backups, plan, step, doubtful, unrecorded >>
      BY <1>4 DEF Edit
    <2>2. \A g \in Files : \A l \in Locations : Within(config[g], l) => Within(config'[g], l)
      BY <1>4 DEF Edit, Tame, Typed, TypeOK
    <2> QED
      BY <1>1, <1>2, <2>1, <2>2, SameCopies
  <1>5. ASSUME NEW S \in {UserFiles} \cup Projects, planInit(S) PROVE RecordInv'
    <2>1. /\ UNCHANGED << config, bin, integrity, backups, doubtful, unrecorded >> /\ step' # "restore"
          /\ \A f \in DOMAIN plan' : plan'[f].before = config[f]
      BY <1>5 DEF planInit
    <2>2. ASSUME NEW g \in Files, NEW l \in Locations, Latest(g, l) PROVE Latest(g, l)'
      BY <2>1, <2>2 DEF Latest
    <2> QED
      BY <1>1, <1>2, <2>1, <2>2
  <1>6. CASE saveBackups
    <2> DEFINE b == [f \in Real(plan) |-> [plan[f].before EXCEPT !.exists = @ \/ config[f].exists]]
    <2>1. \A f \in DOMAIN b : f \in DOMAIN plan /\ b[f].groups = plan[f].before.groups
      BY DEF Real, Typed, TypeOK, Configs
    <2>2. /\ backups' = Append(backups, b) /\ step' # "restore"
          /\ UNCHANGED << config, bin, integrity, plan, doubtful, unrecorded >>
      BY <1>6 DEF saveBackups
    <2> HIDE DEF b
    <2>3. \A i \in 1..Len(backups') : (i \in 1..Len(backups) /\ backups'[i] = backups[i]) \/ backups'[i] = b
      BY <2>2 DEF Typed
    <2>4. ASSUME NEW g \in Files, NEW l \in Locations, Latest(g, l) PROVE Latest(g, l)'
      BY <2>1, <2>2, <2>3, <2>4 DEF Latest, Within
    <2> QED
      BY <1>1, <1>2, <2>2, <2>4
  <1>7. CASE noteContainers \/ Die \/ \E project \in {{}} \cup Projects : uninstall(project)
    <2>1. /\ UNCHANGED << config, bin, integrity, backups, doubtful, unrecorded >>
          /\ plan' \in {plan, NoPlan} /\ step' # "restore"
      BY <1>7 DEF noteContainers, Die, uninstall
    <2>2. \A g \in Files : \A l \in Locations : Latest(g, l) => Latest(g, l)'
      BY <2>1, SameCopies
    <2> QED
      BY <1>1, <1>2, <2>1, <2>2
  <1>8. CASE clearIntegrity
    <2>1. \A g \in Files : integrity'[g] = None
      BY <1>8 DEF clearIntegrity
    <2>2. \A g \in Files : Good(g)'
      BY <2>1 DEF Good
    <2> QED
      BY <2>2 DEF RecordInv
  <1>9. CASE moveInstall
    <2>1. /\ bin' \in Locations /\ bin <= bin'
          /\ UNCHANGED << config, integrity, backups, plan, step, doubtful, unrecorded >>
      BY <1>1, <1>9, BoundsAssumption DEF moveInstall, Locations
    <2> QED
      BY <1>2, <2>1, SameCopies
  <1>10. ASSUME NEW i \in 1..Len(backups), restoreConfigs(i) PROVE RecordInv'
    <2>1. /\ DOMAIN plan' = DOMAIN backups[i] /\ UNCHANGED << config, bin, integrity, backups, doubtful, unrecorded >>
          /\ \A f \in DOMAIN plan' : plan'[f].before = config[f] /\ plan'[f].after = backups[i][f]
      BY <1>10 DEF restoreConfigs
    <2>2. ASSUME NEW g \in Files, NEW l \in Locations, Latest(g, l) PROVE Latest(g, l)'
      BY <2>1, <2>2 DEF Latest
    <2> QED
      BY <1>1, <1>2, <2>1, <2>2
  <1> QED
    BY <1>3, <1>4, <1>5, <1>6, <1>7, <1>8, <1>9, <1>10, FileRecord, NextSplits DEF Typed

LEMMA NextAged == Typed /\ AgedInv /\ [Next]_vars => AgedInv'
  <1> SUFFICES ASSUME Typed, AgedInv, [Next]_vars PROVE AgedInv'
    OBVIOUS
  <1> USE DEF files, notes, command, history
  <1>1. ASSUME NEW f \in Files, recordIntegrity(f) \/ migrateRecord(f) PROVE AgedInv'
    <2>1. integrity' = [integrity EXCEPT ![f] = integrityHash(f)] /\ aged' = aged \ {f}
      BY <1>1 DEF recordIntegrity, migrateRecord
    <2>2. integrityHash(f) = Unparseable \/ Untagged(integrityHash(f))
      BY HashTypes DEF integrityHash, Typed
    <2> QED
      BY <2>1, <2>2 DEF AgedInv, Typed, TypeOK
  <1>2. CASE clearIntegrity
    BY <1>2 DEF clearIntegrity, AgedInv
  <1>3. CASE UNCHANGED << integrity, aged >>
    BY <1>3 DEF AgedInv
  <1>4. \/ UNCHANGED << integrity, aged >> \/ clearIntegrity
        \/ \E f \in Files : recordIntegrity(f) \/ migrateRecord(f)
    BY NextSplits DEF vars, Edit, writeConfig, removeFrom, restoreFile, mangle, mend, planInit,
       saveBackups, noteContainers, Die, moveInstall, uninstall, restoreConfigs, Typed
  <1> QED
    BY <1>1, <1>2, <1>3, <1>4

-----------------------------------------------------------------------------
(* What status says *)

IInv == Typed /\ OnceInv /\ PlanInv /\ RecordInv /\ AgedInv

LEMMA Inductive == Spec => []IInv
  <1>1. Init => IInv
    BY InitTypes, InitOnce, InitPlan, InitRecord DEF IInv
  <1>2. IInv /\ [Next]_vars => IInv'
    BY NextTypes, NextOnce, NextPlan, NextRecord, NextAged DEF IInv
  <1> QED
    BY <1>1, <1>2, PTL DEF Spec

LEMMA HooksOf ==
  ASSUME NEW own, NEW e \in Events, NEW g \in own[e] PROVE g.hooks \subseteq hooksOf(own)
  BY DEF hooksOf

\* A group whose record is pristine runs usewarden at that place and nothing else.
LEMMA PristineHooks ==
  ASSUME NEW own \in [Events -> SUBSET Groups], NEW l,
         Pristine(own, l) \/ Pristine(withoutTag(own), l)
  PROVE  \A e \in Events : own[e] # {} /\ \A g \in own[e] : g.hooks = {l}
  <1> SUFFICES ASSUME NEW e \in Events PROVE own[e] # {} /\ \A g \in own[e] : g.hooks = {l}
    OBVIOUS
  <1>1. CASE Pristine(own, l)
    <2>1. PICK t \in BOOLEAN : own[e] = {[tagged |-> t, hooks |-> {l}]}
      BY <1>1 DEF Pristine
    <2> QED
      BY <2>1
  <1>2. CASE Pristine(withoutTag(own), l)
    <2>1. PICK t \in BOOLEAN : withoutTag(own)[e] = {[tagged |-> t, hooks |-> {l}]}
      BY <1>2 DEF Pristine
    <2>2. withoutTag(own)[e] = {[g EXCEPT !.tagged = FALSE] : g \in own[e]}
      BY DEF withoutTag
    <2>3. \A g \in Groups : [g EXCEPT !.tagged = FALSE].hooks = g.hooks
      BY DEF Groups
    <2>4. \A g \in own[e] : g.hooks = {l}
      <3> SUFFICES ASSUME NEW g \in own[e] PROVE g.hooks = {l}
        OBVIOUS
      <3>1. [g EXCEPT !.tagged = FALSE] = [tagged |-> t, hooks |-> {l}]
        BY <2>1, <2>2
      <3> QED
        BY <2>3, <3>1
    <2>5. own[e] # {}
      BY <2>1, <2>2
    <2> QED
      BY <2>4, <2>5
  <1> QED
    BY <1>1, <1>2

\* PROTECTED means running, for any files and events and whatever was edited,
\* moved, restored or killed (status.ts), with the exceptions that doubtful names.
THEOREM ProtectedIsRunning == Spec => []ProtectedMeansRunning
  <1>1. ASSUME IInv, NEW f \in Files \ doubtful, protected(f)
        PROVE  /\ ~config[f].disabled
               /\ \A e \in Events : \E g \in config[f].groups[e] : bin \in g.hooks
    <2> DEFINE own == ownGroups(config[f])
    <2>1. /\ integrity[f] # None /\ f \notin mangled /\ ~config[f].disabled
          /\ hooksOf(own) = {bin} /\ integrity[f] \in {withoutTag(own), own}
      BY <1>1 DEF protected, registered, commandPointsAtUsewarden, hashMatches, integrityHash, legacyHash
    <2>2. own \in [Events -> SUBSET Groups] /\ config[f] \in Configs
      BY <1>1, ForeignTypes DEF IInv, Typed, TypeOK
    <2>3. PICK l \in 1..bin : Pristine(integrity[f], l)
      BY <1>1, <2>1 DEF IInv, RecordInv, Good
    <2>4. \A e \in Events : own[e] \subseteq config[f].groups[e]
      BY DEF ownGroups
    <2> HIDE DEF own
    <2>5. \A e \in Events : own[e] # {} /\ \A g \in own[e] : g.hooks = {l}
      BY <2>1, <2>2, <2>3, PristineHooks
    <2>6. \A e \in Events : l = bin
      BY <2>1, <2>5, HooksOf
    <2>7. ASSUME NEW e \in Events PROVE \E g \in config[f].groups[e] : bin \in g.hooks
      BY <2>4, <2>5, <2>6
    <2> QED
      BY <2>1, <2>7
  <1>2. IInv => ProtectedMeansRunning
    BY <1>1 DEF ProtectedMeansRunning
  <1> QED
    BY <1>2, Inductive, PTL

LEMMA TaggedSame ==
  ASSUME NEW own \in [Events -> SUBSET Groups], NEW rec \in [Events -> SUBSET Groups], NEW l,
         Pristine(own, l), Pristine(rec, l), Tagged(own), Tagged(rec)
  PROVE  rec = own
  <1>1. ASSUME NEW any \in [Events -> SUBSET Groups], Pristine(any, l), Tagged(any), NEW e \in Events
        PROVE  any[e] = {[tagged |-> TRUE, hooks |-> {l}]}
    <2>1. any[e] = {[tagged |-> TRUE, hooks |-> {l}]} \/ any[e] = {[tagged |-> FALSE, hooks |-> {l}]}
      BY <1>1 DEF Pristine
    <2>2. [tagged |-> FALSE, hooks |-> {l}] \notin any[e]
      BY <1>1 DEF Tagged
    <2> QED
      BY <2>1, <2>2
  <1>2. \A e \in Events : rec[e] = own[e]
    BY <1>1
  <1> QED
    BY <1>2

LEMMA UntaggedSame ==
  ASSUME NEW rec \in [Events -> SUBSET Groups], NEW l, Pristine(rec, l), Untagged(rec)
  PROVE  rec = Bare(l)
  <1>1. ASSUME NEW e \in Events PROVE rec[e] = {[tagged |-> FALSE, hooks |-> {l}]}
    <2>1. rec[e] = {[tagged |-> TRUE, hooks |-> {l}]} \/ rec[e] = {[tagged |-> FALSE, hooks |-> {l}]}
      BY DEF Pristine
    <2>2. [tagged |-> TRUE, hooks |-> {l}] \notin rec[e]
      BY DEF Untagged
    <2> QED
      BY <2>1, <2>2
  <1> QED
    BY <1>1 DEF Bare

\* A file that runs what init registered is not called TAMPERED, for any files and
\* events, but in the cases that the comment of NoFalseAlarm names: a record of a
\* file written under the command or not by it, tags of an older version that are
\* gone, and a file init wrote and did not record, when usewarden had moved since
\* the record that stands.  Of the others the record is of the place they run
\* usewarden at, since no copy of the file is of a later one.
THEOREM NoFalseAlarmEver == Spec => []NoFalseAlarm
  <1>1. ASSUME IInv, NEW f \in Files \ doubtful, integrity[f] # None,
               Pristine(ownGroups(config[f]), bin), f \in aged => Tagged(ownGroups(config[f])),
               f \in unrecorded => recordedAt(f, bin), tampered(f)
        PROVE  FALSE
    <2> DEFINE own == ownGroups(config[f])
    <2>1. f \notin mangled /\ own # NoGroups
      BY <1>1 DEF tampered, registered
    <2>2. /\ own \in [Events -> SUBSET Groups] /\ config[f] \in Configs
          /\ bin \in Locations /\ bin \in Nat
      BY <1>1, ForeignTypes DEF IInv, Typed, TypeOK, Locations
    <2>3. \A e \in Events : own[e] \subseteq config[f].groups[e]
      BY DEF ownGroups
    <2>4. Pristine(own, bin) /\ (f \in aged => Tagged(own))
      BY <1>1
    <2>5. /\ integrityHash(f) = withoutTag(own) /\ legacyHash(f) = own
          /\ commandPointsAtUsewarden(f) <=> hooksOf(own) = {bin}
      BY <2>1 DEF integrityHash, legacyHash, commandPointsAtUsewarden
    <2> HIDE DEF own
    <2>6. PICK e \in Events : TRUE
      BY <2>1, <2>2 DEF NoGroups
    <2>7. \A x \in Events : own[x] # {} /\ \A g \in own[x] : g.hooks = {bin}
      BY <2>2, <2>4, PristineHooks
    <2>8. hooksOf(own) = {bin}
      BY <2>6, <2>7 DEF hooksOf
    <2>9. integrity[f] \notin {withoutTag(own), own}
      BY <1>1, <2>5, <2>8 DEF tampered, stale, hashMatches, Locations
    <2>10. PICK l \in 1..bin : Pristine(integrity[f], l) /\ (f \notin unrecorded => Latest(f, l))
      BY <1>1 DEF IInv, RecordInv, Good
    <2>11. integrity[f] \in [Events -> SUBSET Groups]
      BY <1>1 DEF IInv, RecordInv, Good, Typed, TypeOK
    <2>12. l = bin
      <3>1. CASE f \in unrecorded
        <4>1. hooksOf(integrity[f]) = {bin}
          BY <1>1, <3>1 DEF recordedAt
        <4>2. PICK g \in integrity[f][e] : g.hooks = {l}
          BY <2>10, <2>11, PristineHooks
        <4> QED
          BY <4>1, <4>2, HooksOf
      <3>2. CASE f \notin unrecorded
        <4>1. PICK g \in own[e] : g.hooks = {bin} /\ g \in config[f].groups[e]
          BY <2>3, <2>7
        <4>2. bin <= l
          BY <2>2, <2>10, <3>2, <4>1 DEF Latest, Within
        <4> QED
          BY <2>2, <4>2
      <3> QED
        BY <3>1, <3>2
    <2>13. integrity[f] \in [Events -> SUBSET Groups] /\ Pristine(integrity[f], bin)
      BY <2>10, <2>12, <2>11
    <2>14. CASE f \in aged
      <3>1. Tagged(integrity[f]) /\ Tagged(own)
        BY <1>1, <2>4, <2>14 DEF IInv, AgedInv
      <3>2. integrity[f] = own
        BY <2>2, <2>4, <2>13, <3>1, TaggedSame
      <3> QED
        BY <2>9, <3>2
    <2>15. CASE f \notin aged
      <3>1. Untagged(integrity[f])
        BY <1>1, <2>13, <2>15, ValuesAssumption DEF IInv, AgedInv
      <3>2. integrity[f] = Bare(bin)
        BY <2>13, <3>1, UntaggedSame
      <3>3. withoutTag(own) = Bare(bin)
        BY <2>2, <2>4, PristineBare
      <3> QED
        BY <2>9, <3>2, <3>3
    <2> QED
      BY <2>14, <2>15
  <1>2. IInv => NoFalseAlarm
    BY <1>1 DEF NoFalseAlarm
  <1> QED
    BY <1>2, Inductive, PTL

-----------------------------------------------------------------------------
(* What is overwritten *)

\* What init is to write is made of what it read, which the newest backup holds,
\* and which is still there, or the file is disturbed.
WriteInv ==
  /\ step \in Saving => \A f \in DOMAIN plan : plan[f].after = mergeEntries(plan[f].before)
  /\ \A f \in Files : Pending(f) /\ f \notin disturbed => config[f] = plan[f].before
  /\ step = "write" => \A f \in todo \ disturbed : backups[Len(backups)][f] = plan[f].before

LEMMA InitWrite == Init => WriteInv
  BY DEF Init, WriteInv, Saving, Pending

\* A config is backed up as it was read: its file is there if there was anything
\* to read.
LEMMA SavedAsRead ==
  ASSUME NEW c \in Configs PROVE [c EXCEPT !.exists = @ \/ c.exists] = c
  <1>1. c.exists \in BOOLEAN /\ c = [c EXCEPT !.exists = c.exists]
    BY DEF Configs
  <1>2. (c.exists \/ c.exists) = c.exists
    BY <1>1
  <1> QED
    BY <1>1, <1>2

LEMMA MergedSame == ASSUME bin' = bin PROVE \A c : mergeEntries(c)' = mergeEntries(c)
  BY DEF mergeEntries, usewardenEntry

LEMMA NextWrite == Typed /\ PlanInv /\ WriteInv /\ [Next]_vars => WriteInv'
  <1> SUFFICES ASSUME Typed, PlanInv, WriteInv, [Next]_vars PROVE WriteInv'
    OBVIOUS
  <1> USE DEF files, notes, command, history
  <1>1. CASE UNCHANGED vars
    <2>1. UNCHANGED << bin, plan, step, todo, config, backups, disturbed >>
      BY <1>1 DEF vars
    <2> QED
      BY <2>1, MergedSame DEF WriteInv, Saving, Pending
  <1>2. ASSUME NEW f \in Files, UNCHANGED << bin, step, plan, todo, backups >>,
               disturbed' = IF step = "idle" THEN disturbed ELSE disturbed \cup {f},
               \A g \in Files \ {f} : config'[g] = config[g]
        PROVE  WriteInv'
    <2>1. \A c : mergeEntries(c)' = mergeEntries(c)
      BY <1>2, MergedSame
    <2> QED
      BY <1>2, <2>1 DEF WriteInv, Saving, Pending, Typed, TypeOK
  <1>3. ASSUME NEW f \in Files, \/ \E d \in Configs : Edit(f, d)
                                \/ mangle(f) \/ mend(f)
        PROVE  WriteInv'
    <2>1. \A g \in Files \ {f} : config'[g] = config[g]
      BY <1>3 DEF Edit, mangle, mend, Typed, TypeOK
    <2>2. /\ UNCHANGED << bin, step, plan, todo, backups >>
          /\ disturbed' = IF step = "idle" THEN disturbed ELSE disturbed \cup {f}
      BY <1>3 DEF Edit, mangle, mend
    <2> QED
      BY <1>2, <2>1, <2>2
  <1>4. ASSUME NEW f \in Files, writeConfig(f) PROVE WriteInv'
    <2>1. /\ step = "write" /\ f \in todo /\ todo' = todo \ {f} /\ UNCHANGED << bin, plan, backups >>
          /\ step' \in {"write", "note"} /\ disturbed \subseteq disturbed'
      BY <1>4 DEF writeConfig, Done
    <2>2. \A g \in Files \ {f} : config'[g] = config[g]
      <3>1. plan[f].after \in Configs
        BY <2>1 DEF Typed, TypeOK, Saving
      <3> QED
        BY <1>4, <3>1, WriteEnds DEF writeConfig, Typed
    <2>3. \A c : mergeEntries(c)' = mergeEntries(c)
      BY <2>1, MergedSame
    <2> QED
      BY <2>1, <2>2, <2>3 DEF WriteInv, Saving, Pending
  <1>5. ASSUME NEW f \in Files, recordIntegrity(f) \/ migrateRecord(f) PROVE WriteInv'
    <2>1. \/ step' = "idle"
          \/ step' = "record" /\ step = "record" /\ UNCHANGED << bin, plan >>
          \/ UNCHANGED << bin, plan, step, todo, config, backups, disturbed >>
      BY <1>5 DEF recordIntegrity, migrateRecord, Done
    <2>2. CASE UNCHANGED << bin, plan, step, todo, config, backups, disturbed >>
      BY <2>2, MergedSame DEF WriteInv, Saving, Pending
    <2>3. CASE step' = "record" /\ step = "record" /\ UNCHANGED << bin, plan >>
      BY <2>3, MergedSame DEF WriteInv, Saving, Pending
    <2>4. CASE step' = "idle"
      BY <2>4 DEF WriteInv, Saving, Pending
    <2> QED
      BY <2>1, <2>2, <2>3, <2>4
  <1>6. ASSUME NEW f \in Files, removeFrom(f) \/ restoreFile(f) PROVE WriteInv'
    <2>1. step' \in {"remove", "restore", "idle"}
      BY <1>6 DEF removeFrom, restoreFile, Done
    <2> QED
      BY <2>1 DEF WriteInv, Saving, Pending
  <1>7. ASSUME NEW S \in {UserFiles} \cup Projects, planInit(S) PROVE WriteInv'
    <2>1. /\ todo' \subseteq DOMAIN plan' /\ UNCHANGED << bin, config >> /\ step' \in {"record", "save"}
          /\ \A f \in DOMAIN plan' : plan'[f].before = config[f] /\ plan'[f].after = mergeEntries(config[f])
      BY <1>7 DEF planInit, Real
    <2>2. \A c : mergeEntries(c)' = mergeEntries(c)
      BY <2>1, MergedSame
    <2> QED
      BY <2>1, <2>2 DEF WriteInv, Saving, Pending
  <1>8. CASE saveBackups
    <2> DEFINE b == [f \in Real(plan) |-> [plan[f].before EXCEPT !.exists = @ \/ config[f].exists]]
    <2>1. /\ step = "save" /\ step' = "write" /\ backups' = Append(backups, b) /\ todo = Real(plan)
          /\ UNCHANGED << config, bin, plan, todo, disturbed >>
      BY <1>8 DEF saveBackups, PlanInv
    <2>2. ASSUME NEW f \in todo \ disturbed PROVE b[f] = plan[f].before
      <3>1. f \in Files /\ config[f] = plan[f].before /\ config[f] \in Configs
        BY <2>1, <2>2 DEF WriteInv, Pending, Typed, TypeOK
      <3>2. b[f] = [config[f] EXCEPT !.exists = @ \/ config[f].exists]
        BY <2>1, <2>2, <3>1
      <3> QED
        BY <3>1, <3>2, SavedAsRead
    <2> HIDE DEF b
    <2>3. backups'[Len(backups')] = b
      BY <2>1 DEF Typed
    <2>4. \A c : mergeEntries(c)' = mergeEntries(c)
      BY <2>1, MergedSame
    <2> QED
      BY <2>1, <2>2, <2>3, <2>4 DEF WriteInv, Saving, Pending
  <1>9. CASE noteContainers
    <2>1. step = "note" /\ step' = "record" /\ UNCHANGED << bin, plan >>
      BY <1>9 DEF noteContainers
    <2> QED
      BY <2>1, MergedSame DEF WriteInv, Saving, Pending
  <1>10. ASSUME \/ clearIntegrity \/ Die \/ moveInstall
                \/ \E project \in {{}} \cup Projects : uninstall(project)
                \/ \E i \in 1..Len(backups) : restoreConfigs(i)
         PROVE  WriteInv'
    <2>1. step' \in {"idle", "remove", "restore"}
      BY <1>10 DEF clearIntegrity, Die, moveInstall, uninstall, restoreConfigs
    <2> QED
      BY <2>1 DEF WriteInv, Saving, Pending
  <1> QED
    BY <1>1, <1>3, <1>4, <1>5, <1>6, <1>7, <1>8, <1>9, <1>10, NextSplits DEF Typed

LEMMA OthersStay ==
  ASSUME NEW c \in Configs, bin \in Locations, NEW f
  PROVE  Others(mergeEntries(c)) = Others(c) /\ Others(removeEntries(c, f \in created)) = Others(c)
  <1>1. foreignGroups(mergeEntries(c)) = foreignGroups(c)
    <2>1. mergeEntries(c).groups = [e \in Events |-> foreignGroups(c)[e] \cup {usewardenEntry}]
      BY DEF mergeEntries, Configs
    <2>2. \A e \in Events : {g \in mergeEntries(c).groups[e] : ~isUsewardenEntry(g)} = foreignGroups(c)[e]
      BY <2>1, EntryOwn, ForeignTypes
    <2> QED
      BY <2>2 DEF foreignGroups
  <1>2. foreignGroups(removeEntries(c, f \in created)) = foreignGroups(c)
    <2>1. removeEntries(c, f \in created).groups = foreignGroups(c)
      BY DEF removeEntries, Configs
    <2>2. \A e \in Events : {g \in foreignGroups(c)[e] : ~isUsewardenEntry(g)} = foreignGroups(c)[e]
      BY ForeignTypes
    <2> QED
      BY <2>1, <2>2 DEF foreignGroups
  <1>3. /\ mergeEntries(c).rest = c.rest /\ mergeEntries(c).disabled = c.disabled
        /\ removeEntries(c, f \in created).rest = c.rest
        /\ removeEntries(c, f \in created).disabled = c.disabled
    BY DEF mergeEntries, removeEntries, Configs
  <1> QED
    BY <1>1, <1>2, <1>3 DEF Others

\* Only a write or a removal takes a file off what is to be written or removed.
LEMMA WriteSteps ==
  ASSUME Typed, [Next]_vars, NEW f \in Files, Writes(f), step' # "idle"
  PROVE  writeConfig(f) \/ removeFrom(f)
  <1> USE DEF files, notes, command, history
  <1>1. f \in todo /\ f \notin todo' /\ step \in {"write", "remove"}
    BY DEF Writes
  <1>2. todo' # todo
    BY <1>1
  <1>3. \/ \E g \in Files : writeConfig(g) \/ removeFrom(g)
        \/ todo' = todo \/ step' = "idle" \/ step \in {"idle", "save", "note", "record", "restore"}
    BY NextSplits DEF vars, Edit, recordIntegrity, restoreFile, migrateRecord, mangle, mend, planInit,
       saveBackups, noteContainers, clearIntegrity, Die, moveInstall, uninstall, restoreConfigs, Done, Typed
  <1>4. PICK g \in Files : writeConfig(g) \/ removeFrom(g)
    BY <1>1, <1>2, <1>3
  <1>5. g = f
    BY <1>1, <1>4 DEF writeConfig, removeFrom, Done
  <1> QED
    BY <1>4, <1>5

LEMMA WriteAlways == Spec => [](IInv /\ WriteInv)
  <1>1. IInv => Typed /\ PlanInv
    BY DEF IInv
  <1> QED
    BY <1>1, Inductive, InitWrite, NextWrite, PTL DEF Spec

\* What is not in usewarden's groups comes through init and uninstall, for any
\* files and edits, though init writes what it planned steps before (merge.ts);
\* what somebody saved in between, and a file whose write failed, excepted.
THEOREM OthersAlwaysStay == Spec => OthersUntouched
  <1>1. ASSUME IInv, WriteInv, [Next]_vars, NEW f \in Files, Writes(f), step' # "idle", f \notin disturbed'
        PROVE  Others(config'[f]) = Others(config[f])
    <2>1. Typed /\ bin \in Locations /\ config[f] \in Configs /\ config \in [Files -> Configs]
      BY <1>1 DEF IInv, Typed, TypeOK
    <2>2. CASE writeConfig(f)
      <3>1. step = "write" /\ f \in todo /\ f \in DOMAIN plan
        BY <2>1, <2>2 DEF writeConfig, Done, Typed, Saving
      <3>2. f \notin disturbed /\ config' = [config EXCEPT ![f] = plan[f].after]
        BY <1>1, <2>2 DEF writeConfig, Write
      <3>3. plan[f].after = mergeEntries(config[f])
        BY <1>1, <3>1, <3>2 DEF WriteInv, Saving, Pending
      <3> QED
        BY <2>1, <3>2, <3>3, OthersStay
    <2>3. CASE removeFrom(f)
      <3>1. config' = config \/ config' = [config EXCEPT ![f] = removeEntries(config[f], f \in created)]
        BY <1>1, <2>3 DEF removeFrom, Write, files
      <3> QED
        BY <2>1, <3>1, OthersStay
    <2> QED
      BY <1>1, <2>1, <2>2, <2>3, WriteSteps
  <1>2. IInv /\ WriteInv /\ [Next]_vars =>
          [\A f \in Files : Writes(f) /\ step' # "idle" /\ f \notin disturbed'
             => Others(config'[f]) = Others(config[f])]_vars
    BY <1>1
  <1> QED
    BY <1>2, WriteAlways, PTL DEF Spec, OthersUntouched

\* What init overwrites is in its newest backup as it was, for any files and any
\* number of backups (README.md:303-304).
THEOREM OverwrittenAlwaysBackedUp == Spec => OverwrittenIsBackedUp
  <1>1. ASSUME IInv, WriteInv, [Next]_vars, NEW f \in Files, step = "write",
               config'[f] # config[f], f \notin todo', f \in todo, f \notin disturbed
        PROVE  backups[Len(backups)][f] = config[f]
    BY <1>1 DEF WriteInv, Pending
  <1>2. IInv /\ WriteInv /\ [Next]_vars =>
          [\A f \in Files : step = "write" /\ config'[f] # config[f] /\ f \notin todo' /\ f \in todo
                            /\ f \notin disturbed
             => backups[Len(backups)][f] = config[f]]_vars
    BY <1>1
  <1> QED
    BY <1>2, WriteAlways, PTL DEF Spec, OverwrittenIsBackedUp

-----------------------------------------------------------------------------
(* What uninstall leaves *)

\* Who made a hooks container is known.
Accounted(f) == f \in created \cup theirs \cup torn

\* Written by init, which has not taken note of it yet.
Unnoted(f) == step \in {"write", "note"} /\ f \in Real(plan) \ todo

ContainerInv ==
  /\ step \in {"save", "write"} => todo \subseteq Real(plan)
  /\ \A f \in Files : config[f].container => Accounted(f) \/ Unnoted(f)
  /\ \A f \in DOMAIN plan : /\ plan[f].before.container => Accounted(f)
                            /\ step = "restore" /\ plan[f].after.container => Accounted(f)
  /\ \A i \in 1..Len(backups) : \A f \in DOMAIN backups[i] :
       backups[i][f].container => Accounted(f)

\* uninstall is done with a file that it read and wrote and nobody touched since.
Cleared(f) ==
  /\ ownGroups(config[f]) = NoGroups
  /\ config[f].container /\ foreignGroups(config[f]) = NoGroups => f \notin created

RemoveInv ==
  step = "remove" =>
    \A f \in (UserFiles \cup Known) \ (todo \cup disturbed \cup mangled) : Cleared(f)

LEMMA InitContainer == Init => ContainerInv /\ RemoveInv
  <1> SUFFICES ASSUME Init PROVE ContainerInv
    BY DEF Init, RemoveInv
  <1>1. backups = << >> /\ plan = NoPlan /\ step = "idle"
    BY DEF Init
  <1>2. \A f \in Files : config[f].container => f \in created \cup theirs
    BY DEF Init
  <1> QED
    BY <1>1, <1>2, NoPlanFacts DEF ContainerInv, Accounted

\* A step that makes no container but one that is accounted for.
LEMMA SameContainers ==
  ASSUME ContainerInv, UNCHANGED << step, plan, backups >>, todo' \subseteq todo,
         created \subseteq created', theirs \subseteq theirs', torn \subseteq torn',
         \A f \in Files : config'[f].container =>
           config[f].container \/ Accounted(f)' \/ Unnoted(f)'
  PROVE  ContainerInv'
  BY DEF ContainerInv, Accounted, Unnoted, Real

\* A step after which no init writes.
LEMMA OtherContainers ==
  ASSUME ContainerInv, step' \notin {"save", "write", "note"}, ~\E f \in Files : Unnoted(f),
         backups' = backups, UNCHANGED << created, theirs, torn >>,
         \A f \in Files : config'[f].container => config[f].container \/ Accounted(f),
         plan' \in {plan, NoPlan}, step' = "restore" => step = "restore"
  PROVE  ContainerInv'
  <1>1. \A f \in DOMAIN plan' : f \in DOMAIN plan /\ plan'[f] = plan[f]
    BY NoPlanFacts
  <1> QED
    BY <1>1 DEF ContainerInv, Accounted, Unnoted

LEMMA NextContainer == Typed /\ ContainerInv /\ [Next]_vars => ContainerInv'
  <1> SUFFICES ASSUME Typed, ContainerInv, [Next]_vars PROVE ContainerInv'
    OBVIOUS
  <1> USE DEF files, notes, command, history
  <1>1. CASE UNCHANGED vars
    BY <1>1 DEF vars, ContainerInv, Accounted, Unnoted, Real
  <1>2. ASSUME NEW f \in Files, NEW d \in Configs, Edit(f, d) PROVE ContainerInv'
    <2>1. \A g \in Files : config'[g].container => config[g].container \/ g \in theirs'
      BY <1>2 DEF Edit, Typed, TypeOK
    <2>2. UNCHANGED << step, plan, backups, todo, created, torn >> /\ theirs \subseteq theirs'
      BY <1>2 DEF Edit
    <2> QED
      BY <2>1, <2>2, SameContainers DEF Accounted
  <1>3. ASSUME NEW f \in Files, mangle(f) \/ mend(f) \/ migrateRecord(f) PROVE ContainerInv'
    <2>1. UNCHANGED << config, step, plan, backups, todo, created, torn, theirs >>
      BY <1>3 DEF mangle, mend, migrateRecord
    <2> QED
      BY <2>1, SameContainers
  <1>4. ASSUME NEW f \in Files, writeConfig(f) PROVE ContainerInv'
    <2>1. /\ step = "write" /\ f \in todo /\ f \in Real(plan) /\ todo' = todo \ {f}
          /\ step' \in {"write", "note"} /\ UNCHANGED << plan, backups, created, torn, theirs >>
      BY <1>4 DEF writeConfig, Done, ContainerInv
    <2>2. \A g \in Files \ {f} : config'[g] = config[g]
      <3>1. plan[f].after \in Configs
        BY <2>1 DEF Typed, TypeOK, Saving
      <3> QED
        BY <1>4, <3>1, WriteEnds DEF writeConfig, Typed
    <2> QED
      BY <2>1, <2>2 DEF ContainerInv, Accounted, Unnoted, Real
  <1>5. ASSUME NEW f \in Files, recordIntegrity(f) PROVE ContainerInv'
    <2>1. /\ step = "record" /\ step' \in {"record", "idle"} /\ plan' \in {plan, NoPlan}
          /\ UNCHANGED << config, backups, created, torn, theirs >>
      BY <1>5 DEF recordIntegrity, Done
    <2> QED
      BY <2>1, OtherContainers DEF Unnoted
  <1>6. ASSUME NEW f \in Files, removeFrom(f) PROVE ContainerInv'
    <2>1. removeEntries(config[f], f \in created).container => config[f].container
      BY DEF removeEntries, Configs, Typed, TypeOK
    <2>2. config' \in {config, [config EXCEPT ![f] = removeEntries(config[f], f \in created)],
                       [config EXCEPT ![f] = Empty]}
      <3>1. removeEntries(config[f], f \in created) \in Configs
        BY Removed DEF Typed, TypeOK
      <3> QED
        BY <1>6, <3>1, WriteEnds DEF removeFrom, Typed
    <2>3. \A g \in Files : config'[g].container => config[g].container
      BY <2>1, <2>2, EmptyFacts DEF Typed, TypeOK
    <2>4. UNCHANGED << step, plan, backups, created, torn, theirs >> /\ todo' \subseteq todo
      BY <1>6 DEF removeFrom
    <2> QED
      BY <2>3, <2>4, SameContainers
  <1>7. ASSUME NEW f \in Files, restoreFile(f) PROVE ContainerInv'
    <2>1. /\ step = "restore" /\ f \in DOMAIN plan /\ step' \in {"restore", "idle"}
          /\ plan' \in {plan, NoPlan} /\ UNCHANGED << backups, created, torn, theirs >>
      BY <1>7 DEF restoreFile, Done, Typed
    <2>2. config' \in {config, [config EXCEPT ![f] = plan[f].after], [config EXCEPT ![f] = Empty]}
      <3>1. plan[f].after \in Configs
        BY <2>1 DEF Typed, TypeOK
      <3> QED
        BY <1>7, <3>1, WriteEnds DEF restoreFile, Typed
    <2>3. \A g \in Files : config'[g].container => config[g].container \/ Accounted(g)
      BY <2>1, <2>2, EmptyFacts DEF ContainerInv, Typed, TypeOK
    <2> QED
      BY <2>1, <2>3, OtherContainers DEF Unnoted
  <1>8. ASSUME NEW S \in {UserFiles} \cup Projects, planInit(S) PROVE ContainerInv'
    <2>1. /\ step = "idle" /\ step' \in {"record", "save"} /\ DOMAIN plan' \subseteq Files
          /\ step' = "save" => todo' = Real(plan')
          /\ UNCHANGED << config, backups, created, torn, theirs >>
          /\ \A f \in DOMAIN plan' : plan'[f].before = config[f]
      BY <1>8, PlanScope DEF planInit
    <2> QED
      BY <2>1 DEF ContainerInv, Accounted, Unnoted
  <1>9. CASE saveBackups
    <2> DEFINE b == [f \in Real(plan) |-> [plan[f].before EXCEPT !.exists = @ \/ config[f].exists]]
    <2>1. \A f \in DOMAIN b : b[f].container => Accounted(f)
      <3>1. \A f \in DOMAIN b : f \in DOMAIN plan /\ b[f].container = plan[f].before.container
        BY DEF Real, Typed, TypeOK, Configs
      <3> QED
        BY <3>1 DEF ContainerInv
    <2>2. /\ step = "save" /\ step' = "write" /\ backups' = Append(backups, b)
          /\ UNCHANGED << config, plan, todo, created, torn, theirs >>
      BY <1>9 DEF saveBackups
    <2> HIDE DEF b
    <2>3. \A i \in 1..Len(backups') : (i \in 1..Len(backups) /\ backups'[i] = backups[i]) \/ backups'[i] = b
      BY <2>2 DEF Typed
    <2> QED
      BY <2>1, <2>2, <2>3 DEF ContainerInv, Accounted, Unnoted, Real
  <1>10. CASE noteContainers
    <2>1. /\ step = "note" /\ step' = "record" /\ UNCHANGED << config, plan, backups, torn, theirs >>
          /\ created' = created \cup {f \in Real(plan) : ~plan[f].before.container}
      BY <1>10 DEF noteContainers
    <2>2. \A f \in DOMAIN plan : plan[f].before.container => Accounted(f)
      BY DEF ContainerInv
    <2>3. \A f \in Real(plan) : Accounted(f)'
      BY <2>1, <2>2 DEF Accounted, Real
    <2> QED
      BY <2>1, <2>3 DEF ContainerInv, Accounted, Unnoted
  <1>11. CASE Die
    <2>1. /\ step' = "idle" /\ plan' = NoPlan /\ UNCHANGED << config, backups, created, theirs >>
          /\ torn \subseteq torn'
          /\ step \in {"write", "note"} => Real(plan) \ todo \subseteq torn'
      BY <1>11 DEF Die
    <2> QED
      BY <2>1, NoPlanFacts DEF ContainerInv, Accounted, Unnoted
  <1>12. CASE clearIntegrity \/ moveInstall \/ \E project \in {{}} \cup Projects : uninstall(project)
    <2>1. /\ step \in {"idle", "remove"} /\ step' \in {"idle", "remove"}
          /\ UNCHANGED << config, plan, backups, created, torn, theirs >>
      BY <1>12 DEF clearIntegrity, moveInstall, uninstall
    <2> QED
      BY <2>1, OtherContainers DEF Unnoted
  <1>13. ASSUME NEW i \in 1..Len(backups), restoreConfigs(i) PROVE ContainerInv'
    <2>1. /\ step = "idle" /\ step' = "restore" /\ DOMAIN plan' = DOMAIN backups[i]
          /\ DOMAIN backups[i] \subseteq Files
          /\ UNCHANGED << config, backups, created, torn, theirs >>
          /\ \A f \in DOMAIN plan' : plan'[f].before = config[f] /\ plan'[f].after = backups[i][f]
      BY <1>13, BackupFacts DEF restoreConfigs, Typed
    <2> QED
      BY <2>1 DEF ContainerInv, Accounted, Unnoted
  <1> QED
    BY <1>1, <1>2, <1>3, <1>4, <1>5, <1>6, <1>7, <1>8, <1>9, <1>10, <1>11, <1>12, <1>13,
       NextSplits DEF Typed

LEMMA RemovedIsCleared ==
  ASSUME Typed, NEW f \in Files, config'[f] = removeEntries(config[f], f \in created),
         created' = created
  PROVE  Cleared(f)'
  <1> DEFINE c == config[f]
             d == removeEntries(c, f \in created)
  <1>1. c \in Configs
    BY DEF Typed, TypeOK
  <1>2. d.groups = foreignGroups(c) /\ (d.container => ~(f \in created /\ foreignGroups(c) = NoGroups))
    BY <1>1 DEF removeEntries, Configs
  <1>3. ownGroups(d) = NoGroups /\ foreignGroups(d) = foreignGroups(c)
    <2>1. \A e \in Events : /\ {g \in d.groups[e] : isUsewardenEntry(g)} = {}
                            /\ {g \in d.groups[e] : ~isUsewardenEntry(g)} = foreignGroups(c)[e]
      BY <1>1, <1>2, ForeignTypes
    <2> HIDE DEF d
    <2>2. ownGroups(d) = NoGroups
      BY <2>1 DEF ownGroups, NoGroups
    <2>3. foreignGroups(d) = [e \in Events |-> foreignGroups(c)[e]]
      BY <2>1 DEF foreignGroups
    <2> QED
      BY <2>2, <2>3, <1>1, ForeignTypes
  <1> QED
    BY <1>2, <1>3 DEF Cleared

LEMMA NextRemove == Typed /\ RemoveInv /\ [Next]_vars => RemoveInv'
  <1> SUFFICES ASSUME Typed, RemoveInv, [Next]_vars, step' = "remove" PROVE RemoveInv'
    BY DEF RemoveInv
  <1> USE DEF files, notes, command, history
  <1>1. ASSUME UNCHANGED << step, todo, integrity, created >>, NEW f \in Files,
               \A g \in Files \ {f} : config'[g] = config[g] /\ (g \in mangled' <=> g \in mangled),
               disturbed' = disturbed \cup {f}
        PROVE  RemoveInv'
    BY <1>1, PlanScope DEF RemoveInv, Known, Cleared
  <1>2. CASE UNCHANGED vars
    BY <1>2 DEF vars, RemoveInv, Known, Cleared
  <1>3. ASSUME NEW f \in Files, \/ \E d \in Configs : Edit(f, d)
                                \/ mangle(f) \/ mend(f)
        PROVE  RemoveInv'
    <2>1. \A g \in Files \ {f} : config'[g] = config[g] /\ (g \in mangled' <=> g \in mangled)
      BY <1>3 DEF Edit, mangle, mend, Typed, TypeOK
    <2>2. UNCHANGED << step, todo, integrity, created >> /\ disturbed' = disturbed \cup {f}
      BY <1>3 DEF Edit, mangle, mend
    <2> QED
      BY <1>1, <2>1, <2>2
  <1>4. ASSUME NEW f \in Files, migrateRecord(f) PROVE RemoveInv'
    <2>1. /\ UNCHANGED << config, mangled, step, todo, created, disturbed >> /\ integrity[f] # None
          /\ integrity' = [integrity EXCEPT ![f] = integrityHash(f)]
      BY <1>4 DEF migrateRecord
    <2>2. integrityHash(f) # None
      BY HashTypes, ValuesAssumption DEF Typed
    <2>3. Known' = Known
      BY <2>1, <2>2 DEF Known, Typed, TypeOK
    <2> QED
      BY <2>1, <2>3 DEF RemoveInv, Cleared
  <1>5. ASSUME NEW f \in Files, removeFrom(f) PROVE RemoveInv'
    <2>1. /\ step = "remove" /\ f \in todo /\ todo' = todo \ {f} /\ UNCHANGED << integrity, created >>
          /\ disturbed \subseteq disturbed'
      BY <1>5 DEF removeFrom
    <2>2. \/ config' = [config EXCEPT ![f] = removeEntries(config[f], f \in created)]
          \/ f \in mangled' \/ f \in disturbed'
      BY <1>5 DEF removeFrom, Write
    <2>3. \A g \in Files \ {f} : config'[g] = config[g] /\ (g \in mangled' <=> g \in mangled)
      <3>1. removeEntries(config[f], f \in created) \in Configs
        BY Removed DEF Typed, TypeOK
      <3> QED
        BY <1>5, <3>1, WriteEnds DEF removeFrom, Typed
    <2>4. f \notin disturbed' \cup mangled' => Cleared(f)'
      BY <2>1, <2>2, RemovedIsCleared DEF Typed, TypeOK
    <2>5. \A g \in Files \ {f} : Cleared(g) => Cleared(g)'
      BY <2>1, <2>3 DEF Cleared
    <2> QED
      BY <2>1, <2>3, <2>4, <2>5, PlanScope DEF RemoveInv, Known
  <1>6. ASSUME NEW project \in {{}} \cup Projects, uninstall(project) PROVE RemoveInv'
    <2>1. UserFiles \cup Known \subseteq todo' /\ integrity' = integrity
      BY <1>6 DEF uninstall
    <2> QED
      BY <2>1 DEF RemoveInv, Known
  <1>7. \/ \E f \in Files : \/ \E d \in Configs : Edit(f, d)
                            \/ mangle(f) \/ mend(f) \/ migrateRecord(f) \/ removeFrom(f)
        \/ UNCHANGED vars \/ \E project \in {{}} \cup Projects : uninstall(project)
    <2>1. ASSUME NEW f \in Files, writeConfig(f) \/ recordIntegrity(f) \/ restoreFile(f) PROVE FALSE
      BY <2>1 DEF writeConfig, recordIntegrity, restoreFile, Done
    <2>2. ~\/ saveBackups \/ noteContainers \/ clearIntegrity \/ Die \/ moveInstall
           \/ \E S \in {UserFiles} \cup Projects : planInit(S)
           \/ \E i \in 1..Len(backups) : restoreConfigs(i)
      BY DEF saveBackups, noteContainers, clearIntegrity, Die, moveInstall, planInit, restoreConfigs
    <2> QED
      BY <2>1, <2>2, NextSplits DEF Typed
  <1> QED
    BY <1>2, <1>3, <1>4, <1>5, <1>6, <1>7

LEMMA RemoveAlways == Spec => [](Typed /\ ContainerInv /\ RemoveInv)
  BY InitTypes, NextTypes, InitContainer, NextContainer, NextRemove, PTL DEF Spec

\* uninstall leaves no hook of usewarden's and no empty container but the user's
\* or a dead init's, for any files it knows of (README.md:310).
THEOREM UninstallClears == Spec => UninstallLeavesNothing
  <1>1. ASSUME Typed, ContainerInv, RemoveInv, step = "remove", todo = {},
               NEW f \in (UserFiles \cup Known) \ (mangled \cup disturbed)
        PROVE  /\ \A e \in Events : ~\E g \in config[f].groups[e] : RunsUsewarden(g)
               /\ config[f].container /\ foreignGroups(config[f]) = NoGroups => f \in theirs \cup torn
    <2>1. f \in Files /\ Cleared(f)
      BY <1>1, PlanScope DEF RemoveInv, Known
    <2>2. \A e \in Events : {g \in config[f].groups[e] : isUsewardenEntry(g)} = {}
      BY <2>1 DEF Cleared, ownGroups, NoGroups
    <2>3. \A e \in Events : ~\E g \in config[f].groups[e] : RunsUsewarden(g)
      BY <2>2 DEF RunsUsewarden, isUsewardenEntry
    <2>4. config[f].container => Accounted(f)
      BY <1>1, <2>1 DEF ContainerInv, Unnoted
    <2> QED
      BY <2>1, <2>3, <2>4 DEF Cleared, Accounted
  <1>2. Typed /\ ContainerInv /\ RemoveInv =>
          [step = "remove" /\ step' = "idle" /\ todo = {} /\ integrity' # integrity =>
             \A f \in (UserFiles \cup Known) \ (mangled \cup disturbed) :
               /\ \A e \in Events : ~\E g \in config[f].groups[e] : RunsUsewarden(g)
               /\ config[f].container /\ foreignGroups(config[f]) = NoGroups => f \in theirs \cup torn]_vars
    BY <1>1
  <1> QED
    BY <1>2, RemoveAlways, PTL DEF Spec, UninstallLeavesNothing
=============================================================================
