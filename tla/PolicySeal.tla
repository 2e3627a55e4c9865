------------------------------ MODULE PolicySeal ------------------------------
(***************************************************************************)
(* The seal of policy/drift.ts: a copy of the machine-wide policy and a    *)
(* file beside it that holds its hash, written one after the other by      *)
(* usewarden init, by usewarden reseal, and by whatever shows the status   *)
(* and finds no seal it can read.  Each file is truncated and written in   *)
(* place.  A status replays probes against the sealed policy and the one   *)
(* in force, and says whether anything that was refused no longer is.  The *)
(* policy is edited by anyone at any moment; a hash is modelled by the     *)
(* bytes it was taken of.                                                  *)
(***************************************************************************)
EXTENDS Layer1

CONSTANTS
  Procs,          \* the usewarden processes that run at a time
  GlobalDocs,     \* what the machine-wide policy file may hold
  Probe,          \* the file that each forbidden entry is tried on, or None
  Outside,        \* a path that no policy allows
  ForcePush,      \* the statement that force-pushes to each branch
  Battery,        \* the canonical dangerous commands
  Corpus,         \* the recorded calls that were blocked
  Half,           \* a copy that was opened for writing and is not written yet
  MaxEdits,       \* bound on the edits of the policy
  MaxStarts       \* bound on the commands run

ASSUME SealAssumption == \A doc \in GlobalDocs : DocOK(doc)
ASSUME HalfAssumption == Half \notin GlobalDocs \cup {None}

VARIABLES
  global,         \* the machine-wide policy file
  copy, meta,     \* the two files of the seal
  proc,           \* what each process is doing, and what it has read and still needs
  said,           \* the last report
  edits, starts,
  baseline,       \* the policy that a person sealed last
  disturbed       \* whether processes overlapped since, or a seal was left half written

vars == << global, copy, meta, proc, said, edits, starts, baseline, disturbed >>

Idle == [pc |-> "idle", reseals |-> FALSE, why |-> None, meta |-> None, bytes |-> None,
         alone |-> FALSE]
Humans == {"init", "reseal"}

Init ==
  /\ global \in GlobalDocs
  /\ copy = None /\ meta = None
  /\ proc = [p \in Procs |-> Idle]
  /\ said = [verdict |-> None, now |-> None, base |-> None]
  /\ edits = 0 /\ starts = 0 /\ baseline = None /\ disturbed = FALSE

busy(p) == proc[p].pc # "idle"
others(p) == \E q \in Procs \ {p} : busy(q)
At(p, pc) == proc[p].pc = pc
Goto(p, pc) == proc' = [proc EXCEPT ![p].pc = pc]

-----------------------------------------------------------------------------
(* The comparison *)

Call(tool, path, command, branch) ==
  [tool |-> tool, path |-> path, command |-> command, branch |-> branch, authored |-> FALSE]

\* Mutation: probes only for what both policies forbid.
probesForBoth(policies) ==
  {Call(t, Probe[f], << >>, None) :
     t \in {"read", "write"}, f \in {g \in Entries : \A p \in policies : g \in p.forbidden /\ Probe[g] # None}}

\* One probe for each thing that either policy protects, and the fixed battery.
probesFor(policies) ==
  {Call(t, Probe[f], << >>, None) :
     t \in {"read", "write"}, f \in {g \in UNION {p.forbidden : p \in policies} : Probe[g] # None}}
  \cup {Call("write", Outside, << >>, None)}
  \cup {Call("bash", None, << ForcePush[b] >>, b) : b \in UNION {p.branches : p \in policies}}
  \cup {Call("bash", None, << st >>, None) : st \in Battery}

blocks(e, p) == evaluateLayer1Raw(e, p, TRUE).decision = "deny"
isAbsolute(e, p) == evaluateLayer1Raw(e, p, TRUE).rule.section # "scope.allowed_paths"

lostProbes(old, new) == {e \in probesFor({old, new}) : blocks(e, old) /\ ~ blocks(e, new)}
downgradedProbes(old, new) ==
  {e \in probesFor({old, new}) : /\ blocks(e, old) /\ blocks(e, new)
                                 /\ isAbsolute(e, old) /\ ~ isAbsolute(e, new)}
lostCatches(old, new) == {e \in Corpus : blocks(e, old) /\ ~ blocks(e, new)}

isWeaker(old, new) ==
  lostProbes(old, new) \cup downgradedProbes(old, new) \cup lostCatches(old, new) # {}

-----------------------------------------------------------------------------
(* A process: init seals and shows the status, reseal shows the status and     *)
(* seals, status only shows it, and each may seal what it finds first.         *)

Start(p, kind) ==
  /\ ~ busy(p) /\ starts < MaxStarts
  /\ starts' = starts + 1
  /\ proc' = [q \in Procs |->
       IF q = p THEN [Idle EXCEPT !.pc = IF kind = "init" THEN "source" ELSE "look",
                                  !.why = IF kind = "init" THEN "init" ELSE None,
                                  !.reseals = (kind = "reseal"), !.alone = ~ others(p)]
       ELSE [proc[q] EXCEPT !.alone = FALSE]]
  /\ disturbed' = (disturbed \/ others(p))
  /\ UNCHANGED << global, copy, meta, said, edits, baseline >>

\* A process that has sealed: init goes on to the status, a status to the comparison.
AfterSeal(p) ==
  CASE proc[p].why = "first-observed" -> [proc[p] EXCEPT !.pc = "compare", !.why = None, !.bytes = None]
    [] proc[p].why = "init"           -> [proc[p] EXCEPT !.pc = "look", !.why = None, !.bytes = None]
    [] OTHER                          -> Idle

\* sealPolicy: read the source, write the copy, write the metadata.
readSource(p) ==
  /\ At(p, "source")
  /\ proc' = [proc EXCEPT ![p] = IF global = Absent THEN AfterSeal(p)
                                 ELSE [@ EXCEPT !.bytes = global, !.pc = "copy"]]
  /\ UNCHANGED << global, copy, meta, said, edits, starts, baseline, disturbed >>

\* Its writes have begun and are not all done.
Midway(p) == proc[p].pc \in {"copying", "meta", "sealing"}

openCopy(p) ==
  /\ At(p, "copy")
  /\ copy' = Half
  /\ Goto(p, "copying")
  /\ UNCHANGED << global, meta, said, edits, starts, baseline, disturbed >>

writeCopy(p) ==
  /\ At(p, "copying")
  /\ copy' = proc[p].bytes
  /\ Goto(p, "meta")
  /\ UNCHANGED << global, meta, said, edits, starts, baseline, disturbed >>

\* Metadata cut short does not parse, and is none.
openMeta(p) ==
  /\ At(p, "meta")
  /\ meta' = None
  /\ Goto(p, "sealing")
  /\ UNCHANGED << global, copy, said, edits, starts, baseline, disturbed >>

writeMeta(p) ==
  /\ At(p, "sealing")
  /\ meta' = proc[p].bytes
  /\ proc' = [proc EXCEPT ![p] = AfterSeal(p)]
  /\ IF proc[p].why \in Humans
     THEN /\ baseline' = proc[p].bytes
          /\ disturbed' = (disturbed /\ ~ proc[p].alone)
     ELSE UNCHANGED << baseline, disturbed >>
  /\ UNCHANGED << global, copy, said, edits, starts >>

\* readSeal, the first time: nothing that verifies is no seal, and gets one.
readMeta(p) ==
  /\ \/ At(p, "look") /\ proc' = [proc EXCEPT ![p] = [@ EXCEPT !.meta = meta, !.pc = "verify"]]
     \/ At(p, "compare") /\ proc' = [proc EXCEPT ![p] = [@ EXCEPT !.meta = meta, !.pc = "reverify"]]
  /\ UNCHANGED << global, copy, meta, said, edits, starts, baseline, disturbed >>

\* Mutation: a seal verifies when the policy in force is still the one sealed.
verifiesPolicy(p) == proc[p].meta # None /\ copy = global

\* The hash in the metadata is that of the copy.
verifies(p) == proc[p].meta # None /\ copy = proc[p].meta

firstLook(p) ==
  /\ At(p, "verify")
  /\ proc' = IF verifies(p) THEN [proc EXCEPT ![p] = [@ EXCEPT !.meta = None, !.pc = "compare"]]
             ELSE [proc EXCEPT ![p] = [@ EXCEPT !.meta = None, !.pc = "source", !.why = "first-observed"]]
  /\ UNCHANGED << global, copy, meta, said, edits, starts, baseline, disturbed >>

\* What is said ends a status; a reseal goes on to seal.
Tell(p, verdict, doc) ==
  /\ said' = [verdict |-> verdict, now |-> doc, base |-> IF disturbed THEN None ELSE baseline]
  /\ proc' = IF proc[p].reseals
             THEN [proc EXCEPT ![p] = [Idle EXCEPT !.pc = "source", !.why = "reseal", !.alone = proc[p].alone]]
             ELSE [proc EXCEPT ![p] = Idle]
  /\ UNCHANGED << global, copy, meta, edits, starts, baseline >>

Say(p, verdict, doc) == Tell(p, verdict, doc) /\ UNCHANGED disturbed

\* A seal of what was found that throws on the way: driftFor says so.
sealFails(p) ==
  /\ At(p, "copy") \/ Midway(p)
  /\ proc[p].why = "first-observed"
  /\ disturbed' = (disturbed \/ Midway(p))
  /\ Tell(p, "unverified", None)

\* compareToSeal: read the seal again, parse its copy, ...
readSeal(p) ==
  /\ At(p, "reverify")
  /\ IF verifies(p)
     THEN /\ proc' = [proc EXCEPT ![p] = [@ EXCEPT !.meta = None, !.pc = "parse"]]
          /\ UNCHANGED << global, copy, meta, said, edits, starts, baseline, disturbed >>
     ELSE Say(p, "unverified", None)

\* What is read where the copy is: of half a copy, any policy or none.
ReadAs(bytes) == IF bytes = Half THEN GlobalDocs ELSE {bytes}

parseCopy(p) ==
  /\ At(p, "parse")
  /\ \E doc \in ReadAs(copy) :
       IF doc # None /\ parseFile(doc, Defaults) # Malformed
       THEN /\ proc' = [proc EXCEPT ![p] = [@ EXCEPT !.bytes = doc, !.pc = "current"]]
            /\ UNCHANGED << global, copy, meta, said, edits, starts, baseline, disturbed >>
       ELSE Say(p, "unverified", None)

\* ... parse the policy in force, and run the probes under both.
compareToSeal(p) ==
  /\ At(p, "current")
  /\ LET old == parseFile(proc[p].bytes, Defaults)
         new == parseFile(global, Defaults)
     IN IF global = Absent \/ new = Malformed THEN Say(p, "unverified", global)
        ELSE Say(p, IF isWeaker(old, new) THEN "weaker" ELSE "nothing-lost", global)

\* A process is killed, or a write of init's or reseal's throws: nothing catches it.
Die(p) ==
  /\ busy(p)
  /\ proc' = [proc EXCEPT ![p] = Idle]
  /\ disturbed' = (disturbed \/ Midway(p))
  /\ UNCHANGED << global, copy, meta, said, edits, starts, baseline >>

EditPolicy ==
  /\ edits < MaxEdits
  /\ global' \in GlobalDocs \ {global}
  /\ edits' = edits + 1
  /\ UNCHANGED << copy, meta, proc, said, starts, baseline, disturbed >>

Next ==
  \/ \E p \in Procs :
       \/ \E kind \in Humans \cup {"status"} : Start(p, kind)
       \/ readSource(p) \/ openCopy(p) \/ writeCopy(p) \/ openMeta(p) \/ writeMeta(p) \/ sealFails(p)
       \/ readMeta(p) \/ firstLook(p) \/ readSeal(p) \/ parseCopy(p) \/ compareToSeal(p)
       \/ Die(p)
  \/ EditPolicy

Spec == Init /\ [][Next]_vars

-----------------------------------------------------------------------------
(* Properties *)

Docs == GlobalDocs \cup {None}
Reasons == Humans \cup {"first-observed", None}
Steps == {"idle", "source", "copy", "copying", "meta", "sealing", "look", "verify", "compare", "reverify",
          "parse", "current"}
Processes == [pc : Steps, reseals : BOOLEAN, why : Reasons,
              meta : Docs, bytes : Docs, alone : BOOLEAN]

TypeOK ==
  /\ global \in GlobalDocs /\ copy \in Docs \cup {Half} /\ meta \in Docs /\ baseline \in Docs
  /\ proc \in [Procs -> Processes] /\ disturbed \in BOOLEAN
  /\ \A p \in Procs : At(p, "source") \/ At(p, "copy") \/ Midway(p) =>
       proc[p].why \in Humans \cup {"first-observed"}

Sealing(p) == (At(p, "copy") \/ Midway(p)) /\ proc[p].why \in Humans

\* What a person sealed stays the baseline until a person seals again: a status
\* that looks for a seal replaces none.  The exceptions, in which the baseline may
\* be lost to one first observed: processes that overlapped, and a write of the two
\* files that was killed or failed before it came to its end (drift.ts:143-145,
\* status.ts:343-363).
BaselineStays ==
  ~ disturbed /\ baseline # None /\ (\A p \in Procs : ~ Sealing(p))
    => copy = baseline /\ meta = baseline

\* The file an entry is tried on is in the entry, and its name is unlikely enough that an
\* entry which takes it in takes in all of the first (drift.ts:184-203).
ProbesStandForEntries ==
  \A f, g \in Entries : Probe[f] # None =>
    /\ Probe[f] \in Covers[f]
    /\ Probe[f] \in Covers[g] => Covers[f] \subseteq Covers[g]

\* A status that says nothing was lost is right about what the person who
\* sealed had forbidden: no tool reaches any of it, from anywhere
\* (drift.ts:1-13, :83-86).  It speaks of the entries that have a probe, and not of
\* a baseline that was disturbed, as above.
LossIsReported ==
  said.verdict = "nothing-lost" /\ said.base # None =>
    LET old == parseFile(said.base, Defaults)
        new == parseFile(said.now, Defaults)
    IN \A f \in old.forbidden : Probe[f] # None =>
         \A path \in Covers[f] : Forbids(Call("read", path, << >>, None), new) # {}
=============================================================================
