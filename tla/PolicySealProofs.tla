--------------------------- MODULE PolicySealProofs ---------------------------
(***************************************************************************)
(* Theorems about PolicySeal, for any number of processes, any policy      *)
(* files and any probes.                                                   *)
(***************************************************************************)
EXTENDS PolicySeal, TLAPS

Writing == {"source", "copy", "copying", "meta", "sealing"}

\* A process nobody has run beside since it started is the only one, and has
\* not been written over once it wrote the copy.
AloneInv ==
  \A p \in Procs : busy(p) /\ proc[p].alone =>
    /\ \A q \in Procs : busy(q) => q = p
    /\ At(p, "meta") \/ At(p, "sealing") => copy = proc[p].bytes

\* With a seal of a person's and nothing in its way, both files are that
\* seal's but in the middle of the two writes, what was read of them is what is there,
\* and nobody is about to write who is not a person.
SealInv ==
  ~ disturbed =>
    /\ \A p \in Procs : busy(p) => proc[p].alone
    /\ baseline # None =>
         /\ (\A p \in Procs : ~ Midway(p)) => copy = baseline /\ meta = baseline
         /\ \A p \in Procs : At(p, "verify") => proc[p].meta = meta
         /\ \A p \in Procs : proc[p].pc \in Writing => proc[p].why \in Humans

IInv == TypeOK /\ AloneInv /\ SealInv

\* At the start there is no seal and no process.
LEMMA InitSeal == Init => IInv
  <1> SUFFICES ASSUME Init PROVE IInv
    OBVIOUS
  <1> USE DEF Init, Idle, busy, At, Midway
  <1>1. TypeOK
    BY DEF TypeOK, Docs, Reasons, Steps, Processes, Humans
  <1>2. AloneInv /\ SealInv
    BY DEF AloneInv, SealInv
  <1> QED
    BY <1>1, <1>2 DEF IInv

\* What a process has at hand.
LEMMA AtHand ==
  ASSUME IInv, NEW p \in Procs
  PROVE  proc[p] \in Processes /\ global \in Docs /\ copy \in Docs \cup {Half} /\ meta \in Docs
  BY DEF IInv, TypeOK, Docs

\* A process that becomes r.
LEMMA Become ==
  ASSUME TypeOK, NEW p \in Procs, NEW r \in Processes, proc' = [proc EXCEPT ![p] = r]
  PROVE  /\ proc' \in [Procs -> Processes] /\ proc'[p] = r
         /\ \A q \in Procs : q # p => proc'[q] = proc[q]
  BY DEF TypeOK

\* What a process may not do to the invariant by itself: a step of one that
\* writes neither file and starts nothing.
LEMMA QuietStep ==
  ASSUME IInv, TypeOK', NEW p \in Procs, busy(p),
         \A q \in Procs : q # p => proc'[q] = proc[q],
         ~ Midway(p)',
         proc'[p].alone = proc[p].alone \/ proc'[p].pc = "idle",
         UNCHANGED << copy, meta, baseline >>, disturbed => disturbed',
         ~ disturbed' => ~ Midway(p),
         ~ disturbed' /\ baseline # None =>
           /\ proc'[p].pc = "verify" => proc'[p].meta = meta
           /\ proc'[p].pc \in Writing => proc'[p].why \in Humans
  PROVE  IInv'
  <1> USE DEF busy, At, Midway
  <1>1. \A q \in Procs : busy(q)' => busy(q)
    OBVIOUS
  <1>2. AloneInv'
    BY <1>1 DEF IInv, AloneInv
  <1>3. SealInv'
    BY <1>1 DEF IInv, SealInv
  <1> QED
    BY <1>2, <1>3 DEF IInv

\* A process starts: alone if nobody runs, and from then on nobody else is.
LEMMA StartSeal ==
  ASSUME IInv, NEW p \in Procs, NEW kind \in Humans \cup {"status"}, Start(p, kind)
  PROVE  IInv'
  <1> USE DEF busy, At, Midway
  <1> DEFINE new == [Idle EXCEPT !.pc = IF kind = "init" THEN "source" ELSE "look",
                                 !.why = IF kind = "init" THEN "init" ELSE None,
                                 !.reseals = (kind = "reseal"), !.alone = ~ others(p)]
  <1>1. /\ new \in Processes /\ new.pc \in {"source", "look"}
        /\ new.pc = "source" => new.why \in Humans
        /\ new.alone = ~ others(p)
    BY DEF Idle, Processes, Steps, Humans, Reasons, Docs
  <1>2. \A q \in Procs : [proc[q] EXCEPT !.alone = FALSE] \in Processes
    BY DEF IInv, TypeOK, Processes
  <1>3. proc' = [q \in Procs |-> IF q = p THEN new ELSE [proc[q] EXCEPT !.alone = FALSE]]
    BY DEF Start
  <1> HIDE DEF new
  <1>4. proc'[p] = new /\ proc' \in [Procs -> Processes]
    BY <1>1, <1>2, <1>3
  <1>5. \A q \in Procs : q # p => /\ proc'[q].pc = proc[q].pc /\ proc'[q].why = proc[q].why
                                 /\ ~ proc'[q].alone
    BY <1>3 DEF IInv, TypeOK, Processes
  <1>6. TypeOK'
    BY <1>1, <1>4, <1>5 DEF IInv, TypeOK, Start
  <1>7. AloneInv'
    BY <1>1, <1>4, <1>5 DEF AloneInv, others
  <1>8. ASSUME ~ disturbed' PROVE SealInv'
    <2>1. ~ disturbed /\ ~ others(p) /\ proc[p].pc = "idle"
      BY <1>8 DEF Start
    <2>2. \A q \in Procs : proc[q].pc = "idle"
      BY <2>1 DEF others
    <2>3. UNCHANGED << copy, meta, baseline >>
      BY DEF Start
    <2> QED
      BY <1>1, <1>4, <1>5, <2>1, <2>2, <2>3 DEF IInv, SealInv, Writing
  <1> QED
    BY <1>6, <1>7, <1>8 DEF IInv, SealInv

\* A file of the seal is opened, or the copy is written: what the copy then holds is
\* what this process has read.
LEMMA CopySeal ==
  ASSUME IInv, NEW p \in Procs, openCopy(p) \/ writeCopy(p) \/ openMeta(p)
  PROVE  IInv'
  <1> USE DEF busy, At, Midway
  <1> DEFINE next == CASE openCopy(p) -> "copying" [] writeCopy(p) -> "meta" [] OTHER -> "sealing"
             r == [proc[p] EXCEPT !.pc = next]
  <1>1. /\ proc[p].pc \in {"copy", "copying", "meta"} /\ next \in {"copying", "meta", "sealing"}
        /\ proc' = [proc EXCEPT ![p] = r]
        /\ UNCHANGED << global, baseline, disturbed >>
    BY DEF openCopy, writeCopy, openMeta, Goto
  <1>files. /\ copy' \in {copy, proc[p].bytes, Half} /\ meta' \in {meta, None}
            /\ next = "meta" => copy' = proc[p].bytes
            /\ next = "sealing" => proc[p].pc = "meta" /\ copy' = copy
    BY DEF openCopy, writeCopy, openMeta
  <1> HIDE DEF next
  <1>typed. /\ proc[p].bytes \in Docs /\ r \in Processes /\ r.pc = next
            /\ r.why = proc[p].why /\ r.bytes = proc[p].bytes /\ r.alone = proc[p].alone
    BY <1>1, AtHand DEF Processes, Steps
  <1> HIDE DEF r
  <1>2. proc' \in [Procs -> Processes]
    BY <1>1, <1>typed, Become DEF IInv
  <1>3. /\ proc'[p].pc = next /\ proc'[p].why = proc[p].why
        /\ proc'[p].bytes = proc[p].bytes /\ proc'[p].alone = proc[p].alone
        /\ \A q \in Procs : q # p => proc'[q] = proc[q]
    BY <1>1, <1>typed, Become DEF IInv
  <1>4. TypeOK'
    <2>1. copy' \in Docs \cup {Half} /\ meta' \in Docs
      BY <1>files, <1>typed, AtHand DEF Docs
    <2> QED
      BY <1>1, <1>2, <1>3, <2>1 DEF IInv, TypeOK
  <1>5. AloneInv'
    BY <1>1, <1>3, <1>files DEF IInv, AloneInv
  <1>6. SealInv'
    <2> SUFFICES ASSUME ~ disturbed PROVE SealInv'
      BY <1>1 DEF SealInv
    <2>1. \A q \in Procs : q # p => proc[q].pc = "idle"
      BY <1>1 DEF IInv, SealInv, AloneInv
    <2> QED
      BY <1>1, <1>3, <2>1 DEF IInv, SealInv, Writing
  <1> QED
    BY <1>4, <1>5, <1>6 DEF IInv

\* What a process becomes that has sealed.
LEMMA AfterFacts ==
  ASSUME IInv, NEW p \in Procs
  PROVE  /\ AfterSeal(p) \in Processes /\ AfterSeal(p).pc \in {"compare", "look", "idle"}
         /\ AfterSeal(p).alone = proc[p].alone \/ AfterSeal(p).pc = "idle"
  BY AtHand DEF AfterSeal, Idle, Processes, Steps, Docs, Reasons, Humans

\* The metadata is written.  If a person is behind it and nobody was beside it, the
\* two files now hold what that person sealed.
LEMMA MetaSeal ==
  ASSUME IInv, NEW p \in Procs, writeMeta(p)
  PROVE  IInv'
  <1> USE DEF busy, At, Midway
  <1> DEFINE r == AfterSeal(p)
  <1>1. /\ proc[p].pc = "sealing" /\ meta' = proc[p].bytes
        /\ proc' = [proc EXCEPT ![p] = r]
        /\ UNCHANGED << global, copy >>
    BY DEF writeMeta
  <1>2. r \in Processes /\ r.pc \in {"compare", "look", "idle"} /\ (r.alone = proc[p].alone \/ r.pc = "idle")
    BY AfterFacts
  <1> HIDE DEF r
  <1>3. proc' \in [Procs -> Processes] /\ proc'[p] = r
    BY <1>1, <1>2, Become DEF IInv
  <1>4. \A q \in Procs : q # p => proc'[q] = proc[q]
    BY <1>1, <1>2, Become DEF IInv
  <1>5. proc[p].bytes \in Docs /\ proc[p].why \in Reasons
    BY <1>1 DEF IInv, TypeOK, Processes, Reasons
  <1>6. baseline' \in Docs /\ disturbed' \in BOOLEAN
    BY <1>5 DEF writeMeta, IInv, TypeOK
  <1>7. TypeOK'
    BY <1>1, <1>2, <1>3, <1>4, <1>5, <1>6 DEF IInv, TypeOK
  <1>8. AloneInv'
    BY <1>1, <1>2, <1>3, <1>4 DEF IInv, AloneInv
  <1>9. ASSUME ~ disturbed' PROVE SealInv'
    <2>1. proc[p].alone
      BY <1>1, <1>9 DEF writeMeta, IInv, SealInv
    <2>2. \A q \in Procs : q # p => proc'[q].pc = "idle"
      BY <2>1, <1>1, <1>4 DEF IInv, AloneInv
    <2>3. copy = proc[p].bytes
      BY <2>1, <1>1 DEF IInv, AloneInv
    <2>4. baseline' # None => baseline' = proc[p].bytes
      <3>1. CASE proc[p].why \in Humans
        BY <3>1 DEF writeMeta
      <3>2. CASE proc[p].why \notin Humans
        BY <3>2, <1>1, <1>9 DEF writeMeta, IInv, SealInv, Writing
      <3> QED
        BY <3>1, <3>2
    <2> QED
      BY <1>1, <1>2, <1>3, <1>4, <2>1, <2>2, <2>3, <2>4 DEF SealInv, Writing
  <1> QED
    BY <1>7, <1>8, <1>9 DEF IInv, SealInv

\* What a process says changes no file.
LEMMA TellSeal ==
  ASSUME IInv, NEW p \in Procs, busy(p), NEW verdict, NEW doc, Tell(p, verdict, doc),
         disturbed' \in BOOLEAN, disturbed => disturbed', ~ disturbed' => ~ Midway(p)
  PROVE  IInv'
  <1>1. UNCHANGED << global, copy, meta, baseline >>
    BY DEF Tell
  <1>2. CASE proc[p].reseals
    <2> DEFINE r == [Idle EXCEPT !.pc = "source", !.why = "reseal", !.alone = proc[p].alone]
    <2>1. proc' = [proc EXCEPT ![p] = r]
      BY <1>2 DEF Tell
    <2>typed. r \in Processes /\ r.pc = "source" /\ r.why = "reseal" /\ r.alone = proc[p].alone
      BY AtHand DEF Idle, Processes, Steps, Reasons, Humans, Docs
    <2> HIDE DEF r
    <2>2. proc' \in [Procs -> Processes]
      BY <2>1, <2>typed, Become DEF IInv
    <2>3. /\ proc'[p].pc = "source" /\ proc'[p].why = "reseal" /\ proc'[p].alone = proc[p].alone
          /\ \A q \in Procs : q # p => proc'[q] = proc[q]
      BY <2>1, <2>typed, Become DEF IInv
    <2>4. TypeOK'
      BY <1>1, <2>2, <2>3 DEF IInv, TypeOK, Humans, At, Midway
    <2> QED
      BY <1>1, <2>3, <2>4, QuietStep DEF Humans, Midway
  <1>3. CASE ~ proc[p].reseals
    <2>1. proc' = [proc EXCEPT ![p] = Idle]
      BY <1>3 DEF Tell
    <2>2. proc'[p].pc = "idle" /\ \A q \in Procs : q # p => proc'[q] = proc[q]
      BY <2>1 DEF IInv, TypeOK, Idle
    <2>3. TypeOK'
      BY <1>1, <2>1, <2>2 DEF IInv, TypeOK, Idle, Processes, Steps, Reasons, Docs, Humans, At, Midway
    <2> QED
      BY <1>1, <2>2, <2>3, QuietStep DEF Writing, Midway
  <1> QED
    BY <1>2, <1>3

LEMMA SaySeal ==
  ASSUME IInv, NEW p \in Procs, proc[p].pc \in {"reverify", "parse", "current"},
         NEW verdict, NEW doc, Say(p, verdict, doc)
  PROVE  IInv'
  <1>1. Tell(p, verdict, doc) /\ disturbed' = disturbed /\ disturbed \in BOOLEAN
    BY DEF Say, IInv, TypeOK
  <1>2. busy(p) /\ ~ Midway(p)
    BY DEF busy, Midway
  <1> QED
    BY <1>1, <1>2, TellSeal

\* Every other step of a process reads, or fails, or dies.
LEMMA ProcessSeal ==
  ASSUME IInv, NEW p \in Procs,
         \/ readSource(p) \/ readMeta(p) \/ firstLook(p) \/ readSeal(p) \/ parseCopy(p)
         \/ compareToSeal(p) \/ sealFails(p) \/ Die(p)
  PROVE  IInv'
  <1> USE DEF busy, At, Midway
  <1>1. CASE readSource(p)
    <2> DEFINE r == IF global = Absent THEN AfterSeal(p)
                    ELSE [proc[p] EXCEPT !.bytes = global, !.pc = "copy"]
    <2>1. /\ proc' = [proc EXCEPT ![p] = r] /\ proc[p].pc = "source"
          /\ UNCHANGED << global, copy, meta, baseline, disturbed >>
      BY <1>1 DEF readSource
    <2>2. /\ r \in Processes /\ r.pc \in {"compare", "look", "idle", "copy"}
          /\ r.alone = proc[p].alone \/ r.pc = "idle"
          /\ r.pc = "copy" => r.why = proc[p].why
      BY AfterFacts, AtHand DEF Processes, Steps
    <2> HIDE DEF r
    <2>3. proc' \in [Procs -> Processes] /\ proc'[p] = r
      BY <2>1, <2>2, Become DEF IInv
    <2>4. \A q \in Procs : q # p => proc'[q] = proc[q]
      BY <2>1, <2>2, Become DEF IInv
    <2>5. TypeOK'
      BY <2>1, <2>2, <2>3, <2>4 DEF IInv, TypeOK
    <2>6. ~ disturbed /\ baseline # None => proc[p].why \in Humans
      BY <2>1 DEF IInv, SealInv, Writing
    <2> QED
      BY <2>1, <2>2, <2>3, <2>4, <2>5, <2>6, QuietStep DEF Writing
  <1>2. CASE readMeta(p)
    <2> DEFINE next == IF proc[p].pc = "look" THEN "verify" ELSE "reverify"
               r == [proc[p] EXCEPT !.meta = meta, !.pc = next]
    <2>1. /\ proc' = [proc EXCEPT ![p] = r] /\ proc[p].pc \in {"look", "compare"}
          /\ UNCHANGED << global, copy, meta, baseline, disturbed >>
      BY <1>2 DEF readMeta
    <2>2. next \in {"verify", "reverify"}
      OBVIOUS
    <2>typed. r \in Processes /\ r.pc = next /\ r.meta = meta /\ r.alone = proc[p].alone
      BY <2>2, AtHand DEF Processes, Steps
    <2> HIDE DEF next, r
    <2>3. proc' \in [Procs -> Processes]
      BY <2>1, <2>typed, Become DEF IInv
    <2>4. /\ proc'[p].pc = next /\ proc'[p].meta = meta /\ proc'[p].alone = proc[p].alone
          /\ \A q \in Procs : q # p => proc'[q] = proc[q]
      BY <2>1, <2>typed, Become DEF IInv
    <2>5. TypeOK'
      BY <2>1, <2>2, <2>3, <2>4 DEF IInv, TypeOK
    <2> QED
      BY <2>1, <2>2, <2>4, <2>5, QuietStep DEF Writing
  <1>3. CASE firstLook(p)
    <2>1. proc[p].pc = "verify" /\ UNCHANGED << global, copy, meta, baseline, disturbed >>
      BY <1>3 DEF firstLook
    <2>2. ~ disturbed /\ baseline # None => verifies(p)
      <3> SUFFICES ASSUME ~ disturbed, baseline # None PROVE verifies(p)
        OBVIOUS
      <3>1. \A q \in Procs : busy(q) => q = p
        BY <2>1 DEF IInv, SealInv, AloneInv
      <3>2. copy = baseline /\ meta = baseline /\ proc[p].meta = meta
        BY <3>1, <2>1 DEF IInv, SealInv
      <3> QED
        BY <3>2 DEF verifies
    <2>3. CASE verifies(p)
      <3> DEFINE r == [proc[p] EXCEPT !.meta = None, !.pc = "compare"]
      <3>1. proc' = [proc EXCEPT ![p] = r]
        BY <1>3, <2>3 DEF firstLook
      <3>typed. r \in Processes /\ r.pc = "compare" /\ r.alone = proc[p].alone
        BY AtHand DEF Processes, Steps, Docs
      <3> HIDE DEF r
      <3>2. /\ proc' \in [Procs -> Processes]
            /\ proc'[p].pc = "compare" /\ proc'[p].alone = proc[p].alone
            /\ \A q \in Procs : q # p => proc'[q] = proc[q]
        BY <3>1, <3>typed, Become DEF IInv
      <3>3. TypeOK'
        BY <2>1, <3>2 DEF IInv, TypeOK
      <3> QED
        BY <2>1, <3>2, <3>3, QuietStep DEF Writing
    <2>4. CASE ~ verifies(p)
      <3> DEFINE r == [proc[p] EXCEPT !.meta = None, !.pc = "source", !.why = "first-observed"]
      <3>1. proc' = [proc EXCEPT ![p] = r]
        BY <1>3, <2>4 DEF firstLook
      <3>typed. r \in Processes /\ r.pc = "source" /\ r.why = "first-observed" /\ r.alone = proc[p].alone
        BY AtHand DEF Processes, Steps, Reasons, Docs
      <3> HIDE DEF r
      <3>2. /\ proc'[p].pc = "source" /\ proc'[p].why = "first-observed"
            /\ proc'[p].alone = proc[p].alone /\ \A q \in Procs : q # p => proc'[q] = proc[q]
        BY <3>1, <3>typed, Become DEF IInv
      <3>3. proc' \in [Procs -> Processes]
        BY <3>1, <3>typed, Become DEF IInv
      <3>4. TypeOK'
        BY <2>1, <3>2, <3>3 DEF IInv, TypeOK
      <3> QED
        BY <2>1, <2>2, <2>4, <3>2, <3>4, QuietStep
    <2> QED
      BY <2>3, <2>4
  <1>4. CASE readSeal(p)
    <2>1. proc[p].pc = "reverify"
      BY <1>4 DEF readSeal
    <2>2. CASE verifies(p)
      <3> DEFINE r == [proc[p] EXCEPT !.meta = None, !.pc = "parse"]
      <3>1. /\ proc' = [proc EXCEPT ![p] = r]
            /\ UNCHANGED << global, copy, meta, baseline, disturbed >>
        BY <1>4, <2>2 DEF readSeal
      <3>typed. r \in Processes /\ r.pc = "parse" /\ r.alone = proc[p].alone
        BY AtHand DEF Processes, Steps, Docs
      <3> HIDE DEF r
      <3>2. /\ proc' \in [Procs -> Processes]
            /\ proc'[p].pc = "parse" /\ proc'[p].alone = proc[p].alone
            /\ \A q \in Procs : q # p => proc'[q] = proc[q]
        BY <3>1, <3>typed, Become DEF IInv
      <3>3. TypeOK'
        BY <3>1, <3>2 DEF IInv, TypeOK
      <3> QED
        BY <2>1, <3>1, <3>2, <3>3, QuietStep DEF Writing
    <2>3. CASE ~ verifies(p)
      BY <1>4, <2>1, <2>3, SaySeal DEF readSeal
    <2> QED
      BY <2>2, <2>3
  <1>5. CASE parseCopy(p)
    <2>1. proc[p].pc = "parse"
      BY <1>5 DEF parseCopy
    <2>2. PICK doc \in ReadAs(copy) :
            IF doc # None /\ parseFile(doc, Defaults) # Malformed
            THEN /\ proc' = [proc EXCEPT ![p] = [@ EXCEPT !.bytes = doc, !.pc = "current"]]
                 /\ UNCHANGED << global, copy, meta, said, edits, starts, baseline, disturbed >>
            ELSE Say(p, "unverified", None)
      BY <1>5 DEF parseCopy
    <2>3. CASE doc # None /\ parseFile(doc, Defaults) # Malformed
      <3> DEFINE r == [proc[p] EXCEPT !.bytes = doc, !.pc = "current"]
      <3>1. /\ proc' = [proc EXCEPT ![p] = r]
            /\ UNCHANGED << global, copy, meta, baseline, disturbed >>
        BY <2>2, <2>3
      <3>doc. doc \in Docs
        BY AtHand DEF ReadAs, Docs
      <3>typed. r \in Processes /\ r.pc = "current" /\ r.alone = proc[p].alone
        BY <3>doc, AtHand DEF Processes, Steps
      <3> HIDE DEF r
      <3>2. /\ proc'[p].pc = "current" /\ proc'[p].alone = proc[p].alone
            /\ \A q \in Procs : q # p => proc'[q] = proc[q]
        BY <3>1, <3>typed, Become DEF IInv
      <3>3. proc' \in [Procs -> Processes]
        BY <3>1, <3>typed, Become DEF IInv
      <3>4. TypeOK'
        BY <3>1, <3>2, <3>3 DEF IInv, TypeOK
      <3> QED
        BY <2>1, <3>1, <3>2, <3>4, QuietStep DEF Writing
    <2>4. CASE ~ (doc # None /\ parseFile(doc, Defaults) # Malformed)
      BY <2>1, <2>2, <2>4, SaySeal
    <2> QED
      BY <2>3, <2>4
  <1>6. CASE compareToSeal(p)
    <2>1. proc[p].pc = "current" /\ \E verdict, doc : Say(p, verdict, doc)
      BY <1>6 DEF compareToSeal
    <2> QED
      BY <2>1, SaySeal
  <1>7. CASE Die(p)
    <2>1. /\ proc' = [proc EXCEPT ![p] = Idle] /\ proc[p].pc # "idle"
          /\ UNCHANGED << global, copy, meta, baseline >>
          /\ disturbed' = (disturbed \/ Midway(p))
      BY <1>7 DEF Die
    <2>2. proc'[p].pc = "idle" /\ \A q \in Procs : q # p => proc'[q] = proc[q]
      BY <2>1 DEF IInv, TypeOK, Idle
    <2>3. TypeOK'
      BY <2>1, <2>2 DEF IInv, TypeOK, Idle, Processes, Steps, Reasons, Docs, Humans
    <2> QED
      BY <2>1, <2>2, <2>3, QuietStep DEF Writing
  <1>8. CASE sealFails(p)
    <2>1. busy(p) /\ Tell(p, "unverified", None) /\ disturbed' = (disturbed \/ Midway(p))
      BY <1>8 DEF sealFails
    <2>2. disturbed' \in BOOLEAN
      BY <2>1 DEF IInv, TypeOK
    <2> QED
      BY <2>1, <2>2, TellSeal
  <1> QED
    BY <1>1, <1>2, <1>3, <1>4, <1>5, <1>6, <1>7, <1>8

\* The inductive step; an edit of the policy touches no file of the seal.
LEMMA NextSeal == IInv /\ [Next]_vars => IInv'
  <1> SUFFICES ASSUME IInv, [Next]_vars PROVE IInv'
    OBVIOUS
  <1>1. ASSUME UNCHANGED << copy, meta, proc, baseline, disturbed >>, global' \in GlobalDocs
        PROVE  IInv'
    BY <1>1 DEF IInv, TypeOK, AloneInv, SealInv, busy, At, Midway
  <1>2. CASE EditPolicy
    BY <1>1, <1>2 DEF EditPolicy
  <1>3. CASE UNCHANGED vars
    BY <1>1, <1>3 DEF vars, IInv, TypeOK
  <1> QED
    BY <1>2, <1>3, StartSeal, CopySeal, MetaSeal, ProcessSeal DEF Next

\* The files of the seal and what each process has read of them are of their
\* types, and whoever writes has a reason that the code knows.
THEOREM SealTypeCorrect == Spec => []TypeOK
  <1>1. IInv => TypeOK
    BY DEF IInv
  <1> QED
    BY <1>1, InitSeal, NextSeal, PTL DEF Spec

\* However commands and statuses overlap and die: with no overlap since the last
\* seal of a person and none killed, and no write failed, in the middle of the two
\* files, those files hold what that person sealed (status.ts:343-363).
THEOREM BaselineAlwaysStays == Spec => []BaselineStays
  <1>1. IInv => BaselineStays
    <2> SUFFICES ASSUME IInv, ~ disturbed, baseline # None, \A p \in Procs : ~ Sealing(p)
                 PROVE  copy = baseline /\ meta = baseline
      BY DEF BaselineStays
    <2>1. \A p \in Procs : ~ Midway(p)
      BY DEF IInv, SealInv, Sealing, Midway, Writing
    <2> QED
      BY <2>1 DEF IInv, SealInv
  <1> QED
    BY <1>1, InitSeal, NextSeal, PTL DEF Spec

-----------------------------------------------------------------------------
(* What a status says *)

\* The lists of paths of a policy that parses are lists of entries.
LEMMA ForbiddenAreEntries ==
  ASSUME NEW doc \in GlobalDocs, parseFile(doc, Defaults) # Malformed
  PROVE  parseFile(doc, Defaults).forbidden \subseteq Entries
  <1> DEFINE q == parseFile(doc, Defaults)
  <1>1. CASE doc = Absent
    BY <1>1, DefaultsAssumption DEF parseFile
  <1>2. CASE doc # Absent
    <2>1. doc # Malformed /\ q = validatePolicy(doc, Defaults)
      BY <1>2 DEF parseFile
    <2>2. /\ ~ \E k \in DOMAIN doc : doc[k] = Bad
          /\ q = [k \in Keys |-> CASE k \notin DOMAIN doc -> Defaults[k]
                                 [] k \in DOMAIN doc /\ doc[k] = Null -> Blank(k, Defaults)
                                 [] OTHER -> doc[k]]
      BY <2>1 DEF validatePolicy
    <2>3. "forbidden" \in Keys
      BY DEF Keys
    <2> QED
      BY <1>2, <2>1, <2>2, <2>3, DefaultsAssumption, SealAssumption DEF DocOK, Blank, Lists
  <1> QED
    BY <1>1, <1>2

\* A write that is refused for what it names, and not for where it lies, is refused by an
\* entry that is forbidden.
LEMMA AbsoluteWrite ==
  ASSUME NEW path, NEW p,
         blocks(Call("write", path, << >>, None), p), isAbsolute(Call("write", path, << >>, None), p)
  PROVE  Forbids(Call("write", path, << >>, None), p) # {}
  <1> DEFINE e == Call("write", path, << >>, None)
  <1>1. e.tool = "write"
    BY DEF Call
  <1>2. Listed(e, p) = {} /\ ~ DotenvByCommand(e) /\ ~ DotenvByTool(e) /\ ~ OverUncommitted(e, p, TRUE)
    BY <1>1 DEF Listed, DotenvByCommand, DotenvByTool, OverUncommitted
  <1> DEFINE raw == evaluateLayer1Raw(e, p, TRUE)
  <1>3. raw.decision = "deny" /\ raw.rule.section # "scope.allowed_paths"
    BY DEF blocks, isAbsolute
  <1> HIDE DEF e
  <1>4. Forbids(e, p) = {} => raw = IF OutOfScope(e, p) THEN Deny(RuleName("scope.allowed_paths", None, None))
                                    ELSE Allow
    BY <1>2 DEF evaluateLayer1Raw
  <1> HIDE DEF raw
  <1>5. Forbids(e, p) = {} => raw = Deny(RuleName("scope.allowed_paths", None, None)) \/ raw = Allow
    BY <1>4
  <1>6. Forbids(e, p) # {}
    BY <1>3, <1>5 DEF Deny, Allow, RuleName
  <1> QED
    BY <1>6 DEF e

\* What an entry forbids is refused, and refused for what it is.
LEMMA ForbiddenIsAbsolute ==
  ASSUME NEW e, NEW p, Forbids(e, p) # {}
  PROVE  blocks(e, p) /\ isAbsolute(e, p)
  BY DEF blocks, isAbsolute, evaluateLayer1Raw, Deny, RuleName

\* Two policies between which the probes find nothing lost: whatever the first forbids by an
\* entry that has a probe, the second forbids.
LEMMA NothingLost ==
  ASSUME ProbesStandForEntries, NEW old, NEW new,
         old.forbidden \subseteq Entries, new.forbidden \subseteq Entries, ~ isWeaker(old, new),
         NEW f \in old.forbidden, Probe[f] # None, NEW path \in Covers[f]
  PROVE  Forbids(Call("read", path, << >>, None), new) # {}
  <1> DEFINE e == Call("write", Probe[f], << >>, None)
  <1>1. e.path = Probe[f]
    BY DEF Call
  <1>2. e \in probesFor({old, new})
    BY DEF probesFor
  <1> HIDE DEF e
  <1>3. Forbids(e, old) # {}
    BY <1>1 DEF Forbids, ProbesStandForEntries
  <1>4. blocks(e, new) /\ isAbsolute(e, new)
    BY <1>2, <1>3, ForbiddenIsAbsolute DEF isWeaker, lostProbes, downgradedProbes
  <1>5. PICK g \in new.forbidden : Probe[f] \in Covers[g]
    <2>1. Forbids(e, new) # {}
      BY <1>4, AbsoluteWrite DEF e
    <2> QED
      BY <1>1, <2>1 DEF Forbids
  <1>6. path \in Covers[g]
    BY <1>5 DEF ProbesStandForEntries
  <1>7. Call("read", path, << >>, None).path = path
    BY DEF Call
  <1> QED
    BY <1>5, <1>6, <1>7 DEF Forbids

\* A process that compares has a policy at hand that parses, and the one a person sealed last if
\* nothing came in between; and no loss was found in what was said to have none.
ReportInv ==
  /\ \A p \in Procs : At(p, "current") =>
       /\ proc[p].bytes \in GlobalDocs /\ parseFile(proc[p].bytes, Defaults) # Malformed
       /\ ~ disturbed /\ baseline # None => proc[p].bytes = baseline
  /\ said.verdict = "nothing-lost" /\ said.base # None =>
       /\ said.base \in GlobalDocs /\ said.now \in GlobalDocs
       /\ parseFile(said.base, Defaults) # Malformed /\ parseFile(said.now, Defaults) # Malformed
       /\ ~ isWeaker(parseFile(said.base, Defaults), parseFile(said.now, Defaults))

\* With the files of the seal where the first invariant has them, what is said is true of what was
\* compared.
LEMMA NextReport == IInv /\ ReportInv /\ [Next]_vars => ReportInv'
  <1> SUFFICES ASSUME IInv, ReportInv, [Next]_vars PROVE ReportInv'
    OBVIOUS
  <1> USE DEF At
  \* A step that leaves the comparisons of the others alone and says nothing of losses.
  <1>quiet. ASSUME \A q \in Procs : proc'[q].pc = "current" => proc[q].pc = "current" /\ proc'[q].bytes = proc[q].bytes,
                   said' = said \/ said'.verdict = "unverified" \/ said'.verdict = "weaker",
                   ~ disturbed' => \/ ~ disturbed /\ baseline' = baseline
                                   \/ \A q \in Procs : proc'[q].pc # "current"
            PROVE  ReportInv'
    <2>1. \A p \in Procs : proc'[p].pc = "current" =>
            /\ proc'[p].bytes \in GlobalDocs /\ parseFile(proc'[p].bytes, Defaults) # Malformed
            /\ ~ disturbed' /\ baseline' # None => proc'[p].bytes = baseline'
      BY <1>quiet DEF ReportInv
    <2>2. said'.verdict = "nothing-lost" => said' = said
      BY <1>quiet
    <2> QED
      BY <2>1, <2>2 DEF ReportInv
  <1>says. ASSUME NEW p \in Procs, NEW verdict \in {"unverified", "weaker"}, NEW doc, Tell(p, verdict, doc),
                  ~ disturbed' => ~ disturbed
           PROVE  ReportInv'
    <2>1. said'.verdict \in {"unverified", "weaker"} /\ baseline' = baseline
      BY <1>says DEF Tell
    <2>2. \A q \in Procs : proc'[q].pc = "current" => proc'[q] = proc[q]
      BY <1>says DEF Tell, Idle, IInv, TypeOK
    <2> QED
      BY <2>1, <2>2, <1>says, <1>quiet
  <1>1. ASSUME NEW p \in Procs, NEW kind \in Humans \cup {"status"}, Start(p, kind) PROVE ReportInv'
    <2>1. \A q \in Procs : proc'[q].pc = "current" => proc[q].pc = "current" /\ proc'[q].bytes = proc[q].bytes
      BY <1>1 DEF Start, Idle, IInv, TypeOK, Processes
    <2>2. said' = said /\ baseline' = baseline /\ (~ disturbed' => ~ disturbed)
      BY <1>1 DEF Start
    <2> QED
      BY <2>1, <2>2, <1>quiet
  <1>2. ASSUME NEW p \in Procs, writeMeta(p) PROVE ReportInv'
    <2> DEFINE r == AfterSeal(p)
    <2>1. said' = said /\ proc' = [proc EXCEPT ![p] = r] /\ proc[p].pc = "sealing"
      BY <1>2 DEF writeMeta
    <2>2. r.pc # "current"
      BY AfterFacts
    <2> HIDE DEF r
    <2>3. \A q \in Procs : proc'[q].pc = "current" => q # p /\ proc'[q] = proc[q]
      BY <2>1, <2>2 DEF IInv, TypeOK
    <2>4. CASE proc[p].why \in Humans
      <3>1. disturbed' = (disturbed /\ ~ proc[p].alone)
        BY <1>2, <2>4 DEF writeMeta
      <3>2. ~ disturbed' => proc[p].alone
        BY <3>1, <2>1 DEF IInv, SealInv, busy
      <3>3. ~ disturbed' => \A q \in Procs : proc'[q].pc # "current"
        BY <2>1, <2>3, <3>2 DEF IInv, AloneInv, busy
      <3> QED
        BY <2>1, <2>3, <3>3, <1>quiet
    <2>5. CASE proc[p].why \notin Humans
      BY <1>2, <2>1, <2>3, <2>5, <1>quiet DEF writeMeta
    <2> QED
      BY <2>4, <2>5
  <1>3. ASSUME NEW p \in Procs,
               \/ readSource(p) \/ openCopy(p) \/ writeCopy(p) \/ openMeta(p)
               \/ readMeta(p) \/ firstLook(p) \/ Die(p)
        PROVE  ReportInv'
    <2>1. said' = said /\ baseline' = baseline /\ (~ disturbed' => ~ disturbed)
      <3>1. CASE Die(p)
        BY <3>1, Zenon DEF Die
      <3>2. CASE \/ readSource(p) \/ openCopy(p) \/ writeCopy(p) \/ openMeta(p)
                 \/ readMeta(p) \/ firstLook(p)
        BY <3>2 DEF readSource, openCopy, writeCopy, openMeta, readMeta, firstLook
      <3> QED
        BY <1>3, <3>1, <3>2
    <2>2. \A q \in Procs : proc'[q].pc = "current" => q # p /\ proc'[q] = proc[q]
      <3>1. CASE readSource(p)
        <4>1. AfterSeal(p).pc # "current"
          BY AfterFacts
        <4> QED
          BY <3>1, <4>1 DEF readSource, IInv, TypeOK, Processes
      <3>2. CASE openCopy(p) \/ writeCopy(p) \/ openMeta(p)
        BY <3>2 DEF openCopy, writeCopy, openMeta, Goto, IInv, TypeOK, Processes
      <3>3. CASE readMeta(p)
        BY <3>3 DEF readMeta, IInv, TypeOK, Processes
      <3>4. CASE firstLook(p)
        BY <3>4 DEF firstLook, IInv, TypeOK, Processes
      <3>5. CASE Die(p)
        BY <3>5 DEF Die, Idle, IInv, TypeOK, Processes
      <3> QED
        BY <1>3, <3>1, <3>2, <3>3, <3>4, <3>5
    <2> QED
      BY <2>1, <2>2, <1>quiet
  <1>4. ASSUME NEW p \in Procs, readSeal(p) PROVE ReportInv'
    <2>1. CASE verifies(p)
      <3>1. \A q \in Procs : proc'[q].pc = "current" => q # p /\ proc'[q] = proc[q]
        BY <1>4, <2>1 DEF readSeal, IInv, TypeOK, Processes
      <3>2. UNCHANGED << said, baseline, disturbed >>
        BY <1>4, <2>1 DEF readSeal
      <3> QED
        BY <3>1, <3>2, <1>quiet
    <2>2. CASE ~ verifies(p)
      BY <1>4, <2>2, <1>says DEF readSeal, Say
    <2> QED
      BY <2>1, <2>2
  <1>5. ASSUME NEW p \in Procs, parseCopy(p) PROVE ReportInv'
    <2>1. PICK doc \in ReadAs(copy) :
            IF doc # None /\ parseFile(doc, Defaults) # Malformed
            THEN /\ proc' = [proc EXCEPT ![p] = [@ EXCEPT !.bytes = doc, !.pc = "current"]]
                 /\ UNCHANGED << global, copy, meta, said, edits, starts, baseline, disturbed >>
            ELSE Say(p, "unverified", None)
      BY <1>5 DEF parseCopy
    <2>2. CASE doc # None /\ parseFile(doc, Defaults) # Malformed
      <3>1. /\ proc' = [proc EXCEPT ![p] = [@ EXCEPT !.bytes = doc, !.pc = "current"]]
            /\ UNCHANGED << said, baseline, disturbed >> /\ proc[p].pc = "parse"
        BY <1>5, <2>1, <2>2 DEF parseCopy
      <3>2. doc \in GlobalDocs
        BY <2>2 DEF ReadAs, IInv, TypeOK, Docs
      <3>3. ~ disturbed /\ baseline # None => doc = baseline
        <4> SUFFICES ASSUME ~ disturbed, baseline # None PROVE doc = baseline
          OBVIOUS
        <4>1. proc[p].alone /\ \A q \in Procs : busy(q) => q = p
          BY <3>1 DEF IInv, SealInv, AloneInv, busy
        <4>2. \A q \in Procs : ~ Midway(q)
          BY <3>1, <4>1 DEF busy, Midway
        <4>3. copy = baseline
          BY <4>2 DEF IInv, SealInv
        <4>4. baseline # Half
          BY HalfAssumption DEF IInv, TypeOK, Docs
        <4> QED
          BY <4>3, <4>4 DEF ReadAs
      <3>4. proc'[p].bytes = doc /\ \A q \in Procs : q # p => proc'[q] = proc[q]
        BY <3>1 DEF IInv, TypeOK, Processes
      <3> QED
        BY <2>2, <3>1, <3>2, <3>3, <3>4 DEF ReportInv
    <2>3. CASE ~ (doc # None /\ parseFile(doc, Defaults) # Malformed)
      BY <2>1, <2>3, <1>says DEF Say
    <2> QED
      BY <2>2, <2>3
  <1>6. ASSUME NEW p \in Procs, compareToSeal(p) PROVE ReportInv'
    <2> DEFINE old == parseFile(proc[p].bytes, Defaults)
               new == parseFile(global, Defaults)
    <2>1. proc[p].pc = "current"
      BY <1>6 DEF compareToSeal
    <2>2. CASE global = Absent \/ new = Malformed
      BY <1>6, <2>2, <1>says DEF compareToSeal, Say
    <2>3. CASE ~ (global = Absent \/ new = Malformed) /\ isWeaker(old, new)
      BY <1>6, <2>3, <1>says DEF compareToSeal, Say
    <2>4. CASE ~ (global = Absent \/ new = Malformed) /\ ~ isWeaker(old, new)
      <3>1. Say(p, "nothing-lost", global)
        BY <1>6, <2>4 DEF compareToSeal
      <3>2. /\ said'.now = global /\ said'.base = IF disturbed THEN None ELSE baseline
            /\ UNCHANGED << baseline, disturbed >>
        BY <3>1 DEF Say, Tell
      <3>3. said'.base # None => said'.base = proc[p].bytes
        BY <2>1, <3>2 DEF ReportInv
      <3>4. \A q \in Procs : proc'[q].pc = "current" => proc'[q] = proc[q]
        BY <3>1 DEF Say, Tell, Idle, IInv, TypeOK
      <3>5. proc[p].bytes \in GlobalDocs /\ old # Malformed /\ global \in GlobalDocs
        BY <2>1 DEF ReportInv, IInv, TypeOK
      <3>6. said'.base # None =>
              /\ said'.base \in GlobalDocs /\ said'.now \in GlobalDocs
              /\ parseFile(said'.base, Defaults) # Malformed /\ parseFile(said'.now, Defaults) # Malformed
              /\ ~ isWeaker(parseFile(said'.base, Defaults), parseFile(said'.now, Defaults))
        BY <2>4, <3>2, <3>3, <3>5
      <3>7. \A q \in Procs : proc'[q].pc = "current" =>
              /\ proc'[q].bytes \in GlobalDocs /\ parseFile(proc'[q].bytes, Defaults) # Malformed
              /\ ~ disturbed' /\ baseline' # None => proc'[q].bytes = baseline'
        BY <3>2, <3>4 DEF ReportInv
      <3> QED
        BY <3>6, <3>7 DEF ReportInv
    <2> QED
      BY <2>2, <2>3, <2>4
  <1>7. CASE EditPolicy \/ UNCHANGED vars
    BY <1>7 DEF EditPolicy, vars, ReportInv
  <1>8. ASSUME NEW p \in Procs, sealFails(p) PROVE ReportInv'
    BY <1>8, <1>says DEF sealFails
  <1> QED
    BY <1>1, <1>2, <1>3, <1>4, <1>5, <1>6, <1>7, <1>8 DEF Next

\* For any policies, any edits and any number of processes: where the probes stand for their
\* entries, a status that says nothing was lost is right about what the person who sealed had
\* forbidden (drift.ts:1-13, :119-125, :313-394).
THEOREM LossAlwaysReported == ProbesStandForEntries /\ Spec => []LossIsReported
  <1> SUFFICES ASSUME ProbesStandForEntries PROVE Spec => []LossIsReported
    OBVIOUS
  <1>1. Init => ReportInv
    BY DEF Init, ReportInv, Idle, At
  <1>2. ReportInv => LossIsReported
    BY NothingLost, ForbiddenAreEntries DEF ReportInv, LossIsReported
  <1> QED
    BY <1>1, <1>2, InitSeal, NextSeal, NextReport, PTL DEF Spec
=============================================================================
