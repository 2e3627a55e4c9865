---------------------------- MODULE BackupProofs ----------------------------
(***************************************************************************)
(* Theorems about Backup, for any number of backups and old snapshots, any *)
(* seconds in which they start, any retention, and failures and kills      *)
(* anywhere.                                                               *)
(***************************************************************************)
EXTENDS Backup, FiniteSetTheorems, WellFoundedInduction, TLAPS

-----------------------------------------------------------------------------
(* Types *)

LEMMA Names ==
  /\ \A p \in Procs : Stamp[p] \in Stamps /\ p \in Files
  /\ Old \subseteq Stamps /\ Old \subseteq Files /\ Procs \subseteq Files
  BY DEF Stamps, Files

LEMMA InitTypes == Init => TypeOK
  BY Names, ParameterAssumption DEF Init, TypeOK, Steps, Starting, Outcomes

LEMMA LeftType == \A p : Left(p) \in Outcomes
  BY DEF Left, Outcomes

LEMMA ProcessTypes ==
  ASSUME TypeOK, NEW p \in Procs, backup(p)
  PROVE  TypeOK'
  <1> USE Names, LeftType DEF TypeOK, Steps, Starting, Making, Describing, Pruning, Outcomes,
                               Go, End, Name, Remove, locals, disk, history
  <1>1. CASE maybeAutoBackup(p)
    BY <1>1 DEF maybeAutoBackup
  <1>2. CASE removeStaleTmp(p)
    <2>1. crossed' \subseteq Stamps
      BY <1>2 DEF removeStaleTmp
    <2> QED
      BY <1>2, <2>1 DEF removeStaleTmp
  <1>3. CASE removeStaleFinal(p)
    BY <1>3 DEF removeStaleFinal
  <1>4. CASE vacuumInto(p)
    BY <1>4 DEF vacuumInto
  <1>5. CASE finishVacuum(p)
    BY <1>5 DEF finishVacuum
  <1>6. CASE countSource(p)
    BY <1>6 DEF countSource
  <1>7. CASE verifySnapshot(p)
    BY <1>7 DEF verifySnapshot
  <1>8. CASE compareCounts(p)
    BY <1>8 DEF compareCounts
  <1>9. CASE failCaught(p)
    BY <1>9 DEF failCaught
  <1>10. CASE publish(p)
    BY <1>10 DEF publish
  <1>11. CASE digestFile(p)
    BY <1>11 DEF digestFile
  <1>12. CASE writeReceipt(p)
    BY <1>12 DEF writeReceipt
  <1>13. CASE failUncaught(p)
    BY <1>13 DEF failUncaught
  <1>14. CASE listDoomed(p)
    <2>1. \A S \in {listSnapshots, {}} : Surplus(S) \subseteq Stamps
      BY DEF listSnapshots, Surplus
    <2>2. PICK old \in SUBSET Stamps :
            /\ doomed' = [doomed EXCEPT ![p] = old]
            /\ IF old = {} THEN End(p, "ok")
               ELSE Go(p, "list", "pruneDb") /\ UNCHANGED outcome
      <3>1. PICK S \in {listSnapshots, {}} :
              /\ doomed' = [doomed EXCEPT ![p] = Surplus(S)]
              /\ IF Surplus(S) = {} THEN End(p, "ok")
                 ELSE Go(p, "list", "pruneDb") /\ UNCHANGED outcome
        BY <1>14 DEF listDoomed
      <3> QED
        BY <2>1, <3>1
    <2>3. /\ doomed' \in [Procs -> SUBSET Stamps] /\ pc' \in [Procs -> Steps]
          /\ outcome' \in [Procs -> Outcomes]
      <3>1. CASE old = {}
        BY <2>2, <3>1
      <3>2. CASE old # {}
        BY <2>2, <3>2
      <3> QED
        BY <3>1, <3>2
    <2> QED
      BY <1>14, <2>3 DEF listDoomed
  <1>15. CASE pruneDb(p)
    BY <1>15 DEF pruneDb
  <1>16. CASE pruneReceipt(p)
    BY <1>16 DEF pruneReceipt
  <1> QED
    BY <1>1, <1>2, <1>3, <1>4, <1>5, <1>6, <1>7, <1>8, <1>9,
       <1>10, <1>11, <1>12, <1>13, <1>14, <1>15, <1>16 DEF backup, backupCorpus

LEMMA NextTypes == TypeOK /\ [Next]_vars => TypeOK'
  <1> SUFFICES ASSUME TypeOK, [Next]_vars PROVE TypeOK'
    OBVIOUS
  <1>1. ASSUME NEW p \in Procs, Kill(p) PROVE TypeOK'
    BY <1>1, LeftType DEF Kill, End, TypeOK, Steps, locals, disk, history
  <1>2. CASE Insert
    BY <1>2, ParameterAssumption DEF Insert, TypeOK, locals, disk, history
  <1>3. CASE UNCHANGED vars
    BY <1>3 DEF vars, TypeOK, locals, disk, history
  <1> QED
    BY <1>1, <1>2, <1>3, ProcessTypes DEF Next, AllDone

\* Every variable keeps its type, whatever is killed or fails.
THEOREM BackupTypeCorrect == Spec => []TypeOK
  BY InitTypes, NextTypes, PTL DEF Spec

-----------------------------------------------------------------------------
(* Whose file a name leads to *)

\* A backup at work alone under its names finds its own files there: the temporary
\* file is its own, verified before it is published, and no other is under the
\* final name from the time it has cleaned up.
Own(p) ==
  /\ Busy(p) => tmp[Stamp[p]] \in {None, p}
  /\ pc[p] \in Making => db[Stamp[p]] = None
  /\ pc[p] \in {"compare", "publish"} \cup Describing => checked[p] = p /\ p \in whole
  /\ pc[p] \in Describing => db[Stamp[p]] \in {None, p}

\* What is under a final name was there before, or was verified by a backup of that
\* second; and its receipt is its own, or it is without one.
Placed(s) ==
  db[s] # None =>
    \/ db[s] \in Old /\ receipt[s] \in {None, db[s]}
    \/ /\ db[s] \in Procs /\ Stamp[db[s]] = s
       /\ checked[db[s]] = db[s] /\ db[s] \in whole
       /\ receipt[s] \in {None, db[s]} \/ Undescribed(db[s])

Alone == \A p, q \in Procs :
  Busy(p) /\ Busy(q) /\ Stamp[p] = Stamp[q] => p = q \/ Stamp[p] \in crossed

OwnInv ==
  /\ Alone /\ \A p \in Procs : pc[p] = "end" \/ outcome[p] = "running"
  /\ \A p \in Procs : Stamp[p] \notin crossed => Own(p)
  /\ \A s \in Stamps \ crossed : Placed(s)

LEMMA InitOwned == Init => OwnInv
  <1> SUFFICES ASSUME Init PROVE OwnInv
    OBVIOUS
  <1>1. \A p \in Procs : pc[p] \in {"throttle", "cleanTmp"}
    BY DEF Init
  <1>2. \A p \in Procs : Own(p) /\ ~ Busy(p)
    BY <1>1 DEF Own, Busy, Making, Describing
  <1>3. \A s \in Stamps : Placed(s)
    BY DEF Init, Placed
  <1>4. \A p \in Procs : outcome[p] = "running"
    BY DEF Init
  <1> QED
    BY <1>2, <1>3, <1>4 DEF OwnInv, Alone

\* A step of p that touches, beside its own, only names under which it deletes, and
\* that leaves its own name alone: all that is left to show is about p itself.
LEMMA OthersOwned ==
  ASSUME TypeOK, TypeOK', OwnInv, NEW p \in Procs,
         \A q \in Procs \ {p} : /\ pc'[q] = pc[q] /\ checked'[q] = checked[q]
                                /\ outcome'[q] = outcome[q],
         crossed \subseteq crossed', whole \subseteq whole',
         \A s \in Stamps \ {Stamp[p]} :
           /\ tmp'[s] = tmp[s]
           /\ db'[s] \in {db[s], None} /\ receipt'[s] \in {receipt[s], None}
  PROVE  /\ \A q \in Procs : Stamp[q] # Stamp[p] /\ Stamp[q] \notin crossed' => Own(q)'
         /\ \A s \in Stamps \ crossed' : s # Stamp[p] => Placed(s)'
         /\ \A q, r \in Procs \ {p} : Busy(q)' /\ Busy(r)' /\ Stamp[q] = Stamp[r]
               => q = r \/ Stamp[q] \in crossed'
  <1>1. ASSUME NEW q \in Procs, Stamp[q] # Stamp[p], Stamp[q] \notin crossed' PROVE Own(q)'
    <2>1. q # p /\ Own(q) /\ Stamp[q] \in Stamps
      BY <1>1, Names DEF OwnInv
    <2>2. /\ pc'[q] = pc[q] /\ checked'[q] = checked[q] /\ tmp'[Stamp[q]] = tmp[Stamp[q]]
          /\ db'[Stamp[q]] \in {db[Stamp[q]], None}
      BY <1>1, <2>1
    <2> QED
      BY <2>1, <2>2 DEF Own, Busy
  <1>2. ASSUME NEW s \in Stamps \ crossed', s # Stamp[p] PROVE Placed(s)'
    <2>1. Placed(s) /\ db'[s] \in {db[s], None} /\ receipt'[s] \in {receipt[s], None}
      BY <1>2 DEF OwnInv
    <2>2. \A f \in Procs \ {p} : checked'[f] = checked[f] /\ (Undescribed(f) => Undescribed(f)')
      BY DEF Undescribed
    <2>3. CASE db'[s] = None
      BY <2>3 DEF Placed
    <2>4. CASE db'[s] = db[s] /\ db[s] \in Old /\ receipt[s] \in {None, db[s]}
      BY <2>1, <2>4 DEF Placed
    <2>5. ASSUME NEW f \in Procs, db[s] = f, db'[s] = f, Stamp[f] = s, checked[f] = f,
                 f \in whole, receipt[s] \in {None, f} \/ Undescribed(f)
          PROVE  Placed(s)'
      <3>1. f # p
        BY <1>2, <2>5
      <3>2. checked'[f] = f /\ f \in whole'
        BY <2>2, <2>5, <3>1
      <3>3. receipt'[s] \in {None, f} \/ Undescribed(f)'
        BY <2>1, <2>2, <2>5, <3>1
      <3> QED
        BY <2>5, <3>2, <3>3 DEF Placed
    <2> QED
      BY <2>1, <2>3, <2>4, <2>5 DEF Placed
  <1>3. ASSUME NEW q \in Procs \ {p}, NEW r \in Procs \ {p},
               Busy(q)', Busy(r)', Stamp[q] = Stamp[r]
        PROVE  q = r \/ Stamp[q] \in crossed'
    BY <1>3 DEF OwnInv, Alone, Busy
  <1> QED
    BY <1>1, <1>2, <1>3


\* A backup at work that is alone under its names need only keep its own part.
LEMMA BusyStep ==
  ASSUME TypeOK, TypeOK', OwnInv, NEW p \in Procs, Busy(p),
         \A q \in Procs \ {p} : /\ pc'[q] = pc[q] /\ checked'[q] = checked[q]
                                /\ outcome'[q] = outcome[q],
         pc'[p] = "end" \/ outcome'[p] = "running",
         crossed' = crossed, whole \subseteq whole',
         \A s \in Stamps \ {Stamp[p]} :
           /\ tmp'[s] = tmp[s]
           /\ db'[s] \in {db[s], None} /\ receipt'[s] \in {receipt[s], None},
         Stamp[p] \notin crossed => Own(p)' /\ Placed(Stamp[p])'
  PROVE  OwnInv'
  <1>1. \A q \in Procs : pc'[q] = "end" \/ outcome'[q] = "running"
    BY DEF OwnInv
  <1>2. ASSUME NEW q \in Procs \ {p}, Stamp[q] = Stamp[p], Stamp[p] \notin crossed
        PROVE  ~ Busy(q)' /\ Own(q)'
    BY <1>2 DEF OwnInv, Alone, Busy, Own
  <1>3. /\ \A q \in Procs : Stamp[q] # Stamp[p] /\ Stamp[q] \notin crossed' => Own(q)'
        /\ \A s \in Stamps \ crossed' : s # Stamp[p] => Placed(s)'
        /\ \A q, r \in Procs \ {p} : Busy(q)' /\ Busy(r)' /\ Stamp[q] = Stamp[r]
              => q = r \/ Stamp[q] \in crossed'
    BY OthersOwned
  <1>4. Alone'
    BY <1>2, <1>3 DEF Alone
  <1>5. \A q \in Procs : Stamp[q] \notin crossed' => Own(q)'
    BY <1>2, <1>3
  <1>6. \A s \in Stamps \ crossed' : Placed(s)'
    BY <1>3
  <1> QED
    BY <1>1, <1>4, <1>5, <1>6 DEF OwnInv

\* One that is not at work under its names may still delete under any.
LEMMA IdleStep ==
  ASSUME TypeOK, TypeOK', OwnInv, NEW p \in Procs, ~ Busy(p), ~ Busy(p)',
         \A q \in Procs \ {p} : pc'[q] = pc[q] /\ outcome'[q] = outcome[q],
         pc'[p] = "end" \/ outcome'[p] = "running",
         Undescribed(p) => Undescribed(p)',
         UNCHANGED << checked, whole, crossed, tmp >>,
         \A s \in Stamps : db'[s] \in {db[s], None} /\ receipt'[s] \in {receipt[s], None}
  PROVE  OwnInv'
  <1>1. \A q \in Procs : pc'[q] = "end" \/ outcome'[q] = "running"
    BY DEF OwnInv
  <1>2. \A q \in Procs : Busy(q)' => Busy(q) /\ pc'[q] = pc[q]
    BY DEF Busy
  <1>3. Alone'
    BY <1>2 DEF OwnInv, Alone
  <1>4. ASSUME NEW q \in Procs, Stamp[q] \notin crossed' PROVE Own(q)'
    <2>1. Own(q) /\ Stamp[q] \in Stamps
      BY <1>4, Names DEF OwnInv
    <2>2. CASE Busy(q)'
      BY <1>2, <2>1, <2>2 DEF Own, Busy
    <2>3. CASE ~ Busy(q)'
      BY <2>3 DEF Own, Busy, Making, Describing
    <2> QED
      BY <2>2, <2>3
  <1>5. ASSUME NEW s \in Stamps \ crossed' PROVE Placed(s)'
    <2>1. Placed(s) /\ db'[s] \in {db[s], None} /\ receipt'[s] \in {receipt[s], None}
      BY <1>5 DEF OwnInv
    <2>2. \A f \in Procs : Undescribed(f) => Undescribed(f)'
      BY DEF Undescribed
    <2> QED
      BY <2>1, <2>2 DEF Placed
  <1> QED
    BY <1>1, <1>3, <1>4, <1>5 DEF OwnInv

\* The first step under its names: whoever else is at work there is noted.
LEMMA StartOwned ==
  ASSUME TypeOK, TypeOK', OwnInv, NEW p \in Procs, removeStaleTmp(p)
  PROVE  OwnInv'
  <1> USE Names
  <1>1. /\ pc[p] = "cleanTmp" /\ pc' = [pc EXCEPT ![p] = "cleanFinal"]
        /\ tmp' = [tmp EXCEPT ![Stamp[p]] = None]
        /\ crossed \subseteq crossed'
        /\ UNCHANGED << whole, checked, db, receipt, outcome >>
    BY DEF removeStaleTmp, Go, Remove, Name, locals
  <1>2. \A q \in Procs : Busy(q) /\ Stamp[q] = Stamp[p] => Stamp[p] \in crossed'
    BY DEF removeStaleTmp, Name
  <1>3. \A q \in Procs \ {p} : pc'[q] = pc[q] /\ (Busy(q)' <=> Busy(q))
    BY <1>1 DEF Busy, TypeOK
  <1>4. \A s \in Stamps \ {Stamp[p]} : tmp'[s] = tmp[s]
    BY <1>1 DEF TypeOK
  <1>5. /\ \A q \in Procs : Stamp[q] # Stamp[p] /\ Stamp[q] \notin crossed' => Own(q)'
        /\ \A s \in Stamps \ crossed' : s # Stamp[p] => Placed(s)'
        /\ \A q, r \in Procs \ {p} : Busy(q)' /\ Busy(r)' /\ Stamp[q] = Stamp[r]
              => q = r \/ Stamp[q] \in crossed'
    BY <1>1, <1>3, <1>4, OthersOwned
  <1>6. Own(p)'
    BY <1>1 DEF Own, TypeOK, Making, Describing
  <1>7. \A q \in Procs \ {p} : Stamp[q] = Stamp[p] /\ Stamp[q] \notin crossed' => ~ Busy(q)'
    BY <1>2, <1>3
  <1>8. \A q \in Procs \ {p} : Stamp[q] = Stamp[p] /\ Stamp[q] \notin crossed' => Own(q)'
    BY <1>7 DEF Own, Busy, Making, Describing
  <1>9. Stamp[p] \notin crossed' => Placed(Stamp[p])'
    <2> SUFFICES ASSUME Stamp[p] \notin crossed' PROVE Placed(Stamp[p])'
      OBVIOUS
    <2>1. Placed(Stamp[p])
      BY <1>1 DEF OwnInv
    <2>2. \A f \in Procs : Undescribed(f) => Undescribed(f)'
      BY <1>1 DEF Undescribed, TypeOK, Describing
    <2> QED
      BY <1>1, <2>1, <2>2 DEF Placed
  <1>10. Alone'
    BY <1>1, <1>2, <1>3, <1>5, <1>7 DEF Alone
  <1>11. \A q \in Procs : pc'[q] = "end" \/ outcome'[q] = "running"
    BY <1>1 DEF OwnInv, TypeOK
  <1> QED
    BY <1>5, <1>6, <1>8, <1>9, <1>10, <1>11 DEF OwnInv

\* A process that ends on the spot, killed or by an error, leaves the files.
LEMMA LeaveOwned ==
  ASSUME TypeOK, TypeOK', OwnInv, NEW p \in Procs, pc[p] # "end", End(p, Left(p)),
         UNCHANGED << rows, whole, locals, disk, doomed, history >>
  PROVE  OwnInv'
  <1> USE Names DEF End, locals, disk, history
  <1>1. /\ outcome[p] = "running"
        /\ pc' = [pc EXCEPT ![p] = "end"] /\ outcome' = [outcome EXCEPT ![p] = Left(p)]
    BY DEF OwnInv
  <1>2. pc'[p] = "end" /\ \A q \in Procs \ {p} : pc'[q] = pc[q] /\ outcome'[q] = outcome[q]
    BY <1>1 DEF TypeOK
  <1>3. ~ Busy(p)' /\ Own(p)'
    BY <1>2 DEF Own, Busy, Making, Describing
  <1>4. Undescribed(p) => Undescribed(p)'
    BY <1>1 DEF Undescribed, Left, TypeOK, Starting, Making, Describing
  <1>5. CASE Busy(p)
    <2>1. Stamp[p] \notin crossed => Placed(Stamp[p])'
      <3>1. \A f \in Procs : Undescribed(f) => Undescribed(f)'
        BY <1>2, <1>4 DEF Undescribed
      <3>2. UNCHANGED << whole, checked, db, receipt >>
        OBVIOUS
      <3> QED
        BY <3>1, <3>2 DEF OwnInv, Placed
    <2> QED
      BY <1>2, <1>3, <1>5, <2>1, BusyStep DEF TypeOK
  <1>6. CASE ~ Busy(p)
    BY <1>2, <1>3, <1>4, <1>6, IdleStep DEF TypeOK
  <1> QED
    BY <1>5, <1>6

LEMMA ProcessOwned ==
  ASSUME TypeOK, TypeOK', OwnInv, NEW p \in Procs, backup(p)
  PROVE  OwnInv'
  <1> USE Names, NoneAssumption DEF Go, End, Name, Remove, locals, disk, history
  <1>1. /\ pc[p] = "end" \/ outcome[p] = "running"
        /\ Stamp[p] \notin crossed => Own(p) /\ Placed(Stamp[p])
    BY DEF OwnInv
  <1>2. CASE maybeAutoBackup(p)
    BY <1>1, <1>2, IdleStep
       DEF maybeAutoBackup, TypeOK, Busy, Making, Describing, Undescribed
  <1>3. CASE removeStaleTmp(p)
    BY <1>3, StartOwned
  <1>4. CASE removeStaleFinal(p)
    <2>1. Stamp[p] \notin crossed => Own(p)' /\ Placed(Stamp[p])'
      BY <1>1, <1>4 DEF removeStaleFinal, TypeOK, Own, Placed, Busy, Making, Describing
    <2> QED
      BY <1>1, <1>4, <2>1, BusyStep DEF removeStaleFinal, TypeOK, Busy
  <1>5. CASE vacuumInto(p)
    <2>1. Stamp[p] \notin crossed => Own(p)' /\ Placed(Stamp[p])'
      BY <1>1, <1>5 DEF vacuumInto, TypeOK, Own, Placed, Busy, Making, Describing
    <2> QED
      BY <1>1, <1>5, <2>1, BusyStep DEF vacuumInto, TypeOK, Busy, Making
  <1>6. CASE finishVacuum(p)
    <2>1. Stamp[p] \notin crossed => Own(p)' /\ Placed(Stamp[p])'
      BY <1>1, <1>6 DEF finishVacuum, TypeOK, Own, Placed, Busy, Making, Describing
    <2> QED
      BY <1>1, <1>6, <2>1, BusyStep DEF finishVacuum, TypeOK, Busy, Making
  <1>7. CASE countSource(p)
    <2>1. Stamp[p] \notin crossed => Own(p)' /\ Placed(Stamp[p])'
      BY <1>1, <1>7 DEF countSource, TypeOK, Own, Placed, Busy, Making, Describing
    <2> QED
      BY <1>1, <1>7, <2>1, BusyStep DEF countSource, TypeOK, Busy, Making
  <1>8. CASE verifySnapshot(p)
    <2>1. Stamp[p] \notin crossed => Own(p)' /\ Placed(Stamp[p])'
      BY <1>1, <1>8 DEF verifySnapshot, TypeOK, Own, Placed, Busy, Making, Describing
    <2> QED
      BY <1>1, <1>8, <2>1, BusyStep DEF verifySnapshot, TypeOK, Busy, Making
  <1>9. CASE compareCounts(p)
    <2>1. Stamp[p] \notin crossed => Own(p)' /\ Placed(Stamp[p])'
      <3>1. CASE Go(p, "compare", "publish") /\ UNCHANGED << outcome, tmp >>
        BY <1>1, <1>9, <3>1 DEF compareCounts, TypeOK, Own, Placed, Busy, Making, Describing
      <3>2. CASE End(p, "lost rows") /\ tmp' = Remove(tmp, Name(p))
        BY <1>1, <1>9, <3>2 DEF compareCounts, TypeOK, Own, Placed, Busy, Making, Describing
      <3> QED
        BY <1>9, <3>1, <3>2 DEF compareCounts
    <2>2. pc'[p] = "end" \/ outcome'[p] = "running"
      BY <1>1, <1>9 DEF compareCounts, TypeOK
    <2>3. /\ \A q \in Procs \ {p} : pc'[q] = pc[q] /\ outcome'[q] = outcome[q]
          /\ \A s \in Stamps \ {Stamp[p]} : tmp'[s] = tmp[s]
      BY <1>9 DEF compareCounts, TypeOK
    <2> QED
      BY <1>9, <2>1, <2>2, <2>3, BusyStep DEF compareCounts, TypeOK, Busy, Making
  <1>10. CASE failCaught(p)
    <2>1. Stamp[p] \notin crossed => Own(p)' /\ Placed(Stamp[p])'
      BY <1>1, <1>10 DEF failCaught, TypeOK, Own, Placed, Undescribed, Busy, Making, Describing
    <2> QED
      BY <1>1, <1>10, <2>1, BusyStep DEF failCaught, TypeOK, Busy, Making
  <1>11. CASE publish(p)
    <2>1. Stamp[p] \notin crossed => Own(p)' /\ Placed(Stamp[p])'
      <3> SUFFICES ASSUME Stamp[p] \notin crossed PROVE Own(p)' /\ Placed(Stamp[p])'
        OBVIOUS
      <3>1. /\ tmp[Stamp[p]] = p /\ checked[p] = p /\ p \in whole
        BY <1>1, <1>11 DEF publish, Own, Busy, Making
      <3>2. /\ pc'[p] = "digest" /\ db'[Stamp[p]] = p /\ tmp'[Stamp[p]] = None
            /\ checked' = checked /\ whole' = whole
        BY <1>11, <3>1 DEF publish, TypeOK
      <3> QED
        BY <3>1, <3>2 DEF Own, Placed, Undescribed, Making, Describing
    <2> QED
      BY <1>1, <1>11, <2>1, BusyStep DEF publish, TypeOK, Busy, Making
  <1>12. CASE digestFile(p)
    <2>1. Stamp[p] \notin crossed => Own(p)' /\ Placed(Stamp[p])'
      BY <1>1, <1>12 DEF digestFile, TypeOK, Own, Placed, Undescribed, Busy, Making, Describing
    <2> QED
      BY <1>1, <1>12, <2>1, BusyStep DEF digestFile, TypeOK, Busy, Describing
  <1>13. CASE writeReceipt(p)
    <2>1. Stamp[p] \notin crossed => Own(p)' /\ Placed(Stamp[p])'
      BY <1>1, <1>13 DEF writeReceipt, TypeOK, Own, Placed, Busy, Making, Describing
    <2> QED
      BY <1>1, <1>13, <2>1, BusyStep DEF writeReceipt, TypeOK, Busy, Describing
  <1>14. CASE failUncaught(p)
    BY <1>14, LeaveOwned DEF failUncaught
  <1>15. CASE listDoomed(p)
    <2>1. pc[p] = "list" /\ outcome[p] = "running"
      BY <1>1, <1>15 DEF listDoomed
    <2>2. \/ pc' = [pc EXCEPT ![p] = "end"] /\ outcome' = [outcome EXCEPT ![p] = "ok"]
          \/ pc' = [pc EXCEPT ![p] = "pruneDb"] /\ outcome' = outcome
      BY <1>15 DEF listDoomed
    <2> QED
      BY <1>15, <2>1, <2>2, IdleStep
         DEF listDoomed, TypeOK, Busy, Making, Describing, Undescribed
  <1>16. CASE pruneDb(p)
    BY <1>1, <1>16, IdleStep DEF pruneDb, TypeOK, Busy, Making, Describing, Undescribed
  <1>17. CASE pruneReceipt(p)
    <2>1. pc[p] = "pruneReceipt" /\ outcome[p] = "running"
      BY <1>1, <1>17 DEF pruneReceipt
    <2>2. \/ pc' = [pc EXCEPT ![p] = "end"] /\ outcome' = [outcome EXCEPT ![p] = "ok"]
          \/ pc' = [pc EXCEPT ![p] = "pruneDb"] /\ outcome' = outcome
      BY <1>17 DEF pruneReceipt
    <2>3. /\ \A s \in Stamps : db'[s] = db[s] /\ receipt'[s] \in {receipt[s], None}
          /\ UNCHANGED << checked, whole, crossed, tmp >>
      BY <1>17 DEF pruneReceipt, TypeOK
    <2>4. ~ Busy(p) /\ ~ Busy(p)' /\ ~ Undescribed(p)
      BY <2>1, <2>2 DEF TypeOK, Busy, Making, Describing, Undescribed
    <2>5. /\ \A q \in Procs \ {p} : pc'[q] = pc[q] /\ outcome'[q] = outcome[q]
          /\ pc'[p] = "end" \/ outcome'[p] = "running"
      BY <2>1, <2>2 DEF TypeOK
    <2> QED
      BY <2>3, <2>4, <2>5, IdleStep
  <1> QED
    BY <1>2, <1>3, <1>4, <1>5, <1>6, <1>7, <1>8, <1>9, <1>10, <1>11, <1>12, <1>13,
       <1>14, <1>15, <1>16, <1>17 DEF backup, backupCorpus

LEMMA NextOwned == ASSUME TypeOK, TypeOK', OwnInv, [Next]_vars PROVE OwnInv'
  <1>1. ASSUME NEW p \in Procs, Kill(p) PROVE OwnInv'
    BY <1>1, LeaveOwned DEF Kill
  <1>2. CASE Insert
    BY <1>2 DEF Insert, OwnInv, Alone, Own, Placed, Undescribed, Busy, locals, disk, history
  <1>3. CASE UNCHANGED vars
    BY <1>3 DEF vars, OwnInv, Alone, Own, Placed, Undescribed, Busy, locals, disk, history
  <1> QED
    BY <1>1, <1>2, <1>3, ProcessOwned DEF Next, AllDone

LEMMA OwnAlways == Spec => [](TypeOK /\ OwnInv)
  BY InitTypes, NextTypes, InitOwned, NextOwned, PTL DEF Spec

\* What is found under a snapshot's name was opened and verified, for any number of
\* backups in any seconds, with any of them failing or killed anywhere
\* (backup.ts:129-130), but for the names at which two were at work at one time.
THEOREM SnapshotsVerified == Spec => []SnapshotsAreVerified
  <1>1. OwnInv => SnapshotsAreVerified
    BY DEF OwnInv, Placed, SnapshotsAreVerified, Verified
  <1> QED
    BY <1>1, OwnAlways, PTL

\* A receipt beside a snapshot is that snapshot's, likewise, once the backup that
\* made the snapshot has got to write it (backup.ts:185).
THEOREM ReceiptsDescribe == Spec => []ReceiptDescribesItsSnapshot
  <1>1. OwnInv => ReceiptDescribesItsSnapshot
    BY DEF OwnInv, Placed, ReceiptDescribesItsSnapshot
  <1> QED
    BY <1>1, OwnAlways, PTL

-----------------------------------------------------------------------------
(* Retention *)

Counted == listSnapshots \cup Remaking

\* What a prune has listed may go at any later time, although others prune and
\* publish meanwhile; what went could.
KeptInv ==
  /\ \A p \in Procs : \A s \in doomed[p] : Enough(s)
  /\ NewestAreKept
  /\ listSnapshots \subseteq published
  /\ \A p \in Procs : pc[p] \in {"pruneDb", "pruneReceipt"} => doomed[p] # {}

LEMMA FiniteStamps == IsFiniteSet(Stamps) /\ Stamps \subseteq Nat
  <1> DEFINE own == {Stamp[p] : p \in Procs}
  <1>1. IsFiniteSet(own)
    <2>1. Stamp \in [Procs -> Nat] /\ own = {Stamp[p] : p \in Procs} /\ IsFiniteSet(Procs)
      BY ProcsAssumption
    <2>2. Stamp \in Surjection(Procs, own)
      BY <2>1 DEF Surjection
    <2> QED
      BY <2>1, <2>2, FS_Surjection
  <1>2. own \subseteq Nat /\ Stamps = own \cup Old
    BY ProcsAssumption DEF Stamps
  <1> HIDE DEF own
  <1> QED
    BY <1>1, <1>2, ProcsAssumption, FS_Union

LEMMA FiniteNewer ==
  ASSUME NEW S, S \subseteq Stamps, NEW s
  PROVE  IsFiniteSet(Newer(s, S)) /\ Cardinality(Newer(s, S)) \in Nat
  BY FiniteStamps, FS_Subset, FS_CardinalityType DEF Newer

\* More snapshots newer than s, and it may still go.
LEMMA MoreNewer ==
  ASSUME NEW S, S \subseteq Stamps, NEW T, T \subseteq Stamps, NEW s, NEW t,
         Newer(s, S) \subseteq Newer(t, T), Cardinality(Newer(s, S)) >= Keep
  PROVE  Cardinality(Newer(t, T)) >= Keep
  BY FiniteNewer, FS_Subset, ParameterAssumption

\* The oldest of some stamps is one of them.
LEMMA OldestIn == ASSUME NEW S, S \subseteq Stamps, S # {} PROVE Oldest(S) \in S
  <1>1. S \subseteq Nat
    BY FiniteStamps
  <1>2. \E s \in S : \A t \in S : ~ (<< t, s >> \in OpToRel(<, Nat))
    BY <1>1, NatLessThanWellFounded, WFMin
  <1>3. \A s, t \in S : t < s => << t, s >> \in OpToRel(<, Nat)
    BY <1>1 DEF OpToRel
  <1>4. \E s \in S : \A t \in S : s <= t
    <2>1. PICK s \in S : \A t \in S : ~ (<< t, s >> \in OpToRel(<, Nat))
      BY <1>2
    <2>2. \A t \in S : ~ (t < s)
      BY <2>1, <1>3
    <2> QED
      BY <1>1, <2>2
  <1> QED
    BY <1>4 DEF Oldest

LEMMA CountedType == TypeOK => Counted \subseteq Stamps
  BY DEF TypeOK, Counted, listSnapshots, Remaking

LEMMA InitKept == Init => KeptInv
  <1> SUFFICES ASSUME Init PROVE KeptInv
    OBVIOUS
  <1>1. /\ published = Old /\ \A s \in Old : db[s] # None
        /\ \A s \in Stamps : db[s] # None => s \in Old
        /\ \A p \in Procs : doomed[p] = {} /\ pc[p] \in {"throttle", "cleanTmp"}
    BY Names, NoneAssumption DEF Init
  <1> QED
    BY <1>1 DEF KeptInv, NewestAreKept, listSnapshots

\* Beside the deletions of a prune, nothing that counts is lost.
LEMMA StepKept ==
  ASSUME TypeOK, TypeOK', KeptInv, Counted \subseteq Counted',
         listSnapshots' \subseteq published',
         \A q \in Procs : \A s \in doomed'[q] : s \in doomed[q] \/ Enough(s),
         \A s \in published' : db'[s] = None =>
            s \in Remaking' \/ (s \in published \ Remaking /\ db[s] = None),
         \A q \in Procs : pc'[q] \in {"pruneDb", "pruneReceipt"} => doomed'[q] # {}
  PROVE  KeptInv'
  <1>1. \A s : Enough(s) => Enough(s)'
    <2> SUFFICES ASSUME NEW s, Enough(s) PROVE Enough(s)'
      OBVIOUS
    <2>1. Counted \subseteq Stamps /\ Counted' \subseteq Stamps
      BY DEF TypeOK, Counted, listSnapshots, Remaking
    <2>2. Newer(s, Counted) \subseteq Newer(s, Counted')
      BY DEF Newer
    <2>3. Cardinality(Newer(s, Counted)) >= Keep /\ Keep > 0
      BY DEF Enough, Counted
    <2>4. Cardinality(Newer(s, Counted')) >= Keep
      BY <2>1, <2>2, <2>3, MoreNewer
    <2> QED
      BY <2>3, <2>4 DEF Enough, Counted, Newer
  <1>2. \A q \in Procs : \A s \in doomed'[q] : Enough(s)'
    BY <1>1 DEF KeptInv
  <1>3. NewestAreKept'
    BY <1>1 DEF KeptInv, NewestAreKept
  <1> QED
    BY <1>2, <1>3 DEF KeptInv

Unmade(p) == pc[p] \in Making \/ outcome[p] \in {"unpublished", "lost rows"}

LEMMA RemakingStays ==
  ASSUME NEW p \in Procs, \A q \in Procs \ {p} : pc'[q] = pc[q] /\ outcome'[q] = outcome[q],
         published \subseteq published'
  PROVE  /\ Remaking \ {Stamp[p]} \subseteq Remaking'
         /\ (Unmade(p) => Unmade(p)') => Remaking \subseteq Remaking'
  BY DEF Remaking, Unmade, Name

\* A step of one process that deletes and publishes nothing, and lists nothing.
LEMMA NothingGone ==
  ASSUME TypeOK, TypeOK', KeptInv, NEW p \in Procs,
         \A q \in Procs \ {p} : pc'[q] = pc[q] /\ outcome'[q] = outcome[q],
         Unmade(p) => Unmade(p)',
         pc'[p] \notin {"pruneDb", "pruneReceipt"},
         UNCHANGED << db, doomed, published >>
  PROVE  KeptInv'
  <1>1. Remaking \subseteq Remaking' /\ listSnapshots' = listSnapshots
    BY RemakingStays DEF listSnapshots
  <1>2. \A s \in published' : db'[s] = None =>
          s \in Remaking' \/ (s \in published \ Remaking /\ db[s] = None)
    BY <1>1
  <1>3. \A q \in Procs : pc'[q] \in {"pruneDb", "pruneReceipt"} => doomed'[q] # {}
    BY DEF KeptInv
  <1>4. Counted \subseteq Counted' /\ listSnapshots' \subseteq published'
    BY <1>1 DEF Counted, KeptInv
  <1> QED
    BY <1>2, <1>3, <1>4, StepKept

LEMMA LeaveKept ==
  ASSUME TypeOK, TypeOK', OwnInv, KeptInv, NEW p \in Procs, pc[p] # "end", End(p, Left(p)),
         UNCHANGED << rows, whole, locals, disk, doomed, history >>
  PROVE  KeptInv'
  <1>1. outcome[p] = "running"
    BY DEF OwnInv
  <1>2. Unmade(p) => Unmade(p)'
    <2>1. pc'[p] = "end" /\ outcome'[p] = Left(p)
      BY DEF End, TypeOK
    <2> QED
      BY <1>1, <2>1 DEF Unmade, Left, Starting, Making, Describing
  <1> QED
    BY <1>2, NothingGone DEF End, TypeOK, locals, disk, history

LEMMA ProcessKept ==
  ASSUME TypeOK, TypeOK', OwnInv, KeptInv, NEW p \in Procs, backup(p)
  PROVE  KeptInv'
  <1> USE DEF Go, End, Name, Remove, locals, disk, history
  <1>0. (pc[p] = "end" \/ outcome[p] = "running") /\ Stamp[p] \in Stamps
    BY Names DEF OwnInv
  <1>1. CASE maybeAutoBackup(p)
    BY <1>0, <1>1, NothingGone DEF maybeAutoBackup, TypeOK, Unmade, Making
  <1>2. CASE removeStaleTmp(p)
    BY <1>0, <1>2, NothingGone DEF removeStaleTmp, TypeOK, Unmade, Making
  <1>3. CASE vacuumInto(p)
    BY <1>0, <1>3, NothingGone DEF vacuumInto, TypeOK, Unmade, Making
  <1>4. CASE finishVacuum(p)
    BY <1>0, <1>4, NothingGone DEF finishVacuum, TypeOK, Unmade, Making
  <1>5. CASE countSource(p)
    BY <1>0, <1>5, NothingGone DEF countSource, TypeOK, Unmade, Making
  <1>6. CASE verifySnapshot(p)
    BY <1>0, <1>6, NothingGone DEF verifySnapshot, TypeOK, Unmade, Making
  <1>7. CASE compareCounts(p)
    <2>1. \/ pc' = [pc EXCEPT ![p] = "publish"] /\ outcome' = outcome
          \/ pc' = [pc EXCEPT ![p] = "end"] /\ outcome' = [outcome EXCEPT ![p] = "lost rows"]
      BY <1>7 DEF compareCounts
    <2> QED
      BY <1>0, <1>7, <2>1, NothingGone DEF compareCounts, TypeOK, Unmade, Making
  <1>8. CASE failCaught(p)
    BY <1>0, <1>8, NothingGone DEF failCaught, TypeOK, Unmade, Making
  <1>9. CASE digestFile(p)
    BY <1>0, <1>9, NothingGone DEF digestFile, TypeOK, Unmade, Making
  <1>10. CASE writeReceipt(p)
    BY <1>0, <1>10, NothingGone DEF writeReceipt, TypeOK, Unmade, Making
  <1>11. CASE failUncaught(p)
    BY <1>11, LeaveKept DEF failUncaught
  <1>12. CASE removeStaleFinal(p)
    <2>1. /\ pc[p] = "cleanFinal" /\ pc' = [pc EXCEPT ![p] = "vacuum"]
          /\ db' = [db EXCEPT ![Stamp[p]] = None]
          /\ UNCHANGED << doomed, outcome, published >>
      BY <1>12 DEF removeStaleFinal
    <2>2. Remaking \subseteq Remaking'
      <3>1. \A q \in Procs \ {p} : pc'[q] = pc[q] /\ outcome'[q] = outcome[q]
        BY <2>1 DEF TypeOK
      <3>2. Unmade(p)'
        BY <2>1 DEF TypeOK, Unmade, Making
      <3> QED
        BY <2>1, <3>1, <3>2, RemakingStays
    <2>3. Stamp[p] \in published => Stamp[p] \in Remaking'
      BY <2>1 DEF Remaking, TypeOK, Making
    <2>4. /\ listSnapshots' = listSnapshots \ {Stamp[p]}
          /\ \A s \in Stamps \ {Stamp[p]} : db'[s] = db[s]
      BY <1>0, <2>1 DEF listSnapshots, TypeOK
    <2>5. Counted \subseteq Counted' /\ listSnapshots' \subseteq published'
      BY <2>1, <2>2, <2>3, <2>4 DEF Counted, KeptInv
    <2>6. \A s \in published' : db'[s] = None =>
            s \in Remaking' \/ (s \in published \ Remaking /\ db[s] = None)
      BY <2>1, <2>2, <2>3, <2>4 DEF TypeOK
    <2>7. \A q \in Procs : pc'[q] \in {"pruneDb", "pruneReceipt"} => doomed'[q] # {}
      BY <2>1 DEF KeptInv, TypeOK
    <2> QED
      BY <2>1, <2>5, <2>6, <2>7, StepKept
  <1>13. CASE publish(p)
    <2>1. /\ tmp[Stamp[p]] # None
          /\ pc[p] = "publish" /\ pc' = [pc EXCEPT ![p] = "digest"]
          /\ db' = [db EXCEPT ![Stamp[p]] = tmp[Stamp[p]]]
          /\ published' = published \cup {Stamp[p]}
          /\ UNCHANGED << doomed, outcome >>
      BY <1>13 DEF publish
    <2>2. Remaking \ {Stamp[p]} \subseteq Remaking'
      <3>1. \A q \in Procs \ {p} : pc'[q] = pc[q] /\ outcome'[q] = outcome[q]
        BY <2>1 DEF TypeOK
      <3> QED
        BY <2>1, <3>1, RemakingStays
    <2>3. /\ listSnapshots' = listSnapshots \cup {Stamp[p]} /\ db'[Stamp[p]] # None
          /\ \A s \in Stamps \ {Stamp[p]} : db'[s] = db[s]
      BY <1>0, <2>1 DEF listSnapshots, TypeOK
    <2>4. Counted \subseteq Counted' /\ listSnapshots' \subseteq published'
      BY <2>1, <2>2, <2>3 DEF Counted, KeptInv
    <2>5. \A s \in published' : db'[s] = None =>
            s \in Remaking' \/ (s \in published \ Remaking /\ db[s] = None)
      BY <2>1, <2>2, <2>3 DEF TypeOK
    <2>6. \A q \in Procs : pc'[q] \in {"pruneDb", "pruneReceipt"} => doomed'[q] # {}
      BY <2>1 DEF KeptInv, TypeOK
    <2> QED
      BY <2>1, <2>4, <2>5, <2>6, StepKept
  <1>14. CASE listDoomed(p)
    <2>1. PICK seen \in {listSnapshots, {}} :
            /\ doomed' = [doomed EXCEPT ![p] = Surplus(seen)]
            /\ IF Surplus(seen) = {}
               THEN pc' = [pc EXCEPT ![p] = "end"] /\ outcome' = [outcome EXCEPT ![p] = "ok"]
               ELSE pc' = [pc EXCEPT ![p] = "pruneDb"] /\ outcome' = outcome
      BY <1>14 DEF listDoomed
    <2>2. pc[p] = "list" /\ UNCHANGED << db, published >>
      BY <1>14 DEF listDoomed
    <2>3. \A q \in Procs \ {p} : pc'[q] = pc[q] /\ outcome'[q] = outcome[q]
      BY <2>1 DEF TypeOK
    <2>4. ~ Unmade(p)
      BY <1>0, <2>2 DEF Unmade, Making
    <2>5. Remaking \subseteq Remaking' /\ listSnapshots' = listSnapshots
      BY <2>2, <2>3, <2>4, RemakingStays DEF listSnapshots
    <2>6. \A s \in Surplus(seen) : Enough(s)
      <3> SUFFICES ASSUME NEW s \in Surplus(seen) PROVE Enough(s)
        OBVIOUS
      <3>1. seen = listSnapshots /\ Keep > 0 /\ Cardinality(Newer(s, listSnapshots)) >= Keep
        BY <2>1 DEF Surplus
      <3>2. Newer(s, listSnapshots) \subseteq Newer(s, Counted)
        BY DEF Newer, Counted
      <3>3. listSnapshots \subseteq Stamps /\ Counted \subseteq Stamps
        BY CountedType DEF listSnapshots
      <3>4. Cardinality(Newer(s, Counted)) >= Keep
        BY <3>1, <3>2, <3>3, MoreNewer
      <3> QED
        BY <3>1, <3>4 DEF Enough, Counted
    <2>7. \A q \in Procs : \A s \in doomed'[q] : s \in doomed[q] \/ Enough(s)
      BY <2>1, <2>6 DEF TypeOK
    <2>8. \A q \in Procs : pc'[q] \in {"pruneDb", "pruneReceipt"} => doomed'[q] # {}
      BY <2>1 DEF KeptInv, TypeOK
    <2>9. \A s \in published' : db'[s] = None =>
            s \in Remaking' \/ (s \in published \ Remaking /\ db[s] = None)
      BY <2>2, <2>5
    <2>10. Counted \subseteq Counted' /\ listSnapshots' \subseteq published'
      BY <2>2, <2>5 DEF Counted, KeptInv
    <2> QED
      BY <2>7, <2>8, <2>9, <2>10, StepKept
  <1>15. CASE pruneDb(p)
    <2> DEFINE o == Oldest(doomed[p])
    <2>1. /\ db' = [db EXCEPT ![o] = None] /\ UNCHANGED << doomed, published, outcome >>
          /\ pc[p] = "pruneDb" /\ pc' = [pc EXCEPT ![p] = "pruneReceipt"]
      BY <1>15 DEF pruneDb
    <2>2. o \in doomed[p] /\ o \in Stamps /\ Enough(o)
      BY <2>1, OldestIn DEF KeptInv, TypeOK
    <2> HIDE DEF o
    <2>3. Remaking' = Remaking
      BY <2>1 DEF Remaking, TypeOK, Making
    <2>4. /\ listSnapshots' = listSnapshots \ {o}
          /\ Counted \subseteq Stamps /\ Counted' \subseteq Stamps /\ Counted \ {o} \subseteq Counted'
      BY <2>1, <2>2, <2>3, CountedType DEF listSnapshots, Counted, TypeOK
    <2>5. ASSUME NEW s \in Stamps, Enough(s) PROVE Enough(s)'
      <3>1. \A x \in Stamps : x \in Nat
        BY FiniteStamps
      <3>2. /\ Cardinality(Newer(s, Counted)) >= Keep /\ Cardinality(Newer(o, Counted)) >= Keep
            /\ Keep > 0
        BY <2>2, <2>5 DEF Enough, Counted
      <3>3. CASE o > s
        <4>1. Newer(o, Counted) \subseteq Newer(s, Counted')
          BY <2>2, <2>4, <3>1, <3>3 DEF Newer
        <4>2. Cardinality(Newer(s, Counted')) >= Keep
          BY <2>4, <3>2, <4>1, MoreNewer
        <4> QED
          BY <3>2, <4>2 DEF Enough, Counted, Newer
      <3>4. CASE ~ (o > s)
        <4>1. Newer(s, Counted) \subseteq Newer(s, Counted')
          BY <2>2, <2>4, <3>1, <3>4 DEF Newer
        <4>2. Cardinality(Newer(s, Counted')) >= Keep
          BY <2>4, <3>2, <4>1, MoreNewer
        <4> QED
          BY <3>2, <4>2 DEF Enough, Counted, Newer
      <3> QED
        BY <3>3, <3>4
    <2>6. \A q \in Procs : \A s \in doomed'[q] : Enough(s)'
      BY <2>1, <2>5 DEF KeptInv, TypeOK
    <2>7. NewestAreKept'
      <3> SUFFICES ASSUME NEW s \in published, s \notin Remaking, db'[s] = None PROVE Enough(s)'
        BY <2>1, <2>3 DEF NewestAreKept
      <3>1. s \in Stamps /\ (s = o \/ db[s] = None)
        BY <2>1, <2>2 DEF TypeOK
      <3> QED
        BY <2>2, <2>5, <3>1 DEF KeptInv, NewestAreKept
    <2>8. \A q \in Procs : pc'[q] \in {"pruneDb", "pruneReceipt"} => doomed'[q] # {}
      BY <2>1 DEF KeptInv, TypeOK
    <2> QED
      BY <2>1, <2>4, <2>6, <2>7, <2>8 DEF KeptInv
  <1>16. CASE pruneReceipt(p)
    <2> DEFINE o == Oldest(doomed[p])
    <2>1. /\ UNCHANGED << db, published >> /\ doomed' = [doomed EXCEPT ![p] = @ \ {o}]
          /\ pc[p] = "pruneReceipt"
          /\ IF doomed[p] = {o}
             THEN pc' = [pc EXCEPT ![p] = "end"] /\ outcome' = [outcome EXCEPT ![p] = "ok"]
             ELSE pc' = [pc EXCEPT ![p] = "pruneDb"] /\ outcome' = outcome
      BY <1>16 DEF pruneReceipt
    <2> HIDE DEF o
    <2>2. \A q \in Procs \ {p} : pc'[q] = pc[q] /\ outcome'[q] = outcome[q]
      BY <2>1 DEF TypeOK
    <2>3. ~ Unmade(p)
      BY <1>0, <2>1 DEF Unmade, Making
    <2>4. Remaking \subseteq Remaking' /\ listSnapshots' = listSnapshots
      BY <2>1, <2>2, <2>3, RemakingStays DEF listSnapshots
    <2>5. \A q \in Procs : doomed'[q] \subseteq doomed[q]
      BY <2>1 DEF TypeOK
    <2>6. \A q \in Procs : pc'[q] \in {"pruneDb", "pruneReceipt"} => doomed'[q] # {}
      BY <2>1 DEF KeptInv, TypeOK
    <2>7. \A s \in published' : db'[s] = None =>
            s \in Remaking' \/ (s \in published \ Remaking /\ db[s] = None)
      BY <2>1, <2>4
    <2>8. Counted \subseteq Counted' /\ listSnapshots' \subseteq published'
      BY <2>1, <2>4 DEF Counted, KeptInv
    <2> QED
      BY <2>5, <2>6, <2>7, <2>8, StepKept
  <1> QED
    BY <1>1, <1>2, <1>3, <1>4, <1>5, <1>6, <1>7, <1>8,
       <1>9, <1>10, <1>11, <1>12, <1>13, <1>14, <1>15, <1>16 DEF backup, backupCorpus

LEMMA NextKept ==
  ASSUME TypeOK, TypeOK', OwnInv, KeptInv, [Next]_vars PROVE KeptInv'
  <1>1. ASSUME NEW p \in Procs, Kill(p) PROVE KeptInv'
    BY <1>1, LeaveKept DEF Kill
  <1>2. ASSUME UNCHANGED << pc, db, doomed, outcome, published >> PROVE KeptInv'
    BY <1>2 DEF KeptInv, NewestAreKept, Remaking, Enough, listSnapshots
  <1>3. CASE Insert
    BY <1>2, <1>3 DEF Insert, disk, history
  <1>4. CASE UNCHANGED vars
    BY <1>2, <1>4 DEF vars
  <1> QED
    BY <1>1, <1>3, <1>4, ProcessKept DEF Next, AllDone

\* Retention keeps the newest, though backups overlap, prune each other's
\* listings, remake each other's names and die in the middle (backup.ts:205-214).
THEOREM RetentionKeepsNewest == Spec => []NewestAreKept
  <1>1. KeptInv => NewestAreKept
    BY DEF KeptInv
  <1> QED
    BY <1>1, InitTypes, NextTypes, InitOwned, NextOwned, InitKept, NextKept, PTL DEF Spec

=============================================================================
