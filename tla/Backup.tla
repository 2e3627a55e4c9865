------------------------------- MODULE Backup -------------------------------
(***************************************************************************)
(* Snapshots of the corpus (src/src/backup.ts).  `usewarden backup` and    *)
(* the automatic backup of a session_end hook are processes of their own   *)
(* that share one directory, while hooks keep writing to the database.     *)
(* File names carry a stamp of one second, so two backups of one second    *)
(* share their three names.  A file written by a process is known by that  *)
(* process, whatever name it goes by now.                                  *)
(***************************************************************************)
EXTENDS Integers, FiniteSets

CONSTANTS
  Procs,     \* backup processes
  Throttled, \* those started by session_end, which are throttled
  Stamp,     \* the second in which each one starts
  Old,       \* stamps of the snapshots already in the directory
  Keep,      \* backup.keep, 0 keeps everything
  Every,     \* backup.every_hours, in the unit of the stamps
  MaxRows,   \* bound on the rows that hooks add meanwhile
  CanFail,   \* may a process be killed, or a file operation throw?
  None       \* no file

Stamps == {Stamp[p] : p \in Procs} \cup Old

\* A snapshot that was there before is known by its stamp.
Files == Procs \cup Old

ASSUME ProcsAssumption ==
  /\ Throttled \subseteq Procs /\ IsFiniteSet(Procs) /\ IsFiniteSet(Old)
  /\ Stamp \in [Procs -> Nat] /\ Old \subseteq Nat /\ Procs \cap Old = {}
ASSUME ParameterAssumption ==
  Keep \in Nat /\ Every \in Nat /\ MaxRows \in Nat /\ CanFail \in BOOLEAN
ASSUME NoneAssumption == None \notin Files

VARIABLES
  pc,        \* the operation each process performs next
  rows,      \* rows committed to the database
  whole,     \* the files that hold a complete database
  taken,     \* rows in each process's snapshot
  counted,   \* sourceCounts, a local of backupCorpus
  checked,   \* the file each process opened and verified
  tmp,       \* which file is named <stamp>.db.partial
  db,        \* which file is named <stamp>.db
  receipt,   \* <stamp>.json: the file its sha256 and counts describe
  doomed,    \* stamps still to be deleted by prune
  outcome,   \* how far the process had got when it ended
  published, \* history: stamps that were ever renamed into place
  crossed    \* history: stamps under which two backups were at work at a time

vars == <<pc, rows, whole, taken, counted, checked, tmp, db, receipt, doomed,
          outcome, published, crossed>>

locals  == <<taken, counted, checked>>
disk    == <<tmp, db, receipt>>
history == <<published, crossed>>

Starting   == {"throttle", "cleanTmp", "cleanFinal"}
Making     == {"vacuum", "finish", "count", "verify", "compare", "publish"}
Describing == {"digest", "receipt"}
Pruning    == {"list", "pruneDb", "pruneReceipt"}
Steps      == Starting \cup Making \cup Describing \cup Pruning \cup {"end"}

Outcomes == {"running", "ok", "skipped", "lost rows", "not begun", "unpublished",
             "no receipt", "not pruned"}

Init ==
  /\ pc = [p \in Procs |-> IF p \in Throttled THEN "throttle" ELSE "cleanTmp"]
  /\ rows = 0
  /\ whole = Old
  /\ taken = [p \in Procs |-> 0]
  /\ counted = [p \in Procs |-> 0]
  /\ checked = [p \in Procs |-> None]
  /\ tmp = [s \in Stamps |-> None]
  /\ db = [s \in Stamps |-> IF s \in Old THEN s ELSE None]
  /\ receipt = db
  /\ doomed = [p \in Procs |-> {}]
  /\ outcome = [p \in Procs |-> "running"]
  /\ published = Old
  /\ crossed = {}

Go(p, from, to) == pc[p] = from /\ pc' = [pc EXCEPT ![p] = to]

End(p, how) ==
  /\ pc' = [pc EXCEPT ![p] = "end"]
  /\ outcome' = [outcome EXCEPT ![p] = how]

\* What a process leaves that is killed, or whose error is not caught, here.
Left(p) ==
  CASE pc[p] \in Starting   -> "not begun"
    [] pc[p] \in Making     -> "unpublished"
    [] pc[p] \in Describing -> "no receipt"
    [] OTHER                -> "not pruned"

Name(p) == Stamp[p]

\* At work under its three names.
Busy(p) == pc[p] \in {"cleanFinal"} \cup Making \cup Describing

\* fs.rmSync(..., { force: true }): no error when there is nothing to remove.
Remove(dir, s) == [dir EXCEPT ![s] = None]

listSnapshots == {s \in Stamps : db[s] # None}

Newest == CHOOSE s \in listSnapshots : \A t \in listSnapshots : t <= s

\* ageOfNewest goes by the time the newest snapshot was last written, at or after
\* the second in its name; nothing is known of it when stat fails.
due(p) == listSnapshots # {} => CanFail \/ Stamp[p] - Newest >= Every

\* maybeAutoBackup: nothing is done while the newest snapshot is young enough, nor
\* for a database too big to be copied inside a hook.
maybeAutoBackup(p) ==
  /\ pc[p] = "throttle"
  /\ \/ End(p, "skipped")
     \/ due(p) /\ Go(p, "throttle", "cleanTmp") /\ UNCHANGED outcome
  /\ UNCHANGED <<rows, whole, locals, disk, doomed, history>>

\* The files of an earlier run in the same second are removed first.
removeStaleTmp(p) ==
  /\ Go(p, "cleanTmp", "cleanFinal")
  /\ tmp' = Remove(tmp, Name(p))
  /\ crossed' = crossed \cup {Name(q) : q \in {q \in Procs : Busy(q) /\ Name(q) = Name(p)}}
  /\ UNCHANGED <<rows, whole, locals, db, receipt, doomed, outcome, published>>

removeStaleFinal(p) ==
  /\ Go(p, "cleanFinal", "vacuum")
  /\ db' = Remove(db, Name(p))
  /\ UNCHANGED <<rows, whole, locals, tmp, receipt, doomed, outcome, history>>

\* VACUUM INTO reads one committed snapshot, and refuses a file that exists.
vacuumInto(p) ==
  /\ tmp[Name(p)] = None
  /\ Go(p, "vacuum", "finish")
  /\ tmp' = [tmp EXCEPT ![Name(p)] = p]
  /\ taken' = [taken EXCEPT ![p] = rows]
  /\ UNCHANGED <<rows, whole, counted, checked, db, receipt, doomed,
                 outcome, history>>

finishVacuum(p) ==
  /\ Go(p, "finish", "count")
  /\ whole' = whole \cup {p}
  /\ UNCHANGED <<rows, locals, disk, doomed, outcome, history>>

\* Mutation: the snapshot is not opened before it is published.
countUnverified(p) ==
  /\ Go(p, "count", "publish")
  /\ counted' = [counted EXCEPT ![p] = rows]
  /\ UNCHANGED <<rows, whole, taken, checked, disk, doomed, outcome, history>>

\* sourceCounts: a statement of its own, in a later transaction.
countSource(p) ==
  /\ Go(p, "count", "verify")
  /\ counted' = [counted EXCEPT ![p] = rows]
  /\ UNCHANGED <<rows, whole, taken, checked, disk, doomed, outcome, history>>

\* The temporary file is opened by name, checked and counted.
verifySnapshot(p) ==
  /\ tmp[Name(p)] \in whole
  /\ Go(p, "verify", "compare")
  /\ checked' = [checked EXCEPT ![p] = tmp[Name(p)]]
  /\ UNCHANGED <<rows, whole, taken, counted, disk, doomed, outcome, history>>

compareCounts(p) ==
  /\ pc[p] = "compare"
  /\ IF taken[checked[p]] = counted[p]
     THEN Go(p, "compare", "publish") /\ UNCHANGED <<outcome, tmp>>
     ELSE End(p, "lost rows") /\ tmp' = Remove(tmp, Name(p))
  /\ UNCHANGED <<rows, whole, locals, db, receipt, doomed, history>>

\* The failures inside the two try blocks: the temporary file is removed and
\* the error rethrown.  Another process's file under that name goes with it.
failCaught(p) ==
  /\ \/ pc[p] = "vacuum" /\ (tmp[Name(p)] # None \/ CanFail)
     \/ pc[p] \in {"finish", "count"} /\ CanFail
     \/ pc[p] = "verify" /\ (tmp[Name(p)] \notin whole \/ CanFail)
  /\ End(p, "unpublished")
  /\ tmp' = Remove(tmp, Name(p))
  /\ UNCHANGED <<rows, whole, locals, db, receipt, doomed, history>>

\* chmod and rename.
publish(p) ==
  /\ tmp[Name(p)] # None
  /\ Go(p, "publish", "digest")
  /\ db' = [db EXCEPT ![Name(p)] = tmp[Name(p)]]
  /\ tmp' = Remove(tmp, Name(p))
  /\ published' = published \cup {Name(p)}
  /\ UNCHANGED <<rows, whole, locals, receipt, doomed, outcome, crossed>>

\* Mutation: the newest snapshot is taken for one's own.
digestNewest(p) ==
  /\ db[Name(p)] # None
  /\ Go(p, "digest", "receipt")
  /\ checked' = [checked EXCEPT ![p] = db[Newest]]
  /\ UNCHANGED <<rows, whole, taken, counted, disk, doomed, outcome, history>>

\* stat and sha256 read the published file again, by name.
digestFile(p) ==
  /\ db[Name(p)] # None
  /\ Go(p, "digest", "receipt")
  /\ checked' = [checked EXCEPT ![p] = db[Name(p)]]
  /\ UNCHANGED <<rows, whole, taken, counted, disk, doomed, outcome, history>>

writeReceipt(p) ==
  /\ Go(p, "receipt", "list")
  /\ receipt' = [receipt EXCEPT ![Name(p)] = checked[p]]
  /\ UNCHANGED <<rows, whole, locals, tmp, db, doomed, outcome, history>>

\* Failures outside the try blocks, a database that is not there among them:
\* nothing is cleaned up.
failUncaught(p) ==
  /\ \/ pc[p] = "publish" /\ tmp[Name(p)] = None
     \/ pc[p] = "digest" /\ db[Name(p)] = None
     \/ /\ CanFail
        /\ pc[p] \in {"cleanTmp", "cleanFinal", "publish", "digest", "receipt",
                     "pruneDb", "pruneReceipt"}
  /\ End(p, Left(p))
  /\ UNCHANGED <<rows, whole, locals, disk, doomed, history>>

\* prune: the names are listed once, then the oldest are deleted one by one.
Newer(s, S) == {t \in S : t > s}

\* Mutation: off by one, the oldest of the snapshots to keep is deleted too.
SurplusByOne(seen) ==
  {s \in seen : Keep > 0 /\ Cardinality(Newer(s, seen)) + 1 >= Keep}

\* All but the newest Keep.
Surplus(seen) == {s \in seen : Keep > 0 /\ Cardinality(Newer(s, seen)) >= Keep}

\* A directory that cannot be read is taken for an empty one.
listDoomed(p) ==
  /\ pc[p] = "list"
  /\ \E seen \in IF CanFail THEN {listSnapshots, {}} ELSE {listSnapshots} :
     /\ doomed' = [doomed EXCEPT ![p] = Surplus(seen)]
     /\ IF Surplus(seen) = {} THEN End(p, "ok")
        ELSE Go(p, "list", "pruneDb") /\ UNCHANGED outcome
  /\ UNCHANGED <<rows, whole, locals, disk, history>>

Oldest(S) == CHOOSE s \in S : \A t \in S : s <= t

pruneDb(p) ==
  /\ Go(p, "pruneDb", "pruneReceipt")
  /\ db' = Remove(db, Oldest(doomed[p]))
  /\ UNCHANGED <<rows, whole, locals, tmp, receipt, doomed, outcome, history>>

\* Mutation: the next round starts with the same stamp.
pruneSameAgain(p) ==
  /\ Go(p, "pruneReceipt", "pruneDb")
  /\ receipt' = Remove(receipt, Oldest(doomed[p]))
  /\ UNCHANGED <<rows, whole, locals, tmp, db, doomed, outcome, history>>

pruneReceipt(p) ==
  /\ pc[p] = "pruneReceipt"
  /\ LET s == Oldest(doomed[p]) IN
     /\ receipt' = Remove(receipt, s)
     /\ doomed' = [doomed EXCEPT ![p] = @ \ {s}]
     /\ IF doomed[p] = {s} THEN End(p, "ok")
        ELSE Go(p, "pruneReceipt", "pruneDb") /\ UNCHANGED outcome
  /\ UNCHANGED <<rows, whole, locals, tmp, db, history>>

backupCorpus(p) ==
  \/ removeStaleTmp(p) \/ removeStaleFinal(p)
  \/ vacuumInto(p) \/ finishVacuum(p) \/ countSource(p)
  \/ verifySnapshot(p) \/ compareCounts(p) \/ failCaught(p)
  \/ publish(p) \/ digestFile(p) \/ writeReceipt(p) \/ failUncaught(p)
  \/ listDoomed(p) \/ pruneDb(p) \/ pruneReceipt(p)

backup(p) == maybeAutoBackup(p) \/ backupCorpus(p)

\* The hook timeout or the user kills the process.
Kill(p) ==
  /\ CanFail /\ pc[p] # "end"
  /\ End(p, Left(p))
  /\ UNCHANGED <<rows, whole, locals, disk, doomed, history>>

\* A hook commits a row.
Insert ==
  /\ rows < MaxRows
  /\ rows' = rows + 1
  /\ UNCHANGED <<pc, whole, locals, disk, doomed, outcome, history>>

AllDone == (\A p \in Procs : pc[p] = "end") /\ UNCHANGED vars

Next == (\E p \in Procs : backup(p) \/ Kill(p)) \/ Insert \/ AllDone

Spec     == Init /\ [][Next]_vars
FairSpec == Spec /\ \A p \in Procs : WF_vars(backup(p))
-----------------------------------------------------------------------------

\* Types of every variable.
TypeOK ==
  /\ pc \in [Procs -> Steps]
  /\ rows \in 0..MaxRows
  /\ whole \subseteq Files
  /\ taken \in [Procs -> 0..MaxRows] /\ counted \in [Procs -> 0..MaxRows]
  /\ checked \in [Procs -> Files \cup {None}]
  /\ tmp \in [Stamps -> Procs \cup {None}]
  /\ db \in [Stamps -> Files \cup {None}]
  /\ receipt \in [Stamps -> Files \cup {None}]
  /\ doomed \in [Procs -> SUBSET Stamps]
  /\ outcome \in [Procs -> Outcomes]
  /\ published \subseteq Stamps /\ crossed \subseteq Stamps

Verified(f) == f \in Old \/ \E p \in Procs : checked[p] = f /\ f \in whole

\* "a reader can never find a `usewarden-corpus-*.db` that has not passed
\* integrity_check" (src/src/backup.ts:129-130): a file under its final name was
\* opened and checked by somebody while it was whole, also when a later backup of
\* the same second replaced an earlier one.  Not under a name at which two backups
\* were at work at one time: one may rename into place what the other has only
\* begun to write.
SnapshotsAreVerified ==
  \A s \in Stamps \ crossed : db[s] # None => Verified(db[s])

\* It stands without its receipt: its backup is still to write it, or ended first.
Undescribed(f) ==
  f \in Procs /\ (pc[f] \in Describing \/ outcome[f] = "no receipt")

\* A receipt beside a snapshot describes that snapshot, whoever pruned in the
\* directory, whoever remade the name in the same second and wherever each was
\* killed.  The exceptions: the receipt of an earlier backup of the same second
\* stands beside the new snapshot until the new one is written, for ever when the
\* process ends first (nothing removes it, backup.ts:132-134); and names at which
\* two backups were at work at one time.
ReceiptDescribesItsSnapshot ==
  \A s \in Stamps \ crossed :
    db[s] # None /\ receipt[s] # None => receipt[s] = db[s] \/ Undescribed(db[s])

\* Names whose snapshot a later backup of the same second removed before its own
\* was in place, in which it has not succeeded yet, or never did.
Remaking ==
  {s \in published : \E p \in Procs :
     Name(p) = s /\ (pc[p] \in Making \/ outcome[p] \in {"unpublished", "lost rows"})}

\* A snapshot that may go: as many as are kept are newer, those counted that a
\* backup of their own second took away.
Enough(s) ==
  Keep > 0 /\ Cardinality(Newer(s, listSnapshots \cup Remaking)) >= Keep

\* Retention, and a second backup in the same second, are all that removes a
\* snapshot: one that is gone has Keep newer ones in its place, although backups
\* overlap, delete what others listed and die anywhere.
NewestAreKept ==
  \A s \in published \ Remaking : db[s] = None => Enough(s)

\* A backup inside a hook never holds the hook up for ever: whatever the other
\* backups delete or rename under it, it ends.
EveryBackupEnds == <>(\A p \in Procs : pc[p] = "end")

\* What the comment promises without exception, and what does not hold: with two
\* backups in one second, TLC finds a file under its final name that is still
\* being written.
NeverUnverified == \A s \in Stamps : db[s] # None => Verified(db[s])

\* Neither does this: a second backup in one second that is killed between rename
\* and receipt leaves its snapshot beside the receipt of the first.
ReceiptNeverStale ==
  \A s \in Stamps : db[s] # None /\ receipt[s] # None => receipt[s] = db[s]
=============================================================================
