----------------------- MODULE UncommittedGuardProofs -----------------------
(***************************************************************************)
(* scope.protect_uncommitted, for any files, sessions and histories: while *)
(* tool calls do not overlap with anybody's work, the first touch of a     *)
(* file never destroys what git cannot restore.  Overlapping or not, an    *)
(* agent is not refused a file it made.                                    *)
(***************************************************************************)
EXTENDS UncommittedGuard, TLAPS

\* The initial state satisfies the invariant.
LEMMA GuardInit == Init => GuardInv
<1> SUFFICES ASSUME Init PROVE GuardInv
  OBVIOUS
<1>1. TypeOK
  BY ParameterAssumption DEF Init, TypeOK, Calls
<1>2. OneCall /\ StillRecoverable /\ FirstTouchProtects
  BY DEF Init, OneCall, StillRecoverable, FirstTouchProtects, Idle
<1> QED
  BY <1>1, <1>2 DEF GuardInv

\* Every step keeps every variable in its type.
LEMMA GuardType == TypeOK /\ [Next]_vars => TypeOK'
<1> SUFFICES ASSUME TypeOK, [Next]_vars PROVE TypeOK'
  OBVIOUS
<1>0. pieces < MaxPieces =>
        pieces + 1 \in 0..MaxPieces /\ \A a \in Authors : NewPiece(a) \in Pieces
  BY ParameterAssumption DEF TypeOK, NewPiece, Pieces
<1> USE DEF TypeOK, Authors
<1>1. ASSUME NEW f \in Files, HumanSave(f) PROVE TypeOK'
  BY <1>0, <1>1 DEF HumanSave, content
<1>2. ASSUME NEW f \in Files, GitAdd(f) PROVE TypeOK'
  BY <1>2 DEF GitAdd
<1>3. ASSUME NEW f \in Files, GitCommit(f) PROVE TypeOK'
  BY <1>3 DEF GitCommit
<1>4. ASSUME NEW s \in Agents, NEW f \in Files, NEW as \in Spellings,
             NEW t \in Tools, Ask(s, f, as, t)
      PROVE  TypeOK'
  BY <1>4 DEF Ask, Calls, Tools, sessionHasWrittenTo
<1>5. ASSUME NEW s \in Agents, call[s] # Idle
      PROVE  /\ call[s] \in [at : {"asked", "recorded", "allowed"}, file : Files,
                             as : Spellings, tool : Tools, agentAuthored : BOOLEAN,
                             onRecord : BOOLEAN]
             /\ call[s].file \in Files /\ call[s].as \in Spellings
             /\ call[s].agentAuthored \in BOOLEAN
  BY <1>5 DEF Calls
<1>6. ASSUME NEW s \in Agents, recordEvent(s) PROVE TypeOK'
  <2>1. call[s] # Idle
    BY <1>6 DEF recordEvent, Idle
  <2> QED
    BY <1>5, <1>6, <2>1 DEF recordEvent, Calls
<1>7. ASSUME NEW s \in Agents, evaluateLayer1(s) PROVE TypeOK'
  <2>1. call[s] # Idle
    BY <1>7 DEF evaluateLayer1, Idle
  <2>2. CASE denied(s)
    <3>1. /\ call' = [call EXCEPT ![s] = Idle]
          /\ refused' = refused \cup {[session |-> s, file |-> call[s].file,
                                      own |-> isOwn(s)]}
          /\ UNCHANGED <<disk, index, committed, rows, pieces, wrote, created, lost>>
      BY <1>7, <2>2 DEF evaluateLayer1
    <3>2. call' \in [Agents -> Calls]
      BY <3>1 DEF Calls
    <3>3. call[s].file \in Files /\ isOwn(s) \in BOOLEAN
      BY <1>5, <2>1 DEF isOwn
    <3>4. refused' \subseteq [session : Agents, file : Files, own : BOOLEAN]
      <4> DEFINE own == isOwn(s)
                 r == [session |-> s, file |-> call[s].file, own |-> own]
      <4>1. \A b \in BOOLEAN : [session |-> s, file |-> call[s].file, own |-> b]
                                \in [session : Agents, file : Files, own : BOOLEAN]
        BY <3>3
      <4>2. r \in [session : Agents, file : Files, own : BOOLEAN]
        BY <3>3, <4>1, Zenon
      <4>3. refused' = refused \cup {r}
        BY <3>1
      <4> HIDE DEF r
      <4> QED
        BY <4>2, <4>3
    <3> QED
      BY <3>1, <3>2, <3>4
  <2>3. CASE ~denied(s)
    <3>1. [call[s] EXCEPT !.at = "allowed"] \in Calls
      BY <1>5, <2>1 DEF Calls
    <3> QED
      BY <1>7, <2>3, <3>1 DEF evaluateLayer1
  <2> QED
    BY <2>2, <2>3
<1>8. ASSUME NEW s \in Agents, Act(s) PROVE TypeOK'
  <2>1. call[s] # Idle
    BY <1>8 DEF Act, Idle
  <2>2. call[s].file \in Files /\ call[s].agentAuthored \in BOOLEAN
    BY <1>5, <2>1
  <2>3. content(call[s].file) \in SUBSET Pieces
    BY <2>2 DEF content
  <2>4. call' \in [Agents -> Calls]
    BY <1>8 DEF Act, Calls
  <2>5. CASE pieces < MaxPieces /\ (call[s].tool = "edit" => disk[call[s].file] # None)
    <3> DEFINE f == call[s].file
               loss(w) == [work |-> w, session |-> s, file |-> f,
                           agentAuthored |-> call[s].agentAuthored,
                           hadWritten |-> <<s, f>> \in wrote]
    <3>1. /\ disk' = [disk EXCEPT ![f] = {NewPiece(s)} \cup
                       (IF call[s].tool = "edit" THEN content(f) ELSE {})]
          /\ pieces' = pieces + 1
          /\ wrote' = wrote \cup {<<s, f>>}
          /\ created' = IF disk[f] = None /\ call[s].onRecord
                       THEN created \cup {<<s, f, call[s].as>>} ELSE created
          /\ UNCHANGED <<index, committed, rows, refused>>
      BY <1>8, <2>5 DEF Act
    <3>2. \A l \in lost' \ lost : \E w \in content(f) : l = loss(w)
      BY <1>8, <2>5 DEF Act
    <3>3. \A w \in Pieces : loss(w) \in [work : Pieces, session : Agents, file : Files,
                                  agentAuthored : BOOLEAN, hadWritten : BOOLEAN]
      BY <2>2
    <3>4. lost' \subseteq [work : Pieces, session : Agents, file : Files,
                          agentAuthored : BOOLEAN, hadWritten : BOOLEAN]
      <4> HIDE DEF loss
      <4> QED
        BY <2>3, <3>2, <3>3
    <3>5. disk' \in [Files -> (SUBSET Pieces) \cup {None}]
      BY <1>0, <2>2, <2>3, <2>5, <3>1
    <3>6. /\ wrote' \subseteq Agents \X Files
          /\ created' \subseteq Agents \X Files \X Spellings
      BY <1>5, <2>1, <2>2, <3>1
    <3> QED
      BY <1>0, <2>4, <2>5, <3>1, <3>4, <3>5, <3>6
  <2>6. CASE ~(pieces < MaxPieces /\ (call[s].tool = "edit" => disk[call[s].file] # None))
    BY <1>8, <2>4, <2>6 DEF Act
  <2> QED
    BY <2>5, <2>6
<1>9. CASE UNCHANGED vars
  BY <1>9 DEF vars
<1> QED
  BY <1>1, <1>2, <1>3, <1>4, <1>6, <1>7, <1>8, <1>9 DEF Next, Agent

\* Every step keeps the guard's verdict true until the write is made.
LEMMA GuardStep == Serial /\ GuardInv /\ [Next]_vars => GuardInv'
<1> SUFFICES ASSUME Serial, GuardInv, [Next]_vars
             PROVE  OneCall' /\ StillRecoverable' /\ FirstTouchProtects'
  BY GuardType DEF GuardInv
<1> USE DEF GuardInv
<1>1. ASSUME NEW f \in Files, HumanSave(f) \/ GitAdd(f) \/ GitCommit(f)
      PROVE  OneCall' /\ StillRecoverable' /\ FirstTouchProtects'
  <2>1. call' = call /\ lost' = lost /\ \A s \in Agents : call[s] = Idle
    BY <1>1 DEF HumanSave, GitAdd, GitCommit, Free
  <2> QED
    BY <2>1 DEF OneCall, StillRecoverable, FirstTouchProtects, Idle
<1>2. ASSUME NEW s \in Agents, NEW f \in Files, NEW as \in Spellings,
             NEW t \in Tools, Ask(s, f, as, t)
      PROVE  OneCall' /\ StillRecoverable' /\ FirstTouchProtects'
  <2>1. /\ \A x \in Agents : call[x] = Idle
        /\ \A x \in Agents \ {s} : call'[x] = Idle
        /\ call'[s].at = "asked" /\ lost' = lost
    BY <1>2 DEF Ask, Free, TypeOK
  <2> QED
    BY <2>1 DEF OneCall, StillRecoverable, FirstTouchProtects, Idle
<1>3. ASSUME NEW s \in Agents, recordEvent(s)
      PROVE  OneCall' /\ StillRecoverable' /\ FirstTouchProtects'
  <2>1. /\ call[s] # Idle /\ call'[s].at = "recorded"
        /\ \A x \in Agents \ {s} : call'[x] = call[x] /\ call[x] = Idle
        /\ lost' = lost
    BY <1>3 DEF recordEvent, OneCall, TypeOK, Calls, Idle
  <2> QED
    BY <2>1 DEF OneCall, StillRecoverable, FirstTouchProtects, Idle
<1>4. ASSUME NEW s \in Agents, evaluateLayer1(s)
      PROVE  OneCall' /\ StillRecoverable' /\ FirstTouchProtects'
  <2>1. /\ call[s] # Idle /\ call[s] \in Calls \ {Idle}
        /\ \A x \in Agents \ {s} : call'[x] = call[x] /\ call[x] = Idle
        /\ lost' = lost /\ disk' = disk /\ index' = index
    BY <1>4 DEF evaluateLayer1, OneCall, TypeOK, Idle
  <2>2. CASE denied(s)
    <3>1. call'[s] = Idle
      BY <1>4, <2>2 DEF evaluateLayer1, TypeOK
    <3> QED
      BY <2>1, <3>1 DEF OneCall, StillRecoverable, FirstTouchProtects, Idle
  <2>3. CASE ~denied(s)
    <3>1. call'[s] = [call[s] EXCEPT !.at = "allowed"]
      BY <1>4, <2>3 DEF evaluateLayer1, TypeOK
    <3>2. /\ call'[s].tool = call[s].tool /\ call'[s].file = call[s].file
          /\ call'[s].agentAuthored = call[s].agentAuthored
      BY <2>1, <3>1 DEF Calls
    <3>3. ~denied(s)'
      BY <2>1, <2>3, <3>2 DEF denied, gitFileState
    <3> QED
      BY <2>1, <3>3 DEF OneCall, StillRecoverable, FirstTouchProtects, Idle
  <2> QED
    BY <2>2, <2>3
<1>5. ASSUME NEW s \in Agents, Act(s)
      PROVE  OneCall' /\ StillRecoverable' /\ FirstTouchProtects'
  <2> DEFINE f == call[s].file
  <2>1. /\ call[s].at = "allowed" /\ call[s] # Idle /\ call'[s] = Idle
        /\ \A x \in Agents \ {s} : call'[x] = call[x] /\ call[x] = Idle
    BY <1>5 DEF Act, OneCall, TypeOK, Idle
  <2>2. OneCall' /\ StillRecoverable'
    BY <2>1 DEF OneCall, StillRecoverable, Idle
  <2>3. ~denied(s)
    BY <2>1 DEF StillRecoverable
  <2>4. ASSUME call[s].tool # "edit", ~call[s].agentAuthored
        PROVE  content(f) \subseteq IF index[f] = None THEN {} ELSE index[f]
    <3>1. call[s].tool = "write"
      BY <2>1, <2>4 DEF TypeOK, Calls, Tools
    <3>2. gitFileState(f) \in {"absent", "clean"}
      BY <2>3, <2>4, <3>1 DEF denied, isUnrecoverable, gitFileState
    <3> QED
      BY <3>2 DEF gitFileState, content
  <2>5. \A l \in lost' \ lost : l.agentAuthored
    BY <1>5, <2>4 DEF Act
  <2> QED
    BY <2>2, <2>5 DEF FirstTouchProtects
<1>6. CASE UNCHANGED vars
  BY <1>6 DEF vars, OneCall, StillRecoverable, FirstTouchProtects, denied,
     gitFileState
<1> QED
  BY <1>1, <1>2, <1>3, <1>4, <1>5, <1>6 DEF Next, Agent

\* The guard's promise, for every set of files and sessions: while calls do not
\* overlap, work git cannot restore is destroyed only by a session whose own
\* write or edit of that file is on record.
THEOREM FirstTouchSafe == Serial /\ Spec => []FirstTouchProtects
<1>1. ASSUME Serial PROVE GuardInv /\ [Next]_vars => GuardInv'
  BY <1>1, GuardStep
<1>2. GuardInv => FirstTouchProtects
  BY DEF GuardInv
<1>3. Serial => (Spec => []FirstTouchProtects)
  <2> SUFFICES ASSUME Serial PROVE Spec => []FirstTouchProtects
    OBVIOUS
  <2>1. GuardInv /\ [Next]_vars => GuardInv'
    BY <1>1
  <2> QED
    BY <2>1, <1>2, GuardInit, PTL DEF Spec
<1> QED
  BY <1>3
-----------------------------------------------------------------------------

(***************************************************************************)
(* A session's own files.  Here calls may overlap: nobody but the session  *)
(* itself adds to what it made, and it has one call under way at a time,   *)
(* so that what the question found on record is all there is to find.      *)
(***************************************************************************)

\* The call of s has its row.
HasRow(s) ==
  [session |-> s, file |-> call[s].file, as |-> call[s].as] \in rows

\* What a call on record made is on record, and the question saw it.
MadeIsOnRecord ==
  \A s \in Agents, f \in Files, as \in Spellings :
    <<s, f, as>> \in created => [session |-> s, file |-> f, as |-> as] \in rows

RecordedHasRow ==
  \A s \in Agents : call[s] # Idle => (call[s].onRecord => HasRow(s))

OwnIsAuthored ==
  \A s \in Agents : call[s] # Idle => (isOwn(s) => call[s].agentAuthored)

OwnInv == /\ TypeOK /\ MadeIsOnRecord /\ RecordedHasRow
          /\ OwnIsAuthored /\ OwnFilesStayWritable

\* A session owns a file exactly through a call on record that made it.
LEMMA OwnIsOnRecord ==
  ASSUME TypeOK, MadeIsOnRecord, NEW s \in Agents, NEW f \in Files, NEW as \in Spellings,
         NEW b \in {as, "abs"}, <<s, f, b>> \in created
  PROVE  sessionHasWrittenTo(s, f, as)
<1> DEFINE r == [session |-> s, file |-> f, as |-> b]
<1>1. b \in Spellings
  BY DEF TypeOK
<1>2. r \in rows
  BY <1>1 DEF MadeIsOnRecord
<1>3. r.session = s /\ r.file = f /\ r.as = b
  OBVIOUS
<1> HIDE DEF r
<1> QED
  BY <1>2, <1>3 DEF sessionHasWrittenTo

\* The initial state satisfies the invariant.
LEMMA OwnInit == Init => OwnInv
<1> SUFFICES ASSUME Init PROVE OwnInv
  OBVIOUS
<1>1. TypeOK
  BY GuardInit DEF GuardInv
<1> QED
  BY <1>1 DEF Init, OwnInv, MadeIsOnRecord, RecordedHasRow, OwnIsAuthored,
     OwnFilesStayWritable

\* Every step keeps what a session made on record, and its calls aware of it.
LEMMA OwnStep == OwnInv /\ [Next]_vars => OwnInv'
<1> SUFFICES ASSUME OwnInv, [Next]_vars
             PROVE  /\ MadeIsOnRecord' /\ RecordedHasRow'
                    /\ OwnIsAuthored' /\ OwnFilesStayWritable'
  BY GuardType DEF OwnInv
<1> USE DEF OwnInv
<1>0. \A s \in Agents : call[s] # Idle =>
        /\ call[s].file \in Files /\ call[s].as \in Spellings
        /\ call[s] \in [at : {"asked", "recorded", "allowed"}, file : Files,
                        as : Spellings, tool : Tools, agentAuthored : BOOLEAN,
                        onRecord : BOOLEAN]
  BY DEF TypeOK, Calls
<1>1. ASSUME UNCHANGED <<call, rows, created, refused>>
      PROVE  /\ MadeIsOnRecord' /\ RecordedHasRow'
             /\ OwnIsAuthored' /\ OwnFilesStayWritable'
  BY <1>1 DEF MadeIsOnRecord, RecordedHasRow, HasRow, OwnIsAuthored, isOwn,
     OwnFilesStayWritable
<1>2. ASSUME NEW s \in Agents, NEW f \in Files, NEW as \in Spellings,
             NEW t \in Tools, Ask(s, f, as, t)
      PROVE  /\ MadeIsOnRecord' /\ RecordedHasRow'
             /\ OwnIsAuthored' /\ OwnFilesStayWritable'
  <2>1. /\ \A x \in Agents \ {s} : call'[x] = call[x]
        /\ call'[s].file = f /\ call'[s].as = as /\ ~call'[s].onRecord
        /\ call'[s].agentAuthored = sessionHasWrittenTo(s, f, as)
        /\ rows' = rows /\ created' = created /\ refused' = refused
    BY <1>2 DEF Ask, TypeOK
  <2>2. isOwn(s)' => call'[s].agentAuthored
    BY <2>1, OwnIsOnRecord DEF isOwn
  <2> QED
    BY <2>1, <2>2 DEF MadeIsOnRecord, RecordedHasRow, HasRow, OwnIsAuthored, isOwn,
       OwnFilesStayWritable
<1>3. ASSUME NEW s \in Agents, recordEvent(s)
      PROVE  /\ MadeIsOnRecord' /\ RecordedHasRow'
             /\ OwnIsAuthored' /\ OwnFilesStayWritable'
  <2>1. call[s] # Idle
    BY <1>3 DEF recordEvent, Idle
  <2>2. /\ \A x \in Agents \ {s} : call'[x] = call[x]
        /\ call'[s].file = call[s].file /\ call'[s].as = call[s].as
        /\ call'[s].agentAuthored = call[s].agentAuthored
        /\ rows \subseteq rows' /\ created' = created /\ refused' = refused
    BY <1>0, <1>3, <2>1 DEF recordEvent, TypeOK
  <2>3. call'[s].onRecord => HasRow(s)'
    BY <1>0, <1>3, <2>1, <2>2 DEF recordEvent, RecordedHasRow, HasRow, TypeOK
  <2> QED
    BY <2>1, <2>2, <2>3 DEF MadeIsOnRecord, RecordedHasRow, HasRow, OwnIsAuthored,
       isOwn, OwnFilesStayWritable
<1>4. ASSUME NEW s \in Agents, evaluateLayer1(s)
      PROVE  /\ MadeIsOnRecord' /\ RecordedHasRow'
             /\ OwnIsAuthored' /\ OwnFilesStayWritable'
  <2>1. call[s] # Idle
    BY <1>4 DEF evaluateLayer1, Idle
  <2>2. /\ \A x \in Agents \ {s} : call'[x] = call[x]
        /\ rows' = rows /\ created' = created
    BY <1>4 DEF evaluateLayer1, TypeOK
  <2>3. CASE denied(s)
    <3>1. ~isOwn(s)
      BY <2>1, <2>3 DEF denied, OwnIsAuthored
    <3>2. call'[s] = Idle /\ \A r \in refused' \ refused : r.own = isOwn(s)
      BY <1>4, <2>3 DEF evaluateLayer1, TypeOK
    <3> QED
      BY <2>2, <3>1, <3>2 DEF MadeIsOnRecord, RecordedHasRow, HasRow, OwnIsAuthored,
         isOwn, OwnFilesStayWritable
  <2>4. CASE ~denied(s)
    <3>1. call'[s] = [call[s] EXCEPT !.at = "allowed"] /\ refused' = refused
      BY <1>4, <2>4 DEF evaluateLayer1, TypeOK
    <3>2. /\ call'[s].file = call[s].file /\ call'[s].as = call[s].as
          /\ call'[s].agentAuthored = call[s].agentAuthored
          /\ call'[s].onRecord = call[s].onRecord
      BY <1>0, <2>1, <3>1
    <3> QED
      BY <2>1, <2>2, <3>1, <3>2 DEF MadeIsOnRecord, RecordedHasRow, HasRow,
         OwnIsAuthored, isOwn, OwnFilesStayWritable
  <2> QED
    BY <2>3, <2>4
<1>5. ASSUME NEW s \in Agents, Act(s)
      PROVE  /\ MadeIsOnRecord' /\ RecordedHasRow'
             /\ OwnIsAuthored' /\ OwnFilesStayWritable'
  <2> DEFINE made == <<s, call[s].file, call[s].as>>
  <2>1. call[s] # Idle
    BY <1>5 DEF Act, Idle
  <2>2. /\ \A x \in Agents \ {s} : call'[x] = call[x]
        /\ call'[s] = Idle /\ rows' = rows /\ refused' = refused
    BY <1>5 DEF Act, TypeOK
  <2>3. created' = created \/ (created' = created \cup {made} /\ HasRow(s))
    BY <1>5, <2>1 DEF Act, RecordedHasRow
  <2>4. MadeIsOnRecord'
    <3> SUFFICES ASSUME NEW x \in Agents, NEW g \in Files, NEW as \in Spellings,
                        <<x, g, as>> \in created'
                 PROVE  [session |-> x, file |-> g, as |-> as] \in rows
      BY <2>2 DEF MadeIsOnRecord
    <3>1. CASE <<x, g, as>> \in created
      BY <3>1 DEF MadeIsOnRecord
    <3>2. CASE <<x, g, as>> \notin created
      <4>1. <<x, g, as>> = made /\ HasRow(s)
        BY <2>3, <3>2
      <4>2. x = s /\ g = call[s].file /\ as = call[s].as
        BY <4>1
      <4> QED
        BY <4>1, <4>2 DEF HasRow
    <3> QED
      BY <3>1, <3>2
  <2>5. \A x \in Agents \ {s}, f \in Files, b \in Spellings :
          <<x, f, b>> \in created' => <<x, f, b>> \in created
    BY <2>3
  <2>6. ASSUME NEW x \in Agents \ {s}, call[x] # Idle, isOwn(x)' PROVE isOwn(x)
    <3>1. PICK b \in {call[x].as, "abs"} : <<x, call[x].file, b>> \in created'
      BY <2>2, <2>6 DEF isOwn
    <3>2. <<x, call[x].file, b>> \in created
      BY <2>3, <3>1
    <3> QED
      BY <3>2 DEF isOwn
  <2> QED
    BY <2>2, <2>4, <2>6 DEF RecordedHasRow, HasRow, OwnIsAuthored, OwnFilesStayWritable
<1>6. CASE UNCHANGED vars
  BY <1>1, <1>6 DEF vars
<1>7. ASSUME NEW f \in Files, HumanSave(f) \/ GitAdd(f) \/ GitCommit(f)
      PROVE  UNCHANGED <<call, rows, created, refused>>
  BY <1>7 DEF HumanSave, GitAdd, GitCommit
<1> QED
  BY <1>1, <1>2, <1>3, <1>4, <1>5, <1>6, <1>7 DEF Next, Agent

\* The guard's other promise, for every set of files and sessions, also when the
\* calls of the sessions and the human's work overlap and rows may fail to be
\* written: an agent is never refused a file a call of its own on record made.
THEOREM OwnFilesWritable == Spec => []OwnFilesStayWritable
<1>1. OwnInv => OwnFilesStayWritable
  BY DEF OwnInv
<1> QED
  BY OwnInit, OwnStep, <1>1, PTL DEF Spec
=============================================================================
