-------------------------- MODULE HookStoreProofs --------------------------
(***************************************************************************)
(* Safety of the hook path for every set of deliveries, every policy and   *)
(* every window: HookStore's IInv is inductive, and the counters, the      *)
(* denials, the judge dispatch and the goal are what HookStore says they   *)
(* are.  Then the surfaces around it: every agent's call reaches the engine*)
(* and every verdict the agent (EveryAgentHears), the five reports count   *)
(* the same rows (EverySurfaceAgrees), and a figure of the value report is *)
(* of those rows (ValueReportIsBound).                                     *)
(***************************************************************************)
EXTENDS HookSurfaces, FiniteSetTheorems, NaturalsInduction, WellFoundedInduction, TLAPS

USE DEF Steps, Final, Writes, BeforeInsert, Recorded, AfterRecord, Decided

\* The initial state satisfies the inductive invariant.
LEMMA InitIInv == Init => IInv
<1> SUFFICES ASSUME Init PROVE IInv
  OBVIOUS
<1>1. TypeOK
  BY DEF Init, TypeOK, Counters
<1>2. StageInv
  BY NoneAssumption DEF Init, StageInv, FirstCatchIsLive
<1>3. CountInv
  <2>1. At({"countSession", "countSeen"}) = {} /\ At({"countBlocked"}) = {}
        /\ At({"countBlocked", "countCatch"}) = {}
    BY DEF Init, At
  <2>2. ASSUME NEW s \in Sessions PROVE SessionAt(s) = {} /\ SessionRows(s) = {}
    BY DEF Init, At, SessionAt, SessionRows
  <2>3. BlockRows = {} /\ events = {} /\ incidents = {}
    BY DEF Init, BlockRows
  <2>4. Cardinality({}) = 0
    BY FS_EmptySet
  <2>5. \A c \in Counters : counters[c] = 0
    BY DEF Init
  <2>6. \A s \in Sessions : eventCount[s] = 0
    BY DEF Init
  <2>7. /\ Cardinality(At({"countSession", "countSeen"})) = 0
        /\ Cardinality(At({"countBlocked"})) = 0
        /\ Cardinality(At({"countBlocked", "countCatch"})) = 0
        /\ Cardinality(BlockRows) = 0 /\ Cardinality(events) = 0 /\ Cardinality(incidents) = 0
    BY <2>1, <2>3, <2>4, Zenon
  <2>8. \A s \in Sessions : Cardinality(SessionAt(s)) = 0 /\ Cardinality(SessionRows(s)) = 0
    BY <2>2, <2>4, Zenon
  <2> QED
    BY <2>5, <2>6, <2>7, <2>8 DEF CountInv, OwedExactly, Counters
<1>4. RecordInv
  BY NoneAssumption DEF Init, RecordInv
<1> QED
  BY <1>1, <1>2, <1>3, <1>4 DEF IInv

\* Every step keeps every variable in its type.
LEMMA NextType == TypeOK /\ StageInv /\ [Next]_vars => TypeOK'
<1> SUFFICES ASSUME TypeOK, StageInv, [Next]_vars PROVE TypeOK'
  OBVIOUS
<1> USE EvAssumption DEF TypeOK, Go, Sessions, AllVerdicts, localVars, sessionVars,
    ledgerVars
<1>1. ASSUME NEW d \in Deliveries, Open(d) PROVE TypeOK'
  BY <1>1 DEF Open
<1>2. ASSUME NEW d \in Deliveries, upsertSession(d) PROVE TypeOK'
  BY <1>2 DEF upsertSession
<1>3. ASSUME NEW d \in Deliveries, endSession(d) PROVE TypeOK'
  BY <1>3 DEF endSession
<1>4. ASSUME NEW d \in Deliveries, getGoal(d) PROVE TypeOK'
  BY <1>4 DEF getGoal
<1>5. ASSUME NEW d \in Deliveries, setGoal(d) PROVE TypeOK'
  BY <1>5 DEF setGoal
<1>6. ASSUME NEW d \in Deliveries, insertEvent(d) PROVE TypeOK'
  BY <1>6 DEF insertEvent
<1>7. ASSUME NEW d \in Deliveries, skipEvent(d) PROVE TypeOK'
  BY <1>7 DEF skipEvent
<1>8. ASSUME NEW d \in Deliveries, countSession(d) PROVE TypeOK'
  BY <1>8 DEF countSession
<1>9. ASSUME NEW d \in Deliveries, countSeen(d) PROVE TypeOK'
  BY <1>9 DEF countSeen, bump, Counters
<1>10. ASSUME NEW d \in Deliveries, evaluateLayer1(d) PROVE TypeOK'
  BY <1>10 DEF evaluateLayer1
<1>11. ASSUME NEW d \in Deliveries, addIncident(d) PROVE TypeOK'
  BY <1>11 DEF addIncident
<1>12. ASSUME NEW d \in Deliveries, collapseIncident(d) PROVE TypeOK'
  BY <1>12 DEF collapseIncident
<1>13. ASSUME NEW d \in Deliveries, countBlocked(d) PROVE TypeOK'
  BY <1>13 DEF countBlocked, bump, Counters
<1>14. ASSUME NEW d \in Deliveries, countCatch(d) PROVE TypeOK'
  BY <1>14 DEF countCatch, bump, Counters
<1>15. ASSUME NEW d \in Deliveries, completeStep(d) PROVE TypeOK'
  BY <1>15 DEF completeStep
<1>16. ASSUME NEW d \in Deliveries, sampleJudge(d) PROVE TypeOK'
  BY <1>16 DEF sampleJudge
<1>17. ASSUME NEW d \in Deliveries, Render(d) PROVE TypeOK'
  <2>1. verdict[d] \in Verdicts[d]
    BY <1>17 DEF Render, StageInv
  <2>2. verdict[d].decision \in {"allow", "deny"}
    BY <2>1, VerdictAssumption DEF VerdictOK
  <2> QED
    BY <1>17, <2>2 DEF Render
<1>18. ASSUME NEW d \in Deliveries, FailOpen(d) PROVE TypeOK'
  BY <1>18 DEF FailOpen
<1>19. ASSUME NEW d \in Deliveries, Kill(d) PROVE TypeOK'
  BY <1>19 DEF Kill
<1>20. CASE UNCHANGED vars
  BY <1>20 DEF vars
<1> QED
  BY <1>1, <1>2, <1>3, <1>4, <1>5, <1>6, <1>7, <1>8, <1>9, <1>10, <1>11, <1>12,
     <1>13, <1>14, <1>15, <1>16, <1>17, <1>18, <1>19, <1>20
     DEF Next, AllDone, runHook, handleEvent

\* Every step keeps the rows and locals of each process in its stage.
LEMMA NextStage == TypeOK /\ StageInv /\ [Next]_vars => StageInv'
<1> SUFFICES ASSUME TypeOK, StageInv, [Next]_vars PROVE StageInv'
  OBVIOUS
<1> USE DEF TypeOK, StageInv, FirstCatchIsLive, Go, localVars, sessionVars,
    ledgerVars, Key, IncidentKey
<1>1. ASSUME NEW d \in Deliveries, Open(d) PROVE StageInv'
  BY <1>1 DEF Open
<1>2. ASSUME NEW d \in Deliveries, upsertSession(d) PROVE StageInv'
  BY <1>2 DEF upsertSession
<1>3. ASSUME NEW d \in Deliveries, endSession(d) PROVE StageInv'
  BY <1>3 DEF endSession
<1>4. ASSUME NEW d \in Deliveries, getGoal(d) PROVE StageInv'
  BY <1>4 DEF getGoal
<1>5. ASSUME NEW d \in Deliveries, setGoal(d) PROVE StageInv'
  BY <1>5 DEF setGoal
<1>6. ASSUME NEW d \in Deliveries, insertEvent(d) PROVE StageInv'
  BY <1>6 DEF insertEvent, Duplicate
<1>7. ASSUME NEW d \in Deliveries, skipEvent(d) PROVE StageInv'
  BY <1>7 DEF skipEvent
<1>8. ASSUME NEW d \in Deliveries, countSession(d) PROVE StageInv'
  BY <1>8 DEF countSession
<1>9. ASSUME NEW d \in Deliveries, countSeen(d) PROVE StageInv'
  BY <1>9 DEF countSeen
<1>10. ASSUME NEW d \in Deliveries, evaluateLayer1(d) PROVE StageInv'
  BY <1>10, VerdictAssumption DEF evaluateLayer1, VerdictOK
<1>11. ASSUME NEW d \in Deliveries, addIncident(d) PROVE StageInv'
  BY <1>11 DEF addIncident, OnRecord
<1>12. ASSUME NEW d \in Deliveries, collapseIncident(d) PROVE StageInv'
  BY <1>12 DEF collapseIncident
<1>13. ASSUME NEW d \in Deliveries, countBlocked(d) PROVE StageInv'
  BY <1>13 DEF countBlocked
<1>14. ASSUME NEW d \in Deliveries, countCatch(d) PROVE StageInv'
  BY <1>14 DEF countCatch
<1>15. ASSUME NEW d \in Deliveries, completeStep(d) PROVE StageInv'
  BY <1>15 DEF completeStep
<1>16. ASSUME NEW d \in Deliveries, sampleJudge(d) PROVE StageInv'
  BY <1>16 DEF sampleJudge, shouldJudge
<1>17. ASSUME NEW d \in Deliveries, Render(d) PROVE StageInv'
  BY <1>17 DEF Render
<1>18. ASSUME NEW d \in Deliveries, FailOpen(d) PROVE StageInv'
  BY <1>18 DEF FailOpen
<1>19. ASSUME NEW d \in Deliveries, Kill(d) PROVE StageInv'
  BY <1>19 DEF Kill
<1>20. CASE UNCHANGED vars
  BY <1>20 DEF vars
<1> QED
  BY <1>1, <1>2, <1>3, <1>4, <1>5, <1>6, <1>7, <1>8, <1>9, <1>10, <1>11, <1>12,
     <1>13, <1>14, <1>15, <1>16, <1>17, <1>18, <1>19, <1>20
     DEF Next, AllDone, runHook, handleEvent

\* Everything counted is a finite set, so that its cardinality is a number.
LEMMA Finiteness ==
  ASSUME TypeOK
  PROVE  /\ \A S : IsFiniteSet(At(S)) /\ Cardinality(At(S)) \in Nat
         /\ IsFiniteSet(events) /\ Cardinality(events) \in Nat
         /\ IsFiniteSet(incidents) /\ Cardinality(incidents) \in Nat
         /\ IsFiniteSet(BlockRows) /\ Cardinality(BlockRows) \in Nat
         /\ \A s : IsFiniteSet(SessionAt(s)) /\ Cardinality(SessionAt(s)) \in Nat
         /\ \A s : IsFiniteSet(SessionRows(s)) /\ Cardinality(SessionRows(s)) \in Nat
<1>1. \A T \in SUBSET Deliveries : IsFiniteSet(T) /\ Cardinality(T) \in Nat
  BY DeliveriesFinite, FS_Subset, FS_CardinalityType
<1>2. /\ \A S : At(S) \in SUBSET Deliveries
      /\ \A s : SessionAt(s) \in SUBSET Deliveries
  BY DEF At, SessionAt
<1>3. /\ events \in SUBSET Deliveries /\ incidents \in SUBSET Deliveries
      /\ BlockRows \in SUBSET Deliveries
      /\ \A s : SessionRows(s) \in SUBSET Deliveries
  BY DEF TypeOK, BlockRows, SessionRows
<1> QED
  BY <1>1, <1>2, <1>3

\* A subset of a finite set is no larger than it.
LEMMA Smaller ==
  ASSUME NEW S, IsFiniteSet(S), NEW T \in SUBSET S
  PROVE  Cardinality(T) \in Nat /\ Cardinality(T) <= Cardinality(S)
BY FS_Subset, FS_CardinalityType

\* A step that touches no row, counter or recorded verdict, and moves no
\* process to a statement with a count still owed, keeps the balance.
LEMMA QuietStep ==
  ASSUME TypeOK, TypeOK', CountInv,
         UNCHANGED <<events, incidents, counters, eventCount>>,
         \A x \in incidents : verdict'[x] = verdict[x],
         \A S \in {{"countSession", "countSeen"}, {"countBlocked"},
                   {"countBlocked", "countCatch"}, {"countSession"}} :
           At(S)' \subseteq At(S) /\ (~CanFail => At(S)' = At(S))
  PROVE  CountInv'
<1>1. BlockRows' = BlockRows /\ \A s : SessionRows(s)' = SessionRows(s)
  BY DEF BlockRows, SessionRows
<1>2. \A s : SessionAt(s)' \subseteq SessionAt(s)
  BY DEF SessionAt
<1>3. /\ Cardinality(At({"countSession", "countSeen"})')
           <= Cardinality(At({"countSession", "countSeen"}))
      /\ Cardinality(At({"countBlocked"})') <= Cardinality(At({"countBlocked"}))
      /\ Cardinality(At({"countBlocked", "countCatch"})')
           <= Cardinality(At({"countBlocked", "countCatch"}))
  BY Finiteness, Smaller
<1>4. \A s : Cardinality(SessionAt(s)') <= Cardinality(SessionAt(s))
  BY <1>2, Finiteness, Smaller
<1>5. /\ \A S : Cardinality(At(S)) \in Nat
      /\ \A s : Cardinality(SessionAt(s)) \in Nat
  BY Finiteness
<1>6. /\ Cardinality(At({"countSession", "countSeen"})') \in Nat
      /\ Cardinality(At({"countBlocked"})') \in Nat
      /\ Cardinality(At({"countBlocked", "countCatch"})') \in Nat
      /\ \A s : Cardinality(SessionAt(s)') \in Nat
  BY <1>2, Finiteness, Smaller
<1>7. /\ Cardinality(events) \in Nat /\ Cardinality(incidents) \in Nat
      /\ Cardinality(BlockRows) \in Nat
      /\ \A s : Cardinality(SessionRows(s)) \in Nat
  BY Finiteness
<1>8. counters \in [Counters -> Nat] /\ eventCount \in [Sessions -> Nat]
  BY DEF TypeOK
<1>9. ~CanFail =>
        /\ Cardinality(At({"countSession", "countSeen"})')
             = Cardinality(At({"countSession", "countSeen"}))
        /\ Cardinality(At({"countBlocked"})') = Cardinality(At({"countBlocked"}))
        /\ Cardinality(At({"countBlocked", "countCatch"})')
             = Cardinality(At({"countBlocked", "countCatch"}))
        /\ \A s : Cardinality(SessionAt(s)') = Cardinality(SessionAt(s))
  <2>1. ~CanFail => \A s : SessionAt(s)' = SessionAt(s)
    BY DEF SessionAt
  <2> QED
    BY <2>1
<1>10. ~CanFail => OwedExactly'
  <2>1. /\ Cardinality(BlockRows') = Cardinality(BlockRows)
        /\ \A s : Cardinality(SessionRows(s)') = Cardinality(SessionRows(s))
    BY <1>1, Zenon
  <2> QED
    BY <1>9, <2>1 DEF CountInv, OwedExactly
<1> QED
  BY <1>1, <1>3, <1>4, <1>5, <1>6, <1>7, <1>8, <1>10 DEF CountInv, Counters

\* The statements at which a count is owed.
Owed == {{"countSession", "countSeen"}, {"countBlocked"},
         {"countBlocked", "countCatch"}, {"countSession"}}

\* Every step keeps each counter within its table, owed counts included.
LEMMA NextCount == TypeOK /\ StageInv /\ CountInv /\ [Next]_vars => CountInv'
<1> SUFFICES ASSUME TypeOK, StageInv, CountInv, [Next]_vars PROVE CountInv'
  OBVIOUS
<1> DEFINE Quiet == /\ UNCHANGED <<events, incidents, counters, eventCount>>
                    /\ \A x \in incidents : verdict'[x] = verdict[x]
                    /\ \A S \in Owed :
                         At(S)' \subseteq At(S) /\ (~CanFail => At(S)' = At(S))
<1>0. TypeOK'
  BY NextType
<1>quiet. Quiet => CountInv'
  BY <1>0, QuietStep DEF Owed
<1>fin. /\ \A S : IsFiniteSet(At(S)) /\ Cardinality(At(S)) \in Nat
        /\ IsFiniteSet(events) /\ Cardinality(events) \in Nat
        /\ IsFiniteSet(incidents) /\ Cardinality(incidents) \in Nat
        /\ IsFiniteSet(BlockRows) /\ Cardinality(BlockRows) \in Nat
        /\ \A s : IsFiniteSet(SessionAt(s)) /\ Cardinality(SessionAt(s)) \in Nat
        /\ \A s : IsFiniteSet(SessionRows(s)) /\ Cardinality(SessionRows(s)) \in Nat
  BY Finiteness
<1>num. /\ \A c \in Counters : counters[c] \in Nat
        /\ \A s \in Sessions : eventCount[s] \in Nat
  BY DEF TypeOK
<1>1. ASSUME NEW d \in Deliveries, Open(d) PROVE CountInv'
  <2>1. Quiet
    BY <1>1 DEF Open, Go, At, Owed, TypeOK, localVars, sessionVars,
       ledgerVars
  <2> QED
    BY <2>1, <1>quiet
<1>2. ASSUME NEW d \in Deliveries, upsertSession(d) PROVE CountInv'
  <2>1. Quiet
    BY <1>2 DEF upsertSession, Go, At, Owed, TypeOK, localVars, sessionVars,
       ledgerVars
  <2> QED
    BY <2>1, <1>quiet
<1>3. ASSUME NEW d \in Deliveries, endSession(d) PROVE CountInv'
  <2>1. Quiet
    BY <1>3 DEF endSession, Go, At, Owed, TypeOK, localVars, sessionVars,
       ledgerVars
  <2> QED
    BY <2>1, <1>quiet
<1>4. ASSUME NEW d \in Deliveries, getGoal(d) PROVE CountInv'
  <2>1. Quiet
    BY <1>4 DEF getGoal, Go, At, Owed, TypeOK, localVars, sessionVars,
       ledgerVars
  <2> QED
    BY <2>1, <1>quiet
<1>5. ASSUME NEW d \in Deliveries, setGoal(d) PROVE CountInv'
  <2>1. Quiet
    BY <1>5 DEF setGoal, Go, At, Owed, TypeOK, localVars, sessionVars,
       ledgerVars
  <2> QED
    BY <2>1, <1>quiet
<1>6. ASSUME NEW d \in Deliveries, insertEvent(d) PROVE CountInv'
  <2>1. d \notin events /\ d \notin At({"countSession", "countSeen"})
        /\ \A s : d \notin SessionAt(s) /\ d \notin SessionRows(s)
    BY <1>6 DEF insertEvent, Go, StageInv, At, SessionAt, SessionRows
  <2>2. /\ events' = events \cup {d} /\ incidents' = incidents
        /\ counters' = counters /\ eventCount' = eventCount /\ verdict' = verdict
        /\ BlockRows' = BlockRows
        /\ pc' = [pc EXCEPT ![d] = "countSession"] /\ pc[d] = "insert"
    BY <1>6 DEF insertEvent, Go, sessionVars, BlockRows
  <2>3. /\ At({"countSession", "countSeen"})' = At({"countSession", "countSeen"}) \cup {d}
        /\ At({"countBlocked"})' = At({"countBlocked"})
        /\ At({"countBlocked", "countCatch"})' = At({"countBlocked", "countCatch"})
    BY <2>2 DEF At, TypeOK
  <2>4. \A s : /\ SessionAt(s)' = IF Ev[d].session = s THEN SessionAt(s) \cup {d}
                                  ELSE SessionAt(s)
              /\ SessionRows(s)' = IF Ev[d].session = s THEN SessionRows(s) \cup {d}
                                    ELSE SessionRows(s)
    BY <2>2 DEF At, TypeOK, SessionAt, SessionRows
  <2>5. /\ Cardinality(events') = Cardinality(events) + 1
        /\ Cardinality(At({"countSession", "countSeen"})')
             = Cardinality(At({"countSession", "countSeen"})) + 1
    BY <2>1, <2>2, <2>3, <1>fin, FS_AddElement
  <2>6. \A s : Ev[d].session = s =>
          /\ Cardinality(SessionAt(s)') = Cardinality(SessionAt(s)) + 1
          /\ Cardinality(SessionRows(s)') = Cardinality(SessionRows(s)) + 1
    BY <2>1, <2>4, <1>fin, FS_AddElement
  <2> QED
    BY <2>2, <2>3, <2>4, <2>5, <2>6, <1>fin, <1>num DEF CountInv, OwedExactly, Counters
<1>7. ASSUME NEW d \in Deliveries, skipEvent(d) PROVE CountInv'
  <2>1. Quiet
    BY <1>7 DEF skipEvent, Go, At, Owed, TypeOK, localVars, sessionVars,
       ledgerVars
  <2> QED
    BY <2>1, <1>quiet
<1>8. ASSUME NEW d \in Deliveries, countSession(d) PROVE CountInv'
  <2>1. /\ events' = events /\ incidents' = incidents /\ counters' = counters
        /\ verdict' = verdict /\ BlockRows' = BlockRows
        /\ \A s : SessionRows(s)' = SessionRows(s)
        /\ eventCount' = [eventCount EXCEPT ![Ev[d].session] = @ + 1]
        /\ pc' = [pc EXCEPT ![d] = "countSeen"] /\ pc[d] = "countSession"
    BY <1>8 DEF countSession, Go, localVars, ledgerVars, BlockRows, SessionRows
  <2>2. \A S \in Owed \ {{"countSession"}} : At(S)' = At(S)
    BY <2>1 DEF At, TypeOK, Owed
  <2>3. /\ \A s : Ev[d].session # s => SessionAt(s)' = SessionAt(s)
        /\ \A s : Ev[d].session = s => d \in SessionAt(s)
                                     /\ SessionAt(s)' = SessionAt(s) \ {d}
    BY <2>1 DEF At, TypeOK, SessionAt
  <2>4. \A s : Ev[d].session = s =>
          Cardinality(SessionAt(s)') = Cardinality(SessionAt(s)) - 1
    BY <2>3, <1>fin, FS_RemoveElement
  <2>5. \A s \in Sessions :
          eventCount'[s] = IF Ev[d].session = s THEN eventCount[s] + 1 ELSE eventCount[s]
    BY <2>1 DEF TypeOK
  <2>6. /\ At({"countSession", "countSeen"})' = At({"countSession", "countSeen"})
        /\ At({"countBlocked"})' = At({"countBlocked"})
        /\ At({"countBlocked", "countCatch"})' = At({"countBlocked", "countCatch"})
    BY <2>2 DEF Owed
  <2>7. \A s : Cardinality(SessionRows(s)') = Cardinality(SessionRows(s))
    BY <2>1, Zenon
  <2>8. ASSUME NEW s \in Sessions
        PROVE  /\ eventCount[s] + Cardinality(SessionAt(s)) <= Cardinality(SessionRows(s))
                 => eventCount'[s] + Cardinality(SessionAt(s)') <= Cardinality(SessionRows(s)')
               /\ eventCount[s] + Cardinality(SessionAt(s)) = Cardinality(SessionRows(s))
                 => eventCount'[s] + Cardinality(SessionAt(s)') = Cardinality(SessionRows(s)')
    <3>1. CASE Ev[d].session = s
      BY <2>4, <2>5, <2>7, <3>1, <1>fin, <1>num
    <3>2. CASE Ev[d].session # s
      <4>1. Cardinality(SessionAt(s)') = Cardinality(SessionAt(s))
        BY <2>3, <3>2, Zenon
      <4> QED
        BY <2>5, <2>7, <3>2, <4>1
    <3> QED
      BY <3>1, <3>2
  <2> QED
    BY <2>1, <2>6, <2>8 DEF CountInv, OwedExactly
<1>9. ASSUME NEW d \in Deliveries, countSeen(d) PROVE CountInv'
  <2>1. /\ events' = events /\ incidents' = incidents /\ eventCount' = eventCount
        /\ verdict' = verdict /\ BlockRows' = BlockRows
        /\ \A s : SessionRows(s)' = SessionRows(s)
        /\ counters' = [counters EXCEPT !["events_seen"] = @ + 1]
        /\ pc' = [pc EXCEPT ![d] = "evaluate"] /\ pc[d] = "countSeen"
    BY <1>9 DEF countSeen, bump, Go, localVars, sessionVars, BlockRows, SessionRows
  <2>2. /\ d \in At({"countSession", "countSeen"}) /\ At({"countSession", "countSeen"})' = At({"countSession", "countSeen"}) \ {d}
        /\ At({"countBlocked"})' = At({"countBlocked"})
        /\ At({"countBlocked", "countCatch"})' = At({"countBlocked", "countCatch"})
        /\ \A s : SessionAt(s)' = SessionAt(s)
    BY <2>1 DEF At, TypeOK, SessionAt
  <2>3. /\ Cardinality(At({"countSession", "countSeen"})')
             = Cardinality(At({"countSession", "countSeen"})) - 1
    BY <2>2, <1>fin, FS_RemoveElement
  <2>4. \A k \in Counters :
          counters'[k] = IF k = "events_seen" THEN counters[k] + 1 ELSE counters[k]
    BY <2>1 DEF TypeOK
  <2> QED
    BY <2>1, <2>2, <2>3, <2>4, <1>fin, <1>num DEF CountInv, OwedExactly, Counters
<1>10. ASSUME NEW d \in Deliveries, evaluateLayer1(d) PROVE CountInv'
  <2>1. Quiet
    BY <1>10 DEF evaluateLayer1, Go, At, Owed, TypeOK, localVars, sessionVars,
       ledgerVars, StageInv
  <2> QED
    BY <2>1, <1>quiet
<1>11. ASSUME NEW d \in Deliveries, addIncident(d) PROVE CountInv'
  <2> DEFINE next == IF verdict[d].severity = "block" THEN "countBlocked" ELSE "countCatch"
  <2>1. /\ events' = events /\ eventCount' = eventCount /\ verdict' = verdict
        /\ counters' = counters /\ incidents' = incidents \cup {d}
        /\ \A s : SessionRows(s)' = SessionRows(s)
        /\ pc' = [pc EXCEPT ![d] = next] /\ pc[d] = "incident"
    BY <1>11 DEF addIncident, Go, localVars, sessionVars, SessionRows
  <2>2. d \notin incidents /\ d \notin BlockRows
        /\ d \notin At({"countBlocked"}) /\ d \notin At({"countBlocked", "countCatch"})
    BY <2>1 DEF StageInv, BlockRows, At
  <2>3. /\ At({"countSession", "countSeen"})' = At({"countSession", "countSeen"})
        /\ At({"countBlocked", "countCatch"})' = At({"countBlocked", "countCatch"}) \cup {d}
        /\ \A s : SessionAt(s)' = SessionAt(s)
    BY <2>1 DEF At, TypeOK, SessionAt
  <2>4. IF verdict[d].severity = "block"
        THEN At({"countBlocked"})' = At({"countBlocked"}) \cup {d}
             /\ BlockRows' = BlockRows \cup {d}
        ELSE At({"countBlocked"})' = At({"countBlocked"}) /\ BlockRows' = BlockRows
    BY <2>1 DEF At, TypeOK, BlockRows
  <2>5. /\ Cardinality(incidents') = Cardinality(incidents) + 1
        /\ Cardinality(At({"countBlocked", "countCatch"})')
             = Cardinality(At({"countBlocked", "countCatch"})) + 1
    BY <2>1, <2>2, <2>3, <1>fin, FS_AddElement
  <2>6. IF verdict[d].severity = "block"
        THEN /\ Cardinality(At({"countBlocked"})') = Cardinality(At({"countBlocked"})) + 1
             /\ Cardinality(BlockRows') = Cardinality(BlockRows) + 1
        ELSE /\ Cardinality(At({"countBlocked"})') = Cardinality(At({"countBlocked"}))
             /\ Cardinality(BlockRows') = Cardinality(BlockRows)
    BY <2>2, <2>4, <1>fin, FS_AddElement
  <2> QED
    BY <2>1, <2>3, <2>5, <2>6, <1>fin, <1>num DEF CountInv, OwedExactly, Counters
<1>12. ASSUME NEW d \in Deliveries, collapseIncident(d) PROVE CountInv'
  <2>1. Quiet
    BY <1>12 DEF collapseIncident, Go, At, Owed, TypeOK, localVars, sessionVars,
       ledgerVars, StageInv
  <2> QED
    BY <2>1, <1>quiet
<1>13. ASSUME NEW d \in Deliveries, countBlocked(d) PROVE CountInv'
  <2>1. /\ events' = events /\ incidents' = incidents /\ eventCount' = eventCount
        /\ verdict' = verdict /\ BlockRows' = BlockRows
        /\ \A s : SessionRows(s)' = SessionRows(s)
        /\ counters' = [counters EXCEPT !["actions_blocked"] = @ + 1]
        /\ pc' = [pc EXCEPT ![d] = "countCatch"] /\ pc[d] = "countBlocked"
    BY <1>13 DEF countBlocked, bump, Go, localVars, sessionVars, BlockRows, SessionRows
  <2>2. /\ d \in At({"countBlocked"}) /\ At({"countBlocked"})' = At({"countBlocked"}) \ {d}
        /\ At({"countSession", "countSeen"})' = At({"countSession", "countSeen"})
        /\ At({"countBlocked", "countCatch"})' = At({"countBlocked", "countCatch"})
        /\ \A s : SessionAt(s)' = SessionAt(s)
    BY <2>1 DEF At, TypeOK, SessionAt
  <2>3. /\ Cardinality(At({"countBlocked"})')
             = Cardinality(At({"countBlocked"})) - 1
    BY <2>2, <1>fin, FS_RemoveElement
  <2>4. \A k \in Counters :
          counters'[k] = IF k = "actions_blocked" THEN counters[k] + 1 ELSE counters[k]
    BY <2>1 DEF TypeOK
  <2> QED
    BY <2>1, <2>2, <2>3, <2>4, <1>fin, <1>num DEF CountInv, OwedExactly, Counters
<1>14. ASSUME NEW d \in Deliveries, countCatch(d) PROVE CountInv'
  <2>1. /\ events' = events /\ incidents' = incidents /\ eventCount' = eventCount
        /\ verdict' = verdict /\ BlockRows' = BlockRows
        /\ \A s : SessionRows(s)' = SessionRows(s)
        /\ counters' = [counters EXCEPT !["catches"] = @ + 1]
        /\ pc' = [pc EXCEPT ![d] = (IF Ev[d].origin = "live" THEN "firstCatch" ELSE "sample")] /\ pc[d] = "countCatch"
    BY <1>14 DEF countCatch, bump, Go, localVars, sessionVars, BlockRows, SessionRows
  <2>2. /\ d \in At({"countBlocked", "countCatch"}) /\ At({"countBlocked", "countCatch"})' = At({"countBlocked", "countCatch"}) \ {d}
        /\ At({"countSession", "countSeen"})' = At({"countSession", "countSeen"})
        /\ At({"countBlocked"})' = At({"countBlocked"})
        /\ \A s : SessionAt(s)' = SessionAt(s)
    BY <2>1 DEF At, TypeOK, SessionAt
  <2>3. /\ Cardinality(At({"countBlocked", "countCatch"})')
             = Cardinality(At({"countBlocked", "countCatch"})) - 1
    BY <2>2, <1>fin, FS_RemoveElement
  <2>4. \A k \in Counters :
          counters'[k] = IF k = "catches" THEN counters[k] + 1 ELSE counters[k]
    BY <2>1 DEF TypeOK
  <2> QED
    BY <2>1, <2>2, <2>3, <2>4, <1>fin, <1>num DEF CountInv, OwedExactly, Counters
<1>15. ASSUME NEW d \in Deliveries, completeStep(d) PROVE CountInv'
  <2>1. Quiet
    BY <1>15 DEF completeStep, Go, At, Owed, TypeOK, localVars, sessionVars,
       ledgerVars
  <2> QED
    BY <2>1, <1>quiet
<1>16. ASSUME NEW d \in Deliveries, sampleJudge(d) PROVE CountInv'
  <2>1. Quiet
    BY <1>16 DEF sampleJudge, Go, At, Owed, TypeOK, localVars, sessionVars,
       ledgerVars
  <2> QED
    BY <2>1, <1>quiet
<1>17. ASSUME NEW d \in Deliveries, Render(d) PROVE CountInv'
  <2>1. Quiet
    BY <1>17 DEF Render, Go, At, Owed, TypeOK, localVars, sessionVars,
       ledgerVars
  <2> QED
    BY <2>1, <1>quiet
<1>18. ASSUME NEW d \in Deliveries, FailOpen(d) PROVE CountInv'
  <2>1. Quiet
    BY <1>18 DEF FailOpen, Go, At, Owed, TypeOK, localVars, sessionVars,
       ledgerVars
  <2> QED
    BY <2>1, <1>quiet
<1>19. ASSUME NEW d \in Deliveries, Kill(d) PROVE CountInv'
  <2>1. Quiet
    BY <1>19 DEF Kill, Go, At, Owed, TypeOK, localVars, sessionVars,
       ledgerVars
  <2> QED
    BY <2>1, <1>quiet
<1>20. CASE UNCHANGED vars
  <2>1. Quiet
    BY <1>20 DEF vars, At
  <2> QED
    BY <2>1, <1>quiet
<1> QED
  BY <1>1, <1>2, <1>3, <1>4, <1>5, <1>6, <1>7, <1>8, <1>9, <1>10, <1>11, <1>12,
     <1>13, <1>14, <1>15, <1>16, <1>17, <1>18, <1>19, <1>20
     DEF Next, AllDone, runHook, handleEvent

\* A verdict that is on record stays on record: rows are never deleted, and the
\* key of a row, and of the delivery itself, never changes again.
LEMMA StaysOnRecord ==
  ASSUME NEW d \in Deliveries, OnRecord(d), incidents \subseteq incidents',
         verdict'[d] = verdict[d],
         \A x \in incidents : verdict'[x] = verdict[x]
  PROVE  OnRecord(d)'
BY DEF OnRecord, IncidentKey

\* Every step keeps denials, and verdicts past their INSERT, on record.
LEMMA NextRecord ==
  TypeOK /\ StageInv /\ RecordInv /\ [Next]_vars => RecordInv'
<1> SUFFICES ASSUME TypeOK, StageInv, RecordInv, [Next]_vars PROVE RecordInv'
  OBVIOUS
<1> DEFINE Kept == /\ incidents \subseteq incidents'
                   /\ \A x \in incidents : verdict'[x] = verdict[x]
           Still(x) == /\ pc'[x] = pc[x] /\ reply'[x] = reply[x]
                       /\ verdict'[x] = verdict[x]
           Fine(x) == /\ pc'[x] \in AfterRecord /\ verdict'[x].severity # "info"
                           => OnRecord(x)'
                      /\ reply'[x] = "deny" => OnRecord(x)' /\ pc'[x] = "done"
<1>still. ASSUME Kept, NEW x \in Deliveries, Still(x) PROVE Fine(x)
  BY <1>still, StaysOnRecord DEF RecordInv
<1> USE DEF TypeOK, Go, localVars, sessionVars, ledgerVars
<1>1. ASSUME NEW d \in Deliveries, Open(d) PROVE RecordInv'
  <2>1. Kept /\ \A x \in Deliveries \ {d} : Still(x)
    BY <1>1 DEF Open
  <2>2. /\ pc[d] \notin Final \cup AfterRecord
        /\ pc'[d] \notin AfterRecord /\ reply'[d] # "deny"
    BY <1>1, NoneAssumption DEF Open, RecordInv
  <2> QED
    BY <2>1, <2>2, <1>still DEF RecordInv
<1>2. ASSUME NEW d \in Deliveries, upsertSession(d) PROVE RecordInv'
  <2>1. Kept /\ \A x \in Deliveries \ {d} : Still(x)
    BY <1>2 DEF upsertSession
  <2>2. /\ pc[d] \notin Final \cup AfterRecord
        /\ pc'[d] \notin AfterRecord /\ reply'[d] # "deny"
    BY <1>2, NoneAssumption DEF upsertSession, RecordInv
  <2> QED
    BY <2>1, <2>2, <1>still DEF RecordInv
<1>3. ASSUME NEW d \in Deliveries, endSession(d) PROVE RecordInv'
  <2>1. Kept /\ \A x \in Deliveries \ {d} : Still(x)
    BY <1>3 DEF endSession
  <2>2. /\ pc[d] \notin Final \cup AfterRecord
        /\ pc'[d] \notin AfterRecord /\ reply'[d] # "deny"
    BY <1>3, NoneAssumption DEF endSession, RecordInv
  <2> QED
    BY <2>1, <2>2, <1>still DEF RecordInv
<1>4. ASSUME NEW d \in Deliveries, getGoal(d) PROVE RecordInv'
  <2>1. Kept /\ \A x \in Deliveries \ {d} : Still(x)
    BY <1>4 DEF getGoal
  <2>2. /\ pc[d] \notin Final \cup AfterRecord
        /\ pc'[d] \notin AfterRecord /\ reply'[d] # "deny"
    BY <1>4, NoneAssumption DEF getGoal, RecordInv
  <2> QED
    BY <2>1, <2>2, <1>still DEF RecordInv
<1>5. ASSUME NEW d \in Deliveries, setGoal(d) PROVE RecordInv'
  <2>1. Kept /\ \A x \in Deliveries \ {d} : Still(x)
    BY <1>5 DEF setGoal
  <2>2. /\ pc[d] \notin Final \cup AfterRecord
        /\ pc'[d] \notin AfterRecord /\ reply'[d] # "deny"
    BY <1>5, NoneAssumption DEF setGoal, RecordInv
  <2> QED
    BY <2>1, <2>2, <1>still DEF RecordInv
<1>6. ASSUME NEW d \in Deliveries, insertEvent(d) PROVE RecordInv'
  <2>1. Kept /\ \A x \in Deliveries \ {d} : Still(x)
    BY <1>6 DEF insertEvent
  <2>2. /\ pc[d] \notin Final \cup AfterRecord
        /\ pc'[d] \notin AfterRecord /\ reply'[d] # "deny"
    BY <1>6, NoneAssumption DEF insertEvent, RecordInv
  <2> QED
    BY <2>1, <2>2, <1>still DEF RecordInv
<1>7. ASSUME NEW d \in Deliveries, skipEvent(d) PROVE RecordInv'
  <2>1. Kept /\ \A x \in Deliveries \ {d} : Still(x)
    BY <1>7 DEF skipEvent
  <2>2. /\ pc[d] \notin Final \cup AfterRecord
        /\ pc'[d] \notin AfterRecord /\ reply'[d] # "deny"
    BY <1>7, NoneAssumption DEF skipEvent, RecordInv
  <2> QED
    BY <2>1, <2>2, <1>still DEF RecordInv
<1>8. ASSUME NEW d \in Deliveries, countSession(d) PROVE RecordInv'
  <2>1. Kept /\ \A x \in Deliveries \ {d} : Still(x)
    BY <1>8 DEF countSession
  <2>2. /\ pc[d] \notin Final \cup AfterRecord
        /\ pc'[d] \notin AfterRecord /\ reply'[d] # "deny"
    BY <1>8, NoneAssumption DEF countSession, RecordInv
  <2> QED
    BY <2>1, <2>2, <1>still DEF RecordInv
<1>9. ASSUME NEW d \in Deliveries, countSeen(d) PROVE RecordInv'
  <2>1. Kept /\ \A x \in Deliveries \ {d} : Still(x)
    BY <1>9 DEF countSeen
  <2>2. /\ pc[d] \notin Final \cup AfterRecord
        /\ pc'[d] \notin AfterRecord /\ reply'[d] # "deny"
    BY <1>9, NoneAssumption DEF countSeen, RecordInv
  <2> QED
    BY <2>1, <2>2, <1>still DEF RecordInv
<1>10. ASSUME NEW d \in Deliveries, evaluateLayer1(d) PROVE RecordInv'
  <2>1. Kept /\ \A x \in Deliveries \ {d} : Still(x)
    BY <1>10 DEF evaluateLayer1, StageInv
  <2>2. /\ pc[d] = "evaluate" /\ reply'[d] = reply[d]
        /\ pc'[d] \in AfterRecord => verdict'[d].severity = "info"
    BY <1>10 DEF evaluateLayer1
  <2>3. Fine(d)
    BY <2>2 DEF RecordInv
  <2> QED
    BY <2>1, <2>3, <1>still DEF RecordInv
<1>11. ASSUME NEW d \in Deliveries, addIncident(d) PROVE RecordInv'
  <2>1. Kept /\ \A x \in Deliveries \ {d} : Still(x)
    BY <1>11 DEF addIncident
  <2>2. /\ pc[d] = "incident" /\ reply'[d] = reply[d]
        /\ pc'[d] \notin AfterRecord
    BY <1>11 DEF addIncident
  <2>3. Fine(d)
    BY <2>2 DEF RecordInv
  <2> QED
    BY <2>1, <2>3, <1>still DEF RecordInv
<1>12. ASSUME NEW d \in Deliveries, collapseIncident(d) PROVE RecordInv'
  <2>1. Kept /\ \A x \in Deliveries \ {d} : Still(x)
    BY <1>12 DEF collapseIncident
  <2>2. /\ pc[d] = "incident" /\ reply'[d] = reply[d] /\ OnRecord(d)
        /\ verdict' = verdict /\ incidents' = incidents
    BY <1>12 DEF collapseIncident
  <2>3. Fine(d)
    BY <2>2, StaysOnRecord DEF RecordInv
  <2> QED
    BY <2>1, <2>3, <1>still DEF RecordInv
<1>13. ASSUME NEW d \in Deliveries, countBlocked(d) PROVE RecordInv'
  <2>1. Kept /\ \A x \in Deliveries \ {d} : Still(x)
    BY <1>13 DEF countBlocked
  <2>2. /\ pc[d] \notin Final \cup AfterRecord
        /\ pc'[d] \notin AfterRecord /\ reply'[d] # "deny"
    BY <1>13, NoneAssumption DEF countBlocked, RecordInv
  <2> QED
    BY <2>1, <2>2, <1>still DEF RecordInv
<1>14. ASSUME NEW d \in Deliveries, countCatch(d) PROVE RecordInv'
  <2>1. Kept /\ \A x \in Deliveries \ {d} : Still(x)
    BY <1>14 DEF countCatch
  <2>2. /\ pc[d] \in Recorded /\ reply'[d] = reply[d]
        /\ verdict' = verdict /\ incidents' = incidents
    BY <1>14 DEF countCatch
  <2>3. OnRecord(d)'
    BY <2>2 DEF StageInv, OnRecord, IncidentKey
  <2>4. Fine(d)
    BY <2>2, <2>3 DEF RecordInv
  <2> QED
    BY <2>1, <2>4, <1>still DEF RecordInv
<1>15. ASSUME NEW d \in Deliveries, completeStep(d) PROVE RecordInv'
  <2>1. Kept /\ \A x \in Deliveries \ {d} : Still(x)
    BY <1>15 DEF completeStep
  <2>2. /\ pc[d] \in Recorded /\ reply'[d] = reply[d]
        /\ verdict' = verdict /\ incidents' = incidents
    BY <1>15 DEF completeStep
  <2>3. OnRecord(d)'
    BY <2>2 DEF StageInv, OnRecord, IncidentKey
  <2>4. Fine(d)
    BY <2>2, <2>3 DEF RecordInv
  <2> QED
    BY <2>1, <2>4, <1>still DEF RecordInv
<1>16. ASSUME NEW d \in Deliveries, sampleJudge(d) PROVE RecordInv'
  <2>1. Kept /\ \A x \in Deliveries \ {d} : Still(x)
    BY <1>16 DEF sampleJudge
  <2>2. /\ pc[d] \in AfterRecord /\ verdict' = verdict /\ incidents' = incidents
        /\ pc'[d] \in AfterRecord => reply'[d] = reply[d]
        /\ reply'[d] = "deny" /\ reply[d] # "deny" =>
             pc'[d] = "done" /\ verdict[d].decision = "deny"
    BY <1>16 DEF sampleJudge
  <2>3. verdict[d].decision = "deny" => verdict[d].severity # "info"
    BY <2>2, VerdictAssumption DEF StageInv, VerdictOK
  <2>4. Fine(d)
    BY <2>2, <2>3, StaysOnRecord DEF RecordInv
  <2> QED
    BY <2>1, <2>4, <1>still DEF RecordInv
<1>17. ASSUME NEW d \in Deliveries, Render(d) PROVE RecordInv'
  <2>1. Kept /\ \A x \in Deliveries \ {d} : Still(x)
    BY <1>17 DEF Render
  <2>2. /\ pc[d] \in AfterRecord /\ verdict' = verdict /\ incidents' = incidents
        /\ pc'[d] \in AfterRecord => reply'[d] = reply[d]
        /\ reply'[d] = "deny" /\ reply[d] # "deny" =>
             pc'[d] = "done" /\ verdict[d].decision = "deny"
    BY <1>17 DEF Render
  <2>3. verdict[d].decision = "deny" => verdict[d].severity # "info"
    BY <2>2, VerdictAssumption DEF StageInv, VerdictOK
  <2>4. Fine(d)
    BY <2>2, <2>3, StaysOnRecord DEF RecordInv
  <2> QED
    BY <2>1, <2>4, <1>still DEF RecordInv
<1>18. ASSUME NEW d \in Deliveries, FailOpen(d) PROVE RecordInv'
  <2>1. Kept /\ \A x \in Deliveries \ {d} : Still(x)
    BY <1>18 DEF FailOpen
  <2>2. /\ pc[d] \notin Final /\ pc'[d] \in Final /\ reply'[d] # "deny"
    BY <1>18 DEF FailOpen, RecordInv
  <2> QED
    BY <2>1, <2>2, <1>still DEF RecordInv
<1>19. ASSUME NEW d \in Deliveries, Kill(d) PROVE RecordInv'
  <2>1. Kept /\ \A x \in Deliveries \ {d} : Still(x)
    BY <1>19 DEF Kill
  <2>2. /\ pc[d] \notin Final /\ pc'[d] \in Final /\ reply'[d] # "deny"
    BY <1>19 DEF Kill, RecordInv
  <2> QED
    BY <2>1, <2>2, <1>still DEF RecordInv
<1>20. CASE UNCHANGED vars
  BY <1>20, <1>still DEF vars, RecordInv
<1> QED
  BY <1>1, <1>2, <1>3, <1>4, <1>5, <1>6, <1>7, <1>8, <1>9, <1>10, <1>11, <1>12,
     <1>13, <1>14, <1>15, <1>16, <1>17, <1>18, <1>19, <1>20
     DEF Next, AllDone, runHook, handleEvent

\* Every reachable state of the hook path satisfies the inductive invariant.
THEOREM Inductive == Spec => []IInv
<1>1. Init => IInv
  BY InitIInv
<1>2. IInv /\ [Next]_vars => IInv'
  BY NextType, NextStage, NextCount, NextRecord DEF IInv
<1> QED
  BY <1>1, <1>2, PTL DEF Spec

\* Type correctness: the locals, rows and counters keep their types.
THEOREM TypeCorrect == Spec => []TypeOK
<1>1. IInv => TypeOK
  BY DEF IInv
<1> QED
  BY <1>1, Inductive, PTL

\* No counter ever runs ahead of the rows it counts, for any number of hook
\* processes, wherever each of them stops.
THEOREM NeverInflated == Spec => []CountersNeverInflate
<1>1. IInv => CountersNeverInflate
  <2> SUFFICES ASSUME IInv PROVE CountersNeverInflate
    OBVIOUS
  <2>1. \A c \in Counters : counters[c] \in Nat
    BY DEF IInv, TypeOK
  <2>2. \A s \in Sessions : eventCount[s] \in Nat
    BY DEF IInv, TypeOK
  <2> QED
    BY <2>1, <2>2, Finiteness DEF IInv, CountInv, CountersNeverInflate, Counters
<1> QED
  BY <1>1, Inductive, PTL

\* Once all have ended and none failed, every counter is its table's size, for any
\* number of hook processes that incremented it at once.
THEOREM ExactAtRest == Spec => []QuietCountersExact
<1>1. IInv => QuietCountersExact
  <2> SUFFICES ASSUME IInv, ~CanFail, \A d \in Deliveries : pc[d] = "done"
               PROVE  /\ counters["events_seen"] = Cardinality(events)
                      /\ counters["actions_blocked"] = Cardinality(BlockRows)
                      /\ counters["catches"] = Cardinality(incidents)
                      /\ \A s \in Sessions : eventCount[s] = Cardinality(SessionRows(s))
    BY DEF QuietCountersExact
  <2>1. /\ At({"countSession", "countSeen"}) = {} /\ At({"countBlocked"}) = {}
        /\ At({"countBlocked", "countCatch"}) = {} /\ \A s : SessionAt(s) = {}
    BY DEF At, SessionAt
  <2>2. Cardinality({}) = 0
    BY FS_EmptySet
  <2>3. /\ \A c \in Counters : counters[c] \in Nat
        /\ \A s \in Sessions : eventCount[s] \in Nat
    BY DEF IInv, TypeOK
  <2>4. /\ Cardinality(At({"countSession", "countSeen"})) = 0
        /\ Cardinality(At({"countBlocked"})) = 0
        /\ Cardinality(At({"countBlocked", "countCatch"})) = 0
        /\ \A s : Cardinality(SessionAt(s)) = 0
    BY <2>1, <2>2, Zenon
  <2> QED
    BY <2>3, <2>4 DEF IInv, CountInv, OwedExactly, Counters
<1> QED
  BY <1>1, Inductive, PTL

\* An agent that was told "deny" is on record in the incidents table.
THEOREM DenialsOnRecord == Spec => []DenialOnRecord
<1>1. IInv => DenialOnRecord
  BY DEF IInv, RecordInv, DenialOnRecord
<1> QED
  BY <1>1, Inductive, PTL

\* The judge is dispatched at most once for the deliveries of one event key.
THEOREM JudgedOnce == Spec => []JudgedOncePerCall
<1>1. IInv => JudgedOncePerCall
  BY DEF IInv, TypeOK, StageInv, JudgedOncePerCall
<1> QED
  BY <1>1, Inductive, PTL

\* Only a live incident ticks the "first catch in a real session" box.
THEOREM LiveFirstCatch == Spec => []FirstCatchIsLive
<1>1. IInv => FirstCatchIsLive
  BY DEF IInv, StageInv
<1> QED
  BY <1>1, Inductive, PTL

\* A finite set is as large as its image under a one-to-one function.
LEMMA SameSize ==
  ASSUME NEW S, IsFiniteSet(S), NEW T, NEW f \in [S -> T],
         \A t \in T : \E x \in S : t = f[x],
         \A x, y \in S : f[x] = f[y] => x = y
  PROVE  IsFiniteSet(T) /\ Cardinality(T) = Cardinality(S)
<1>1. f \in Bijection(S, T)
  BY DEF Bijection, Injection, Surjection, IsInjective
<1> QED
  BY <1>1, FS_Bijection DEF ExistsBijection

\* The events table and its counter implement a call ledger: a key is inserted
\* once, stays for ever, and is counted at most once.
THEOREM EventLedgerImplemented == Spec => EventsAreALedger
<1> DEFINE seen == {Key(d) : d \in events}
<1>1. Init => EventLedger!LedgerInit
  BY DEF Init, EventLedger!LedgerInit, Counters
<1>2. IInv /\ [Next]_vars =>
        [EventLedger!RecordKey \/ EventLedger!CountKey]_(EventLedger!ledger)
  <2> SUFFICES ASSUME IInv, [Next]_vars
               PROVE  [EventLedger!RecordKey \/ EventLedger!CountKey]_(EventLedger!ledger)
    OBVIOUS
  <2>1. ASSUME NEW d \in Deliveries, insertEvent(d) PROVE EventLedger!RecordKey
    <3>1. events' = events \cup {d} /\ counters' = counters /\ ~Duplicate(d)
      BY <2>1 DEF insertEvent
    <3>2. Key(d) \notin seen /\ seen' = seen \cup {Key(d)}
      BY <3>1 DEF Duplicate, Key
    <3> QED
      BY <3>1, <3>2 DEF EventLedger!RecordKey
  <2>2. ASSUME NEW d \in Deliveries, countSeen(d) PROVE EventLedger!CountKey
    <3>1. /\ events' = events /\ pc[d] = "countSeen"
          /\ counters'["events_seen"] = counters["events_seen"] + 1
      BY <2>2 DEF countSeen, bump, Go, IInv, TypeOK, Counters
    <3>2. TypeOK /\ StageInv /\ CountInv
      BY DEF IInv
    <3>3. /\ IsFiniteSet(events) /\ Cardinality(events) \in Nat
          /\ IsFiniteSet(At({"countSession", "countSeen"}))
          /\ Cardinality(At({"countSession", "countSeen"})) \in Nat
      BY <3>2, Finiteness
    <3>4. Cardinality(At({"countSession", "countSeen"})) > 0
      BY <3>1, <3>3, FS_EmptySet DEF At
    <3>5. counters["events_seen"] < Cardinality(events)
      BY <3>2, <3>3, <3>4 DEF CountInv, TypeOK, Counters
    <3>6. Cardinality(seen) = Cardinality(events)
      <4> DEFINE f == [x \in events |-> Key(x)]
      <4>1. \A x, y \in events : f[x] = f[y] => x = y
        BY <3>2 DEF StageInv
      <4>2. f \in [events -> seen] /\ \A t \in seen : \E x \in events : t = f[x]
        OBVIOUS
      <4> HIDE DEF f, seen
      <4> QED
        BY <4>1, <4>2, <3>3, SameSize
    <3>7. seen' = seen
      BY <3>1 DEF Key
    <3>8. Cardinality(seen) = EventLedger!Cardinality(seen)
      BY Zenon DEF EventLedger!Cardinality, Cardinality
    <3> QED
      BY <3>1, <3>5, <3>6, <3>7, <3>8 DEF EventLedger!CountKey
  <2>3. ASSUME NEW d \in Deliveries,
               runHook(d) \/ Kill(d), ~insertEvent(d), ~countSeen(d)
        PROVE  events' = events /\ counters'["events_seen"] = counters["events_seen"]
    <3> USE <2>3 DEF IInv, TypeOK, localVars, sessionVars, ledgerVars, bump, Counters
    <3>1. CASE Open(d) \/ upsertSession(d) \/ endSession(d) \/ getGoal(d)
               \/ setGoal(d) \/ skipEvent(d) \/ countSession(d)
      BY <3>1 DEF Open, upsertSession, endSession, getGoal, setGoal, skipEvent,
         countSession
    <3>2. CASE evaluateLayer1(d) \/ addIncident(d) \/ collapseIncident(d)
               \/ countBlocked(d) \/ countCatch(d) \/ completeStep(d)
      BY <3>2 DEF evaluateLayer1, addIncident, collapseIncident, countBlocked,
         countCatch, completeStep
    <3>3. CASE sampleJudge(d) \/ Render(d) \/ FailOpen(d) \/ Kill(d)
      BY <3>3 DEF sampleJudge, Render, FailOpen, Kill
    <3> QED
      BY <3>1, <3>2, <3>3 DEF runHook, handleEvent
  <2>4. CASE UNCHANGED vars
    BY <2>4 DEF vars, EventLedger!ledger, Key
  <2> QED
    BY <2>1, <2>2, <2>3, <2>4 DEF Next, AllDone, EventLedger!ledger, Key
<1> QED
  BY <1>1, <1>2, Inductive, PTL DEF Spec, EventsAreALedger, EventLedger!LedgerSpec

\* The incidents table and its counter 'catches' implement a call ledger: a
\* violation is on record once, whatever re-delivers it, and counted once.
THEOREM IncidentLedgerImplemented == Spec => IncidentsAreALedger
<1> DEFINE seen == {IncidentKey(d) : d \in incidents}
<1>1. Init => IncidentLedger!LedgerInit
  BY DEF Init, IncidentLedger!LedgerInit, Counters
<1>2. IInv /\ [Next]_vars =>
        [IncidentLedger!RecordKey \/ IncidentLedger!CountKey]_(IncidentLedger!ledger)
  <2> SUFFICES ASSUME IInv, [Next]_vars
               PROVE  [IncidentLedger!RecordKey \/ IncidentLedger!CountKey]_(IncidentLedger!ledger)
    OBVIOUS
  <2>0. TypeOK /\ StageInv /\ CountInv
    BY DEF IInv
  <2>1. ASSUME NEW d \in Deliveries, addIncident(d) PROVE IncidentLedger!RecordKey
    <3>1. /\ incidents' = incidents \cup {d} /\ verdict' = verdict
          /\ counters' = counters /\ ~OnRecord(d)
      BY <2>1 DEF addIncident, localVars
    <3>2. IncidentKey(d) \notin seen /\ seen' = seen \cup {IncidentKey(d)}
      BY <3>1 DEF OnRecord, IncidentKey
    <3> QED
      BY <3>1, <3>2 DEF IncidentLedger!RecordKey
  <2>2. ASSUME NEW d \in Deliveries, countCatch(d) PROVE IncidentLedger!CountKey
    <3>1. /\ incidents' = incidents /\ verdict' = verdict /\ pc[d] = "countCatch"
          /\ counters'["catches"] = counters["catches"] + 1
      BY <2>0, <2>2 DEF countCatch, bump, Go, localVars, TypeOK, Counters
    <3>2. /\ IsFiniteSet(incidents) /\ Cardinality(incidents) \in Nat
          /\ IsFiniteSet(At({"countBlocked", "countCatch"}))
          /\ Cardinality(At({"countBlocked", "countCatch"})) \in Nat
      BY <2>0, Finiteness
    <3>3. Cardinality(At({"countBlocked", "countCatch"})) > 0
      BY <3>1, <3>2, FS_EmptySet DEF At
    <3>4. counters["catches"] < Cardinality(incidents)
      BY <2>0, <3>2, <3>3 DEF CountInv, TypeOK, Counters
    <3>5. Cardinality(seen) = Cardinality(incidents)
      <4> DEFINE f == [x \in incidents |-> IncidentKey(x)]
      <4>1. \A x, y \in incidents : f[x] = f[y] => x = y
        BY <2>0 DEF StageInv
      <4>2. f \in [incidents -> seen] /\ \A t \in seen : \E x \in incidents : t = f[x]
        OBVIOUS
      <4> HIDE DEF f, seen
      <4> QED
        BY <4>1, <4>2, <3>2, SameSize
    <3>6. seen' = seen
      BY <3>1 DEF IncidentKey
    <3>7. Cardinality(seen) = IncidentLedger!Cardinality(seen)
      BY Zenon DEF IncidentLedger!Cardinality, Cardinality
    <3> QED
      BY <3>1, <3>4, <3>5, <3>6, <3>7 DEF IncidentLedger!CountKey
  <2>3. ASSUME NEW d \in Deliveries,
               runHook(d) \/ Kill(d), ~addIncident(d), ~countCatch(d)
        PROVE  /\ incidents' = incidents /\ counters'["catches"] = counters["catches"]
               /\ \A x \in incidents : verdict'[x] = verdict[x]
    <3> USE <2>0, <2>3 DEF TypeOK, localVars, sessionVars, ledgerVars, bump, Counters
    <3>1. CASE Open(d) \/ upsertSession(d) \/ endSession(d) \/ getGoal(d)
               \/ setGoal(d) \/ insertEvent(d) \/ skipEvent(d) \/ countSession(d)
      BY <3>1 DEF Open, upsertSession, endSession, getGoal, setGoal, insertEvent,
         skipEvent, countSession
    <3>2. CASE countSeen(d) \/ collapseIncident(d) \/ countBlocked(d) \/ completeStep(d)
      BY <3>2 DEF countSeen, collapseIncident, countBlocked, completeStep
    <3>3. CASE evaluateLayer1(d)
      <4>1. d \notin incidents
        BY <3>3 DEF evaluateLayer1, Go, StageInv
      <4> QED
        BY <3>3, <4>1 DEF evaluateLayer1
    <3>4. CASE sampleJudge(d) \/ Render(d) \/ FailOpen(d) \/ Kill(d)
      BY <3>4 DEF sampleJudge, Render, FailOpen, Kill
    <3> QED
      BY <3>1, <3>2, <3>3, <3>4 DEF runHook, handleEvent
  <2>4. incidents' = incidents /\ (\A x \in incidents : verdict'[x] = verdict[x])
          => seen' = seen
    BY DEF IncidentKey
  <2>5. CASE UNCHANGED vars
    BY <2>4, <2>5 DEF vars, IncidentLedger!ledger
  <2> QED
    BY <2>1, <2>2, <2>3, <2>4, <2>5 DEF Next, AllDone, IncidentLedger!ledger
<1> QED
  BY <1>1, <1>2, Inductive, PTL
     DEF Spec, IncidentsAreALedger, IncidentLedger!LedgerSpec
-----------------------------------------------------------------------------
(***************************************************************************)
(* The declared goal.  getGoal and setGoal are two statements, so two      *)
(* prompts may both find no goal; but one that was sent after the other    *)
(* was taken in finds it.                                                  *)
(***************************************************************************)

\* What FirstPromptIsTheGoal is about: two prompts of a session, one after the other.
Follows(p) ==
  /\ Ev[p[1]].session = Ev[p[2]].session
  /\ Ev[p[1]].event = "user_prompt" /\ Ev[p[2]].event = "user_prompt"
  /\ Ev[p[1]].prompt # None /\ Ev[p[2]].prompt # Ev[p[1]].prompt

\* The deliveries of the later prompt: its own, its duplicates, or the same text again.
Again(p) == {d \in Deliveries : /\ Ev[d].session = Ev[p[2]].session
                                /\ Ev[d].event = "user_prompt"
                                /\ Ev[d].prompt = Ev[p[2]].prompt}

\* What the agent sends after an answer it does not also send before it.
PromptsFollow == \A p \in Before : Follows(p) => \A d \in Again(p) : <<p[1], d>> \in Before

Prompting(d) == Ev[d].event = "user_prompt" /\ Ev[d].prompt # None
Taken(d)     == pc[d] = "done" /\ reply[d] # "failopen"

GoalStages == {"start", "session", "end", "readGoal", "writeGoal"}

\* Past the two statements there is a goal.
GoalThere ==
  \A d \in Deliveries :
    /\ pc[d] \in {"readGoal", "writeGoal"} => Prompting(d)
    /\ Prompting(d) => pc[d] # "end"
    /\ Prompting(d) /\ pc[d] \notin GoalStages /\ (pc[d] \in Final => Taken(d))
         => goal[Ev[d].session] # None

\* Nobody brings the later text before the first prompt has ended; unless the
\* first one failed, it is not, and is not about to be, the goal.
LaterIsNot ==
  \A p \in Before : Follows(p) /\ Ev[p[2]].prompt # None =>
    /\ \A d \in Again(p) : pc[d] # "start" => pc[p[1]] \in Final
    /\ (pc[p[1]] \in Final => Taken(p[1])) =>
         /\ goal[Ev[p[2]].session] # Ev[p[2]].prompt
         /\ \A d \in Again(p) : pc[d] # "writeGoal"

GoalInv == TypeOK /\ GoalThere /\ LaterIsNot

\* Every step keeps the goal.
LEMMA GoalStep == PromptsFollow /\ StageInv /\ GoalInv /\ [Next]_vars => GoalInv'
<1> SUFFICES ASSUME PromptsFollow, StageInv, GoalInv, [Next]_vars
             PROVE  GoalThere' /\ LaterIsNot'
  BY NextType DEF GoalInv
<1> DEFINE Kept == GoalThere' /\ LaterIsNot'
<1> USE DEF GoalInv
\* What most statements do: one process goes on, past the goal, and answers nothing.
<1>on. ASSUME NEW d \in Deliveries, UNCHANGED <<goal, reply>>,
              pc[d] \notin GoalStages \cup Final,
              NEW to, to \notin GoalStages \cup Final, pc' = [pc EXCEPT ![d] = to]
       PROVE  Kept
  <2>1. \A x \in Deliveries \ {d} : pc'[x] = pc[x]
    BY <1>on DEF TypeOK
  <2>2. pc'[d] = to
    BY <1>on DEF TypeOK
  <2>3. GoalThere'
    BY <1>on, <2>1, <2>2 DEF GoalThere, Prompting, Taken, GoalStages
  <2>4. \A x \in Deliveries : /\ (pc'[x] = "start") <=> (pc[x] = "start")
                              /\ (pc'[x] = "writeGoal") <=> (pc[x] = "writeGoal")
                              /\ (pc'[x] \in Final) <=> (pc[x] \in Final)
                              /\ Taken(x)' <=> Taken(x)
    BY <1>on, <2>1, <2>2 DEF GoalStages, Taken
  <2>5. \A p \in Before : p[1] \in Deliveries
    BY ParameterAssumption
  <2> QED
    BY <1>on, <2>3, <2>4, <2>5 DEF LaterIsNot, Again
<1>1. ASSUME NEW d \in Deliveries, insertEvent(d) PROVE Kept
  <2>1. UNCHANGED <<goal, reply>> /\ pc[d] \notin GoalStages \cup Final
    BY <1>1 DEF insertEvent, Go, GoalStages, localVars, sessionVars
  <2>2. \E to : to \notin GoalStages \cup Final /\ pc' = [pc EXCEPT ![d] = to]
    BY <1>1 DEF insertEvent, Go, GoalStages
  <2> QED
    BY <2>1, <2>2, <1>on
<1>2. ASSUME NEW d \in Deliveries, skipEvent(d) PROVE Kept
  <2>1. UNCHANGED <<goal, reply>> /\ pc[d] \notin GoalStages \cup Final
    BY <1>2 DEF skipEvent, Go, GoalStages, localVars, sessionVars
  <2>2. \E to : to \notin GoalStages \cup Final /\ pc' = [pc EXCEPT ![d] = to]
    BY <1>2 DEF skipEvent, Go, GoalStages
  <2> QED
    BY <2>1, <2>2, <1>on
<1>3. ASSUME NEW d \in Deliveries, countSession(d) PROVE Kept
  <2>1. UNCHANGED <<goal, reply>> /\ pc[d] \notin GoalStages \cup Final
    BY <1>3 DEF countSession, Go, GoalStages, localVars, sessionVars
  <2>2. \E to : to \notin GoalStages \cup Final /\ pc' = [pc EXCEPT ![d] = to]
    BY <1>3 DEF countSession, Go, GoalStages
  <2> QED
    BY <2>1, <2>2, <1>on
<1>4. ASSUME NEW d \in Deliveries, countSeen(d) PROVE Kept
  <2>1. UNCHANGED <<goal, reply>> /\ pc[d] \notin GoalStages \cup Final
    BY <1>4 DEF countSeen, Go, GoalStages, localVars, sessionVars
  <2>2. \E to : to \notin GoalStages \cup Final /\ pc' = [pc EXCEPT ![d] = to]
    BY <1>4 DEF countSeen, Go, GoalStages
  <2> QED
    BY <2>1, <2>2, <1>on
<1>5. ASSUME NEW d \in Deliveries, evaluateLayer1(d) PROVE Kept
  <2>1. UNCHANGED <<goal, reply>> /\ pc[d] \notin GoalStages \cup Final
    BY <1>5 DEF evaluateLayer1, Go, GoalStages, localVars, sessionVars
  <2>2. \E to : to \notin GoalStages \cup Final /\ pc' = [pc EXCEPT ![d] = to]
    BY <1>5 DEF evaluateLayer1, Go, GoalStages
  <2> QED
    BY <2>1, <2>2, <1>on
<1>6. ASSUME NEW d \in Deliveries, addIncident(d) PROVE Kept
  <2>1. UNCHANGED <<goal, reply>> /\ pc[d] \notin GoalStages \cup Final
    BY <1>6 DEF addIncident, Go, GoalStages, localVars, sessionVars
  <2>2. \E to : to \notin GoalStages \cup Final /\ pc' = [pc EXCEPT ![d] = to]
    BY <1>6 DEF addIncident, Go, GoalStages
  <2> QED
    BY <2>1, <2>2, <1>on
<1>7. ASSUME NEW d \in Deliveries, collapseIncident(d) PROVE Kept
  <2>1. UNCHANGED <<goal, reply>> /\ pc[d] \notin GoalStages \cup Final
    BY <1>7 DEF collapseIncident, Go, GoalStages, localVars, sessionVars
  <2>2. \E to : to \notin GoalStages \cup Final /\ pc' = [pc EXCEPT ![d] = to]
    BY <1>7 DEF collapseIncident, Go, GoalStages
  <2> QED
    BY <2>1, <2>2, <1>on
<1>8. ASSUME NEW d \in Deliveries, countBlocked(d) PROVE Kept
  <2>1. UNCHANGED <<goal, reply>> /\ pc[d] \notin GoalStages \cup Final
    BY <1>8 DEF countBlocked, Go, GoalStages, localVars, sessionVars
  <2>2. \E to : to \notin GoalStages \cup Final /\ pc' = [pc EXCEPT ![d] = to]
    BY <1>8 DEF countBlocked, Go, GoalStages
  <2> QED
    BY <2>1, <2>2, <1>on
<1>9. ASSUME NEW d \in Deliveries, countCatch(d) PROVE Kept
  <2>1. UNCHANGED <<goal, reply>> /\ pc[d] \notin GoalStages \cup Final
    BY <1>9 DEF countCatch, Go, GoalStages, localVars, sessionVars
  <2>2. \E to : to \notin GoalStages \cup Final /\ pc' = [pc EXCEPT ![d] = to]
    BY <1>9 DEF countCatch, Go, GoalStages
  <2> QED
    BY <2>1, <2>2, <1>on
<1>10. ASSUME NEW d \in Deliveries, completeStep(d) PROVE Kept
  <2>1. UNCHANGED <<goal, reply>> /\ pc[d] \notin GoalStages \cup Final
    BY <1>10 DEF completeStep, Go, GoalStages, localVars, sessionVars
  <2>2. \E to : to \notin GoalStages \cup Final /\ pc' = [pc EXCEPT ![d] = to]
    BY <1>10 DEF completeStep, Go, GoalStages
  <2> QED
    BY <2>1, <2>2, <1>on
<1>11. ASSUME NEW d \in Deliveries, sampleJudge(d) PROVE Kept
  <2>1. UNCHANGED <<goal, reply>> /\ pc[d] \notin GoalStages \cup Final
    BY <1>11 DEF sampleJudge, Go, GoalStages, localVars, sessionVars
  <2>2. \E to : to \notin GoalStages \cup Final /\ pc' = [pc EXCEPT ![d] = to]
    BY <1>11 DEF sampleJudge, Go, GoalStages
  <2> QED
    BY <2>1, <2>2, <1>on
<1>n. \A p \in Before : p[1] \in Deliveries /\ p[2] \in Deliveries
  BY ParameterAssumption
<1>12. ASSUME NEW d \in Deliveries, Open(d) PROVE Kept
  <2>1. /\ goal' = goal /\ reply' = reply /\ pc' = [pc EXCEPT ![d] = "session"]
        /\ pc[d] = "start" /\ \A p \in Before : p[2] = d => pc[p[1]] \in Final
    BY <1>12 DEF Open, Go, localVars, sessionVars
  <2>2. GoalThere'
    BY <2>1 DEF GoalThere, Prompting, Taken, GoalStages, TypeOK
  <2>3. ASSUME NEW p \in Before, Follows(p), d \in Again(p) PROVE pc[p[1]] \in Final
    BY <2>1, <2>3 DEF PromptsFollow
  <2>4. \A x \in Deliveries : /\ x # d => pc'[x] = pc[x]
                              /\ (pc'[x] = "writeGoal") <=> (pc[x] = "writeGoal")
                              /\ (pc'[x] \in Final) <=> (pc[x] \in Final)
                              /\ Taken(x)' <=> Taken(x)
    BY <2>1 DEF TypeOK, Taken
  <2> QED
    BY <1>n, <2>1, <2>2, <2>3, <2>4 DEF LaterIsNot, Again
<1>13. ASSUME NEW d \in Deliveries, upsertSession(d) \/ endSession(d) PROVE Kept
  <2>1. /\ goal' = goal /\ reply' = reply /\ pc[d] \in {"session", "end"}
        /\ \/ pc' = [pc EXCEPT ![d] = "end"] /\ ~Prompting(d)
           \/ pc' = [pc EXCEPT ![d] = "readGoal"] /\ Prompting(d)
           \/ pc' = [pc EXCEPT ![d] = "insert"] /\ ~Prompting(d)
    BY <1>13 DEF upsertSession, endSession, Go, localVars, Prompting, GoalThere
  <2>2. GoalThere'
    BY <2>1 DEF GoalThere, Prompting, Taken, GoalStages, TypeOK
  <2>3. \A x \in Deliveries : /\ x # d => pc'[x] = pc[x]
                              /\ (pc'[x] = "start") <=> (pc[x] = "start")
                              /\ (pc'[x] = "writeGoal") <=> (pc[x] = "writeGoal")
                              /\ (pc'[x] \in Final) <=> (pc[x] \in Final)
                              /\ Taken(x)' <=> Taken(x)
    BY <2>1 DEF TypeOK, Taken
  <2> QED
    BY <1>n, <2>1, <2>2, <2>3 DEF LaterIsNot, Again
<1>14. ASSUME NEW d \in Deliveries, getGoal(d) PROVE Kept
  <2> DEFINE to == IF goal[Ev[d].session] = None THEN "writeGoal" ELSE "insert"
  <2>1. /\ goal' = goal /\ reply' = reply /\ pc[d] = "readGoal"
        /\ pc' = [pc EXCEPT ![d] = to]
    BY <1>14 DEF getGoal, Go, localVars, sessionVars
  <2>2. GoalThere'
    BY <2>1 DEF GoalThere, Prompting, Taken, GoalStages, TypeOK
  <2>3. \A x \in Deliveries : /\ x # d => pc'[x] = pc[x]
                              /\ (pc'[x] = "start") <=> (pc[x] = "start")
                              /\ (pc'[x] \in Final) <=> (pc[x] \in Final)
                              /\ Taken(x)' <=> Taken(x)
    BY <2>1 DEF TypeOK, Taken
  <2>4. ASSUME NEW p \in Before, Follows(p), Ev[p[2]].prompt # None, d \in Again(p),
               pc[p[1]] \in Final => Taken(p[1])
        PROVE  pc'[d] # "writeGoal"
    <3>1. pc[p[1]] \in Final
      BY <2>1, <2>4 DEF LaterIsNot
    <3>2. goal[Ev[p[1]].session] # None
      BY <1>n, <2>4, <3>1 DEF GoalThere, Prompting, Follows, GoalStages, Taken
    <3> QED
      BY <2>1, <2>4, <3>2 DEF Follows, Again, TypeOK
  <2> QED
    BY <1>n, <2>1, <2>2, <2>3, <2>4 DEF LaterIsNot, Again
<1>15. ASSUME NEW d \in Deliveries, setGoal(d) PROVE Kept
  <2>1. /\ goal' = [goal EXCEPT ![Ev[d].session] = Ev[d].prompt] /\ reply' = reply
        /\ pc[d] = "writeGoal" /\ pc' = [pc EXCEPT ![d] = "insert"]
        /\ Ev[d].prompt # None /\ Ev[d].event = "user_prompt"
    BY <1>15 DEF setGoal, Go, localVars, GoalThere, Prompting
  <2>2. \A x \in Deliveries :
          goal'[Ev[x].session] = IF Ev[x].session = Ev[d].session THEN Ev[d].prompt
                                                                 ELSE goal[Ev[x].session]
    BY <2>1 DEF TypeOK, Sessions
  <2>3. GoalThere'
    BY <2>1, <2>2 DEF GoalThere, Prompting, Taken, GoalStages, TypeOK
  <2>4. \A x \in Deliveries : /\ x # d => pc'[x] = pc[x]
                              /\ (pc'[x] = "start") <=> (pc[x] = "start")
                              /\ pc'[x] = "writeGoal" => pc[x] = "writeGoal"
                              /\ (pc'[x] \in Final) <=> (pc[x] \in Final)
                              /\ Taken(x)' <=> Taken(x)
    BY <2>1 DEF TypeOK, Taken
  <2>5. ASSUME NEW p \in Before, Follows(p), Ev[p[2]].prompt # None,
               pc[p[1]] \in Final => Taken(p[1])
        PROVE  goal'[Ev[p[2]].session] # Ev[p[2]].prompt
    <3>1. d \notin Again(p) /\ goal[Ev[p[2]].session] # Ev[p[2]].prompt
      BY <2>1, <2>5 DEF LaterIsNot
    <3> QED
      BY <1>n, <2>1, <2>2, <3>1 DEF Again
  <2> QED
    BY <1>n, <2>3, <2>4, <2>5 DEF LaterIsNot, Again
<1>16. ASSUME NEW d \in Deliveries, Render(d) PROVE Kept
  <2>1. /\ goal' = goal /\ pc[d] = "render" /\ pc' = [pc EXCEPT ![d] = "done"]
        /\ \A x \in Deliveries \ {d} : reply'[x] = reply[x]
    BY <1>16 DEF Render, Go, sessionVars, TypeOK
  <2>2. GoalThere'
    BY <2>1 DEF GoalThere, Prompting, Taken, GoalStages, TypeOK
  <2>3. \A x \in Deliveries : /\ (pc'[x] = "start") <=> (pc[x] = "start")
                              /\ (pc'[x] = "writeGoal") <=> (pc[x] = "writeGoal")
                              /\ pc[x] \in Final => pc'[x] \in Final
                              /\ (pc'[x] \in Final => Taken(x)') => (pc[x] \in Final => Taken(x))
    BY <2>1 DEF TypeOK, Taken
  <2> QED
    BY <1>n, <2>1, <2>2, <2>3 DEF LaterIsNot, Again
<1>17. ASSUME NEW d \in Deliveries, FailOpen(d) PROVE Kept
  <2>1. /\ goal' = goal /\ pc[d] \in Writes /\ pc' = [pc EXCEPT ![d] = "done"]
        /\ reply' = [reply EXCEPT ![d] = "failopen"]
        /\ pc[d] = "start" => \A p \in Before : p[2] = d => pc[p[1]] \in Final
    BY <1>17 DEF FailOpen, sessionVars
  <2>2. ~Taken(d)' /\ pc'[d] = "done" /\ pc[d] \notin Final
    BY <2>1 DEF TypeOK, Taken
  <2>3. GoalThere'
    BY <2>1 DEF GoalThere, Prompting, Taken, GoalStages, TypeOK
  <2>4. \A x \in Deliveries : /\ x # d => pc'[x] = pc[x]
                              /\ pc'[x] = "writeGoal" => pc[x] = "writeGoal"
                              /\ pc[x] \in Final => pc'[x] \in Final
                              /\ (pc'[x] \in Final => Taken(x)') => (pc[x] \in Final => Taken(x))
    BY <2>1, <2>2 DEF TypeOK, Taken
  <2>5. ASSUME NEW p \in Before, Follows(p), d \in Again(p), Ev[p[2]].prompt # None
        PROVE  pc[p[1]] \in Final
    <3>1. CASE pc[d] = "start"
      BY <2>1, <2>5, <3>1 DEF PromptsFollow
    <3>2. CASE pc[d] # "start"
      BY <2>5, <3>2 DEF LaterIsNot
    <3> QED
      BY <3>1, <3>2
  <2> QED
    BY <1>n, <2>1, <2>3, <2>4, <2>5 DEF LaterIsNot, Again
<1>18. ASSUME NEW d \in Deliveries, Kill(d) PROVE Kept
  <2>1. /\ goal' = goal /\ reply' = reply /\ pc[d] \notin Final \cup {"start"}
        /\ pc' = [pc EXCEPT ![d] = "dead"]
    BY <1>18 DEF Kill, localVars, sessionVars
  <2>2. GoalThere'
    BY <2>1 DEF GoalThere, Prompting, Taken, GoalStages, TypeOK
  <2>3. \A x \in Deliveries : /\ (pc'[x] = "start") <=> (pc[x] = "start")
                              /\ pc'[x] = "writeGoal" => pc[x] = "writeGoal"
                              /\ pc[x] \in Final => pc'[x] \in Final
                              /\ (pc'[x] \in Final => Taken(x)') => (pc[x] \in Final => Taken(x))
    BY <2>1 DEF TypeOK, Taken
  <2> QED
    BY <1>n, <2>1, <2>2, <2>3 DEF LaterIsNot, Again
<1>19. CASE UNCHANGED vars
  BY <1>19 DEF vars, GoalThere, LaterIsNot, Again, Taken
<1> QED
  BY <1>1, <1>2, <1>3, <1>4, <1>5, <1>6, <1>7, <1>8, <1>9, <1>10, <1>11, <1>12,
     <1>13, <1>14, <1>15, <1>16, <1>17, <1>18, <1>19
     DEF Next, AllDone, runHook, handleEvent

\* The goal stays the first prompt's, for any number of hook processes and any
\* interleaving of their statements, unless the process of the first prompt failed.
THEOREM FirstPromptStays == PromptsFollow /\ Spec => []FirstPromptIsTheGoal
<1>1. Init => GoalInv
  <2> SUFFICES ASSUME Init PROVE GoalInv
    OBVIOUS
  <2>1. TypeOK
    BY InitIInv DEF IInv
  <2>2. GoalThere
    BY DEF Init, GoalThere, GoalStages
  <2>3. \A d \in Deliveries : goal[Ev[d].session] = None /\ pc[d] = "start"
    BY DEF Init, Sessions
  <2>4. \A p \in Before : p[2] \in Deliveries
    BY ParameterAssumption
  <2> QED
    BY <2>1, <2>2, <2>3, <2>4 DEF GoalInv, LaterIsNot, Again
<1>2. GoalInv => FirstPromptIsTheGoal
  <2> SUFFICES ASSUME GoalInv, NEW p \in Before, Follows(p), Taken(p[1])
               PROVE  goal[Ev[p[2]].session] # Ev[p[2]].prompt
    BY DEF FirstPromptIsTheGoal, Follows, Taken
  <2>1. p[1] \in Deliveries
    BY ParameterAssumption
  <2>2. goal[Ev[p[1]].session] # None
    BY <2>1 DEF GoalInv, GoalThere, Prompting, Follows, Taken, GoalStages
  <2>3. CASE Ev[p[2]].prompt # None
    BY <2>3 DEF GoalInv, LaterIsNot
  <2> QED
    BY <2>2, <2>3 DEF Follows
<1>3. IInv => StageInv
  BY DEF IInv
<1>4. PromptsFollow => (Spec => []FirstPromptIsTheGoal)
  <2> SUFFICES ASSUME PromptsFollow PROVE Spec => []FirstPromptIsTheGoal
    OBVIOUS
  <2>1. StageInv /\ GoalInv /\ [Next]_vars => GoalInv'
    BY GoalStep
  <2> QED
    BY <1>1, <1>2, <1>3, <2>1, Inductive, PTL DEF Spec
<1> QED
  BY <1>4

-----------------------------------------------------------------------------
(* What is seen from outside *)

\* A process past its first INSERT has its session on record; what an agent was
\* answered is the decision of the verdict that was reached.
Told     == {"allow", "deny"}
TakenIn(d) == pc[d] \notin {"start", "session"} \cup Final \/ reply[d] \in Told
SessionInv == \A d \in Deliveries : TakenIn(d) => origin[Ev[d].session] # None
AnswerInv  == \A d \in Deliveries : reply[d] \in Told =>
                pc[d] = "done" /\ verdict[d] \in Verdicts[d] /\ reply[d] = verdict[d].decision

\* A step of a process after its first INSERT that answers nothing.
Silent(d) ==
  /\ pc[d] \notin Final \cup {"start", "session"}
  /\ pc' = [pc EXCEPT ![d] = pc'[d]] /\ verdict' = [verdict EXCEPT ![d] = verdict'[d]]
  /\ origin' = origin /\ reply' = reply

\* Every step of a process is its first, that INSERT, an answer, a failure, or a silent one.
LEMMA KindsOfSteps ==
  ASSUME TypeOK, NEW d \in Deliveries, runHook(d) \/ Kill(d)
  PROVE  Open(d) \/ upsertSession(d) \/ Render(d) \/ FailOpen(d) \/ Kill(d) \/ Silent(d)
  <1>ok. pc \in [Deliveries -> Steps] /\ verdict \in [Deliveries -> AllVerdicts \cup {None}]
    BY DEF TypeOK
  <1>8. ASSUME NEW from, NEW to, Go(d, from, to), from \notin Final \cup {"start", "session"},
                origin' = origin, reply' = reply, verdict' = [verdict EXCEPT ![d] = verdict'[d]]
         PROVE  Silent(d)
    BY <1>ok, <1>8 DEF Go, Silent
  <1>same. ASSUME verdict' = verdict PROVE verdict' = [verdict EXCEPT ![d] = verdict'[d]]
    BY <1>ok, <1>same
  <1>1. CASE endSession(d) \/ getGoal(d) \/ setGoal(d)
    <2>1. origin' = origin /\ reply' = reply /\ verdict' = verdict
      BY <1>1, Zenon DEF endSession, getGoal, setGoal, localVars, sessionVars
    <2> QED
      BY <1>1, <2>1, <1>ok, <1>same DEF endSession, getGoal, setGoal, Go, Silent
  <1>2. CASE insertEvent(d) \/ skipEvent(d)
    <2>1. origin' = origin /\ reply' = reply /\ verdict' = verdict
      BY <1>2, Zenon DEF insertEvent, skipEvent, localVars, sessionVars
    <2> QED
      BY <1>2, <2>1, <1>ok, <1>same DEF insertEvent, skipEvent, Go, Silent
  <1>3. CASE countSession(d) \/ countSeen(d)
    <2>1. origin' = origin /\ reply' = reply /\ verdict' = verdict
      BY <1>3, Zenon DEF countSession, countSeen, localVars, sessionVars
    <2> QED
      BY <1>3, <2>1, <1>ok, <1>same DEF countSession, countSeen, Go, Silent
  <1>4. CASE addIncident(d) \/ collapseIncident(d)
    <2>1. origin' = origin /\ reply' = reply /\ verdict' = verdict
      BY <1>4, Zenon DEF addIncident, collapseIncident, localVars, sessionVars
    <2> QED
      BY <1>4, <2>1, <1>ok, <1>same DEF addIncident, collapseIncident, Go, Silent
  <1>5. CASE countBlocked(d) \/ countCatch(d) \/ completeStep(d)
    <2>1. origin' = origin /\ reply' = reply /\ verdict' = verdict
      BY <1>5, Zenon DEF countBlocked, countCatch, completeStep, localVars, sessionVars
    <2> QED
      BY <1>5, <2>1, <1>ok, <1>same DEF countBlocked, countCatch, completeStep, Go, Silent
  <1>6. CASE sampleJudge(d)
    <2>1. origin' = origin /\ reply' = reply /\ verdict' = verdict
      BY <1>6, Zenon DEF sampleJudge, localVars, sessionVars
    <2> QED
      BY <1>6, <2>1, <1>ok, <1>same DEF sampleJudge, Go, Silent
  <1>7. CASE evaluateLayer1(d)
    <2>1. PICK v \in Verdicts[d] : /\ Go(d, "evaluate", IF v.severity = "info" THEN "sample" ELSE "incident")
                                  /\ verdict' = [verdict EXCEPT ![d] = v]
                                  /\ UNCHANGED << fresh, reply, sessionVars, ledgerVars >>
      BY <1>7, Zenon DEF evaluateLayer1
    <2>2. origin' = origin /\ reply' = reply
      BY <2>1, Zenon DEF sessionVars
    <2>3. verdict' = [verdict EXCEPT ![d] = verdict'[d]]
      BY <2>1, <1>ok
    <2> QED
      BY <2>1, <2>2, <2>3, <1>8
  <1> QED
    BY <1>1, <1>2, <1>3, <1>4, <1>5, <1>6, <1>7, Zenon DEF runHook, handleEvent

\* In the initial state nobody has come far, and nothing was answered.
LEMMA InitOutside == Init => SessionInv /\ AnswerInv
  BY NoneAssumption DEF Init, SessionInv, AnswerInv, TakenIn, Told

\* A session that is on record stays so, and one that a process has taken in is.
LEMMA NextSession == TypeOK /\ SessionInv /\ AnswerInv /\ [Next]_vars => SessionInv'
  <1> SUFFICES ASSUME TypeOK, SessionInv, AnswerInv, [Next]_vars PROVE SessionInv'
    OBVIOUS
  <1>ok. /\ pc \in [Deliveries -> Steps] /\ origin \in [Sessions -> Origins \cup {None}]
         /\ reply \in [Deliveries -> {"allow", "deny", "failopen", None}]
    BY DEF TypeOK
  <1>1. CASE UNCHANGED vars
    BY <1>1 DEF vars, sessionVars, ledgerVars, localVars, SessionInv, TakenIn
  <1>2. ASSUME NEW d \in Deliveries, runHook(d) \/ Kill(d) PROVE SessionInv'
    <2>1. CASE upsertSession(d)
      <3>1. origin' = [origin EXCEPT ![Ev[d].session] = IF @ = None THEN Ev[d].origin ELSE @] /\ reply' = reply
        BY <2>1, Zenon DEF upsertSession, localVars
      <3>2. \A x \in Deliveries \ {d} : pc'[x] = pc[x]
        BY <2>1, <1>ok DEF upsertSession, Go
      <3>3. Ev[d].session \in Sessions /\ Ev[d].origin # None
        BY EvAssumption, NoneAssumption DEF Sessions
      <3>4. origin'[Ev[d].session] # None /\ \A s \in Sessions : origin[s] # None => origin'[s] # None
        BY <3>1, <3>3, <1>ok
      <3> QED
        BY <3>1, <3>2, <3>4 DEF SessionInv, TakenIn, Sessions
    <2>2. ASSUME origin' = origin, \A x \in Deliveries \ {d} : pc'[x] = pc[x] /\ reply'[x] = reply[x],
                 TakenIn(d)' => TakenIn(d)
          PROVE  SessionInv'
      BY <2>2 DEF SessionInv, TakenIn
    <2>3. CASE Silent(d)
      BY <2>2, <2>3, <1>ok DEF Silent, TakenIn
    <2>4. CASE Open(d)
      <3>1. origin' = origin /\ reply' = reply
        BY <2>4, Zenon DEF Open, sessionVars, localVars
      <3> QED
        BY <2>2, <2>4, <3>1, <1>ok DEF Open, Go, TakenIn
    <2>5. CASE Render(d)
      <3>1. origin' = origin
        BY <2>5, Zenon DEF Render, sessionVars
      <3> QED
        BY <2>2, <2>5, <3>1, <1>ok DEF Render, Go, TakenIn
    <2>6. CASE FailOpen(d)
      <3>1. origin' = origin
        BY <2>6, Zenon DEF FailOpen, sessionVars
      <3>2. ~ TakenIn(d)'
        BY <2>6, <1>ok DEF FailOpen, TakenIn, Told
      <3> QED
        BY <2>2, <2>6, <3>1, <3>2, <1>ok DEF FailOpen
    <2>7. CASE Kill(d)
      <3>1. origin' = origin /\ reply' = reply
        BY <2>7, Zenon DEF Kill, sessionVars, localVars
      <3> QED
        BY <2>2, <2>7, <3>1, <1>ok DEF Kill, TakenIn
    <2> QED
      BY <1>2, <2>1, <2>3, <2>4, <2>5, <2>6, <2>7, KindsOfSteps
  <1> QED
    BY <1>1, <1>2 DEF Next, AllDone

\* An agent's answer is the decision of a verdict that could be reached.
LEMMA NextAnswer == TypeOK /\ StageInv /\ AnswerInv /\ [Next]_vars => AnswerInv'
  <1> SUFFICES ASSUME TypeOK, StageInv, AnswerInv, [Next]_vars PROVE AnswerInv'
    OBVIOUS
  <1>ok. /\ pc \in [Deliveries -> Steps] /\ verdict \in [Deliveries -> AllVerdicts \cup {None}]
         /\ reply \in [Deliveries -> {"allow", "deny", "failopen", None}]
    BY DEF TypeOK
  <1>1. CASE UNCHANGED vars
    BY <1>1 DEF vars, ledgerVars, localVars, AnswerInv
  <1>2. ASSUME NEW d \in Deliveries, runHook(d) \/ Kill(d) PROVE AnswerInv'
    <2>1. pc[d] \notin Final
      BY <1>2, KindsOfSteps DEF Open, upsertSession, Render, FailOpen, Kill, Silent, Go
    <2>2. reply[d] \notin Told
      BY <2>1 DEF AnswerInv
    <2>3. ASSUME \A x \in Deliveries \ {d} : pc'[x] = pc[x] /\ reply'[x] = reply[x] /\ verdict'[x] = verdict[x],
                 reply'[d] \in Told => pc'[d] = "done" /\ verdict'[d] \in Verdicts[d] /\ reply'[d] = verdict'[d].decision
          PROVE  AnswerInv'
      BY <2>3 DEF AnswerInv
    <2>4. CASE upsertSession(d) \/ Open(d) \/ Kill(d)
      <3>1. reply' = reply /\ verdict' = verdict
        BY <2>4, Zenon DEF upsertSession, Open, Kill, localVars
      <3> QED
        BY <2>2, <2>3, <2>4, <3>1, <1>ok DEF upsertSession, Open, Kill, Go
    <2>5. CASE Silent(d)
      BY <2>2, <2>3, <2>5, <1>ok DEF Silent
    <2>6. CASE Render(d)
      <3>1. verdict' = verdict /\ verdict[d] \in Verdicts[d]
        BY <2>6 DEF Render, Go, StageInv, Decided, AfterRecord
      <3> QED
        BY <2>3, <2>6, <3>1, <1>ok DEF Render, Go
    <2>7. CASE FailOpen(d)
      <3>1. verdict' = verdict
        BY <2>7, Zenon DEF FailOpen
      <3> QED
        BY <2>3, <2>7, <3>1, <1>ok DEF FailOpen, Told
    <2> QED
      BY <1>2, <2>4, <2>5, <2>6, <2>7, KindsOfSteps
  <1> QED
    BY <1>1, <1>2 DEF Next, AllDone

\* What is seen from outside holds throughout.
LEMMA OutsideInvariant == Spec => [](IInv /\ SessionInv /\ AnswerInv)
  <1>1. IInv /\ SessionInv /\ AnswerInv /\ [Next]_vars => (SessionInv /\ AnswerInv)'
    BY NextSession, NextAnswer DEF IInv
  <1> QED
    BY <1>1, InitOutside, Inductive, PTL DEF Spec

\* The receipt of a session counts its rows that blocked.
LEMMA ReceiptBlocks ==
  ASSUME NEW s, NEW now, R!hasReceipt(DB, s)
  PROVE  R!buildReceipt(DB, s, now).blocked = R!actionsIn(DB, s, "block")
  BY Zenon DEF R!buildReceipt

\* Reports counts as everybody does.
LEMMA SameCount == \A S : R!Cardinality(S) = Cardinality(S)
  BY Zenon DEF R!Cardinality, Cardinality

\* No session in which an agent was refused has a receipt that says nothing
\* needed blocking, or none.
THEOREM NoCleanReceipt == Spec => []NoCleanReceiptAfterADenial
  <1>1. ASSUME IInv, SessionInv, AnswerInv, NEW d \in Deliveries, NEW now \in Moments, reply[d] = "deny"
        PROVE  R!hasReceipt(DB, Ev[d].session) /\ R!buildReceipt(DB, Ev[d].session, now).blocked > 0
    <2> DEFINE s == Ev[d].session
               blocking == {r \in {i \in DB.incidents : i.session = s} : r.action = "block"}
    <2>rows. DB.incidents = {incidentRow(y) : y \in incidents}
      BY Zenon DEF DB
    <2>1. R!hasReceipt(DB, s)
      <3>1. s \in Sessions /\ origin[s] # None
        BY <1>1 DEF SessionInv, TakenIn, Told, Sessions
      <3>2. sessionRow(s) \in DB.sessions
        BY <3>1 DEF DB
      <3>3. sessionRow(s).id = s
        BY Zenon DEF sessionRow
      <3> QED
        BY <3>2, <3>3 DEF R!hasReceipt
    <2>2. PICK x \in incidents : IncidentKey(x) = IncidentKey(d)
      BY <1>1 DEF IInv, RecordInv, OnRecord
    <2>3. verdict[d].severity = "block"
      BY <1>1, VerdictAssumption DEF AnswerInv, Told, VerdictOK
    <2>4. incidentRow(x) \in blocking
      <3>1. Ev[x].session = s /\ verdict[x].severity = "block"
        BY <2>2, <2>3 DEF IncidentKey, incidentDedupeHash
      <3>2. incidentRow(x) \in DB.incidents
        BY <2>rows
      <3>3. incidentRow(x).session = s /\ incidentRow(x).action = "block"
        BY <3>1, Zenon DEF incidentRow
      <3> QED
        BY <3>2, <3>3
    <2>5. IsFiniteSet(blocking)
      <3>1. IsFiniteSet(incidents)
        BY <1>1, DeliveriesFinite, FS_Subset DEF IInv, TypeOK
      <3>2. [y \in incidents |-> incidentRow(y)] \in Surjection(incidents, {incidentRow(y) : y \in incidents})
        BY DEF Surjection
      <3>3. IsFiniteSet({incidentRow(y) : y \in incidents})
        BY <3>1, <3>2, FS_Surjection, Zenon
      <3> QED
        BY <2>rows, <3>3, FS_Subset
    <2>6. Cardinality(blocking) \in Nat /\ Cardinality(blocking) # 0
      BY <2>4, <2>5, FS_CardinalityType, FS_EmptySet
    <2>7. R!buildReceipt(DB, s, now).blocked = Cardinality(blocking)
      <3>1. R!actionsIn(DB, s, "block") = Cardinality(blocking)
        BY SameCount, Zenon DEF R!actionsIn, R!InSession
      <3> QED
        BY <2>1, <3>1, ReceiptBlocks
    <2> QED
      BY <2>1, <2>6, <2>7
  <1>2. IInv /\ SessionInv /\ AnswerInv => NoCleanReceiptAfterADenial
    BY <1>1 DEF NoCleanReceiptAfterADenial
  <1> QED
    BY <1>2, OutsideInvariant, PTL

\* Each agent's dialect says deny before a tool exactly when the verdict does.
LEMMA Dialects ==
  ASSUME NEW agent \in A!AGENT_IDS, NEW kind \in A!EVENT_KINDS, NEW v, VerdictOK(v)
  PROVE  LET word == A!hears(agent, A!render(agent, v, kind))
         IN  word # "failed" /\ (word = "deny" <=> v.decision = "deny" /\ kind = "pre_tool")
  <1> USE DEF A!hears, A!render, A!Dialect, A!Doc, A!Silence, A!Message, A!speaks, VerdictOK
  <1>1. CASE agent = "claude"
    BY <1>1 DEF A!renderClaude
  <1>2. CASE agent = "gemini"
    BY <1>2 DEF A!renderGemini
  <1>3. CASE agent = "cursor"
    BY <1>3 DEF A!renderCursor
  <1>4. CASE agent = "copilot"
    BY <1>4 DEF A!renderCopilot
  <1>5. CASE agent = "codex"
    BY <1>5 DEF A!renderCodex
  <1>6. CASE agent = "opencode"
    BY <1>6 DEF A!renderOpenCode
  <1> QED
    BY <1>1, <1>2, <1>3, <1>4, <1>5, <1>6 DEF A!AGENT_IDS

\* In every agent's protocol the answer reads as what it was.
THEOREM EveryAnswerIsHeard == Spec => []AnswerIsHeard
  <1>1. AnswerInv => AnswerIsHeard
    BY Dialects, VerdictAssumption DEF AnswerInv, AnswerIsHeard, Told
  <1> QED
    BY <1>1, OutsideInvariant, PTL

\* A set of numbers that is not empty has a least one.
LEMMA Least ==
  ASSUME NEW S \in SUBSET Nat, S # {}
  PROVE  \E m \in S : \A k \in S : m <= k
  <1>1. PICK m \in S : \A k \in S : << k, m >> \notin OpToRel(<, Nat)
    BY WFMin, NatLessThanWellFounded, Zenon
  <1>2. \A k \in S : ~ (k < m)
    BY <1>1, Zenon DEF OpToRel
  <1> QED
    BY <1>2

\* Among subsets of a finite set there is one that no longer is one of them when it loses
\* an element.
LEMMA Smallest ==
  ASSUME NEW T, IsFiniteSet(T), NEW B \in SUBSET SUBSET T, B # {}
  PROVE  \E s \in B : \A x \in s : s \ {x} \notin B
  <1> DEFINE sizes == {Cardinality(s) : s \in B}
  <1>1. \A s \in B : IsFiniteSet(s) /\ Cardinality(s) \in Nat
    BY FS_Subset, FS_CardinalityType
  <1>2. sizes \in SUBSET Nat /\ sizes # {}
    BY <1>1
  <1>3. PICK m \in sizes : \A k \in sizes : m <= k
    <2> HIDE DEF sizes
    <2> QED
      BY <1>2, Least
  <1>4. PICK s \in B : Cardinality(s) = m
    BY <1>3
  <1>5. \A x \in s : s \ {x} \notin B
    <2> SUFFICES ASSUME NEW x \in s, s \ {x} \in B PROVE FALSE
      OBVIOUS
    <2>1. Cardinality(s \ {x}) = Cardinality(s) - 1
      BY <1>1, FS_RemoveElement
    <2>2. Cardinality(s) <= Cardinality(s \ {x})
      BY <1>3, <1>4
    <2> QED
      BY <1>1, <2>1, <2>2
  <1> QED
    BY <1>5

\* What a sum computes over the subsets of the domain, one element at a time.
SumOver(g, f) ==
  g = [s \in SUBSET (DOMAIN f) |->
         IF s = {} THEN 0 ELSE f[CHOOSE x \in s : TRUE] + g[s \ {CHOOSE x \in s : TRUE}]]

LEMMA SumIsOver ==
  ASSUME NEW f
  PROVE  R!SumFunction(f) = (CHOOSE g : SumOver(g, f))[DOMAIN f]
  BY Zenon DEF R!SumFunction, R!SumFunctionOnSet, R!FoldFunctionOnSet, R!MapThenFoldSet, SumOver


\* The sum of a function over its finite domain is what any function of the subsets has for the
\* whole, when it is 0 for the empty set and gains the value of each element with it.
LEMMA SumIs ==
  ASSUME NEW f, IsFiniteSet(DOMAIN f), NEW h, h[{}] = 0,
         \A s \in SUBSET (DOMAIN f) : \A x \in s : h[s] = f[x] + h[s \ {x}]
  PROVE  R!SumFunction(f) = h[DOMAIN f]
  <1> DEFINE T == DOMAIN f
  <1>1. \A g : SumOver(g, f) => \A s \in SUBSET T : g[s] = h[s]
    <2> SUFFICES ASSUME NEW g, SumOver(g, f) PROVE \A s \in SUBSET T : g[s] = h[s]
      OBVIOUS
    <2>1. \A s \in SUBSET T : g[s] = IF s = {} THEN 0
                                     ELSE f[CHOOSE x \in s : TRUE] + g[s \ {CHOOSE x \in s : TRUE}]
      BY DEF SumOver
    <2> DEFINE B == {s \in SUBSET T : g[s] # h[s]}
    <2> SUFFICES ASSUME B # {} PROVE FALSE
      OBVIOUS
    <2>2. PICK s \in B : \A x \in s : s \ {x} \notin B
      BY Smallest, Zenon
    <2>3. s \in SUBSET T /\ g[s] # h[s]
      OBVIOUS
    <2>4. s # {}
      BY <2>1, <2>3
    <2> DEFINE x == CHOOSE y \in s : TRUE
    <2>5. x \in s
      BY <2>4
    <2>6. s \ {x} \in SUBSET T /\ g[s \ {x}] = h[s \ {x}]
      BY <2>2, <2>3, <2>5
    <2>7. g[s] = f[x] + g[s \ {x}]
      BY <2>1, <2>3, <2>4, Zenon
    <2>8. h[s] = f[x] + h[s \ {x}]
      BY <2>3, <2>5
    <2> QED
      BY <2>3, <2>6, <2>7, <2>8
  <1>2. \E g : SumOver(g, f)
    <2> DEFINE g == [s \in SUBSET T |-> h[s]]
    <2>1. ASSUME NEW s \in SUBSET T, s # {}
          PROVE  g[s] = f[CHOOSE x \in s : TRUE] + g[s \ {CHOOSE x \in s : TRUE}]
      <3> DEFINE x == CHOOSE y \in s : TRUE
      <3>1. x \in s
        BY <2>1
      <3>2. s \ {x} \in SUBSET T /\ h[s] = f[x] + h[s \ {x}]
        BY <2>1, <3>1
      <3> QED
        BY <3>2
    <2>2. g[{}] = 0
      OBVIOUS
    <2> HIDE DEF g
    <2>3. \A s \in SUBSET T : g[s] = IF s = {} THEN 0
                                     ELSE f[CHOOSE x \in s : TRUE] + g[s \ {CHOOSE x \in s : TRUE}]
      BY <2>1, <2>2
    <2>4. g = [s \in SUBSET T |-> g[s]]
      BY DEF g
    <2>5. SumOver(g, f)
      BY <2>3, <2>4, Zenon DEF SumOver
    <2> QED
      BY <2>5
  <1>3. R!SumFunction(f) = (CHOOSE g : SumOver(g, f))[T]
    BY SumIsOver, Zenon
  <1>4. SumOver(CHOOSE g : SumOver(g, f), f)
    BY <1>2, Zenon
  <1> QED
    BY <1>1, <1>3, <1>4

\* Rows counted by a key add up to the rows that have one of the keys.
LEMMA SumOfCounts ==
  ASSUME NEW rows, IsFiniteSet(rows), NEW key, NEW f, IsFiniteSet(DOMAIN f),
         \A k \in DOMAIN f : f[k] = Cardinality({r \in rows : key[r] = k})
  PROVE  R!SumFunction(f) = Cardinality({r \in rows : key[r] \in DOMAIN f})
  <1> DEFINE of(s) == {r \in rows : key[r] \in s}
             h == [s \in SUBSET (DOMAIN f) |-> Cardinality(of(s))]
  <1>1. h[{}] = 0
    <2>1. of({}) = {}
      OBVIOUS
    <2> QED
      BY <2>1, FS_EmptySet
  <1>2. ASSUME NEW s \in SUBSET (DOMAIN f), NEW x \in s PROVE h[s] = f[x] + h[s \ {x}]
    <2> DEFINE these == {r \in rows : key[r] = x}
    <2>1. of(s) = these \cup of(s \ {x}) /\ these \cap of(s \ {x}) = {}
      OBVIOUS
    <2>2. IsFiniteSet(these) /\ IsFiniteSet(of(s \ {x}))
      BY FS_Subset
    <2>3. Cardinality(these \cap of(s \ {x})) = 0
      BY <2>1, FS_EmptySet
    <2>4. Cardinality(these) \in Nat /\ Cardinality(of(s \ {x})) \in Nat
      BY <2>2, FS_CardinalityType
    <2>5. Cardinality(of(s)) = Cardinality(these) + Cardinality(of(s \ {x}))
      <3> HIDE DEF these, of
      <3>1. Cardinality(these \cup of(s \ {x}))
              = Cardinality(these) + Cardinality(of(s \ {x})) - Cardinality(these \cap of(s \ {x}))
        BY <2>2, FS_Union
      <3> QED
        BY <2>1, <2>3, <2>4, <3>1
    <2>6. f[x] = Cardinality(these) /\ s \ {x} \in SUBSET (DOMAIN f)
      OBVIOUS
    <2> QED
      BY <2>5, <2>6
  <1> HIDE DEF h
  <1>3. R!SumFunction(f) = h[DOMAIN f]
    BY <1>1, <1>2, SumIs, Zenon
  <1> QED
    BY <1>3 DEF h


\* The values of a function on a finite set are finitely many.
LEMMA FiniteImage ==
  ASSUME NEW S, IsFiniteSet(S), NEW f
  PROVE  IsFiniteSet({f[x] : x \in S})
  <1>1. [x \in S |-> f[x]] \in Surjection(S, {f[x] : x \in S})
    BY DEF Surjection
  <1> QED
    BY <1>1, FS_Surjection, Zenon

\* One to one, they are as many.
LEMMA OneToOne ==
  ASSUME NEW S, IsFiniteSet(S), NEW f, \A x, y \in S : f[x] = f[y] => x = y
  PROVE  IsFiniteSet({f[x] : x \in S}) /\ Cardinality({f[x] : x \in S}) = Cardinality(S)
  <1> DEFINE T == {f[x] : x \in S}
             g == [x \in S |-> f[x]]
  <1>1. g \in Surjection(S, T)
    BY DEF Surjection
  <1>2. g \in Injection(S, T)
    <2>1. \A x, y \in S : g[x] = g[y] => x = y
      OBVIOUS
    <2>2. g \in [S -> T]
      OBVIOUS
    <2> HIDE DEF g
    <2> QED
      BY <2>1, <2>2 DEF Injection, IsInjective
  <1> HIDE DEF g, T
  <1>3. IsFiniteSet(T) /\ Cardinality(T) = Cardinality(S)
    BY <1>1, <1>2, FS_Surjection
  <1> QED
    BY <1>3 DEF T

\* The partial sums of integers: h gains the value of each element with it.
Gains(h, f, T) ==
  /\ h \in [SUBSET T -> Int] /\ h[{}] = 0
  /\ \A s \in SUBSET T : \A x \in s : h[s] = f[x] + h[s \ {x}]

LEMMA PartialSums ==
  ASSUME NEW f, NEW T, IsFiniteSet(T), \A x \in T : f[x] \in Int
  PROVE  \E h : Gains(h, f, T)
  <1> DEFINE B == {s \in SUBSET T : ~ \E h : Gains(h, f, s)}
  <1> SUFFICES ASSUME B # {} PROVE FALSE
    OBVIOUS
  <1>1. PICK s \in B : \A x \in s : s \ {x} \notin B
    BY Smallest, Zenon
  <1>2. s \in SUBSET T /\ ~ \E h : Gains(h, f, s)
    OBVIOUS
  <1>3. CASE s = {}
    <2> DEFINE h == [u \in SUBSET {} |-> 0]
    <2>1. Gains(h, f, {})
      BY DEF Gains
    <2> QED
      BY <1>2, <1>3, <2>1
  <1>4. CASE s # {}
    <2>1. PICK x \in s : TRUE
      BY <1>4
    <2>2. s \ {x} \in SUBSET T /\ f[x] \in Int
      BY <1>2
    <2>3. PICK k : Gains(k, f, s \ {x})
      BY <1>1, <2>2
    <2> DEFINE h == [u \in SUBSET s |-> IF x \in u THEN f[x] + k[u \ {x}] ELSE k[u]]
    <2>4. \A u \in SUBSET s : u \ {x} \in SUBSET (s \ {x}) /\ (x \notin u => u \in SUBSET (s \ {x}))
      OBVIOUS
    <2>5. \A u \in SUBSET s : h[u] \in Int /\ (h[u] = IF x \in u THEN f[x] + k[u \ {x}] ELSE k[u])
      BY <2>2, <2>3, <2>4 DEF Gains
    <2>6. h \in [SUBSET s -> Int]
      BY <2>5
    <2>7. h[{}] = 0
      BY <2>3, <2>5 DEF Gains
    <2> HIDE DEF h
    <2>8. ASSUME NEW u \in SUBSET s, NEW y \in u PROVE h[u] = f[y] + h[u \ {y}]
      <3>1. u \ {y} \in SUBSET s /\ y \in T
        BY <1>2
      <3>2. CASE y = x
        BY <2>5, <2>8, <3>1, <3>2
      <3>3. CASE y # x /\ x \notin u
        <4>1. k[u] = f[y] + k[u \ {y}]
          BY <2>3, <2>4, <3>3 DEF Gains
        <4> QED
          BY <2>5, <3>1, <3>3, <4>1
      <3>4. CASE y # x /\ x \in u
        <4>1. y \in u \ {x} /\ (u \ {x}) \ {y} = (u \ {y}) \ {x}
          BY <3>4
        <4>2. k[u \ {x}] = f[y] + k[(u \ {y}) \ {x}]
          <5>1. u \ {x} \in SUBSET (s \ {x})
            BY <2>4
          <5>2. k[u \ {x}] = f[y] + k[(u \ {x}) \ {y}]
            BY <2>3, <4>1, <5>1, Zenon DEF Gains
          <5> QED
            BY <4>1, <5>2, Zenon
        <4>3. k[(u \ {y}) \ {x}] \in Int /\ f[y] \in Int
          BY <2>3, <2>4, <3>1 DEF Gains
        <4>4. h[u] = f[x] + k[u \ {x}] /\ h[u \ {y}] = f[x] + k[(u \ {y}) \ {x}]
          BY <2>5, <3>1, <3>4
        <4> QED
          BY <2>2, <4>2, <4>3, <4>4
      <3> QED
        BY <3>2, <3>3, <3>4
    <2>9. Gains(h, f, s)
      BY <2>6, <2>7, <2>8 DEF Gains
    <2> QED
      BY <1>2, <2>9
  <1> QED
    BY <1>3, <1>4

\* The sum of integers is one.
LEMMA SumIsInt ==
  ASSUME NEW f, IsFiniteSet(DOMAIN f), \A x \in DOMAIN f : f[x] \in Int
  PROVE  R!SumFunction(f) \in Int
  <1>1. PICK h : Gains(h, f, DOMAIN f)
    BY PartialSums
  <1>2. R!SumFunction(f) = h[DOMAIN f]
    BY <1>1, SumIs DEF Gains
  <1> QED
    BY <1>1, <1>2 DEF Gains

\* A sum of no greater numbers is no greater.
LEMMA SumMonotone ==
  ASSUME NEW f, NEW g, DOMAIN g = DOMAIN f, IsFiniteSet(DOMAIN f),
         \A x \in DOMAIN f : f[x] \in Int /\ g[x] \in Int /\ f[x] <= g[x]
  PROVE  R!SumFunction(f) <= R!SumFunction(g)
  <1> DEFINE T == DOMAIN f
  <1>1. PICK a : Gains(a, f, T)
    BY PartialSums
  <1>2. PICK b : Gains(b, g, T)
    BY PartialSums
  <1>3. R!SumFunction(f) = a[T] /\ R!SumFunction(g) = b[T]
    BY <1>1, <1>2, SumIs DEF Gains
  <1> DEFINE B == {s \in SUBSET T : ~ a[s] <= b[s]}
  <1>4. B = {}
    <2> SUFFICES ASSUME B # {} PROVE FALSE
      OBVIOUS
    <2>1. PICK s \in B : \A x \in s : s \ {x} \notin B
      BY Smallest, Zenon
    <2>2. s \in SUBSET T /\ ~ a[s] <= b[s]
      OBVIOUS
    <2>3. s # {}
      <3>1. a[{}] = 0 /\ b[{}] = 0
        BY <1>1, <1>2, Zenon DEF Gains
      <3>2. a[{}] <= b[{}]
        BY <3>1
      <3> QED
        BY <2>2, <3>2, Zenon
    <2>4. PICK x \in s : TRUE
      BY <2>3
    <2>5. s \ {x} \in SUBSET T /\ a[s \ {x}] <= b[s \ {x}] /\ x \in T
      BY <2>1, <2>2
    <2>6. a[s] = f[x] + a[s \ {x}] /\ b[s] = g[x] + b[s \ {x}]
      BY <1>1, <1>2, <2>2 DEF Gains
    <2>7. a[s \ {x}] \in Int /\ b[s \ {x}] \in Int
      BY <1>1, <1>2, <2>5 DEF Gains
    <2> QED
      BY <2>2, <2>5, <2>6, <2>7
  <1>5. T \in SUBSET T
    OBVIOUS
  <1> QED
    BY <1>3, <1>4, <1>5

\* A finite set of integers that is not empty has a greatest and a least element.
LEMMA Extremes ==
  ASSUME NEW S \in SUBSET Int, IsFiniteSet(S), S # {}
  PROVE  (\E m \in S : \A k \in S : m >= k) /\ (\E m \in S : \A k \in S : m <= k)
  <1> DEFINE Has(s) == (\E m \in s : \A k \in s : m >= k) /\ (\E m \in s : \A k \in s : m <= k)
             B == {s \in SUBSET S : s # {} /\ ~ Has(s)}
  <1> SUFFICES ASSUME B # {} PROVE FALSE
    OBVIOUS
  <1>1. PICK s \in B : \A x \in s : s \ {x} \notin B
    BY Smallest, Zenon
  <1>2. s \in SUBSET Int /\ s # {} /\ ~ Has(s)
    OBVIOUS
  <1>3. PICK x \in s : TRUE
    BY <1>2
  <1>4. CASE s \ {x} = {}
    <2>1. s = {x} /\ x >= x /\ x <= x
      BY <1>2, <1>4
    <2> QED
      BY <1>2, <2>1
  <1>5. CASE s \ {x} # {}
    <2>1. Has(s \ {x})
      BY <1>1, <1>5
    <2>2. PICK m \in s \ {x} : \A k \in s \ {x} : m >= k
      BY <2>1
    <2>3. PICK n \in s \ {x} : \A k \in s \ {x} : n <= k
      BY <2>1
    <2>4. \E i \in s : \A k \in s : i >= k
      <3>1. CASE x >= m
        <4>1. \A k \in s : x >= k
          BY <1>2, <2>2, <3>1
        <4> QED
          BY <4>1
      <3>2. CASE ~ x >= m
        <4>1. \A k \in s : m >= k
          BY <1>2, <2>2, <3>2
        <4> QED
          BY <4>1
      <3> QED
        BY <3>1, <3>2
    <2>5. \E i \in s : \A k \in s : i <= k
      <3>1. CASE x <= n
        <4>1. \A k \in s : x <= k
          BY <1>2, <2>3, <3>1
        <4> QED
          BY <4>1
      <3>2. CASE ~ x <= n
        <4>1. \A k \in s : n <= k
          BY <1>2, <2>3, <3>2
        <4> QED
          BY <4>1
      <3> QED
        BY <3>1, <3>2
    <2> QED
      BY <1>2, <2>4, <2>5
  <1> QED
    BY <1>4, <1>5

\* The newest n rows are n rows of the set, or all of it.
LEMMA Newest ==
  ASSUME NEW S, IsFiniteSet(S), NEW n \in Nat, NEW at, \A x \in S : at[x] \in Int
  PROVE  /\ R!newest(S, n, at) \in SUBSET S
         /\ Cardinality(S) <= n => R!newest(S, n, at) = S
         /\ Cardinality(R!newest(S, n, at)) <= n
  <1>1. Cardinality(S) \in Nat
    BY FS_CardinalityType
  <1>2. CASE Cardinality(S) <= n
    BY <1>1, <1>2, SameCount DEF R!newest
  <1>3. CASE ~ Cardinality(S) <= n
    <2> DEFINE Top(s) == \A x \in s, y \in S \ s : at[y] <= at[x]
               B == {s \in SUBSET S : Cardinality(s) >= n /\ Top(s)}
    <2>1. S \in B
      BY <1>1, <1>3
    <2>2. PICK s \in B : \A x \in s : s \ {x} \notin B
      BY <2>1, Smallest, Zenon
    <2>3. s \in SUBSET S /\ Cardinality(s) >= n /\ Top(s)
      OBVIOUS
    <2>4. IsFiniteSet(s) /\ Cardinality(s) \in Nat
      BY <2>3, FS_Subset, FS_CardinalityType
    <2>5. Cardinality(s) = n
      <3> SUFFICES ASSUME Cardinality(s) # n PROVE FALSE
        OBVIOUS
      <3>1. Cardinality(s) >= n + 1 /\ s # {}
        BY <2>3, <2>4, FS_EmptySet
      <3> DEFINE values == {at[x] : x \in s}
      <3>2. values \in SUBSET Int /\ values # {} /\ IsFiniteSet(values)
        BY <2>3, <2>4, <3>1, FiniteImage
      <3>3. PICK m \in values : \A k \in values : m <= k
        <4> HIDE DEF values
        <4> QED
          BY <3>2, Extremes
      <3>4. PICK x \in s : at[x] = m
        BY <3>3
      <3>5. Cardinality(s \ {x}) = Cardinality(s) - 1
        BY <2>4, FS_RemoveElement
      <3>6. Top(s \ {x})
        <4> SUFFICES ASSUME NEW z \in s \ {x}, NEW y \in S \ (s \ {x}) PROVE at[y] <= at[z]
          OBVIOUS
        <4>1. at[x] <= at[z]
          BY <3>3, <3>4
        <4>2. CASE y = x
          BY <4>1, <4>2
        <4>3. CASE y # x
          BY <2>3, <4>3
        <4> QED
          BY <4>2, <4>3
      <3>7. s \ {x} \in B
        BY <2>3, <2>4, <3>1, <3>5, <3>6
      <3> QED
        BY <2>2, <3>4, <3>7
    <2>6. R!newest(S, n, at) = CHOOSE T \in SUBSET S : Cardinality(T) = n /\ Top(T)
      BY <1>3, SameCount, Zenon DEF R!newest
    <2>7. LET T == R!newest(S, n, at) IN T \in SUBSET S /\ Cardinality(T) = n
      BY <2>3, <2>5, <2>6
    <2> QED
      BY <1>3, <2>7
  <1> QED
    BY <1>2, <1>3

\* What the hooks leave on file: finitely many rows, each of a session that is on file with
\* its origin, at a time after the epoch; incidents of Layer 1 that blocked or warned.
OnFile(db) ==
  /\ IsFiniteSet(db.sessions) /\ IsFiniteSet(db.events) /\ IsFiniteSet(db.incidents)
  /\ \A x, y \in db.sessions : x.id = y.id => x = y
  /\ \A x \in db.sessions : x.startedAt \in Nat /\ x.startedAt >= Epoch
  /\ \A r \in db.events \cup db.incidents :
       /\ r.ts \in Nat /\ r.ts >= Epoch
       /\ \E x \in db.sessions : x.id = r.session /\ x.origin = r.origin
  /\ \A r \in db.incidents : /\ r.layer = 1 /\ r.action \in {"block", "warn"}
                             /\ r.origin \in R!INCIDENT_ORIGINS

\* The part of a receipt that the other surfaces are compared with.
LEMMA ReceiptOf ==
  ASSUME NEW db, NEW x \in db.sessions, \A y \in db.sessions : y.id = x.id => y = x, NEW now
  PROVE  LET r == R!buildReceipt(db, x.id, now)
         IN  /\ r.sessionId = x.id /\ r.origin = x.origin
             /\ r.events = Cardinality(R!InSession(db.events, x.id))
             /\ r.blocked = Cardinality(R!Blocks(R!InSession(db.incidents, x.id)))
  <1>1. R!hasReceipt(db, x.id)
    BY DEF R!hasReceipt
  <1>2. (CHOOSE r \in db.sessions : r.id = x.id) = x
    OBVIOUS
  <1> DEFINE r == R!buildReceipt(db, x.id, now)
  <1>3. r.sessionId = x.id /\ r.origin = (CHOOSE y \in db.sessions : y.id = x.id).origin
    BY <1>1, Zenon DEF R!buildReceipt
  <1>4. r.events = R!Cardinality(R!InSession(db.events, x.id))
    BY <1>1, Zenon DEF R!buildReceipt
  <1>5. r.blocked = R!Cardinality(R!Blocks(R!InSession(db.incidents, x.id)))
    BY <1>1, Zenon DEF R!buildReceipt, R!actionsIn, R!Blocks
  <1> QED
    BY <1>2, <1>3, <1>4, <1>5, SameCount, Zenon

\* The receipts of some sessions are as many, and what they count adds up to the rows of these sessions.
Receipts(db, X, now) == {R!buildReceipt(db, x.id, now) : x \in X}
EventSum(T)      == R!SumFunction([r \in T |-> r.events])
BlockSum(T)      == R!SumFunction([r \in T |-> r.blocked])
Ids(X)           == {x.id : x \in X}
RowsOf(X, rows)  == {e \in rows : e.session \in Ids(X)}
RuleCounts(rows) == [rule \in {i.rule : i \in rows} |-> Cardinality({i \in rows : i.rule = rule})]

LEMMA ReceiptsAddUp ==
  ASSUME NEW db, OnFile(db), NEW X \in SUBSET db.sessions, NEW now
  PROVE  /\ Cardinality(Receipts(db, X, now)) = Cardinality(X)
         /\ EventSum(Receipts(db, X, now)) = Cardinality(RowsOf(X, db.events))
         /\ BlockSum(Receipts(db, X, now)) = Cardinality(RowsOf(X, R!Blocks(db.incidents)))
  <1> DEFINE rec(s) == R!buildReceipt(db, s, now)
             T == Receipts(db, X, now)
  <1>1. \A x \in db.sessions : /\ rec(x.id).sessionId = x.id
                               /\ rec(x.id).events = Cardinality(R!InSession(db.events, x.id))
                               /\ rec(x.id).blocked = Cardinality(R!Blocks(R!InSession(db.incidents, x.id)))
    BY ReceiptOf DEF OnFile
  <1>2. IsFiniteSet(X) /\ \A x, y \in X : x.id = y.id => x = y
    BY FS_Subset DEF OnFile
  <1>3. T = {rec(x.id) : x \in X}
    BY DEF Receipts
  <1> HIDE DEF T, rec
  <1>4. IsFiniteSet(T) /\ Cardinality(T) = Cardinality(X)
    <2> DEFINE f == [x \in X |-> rec(x.id)]
    <2>1. \A x, y \in X : f[x] = f[y] => x = y
      BY <1>1, <1>2
    <2>2. T = {f[x] : x \in X}
      BY <1>3
    <2> HIDE DEF f
    <2> QED
      BY <1>2, <2>1, <2>2, OneToOne
  <1>5. ASSUME NEW rows, IsFiniteSet(rows), \A e \in rows : \E x \in db.sessions : x.id = e.session,
               NEW c, DOMAIN c = T,
               \A x \in X : c[rec(x.id)] = Cardinality(R!InSession(rows, x.id))
        PROVE  R!SumFunction(c) = Cardinality({e \in rows : e.session \in Ids(X)})
    <2> DEFINE key == [e \in rows |-> rec(e.session)]
    <2>1. ASSUME NEW e \in rows, NEW x \in X PROVE (key[e] = rec(x.id)) <=> (e.session = x.id)
      <3>1. PICK y \in db.sessions : y.id = e.session
        BY <1>5
      <3>2. rec(y.id).sessionId = y.id /\ rec(x.id).sessionId = x.id
        BY <1>1
      <3> QED
        BY <3>1, <3>2
    <2>2. \A k \in DOMAIN c : c[k] = Cardinality({e \in rows : key[e] = k})
      <3> SUFFICES ASSUME NEW k \in T PROVE c[k] = Cardinality({e \in rows : key[e] = k})
        BY <1>5
      <3>1. PICK x \in X : k = rec(x.id)
        BY <1>3
      <3> HIDE DEF key
      <3>2. {e \in rows : key[e] = k} = R!InSession(rows, x.id)
        BY <2>1, <3>1 DEF R!InSession
      <3> QED
        BY <1>5, <3>1, <3>2
    <2>3. {e \in rows : key[e] \in DOMAIN c} = {e \in rows : e.session \in Ids(X)}
      <3> HIDE DEF key
      <3> QED
        BY <1>3, <1>5, <2>1 DEF Ids
    <2> HIDE DEF key
    <2>4. R!SumFunction(c) = Cardinality({e \in rows : key[e] \in DOMAIN c})
      BY <1>4, <1>5, <2>2, SumOfCounts
    <2> QED
      BY <2>3, <2>4
  <1>6. R!SumFunction([r \in T |-> r.events]) = Cardinality({e \in db.events : e.session \in Ids(X)})
    <2> DEFINE c == [r \in T |-> r.events]
    <2>1. DOMAIN c = T /\ \A x \in X : c[rec(x.id)] = Cardinality(R!InSession(db.events, x.id))
      BY <1>1, <1>3
    <2>2. IsFiniteSet(db.events) /\ \A e \in db.events : \E x \in db.sessions : x.id = e.session
      BY DEF OnFile
    <2> HIDE DEF c
    <2>3. R!SumFunction(c) = Cardinality({e \in db.events : e.session \in Ids(X)})
      BY <1>5, <2>1, <2>2
    <2> QED
      BY <2>3 DEF c
  <1>7. R!SumFunction([r \in T |-> r.blocked])
          = Cardinality({i \in R!Blocks(db.incidents) : i.session \in Ids(X)})
    <2> DEFINE c == [r \in T |-> r.blocked]
               rows == R!Blocks(db.incidents)
    <2>1. \A s : R!InSession(rows, s) = R!Blocks(R!InSession(db.incidents, s))
      BY DEF R!InSession, R!Blocks
    <2>2. DOMAIN c = T /\ \A x \in X : c[rec(x.id)] = Cardinality(R!InSession(rows, x.id))
      BY <1>1, <1>3, <2>1
    <2>3. rows \in SUBSET db.incidents
      BY DEF R!Blocks
    <2>4. IsFiniteSet(rows) /\ \A e \in rows : \E x \in db.sessions : x.id = e.session
      BY <2>3, FS_Subset DEF OnFile
    <2> HIDE DEF c, rows
    <2>5. R!SumFunction(c) = Cardinality({e \in rows : e.session \in Ids(X)})
      BY <1>5, <2>2, <2>4
    <2> QED
      BY <2>5 DEF c, rows
  <1> QED
    BY <1>4, <1>6, <1>7, Zenon DEF T, EventSum, BlockSum, RowsOf

\* What a breakdown counts.
LEMMA BreakdownOf ==
  ASSUME NEW db, NEW o
  PROVE  LET b == R!breakdownFor(db, o)  inc == R!Of(db.incidents, o)
         IN  /\ b.attempts = Cardinality(R!Blocks(inc))
             /\ b.distinct_actions = Cardinality(R!Actions(R!Blocks(inc)))
             /\ b.drift_warnings = Cardinality({r \in inc : r.layer = 2})
             /\ b.incidents = Cardinality(inc)
             /\ b.sessions = Cardinality(R!Of(db.sessions, o))
             /\ b.events = Cardinality(R!Of(db.events, o))
             /\ "attempts" \in DOMAIN b
  <1> DEFINE b == R!breakdownFor(db, o)
             inc == R!Of(db.incidents, o)
  <1>1. b.attempts = R!Cardinality(R!Blocks(inc)) /\ b.drift_warnings = R!Cardinality({r \in inc : r.layer = 2})
        /\ b.distinct_actions = R!Cardinality(R!Actions(R!Blocks(inc)))
    BY Zenon DEF R!breakdownFor
  <1>2. b.incidents = R!Cardinality(inc) /\ b.sessions = R!Cardinality(R!Of(db.sessions, o))
        /\ b.events = R!Cardinality(R!Of(db.events, o))
    BY Zenon DEF R!breakdownFor
  <1>3. "attempts" \in DOMAIN b
    BY DEF R!breakdownFor
  <1> QED
    BY <1>1, <1>2, <1>3, SameCount, Zenon

\* What metrics is made of.
Parts(db) == [live |-> R!breakdownFor(db, "live"), demo |-> R!breakdownFor(db, "demo"),
              fixture |-> R!breakdownFor(db, "fixture"), savings |-> R!estimateSavings(db)]

AttemptSum(db) == R!SumFunction([o \in R!INCIDENT_ORIGINS |-> R!breakdownFor(db, o).attempts])

LEMMA MetricsOf ==
  ASSUME NEW db
  PROVE  LET m == R!buildMetrics(db)
         IN  /\ m.live = R!breakdownFor(db, "live") /\ m.demo = R!breakdownFor(db, "demo")
             /\ m.savings = R!estimateSavings(db)
             /\ m.total.attempts = AttemptSum(db)
             /\ m.problems = R!checkIntegrity(Parts(db))
  <1> DEFINE parts == [o \in R!INCIDENT_ORIGINS |-> R!breakdownFor(db, o)]
             m == R!buildMetrics(db)
  <1>1. /\ parts["live"] = R!breakdownFor(db, "live") /\ parts["demo"] = R!breakdownFor(db, "demo")
        /\ parts["fixture"] = R!breakdownFor(db, "fixture")
    BY DEF R!INCIDENT_ORIGINS
  <1>2. m.live = parts["live"] /\ m.demo = parts["demo"] /\ m.savings = R!estimateSavings(db)
    BY Zenon DEF R!buildMetrics
  <1>3. m.problems = R!checkIntegrity(Parts(db))
    <2>1. m.problems = R!checkIntegrity([live |-> parts["live"], demo |-> parts["demo"],
                                         fixture |-> parts["fixture"], savings |-> R!estimateSavings(db)])
      BY Zenon DEF R!buildMetrics
    <2> HIDE DEF parts
    <2> QED
      BY <1>1, <2>1, Zenon DEF Parts
  <1>4. m.total = [R!sumBreakdowns(parts) EXCEPT
                     !.distinct_actions = R!Cardinality(R!Actions(R!Blocks(db.incidents)))]
    BY Zenon DEF R!buildMetrics
  <1>5. "attempts" \in DOMAIN R!sumBreakdowns(parts)
        /\ R!sumBreakdowns(parts)["attempts"]
             = R!SumFunction([o \in R!INCIDENT_ORIGINS |-> parts[o]["attempts"]])
    <2>1. "attempts" \in DOMAIN parts["live"]
      BY <1>1, BreakdownOf
    <2> HIDE DEF parts
    <2> QED
      BY <2>1 DEF R!sumBreakdowns
  <1>6. [o \in R!INCIDENT_ORIGINS |-> parts[o]["attempts"]]
          = [o \in R!INCIDENT_ORIGINS |-> R!breakdownFor(db, o).attempts]
    OBVIOUS
  <1>7. m.total.attempts = R!SumFunction([o \in R!INCIDENT_ORIGINS |-> parts[o]["attempts"]])
    <2> HIDE DEF parts, m
    <2> QED
      BY <1>4, <1>5
  <1> QED
    BY <1>1, <1>2, <1>3, <1>6, <1>7, Zenon DEF AttemptSum

\* The priced rows are the distinct actions that were blocked, and the cheap end of their price is no dearer.
LEMMA CategoryHasAPrice ==
  ASSUME NEW rule, NEW layer
  PROVE  LET price == R!TURNS_WASTED[R!categorise(rule, layer)]
         IN  price = None \/ (price.low \in Nat /\ price.high \in Nat /\ price.low <= price.high)
  <1> DEFINE cat == R!categorise(rule, layer)
             hits == {i \in DOMAIN R!CategoryWords : R!CategoryWords[i][2] \cap RuleWords[rule] # {}}
  <1>1. cat \in {"drift", "credential_exposure", "shell_execution", "out_of_scope_write", "destructive", "other"}
    <2>1. cat = "drift" \/ cat = "other" \/ (hits # {} /\ cat = R!CategoryWords[R!Min(hits)][1])
      BY Zenon DEF R!categorise, R!FirstNamed
    <2>2. DOMAIN R!CategoryWords = 1..4
      BY DEF R!CategoryWords
    <2>3. ASSUME hits # {} PROVE R!Min(hits) \in 1..4
      <3>1. hits \in SUBSET (1..4)
        BY <2>2
      <3> HIDE DEF hits
      <3>2. hits \in SUBSET Nat
        BY <3>1
      <3>3. \E m \in hits : \A k \in hits : m <= k
        BY <2>3, <3>2, Least
      <3>4. R!Min(hits) \in hits
        BY <3>3 DEF R!Min
      <3> QED
        BY <3>1, <3>4
    <2>4. \A i \in 1..4 : R!CategoryWords[i][1] \in
            {"credential_exposure", "shell_execution", "out_of_scope_write", "destructive"}
      BY DEF R!CategoryWords
    <2> HIDE DEF cat, hits
    <2> QED
      BY <2>1, <2>3, <2>4
  <1> HIDE DEF cat
  <1>2. \/ R!TURNS_WASTED[cat] = None
        \/ R!TURNS_WASTED[cat] \in {[low |-> 1, high |-> 3], [low |-> 2, high |-> 10], [low |-> 2, high |-> 15]}
    BY <1>1 DEF R!TURNS_WASTED
  <1>3. R!TURNS_WASTED[cat] = None \/ (R!TURNS_WASTED[cat].low \in Nat /\ R!TURNS_WASTED[cat].high \in Nat
                                       /\ R!TURNS_WASTED[cat].low <= R!TURNS_WASTED[cat].high)
    BY <1>2
  <1> QED
    BY <1>3 DEF cat

\* What is priced is what was blocked, action by action.
LEMMA SavingsOf ==
  ASSUME NEW db, OnFile(db)
  PROVE  LET v == R!estimateSavings(db)
             n == Cardinality(R!Actions(R!Blocks(R!Of(db.incidents, "live"))))
         IN  /\ v.priced_actions \in Nat /\ v.unpriced_actions \in Nat
             /\ v.priced_actions + v.unpriced_actions = n
             /\ v.tokens.low \in Int /\ v.tokens.high \in Int /\ v.tokens.low <= v.tokens.high
  <1> DEFINE live == R!Of(db.incidents, "live")
             acts == R!Actions(R!Blocks(live))
             rows == {<<r.rule, r.tool, r.target, r.layer>> : r \in {x \in live : x.action = "block" \/ x.layer = 2}}
             category(r) == R!categorise(r[1], r[4])
             priced == {r \in rows : R!TURNS_WASTED[category(r)] # None}
             band(end) == [r \in priced |-> R!bandTokens(category(r))[end]]
             v == R!estimateSavings(db)
  <1>1. v.priced_actions = Cardinality(priced) /\ v.unpriced_actions = Cardinality(rows \ priced)
    <2>1. v.priced_actions = R!Cardinality(priced) /\ v.unpriced_actions = R!Cardinality(rows \ priced)
      BY Zenon DEF R!estimateSavings
    <2> QED
      BY <2>1, SameCount, Zenon
  <1>2. v.tokens = [end \in {"low", "high"} |-> R!SumFunction(band(end))]
    BY Zenon DEF R!estimateSavings
  <1>3. rows = {<<a[1], a[2], a[3], 1>> : a \in acts}
    <2>1. {x \in live : x.action = "block" \/ x.layer = 2} = R!Blocks(live) /\ \A r \in live : r.layer = 1
      BY DEF R!Blocks, R!Of, OnFile
    <2>2. R!Blocks(live) \subseteq live
      BY DEF R!Blocks
    <2>3. rows = {<<r.rule, r.tool, r.target, r.layer>> : r \in R!Blocks(live)}
      BY <2>1, Zenon
    <2> HIDE DEF live, rows
    <2>4. \A r \in R!Blocks(live) : r.layer = 1
      BY <2>1, <2>2
    <2>5. rows = {<<r.rule, r.tool, r.target, 1>> : r \in R!Blocks(live)}
      BY <2>3, <2>4
    <2> DEFINE S == R!Blocks(live)
               f == [r \in S |-> <<r.rule, r.tool, r.target>>]
    <2>6. {<<a[1], a[2], a[3], 1>> : a \in acts} = {<<a[1], a[2], a[3], 1>> : a \in {f[r] : r \in S}}
      BY DEF R!Actions
    <2> HIDE DEF S, acts
    <2>7. \A r \in S : <<f[r][1], f[r][2], f[r][3], 1>> = <<r.rule, r.tool, r.target, 1>>
      OBVIOUS
    <2>8. {<<a[1], a[2], a[3], 1>> : a \in {f[r] : r \in S}} = {<<r.rule, r.tool, r.target, 1>> : r \in S}
      <3> HIDE DEF f
      <3> QED
        BY <2>7
    <2> QED
      BY <2>5, <2>6, <2>8, Zenon DEF S
  <1>4. IsFiniteSet(acts) /\ Cardinality(acts) \in Nat
    <2>1. R!Blocks(live) \in SUBSET db.incidents
      BY DEF R!Blocks, R!Of
    <2>2. IsFiniteSet(R!Blocks(live))
      BY <2>1, FS_Subset DEF OnFile
    <2> DEFINE f == [r \in R!Blocks(live) |-> <<r.rule, r.tool, r.target>>]
    <2>3. acts = {f[r] : r \in R!Blocks(live)}
      BY DEF R!Actions
    <2> HIDE DEF f, acts
    <2> QED
      BY <2>2, <2>3, FiniteImage, FS_CardinalityType
  <1>5. IsFiniteSet(rows) /\ Cardinality(rows) = Cardinality(acts)
    <2> DEFINE f == [a \in acts |-> <<a[1], a[2], a[3], 1>>]
    <2>1. \A a, b \in acts : f[a] = f[b] => a = b
      BY DEF R!Actions
    <2>2. rows = {f[a] : a \in acts}
      BY <1>3
    <2> HIDE DEF f, acts, rows
    <2> QED
      BY <1>4, <2>1, <2>2, OneToOne
  <1>6. /\ IsFiniteSet(priced) /\ Cardinality(priced) \in Nat /\ Cardinality(rows \ priced) \in Nat
        /\ Cardinality(priced) + Cardinality(rows \ priced) = Cardinality(rows)
    <2>1. priced \in SUBSET rows
      OBVIOUS
    <2> HIDE DEF rows, priced
    <2>2. IsFiniteSet(priced) /\ IsFiniteSet(rows \ priced)
      BY <1>5, <2>1, FS_Subset
    <2>3. rows = priced \cup (rows \ priced) /\ priced \cap (rows \ priced) = {}
      BY <2>1
    <2>4. Cardinality(priced \cup (rows \ priced))
            = Cardinality(priced) + Cardinality(rows \ priced) - Cardinality(priced \cap (rows \ priced))
      BY <2>2, FS_Union
    <2>5. Cardinality(priced \cap (rows \ priced)) = 0
      BY <2>3, FS_EmptySet
    <2>6. Cardinality(priced) \in Nat /\ Cardinality(rows \ priced) \in Nat
      BY <2>2, FS_CardinalityType
    <2> QED
      BY <2>2, <2>3, <2>4, <2>5, <2>6
  <1>7. /\ R!SumFunction(band("low")) \in Int /\ R!SumFunction(band("high")) \in Int
        /\ R!SumFunction(band("low")) <= R!SumFunction(band("high"))
    <2>1. ASSUME NEW r \in priced
          PROVE  band("low")[r] \in Int /\ band("high")[r] \in Int /\ band("low")[r] <= band("high")[r]
      <3> DEFINE price == R!TURNS_WASTED[category(r)]
      <3>1. price.low \in Nat /\ price.high \in Nat /\ price.low <= price.high
        BY <2>1, CategoryHasAPrice
      <3>2. band("low")[r] = price.low * 1000 /\ band("high")[r] = price.high * 4000
        BY <2>1 DEF R!bandTokens, R!TURN_TOKENS
      <3> HIDE DEF price, band
      <3> QED
        BY <3>1, <3>2
    <2> DEFINE f == band("low")  g == band("high")
    <2>2. DOMAIN f = priced /\ DOMAIN g = priced
      OBVIOUS
    <2> HIDE DEF f, g, priced
    <2> QED
      BY <1>6, <2>1, <2>2, SumMonotone, SumIsInt DEF f, g
  <1> HIDE DEF v, priced, rows, acts, band
  <1>8. v.tokens.low = R!SumFunction(band("low")) /\ v.tokens.high = R!SumFunction(band("high"))
    BY <1>2
  <1>9. v.priced_actions \in Nat /\ v.unpriced_actions \in Nat
        /\ v.priced_actions + v.unpriced_actions = Cardinality(acts)
        /\ v.tokens.low \in Int /\ v.tokens.high \in Int /\ v.tokens.low <= v.tokens.high
    BY <1>1, <1>5, <1>6, <1>7, <1>8
  <1> QED
    BY <1>9 DEF v, acts

\* The self-check of metrics finds nothing but that blocks outnumber events.
LEMMA ProblemsOf ==
  ASSUME NEW db, OnFile(db), NEW p \in R!checkIntegrity(Parts(db))
  PROVE  p[1] = "blocks outnumber events"
  <1> DEFINE m == Parts(db)
  <1>1. ASSUME NEW o \in R!INCIDENT_ORIGINS
        PROVE  /\ m[o] = R!breakdownFor(db, o)
               /\ ~ m[o].distinct_actions > m[o].attempts
               /\ ~ m[o].incidents < m[o].attempts /\ ~ m[o].incidents < m[o].drift_warnings
    <2> DEFINE inc == R!Of(db.incidents, o)
    <2>1. m[o] = R!breakdownFor(db, o)
      BY DEF R!INCIDENT_ORIGINS, Parts
    <2>2. inc \in SUBSET db.incidents /\ R!Blocks(inc) \in SUBSET inc /\ {r \in inc : r.layer = 2} \in SUBSET inc
      BY DEF R!Of, R!Blocks
    <2>3. IsFiniteSet(inc) /\ IsFiniteSet(R!Blocks(inc))
      BY <2>2, FS_Subset DEF OnFile
    <2>4. Cardinality(R!Blocks(inc)) <= Cardinality(inc) /\ Cardinality({r \in inc : r.layer = 2}) <= Cardinality(inc)
      <3> HIDE DEF inc
      <3> QED
        BY <2>2, <2>3, FS_Subset
    <2>5. Cardinality(R!Actions(R!Blocks(inc))) <= Cardinality(R!Blocks(inc))
      <3> DEFINE f == [r \in R!Blocks(inc) |-> <<r.rule, r.tool, r.target>>]
      <3>1. f \in Surjection(R!Blocks(inc), R!Actions(R!Blocks(inc)))
        BY DEF Surjection, R!Actions
      <3> HIDE DEF f
      <3> QED
        BY <2>3, <3>1, FS_Surjection
    <2>6. IsFiniteSet(R!Actions(R!Blocks(inc))) /\ IsFiniteSet({r \in inc : r.layer = 2})
      <3> DEFINE f == [r \in R!Blocks(inc) |-> <<r.rule, r.tool, r.target>>]
      <3>1. f \in Surjection(R!Blocks(inc), R!Actions(R!Blocks(inc)))
        BY DEF Surjection, R!Actions
      <3> HIDE DEF f, inc
      <3> QED
        BY <2>2, <2>3, <3>1, FS_Surjection, FS_Subset
    <2>7. /\ m[o].attempts = Cardinality(R!Blocks(inc)) /\ m[o].distinct_actions = Cardinality(R!Actions(R!Blocks(inc)))
          /\ m[o].incidents = Cardinality(inc) /\ m[o].drift_warnings = Cardinality({r \in inc : r.layer = 2})
      BY <2>1, BreakdownOf
    <2> HIDE DEF m, inc
    <2>8. /\ Cardinality(R!Blocks(inc)) \in Nat /\ Cardinality(R!Actions(R!Blocks(inc))) \in Nat
          /\ Cardinality(inc) \in Nat /\ Cardinality({r \in inc : r.layer = 2}) \in Nat
      BY <2>3, <2>6, FS_CardinalityType
    <2> QED
      BY <2>1, <2>4, <2>5, <2>7, <2>8
  <1>2. m.savings = R!estimateSavings(db) /\ "live" \in R!INCIDENT_ORIGINS
    BY DEF Parts, R!INCIDENT_ORIGINS
  <1>3. m["live"].distinct_actions = Cardinality(R!Actions(R!Blocks(R!Of(db.incidents, "live"))))
        /\ m["live"].drift_warnings = Cardinality({r \in R!Of(db.incidents, "live") : r.layer = 2})
    <2>1. m["live"] = R!breakdownFor(db, "live")
      BY <1>1, <1>2, Zenon
    <2> QED
      BY <2>1, BreakdownOf, Zenon
  <1>4. m["live"].drift_warnings = 0
    <2>1. {r \in R!Of(db.incidents, "live") : r.layer = 2} = {}
      BY DEF R!Of, OnFile
    <2> QED
      BY <1>3, <2>1, FS_EmptySet
  <1>5. ~ m.savings.tokens.low > m.savings.tokens.high
    <2>1. m.savings.tokens.low <= m.savings.tokens.high
      BY <1>2, SavingsOf
    <2>2. m.savings.tokens.low \in Int /\ m.savings.tokens.high \in Int
      BY <1>2, SavingsOf
    <2> QED
      BY <2>1, <2>2
  <1>6. ~ m.savings.priced_actions > m["live"].distinct_actions + m["live"].drift_warnings
    BY <1>2, <1>3, <1>4, SavingsOf
  <1> HIDE DEF m
  <1>7. p \in R!checkIntegrity(m)
    BY DEF m
  <1>8. (\E o : p = <<"blocks outnumber events", o>>) \/ (\E x \in R!INCIDENT_ORIGINS : m[x].distinct_actions > m[x].attempts)
          \/ (\E x \in R!INCIDENT_ORIGINS : m[x].incidents < m[x].attempts \/ m[x].incidents < m[x].drift_warnings)
          \/ m.savings.tokens.low > m.savings.tokens.high
          \/ m.savings.priced_actions > m["live"].distinct_actions + m["live"].drift_warnings
    BY <1>7, Zenon DEF R!checkIntegrity
  <1>9. \E o : p = <<"blocks outnumber events", o>>
    BY <1>1, <1>5, <1>6, <1>8, Zenon
  <1>10. PICK o : p = <<"blocks outnumber events", o>>
    BY <1>9, Zenon
  <1>11. <<"blocks outnumber events", o>>[1] = "blocks outnumber events"
    OBVIOUS
  <1> QED
    BY <1>10, <1>11, Zenon

\* The rows of the sessions of an origin are the rows of that origin.
LEMMA RowsOfOrigin ==
  ASSUME NEW db, OnFile(db), NEW rows \in SUBSET (db.events \cup db.incidents), NEW o
  PROVE  RowsOf(R!Of(db.sessions, o), rows) = R!Of(rows, o)
  <1>1. ASSUME NEW e \in rows PROVE (e.session \in Ids(R!Of(db.sessions, o))) <=> (e.origin = o)
    <2>1. PICK x \in db.sessions : x.id = e.session /\ x.origin = e.origin
      BY DEF OnFile
    <2>2. \A y \in db.sessions : y.id = e.session => y = x
      BY <2>1 DEF OnFile
    <2> QED
      BY <2>1, <2>2 DEF Ids, R!Of
  <1> QED
    BY <1>1 DEF R!Of, RowsOf

\* No receipt contradicts itself, and none is of a session that ended before time began.
LEMMA ReceiptIsSound ==
  ASSUME NEW db, OnFile(db), NEW x \in db.sessions, NEW now
  PROVE  LET r == R!buildReceipt(db, x.id, now)
         IN  r.problems \subseteq {"target", "command"} /\ r.lastActivityAt >= Epoch
  <1> DEFINE s == x.id
             rows == R!InSession(db.events, s)
             valid == {e \in rows : e.ts # None /\ e.ts > 0}
             bad == R!Cardinality(rows \ valid)
             files == {e \in rows : e.tool \in R!FILE_TOOLS}
             bash == {e \in rows : e.tool = "bash"}
             noTarget(S) == {e \in S : e.target \in {None, ""}}
             times == {e.ts : e \in valid}
             start == R!Min(times \cup {(CHOOSE y \in db.sessions : y.id = s).startedAt})
             inc == R!InSession(db.incidents, s)
             touched == IF noTarget(files) # {} THEN R!unavailable("file event without target")
                        ELSE R!available(R!Cardinality({e.target : e \in files}))
             ran == IF noTarget(bash) # {} THEN R!unavailable("command event without command")
                    ELSE R!available(R!Cardinality(bash))
             above(f, n) == f.available /\ f.value > n
             blocked == R!actionsIn(db, s, "block")
             warned == R!actionsIn(db, s, "warn")
             r == R!buildReceipt(db, s, now)
  <1>1. R!hasReceipt(db, s)
    BY DEF R!hasReceipt
  <1>2. r.problems =
          {p \in {"timestamp", "target", "command", "incidents", "files", "commands"} :
             \/ p = "timestamp" /\ bad > 0
             \/ p = "target" /\ noTarget(files) # {}
             \/ p = "command" /\ noTarget(bash) # {}
             \/ p = "incidents" /\ blocked + warned > R!Cardinality(inc)
             \/ p = "files" /\ above(touched, R!Cardinality(rows))
             \/ p = "commands" /\ above(ran, R!Cardinality(rows))}
    BY <1>1, Zenon DEF R!buildReceipt
  <1>3. r.lastActivityAt = IF times = {} THEN start ELSE R!Max(times)
    BY <1>1, Zenon DEF R!buildReceipt
  <1>4. (CHOOSE y \in db.sessions : y.id = s) = x
    BY DEF OnFile
  <1>5. IsFiniteSet(rows) /\ IsFiniteSet(inc) /\ Cardinality(rows) \in Nat /\ Cardinality(inc) \in Nat
    <2>1. rows \in SUBSET db.events /\ inc \in SUBSET db.incidents
      BY DEF R!InSession
    <2> HIDE DEF rows, inc
    <2> QED
      BY <2>1, FS_Subset, FS_CardinalityType DEF OnFile
  <1>6. \A e \in rows : e.ts \in Nat /\ e.ts # None /\ e.ts >= Epoch /\ e.ts > 0
    BY LimitAssumption DEF R!InSession, OnFile
  <1>7. valid = rows
    BY <1>6
  <1>8. ~ bad > 0
    <2>1. rows \ valid = {}
      BY <1>7
    <2>2. bad = 0
      BY <2>1, SameCount, FS_EmptySet
    <2> QED
      BY <2>2
  <1>9. ~ blocked + warned > R!Cardinality(inc)
    <2> DEFINE B == {e \in inc : e.action = "block"}
               W == {e \in inc : e.action = "warn"}
    <2>1. blocked = Cardinality(B) /\ warned = Cardinality(W)
      BY SameCount, Zenon DEF R!actionsIn
    <2>2. B \cap W = {} /\ B \in SUBSET inc /\ W \in SUBSET inc
      OBVIOUS
    <2> HIDE DEF B, W, inc
    <2>3. IsFiniteSet(B) /\ IsFiniteSet(W) /\ B \cup W \in SUBSET inc
      BY <1>5, <2>2, FS_Subset
    <2>4. Cardinality(B \cup W) = Cardinality(B) + Cardinality(W) - Cardinality(B \cap W)
      BY <2>3, FS_Union
    <2>5. Cardinality(B \cap W) = 0 /\ Cardinality(B) \in Nat /\ Cardinality(W) \in Nat
      BY <2>2, <2>3, FS_EmptySet, FS_CardinalityType
    <2>6. Cardinality(B \cup W) <= Cardinality(inc)
      BY <1>5, <2>3, FS_Subset
    <2> HIDE DEF blocked, warned
    <2>7. R!Cardinality(inc) = Cardinality(inc)
      BY SameCount
    <2> QED
      BY <1>5, <2>1, <2>4, <2>5, <2>6, <2>7
  <1>10. ~ above(touched, R!Cardinality(rows)) /\ ~ above(ran, R!Cardinality(rows))
    <2> DEFINE named == {e.target : e \in files}
    <2>1. files \in SUBSET rows /\ bash \in SUBSET rows
      OBVIOUS
    <2> DEFINE f == [e \in files |-> e.target]
    <2>2. f \in Surjection(files, named)
      BY DEF Surjection
    <2>3. touched = R!unavailable("file event without target") \/ touched = R!available(Cardinality(named))
      BY SameCount, Zenon
    <2>4. ran = R!unavailable("command event without command") \/ ran = R!available(Cardinality(bash))
      BY SameCount, Zenon
    <2> HIDE DEF f, named, files, bash, rows, touched, ran
    <2>5. IsFiniteSet(files) /\ IsFiniteSet(bash)
      BY <1>5, <2>1, FS_Subset
    <2>6. /\ Cardinality(files) <= Cardinality(rows) /\ Cardinality(bash) <= Cardinality(rows)
          /\ Cardinality(named) <= Cardinality(files) /\ IsFiniteSet(named)
      BY <1>5, <2>1, <2>2, <2>5, FS_Subset, FS_Surjection
    <2>7. Cardinality(files) \in Nat /\ Cardinality(bash) \in Nat /\ Cardinality(named) \in Nat
      BY <2>5, <2>6, FS_CardinalityType
    <2>8. R!Cardinality(rows) = Cardinality(rows)
      BY SameCount
    <2>9. \A why : R!unavailable(why).available = FALSE
      BY DEF R!unavailable
    <2>10. \A n : R!available(n).value = n
      BY DEF R!available
    <2>11. ~ Cardinality(named) > Cardinality(rows) /\ ~ Cardinality(bash) > Cardinality(rows)
      BY <1>5, <2>6, <2>7
    <2>12. ~ above(touched, R!Cardinality(rows))
      BY <2>3, <2>8, <2>9, <2>10, <2>11, Zenon
    <2>13. ~ above(ran, R!Cardinality(rows))
      BY <2>4, <2>8, <2>9, <2>10, <2>11, Zenon
    <2> QED
      BY <2>12, <2>13
  <1>11. r.problems \subseteq {"target", "command"}
    <2> HIDE DEF r, bad, files, bash, touched, ran, blocked, warned, inc, rows
    <2> QED
      BY <1>2, <1>8, <1>9, <1>10, Zenon
  <1>12. r.lastActivityAt >= Epoch
    <2>1. CASE times = {}
      <3>1. start = R!Min({x.startedAt})
        BY <1>4, <2>1
      <3>2. R!Min({x.startedAt}) = x.startedAt
        BY DEF R!Min, OnFile
      <3> QED
        BY <1>3, <2>1, <3>1, <3>2 DEF OnFile
    <2>2. CASE times # {}
      <3>1. times = {e.ts : e \in rows}
        BY <1>7
      <3>2. times \in SUBSET Int /\ \A t \in times : t >= Epoch
        BY <1>6, <3>1
      <3>3. IsFiniteSet(times)
        <4> DEFINE f == [e \in rows |-> e.ts]
        <4>1. times = {f[e] : e \in rows}
          BY <3>1
        <4> HIDE DEF f, times, rows
        <4> QED
          BY <1>5, <4>1, FiniteImage
      <3> HIDE DEF times
      <3>4. \E m \in times : \A k \in times : m >= k
        BY <2>2, <3>2, <3>3, Extremes
      <3>5. R!Max(times) \in times
        BY <3>4, Zenon DEF R!Max
      <3> QED
        BY <1>3, <2>2, <3>2, <3>5
    <2> QED
      BY <2>1, <2>2
  <1> QED
    BY <1>11, <1>12

\* Counted by their rules, incidents add up.
LEMMA RulesAddUp ==
  ASSUME NEW rows, IsFiniteSet(rows)
  PROVE  R!SumFunction(RuleCounts(rows)) = Cardinality(rows)
  <1> DEFINE key == [i \in rows |-> i.rule]
             f == [rule \in {i.rule : i \in rows} |-> Cardinality({i \in rows : i.rule = rule})]
  <1>1. DOMAIN f = {key[i] : i \in rows}
    OBVIOUS
  <1>2. \A k \in DOMAIN f : f[k] = Cardinality({i \in rows : key[i] = k})
    <2>1. ASSUME NEW k \in DOMAIN f PROVE {i \in rows : key[i] = k} = {i \in rows : i.rule = k}
      OBVIOUS
    <2> QED
      BY <2>1
  <1> HIDE DEF f, key
  <1>3. IsFiniteSet(DOMAIN f)
    BY <1>1, FiniteImage
  <1>4. R!SumFunction(f) = Cardinality({i \in rows : key[i] \in DOMAIN f})
    BY <1>2, <1>3, SumOfCounts
  <1>5. {i \in rows : key[i] \in DOMAIN f} = rows
    BY <1>1
  <1> QED
    BY <1>4, <1>5 DEF f, RuleCounts

\* The sessions that the week reads.
Recent(db) == R!newest(db.sessions, WEEK_SESSIONS, [x \in db.sessions |-> R!lastActivity(db, x.id)])

LEMMA RecentOf ==
  ASSUME NEW db, OnFile(db)
  PROVE  /\ Recent(db) \in SUBSET db.sessions
         /\ Cardinality(db.sessions) <= WEEK_SESSIONS => Recent(db) = db.sessions
  <1> DEFINE at == [x \in db.sessions |-> R!lastActivity(db, x.id)]
  <1>1. ASSUME NEW x \in db.sessions PROVE R!lastActivity(db, x.id) \in Int
    <2> DEFINE rows == {e \in R!InSession(db.events, x.id) : e.ts # None}
               times == {e.ts : e \in rows}
    <2>1. R!lastActivity(db, x.id)
            = IF times = {} THEN (CHOOSE r \in db.sessions : r.id = x.id).startedAt ELSE R!Max(times)
      BY Zenon DEF R!lastActivity
    <2>2. CASE times = {}
      <3>1. (CHOOSE r \in db.sessions : r.id = x.id) = x
        BY DEF OnFile
      <3> QED
        BY <2>1, <2>2, <3>1 DEF OnFile
    <2>3. CASE times # {}
      <3>1. rows \in SUBSET db.events
        BY DEF R!InSession
      <3>2. times \in SUBSET Int
        BY <3>1 DEF OnFile
      <3>3. IsFiniteSet(rows)
        <4> HIDE DEF rows
        <4> QED
          BY <3>1, FS_Subset DEF OnFile
      <3>4. IsFiniteSet(times)
        <4> DEFINE f == [e \in rows |-> e.ts]
        <4>1. times = {f[e] : e \in rows}
          OBVIOUS
        <4> HIDE DEF f, times, rows
        <4> QED
          BY <3>3, <4>1, FiniteImage
      <3> HIDE DEF times
      <3>5. \E m \in times : \A k \in times : m >= k
        BY <2>3, <3>2, <3>4, Extremes
      <3>6. R!Max(times) \in times
        BY <3>5, Zenon DEF R!Max
      <3> QED
        BY <2>1, <2>3, <3>2, <3>6
    <2> QED
      BY <2>2, <2>3
  <1>2. \A x \in db.sessions : at[x] \in Int
    BY <1>1
  <1> HIDE DEF at
  <1>3. IsFiniteSet(db.sessions) /\ WEEK_SESSIONS \in Nat
    BY LimitAssumption DEF OnFile
  <1>4. /\ R!newest(db.sessions, WEEK_SESSIONS, at) \in SUBSET db.sessions
        /\ Cardinality(db.sessions) <= WEEK_SESSIONS => R!newest(db.sessions, WEEK_SESSIONS, at) = db.sessions
    BY <1>2, <1>3, Newest
  <1> QED
    BY <1>4 DEF Recent, at

\* The week is of the receipts of its live sessions, and of the incidents among the newest.
LEMMA WeekOf ==
  ASSUME NEW db, OnFile(db), NEW now
  PROVE  LET X == R!Of(Recent(db), "live")
             T == Receipts(db, X, now)
             recent == R!newest(db.incidents, WEEK_ROWS, [r \in db.incidents |-> r.ts])
             caught == {i \in R!Of(recent, "live") : i.session \in Ids(X) /\ i.ts >= Epoch}
             w == R!buildWeek(db, Epoch, now)
         IN  /\ w.sessions = Cardinality(T)
             /\ w.events = EventSum(T) /\ w.blocked = BlockSum(T) /\ w.byRule = RuleCounts(caught)
  <1> DEFINE X == R!Of(Recent(db), "live")
             T == Receipts(db, X, now)
             recent == R!newest(db.incidents, WEEK_ROWS, [r \in db.incidents |-> r.ts])
             got == R!Of(R!recentReceipts(db, Epoch, now), "live")
             ids == {r.sessionId : r \in got}
             held == {i \in R!Of(recent, "live") : i.session \in ids /\ i.ts >= Epoch}
             w == R!buildWeek(db, Epoch, now)
  <1>1. /\ w.sessions = R!Cardinality(got)
        /\ w.events = R!SumFunction([r \in got |-> r["events"]])
        /\ w.blocked = R!SumFunction([r \in got |-> r["blocked"]])
        /\ w.byRule = [rule \in {i.rule : i \in held} |-> R!Cardinality({i \in held : i.rule = rule})]
    BY Zenon DEF R!buildWeek, R!weekOf
  <1>2. R!recentSessionIds(db, WEEK_SESSIONS) = Ids(Recent(db))
    BY Zenon DEF R!recentSessionIds, Ids, Recent
  <1>3. R!recentReceipts(db, Epoch, now) = {r \in {R!buildReceipt(db, s, now) : s \in Ids(Recent(db))} :
                                              r.lastActivityAt >= Epoch}
    BY <1>2, Zenon DEF R!recentReceipts
  <1>4. Recent(db) \in SUBSET db.sessions
    BY RecentOf
  <1>5. \A x \in Recent(db) : LET r == R!buildReceipt(db, x.id, now)
                              IN  r.origin = x.origin /\ r.sessionId = x.id /\ r.lastActivityAt >= Epoch
    <2> TAKE x \in Recent(db)
    <2>1. x \in db.sessions /\ \A y \in db.sessions : y.id = x.id => y = x
      BY <1>4 DEF OnFile
    <2>2. LET r == R!buildReceipt(db, x.id, now) IN r.origin = x.origin /\ r.sessionId = x.id
      BY <2>1, ReceiptOf
    <2>3. R!buildReceipt(db, x.id, now).lastActivityAt >= Epoch
      BY <2>1, ReceiptIsSound
    <2> QED
      BY <2>2, <2>3
  <1>6. got = T
    <2>1. got = {r \in {R!buildReceipt(db, s, now) : s \in Ids(Recent(db))} :
                   r.lastActivityAt >= Epoch /\ r.origin = "live"}
      BY <1>3, Zenon DEF R!Of
    <2>2. T = {R!buildReceipt(db, x.id, now) : x \in {y \in Recent(db) : y.origin = "live"}}
      BY Zenon DEF Receipts, R!Of
    <2> HIDE DEF got, T
    <2>3. ASSUME NEW r \in got PROVE r \in T
      <3>1. PICK x \in Recent(db) : r = R!buildReceipt(db, x.id, now) /\ r.origin = "live"
        BY <2>1, <2>3, Zenon DEF Ids
      <3> QED
        BY <1>5, <2>2, <3>1, Zenon
    <2>4. ASSUME NEW r \in T PROVE r \in got
      <3>1. PICK x \in Recent(db) : r = R!buildReceipt(db, x.id, now) /\ x.origin = "live"
        BY <2>2, <2>4, Zenon
      <3> QED
        BY <1>5, <2>1, <3>1, Zenon DEF Ids
    <2> QED
      BY <2>3, <2>4, Zenon
  <1>7. ids = Ids(X)
    <2>1. ids = {r.sessionId : r \in T}
      BY <1>6, Zenon
    <2>2. \A x \in X : R!buildReceipt(db, x.id, now).sessionId = x.id
      BY <1>5 DEF R!Of
    <2> HIDE DEF ids, X
    <2> QED
      BY <2>1, <2>2 DEF T, Receipts, Ids
  <1> HIDE DEF got, ids, w, recent, T, X
  <1>8. \A S : R!Cardinality(S) = Cardinality(S)
    BY SameCount
  <1>9. /\ w.sessions = Cardinality(T)
        /\ w.events = EventSum(T) /\ w.blocked = BlockSum(T)
    BY <1>1, <1>6, <1>8, Zenon DEF EventSum, BlockSum
  <1> DEFINE caught == {i \in R!Of(recent, "live") : i.session \in Ids(X) /\ i.ts >= Epoch}
  <1>10. held = caught
    BY <1>7, Zenon
  <1>11. w.byRule = RuleCounts(caught)
    BY <1>1, <1>8, <1>10, Zenon DEF RuleCounts
  <1> QED
    BY <1>9, <1>11 DEF T, X, recent, w

\* The receipts of real sessions: their number, and the rows they count.
LiveReceiptsOf(db, now) == R!Of({R!buildReceipt(db, x.id, now) : x \in db.sessions}, "live")

LEMMA LiveReceipts ==
  ASSUME NEW db, OnFile(db), NEW now
  PROVE  LET T == LiveReceiptsOf(db, now)
         IN  /\ Cardinality(T) = Cardinality(R!Of(db.sessions, "live"))
             /\ EventSum(T) = Cardinality(R!Of(db.events, "live"))
             /\ BlockSum(T) = Cardinality(R!Blocks(R!Of(db.incidents, "live")))
             /\ \A r \in T : r.problems \subseteq {"target", "command"}
  <1> DEFINE T == LiveReceiptsOf(db, now)
             X == R!Of(db.sessions, "live")
  <1>1. \A x \in db.sessions : /\ R!buildReceipt(db, x.id, now).origin = x.origin
                               /\ R!buildReceipt(db, x.id, now).problems \subseteq {"target", "command"}
    <2> TAKE x \in db.sessions
    <2>1. \A y \in db.sessions : y.id = x.id => y = x
      BY DEF OnFile
    <2>2. R!buildReceipt(db, x.id, now).origin = x.origin
      BY <2>1, ReceiptOf
    <2>3. R!buildReceipt(db, x.id, now).problems \subseteq {"target", "command"}
      BY ReceiptIsSound
    <2> QED
      BY <2>2, <2>3
  <1>2. T = Receipts(db, X, now)
    <2>1. T = {r \in {R!buildReceipt(db, x.id, now) : x \in db.sessions} : r.origin = "live"}
      BY Zenon DEF R!Of, LiveReceiptsOf
    <2>2. Receipts(db, X, now) = {R!buildReceipt(db, x.id, now) : x \in {y \in db.sessions : y.origin = "live"}}
      BY Zenon DEF Receipts, R!Of
    <2> HIDE DEF T, X
    <2>3. ASSUME NEW r \in T PROVE r \in Receipts(db, X, now)
      <3>1. PICK x \in db.sessions : r = R!buildReceipt(db, x.id, now) /\ r.origin = "live"
        BY <2>1, <2>3, Zenon
      <3> QED
        BY <1>1, <2>2, <3>1, Zenon
    <2>4. ASSUME NEW r \in Receipts(db, X, now) PROVE r \in T
      <3>1. PICK x \in db.sessions : r = R!buildReceipt(db, x.id, now) /\ x.origin = "live"
        BY <2>2, <2>4, Zenon
      <3> QED
        BY <1>1, <2>1, <3>1, Zenon
    <2> QED
      BY <2>3, <2>4, Zenon
  <1>3. X \in SUBSET db.sessions
    BY DEF R!Of
  <1>4. \A r \in T : r.problems \subseteq {"target", "command"}
    <2> TAKE r \in T
    <2>1. PICK x \in db.sessions : r = R!buildReceipt(db, x.id, now)
      BY Zenon DEF R!Of, LiveReceiptsOf
    <2> QED
      BY <1>1, <2>1, Zenon
  <1>5. /\ RowsOf(X, db.events) = R!Of(db.events, "live")
        /\ RowsOf(X, R!Blocks(db.incidents)) = R!Blocks(R!Of(db.incidents, "live"))
    <2>1. RowsOf(X, db.events) = R!Of(db.events, "live")
      BY RowsOfOrigin
    <2>2. RowsOf(X, R!Blocks(db.incidents)) = R!Of(R!Blocks(db.incidents), "live")
      <3>1. R!Blocks(db.incidents) \in SUBSET (db.events \cup db.incidents)
        BY DEF R!Blocks
      <3> QED
        BY <3>1, RowsOfOrigin
    <2> QED
      BY <2>1, <2>2 DEF R!Of, R!Blocks
  <1> HIDE DEF T, X
  <1>6. /\ Cardinality(T) = Cardinality(X)
        /\ EventSum(T) = Cardinality(RowsOf(X, db.events))
        /\ BlockSum(T) = Cardinality(RowsOf(X, R!Blocks(db.incidents)))
    BY <1>2, <1>3, ReceiptsAddUp
  <1> QED
    BY <1>4, <1>5, <1>6, Zenon DEF T, X

\* The week's figures never exceed those of metrics, and are the same within its limits.
LEMMA WeekWithin ==
  ASSUME NEW db, OnFile(db), NEW now
  PROVE  LET w == R!buildWeek(db, Epoch, now)
             sessions == Cardinality(R!Of(db.sessions, "live"))
             blocked == Cardinality(R!Blocks(R!Of(db.incidents, "live")))
             seen == Cardinality(R!Of(db.events, "live"))
             rules == R!SumFunction(w.byRule)
             caught == Cardinality(R!Of(db.incidents, "live"))
         IN  /\ w.blocked <= blocked /\ w.events <= seen /\ w.sessions <= sessions /\ rules <= caught
             /\ Cardinality(db.sessions) <= WEEK_SESSIONS =>
                  /\ w.blocked = blocked /\ w.events = seen /\ w.sessions = sessions
                  /\ Cardinality(db.incidents) <= WEEK_ROWS => rules = caught
  <1> DEFINE X == R!Of(Recent(db), "live")
             all == R!Of(db.sessions, "live")
             T == Receipts(db, X, now)
             recent == R!newest(db.incidents, WEEK_ROWS, [r \in db.incidents |-> r.ts])
             caught == {i \in R!Of(recent, "live") : i.session \in Ids(X) /\ i.ts >= Epoch}
             w == R!buildWeek(db, Epoch, now)
             blocks == R!Blocks(R!Of(db.incidents, "live"))
  <1>1. /\ w.sessions = Cardinality(T)
        /\ w.events = EventSum(T) /\ w.blocked = BlockSum(T) /\ w.byRule = RuleCounts(caught)
    BY WeekOf, Zenon
  <1>2. /\ X \in SUBSET db.sessions /\ X \in SUBSET all
        /\ Cardinality(db.sessions) <= WEEK_SESSIONS => X = all
    BY RecentOf DEF R!Of
  <1>3. /\ recent \in SUBSET db.incidents
        /\ Cardinality(db.incidents) <= WEEK_ROWS => recent = db.incidents
    <2> DEFINE at == [r \in db.incidents |-> r.ts]
    <2>1. \A r \in db.incidents : at[r] \in Int
      BY DEF OnFile
    <2>2. IsFiniteSet(db.incidents) /\ WEEK_ROWS \in Nat
      BY LimitAssumption DEF OnFile
    <2> HIDE DEF at
    <2>3. /\ R!newest(db.incidents, WEEK_ROWS, at) \in SUBSET db.incidents
          /\ Cardinality(db.incidents) <= WEEK_ROWS => R!newest(db.incidents, WEEK_ROWS, at) = db.incidents
      BY <2>1, <2>2, Newest
    <2> QED
      BY <2>3 DEF at
  <1>4. \A i \in db.events \cup db.incidents : i.origin = "live" => i.session \in Ids(all) /\ i.ts >= Epoch
    BY DEF Ids, R!Of, OnFile
  <1>5. \A i \in db.events \cup db.incidents : i.session \in Ids(all) => i.origin = "live"
    <2> TAKE i \in db.events \cup db.incidents
    <2>1. RowsOf(all, {i}) = R!Of({i}, "live")
      BY RowsOfOrigin
    <2> QED
      BY <2>1 DEF R!Of, RowsOf
  <1>6. Ids(X) \subseteq Ids(all)
    BY <1>2 DEF Ids
  <1>7. IsFiniteSet(all) /\ IsFiniteSet(R!Of(db.events, "live")) /\ IsFiniteSet(R!Of(db.incidents, "live"))
    <2>1. all \in SUBSET db.sessions /\ R!Of(db.events, "live") \in SUBSET db.events
          /\ R!Of(db.incidents, "live") \in SUBSET db.incidents
      BY DEF R!Of
    <2> HIDE DEF all
    <2> QED
      BY <2>1, FS_Subset DEF OnFile
  <1>8. IsFiniteSet(blocks)
    <2>1. blocks \in SUBSET R!Of(db.incidents, "live")
      BY DEF R!Blocks
    <2> QED
      BY <1>7, <2>1, FS_Subset
  <1> DEFINE seen == RowsOf(X, db.events)
             blocked == RowsOf(X, R!Blocks(db.incidents))
  <1>9. w.sessions = Cardinality(X) /\ w.events = Cardinality(seen) /\ w.blocked = Cardinality(blocked)
    <2> HIDE DEF w, X
    <2> QED
      BY <1>1, <1>2, ReceiptsAddUp
  <1>10. /\ seen \in SUBSET R!Of(db.events, "live") /\ blocked \in SUBSET blocks
         /\ caught \in SUBSET R!Of(db.incidents, "live")
    <2> HIDE DEF X, recent, all
    <2> QED
      BY <1>3, <1>5, <1>6 DEF R!Of, R!Blocks, RowsOf
  <1>11. X = all => seen = R!Of(db.events, "live") /\ blocked = blocks
    <2> HIDE DEF X, recent, all
    <2> QED
      BY <1>4, <1>5 DEF R!Of, R!Blocks, RowsOf
  <1>12. X = all /\ recent = db.incidents => caught = R!Of(db.incidents, "live")
    <2> HIDE DEF X, recent, all
    <2> QED
      BY <1>4, <1>5 DEF R!Of
  <1>13. R!SumFunction(w.byRule) = Cardinality(caught)
    <2> HIDE DEF caught, w
    <2>1. IsFiniteSet(caught)
      BY <1>7, <1>10, FS_Subset
    <2> QED
      BY <1>1, <2>1, RulesAddUp, Zenon
  <1> HIDE DEF X, all, T, recent, caught, w, blocks, seen, blocked
  <1>14. /\ Cardinality(X) <= Cardinality(all) /\ Cardinality(seen) <= Cardinality(R!Of(db.events, "live"))
         /\ Cardinality(blocked) <= Cardinality(blocks)
         /\ Cardinality(caught) <= Cardinality(R!Of(db.incidents, "live"))
    BY <1>2, <1>7, <1>8, <1>10, FS_Subset
  <1>15. Cardinality(db.sessions) <= WEEK_SESSIONS =>
           /\ w.blocked = Cardinality(blocks) /\ w.events = Cardinality(R!Of(db.events, "live"))
           /\ w.sessions = Cardinality(all)
           /\ Cardinality(db.incidents) <= WEEK_ROWS =>
                R!SumFunction(w.byRule) = Cardinality(R!Of(db.incidents, "live"))
    BY <1>2, <1>3, <1>9, <1>11, <1>12, <1>13, Zenon
  <1>16. /\ w.blocked <= Cardinality(blocks) /\ w.events <= Cardinality(R!Of(db.events, "live"))
         /\ w.sessions <= Cardinality(all)
         /\ R!SumFunction(w.byRule) <= Cardinality(R!Of(db.incidents, "live"))
    BY <1>9, <1>13, <1>14, Zenon
  <1> QED
    BY <1>15, <1>16, Zenon DEF w, all, blocks

\* The value report's activity counts the incidents of metrics.
LEMMA ActivityOf ==
  ASSUME NEW db, OnFile(db)
  PROVE  LET act == R!activity(db)
             live == R!Of(db.incidents, "live")
         IN  /\ act.liveBlocks = Cardinality(R!Blocks(live))
             /\ act.liveBlocks + act.liveWarnings = Cardinality(live)
             /\ act.liveSessions = Cardinality(R!Of(db.sessions, "live"))
             /\ act.excludedDemo = Cardinality(R!Of(db.incidents, "demo"))
  <1> DEFINE live == R!Of(db.incidents, "live")
             demo == R!Of(db.incidents, "demo")
             rows == {r.row : r \in R!liveOnly(db)}
             act == R!activity(db)
  <1>1. /\ act.liveBlocks = R!Cardinality(R!Blocks(rows))
        /\ act.liveWarnings = R!Cardinality(rows \ R!Blocks(rows))
        /\ act.liveSessions = R!Cardinality(R!Of(db.sessions, "live"))
        /\ act.excludedDemo = R!Cardinality(R!storedCorpus(db, "demo"))
    BY Zenon DEF R!activity
  <1>2. \A i : R!toReplayRow(db, i).row = i
    BY Zenon DEF R!toReplayRow
  <1>3. /\ R!liveOnly(db) = {R!toReplayRow(db, i) : i \in live}
        /\ R!storedCorpus(db, "demo") = {R!toReplayRow(db, i) : i \in demo}
    <2>1. "live" # "all" /\ "demo" # "all"
      OBVIOUS
    <2> QED
      BY <2>1, Zenon DEF R!liveOnly, R!storedCorpus
  <1>4. rows = live
    <2> HIDE DEF live
    <2>1. \A i \in live : R!toReplayRow(db, i) \in R!liveOnly(db)
      BY <1>3, Zenon
    <2>2. \A r \in R!liveOnly(db) : \E i \in live : r = R!toReplayRow(db, i)
      BY <1>3, Zenon
    <2> QED
      BY <1>2, <2>1, <2>2, Zenon
  <1>5. live \in SUBSET db.incidents /\ demo \in SUBSET db.incidents /\ R!Blocks(live) \in SUBSET live
    BY DEF R!Of, R!Blocks
  <1> HIDE DEF live, demo, rows, act
  <1>6. IsFiniteSet(live) /\ IsFiniteSet(demo) /\ IsFiniteSet(R!Blocks(live)) /\ IsFiniteSet(live \ R!Blocks(live))
    BY <1>5, FS_Subset DEF OnFile
  <1>7. Cardinality(R!storedCorpus(db, "demo")) = Cardinality(demo)
    <2> DEFINE f == [i \in demo |-> R!toReplayRow(db, i)]
    <2>1. \A i, j \in demo : f[i] = f[j] => i = j
      <3>1. \A i \in demo : f[i].row = i
        BY <1>2
      <3> QED
        BY <3>1
    <2>2. R!storedCorpus(db, "demo") = {f[i] : i \in demo}
      BY <1>3
    <2> HIDE DEF f
    <2> QED
      BY <1>6, <2>1, <2>2, OneToOne
  <1>8. Cardinality(R!Blocks(live)) + Cardinality(live \ R!Blocks(live)) = Cardinality(live)
    <2> DEFINE B == R!Blocks(live)
               C == live \ B
    <2>1. live = B \cup C /\ B \cap C = {} /\ IsFiniteSet(B) /\ IsFiniteSet(C)
      BY <1>5, <1>6
    <2> HIDE DEF B, C
    <2>2. Cardinality(B \cup C) = Cardinality(B) + Cardinality(C) - Cardinality(B \cap C)
      BY <2>1, FS_Union
    <2>3. Cardinality(B \cap C) = 0 /\ Cardinality(B) \in Nat /\ Cardinality(C) \in Nat
      BY <2>1, FS_EmptySet, FS_CardinalityType
    <2>4. Cardinality(B) + Cardinality(C) = Cardinality(live)
      BY <2>1, <2>2, <2>3
    <2> QED
      BY <2>4 DEF B, C
  <1>9. /\ act.liveBlocks = Cardinality(R!Blocks(live)) /\ act.liveWarnings = Cardinality(live \ R!Blocks(live))
        /\ act.liveSessions = Cardinality(R!Of(db.sessions, "live")) /\ act.excludedDemo = Cardinality(demo)
    BY <1>1, <1>4, <1>7, SameCount, Zenon
  <1> QED
    BY <1>8, <1>9 DEF act, live, demo

\* The origins' attempts add up to the blocks on file.
LEMMA AttemptsAddUp ==
  ASSUME NEW db, OnFile(db)
  PROVE  AttemptSum(db) = Cardinality(R!Blocks(db.incidents))
  <1> DEFINE rows == R!Blocks(db.incidents)
             key == [r \in rows |-> r.origin]
             f == [o \in R!INCIDENT_ORIGINS |-> R!breakdownFor(db, o).attempts]
  <1>1. rows \in SUBSET db.incidents
    BY DEF R!Blocks
  <1>2. IsFiniteSet(rows)
    BY <1>1, FS_Subset DEF OnFile
  <1>3. IsFiniteSet(R!INCIDENT_ORIGINS)
    <2>1. R!INCIDENT_ORIGINS = (({} \cup {"live"}) \cup {"demo"}) \cup {"fixture"}
      BY DEF R!INCIDENT_ORIGINS
    <2> QED
      BY <2>1, FS_EmptySet, FS_AddElement
  <1>4. ASSUME NEW o \in R!INCIDENT_ORIGINS PROVE f[o] = Cardinality({r \in rows : key[r] = o})
    <2>1. f[o] = Cardinality(R!Blocks(R!Of(db.incidents, o)))
      BY BreakdownOf
    <2>2. {r \in rows : key[r] = o} = R!Blocks(R!Of(db.incidents, o))
      BY DEF R!Blocks, R!Of
    <2> QED
      BY <2>1, <2>2, Zenon
  <1>5. {r \in rows : key[r] \in R!INCIDENT_ORIGINS} = rows
    <2>1. \A r \in rows : key[r] \in R!INCIDENT_ORIGINS
      BY <1>1 DEF OnFile
    <2> HIDE DEF rows, key
    <2> QED
      BY <2>1
  <1>6. DOMAIN f = R!INCIDENT_ORIGINS
    OBVIOUS
  <1> HIDE DEF f, key, rows
  <1>7. R!SumFunction(f) = Cardinality({r \in rows : key[r] \in DOMAIN f})
    BY <1>2, <1>3, <1>4, <1>6, SumOfCounts
  <1> QED
    BY <1>5, <1>6, <1>7, Zenon DEF f, rows, AttemptSum

\* The payload names no more incidents than it read, and it read no more than its limit.
LEMMA PayloadWithin ==
  ASSUME NEW db, OnFile(db)
  PROVE  LET p == R!buildPayload(db)
         IN  /\ p.counts.live_catches = R!buildMetrics(db).live.incidents
             /\ R!SumFunction(p.rules) <= Cardinality(R!Of(db.incidents, "live"))
             /\ R!SumFunction(p.rules) <= PAYLOAD_ROWS
  <1> DEFINE live == R!Of(db.incidents, "live")
             read == R!incidentsByOrigin(db, "live", PAYLOAD_ROWS)
             rows == {r \in read : SafeLabel[r.rule] # None}
             labels == {SafeLabel[r.rule] : r \in rows}
             of(l) == {r \in rows : SafeLabel[r.rule] = l}
             at == [l \in labels |-> R!Max({r.ts : r \in of(l)})]
             shown == R!newest(labels, MAX_RULE_KEYS, at)
             rules == [l \in shown |-> R!Cardinality(of(l))]
             p == R!buildPayload(db)
  <1>1. p.rules = rules /\ p.counts.live_catches = R!buildMetrics(db).live.incidents
    BY Zenon DEF R!buildPayload, R!payloadOf
  <1>2. live \in SUBSET db.incidents /\ IsFiniteSet(live) /\ \A r \in live : r.ts \in Int
    <2>1. live \in SUBSET db.incidents
      BY DEF R!Of
    <2> HIDE DEF live
    <2> QED
      BY <2>1, FS_Subset DEF OnFile
  <1>3. PAYLOAD_ROWS \in Nat /\ MAX_RULE_KEYS \in Nat
    BY LimitAssumption
  <1>4. read \in SUBSET live /\ Cardinality(read) <= PAYLOAD_ROWS
    <2> DEFINE ts == [r \in live |-> r.ts]
    <2>1. read = R!newest(live, PAYLOAD_ROWS, ts)
      BY Zenon DEF R!incidentsByOrigin
    <2>2. \A r \in live : ts[r] \in Int
      BY <1>2
    <2> HIDE DEF ts, live, read
    <2> QED
      BY <1>2, <1>3, <2>1, <2>2, Newest
  <1>5. rows \in SUBSET read
    OBVIOUS
  <1> HIDE DEF live, read
  <1>6. IsFiniteSet(read) /\ IsFiniteSet(rows)
    BY <1>2, <1>4, <1>5, FS_Subset
  <1>7. IsFiniteSet(labels)
    <2> DEFINE g == [r \in rows |-> SafeLabel[r.rule]]
    <2>1. labels = {g[r] : r \in rows}
      OBVIOUS
    <2> HIDE DEF g, labels, rows
    <2> QED
      BY <1>6, <2>1, FiniteImage
  <1>8. ASSUME NEW l \in labels PROVE at[l] \in Int
    <2> DEFINE S == {r.ts : r \in of(l)}
    <2>1. S # {} /\ S \in SUBSET Int
      BY <1>2, <1>4
    <2>2. of(l) \in SUBSET rows
      OBVIOUS
    <2>3. IsFiniteSet(of(l))
      <3> HIDE DEF of, rows
      <3> QED
        BY <1>6, <2>2, FS_Subset
    <2>4. IsFiniteSet(S)
      <3> DEFINE g == [r \in of(l) |-> r.ts]
      <3>1. S = {g[r] : r \in of(l)}
        OBVIOUS
      <3> HIDE DEF g, S, of
      <3> QED
        BY <2>3, <3>1, FiniteImage
    <2>5. at[l] = R!Max(S)
      OBVIOUS
    <2> HIDE DEF S, at
    <2>6. \E m \in S : \A k \in S : m >= k
      BY <2>1, <2>4, Extremes
    <2>7. R!Max(S) \in S
      BY <2>6, Zenon DEF R!Max
    <2> QED
      BY <2>1, <2>5, <2>7
  <1>9. shown \in SUBSET labels /\ IsFiniteSet(shown)
    <2> HIDE DEF at, labels
    <2>1. shown \in SUBSET labels
      BY <1>3, <1>7, <1>8, Newest
    <2> HIDE DEF shown
    <2> QED
      BY <1>7, <2>1, FS_Subset
  <1>10. R!SumFunction(rules) = Cardinality({r \in rows : SafeLabel[r.rule] \in shown})
    <2> DEFINE key == [r \in rows |-> SafeLabel[r.rule]]
    <2>1. ASSUME NEW k \in shown PROVE rules[k] = Cardinality({r \in rows : key[r] = k})
      <3>1. {r \in rows : key[r] = k} = of(k)
        OBVIOUS
      <3>2. rules[k] = R!Cardinality(of(k))
        BY <2>1, Zenon
      <3> QED
        BY <3>1, <3>2, SameCount, Zenon
    <2>2. DOMAIN rules = shown /\ {r \in rows : key[r] \in shown} = {r \in rows : SafeLabel[r.rule] \in shown}
      OBVIOUS
    <2> HIDE DEF rules, key, shown, rows
    <2>3. R!SumFunction(rules) = Cardinality({r \in rows : key[r] \in DOMAIN rules})
      BY <1>6, <1>9, <2>1, <2>2, SumOfCounts
    <2> QED
      BY <2>2, <2>3
  <1> DEFINE named == {r \in rows : SafeLabel[r.rule] \in shown}
  <1>11. named \in SUBSET rows
    OBVIOUS
  <1> HIDE DEF rules, named, rows, p
  <1>12. Cardinality(named) <= Cardinality(live) /\ Cardinality(named) <= PAYLOAD_ROWS
    <2>1. named \in SUBSET live /\ named \in SUBSET read
      BY <1>4, <1>5, <1>11
    <2>2. Cardinality(named) <= Cardinality(live) /\ Cardinality(named) <= Cardinality(read) /\ IsFiniteSet(named)
      BY <1>2, <1>6, <2>1, FS_Subset
    <2>3. Cardinality(named) \in Nat /\ Cardinality(read) \in Nat
      BY <1>6, <2>2, FS_CardinalityType
    <2> QED
      BY <1>3, <1>4, <2>2, <2>3
  <1>13. R!SumFunction(rules) = Cardinality(named)
    BY <1>10 DEF named
  <1>14. R!SumFunction(p.rules) <= Cardinality(live) /\ R!SumFunction(p.rules) <= PAYLOAD_ROWS
    BY <1>1, <1>12, <1>13, Zenon
  <1> QED
    BY <1>1, <1>14 DEF p, live

\* A database without its demo rows has the same live rows.
LEMMA LiveRowsStay ==
  ASSUME NEW S
  PROVE  R!Of(notDemo(S), "live") = R!Of(S, "live")
  BY DEF R!Of, notDemo

\* The payload is derived from the live rows and nothing else.
LEMMA PayloadOfLive ==
  ASSUME NEW db, NEW other,
         R!Of(db.sessions, "live") = R!Of(other.sessions, "live"),
         R!Of(db.events, "live") = R!Of(other.events, "live"),
         R!Of(db.incidents, "live") = R!Of(other.incidents, "live")
  PROVE  R!buildPayload(db) = R!buildPayload(other)
  <1>1. R!breakdownFor(db, "live") = R!breakdownFor(other, "live")
    BY Zenon DEF R!breakdownFor
  <1>2. \A d : R!buildMetrics(d).live = R!breakdownFor(d, "live")
    <2> TAKE d
    <2> DEFINE parts == [o \in R!INCIDENT_ORIGINS |-> R!breakdownFor(d, o)]
    <2>1. R!buildMetrics(d).live = parts["live"]
      BY Zenon DEF R!buildMetrics
    <2>2. parts["live"] = R!breakdownFor(d, "live")
      BY DEF R!INCIDENT_ORIGINS
    <2> QED
      BY <2>1, <2>2, Zenon
  <1>3. R!buildMetrics(db).live = R!buildMetrics(other).live
    BY <1>1, <1>2, Zenon
  <1>4. \A limit : R!incidentsByOrigin(db, "live", limit) = R!incidentsByOrigin(other, "live", limit)
    BY Zenon DEF R!incidentsByOrigin
  <1> QED
    BY <1>3, <1>4, Zenon DEF R!buildPayload

\* A demo run changes nothing of what may be sent.
LEMMA DemoLeavesNothing == R!buildPayload(DB) = R!buildPayload(WithoutDemo)
  <1>1. /\ WithoutDemo.sessions = notDemo(DB.sessions)
        /\ WithoutDemo.events = notDemo(DB.events)
        /\ WithoutDemo.incidents = notDemo(DB.incidents)
    BY Zenon DEF WithoutDemo
  <1> QED
    BY <1>1, LiveRowsStay, PayloadOfLive, Zenon

\* The surfaces agree on what is on file.
LEMMA FiguresOfAFile ==
  ASSUME OnFile(DB)
  PROVE  FiguresAgree
  <1> SUFFICES ASSUME NEW now \in Moments
               PROVE  LET m         == R!buildMetrics(DB)
                          act       == R!activity(DB)
                          payload   == R!buildPayload(DB)
                          receipts  == R!Of({R!buildReceipt(DB, s.id, now) : s \in DB.sessions}, "live")
                          sum(k)    == R!SumFunction([r \in receipts |-> r[k]])
                          week      == R!buildWeek(DB, Epoch, now)
                          weekRules == R!SumFunction(week.byRule)
                      IN  /\ m.live.attempts = sum("blocked") /\ m.live.events = sum("events")
                          /\ m.live.sessions = Cardinality(receipts) /\ m.live.incidents = act.liveBlocks + act.liveWarnings
                          /\ act.liveBlocks = m.live.attempts /\ act.liveSessions = m.live.sessions
                          /\ act.excludedDemo = m.demo.incidents
                          /\ m.total.attempts = Cardinality(R!Blocks(DB.incidents))
                          /\ m.savings.priced_actions + m.savings.unpriced_actions = m.live.distinct_actions
                          /\ \A p \in m.problems : p[1] = "blocks outnumber events"
                          /\ \A r \in receipts : r.problems \subseteq {"target", "command"}
                          /\ week.blocked <= m.live.attempts /\ week.events <= m.live.events
                          /\ week.sessions <= m.live.sessions /\ weekRules <= m.live.incidents
                          /\ Cardinality(DB.sessions) <= WEEK_SESSIONS =>
                               /\ week.blocked = m.live.attempts /\ week.events = m.live.events
                               /\ week.sessions = m.live.sessions
                               /\ Cardinality(DB.incidents) <= WEEK_ROWS => weekRules = m.live.incidents
                          /\ payload.counts.live_catches = m.live.incidents
                          /\ R!SumFunction(payload.rules) <= m.live.incidents
                          /\ R!SumFunction(payload.rules) <= PAYLOAD_ROWS
                          /\ payload = R!buildPayload(WithoutDemo)
    BY Zenon DEF FiguresAgree
  <1> DEFINE m == R!buildMetrics(DB)
             act == R!activity(DB)
             payload == R!buildPayload(DB)
             receipts == R!Of({R!buildReceipt(DB, s.id, now) : s \in DB.sessions}, "live")
             sum(k) == R!SumFunction([r \in receipts |-> r[k]])
             week == R!buildWeek(DB, Epoch, now)
             weekRules == R!SumFunction(week.byRule)
             blocks == R!Blocks(R!Of(DB.incidents, "live"))
  <1>1. m.live = R!breakdownFor(DB, "live") /\ m.demo = R!breakdownFor(DB, "demo")
        /\ m.savings = R!estimateSavings(DB) /\ m.problems = R!checkIntegrity(Parts(DB))
    BY MetricsOf
  <1>2. /\ m.live.attempts = Cardinality(blocks) /\ m.live.distinct_actions = Cardinality(R!Actions(blocks))
        /\ m.live.incidents = Cardinality(R!Of(DB.incidents, "live"))
        /\ m.live.sessions = Cardinality(R!Of(DB.sessions, "live"))
        /\ m.live.events = Cardinality(R!Of(DB.events, "live"))
        /\ m.demo.incidents = Cardinality(R!Of(DB.incidents, "demo"))
    <2>1. \A o : LET b == R!breakdownFor(DB, o)
                 IN  /\ b.attempts = Cardinality(R!Blocks(R!Of(DB.incidents, o)))
                     /\ b.distinct_actions = Cardinality(R!Actions(R!Blocks(R!Of(DB.incidents, o))))
                     /\ b.incidents = Cardinality(R!Of(DB.incidents, o))
                     /\ b.sessions = Cardinality(R!Of(DB.sessions, o))
                     /\ b.events = Cardinality(R!Of(DB.events, o))
      BY BreakdownOf
    <2> QED
      BY <1>1, <2>1, Zenon
  <1>3. m.total.attempts = Cardinality(R!Blocks(DB.incidents))
    BY MetricsOf, AttemptsAddUp
  <1>4. m.savings.priced_actions + m.savings.unpriced_actions = m.live.distinct_actions
    BY <1>1, <1>2, SavingsOf
  <1>5. \A p \in m.problems : p[1] = "blocks outnumber events"
    BY <1>1, ProblemsOf
  <1>6. /\ act.liveBlocks = Cardinality(blocks)
        /\ act.liveBlocks + act.liveWarnings = Cardinality(R!Of(DB.incidents, "live"))
        /\ act.liveSessions = Cardinality(R!Of(DB.sessions, "live"))
        /\ act.excludedDemo = Cardinality(R!Of(DB.incidents, "demo"))
    BY ActivityOf
  <1>7. /\ Cardinality(receipts) = Cardinality(R!Of(DB.sessions, "live"))
        /\ EventSum(receipts) = Cardinality(R!Of(DB.events, "live"))
        /\ BlockSum(receipts) = Cardinality(blocks)
        /\ \A r \in receipts : r.problems \subseteq {"target", "command"}
    <2>1. receipts = LiveReceiptsOf(DB, now)
      BY Zenon DEF LiveReceiptsOf
    <2>2. LET T == LiveReceiptsOf(DB, now)
          IN  /\ Cardinality(T) = Cardinality(R!Of(DB.sessions, "live"))
              /\ EventSum(T) = Cardinality(R!Of(DB.events, "live"))
              /\ BlockSum(T) = Cardinality(blocks)
              /\ \A r \in T : r.problems \subseteq {"target", "command"}
      BY LiveReceipts
    <2> HIDE DEF receipts, blocks
    <2> QED
      BY <2>1, <2>2, Zenon
  <1>8. sum("blocked") = BlockSum(receipts) /\ sum("events") = EventSum(receipts)
    BY Zenon DEF BlockSum, EventSum
  <1>9. /\ week.blocked <= Cardinality(blocks) /\ week.events <= Cardinality(R!Of(DB.events, "live"))
        /\ week.sessions <= Cardinality(R!Of(DB.sessions, "live"))
        /\ weekRules <= Cardinality(R!Of(DB.incidents, "live"))
        /\ Cardinality(DB.sessions) <= WEEK_SESSIONS =>
             /\ week.blocked = Cardinality(blocks) /\ week.events = Cardinality(R!Of(DB.events, "live"))
             /\ week.sessions = Cardinality(R!Of(DB.sessions, "live"))
             /\ Cardinality(DB.incidents) <= WEEK_ROWS => weekRules = Cardinality(R!Of(DB.incidents, "live"))
    BY WeekWithin
  <1>10. /\ payload.counts.live_catches = m.live.incidents
         /\ R!SumFunction(payload.rules) <= Cardinality(R!Of(DB.incidents, "live"))
         /\ R!SumFunction(payload.rules) <= PAYLOAD_ROWS
    BY PayloadWithin
  <1>11. payload = R!buildPayload(WithoutDemo)
    BY DemoLeavesNothing
  <1> HIDE DEF m, act, payload, receipts, sum, week, weekRules, blocks
  <1>12. /\ m.live.attempts = sum("blocked") /\ m.live.events = sum("events")
         /\ m.live.sessions = Cardinality(receipts) /\ m.live.incidents = act.liveBlocks + act.liveWarnings
         /\ act.liveBlocks = m.live.attempts /\ act.liveSessions = m.live.sessions
         /\ act.excludedDemo = m.demo.incidents
    BY <1>2, <1>6, <1>7, <1>8, Zenon
  <1>13. /\ week.blocked <= m.live.attempts /\ week.events <= m.live.events
         /\ week.sessions <= m.live.sessions /\ weekRules <= m.live.incidents
         /\ Cardinality(DB.sessions) <= WEEK_SESSIONS =>
              /\ week.blocked = m.live.attempts /\ week.events = m.live.events
              /\ week.sessions = m.live.sessions
              /\ Cardinality(DB.incidents) <= WEEK_ROWS => weekRules = m.live.incidents
    BY <1>2, <1>9, Zenon
  <1>14. R!SumFunction(payload.rules) <= m.live.incidents
    BY <1>2, <1>10, Zenon
  <1> QED
    BY <1>3, <1>4, <1>5, <1>7, <1>10, <1>11, <1>12, <1>13, <1>14, Zenon
       DEF m, act, payload, receipts, sum, week, weekRules

\* Every row is of a session on record, and a session's origin is that of its deliveries.
RowsInv ==
  /\ \A d \in events \cup incidents : origin[Ev[d].session] # None
  /\ \A d \in Deliveries : origin[Ev[d].session] \in {None, Ev[d].origin}

\* A step inserts its own rows, from the two INSERT statements, and records a session once.
LEMMA RowsGrow ==
  ASSUME NEW d \in Deliveries, runHook(d) \/ Kill(d)
  PROVE  /\ events' = events \/ (events' = events \cup {d} /\ pc[d] = "insert")
         /\ incidents' = incidents \/ (incidents' = incidents \cup {d} /\ pc[d] = "incident")
         /\ \/ origin' = origin
            \/ origin' = [origin EXCEPT ![Ev[d].session] = IF @ = None THEN Ev[d].origin ELSE @]
  <1> USE DEF sessionVars, ledgerVars, Go
  <1>1. CASE Open(d) \/ endSession(d) \/ getGoal(d) \/ setGoal(d)
    BY <1>1, Zenon DEF Open, endSession, getGoal, setGoal
  <1>2. CASE upsertSession(d)
    BY <1>2, Zenon DEF upsertSession
  <1>3. CASE insertEvent(d)
    BY <1>3, Zenon DEF insertEvent
  <1>4. CASE skipEvent(d) \/ countSession(d) \/ countSeen(d) \/ evaluateLayer1(d)
    BY <1>4, Zenon DEF skipEvent, countSession, countSeen, evaluateLayer1
  <1>5. CASE addIncident(d)
    BY <1>5, Zenon DEF addIncident
  <1>6. CASE collapseIncident(d) \/ countBlocked(d) \/ countCatch(d) \/ completeStep(d)
    BY <1>6, Zenon DEF collapseIncident, countBlocked, countCatch, completeStep
  <1>7. CASE sampleJudge(d) \/ Render(d) \/ FailOpen(d) \/ Kill(d)
    BY <1>7, Zenon DEF sampleJudge, Render, FailOpen, Kill
  <1> QED
    BY <1>1, <1>2, <1>3, <1>4, <1>5, <1>6, <1>7, Zenon DEF runHook, handleEvent

\* The rows stay those of recorded sessions.
LEMMA NextRows == TypeOK /\ SessionInv /\ RowsInv /\ [Next]_vars => RowsInv'
  <1> SUFFICES ASSUME TypeOK, SessionInv, RowsInv, [Next]_vars PROVE RowsInv'
    OBVIOUS
  <1>1. CASE UNCHANGED vars
    BY <1>1 DEF vars, sessionVars, ledgerVars, RowsInv
  <1>2. ASSUME NEW d \in Deliveries, runHook(d) \/ Kill(d) PROVE RowsInv'
    <2>1. /\ events' = events \/ (events' = events \cup {d} /\ pc[d] = "insert")
          /\ incidents' = incidents \/ (incidents' = incidents \cup {d} /\ pc[d] = "incident")
          /\ \/ origin' = origin
             \/ origin' = [origin EXCEPT ![Ev[d].session] = IF @ = None THEN Ev[d].origin ELSE @]
      BY <1>2, RowsGrow, Zenon
    <2>2. origin \in [Sessions -> Origins \cup {None}] /\ events \subseteq Deliveries /\ incidents \subseteq Deliveries
      BY DEF TypeOK
    <2>3. \A x \in Deliveries : Ev[x].session \in Sessions
      BY DEF Sessions
    <2>4. \A x \in Deliveries : origin[Ev[x].session] # None => origin'[Ev[x].session] # None
      BY <2>1, <2>2, <2>3
    <2>5. \A x \in Deliveries : origin'[Ev[x].session] \in {None, Ev[x].origin}
      <3> TAKE x \in Deliveries
      <3>1. CASE Ev[x].session = Ev[d].session
        <4>1. Ev[x].origin = Ev[d].origin
          BY <3>1, SessionAssumption
        <4> QED
          BY <2>1, <2>2, <2>3, <3>1, <4>1 DEF RowsInv
      <3>2. CASE Ev[x].session # Ev[d].session
        BY <2>1, <2>2, <2>3, <3>2 DEF RowsInv
      <3> QED
        BY <3>1, <3>2
    <2>6. pc[d] \in {"insert", "incident"} => origin[Ev[d].session] # None
      BY DEF SessionInv, TakenIn
    <2>7. \A x \in events' \cup incidents' : origin[Ev[x].session] # None
      BY <2>1, <2>6 DEF RowsInv
    <2> QED
      BY <2>1, <2>2, <2>4, <2>5, <2>7 DEF RowsInv
  <1> QED
    BY <1>1, <1>2 DEF Next, AllDone

\* What the hooks leave is on file as the reports take it.
LEMMA RowsOnFile ==
  ASSUME TypeOK, RowsInv
  PROVE  OnFile(DB)
  <1> DEFINE known == {x \in Sessions : origin[x] # None}
  <1>db. /\ DB.sessions = {sessionRow(s) : s \in known}
         /\ DB.events = {eventRow(d) : d \in events}
         /\ DB.incidents = {incidentRow(d) : d \in incidents}
    BY Zenon DEF DB
  <1>1. IsFiniteSet(events) /\ IsFiniteSet(incidents)
    BY DeliveriesFinite, FS_Subset DEF TypeOK
  <1>2. IsFiniteSet(known)
    <2> DEFINE f == [d \in Deliveries |-> Ev[d].session]
    <2>1. Sessions = {f[d] : d \in Deliveries}
      BY DEF Sessions
    <2> HIDE DEF f
    <2>2. IsFiniteSet(Sessions)
      BY <2>1, DeliveriesFinite, FiniteImage
    <2> QED
      BY <2>2, FS_Subset
  <1> HIDE DEF known
  <1>3. IsFiniteSet(DB.sessions)
    <2> DEFINE f == [s \in known |-> sessionRow(s)]
    <2>1. DB.sessions = {f[s] : s \in known}
      BY <1>db
    <2> HIDE DEF f
    <2> QED
      BY <1>2, <2>1, FiniteImage
  <1>4. IsFiniteSet(DB.events)
    <2> DEFINE f == [d \in events |-> eventRow(d)]
    <2>1. DB.events = {f[d] : d \in events}
      BY <1>db
    <2> HIDE DEF f
    <2> QED
      BY <1>1, <2>1, FiniteImage
  <1>5. IsFiniteSet(DB.incidents)
    <2> DEFINE f == [d \in incidents |-> incidentRow(d)]
    <2>1. DB.incidents = {f[d] : d \in incidents}
      BY <1>db
    <2> HIDE DEF f
    <2> QED
      BY <1>1, <2>1, FiniteImage
  <1>6. \A s : sessionRow(s).id = s /\ sessionRow(s).origin = origin[s]
    BY Zenon DEF sessionRow
  <1>7. \A x, y \in DB.sessions : x.id = y.id => x = y
    <2> TAKE x, y \in DB.sessions
    <2>1. PICK s \in known : x = sessionRow(s)
      BY <1>db, Zenon
    <2>2. PICK t \in known : y = sessionRow(t)
      BY <1>db, Zenon
    <2>3. x.id = s /\ y.id = t
      BY <1>6, <2>1, <2>2
    <2> QED
      BY <2>1, <2>2, <2>3
  <1>8. \A x \in DB.sessions : x.startedAt \in Nat /\ x.startedAt >= Epoch
    <2> SUFFICES ASSUME NEW s \in known
                 PROVE  sessionRow(s).startedAt \in Nat /\ sessionRow(s).startedAt >= Epoch
      BY <1>db, Zenon
    <2> DEFINE times == {Ev[d].ts : d \in {x \in Deliveries : Ev[x].session = s}}
    <2>1. times \in SUBSET Nat /\ times # {}
      BY EvAssumption DEF known, Sessions
    <2>2. sessionRow(s).startedAt = Epoch + R!Min(times)
      BY Zenon DEF sessionRow
    <2> HIDE DEF times
    <2>3. \E t \in times : \A k \in times : t <= k
      BY <2>1, Least
    <2>4. R!Min(times) \in Nat
      BY <2>1, <2>3 DEF R!Min
    <2> QED
      BY <2>2, <2>4, LimitAssumption
  <1>9. ASSUME NEW d \in events \cup incidents
        PROVE  /\ Epoch + Ev[d].ts \in Nat /\ Epoch + Ev[d].ts >= Epoch
               /\ \E x \in DB.sessions : x.id = Ev[d].session /\ x.origin = Ev[d].origin
    <2>1. d \in Deliveries
      BY DEF TypeOK
    <2>2. Ev[d].ts \in Nat /\ Epoch \in Nat
      BY <2>1, EvAssumption, LimitAssumption
    <2>3. Ev[d].session \in known /\ origin[Ev[d].session] = Ev[d].origin
      BY <2>1 DEF RowsInv, known, Sessions
    <2>4. sessionRow(Ev[d].session) \in DB.sessions
      BY <1>db, <2>3, Zenon
    <2> QED
      BY <1>6, <2>2, <2>3, <2>4
  <1>10. ASSUME NEW r \in DB.events \cup DB.incidents
         PROVE  \E d \in events \cup incidents :
                  r.ts = Epoch + Ev[d].ts /\ r.session = Ev[d].session /\ r.origin = Ev[d].origin
    <2>1. CASE r \in DB.events
      <3>1. PICK d \in events : r = eventRow(d)
        BY <1>db, <2>1, Zenon
      <3> QED
        BY <3>1 DEF eventRow
    <2>2. CASE r \in DB.incidents
      <3>1. PICK d \in incidents : r = incidentRow(d)
        BY <1>db, <2>2, Zenon
      <3> QED
        BY <3>1 DEF incidentRow
    <2> QED
      BY <2>1, <2>2
  <1>11. \A r \in DB.events \cup DB.incidents :
           /\ r.ts \in Nat /\ r.ts >= Epoch
           /\ \E x \in DB.sessions : x.id = r.session /\ x.origin = r.origin
    BY <1>9, <1>10
  <1>12. ASSUME NEW r \in DB.incidents
         PROVE  r.layer = 1 /\ r.action \in {"block", "warn"} /\ r.origin \in R!INCIDENT_ORIGINS
    <2>1. PICK d \in incidents : r = incidentRow(d)
      BY <1>db, Zenon
    <2>2. Ev[d].origin \in R!INCIDENT_ORIGINS
      BY EvAssumption DEF TypeOK, Origins, R!INCIDENT_ORIGINS
    <2> QED
      BY <2>1, <2>2 DEF incidentRow
  <1> HIDE DEF DB
  <1> QED
    BY <1>3, <1>4, <1>5, <1>7, <1>8, <1>11, <1>12 DEF OnFile

\* Every surface says the same of what the hooks have done, at whatever statement they are.
THEOREM EverySurfaceAgrees == Spec => [](FiguresAgree /\ SurfacesAgree)
  <1>1. Init => RowsInv
    BY DEF Init, RowsInv, Sessions
  <1>2. IInv /\ SessionInv /\ RowsInv /\ [Next]_vars => RowsInv'
    BY NextRows DEF IInv
  <1>3. IInv /\ RowsInv => FiguresAgree /\ SurfacesAgree
    BY RowsOnFile, FiguresOfAFile DEF IInv, SurfacesAgree
  <1> QED
    BY <1>1, <1>2, <1>3, OutsideInvariant, PTL DEF Spec

\* The incident d as replay reads it, and what the rules of now make of it.
replayRow(d) == [row |-> incidentRow(d), replayable |-> action(d), provenance |-> "stored"]
Corpus(D) == {replayRow(d) : d \in D}
denies(ruling, d) == ruling[action(d)].decision = "deny"
blockedNow(ruling, d) ==
  IF ~ denies(ruling, d) /\ ruling[action(d)].unevaluable THEN None ELSE denies(ruling, d)
nowOf(ruling, D) == [d \in D |-> blockedNow(ruling, d)]
thenOf(D) == [d \in D |-> verdict[d].severity = "block"]

\* The incidents of live deliveries, and those of them that stopped something.
LiveIncidents == {d \in incidents : Ev[d].origin = "live"}
LiveBlocks == LiveIncidents \cap BlockRows

\* An incident of the hook path is replayed from the action stored with it.
LEMMA StoredAction ==
  ASSUME NEW d \in Deliveries
  PROVE  R!toReplayRow(DB, incidentRow(d)) = replayRow(d)
  <1>1. incidentRow(d).json = action(d)
    BY Zenon DEF incidentRow
  <1>2. action(d) # <<>> /\ action(d) # None
    <2>1. action(d) # <<>>
      BY DEF action
    <2>2. action(d) # None
      BY LabelAssumption, Zenon
    <2> QED
      BY <2>1, <2>2
  <1> HIDE DEF DB
  <1> QED
    BY <1>1, <1>2, Zenon DEF R!toReplayRow, replayRow

\* The live corpus holds the live incidents.
LEMMA LiveCorpus ==
  ASSUME TypeOK
  PROVE  /\ R!storedCorpus(DB, "live") = Corpus(LiveIncidents)
         /\ R!liveOnly(DB) = Corpus(LiveIncidents)
         /\ {r \in Corpus(LiveIncidents) : r.row.action = "block"} = Corpus(LiveBlocks)
  <1>1. LiveIncidents \in SUBSET Deliveries
    BY DEF LiveIncidents, TypeOK
  <1>2. \A d : incidentRow(d).origin = Ev[d].origin
    BY Zenon DEF incidentRow
  <1>3. R!Of(DB.incidents, "live") = {incidentRow(d) : d \in LiveIncidents}
    <2>1. DB.incidents = {incidentRow(d) : d \in incidents}
      BY Zenon DEF DB
    <2> HIDE DEF DB
    <2> QED
      BY <1>2, <2>1 DEF R!Of, LiveIncidents
  <1>4. R!storedCorpus(DB, "live") = {R!toReplayRow(DB, i) : i \in R!Of(DB.incidents, "live")}
    <2>1. "live" # "all"
      OBVIOUS
    <2> HIDE DEF DB
    <2> QED
      BY <2>1, Zenon DEF R!storedCorpus
  <1>5. \A i \in R!Of(DB.incidents, "live") : \E d \in LiveIncidents :
          i = incidentRow(d) /\ R!toReplayRow(DB, i) = replayRow(d)
    BY <1>1, <1>3, StoredAction, Zenon
  <1>6. \A d \in LiveIncidents : /\ incidentRow(d) \in R!Of(DB.incidents, "live")
                                 /\ R!toReplayRow(DB, incidentRow(d)) = replayRow(d)
    BY <1>1, <1>3, StoredAction, Zenon
  <1>7. R!storedCorpus(DB, "live") = Corpus(LiveIncidents)
    <2> HIDE DEF DB
    <2>1. \A r \in R!storedCorpus(DB, "live") : r \in Corpus(LiveIncidents)
      BY <1>4, <1>5, Zenon DEF Corpus
    <2>2. \A r \in Corpus(LiveIncidents) : r \in R!storedCorpus(DB, "live")
      BY <1>4, <1>6, Zenon DEF Corpus
    <2> QED
      BY <2>1, <2>2, Zenon
  <1>8. \A d : replayRow(d).row.action = "block" <=> verdict[d].severity = "block"
    <2> TAKE d
    <2>1. replayRow(d).row = incidentRow(d)
      BY Zenon DEF replayRow
    <2>2. incidentRow(d).action = IF verdict[d].severity = "block" THEN "block" ELSE "warn"
      BY Zenon DEF incidentRow
    <2> QED
      BY <2>1, <2>2
  <1>9. {r \in Corpus(LiveIncidents) : r.row.action = "block"} = Corpus(LiveBlocks)
    <2>1. \A d \in LiveIncidents : d \in LiveBlocks <=> verdict[d].severity = "block"
      BY DEF LiveIncidents, LiveBlocks, BlockRows
    <2>2. LiveBlocks \in SUBSET LiveIncidents
      BY DEF LiveBlocks
    <2> QED
      BY <1>8, <2>1, <2>2, Zenon DEF Corpus
  <1> QED
    BY <1>7, <1>9, Zenon DEF R!liveOnly

\* One row of the corpus to an incident.
LEMMA RowOfId ==
  ASSUME NEW D, NEW d \in D
  PROVE  (CHOOSE r \in Corpus(D) : r.row.id = d) = replayRow(d)
  <1>1. \A x : replayRow(x).row.id = x
    <2> TAKE x
    <2>1. replayRow(x).row = incidentRow(x)
      BY Zenon DEF replayRow
    <2>2. incidentRow(x).id = x
      BY Zenon DEF incidentRow
    <2> QED
      BY <2>1, <2>2
  <1>2. replayRow(d) \in Corpus(D) /\ replayRow(d).row.id = d
    BY <1>1, Zenon DEF Corpus
  <1>3. \A r \in Corpus(D) : r.row.id = d => r = replayRow(d)
    BY <1>1, Zenon DEF Corpus
  <1> QED
    BY <1>2, <1>3, Zenon

\* The actions labels are checked against are those the agents asked for.
LEMMA ActionsOf ==
  ASSUME NEW D
  PROVE  R!actionsOf(Corpus(D)) = [d \in D |-> action(d)]
  <1>1. \A d : replayRow(d).provenance = "stored" /\ replayRow(d).row.id = d /\ replayRow(d).replayable = action(d)
    <2> TAKE d
    <2>1. replayRow(d).row = incidentRow(d)
      BY Zenon DEF replayRow
    <2>2. incidentRow(d).id = d
      BY Zenon DEF incidentRow
    <2>3. replayRow(d).provenance = "stored" /\ replayRow(d).replayable = action(d)
      BY Zenon DEF replayRow
    <2> QED
      BY <2>1, <2>2, <2>3
  <1> DEFINE known == {x \in Corpus(D) : x.provenance # "unavailable"}
             ids == {r.row.id : r \in known}
  <1>2. known = Corpus(D)
    <2>1. \A d : replayRow(d).provenance # "unavailable"
      BY <1>1
    <2> QED
      BY <2>1, Zenon DEF Corpus
  <1>3. ids = D
    <2> HIDE DEF known
    <2>1. \A x \in ids : x \in D
      BY <1>1, <1>2, Zenon DEF Corpus
    <2>2. \A d \in D : d \in ids
      <3> TAKE d \in D
      <3>1. replayRow(d) \in known /\ replayRow(d).row.id = d
        BY <1>1, <1>2, Zenon DEF Corpus
      <3> QED
        BY <3>1, Zenon
    <2> QED
      BY <2>1, <2>2, Zenon
  <1> DEFINE first(id) == (CHOOSE r \in Corpus(D) : r.row.id = id).replayable
  <1>4. R!actionsOf(Corpus(D)) = [id \in ids |-> first(id)]
    BY Zenon DEF R!actionsOf
  <1>5. \A d \in D : first(d) = action(d)
    <2> TAKE d \in D
    <2>1. (CHOOSE r \in Corpus(D) : r.row.id = d) = replayRow(d)
      BY RowOfId, Zenon
    <2> QED
      BY <1>1, <2>1, Zenon
  <1> HIDE DEF ids, known, first
  <1> QED
    BY <1>3, <1>4, <1>5

\* What replay makes of a row: whether it was blocked, and whether it would be.
LEMMA ReplayOf ==
  ASSUME NEW ruling \in Rulings, NEW d \in Deliveries
  PROVE  LET r == R!replayOne(replayRow(d), ruling)
         IN  /\ r.id = d /\ r.blockedThen = (verdict[d].severity = "block")
             /\ r.blockedNow = blockedNow(ruling, d)
  <1> DEFINE r == R!replayOne(replayRow(d), ruling)
  <1>1. replayRow(d).row = incidentRow(d) /\ replayRow(d).replayable = action(d)
        /\ replayRow(d).provenance = "stored"
    BY Zenon DEF replayRow
  <1>2. incidentRow(d).id = d
        /\ incidentRow(d).action = IF verdict[d].severity = "block" THEN "block" ELSE "warn"
    BY Zenon DEF incidentRow
  <1>3. (replayRow(d).row.action = "block") = (verdict[d].severity = "block")
    BY <1>1, <1>2
  <1> DEFINE blind == replayRow(d).provenance = "unavailable"
             deny == ~blind /\ ruling[replayRow(d).replayable].decision = "deny"
             unsure == ~blind /\ ~deny /\ ruling[replayRow(d).replayable].unevaluable
  <1>4. /\ r.id = replayRow(d).row.id /\ r.blockedThen = (replayRow(d).row.action = "block")
        /\ r.blockedNow = IF blind \/ unsure THEN None ELSE deny
    BY Zenon DEF R!replayOne
  <1>5. ~ blind
    BY <1>1
  <1>6. deny <=> denies(ruling, d)
    BY <1>1, <1>5, Zenon DEF denies
  <1>7. unsure <=> ~ denies(ruling, d) /\ ruling[action(d)].unevaluable
    BY <1>1, <1>5, <1>6, Zenon
  <1>8. denies(ruling, d) \in BOOLEAN /\ deny \in BOOLEAN
    BY Zenon DEF denies
  <1>9. r.blockedNow = blockedNow(ruling, d)
    <2> HIDE DEF r, blind, deny, unsure
    <2>1. deny = denies(ruling, d)
      BY <1>6, <1>8, Zenon
    <2>2. CASE unsure
      <3>1. r.blockedNow = None
        BY <1>4, <2>2, Zenon
      <3>2. blockedNow(ruling, d) = None
        BY <1>7, <2>2, Zenon DEF blockedNow
      <3> QED
        BY <3>1, <3>2, Zenon
    <2>3. CASE ~ unsure
      <3>1. r.blockedNow = deny
        BY <1>4, <1>5, <2>3, Zenon
      <3>2. blockedNow(ruling, d) = denies(ruling, d)
        BY <1>7, <2>3, Zenon DEF blockedNow
      <3> QED
        BY <2>1, <3>1, <3>2, Zenon
    <2> QED
      BY <2>2, <2>3, Zenon
  <1> QED
    BY <1>1, <1>2, <1>3, <1>4, <1>9, Zenon

\* Replay gives one ruling to an incident, and it is the ruling on its action.
LEMMA RulingsOf ==
  ASSUME NEW ruling \in Rulings, NEW D \in SUBSET Deliveries
  PROVE  LET results == R!replayCorpus(Corpus(D), ruling)
         IN  /\ R!rulingsOf(results, "blockedNow") = nowOf(ruling, D)
             /\ R!rulingsOf(results, "blockedThen") = thenOf(D)
  <1> DEFINE results == R!replayCorpus(Corpus(D), ruling)
             ids == {r.id : r \in results}
             one(d) == R!replayOne(replayRow(d), ruling)
             first(id) == CHOOSE r \in results : r.id = id
  <1>1. results = {R!replayOne(r, ruling) : r \in Corpus(D)}
    BY Zenon DEF R!replayCorpus
  <1>2. \A d \in D : one(d) \in results /\ one(d).id = d
    <2> TAKE d \in D
    <2>1. replayRow(d) \in Corpus(D)
      BY Zenon DEF Corpus
    <2>2. one(d) \in results
      BY <1>1, <2>1, Zenon
    <2>3. one(d).id = d
      BY ReplayOf, Zenon
    <2> QED
      BY <2>2, <2>3, Zenon
  <1>3. \A r \in results : \E d \in D : r = one(d)
    <2> HIDE DEF results
    <2> QED
      BY <1>1, Zenon DEF Corpus
  <1> HIDE DEF results, one
  <1>4. ids = D
    <2>1. \A x \in ids : x \in D
      BY <1>2, <1>3, Zenon
    <2>2. \A d \in D : d \in ids
      <3> TAKE d \in D
      <3> QED
        BY <1>2, Zenon
    <2> QED
      BY <2>1, <2>2, Zenon
  <1>5. \A d \in D : first(d) = one(d)
    <2> TAKE d \in D
    <2>1. \A r \in results : r.id = d => r = one(d)
      BY <1>2, <1>3, Zenon
    <2> QED
      BY <1>2, <2>1, Zenon
  <1>6. \A field : R!rulingsOf(results, field) = [id \in ids |-> first(id)[field]]
    BY Zenon DEF R!rulingsOf
  <1> HIDE DEF ids, first
  <1>7. \A d \in D : /\ one(d)["blockedNow"] = blockedNow(ruling, d)
                     /\ one(d)["blockedThen"] = (verdict[d].severity = "block")
    BY ReplayOf, Zenon DEF one
  <1>8. R!rulingsOf(results, "blockedNow") = nowOf(ruling, D)
    <2>1. \A d \in D : first(d)["blockedNow"] = blockedNow(ruling, d)
      BY <1>5, <1>7, Zenon
    <2>2. R!rulingsOf(results, "blockedNow") = [id \in D |-> first(id)["blockedNow"]]
      BY <1>4, <1>6, Zenon
    <2> QED
      BY <2>1, <2>2, Zenon DEF nowOf
  <1>9. R!rulingsOf(results, "blockedThen") = thenOf(D)
    <2>1. \A d \in D : first(d)["blockedThen"] = (verdict[d].severity = "block")
      BY <1>5, <1>7, Zenon
    <2>2. R!rulingsOf(results, "blockedThen") = [id \in D |-> first(id)["blockedThen"]]
      BY <1>4, <1>6, Zenon
    <2> QED
      BY <2>1, <2>2, Zenon DEF thenOf
  <1> QED
    BY <1>8, <1>9, Zenon DEF results

\* What f rules of a label's row, and the labels of a kind.
ruledBy(f, l) == IF l.id \in DOMAIN f THEN f[l.id] ELSE None
Firing(S, f) == {l \in S : ruledBy(f, l) = TRUE}
Unruled(S, f) == {l \in S : ruledBy(f, l) = None}
Passing(S, f) == {l \in S : ruledBy(f, l) = FALSE}
Labelled(S, label) == {l \in S : l.label = label}
truePos(S) == Labelled(S, "TRUE_POSITIVE")
falsePos(S) == Labelled(S, "FALSE_POSITIVE")
neither(S) == S \ (truePos(S) \cup falsePos(S))

\* The fields of a score.
LEMMA ScoreOf ==
  ASSUME NEW set, NEW f
  PROVE  R!score(set, f) =
           [truePositives |-> Cardinality(Firing(truePos(set.labels), f)),
            falsePositives |-> Cardinality(Firing(falsePos(set.labels), f)),
            unknown |-> Cardinality(Firing(neither(set.labels), f)),
            coverageCaught |-> Cardinality(Firing(truePos(set.labels), f)),
            coverageTotal |-> Cardinality(truePos(set.labels)),
            indeterminate |-> Cardinality(Unruled(set.labels, f))]
  <1>1. R!score(set, f) =
           [truePositives |-> R!Cardinality(Firing(truePos(set.labels), f)),
            falsePositives |-> R!Cardinality(Firing(falsePos(set.labels), f)),
            unknown |-> R!Cardinality(Firing(neither(set.labels), f)),
            coverageCaught |-> R!Cardinality(Firing(truePos(set.labels), f)),
            coverageTotal |-> R!Cardinality(truePos(set.labels)),
            indeterminate |-> R!Cardinality(Unruled(set.labels, f))]
    BY Zenon DEF R!score, Firing, Unruled, ruledBy, truePos, falsePos, neither, Labelled
  <1>2. \A S : R!Cardinality(S) = Cardinality(S)
    BY SameCount
  <1> QED
    BY <1>1, <1>2, Zenon

\* Rulings that agree on the labelled rows give one score.
LEMMA SameScore ==
  ASSUME NEW set, NEW f, NEW g, \A l \in set.labels : ruledBy(f, l) = ruledBy(g, l)
  PROVE  R!score(set, f) = R!score(set, g)
  <1>1. \A S \in SUBSET set.labels : Firing(S, f) = Firing(S, g)
    BY Zenon DEF Firing
  <1>2. /\ truePos(set.labels) \in SUBSET set.labels /\ falsePos(set.labels) \in SUBSET set.labels
        /\ neither(set.labels) \in SUBSET set.labels
    BY DEF truePos, falsePos, neither, Labelled
  <1>3. Unruled(set.labels, f) = Unruled(set.labels, g)
    BY Zenon DEF Unruled
  <1> QED
    BY <1>1, <1>2, <1>3, ScoreOf, Zenon

\* The sizes of disjoint parts add up.
LEMMA TwoParts ==
  ASSUME NEW S, NEW T, IsFiniteSet(S), IsFiniteSet(T), S \cap T = {}
  PROVE  /\ IsFiniteSet(S \cup T) /\ Cardinality(S \cup T) = Cardinality(S) + Cardinality(T)
         /\ Cardinality(S) \in Nat /\ Cardinality(T) \in Nat
  <1>1. Cardinality(S \cup T) = Cardinality(S) + Cardinality(T) - Cardinality(S \cap T)
    BY FS_Union
  <1>2. Cardinality(S \cap T) = 0 /\ Cardinality(S) \in Nat /\ Cardinality(T) \in Nat
    BY FS_EmptySet, FS_CardinalityType
  <1> QED
    BY <1>1, <1>2, FS_Union

LEMMA ThreeParts ==
  ASSUME NEW W, IsFiniteSet(W), NEW S, NEW T, NEW U, W = S \cup T \cup U,
         S \cap T = {}, S \cap U = {}, T \cap U = {}
  PROVE  /\ Cardinality(W) = Cardinality(S) + Cardinality(T) + Cardinality(U)
         /\ Cardinality(S) \in Nat /\ Cardinality(T) \in Nat /\ Cardinality(U) \in Nat
  <1>1. IsFiniteSet(S) /\ IsFiniteSet(T) /\ IsFiniteSet(U)
    BY FS_Subset
  <1>2. /\ IsFiniteSet(S \cup T) /\ Cardinality(S \cup T) = Cardinality(S) + Cardinality(T)
        /\ Cardinality(S) \in Nat /\ Cardinality(T) \in Nat
    BY <1>1, TwoParts
  <1>3. Cardinality((S \cup T) \cup U) = Cardinality(S \cup T) + Cardinality(U) /\ Cardinality(U) \in Nat
    BY <1>1, <1>2, TwoParts
  <1> QED
    BY <1>2, <1>3

\* Every label is of a row that fires, passes, or has no ruling.
LEMMA EachIsRuled ==
  ASSUME NEW labels, IsFiniteSet(labels), NEW f,
         \A l \in labels : ruledBy(f, l) \in {None, TRUE, FALSE}
  PROVE  /\ Cardinality(labels) = Cardinality(Unruled(labels, f)) + Cardinality(Firing(labels, f))
                                    + Cardinality(Passing(labels, f))
         /\ Cardinality(Unruled(labels, f)) \in Nat /\ Cardinality(Passing(labels, f)) \in Nat
  <1> DEFINE S == Unruled(labels, f)
             T == Firing(labels, f)
             U == Passing(labels, f)
  <1>1. None \notin BOOLEAN
    BY LabelAssumption, Zenon
  <1>2. labels = S \cup T \cup U
    BY DEF Unruled, Firing, Passing
  <1>3. S \cap T = {} /\ S \cap U = {} /\ T \cap U = {}
    BY <1>1, Zenon DEF Unruled, Firing, Passing
  <1> HIDE DEF S, T, U
  <1>4. /\ Cardinality(labels) = Cardinality(S) + Cardinality(T) + Cardinality(U)
        /\ Cardinality(S) \in Nat /\ Cardinality(T) \in Nat /\ Cardinality(U) \in Nat
    BY <1>2, <1>3, ThreeParts
  <1> QED
    BY <1>4 DEF S, T, U

\* A severity is one of the three the report counts.
LEMMA OneOfThreeSeverities ==
  \A rule, target : R!severityOfRule(rule, target) \in {"critical", "high", "medium"}
  BY DEF R!severityOfRule

\* With the rows of B and their rulings: the score is the one printed, and neither the
\* severities nor the classes contradict it.
LEMMA LabelledFiguresOf ==
  ASSUME NEW ruling \in Rulings, NEW B \in SUBSET Deliveries,
         NEW set, IsFiniteSet(set.labels)
  PROVE  LET v == R!labelledFigures(Corpus(B), set, ruling)
             s == R!score(set, nowOf(ruling, B))
         IN  /\ v.precision.available =>
                  /\ v.precision.value = s
                  /\ Cardinality(Firing(set.labels, nowOf(ruling, B)))
                       = s.truePositives + s.falsePositives + s.unknown
             /\ v.coverage.available => v.coverage.value = s
             /\ v.severity.available /\ v.classes.available
  <1> DEFINE v == R!labelledFigures(Corpus(B), set, ruling)
             results == R!replayCorpus(Corpus(B), ruling)
             now == R!rulingsOf(results, "blockedNow")
             s == R!score(set, now)
             firing == {l \in set.labels : l.id \in DOMAIN now /\ now[l.id] = TRUE}
             tp == {l \in set.labels : l.label = "TRUE_POSITIVE"}
             fp == {l \in set.labels : l.label = "FALSE_POSITIVE"}
             rowOf(l) == (CHOOSE r \in Corpus(B) : r.row.id = l.id).row
             resultOf(l) == CHOOSE r \in results : r.id = l.id
             worth(l) == R!severityOfRule(resultOf(l).ruleNow, rowOf(l).target)
             sev == [x \in {"critical", "high", "medium"} |->
                       R!Cardinality({l \in tp \cap firing : worth(l) = x})]
             classes == [c \in {l.class : l \in fp} |->
                           [then |-> R!Cardinality({l \in fp : l.class = c}),
                            now |-> R!Cardinality({l \in fp \cap firing : l.class = c})]]
             sum(f, k) == R!SumFunction([c \in DOMAIN f |-> f[c][k]])
  <1>1. /\ v.precision = IF s.truePositives + s.falsePositives = 0 THEN R!unavailable("no denominator")
                         ELSE R!checked("precision", s, R!Cardinality(firing)
                                = s.truePositives + s.falsePositives + s.unknown)
        /\ v.coverage = IF s.coverageTotal = 0 THEN R!unavailable("no true positives")
                        ELSE R!checked("coverage", s, /\ R!Cardinality(tp) = s.coverageTotal
                                                      /\ R!Cardinality(tp \cap firing) = s.coverageCaught)
        /\ v.severity = R!checked("severity", sev,
                                  sev["critical"] + sev["high"] + sev["medium"] = s.truePositives)
        /\ v.classes = R!checked("classes", classes, /\ sum(classes, "then") = R!Cardinality(fp)
                                                     /\ sum(classes, "now") = s.falsePositives)
    BY Zenon DEF R!labelledFigures
  <1>2. /\ \A what, x : R!checked(what, x, TRUE).available
        /\ \A x : R!available(x).value = x
        /\ \A why : ~ R!unavailable(why).available
    BY DEF R!checked, R!available, R!unavailable
  <1>3. now = nowOf(ruling, B)
    BY RulingsOf, Zenon
  <1>4. None \notin BOOLEAN
    BY LabelAssumption, Zenon
  <1> HIDE DEF v, now
  <1>5. firing = Firing(set.labels, now)
    BY <1>4, Zenon DEF Firing, ruledBy
  <1>6. tp = truePos(set.labels) /\ fp = falsePos(set.labels)
    BY Zenon DEF truePos, falsePos, Labelled
  <1>7. IsFiniteSet(tp) /\ IsFiniteSet(fp) /\ IsFiniteSet(tp \cap firing) /\ IsFiniteSet(fp \cap firing)
    <2>1. tp \in SUBSET set.labels /\ fp \in SUBSET set.labels
      OBVIOUS
    <2> HIDE DEF tp, fp, firing
    <2> QED
      BY <2>1, FS_Subset
  <1> HIDE DEF tp, fp
  <1>8. s.truePositives = Cardinality(tp \cap firing) /\ s.falsePositives = Cardinality(fp \cap firing)
    <2>1. Firing(tp, now) = tp \cap firing /\ Firing(fp, now) = fp \cap firing
      <3>1. tp \in SUBSET set.labels /\ fp \in SUBSET set.labels
        BY DEF tp, fp
      <3> QED
        BY <1>5, <3>1, Zenon DEF Firing
    <2> HIDE DEF firing
    <2> QED
      BY <1>6, <2>1, ScoreOf
  <1> HIDE DEF s, firing, results, worth
  <1>9. sev["critical"] + sev["high"] + sev["medium"] = s.truePositives
    <2> DEFINE part(x) == {l \in tp \cap firing : worth(l) = x}
    <2>1. \A l : worth(l) \in {"critical", "high", "medium"}
      BY OneOfThreeSeverities DEF worth
    <2>2. /\ tp \cap firing = part("critical") \cup part("high") \cup part("medium")
          /\ part("critical") \cap part("high") = {} /\ part("critical") \cap part("medium") = {}
          /\ part("high") \cap part("medium") = {}
      BY <2>1
    <2>3. \A x \in {"critical", "high", "medium"} : sev[x] = R!Cardinality(part(x))
      OBVIOUS
    <2>4. \A x \in {"critical", "high", "medium"} : sev[x] = Cardinality(part(x))
      BY <2>3, SameCount, Zenon
    <2> HIDE DEF part, sev
    <2>5. Cardinality(tp \cap firing)
            = Cardinality(part("critical")) + Cardinality(part("high")) + Cardinality(part("medium"))
      BY <1>7, <2>2, ThreeParts
    <2> QED
      BY <1>8, <2>4, <2>5
  <1>10. sum(classes, "then") = R!Cardinality(fp) /\ sum(classes, "now") = s.falsePositives
    <2> DEFINE names == {l.class : l \in fp}
               class == [l \in fp |-> l.class]
               then == [c \in names |-> Cardinality({l \in fp : l.class = c})]
               still == [c \in names |-> Cardinality({l \in fp \cap firing : l.class = c})]
    <2>1. IsFiniteSet(names)
      <3>1. names = {class[l] : l \in fp}
        OBVIOUS
      <3> HIDE DEF names, class
      <3> QED
        BY <1>7, <3>1, FiniteImage
    <2>2. \A l \in fp : class[l] = l.class /\ class[l] \in names
      OBVIOUS
    <2>3. [c \in DOMAIN classes |-> classes[c]["then"]] = then
      <3>1. [c \in DOMAIN classes |-> classes[c]["then"]]
              = [c \in names |-> R!Cardinality({l \in fp : l.class = c})]
        OBVIOUS
      <3> HIDE DEF classes
      <3> QED
        BY <3>1, SameCount, Zenon
    <2>4. [c \in DOMAIN classes |-> classes[c]["now"]] = still
      <3>1. [c \in DOMAIN classes |-> classes[c]["now"]]
              = [c \in names |-> R!Cardinality({l \in fp \cap firing : l.class = c})]
        OBVIOUS
      <3> HIDE DEF classes
      <3> QED
        BY <3>1, SameCount, Zenon
    <2>5. DOMAIN then = names /\ DOMAIN still = names
      OBVIOUS
    <2>6. /\ \A c \in names : then[c] = Cardinality({l \in fp : class[l] = c})
          /\ \A c \in names : still[c] = Cardinality({l \in fp \cap firing : class[l] = c})
      <3>1. \A c : /\ {l \in fp : class[l] = c} = {l \in fp : l.class = c}
                   /\ {l \in fp \cap firing : class[l] = c} = {l \in fp \cap firing : l.class = c}
        BY <2>2
      <3>2. /\ \A c \in names : then[c] = Cardinality({l \in fp : l.class = c})
            /\ \A c \in names : still[c] = Cardinality({l \in fp \cap firing : l.class = c})
        OBVIOUS
      <3> HIDE DEF class, then, still, names
      <3> QED
        BY <3>1, <3>2, Zenon
    <2>7. /\ {l \in fp : class[l] \in names} = fp
          /\ {l \in fp \cap firing : class[l] \in names} = fp \cap firing
      BY <2>2
    <2> HIDE DEF names, class, then, still, classes
    <2>8. R!SumFunction(then) = Cardinality(fp)
      BY <1>7, <2>1, <2>5, <2>6, <2>7, SumOfCounts
    <2>9. R!SumFunction(still) = Cardinality(fp \cap firing)
      BY <1>7, <2>1, <2>5, <2>6, <2>7, SumOfCounts
    <2> QED
      BY <1>8, <2>3, <2>4, <2>8, <2>9, SameCount, Zenon
  <1> HIDE DEF sev, classes
  <1>11. v.severity.available /\ v.classes.available
    BY <1>1, <1>2, <1>9, <1>10, Zenon
  <1>12. ASSUME v.precision.available
         PROVE  v.precision.value = s
                /\ Cardinality(firing) = s.truePositives + s.falsePositives + s.unknown
    <2> DEFINE sound == R!Cardinality(firing) = s.truePositives + s.falsePositives + s.unknown
    <2>1. s.truePositives + s.falsePositives # 0
      BY <1>1, <1>2, <1>12, Zenon
    <2>2. v.precision = IF sound THEN R!available(s) ELSE R!unavailable("precision")
      BY <1>1, <2>1, Zenon DEF R!checked
    <2>3. sound
      BY <1>2, <1>12, <2>2, Zenon
    <2>4. v.precision.value = s
      BY <1>2, <2>2, <2>3, Zenon
    <2> QED
      BY <2>3, <2>4, SameCount, Zenon
  <1>13. ASSUME v.coverage.available
         PROVE  v.coverage.value = s
    <2> DEFINE sound == /\ R!Cardinality(tp) = s.coverageTotal
                        /\ R!Cardinality(tp \cap firing) = s.coverageCaught
    <2>1. s.coverageTotal # 0
      BY <1>1, <1>2, <1>13, Zenon
    <2>2. v.coverage = IF sound THEN R!available(s) ELSE R!unavailable("coverage")
      BY <1>1, <2>1, Zenon DEF R!checked
    <2> HIDE DEF sound
    <2>3. sound
      BY <1>2, <1>13, <2>2, Zenon
    <2> QED
      BY <1>2, <2>2, <2>3, Zenon
  <1> QED
    BY <1>3, <1>5, <1>11, <1>12, <1>13, Zenon DEF v, s

\* Labels verified against this record have the hash they were frozen with and label its
\* live incidents; without that no figure is made.
LEMMA ReportIsBound ==
  ASSUME TypeOK, NEW file \in LabelFiles, NEW ruling \in Rulings
  PROVE  LET v == R!buildValueReport(DB, ruling, file)
             f == R!labelledFigures(Corpus(LiveBlocks), file.set, ruling)
             c == R!cmdReplay(DB, "live", ruling, file)
         IN  \/ /\ ~ v.labelSet.available /\ ~ v.precision.available /\ ~ v.coverage.available
             \/ /\ v = f /\ \A l \in file.set.labels : l.id \in LiveIncidents
                /\ file.frozen = R!labelSetHash(file.set)
                /\ c.exit = 0
                /\ c.before = R!score(file.set, thenOf(LiveIncidents))
                /\ c.after = R!score(file.set, nowOf(ruling, LiveIncidents))
  <1> DEFINE v == R!buildValueReport(DB, ruling, file)
             f == R!labelledFigures(Corpus(LiveBlocks), file.set, ruling)
             c == R!cmdReplay(DB, "live", ruling, file)
             rows == R!liveOnly(DB)
             actions == R!actionsOf(rows)
             refused == R!verifyLabels(file.set, file.frozen, actions) # {}
             unbound == \E l \in file.set.labels : l.id \notin DOMAIN actions
             results == R!replayCorpus(rows, ruling)
  <1> HIDE DEF DB
  <1>1. file # None
    BY LabelAssumption, Zenon
  <1>2. v = IF refused THEN R!noLabels("refused")
            ELSE IF unbound THEN R!noLabels("not this record")
            ELSE R!labelledFigures({r \in rows : r.row.action = "block"}, file.set, ruling)
    BY <1>1, Zenon DEF R!buildValueReport
  <1>3. rows = Corpus(LiveIncidents) /\ R!storedCorpus(DB, "live") = rows
        /\ {r \in rows : r.row.action = "block"} = Corpus(LiveBlocks)
    BY LiveCorpus, Zenon
  <1>4. DOMAIN actions = LiveIncidents
    <2>1. actions = [d \in LiveIncidents |-> action(d)]
      BY <1>3, ActionsOf, Zenon
    <2> QED
      BY <2>1, Zenon
  <1>5. ~ refused => file.frozen = R!labelSetHash(file.set)
    <2>1. R!labelSetHash(file.set) # file.frozen => "hash" \in R!verifyLabels(file.set, file.frozen, actions)
      BY Zenon DEF R!verifyLabels
    <2> QED
      BY <2>1, Zenon
  <1>6. \A why : LET n == R!noLabels(why)
                 IN  ~ n.labelSet.available /\ ~ n.precision.available /\ ~ n.coverage.available
    BY DEF R!noLabels, R!unavailable
  <1>7. ~ refused => c = [exit |-> 0, summary |-> R!summarise(results),
                          before |-> R!score(file.set, R!rulingsOf(results, "blockedThen")),
                          after |-> R!score(file.set, R!rulingsOf(results, "blockedNow"))]
    BY <1>3, Zenon DEF R!cmdReplay
  <1>8. LiveIncidents \in SUBSET Deliveries
    BY DEF LiveIncidents, TypeOK
  <1>9. /\ R!rulingsOf(results, "blockedThen") = thenOf(LiveIncidents)
        /\ R!rulingsOf(results, "blockedNow") = nowOf(ruling, LiveIncidents)
    BY <1>3, <1>8, RulingsOf, Zenon
  <1> HIDE DEF rows, actions, results, refused, v, c
  <1>10. CASE refused \/ unbound
    <2>1. v = R!noLabels("refused") \/ v = R!noLabels("not this record")
      BY <1>2, <1>10, Zenon
    <2> QED
      BY <1>6, <2>1, Zenon DEF v
  <1>11. CASE ~ refused /\ ~ unbound
    <2>1. v = f
      BY <1>2, <1>3, <1>11, Zenon
    <2>2. \A l \in file.set.labels : l.id \in LiveIncidents
      BY <1>4, <1>11, Zenon
    <2>3. /\ c.exit = 0 /\ c.before = R!score(file.set, R!rulingsOf(results, "blockedThen"))
          /\ c.after = R!score(file.set, R!rulingsOf(results, "blockedNow"))
      BY <1>7, <1>11
    <2>4. /\ c.before = R!score(file.set, thenOf(LiveIncidents))
          /\ c.after = R!score(file.set, nowOf(ruling, LiveIncidents))
      BY <1>9, <2>3, Zenon
    <2>5. file.frozen = R!labelSetHash(file.set)
      BY <1>5, <1>11
    <2> HIDE DEF f
    <2> QED
      BY <2>1, <2>2, <2>3, <2>4, <2>5, Zenon DEF v, c, f
  <1> QED
    BY <1>10, <1>11, Zenon

\* The value report is of the labelled live rows and of no other.
LEMMA ValueOfAFile ==
  ASSUME TypeOK
  PROVE  ValueIsOfThisRecord
  <1> SUFFICES ASSUME NEW file \in LabelFiles, NEW ruling \in Rulings
      PROVE LET
        v      == R!buildValueReport(DB, ruling, file)
        c      == R!cmdReplay(DB, "live", ruling, file)
        labels == file.set.labels
        ids    == {l.id : l \in labels}
        live   == {d \in incidents : Ev[d].origin = "live"}
        denied(d) == ruling[action(d)].decision = "deny"
        passed == {l \in labels : /\ l.id \in live \cap BlockRows /\ ~ denied(l.id)
                                 /\ ~ ruling[action(l.id)].unevaluable}
    IN  /\ v.coverage.available =>
             /\ ids \subseteq live /\ file.frozen = R!labelSetHash(file.set) /\ c.exit = 0
             /\ ids \subseteq BlockRows => v.coverage.value = c.after
             /\ v.coverage.value.coverageCaught <= c.before.coverageCaught
             /\ (\A d \in ids : ~ denied(d)) => v.coverage.value.coverageCaught = 0
        /\ v.precision.available =>
             v.precision.value.indeterminate + v.precision.value.truePositives
               + v.precision.value.falsePositives + v.precision.value.unknown
               + Cardinality(passed) = Cardinality(labels)
        /\ v.labelSet.available => v.severity.available /\ v.classes.available
    BY Zenon DEF ValueIsOfThisRecord
  <1> DEFINE v      == R!buildValueReport(DB, ruling, file)
             c      == R!cmdReplay(DB, "live", ruling, file)
             labels == file.set.labels
             ids    == {l.id : l \in labels}
             passed == {l \in labels : /\ l.id \in LiveIncidents \cap BlockRows
                                       /\ ~ (ruling[action(l.id)].decision = "deny")
                                       /\ ~ ruling[action(l.id)].unevaluable}
             now == nowOf(ruling, LiveBlocks)
             s   == R!score(file.set, now)
             f   == R!labelledFigures(Corpus(LiveBlocks), file.set, ruling)
  <1> HIDE DEF DB
  <1>1. LiveBlocks \in SUBSET LiveIncidents /\ LiveIncidents \in SUBSET Deliveries
    BY DEF LiveBlocks, LiveIncidents, TypeOK
  <1>2. IsFiniteSet(labels) /\ None \notin BOOLEAN
    BY LabelAssumption, Zenon
  <1>3. \/ /\ ~ v.labelSet.available /\ ~ v.precision.available /\ ~ v.coverage.available
        \/ /\ v = f /\ \A l \in labels : l.id \in LiveIncidents
           /\ file.frozen = R!labelSetHash(file.set)
           /\ c.exit = 0 /\ c.before = R!score(file.set, thenOf(LiveIncidents))
           /\ c.after = R!score(file.set, nowOf(ruling, LiveIncidents))
    BY ReportIsBound, Zenon
  <1>4. /\ f.precision.available =>
             /\ f.precision.value = s
             /\ Cardinality(Firing(labels, now)) = s.truePositives + s.falsePositives + s.unknown
        /\ f.coverage.available => f.coverage.value = s
        /\ f.severity.available /\ f.classes.available
    <2>1. LiveBlocks \in SUBSET Deliveries
      BY <1>1
    <2> QED
      BY <1>2, <2>1, LabelledFiguresOf, Zenon
  <1>5. \A l : /\ l.id \in LiveBlocks => ruledBy(now, l) = blockedNow(ruling, l.id)
               /\ l.id \notin LiveBlocks => ruledBy(now, l) = None
    <2>1. DOMAIN now = LiveBlocks /\ \A d \in LiveBlocks : now[d] = blockedNow(ruling, d)
      BY Zenon DEF nowOf
    <2> HIDE DEF now
    <2> QED
      BY <2>1, Zenon DEF ruledBy
  <1>6. \A d \in Deliveries : /\ blockedNow(ruling, d) = TRUE <=> denies(ruling, d)
                              /\ blockedNow(ruling, d) = FALSE <=>
                                   ~ denies(ruling, d) /\ ~ ruling[action(d)].unevaluable
                              /\ blockedNow(ruling, d) \in {None, TRUE, FALSE}
    <2> TAKE d \in Deliveries
    <2>1. denies(ruling, d) \in BOOLEAN /\ ruling[action(d)].unevaluable \in BOOLEAN
      BY LabelAssumption, Zenon DEF denies
    <2>2. CASE ~ denies(ruling, d) /\ ruling[action(d)].unevaluable
      <3>1. blockedNow(ruling, d) = None
        BY <2>2, Zenon DEF blockedNow
      <3> QED
        BY <1>2, <2>2, <3>1, Zenon
    <2>3. CASE ~ (~ denies(ruling, d) /\ ruling[action(d)].unevaluable)
      <3>1. blockedNow(ruling, d) = denies(ruling, d)
        BY <2>3, Zenon DEF blockedNow
      <3>2. CASE denies(ruling, d)
        <4>1. blockedNow(ruling, d) = TRUE
          BY <2>1, <3>1, <3>2, Zenon
        <4> QED
          BY <3>2, <4>1, Zenon
      <3>3. CASE ~ denies(ruling, d)
        <4>1. blockedNow(ruling, d) = FALSE
          BY <2>1, <3>1, <3>3, Zenon
        <4> QED
          BY <2>3, <3>3, <4>1, Zenon
      <3> QED
        BY <3>2, <3>3, Zenon
    <2> QED
      BY <2>2, <2>3, Zenon
  <1> HIDE DEF now
  <1>7. v.coverage.available => c.exit = 0 /\ v.coverage.value = s /\ ids \subseteq LiveIncidents
    <2> HIDE DEF v, c, f, s
    <2> QED
      BY <1>3, <1>4, Zenon
  <1>8. ASSUME v.coverage.available, ids \subseteq BlockRows
        PROVE  v.coverage.value = c.after
    <2>1. \A l \in labels : l.id \in LiveBlocks /\ l.id \in LiveIncidents
      BY <1>7, <1>8 DEF LiveBlocks
    <2>2. \A l \in labels : ruledBy(now, l) = ruledBy(nowOf(ruling, LiveIncidents), l)
      <3>1. \A l \in labels : ruledBy(nowOf(ruling, LiveIncidents), l) = blockedNow(ruling, l.id)
        BY <2>1, Zenon DEF ruledBy, nowOf
      <3> QED
        BY <1>5, <2>1, <3>1, Zenon
    <2>3. s = R!score(file.set, nowOf(ruling, LiveIncidents))
      BY <2>2, SameScore, Zenon
    <2> HIDE DEF v, c, f, s
    <2> QED
      BY <1>3, <1>7, <1>8, <2>3, Zenon
  <1> DEFINE tp == truePos(labels)
  <1>9. /\ s.truePositives = Cardinality(Firing(tp, now))
        /\ s.coverageCaught = Cardinality(Firing(tp, now))
        /\ s.indeterminate = Cardinality(Unruled(labels, now))
    BY ScoreOf
  <1>10. Firing(tp, now) = {l \in tp : l.id \in LiveBlocks /\ denies(ruling, l.id)}
    BY <1>1, <1>2, <1>5, <1>6, Zenon DEF Firing
  <1>11. ASSUME v.coverage.available
         PROVE  v.coverage.value.coverageCaught <= c.before.coverageCaught
    <2> DEFINE then == thenOf(LiveIncidents)
    <2>1. c.before = R!score(file.set, then)
      <3> HIDE DEF v, c, f, then
      <3> QED
        BY <1>3, <1>11, Zenon DEF then
    <2>2. c.before.coverageCaught = Cardinality(Firing(tp, then))
      <3> HIDE DEF c, then
      <3> QED
        BY <2>1, ScoreOf
    <2>3. \A l : l.id \in LiveBlocks => ruledBy(then, l) = TRUE
      <3>1. \A d \in LiveBlocks : d \in LiveIncidents /\ verdict[d].severity = "block"
        BY DEF LiveBlocks, BlockRows
      <3>2. DOMAIN then = LiveIncidents /\ \A d \in LiveBlocks : then[d] = TRUE
        BY <3>1, Zenon DEF thenOf
      <3> HIDE DEF then
      <3> QED
        BY <3>1, <3>2, Zenon DEF ruledBy
    <2>4. Firing(tp, now) \in SUBSET Firing(tp, then)
      <3> HIDE DEF then, tp
      <3> QED
        BY <1>10, <2>3, Zenon DEF Firing
    <2>5. IsFiniteSet(Firing(tp, then))
      <3>1. Firing(tp, then) \in SUBSET labels
        BY DEF Firing, truePos, Labelled
      <3> QED
        BY <1>2, <3>1, FS_Subset
    <2>6. Cardinality(Firing(tp, now)) <= Cardinality(Firing(tp, then))
      BY <2>4, <2>5, FS_Subset
    <2> HIDE DEF v, c, s, tp, then
    <2> QED
      BY <1>7, <1>9, <1>11, <2>2, <2>6
  <1>12. ASSUME v.coverage.available, \A d \in ids : ~ (ruling[action(d)].decision = "deny")
         PROVE  v.coverage.value.coverageCaught = 0
    <2>1. Firing(tp, now) = {}
      <3>1. \A l \in tp : ~ denies(ruling, l.id)
        <4>1. \A l \in tp : l.id \in ids
          BY DEF truePos, Labelled
        <4> QED
          BY <1>12, <4>1, Zenon DEF denies
      <3> HIDE DEF tp
      <3> QED
        BY <1>10, <3>1, Zenon
    <2>2. Cardinality({}) = 0
      BY FS_EmptySet
    <2> HIDE DEF v, s, tp
    <2> QED
      BY <1>7, <1>9, <1>12, <2>1, <2>2
  <1>13. ASSUME v.precision.available
         PROVE  v.precision.value.indeterminate + v.precision.value.truePositives
                  + v.precision.value.falsePositives + v.precision.value.unknown
                  + Cardinality(passed) = Cardinality(labels)
    <2>1. v.precision.value = s
          /\ Cardinality(Firing(labels, now)) = s.truePositives + s.falsePositives + s.unknown
      <3> HIDE DEF v, f, s
      <3> QED
        BY <1>3, <1>4, <1>13, Zenon
    <2>2. passed = {l \in labels : ruledBy(now, l) = FALSE}
      <3>1. \A l : l.id \in LiveIncidents \cap BlockRows <=> l.id \in LiveBlocks
        BY DEF LiveBlocks
      <3>2. \A l \in labels : ruledBy(now, l) = FALSE <=>
              /\ l.id \in LiveIncidents \cap BlockRows /\ ~ (ruling[action(l.id)].decision = "deny")
              /\ ~ ruling[action(l.id)].unevaluable
        BY <1>1, <1>2, <1>5, <1>6, <3>1, Zenon DEF denies
      <3> QED
        BY <3>2, Zenon
    <2>3. \A l \in labels : ruledBy(now, l) \in {None, TRUE, FALSE}
      BY <1>1, <1>5, <1>6, Zenon
    <2>4. passed = Passing(labels, now)
      BY <2>2, Zenon DEF Passing
    <2>5. /\ Cardinality(labels) = Cardinality(Unruled(labels, now)) + Cardinality(Firing(labels, now))
                                    + Cardinality(Passing(labels, now))
          /\ Cardinality(Unruled(labels, now)) \in Nat /\ Cardinality(Passing(labels, now)) \in Nat
      BY <1>2, <2>3, EachIsRuled, Zenon
    <2> HIDE DEF passed, labels
    <2>6. s.truePositives \in Nat /\ s.falsePositives \in Nat /\ s.unknown \in Nat
      <3>1. /\ Firing(truePos(labels), now) \in SUBSET labels
            /\ Firing(falsePos(labels), now) \in SUBSET labels
            /\ Firing(neither(labels), now) \in SUBSET labels
        BY DEF Firing, truePos, falsePos, neither, Labelled
      <3>2. /\ Cardinality(Firing(truePos(labels), now)) \in Nat
            /\ Cardinality(Firing(falsePos(labels), now)) \in Nat
            /\ Cardinality(Firing(neither(labels), now)) \in Nat
        BY <1>2, <3>1, FS_Subset, FS_CardinalityType
      <3> QED
        BY <3>2, ScoreOf DEF labels
    <2> HIDE DEF v, s
    <2> QED
      BY <1>9, <2>1, <2>4, <2>5, <2>6
  <1>14. v.labelSet.available => v.severity.available /\ v.classes.available
    <2> HIDE DEF v, c, f
    <2> QED
      BY <1>3, <1>4, Zenon
  <1>15. /\ v.coverage.available => ids \subseteq {d \in incidents : Ev[d].origin = "live"}
                                   /\ file.frozen = R!labelSetHash(file.set)
    <2> HIDE DEF v, c, f
    <2> QED
      BY <1>3, <1>7, Zenon DEF LiveIncidents
  <1> HIDE DEF v, c
  <1> QED
    BY <1>7, <1>8, <1>11, <1>12, <1>13, <1>14, <1>15, Zenon DEF v, c, LiveIncidents

\* A figure of the value report is of the labelled rows of this record, at whatever statement
\* the hooks are.
THEOREM ValueReportIsBound == Spec => [](ValueIsOfThisRecord /\ FiguresAreOfThisRecord)
  <1>1. IInv => ValueIsOfThisRecord /\ FiguresAreOfThisRecord
    BY ValueOfAFile DEF IInv, FiguresAreOfThisRecord
  <1> QED
    BY <1>1, Inductive, PTL

\* A key that is not there is not found; and of a list of keys a payload that has one of
\* them alone is read by that.
LEMMA NoKey ==
  ASSUME NEW o, NEW keys, \A j \in DOMAIN keys : keys[j] \notin DOMAIN o
  PROVE  A!str(o, keys) = None
  BY DEF A!str

LEMMA OnlyKey ==
  ASSUME NEW o, NEW keys, DOMAIN keys \in SUBSET Nat, NEW i \in DOMAIN keys,
         keys[i] \in DOMAIN o, \A j \in DOMAIN keys : keys[j] \in DOMAIN o => keys[j] = keys[i]
  PROVE  A!str(o, keys) = o[keys[i]]
  <1> DEFINE hits == {k \in DOMAIN keys : keys[k] \in DOMAIN o}
  <1>1. hits \in SUBSET Nat /\ i \in hits
    OBVIOUS
  <1>2. A!Min(hits) = CHOOSE x \in hits : \A y \in hits : x <= y
    BY Zenon DEF A!Min
  <1>3. A!str(o, keys) = IF hits = {} THEN None ELSE o[keys[A!Min(hits)]]
    BY Zenon DEF A!str
  <1>4. \A k \in hits : keys[k] = keys[i]
    OBVIOUS
  <1> HIDE DEF hits
  <1>5. \E t \in hits : \A k \in hits : t <= k
    BY <1>1, Least
  <1>6. A!Min(hits) \in hits
    BY <1>2, <1>5, Zenon
  <1> QED
    BY <1>1, <1>3, <1>4, <1>6, Zenon

\* Each vendor's hooks.
LEMMA HooksOf ==
  /\ A!hooksOf("claude") = A!EVENT_MAP /\ A!hooksOf("codex") = A!CODEX_EVENTS
  /\ A!hooksOf("gemini") = A!GEMINI_EVENTS /\ A!hooksOf("cursor") = A!CURSOR_EVENTS
  /\ A!hooksOf("opencode") = [hook \in {"tool.execute.before"} |-> "pre_tool"]
  /\ DOMAIN A!hooksOf("copilot") \subseteq DOMAIN A!COPILOT_EVENTS
  <1> USE DEF A!hooksOf, A!planFor, A!claudeShaped
  <1>1. A!hooksOf("claude") = A!EVENT_MAP
    BY DEF A!EVENT_MAP
  <1>2. A!hooksOf("codex") = A!CODEX_EVENTS
    BY DEF A!CODEX_EVENTS
  <1>3. A!hooksOf("gemini") = A!GEMINI_EVENTS
    BY DEF A!GEMINI_EVENTS
  <1>4. A!hooksOf("cursor") = A!CURSOR_EVENTS
    BY DEF A!CURSOR_EVENTS
  <1>5. A!hooksOf("opencode") = [hook \in {"tool.execute.before"} |-> "pre_tool"]
    BY DEF A!openCodePlugin
  <1>6. DOMAIN A!hooksOf("copilot") \subseteq DOMAIN A!COPILOT_EVENTS
    BY DEF A!COPILOT_EVENTS
  <1> QED
    BY <1>1, <1>2, <1>3, <1>4, <1>5, <1>6

LEMMA KindsOfHooks ==
  ASSUME NEW agent \in A!AGENT_IDS, NEW h \in DOMAIN A!hooksOf(agent)
  PROVE  A!hooksOf(agent)[h] \in A!EVENT_KINDS /\ A!hooksOf(agent)[h] # None
  <1>1. A!hooksOf(agent)[h] \in A!EVENT_KINDS
    <2> USE DEF A!hooksOf, A!planFor, A!claudeShaped, A!EVENT_KINDS
    <2>1. CASE agent = "claude"
      BY <2>1
    <2>2. CASE agent = "codex"
      BY <2>2
    <2>3. CASE agent = "gemini"
      BY <2>3
    <2>4. CASE agent = "cursor"
      BY <2>4
    <2>5. CASE agent = "copilot"
      BY <2>5
    <2>6. CASE agent = "opencode"
      BY <2>6 DEF A!openCodePlugin
    <2> QED
      BY <2>1, <2>2, <2>3, <2>4, <2>5, <2>6 DEF A!AGENT_IDS
  <1> QED
    BY <1>1, CallAssumption

\* What is in a payload that names the session and the hook as Claude Code does.
LEMMA ClaudePayload ==
  ASSUME NEW agent \in {"claude", "gemini", "codex", "opencode"}, NEW h \in DOMAIN A!hooksOf(agent),
         NEW session, NEW raw, NEW in, NEW prompt
  PROVE  LET k == A!hooksOf(agent)[h]
             o == A!sent(agent, h, session, [rawTool |-> raw, input |-> in], prompt)
         IN  /\ {"session_id", "hook_event_name"} \subseteq DOMAIN o
             /\ DOMAIN o \subseteq {"session_id", "hook_event_name", "tool_name", "tool_input", "prompt"}
             /\ o["session_id"] = session /\ o["hook_event_name"] = h
             /\ k \in A!ToolHooks => /\ DOMAIN o = {"session_id", "hook_event_name", "tool_name", "tool_input"}
                                     /\ o["tool_name"] = raw /\ o["tool_input"] = in
             /\ k = "user_prompt" => "prompt" \in DOMAIN o /\ o["prompt"] = prompt
  <1> DEFINE k == A!hooksOf(agent)[h]
             o == A!sent(agent, h, session, [rawTool |-> raw, input |-> in], prompt)
             who == [session_id |-> session, hook_event_name |-> h]
             tool == [tool_name |-> raw, tool_input |-> in]
             said == [prompt |-> prompt]
  <1>1. h \notin A!FlatHooks
    <2>1. h \in DOMAIN A!EVENT_MAP \cup DOMAIN A!CODEX_EVENTS \cup DOMAIN A!GEMINI_EVENTS
               \cup {"tool.execute.before"}
      BY HooksOf
    <2> QED
      BY <2>1 DEF A!FlatHooks, A!EVENT_MAP, A!CODEX_EVENTS, A!GEMINI_EVENTS
  <1>2. agent # "cursor" /\ agent # "copilot"
    OBVIOUS
  <1>3. o = CASE k \in A!ToolHooks -> A!with(who, tool)
              [] k = "user_prompt" -> A!with(who, said)
              [] OTHER -> who
    BY <1>1, <1>2, Zenon DEF A!sent
  <1>4. "user_prompt" \notin A!ToolHooks
    BY DEF A!ToolHooks
  <1> HIDE DEF o, k
  <1>5. CASE k \in A!ToolHooks
    <2>1. o = A!with(who, tool)
      BY <1>3, <1>4, <1>5
    <2> QED
      BY <1>4, <1>5, <2>1 DEF A!with, o, k
  <1>6. CASE k = "user_prompt"
    <2>1. o = A!with(who, said)
      BY <1>3, <1>4, <1>6
    <2> QED
      BY <1>4, <1>6, <2>1 DEF A!with, o, k
  <1>7. CASE k \notin A!ToolHooks /\ k # "user_prompt"
    <2>1. o = who
      BY <1>3, <1>7
    <2> QED
      BY <1>7, <2>1 DEF o, k
  <1> QED
    BY <1>5, <1>6, <1>7

\* What reaches the engine of a call, and of a prompt.
Arrives(agent, e, k, session, raw, prompt) ==
  /\ e.event = k /\ e.sessionId = session
  /\ k = "user_prompt" => e.prompt = prompt
  /\ k = "pre_tool" => e.tool = A!canonicalTool(agent, raw)

\* A call as a hook of the agent brings it to the engine.
carried(agent, h, session, raw, in, prompt) ==
  A!receive(agent, A!sent(agent, h, session, [rawTool |-> raw, input |-> in], prompt),
            A!hooksOf(agent)[h])

\* A hook of Claude Code's shape brings the tool, with what its adapter finds in the input.
LEMMA ClaudeShapedArrives ==
  ASSUME NEW agent \in {"claude", "gemini", "codex"}, NEW h \in DOMAIN A!hooksOf(agent),
         NEW session, session # None, NEW raw, raw # None, NEW in, in # None, NEW prompt
  PROVE  LET k == A!hooksOf(agent)[h]
             e == carried(agent, h, session, raw, in, prompt)
         IN  /\ Arrives(agent, e, k, session, raw, prompt)
             /\ k = "pre_tool" => e.command = A!extractCommand(in) /\ e.filePath = A!extractPath(in)
  <1> DEFINE k == A!hooksOf(agent)[h]
             o == A!sent(agent, h, session, [rawTool |-> raw, input |-> in], prompt)
             e == A!receive(agent, o, k)
             p == A!normalizeCommon(agent, k, o)
  <1>1. /\ {"session_id", "hook_event_name"} \subseteq DOMAIN o
        /\ DOMAIN o \subseteq {"session_id", "hook_event_name", "tool_name", "tool_input", "prompt"}
        /\ o["session_id"] = session /\ o["hook_event_name"] = h
        /\ k \in A!ToolHooks => /\ DOMAIN o = {"session_id", "hook_event_name", "tool_name", "tool_input"}
                                /\ o["tool_name"] = raw /\ o["tool_input"] = in
        /\ k = "user_prompt" => "prompt" \in DOMAIN o /\ o["prompt"] = prompt
    BY ClaudePayload
  <1> HIDE DEF o
  <1>2. A!str(o, <<"hook_event_name">>) = h
    <2> DEFINE keys == <<"hook_event_name">>
    <2>1. DOMAIN keys \in SUBSET Nat /\ 1 \in DOMAIN keys /\ keys[1] = "hook_event_name"
          /\ \A j \in DOMAIN keys : keys[j] \in DOMAIN o => keys[j] = keys[1]
      OBVIOUS
    <2>2. keys[1] \in DOMAIN o
      BY <1>1, <2>1
    <2> HIDE DEF keys
    <2>3. A!str(o, keys) = o[keys[1]]
      BY <2>1, <2>2, OnlyKey
    <2> QED
      BY <1>1, <2>1, <2>3 DEF keys
  <1>3. A!str(o, <<"session_id", "sessionId", "conversation_id">>) = session
    <2> DEFINE keys == <<"session_id", "sessionId", "conversation_id">>
    <2>1. DOMAIN keys \in SUBSET Nat /\ 1 \in DOMAIN keys /\ keys[1] = "session_id" /\ \A j \in DOMAIN keys : keys[j] \in DOMAIN o => keys[j] = keys[1]
      BY <1>1
    <2> HIDE DEF keys
    <2>2. keys[1] \in DOMAIN o
      BY <1>1, <2>1
    <2>3. A!str(o, keys) = o[keys[1]]
      BY <2>1, <2>2, OnlyKey
    <2> QED
      BY <1>1, <2>1, <2>3 DEF keys
  <1>4. A!kindOf(agent, o, k) = k
    <2>1. CASE agent = "claude"
      BY <1>2, <2>1, HooksOf DEF A!kindOf, A!named
    <2>2. CASE agent = "gemini"
      BY <1>2, <2>2, HooksOf DEF A!kindOf, A!named
    <2>3. CASE agent = "codex"
      BY <1>2, <2>3, HooksOf DEF A!kindOf, A!named
    <2> QED
      BY <2>1, <2>2, <2>3
  <1>5. k \in A!EVENT_KINDS /\ k # None
    BY KindsOfHooks DEF A!AGENT_IDS
  <1>6. A!parse(agent, o, k) = p
    <2> HIDE DEF p, k
    <2> QED
      BY <1>4, <1>5 DEF A!parse, p
  <1>7. /\ p.event = k /\ p.sessionId = session
        /\ p.prompt = A!str(o, <<"prompt", "user_prompt", "userPrompt", "message">>)
        /\ p.rawTool = A!str(o, <<"tool_name", "toolName", "tool">>)
        /\ p.tool = IF p.rawTool = None THEN None ELSE A!canonicalTool(agent, p.rawTool)
        /\ p.command = A!extractCommand(A!obj(o, <<"tool_input", "toolArgs", "toolInput", "arguments">>))
        /\ p.filePath = A!extractPath(A!obj(o, <<"tool_input", "toolArgs", "toolInput", "arguments">>))
    <2> HIDE DEF k
    <2> QED
      BY <1>3 DEF A!normalizeCommon, A!event, A!orElse
  <1> HIDE DEF p, k
  <1>8. e = p
    <2>1. e = IF p # None /\ p.event = "pre_tool" /\ k \in A!EVENT_KINDS THEN [p EXCEPT !.event = k] ELSE p
      BY <1>6, Zenon DEF A!receive
    <2>2. [p EXCEPT !.event = k] = p
      BY <1>7 DEF p, A!normalizeCommon, A!event
    <2> QED
      BY <2>1, <2>2
  <1>9. ASSUME k = "pre_tool"
        PROVE  p.rawTool = raw /\ A!obj(o, <<"tool_input", "toolArgs", "toolInput", "arguments">>) = in
    <2>1. DOMAIN o = {"session_id", "hook_event_name", "tool_name", "tool_input"}
          /\ o["tool_name"] = raw /\ o["tool_input"] = in
      BY <1>1, <1>9 DEF A!ToolHooks
    <2> DEFINE names == <<"tool_name", "toolName", "tool">>
               inputs == <<"tool_input", "toolArgs", "toolInput", "arguments">>
    <2>2. DOMAIN names \in SUBSET Nat /\ 1 \in DOMAIN names /\ names[1] = "tool_name" /\ \A j \in DOMAIN names : names[j] \in DOMAIN o => names[j] = names[1]
      BY <2>1
    <2>3. DOMAIN inputs \in SUBSET Nat /\ 1 \in DOMAIN inputs /\ inputs[1] = "tool_input" /\ \A j \in DOMAIN inputs : inputs[j] \in DOMAIN o => inputs[j] = inputs[1]
      BY <2>1
    <2> HIDE DEF names, inputs
    <2>x. names[1] \in DOMAIN o /\ inputs[1] \in DOMAIN o
      BY <2>1, <2>2, <2>3
    <2>4. A!str(o, names) = o[names[1]] /\ A!str(o, inputs) = o[inputs[1]]
      BY <2>2, <2>3, <2>x, OnlyKey
    <2> QED
      BY <1>7, <2>1, <2>2, <2>3, <2>4 DEF names, inputs, A!obj
  <1>10. ASSUME k = "user_prompt"
         PROVE  p.prompt = prompt
    <2> DEFINE keys == <<"prompt", "user_prompt", "userPrompt", "message">>
    <2>1. DOMAIN keys \in SUBSET Nat /\ 1 \in DOMAIN keys /\ keys[1] = "prompt" /\ \A j \in DOMAIN keys : keys[j] \in DOMAIN o => keys[j] = keys[1]
      BY <1>1
    <2>2. keys[1] \in DOMAIN o /\ o[keys[1]] = prompt
      BY <1>1, <1>10, <2>1
    <2> HIDE DEF keys
    <2>3. A!str(o, keys) = o[keys[1]]
      BY <2>1, <2>2, OnlyKey
    <2> QED
      BY <1>7, <2>2, <2>3 DEF keys
  <1> HIDE DEF e
  <1> QED
    BY <1>7, <1>8, <1>9, <1>10 DEF Arrives, carried, e, k, o

\* OpenCode's plugin knows one hook, and brings the tool with its input.
LEMMA OpenCodeArrives ==
  ASSUME NEW h \in DOMAIN A!hooksOf("opencode"),
         NEW session, session # None, NEW raw, raw # None, NEW in, in # None, NEW prompt
  PROVE  LET k == A!hooksOf("opencode")[h]
             e == carried("opencode", h, session, raw, in, prompt)
         IN  /\ Arrives("opencode", e, k, session, raw, prompt)
             /\ e.command = A!str(in, <<"command">>)
             /\ e.filePath = A!str(in, <<"filePath", "file_path", "path">>)
  <1> DEFINE k == A!hooksOf("opencode")[h]
             o == A!sent("opencode", h, session, [rawTool |-> raw, input |-> in], prompt)
             e == A!receive("opencode", o, k)
             p == A!parseOpenCode(k, o)
  <1>1. k = "pre_tool"
    BY HooksOf
  <1>2. /\ DOMAIN o = {"session_id", "hook_event_name", "tool_name", "tool_input"}
        /\ o["session_id"] = session /\ o["tool_name"] = raw /\ o["tool_input"] = in
    <2>1. /\ k \in A!ToolHooks => /\ DOMAIN o = {"session_id", "hook_event_name", "tool_name", "tool_input"}
                                  /\ o["tool_name"] = raw /\ o["tool_input"] = in
          /\ o["session_id"] = session
      BY ClaudePayload
    <2> QED
      BY <1>1, <2>1 DEF A!ToolHooks
  <1> HIDE DEF o, k
  <1>3. A!str(o, <<"session_id", "sessionID">>) = session
    <2> DEFINE keys == <<"session_id", "sessionID">>
    <2>1. DOMAIN keys \in SUBSET Nat /\ 1 \in DOMAIN keys /\ keys[1] = "session_id"
          /\ \A j \in DOMAIN keys : keys[j] \in DOMAIN o => keys[j] = keys[1]
      BY <1>2
    <2>2. keys[1] \in DOMAIN o
      BY <1>2, <2>1
    <2> HIDE DEF keys
    <2>3. A!str(o, keys) = o[keys[1]]
      BY <2>1, <2>2, OnlyKey
    <2> QED
      BY <1>2, <2>1, <2>3 DEF keys
  <1>4. A!str(o, <<"tool_name", "tool">>) = raw
    <2> DEFINE keys == <<"tool_name", "tool">>
    <2>1. DOMAIN keys \in SUBSET Nat /\ 1 \in DOMAIN keys /\ keys[1] = "tool_name"
          /\ \A j \in DOMAIN keys : keys[j] \in DOMAIN o => keys[j] = keys[1]
      BY <1>2
    <2>2. keys[1] \in DOMAIN o
      BY <1>2, <2>1
    <2> HIDE DEF keys
    <2>3. A!str(o, keys) = o[keys[1]]
      BY <2>1, <2>2, OnlyKey
    <2> QED
      BY <1>2, <2>1, <2>3 DEF keys
  <1>5. A!str(o, <<"tool_input", "args">>) = in
    <2> DEFINE keys == <<"tool_input", "args">>
    <2>1. DOMAIN keys \in SUBSET Nat /\ 1 \in DOMAIN keys /\ keys[1] = "tool_input"
          /\ \A j \in DOMAIN keys : keys[j] \in DOMAIN o => keys[j] = keys[1]
      BY <1>2
    <2>2. keys[1] \in DOMAIN o
      BY <1>2, <2>1
    <2> HIDE DEF keys
    <2>3. A!str(o, keys) = o[keys[1]]
      BY <2>1, <2>2, OnlyKey
    <2> QED
      BY <1>2, <2>1, <2>3 DEF keys
  <1>6. A!kindOf("opencode", o, k) = k /\ k # None /\ k \in A!EVENT_KINDS
    <2>1. k \in A!EVENT_KINDS
      BY <1>1 DEF A!EVENT_KINDS
    <2>2. k # None
      BY <2>1, CallAssumption
    <2> QED
      BY <2>1, <2>2 DEF A!kindOf, A!argvKind
  <1>7. A!parse("opencode", o, k) = p
    <2> HIDE DEF p
    <2> QED
      BY <1>6 DEF A!parse, p
  <1>8. p = [event |-> k, sessionId |-> session, rawTool |-> raw,
             tool |-> A!canonicalTool("opencode", raw), command |-> A!str(in, <<"command">>),
             filePath |-> A!str(in, <<"filePath", "file_path", "path">>), prompt |-> None]
    <2>1. A!obj(o, <<"tool_input", "args">>) = in
      BY <1>5, Zenon DEF A!obj
    <2>2. A!orElse(session, "unknown") = session
      BY DEF A!orElse
    <2> QED
      BY <1>3, <1>4, <2>1, <2>2, Zenon DEF A!parseOpenCode, A!event
  <1> HIDE DEF p
  <1>9. e = IF p # None /\ p.event = "pre_tool" /\ k \in A!EVENT_KINDS THEN [p EXCEPT !.event = k] ELSE p
    BY <1>7, Zenon DEF A!receive
  <1>10. [p EXCEPT !.event = k] = p
    BY <1>8
  <1>11. e = p
    BY <1>9, <1>10
  <1> HIDE DEF e
  <1> QED
    BY <1>1, <1>8, <1>11 DEF Arrives, carried, e, k, o

\* What is in Copilot's payload, and what of it arrives.
LEMMA CopilotArrives ==
  ASSUME NEW h \in DOMAIN A!hooksOf("copilot"),
         NEW session, session # None, NEW raw, raw # None, NEW in, in # None, NEW prompt
  PROVE  LET k == A!hooksOf("copilot")[h]
             e == carried("copilot", h, session, raw, in, prompt)
         IN  /\ Arrives("copilot", e, k, session, raw, prompt)
             /\ k = "pre_tool" => /\ e.command = A!str(in, <<"command", "cmd">>)
                                  /\ e.filePath = A!str(in, <<"path", "file_path", "filePath">>)
  <1> DEFINE k == A!hooksOf("copilot")[h]
             o == A!sent("copilot", h, session, [rawTool |-> raw, input |-> in], prompt)
             e == A!receive("copilot", o, k)
             p == A!parseCopilot(k, o)
             who == [sessionId |-> session]
             tool == [toolName |-> raw, toolArgs |-> in]
             said == [prompt |-> prompt]
  <1>1. k \in A!EVENT_KINDS /\ k # None
    BY KindsOfHooks DEF A!AGENT_IDS
  <1>2. h \notin A!FlatHooks
    BY HooksOf DEF A!FlatHooks, A!COPILOT_EVENTS
  <1>3. o = CASE k \in A!ToolHooks -> A!with(who, tool)
              [] k = "user_prompt" -> A!with(who, said)
              [] OTHER -> who
    <2>1. "copilot" # "cursor"
      OBVIOUS
    <2> QED
      BY <1>2, <2>1, Zenon DEF A!sent
  <1> HIDE DEF o, k
  <1>4. /\ "sessionId" \in DOMAIN o /\ DOMAIN o \subseteq {"sessionId", "toolName", "toolArgs", "prompt"}
        /\ o["sessionId"] = session
        /\ k = "pre_tool" => /\ DOMAIN o = {"sessionId", "toolName", "toolArgs"}
                             /\ o["toolName"] = raw /\ o["toolArgs"] = in
        /\ k = "user_prompt" => "prompt" \in DOMAIN o /\ o["prompt"] = prompt
    <2>1. CASE k \in A!ToolHooks
      <3>1. o = A!with(who, tool) /\ k # "user_prompt"
        BY <1>3, <2>1 DEF A!ToolHooks
      <3> QED
        BY <3>1 DEF A!with
    <2>2. CASE k = "user_prompt"
      <3>1. o = A!with(who, said) /\ k # "pre_tool"
        BY <1>3, <2>2 DEF A!ToolHooks
      <3> QED
        BY <3>1 DEF A!with
    <2>3. CASE k \notin A!ToolHooks /\ k # "user_prompt"
      <3>1. o = who /\ k # "pre_tool" /\ k # "user_prompt"
        BY <1>3, <2>3 DEF A!ToolHooks
      <3> QED
        BY <3>1
    <2> QED
      BY <2>1, <2>2, <2>3
  <1>5. A!str(o, <<"sessionId", "session_id">>) = session
    <2> DEFINE keys == <<"sessionId", "session_id">>
    <2>1. DOMAIN keys \in SUBSET Nat /\ 1 \in DOMAIN keys /\ keys[1] = "sessionId"
          /\ \A j \in DOMAIN keys : keys[j] \in DOMAIN o => keys[j] = keys[1]
      BY <1>4
    <2>2. keys[1] \in DOMAIN o
      BY <1>4, <2>1
    <2> HIDE DEF keys
    <2>3. A!str(o, keys) = o[keys[1]]
      BY <2>1, <2>2, OnlyKey
    <2> QED
      BY <1>4, <2>1, <2>3 DEF keys
  <1>6. A!kindOf("copilot", o, k) = k
    <2>1. A!str(o, <<"hookEventName", "hook_event_name">>) = None
      <3> DEFINE keys == <<"hookEventName", "hook_event_name">>
      <3>1. \A j \in DOMAIN keys : keys[j] \notin DOMAIN o
        BY <1>4
      <3> HIDE DEF keys
      <3>2. A!str(o, keys) = None
        BY <3>1, NoKey
      <3> QED
        BY <3>2 DEF keys
    <2>2. A!named(A!COPILOT_EVENTS, None) = None
      BY CallAssumption DEF A!named
    <2> QED
      BY <1>1, <2>1, <2>2 DEF A!kindOf, A!argvKind, A!orElse
  <1>7. A!parse("copilot", o, k) = p
    <2> HIDE DEF p
    <2> QED
      BY <1>1, <1>6 DEF A!parse, p
  <1> DEFINE args == A!obj(o, <<"toolArgs", "tool_input", "arguments">>)
             name == A!str(o, <<"toolName", "tool_name">>)
  <1>8. p = [event |-> k, sessionId |-> session, rawTool |-> name,
             tool |-> IF name = None THEN None ELSE A!canonicalTool("copilot", name),
             command |-> A!str(args, <<"command", "cmd">>),
             filePath |-> A!str(args, <<"path", "file_path", "filePath">>),
             prompt |-> A!str(o, <<"prompt", "userPrompt">>)]
    <2>1. A!orElse(session, "unknown") = session
      BY DEF A!orElse
    <2> QED
      BY <1>5, <2>1, Zenon DEF A!parseCopilot, A!event
  <1> HIDE DEF p, args, name
  <1>9. e = IF p # None /\ p.event = "pre_tool" /\ k \in A!EVENT_KINDS THEN [p EXCEPT !.event = k] ELSE p
    BY <1>7, Zenon DEF A!receive
  <1>10. [p EXCEPT !.event = k] = p
    BY <1>8
  <1>11. e = p
    BY <1>9, <1>10
  <1>12. ASSUME k = "pre_tool" PROVE name = raw /\ args = in
    <2> DEFINE names == <<"toolName", "tool_name">>
               inputs == <<"toolArgs", "tool_input", "arguments">>
    <2>1. DOMAIN names \in SUBSET Nat /\ 1 \in DOMAIN names /\ names[1] = "toolName"
          /\ \A j \in DOMAIN names : names[j] \in DOMAIN o => names[j] = names[1]
      BY <1>4
    <2>2. DOMAIN inputs \in SUBSET Nat /\ 1 \in DOMAIN inputs /\ inputs[1] = "toolArgs"
          /\ \A j \in DOMAIN inputs : inputs[j] \in DOMAIN o => inputs[j] = inputs[1]
      BY <1>4, <1>12
    <2>3. names[1] \in DOMAIN o /\ inputs[1] \in DOMAIN o
      BY <1>4, <1>12, <2>1, <2>2
    <2> HIDE DEF names, inputs
    <2>4. A!str(o, names) = o[names[1]] /\ A!str(o, inputs) = o[inputs[1]]
      BY <2>1, <2>2, <2>3, OnlyKey
    <2>5. A!str(o, names) = raw /\ A!str(o, inputs) = in
      BY <1>4, <1>12, <2>1, <2>2, <2>4
    <2> QED
      BY <2>5 DEF A!obj, args, name, names, inputs
  <1>13. ASSUME k = "user_prompt" PROVE p.prompt = prompt
    <2> DEFINE keys == <<"prompt", "userPrompt">>
    <2>1. DOMAIN keys \in SUBSET Nat /\ 1 \in DOMAIN keys /\ keys[1] = "prompt"
          /\ \A j \in DOMAIN keys : keys[j] \in DOMAIN o => keys[j] = keys[1]
      BY <1>4
    <2>2. keys[1] \in DOMAIN o /\ o[keys[1]] = prompt
      BY <1>4, <1>13, <2>1
    <2> HIDE DEF keys
    <2>3. A!str(o, keys) = o[keys[1]]
      BY <2>1, <2>2, OnlyKey
    <2> QED
      BY <1>8, <2>2, <2>3 DEF keys
  <1> HIDE DEF e
  <1> QED
    BY <1>8, <1>11, <1>12, <1>13 DEF Arrives, carried, e, k, o

\* An input with one key.
under(key, target) == [x \in {key} |-> target]

\* What Cursor's hook h brings as the event e of kind k.
CursorSays(e, k, h, session, prompt, key, target) ==
  /\ e.event = k /\ e.sessionId = session
  /\ k = "user_prompt" => e.prompt = prompt
  /\ h = "beforeShellExecution" /\ key = "command" => e.tool = "bash" /\ e.command = target
  /\ h = "beforeReadFile" /\ key = "file_path" => e.tool = "read" /\ e.filePath = target

\* Cursor's hooks bring the session and the prompt; the shell hook the command, and the
\* read hook the file.
LEMMA CursorArrives ==
  ASSUME NEW h \in DOMAIN A!hooksOf("cursor"), NEW session, session # None, NEW raw, NEW prompt,
         NEW key \in {"command", "file_path"}, NEW target, target # None
  PROVE  CursorSays(carried("cursor", h, session, raw, under(key, target), prompt),
                    A!hooksOf("cursor")[h], h, session, prompt, key, target)
  <1> DEFINE k == A!hooksOf("cursor")[h]
             in == under(key, target)
             o == A!sent("cursor", h, session, [rawTool |-> raw, input |-> in], prompt)
             e == A!receive("cursor", o, k)
             p == A!parseCursor(k, o)
             who == [conversation_id |-> session, hook_event_name |-> h]
             tool == IF h \in A!FlatHooks THEN in ELSE [tool_name |-> raw, tool_input |-> in]
             said == [prompt |-> prompt]
  <1>in. DOMAIN in = {key} /\ in[key] = target
    BY DEF under
  <1>1. k \in A!EVENT_KINDS /\ k # None
    BY KindsOfHooks DEF A!AGENT_IDS
  <1>2. h \in A!FlatHooks => k = "pre_tool"
    BY HooksOf DEF A!FlatHooks, A!CURSOR_EVENTS
  <1>3. o = CASE k \in A!ToolHooks -> A!with(who, tool)
              [] k = "user_prompt" -> A!with(who, said)
              [] OTHER -> who
    <2>1. "copilot" # "cursor"
      OBVIOUS
    <2> QED
      BY <2>1, Zenon DEF A!sent
  <1>4. A!kindOf("cursor", o, k) = k
    <2>1. A!str(o, <<"hook_event_name">>) = h => A!named(A!CURSOR_EVENTS, A!str(o, <<"hook_event_name">>)) = k
      BY HooksOf DEF A!named
    <2>2. "hook_event_name" \in DOMAIN o /\ o["hook_event_name"] = h
      <3> HIDE DEF o, k, tool
      <3>1. CASE k \in A!ToolHooks
        <4>1. o = A!with(who, tool)
          BY <1>3, <3>1 DEF A!ToolHooks
        <4> QED
          BY <4>1 DEF A!with
      <3>2. CASE k = "user_prompt"
        <4>1. o = A!with(who, said)
          BY <1>3, <3>2 DEF A!ToolHooks
        <4> QED
          BY <4>1 DEF A!with
      <3>3. CASE k \notin A!ToolHooks /\ k # "user_prompt"
        BY <1>3, <3>3
      <3> QED
        BY <3>1, <3>2, <3>3
    <2> HIDE DEF o, k
    <2> DEFINE keys == <<"hook_event_name">>
    <2>3. DOMAIN keys \in SUBSET Nat /\ 1 \in DOMAIN keys /\ keys[1] = "hook_event_name"
          /\ \A j \in DOMAIN keys : keys[j] \in DOMAIN o => keys[j] = keys[1]
      OBVIOUS
    <2>4. keys[1] \in DOMAIN o
      BY <2>2, <2>3
    <2> HIDE DEF keys
    <2>5. A!str(o, keys) = o[keys[1]]
      BY <2>3, <2>4, OnlyKey
    <2>6. A!str(o, <<"hook_event_name">>) = h
      BY <2>2, <2>3, <2>5 DEF keys
    <2> QED
      BY <1>1, <2>1, <2>6 DEF A!kindOf, A!orElse
  <1> HIDE DEF o, k
  <1>5. A!parse("cursor", o, k) = p
    <2> HIDE DEF p
    <2> QED
      BY <1>1, <1>4 DEF A!parse, p
  <1>6. /\ "conversation_id" \in DOMAIN o /\ o["conversation_id"] = session
        /\ "session_id" \notin DOMAIN o /\ "text" \notin DOMAIN o
        /\ k = "user_prompt" => "prompt" \in DOMAIN o /\ o["prompt"] = prompt
        /\ h \in A!FlatHooks => /\ DOMAIN o = {"conversation_id", "hook_event_name", key}
                                /\ o[key] = target
        /\ "hook_event_name" \in DOMAIN o /\ o["hook_event_name"] = h
    <2>1. CASE k \in A!ToolHooks /\ h \in A!FlatHooks
      <3>1. o = A!with(who, in) /\ k # "user_prompt"
        BY <1>3, <2>1 DEF A!ToolHooks
      <3> QED
        BY <1>in, <2>1, <3>1 DEF A!with
    <2>2. CASE k \in A!ToolHooks /\ h \notin A!FlatHooks
      <3>1. o = A!with(who, [tool_name |-> raw, tool_input |-> in]) /\ k # "user_prompt"
        BY <1>3, <2>2 DEF A!ToolHooks
      <3> QED
        BY <2>2, <3>1 DEF A!with
    <2>3. CASE k = "user_prompt"
      <3>1. o = A!with(who, said) /\ h \notin A!FlatHooks
        BY <1>2, <1>3, <2>3 DEF A!ToolHooks
      <3> QED
        BY <3>1 DEF A!with
    <2>4. CASE k \notin A!ToolHooks /\ k # "user_prompt"
      <3>1. o = who /\ h \notin A!FlatHooks
        BY <1>2, <1>3, <2>4 DEF A!ToolHooks
      <3> QED
        BY <2>4, <3>1
    <2> QED
      BY <2>1, <2>2, <2>3, <2>4
  <1>7. A!str(o, <<"conversation_id", "session_id">>) = session
    <2> DEFINE keys == <<"conversation_id", "session_id">>
    <2>1. DOMAIN keys \in SUBSET Nat /\ 1 \in DOMAIN keys /\ keys[1] = "conversation_id"
          /\ \A j \in DOMAIN keys : keys[j] \in DOMAIN o => keys[j] = keys[1]
      BY <1>6
    <2>2. keys[1] \in DOMAIN o
      BY <1>6, <2>1
    <2> HIDE DEF keys
    <2>3. A!str(o, keys) = o[keys[1]]
      BY <2>1, <2>2, OnlyKey
    <2> QED
      BY <1>6, <2>1, <2>3 DEF keys
  <1>8. \A name : /\ name \in DOMAIN o => A!str(o, <<name>>) = o[name]
                  /\ name \notin DOMAIN o => A!str(o, <<name>>) = None
    <2> TAKE name
    <2> DEFINE keys == <<name>>
    <2>1. DOMAIN keys \in SUBSET Nat /\ 1 \in DOMAIN keys /\ keys[1] = name
          /\ \A j \in DOMAIN keys : keys[j] = name
      OBVIOUS
    <2> HIDE DEF keys
    <2>2. name \in DOMAIN o => A!str(o, keys) = o[keys[1]]
      BY <2>1, OnlyKey
    <2>3. name \notin DOMAIN o => A!str(o, keys) = None
      BY <2>1, NoKey
    <2> QED
      BY <2>1, <2>2, <2>3 DEF keys
  <1> DEFINE command == A!str(o, <<"command">>)
             file == A!str(o, <<"file_path">>)
             name == A!str(o, <<"hook_event_name">>)
             own == A!str(o, <<"tool_name">>)
             said_ == A!str(o, <<"prompt", "text">>)
             plain == [event |-> k, sessionId |-> session, rawTool |-> own,
                       tool |-> IF own = None THEN None ELSE A!canonicalTool("cursor", own),
                       command |-> command, filePath |-> file,
                       prompt |-> said_]
  <1>9. p = IF command # None THEN [plain EXCEPT !.tool = "bash", !.rawTool = "shell"]
            ELSE IF own = None /\ file # None
                 THEN [plain EXCEPT !.tool = IF name = "beforeReadFile" THEN "read" ELSE "edit",
                                    !.rawTool = A!orElse(name, "file")]
            ELSE plain
    <2>1. A!orElse(session, "unknown") = session
      BY DEF A!orElse
    <2> QED
      BY <1>7, <2>1, Zenon DEF A!parseCursor, A!event
  <1>10. p.event = k /\ p.sessionId = session /\ p.command = command /\ p.filePath = file
         /\ p.prompt = said_
    <2> HIDE DEF command, file, name, own, p, said_
    <2> QED
      BY <1>9
  <1>11. ASSUME h = "beforeShellExecution", key = "command" PROVE p.tool = "bash" /\ p.command = target
    <2>1. command = target
      BY <1>6, <1>8, <1>11 DEF A!FlatHooks
    <2> HIDE DEF command, file, name, own, p
    <2> QED
      BY <1>9, <2>1
  <1>12. ASSUME h = "beforeReadFile", key = "file_path" PROVE p.tool = "read" /\ p.filePath = target
    <2>1. command = None /\ own = None /\ file = target /\ name = "beforeReadFile"
      BY <1>6, <1>8, <1>12 DEF A!FlatHooks
    <2> HIDE DEF command, file, name, own, p
    <2> QED
      BY <1>9, <2>1
  <1>13. ASSUME k = "user_prompt" PROVE said_ = prompt
    <2> DEFINE keys == <<"prompt", "text">>
    <2>1. DOMAIN keys \in SUBSET Nat /\ 1 \in DOMAIN keys /\ keys[1] = "prompt"
          /\ \A j \in DOMAIN keys : keys[j] \in DOMAIN o => keys[j] = keys[1]
      BY <1>6
    <2>2. keys[1] \in DOMAIN o /\ o[keys[1]] = prompt
      BY <1>6, <1>13, <2>1
    <2> HIDE DEF keys
    <2>3. A!str(o, keys) = o[keys[1]]
      BY <2>1, <2>2, OnlyKey
    <2> QED
      BY <2>2, <2>3 DEF keys
  <1>14. e = p
    <2>1. e = IF p # None /\ p.event = "pre_tool" /\ k \in A!EVENT_KINDS THEN [p EXCEPT !.event = k] ELSE p
      BY <1>5, Zenon DEF A!receive
    <2>2. [p EXCEPT !.event = k] = p
      <3> HIDE DEF command, file, name, own, p, said_
      <3>1. CASE command # None
        <4>1. p = [event |-> k, sessionId |-> session, rawTool |-> "shell", tool |-> "bash",
                   command |-> command, filePath |-> file, prompt |-> said_]
          BY <1>9, <3>1
        <4> QED
          BY <4>1
      <3>2. CASE command = None /\ own = None /\ file # None
        <4>1. p = [event |-> k, sessionId |-> session, rawTool |-> A!orElse(name, "file"),
                   tool |-> IF name = "beforeReadFile" THEN "read" ELSE "edit",
                   command |-> command, filePath |-> file, prompt |-> said_]
          BY <1>9, <3>2
        <4> QED
          BY <4>1
      <3>3. CASE command = None /\ ~ (own = None /\ file # None)
        BY <1>9, <3>3
      <3> QED
        BY <3>1, <3>2, <3>3
    <2> HIDE DEF p
    <2> QED
      BY <2>1, <2>2
  <1> HIDE DEF e, p, said_, command, file, own, name
  <1> QED
    BY <1>10, <1>11, <1>12, <1>13, <1>14 DEF CursorSays, carried, e, k, o

\* No vendor has one name for two tools.
LEMMA OneToolAName ==
  ASSUME NEW agent \in A!AGENT_IDS, NEW t \in DOMAIN A!TABLE[agent],
         NEW raw \in A!TABLE[agent][t], raw \notin McpTools
  PROVE  A!canonicalTool(agent, raw) = t
  <1> DEFINE exact == {u \in DOMAIN A!TABLE[agent] : raw \in A!TABLE[agent][u]}
  <1>1. \A u \in DOMAIN A!TABLE[agent] : raw \in A!TABLE[agent][u] => u = t
    <2>1. CASE agent = "claude"
      BY <2>1 DEF A!TABLE
    <2>2. CASE agent = "gemini"
      BY <2>2 DEF A!TABLE
    <2>3. CASE agent = "cursor"
      BY <2>3 DEF A!TABLE
    <2>4. CASE agent = "copilot"
      BY <2>4 DEF A!TABLE
    <2>5. CASE agent = "codex"
      BY <2>5 DEF A!TABLE
    <2>6. CASE agent = "opencode"
      BY <2>6 DEF A!TABLE
    <2> QED
      BY <2>1, <2>2, <2>3, <2>4, <2>5, <2>6 DEF A!AGENT_IDS
  <1>2. exact = {t}
    BY <1>1
  <1>3. A!canonicalTool(agent, raw) = CHOOSE u \in exact : TRUE
    BY <1>2, Zenon DEF A!canonicalTool
  <1> QED
    BY <1>2, <1>3

\* A target under a key of the list is read, for no other key is there.
LEMMA KeyIsRead ==
  ASSUME NEW key, NEW target, NEW keys, DOMAIN keys \in SUBSET Nat,
         NEW i \in DOMAIN keys, keys[i] = key
  PROVE  A!str([x \in {key} |-> target], keys) = target
  <1> DEFINE o == [x \in {key} |-> target]
  <1>1. DOMAIN o = {key} /\ o[key] = target
    OBVIOUS
  <1> HIDE DEF o
  <1>2. \A j \in DOMAIN keys : keys[j] \in DOMAIN o => keys[j] = keys[i]
    BY <1>1
  <1>3. A!str(o, keys) = o[keys[i]]
    BY <1>1, <1>2, OnlyKey
  <1> QED
    BY <1>1, <1>3 DEF o

\* Wherever its own tools put it, the target is found.
LEMMA TargetIsFound ==
  ASSUME NEW target, NEW key
  PROVE  LET in == [x \in {key} |-> target]
         IN  /\ key \in commonKeys => target \in {A!extractCommand(in), A!extractPath(in)}
             /\ key \in Keys["copilot"] =>
                  target \in {A!str(in, <<"command", "cmd">>), A!str(in, <<"path", "file_path", "filePath">>)}
             /\ key \in Keys["opencode"] =>
                  target \in {A!str(in, <<"command">>), A!str(in, <<"filePath", "file_path", "path">>)}
  <1> DEFINE in == [x \in {key} |-> target]
             reads(keys) == A!str(in, keys) = target
             commands == <<"command", "cmd", "script", "shell_command">>
             paths == <<"file_path", "filePath", "path", "absolute_path", "notebook_path",
                        "target_file", "file">>
             words == <<"command", "cmd">>
             files == <<"path", "file_path", "filePath">>
             word == <<"command">>
             places == <<"filePath", "file_path", "path">>
  <1>1. \A keys : DOMAIN keys \in SUBSET Nat /\ (\E i \in DOMAIN keys : keys[i] = key) => reads(keys)
    BY KeyIsRead
  <1>2. /\ DOMAIN commands \in SUBSET Nat /\ DOMAIN paths \in SUBSET Nat /\ DOMAIN words \in SUBSET Nat
        /\ DOMAIN files \in SUBSET Nat /\ DOMAIN word \in SUBSET Nat /\ DOMAIN places \in SUBSET Nat
    OBVIOUS
  <1>3. ASSUME key \in commonKeys PROVE reads(commands) \/ reads(paths)
    <2>1. (\E i \in DOMAIN commands : commands[i] = key) \/ (\E i \in DOMAIN paths : paths[i] = key)
      <3>1. /\ {1, 2, 3, 4} \subseteq DOMAIN commands /\ {1, 2, 3, 4, 5, 6, 7} \subseteq DOMAIN paths
        OBVIOUS
      <3>2. key \in {commands[1], commands[2], commands[3], commands[4], paths[1], paths[2],
                     paths[3], paths[4], paths[5], paths[6], paths[7]}
        BY <1>3 DEF commonKeys
      <3> HIDE DEF commands, paths
      <3> QED
        BY <3>1, <3>2
    <2> HIDE DEF commands, paths, reads
    <2> QED
      BY <1>1, <1>2, <2>1
  <1>4. ASSUME key \in Keys["copilot"] PROVE reads(words) \/ reads(files)
    <2>1. (\E i \in DOMAIN words : words[i] = key) \/ (\E i \in DOMAIN files : files[i] = key)
      <3>1. {1, 2} \subseteq DOMAIN words /\ {1, 2, 3} \subseteq DOMAIN files
        OBVIOUS
      <3>2. key \in {words[1], words[2], files[1], files[2], files[3]}
        BY <1>4 DEF Keys
      <3> HIDE DEF words, files
      <3> QED
        BY <3>1, <3>2
    <2> HIDE DEF words, files, reads
    <2> QED
      BY <1>1, <1>2, <2>1
  <1>5. ASSUME key \in Keys["opencode"] PROVE reads(word) \/ reads(places)
    <2>1. (\E i \in DOMAIN word : word[i] = key) \/ (\E i \in DOMAIN places : places[i] = key)
      <3>1. {1} \subseteq DOMAIN word /\ {1, 2, 3} \subseteq DOMAIN places
        OBVIOUS
      <3>2. key \in {word[1], places[1], places[2], places[3]}
        BY <1>5 DEF Keys
      <3> HIDE DEF word, places
      <3> QED
        BY <3>1, <3>2
    <2> HIDE DEF word, places, reads
    <2> QED
      BY <1>1, <1>2, <2>1
  <1> HIDE DEF in
  <1> QED
    BY <1>3, <1>4, <1>5, Zenon DEF in, A!extractCommand, A!extractPath

\* Each hook of its agent brings a call as the kind it was registered for, and one that
\* runs before the tool brings the tool and the target.
LEMMA CallIsUnderstood ==
  ASSUME NEW call \in OwnCalls
  PROVE  LET agent == call.agent
             brought == Understood[call]
         IN  /\ \A h \in DOMAIN A!hooksOf(agent) :
                  /\ brought[h].event = A!hooksOf(agent)[h] /\ brought[h].sessionId = call.session
                  /\ A!hooksOf(agent)[h] = "user_prompt" => brought[h].prompt = call.prompt
             /\ \E h \in A!fires(agent, toolOf(call)) :
                  /\ brought[h].tool = toolOf(call)
                  /\ toolOf(call) # "mcp" => call.target \in {brought[h].command, brought[h].filePath}
  <1> DEFINE agent == call.agent
             brought == Understood[call]
             tool == toolOf(call)
             hooks == A!hooksOf(agent)
             e(h) == carried(agent, h, call.session, call.rawTool, input(call), call.prompt)
             asRegistered == \A h \in DOMAIN hooks :
                               /\ brought[h].event = hooks[h] /\ brought[h].sessionId = call.session
                               /\ hooks[h] = "user_prompt" => brought[h].prompt = call.prompt
             understood(h) == /\ brought[h].tool = tool
                              /\ tool # "mcp" => call.target \in {brought[h].command, brought[h].filePath}
  <1>1. \A h \in DOMAIN hooks : brought[h] = e(h)
    BY Zenon DEF Understood, carried
  <1>2. /\ agent \in A!AGENT_IDS /\ call.session # None /\ call.rawTool # None
        /\ call.target # None /\ input(call) # None
        /\ tool # "mcp" => call.key \in Keys[agent]
        /\ agent = "cursor" => <<tool, call.key>> \in {<<"bash", "command">>, <<"read", "file_path">>}
    BY CallAssumption
  <1>3. input(call) = [x \in {call.key} |-> call.target]
    BY Zenon DEF input
  <1>4. tool = A!canonicalTool(agent, call.rawTool)
    BY Zenon DEF toolOf
  <1> HIDE DEF brought, tool
  <1>5. CASE agent \in {"claude", "gemini", "codex"}
    <2>1. \A h \in DOMAIN hooks :
            /\ Arrives(agent, e(h), hooks[h], call.session, call.rawTool, call.prompt)
            /\ hooks[h] = "pre_tool" => e(h).command = A!extractCommand(input(call))
                                        /\ e(h).filePath = A!extractPath(input(call))
      <3> TAKE h \in DOMAIN hooks
      <3> QED
        BY <1>2, <1>5, ClaudeShapedArrives
    <2>2. asRegistered
      <3> HIDE DEF e, hooks
      <3>1. ASSUME NEW h \in DOMAIN hooks
            PROVE  /\ brought[h].event = hooks[h] /\ brought[h].sessionId = call.session
                   /\ hooks[h] = "user_prompt" => brought[h].prompt = call.prompt
        BY <1>1, <2>1 DEF Arrives
      <3> QED
        BY <3>1, Zenon
    <2>3. \E h \in A!fires(agent, tool) : understood(h)
      <3>1. \E h \in DOMAIN hooks : hooks[h] = "pre_tool" /\ h \in A!fires(agent, tool)
        <4>1. CASE agent \in {"claude", "codex"}
          BY <4>1, HooksOf DEF A!fires, A!EVENT_MAP, A!CODEX_EVENTS
        <4>2. CASE agent = "gemini"
          BY <4>2, HooksOf DEF A!fires, A!GEMINI_EVENTS
        <4> QED
          BY <1>5, <4>1, <4>2
      <3>2. PICK h \in DOMAIN hooks : hooks[h] = "pre_tool" /\ h \in A!fires(agent, tool)
        BY <3>1
      <3> HIDE DEF e, hooks
      <3>3. brought[h].tool = tool /\ brought[h].command = A!extractCommand(input(call))
            /\ brought[h].filePath = A!extractPath(input(call))
        BY <1>1, <1>4, <2>1, <3>2, Zenon DEF Arrives
      <3>4. tool # "mcp" => call.target \in {A!extractCommand(input(call)), A!extractPath(input(call))}
        <4>1. Keys[agent] = commonKeys
          BY <1>5 DEF Keys
        <4> HIDE DEF agent
        <4> QED
          BY <1>2, <1>3, <4>1, TargetIsFound, Zenon
      <3> QED
        BY <3>2, <3>3, <3>4, Zenon
    <2> QED
      BY <2>2, <2>3, Zenon DEF brought, tool
  <1>6. CASE agent = "opencode"
    <2>1. \A h \in DOMAIN hooks :
            /\ Arrives(agent, e(h), hooks[h], call.session, call.rawTool, call.prompt)
            /\ e(h).command = A!str(input(call), <<"command">>)
            /\ e(h).filePath = A!str(input(call), <<"filePath", "file_path", "path">>)
      <3> TAKE h \in DOMAIN hooks
      <3> QED
        BY <1>2, <1>6, OpenCodeArrives
    <2>2. asRegistered
      <3> HIDE DEF e, hooks
      <3>1. ASSUME NEW h \in DOMAIN hooks
            PROVE  /\ brought[h].event = hooks[h] /\ brought[h].sessionId = call.session
                   /\ hooks[h] = "user_prompt" => brought[h].prompt = call.prompt
        BY <1>1, <2>1 DEF Arrives
      <3> QED
        BY <3>1, Zenon
    <2>3. \E h \in A!fires(agent, tool) : understood(h)
      <3>1. \E h \in DOMAIN hooks : hooks[h] = "pre_tool" /\ h \in A!fires(agent, tool)
        BY <1>6, HooksOf DEF A!fires
      <3>2. PICK h \in DOMAIN hooks : hooks[h] = "pre_tool" /\ h \in A!fires(agent, tool)
        BY <3>1
      <3> HIDE DEF e, hooks
      <3>3. brought[h].tool = tool /\ brought[h].command = A!str(input(call), <<"command">>)
            /\ brought[h].filePath = A!str(input(call), <<"filePath", "file_path", "path">>)
        BY <1>1, <1>4, <2>1, <3>2, Zenon DEF Arrives
      <3>4. tool # "mcp" => call.target \in {A!str(input(call), <<"command">>),
                                             A!str(input(call), <<"filePath", "file_path", "path">>)}
        BY <1>2, <1>3, <1>6, TargetIsFound, Zenon
      <3> QED
        BY <3>2, <3>3, <3>4, Zenon
    <2> QED
      BY <2>2, <2>3, Zenon DEF brought, tool
  <1>7. CASE agent = "copilot"
    <2>1. \A h \in DOMAIN hooks :
            /\ Arrives(agent, e(h), hooks[h], call.session, call.rawTool, call.prompt)
            /\ hooks[h] = "pre_tool" =>
                 /\ e(h).command = A!str(input(call), <<"command", "cmd">>)
                 /\ e(h).filePath = A!str(input(call), <<"path", "file_path", "filePath">>)
      <3> TAKE h \in DOMAIN hooks
      <3> QED
        BY <1>2, <1>7, CopilotArrives
    <2>2. asRegistered
      <3> HIDE DEF e, hooks
      <3>1. ASSUME NEW h \in DOMAIN hooks
            PROVE  /\ brought[h].event = hooks[h] /\ brought[h].sessionId = call.session
                   /\ hooks[h] = "user_prompt" => brought[h].prompt = call.prompt
        BY <1>1, <2>1 DEF Arrives
      <3> QED
        BY <3>1, Zenon
    <2>3. \E h \in A!fires(agent, tool) : understood(h)
      <3>1. \E h \in DOMAIN hooks : hooks[h] = "pre_tool" /\ h \in A!fires(agent, tool)
        <4>1. "preToolUse" \in DOMAIN hooks /\ hooks["preToolUse"] = "pre_tool"
          BY <1>7 DEF A!hooksOf, A!planFor, A!claudeShaped
        <4> HIDE DEF hooks
        <4> QED
          BY <4>1 DEF A!fires, hooks
      <3>2. PICK h \in DOMAIN hooks : hooks[h] = "pre_tool" /\ h \in A!fires(agent, tool)
        BY <3>1
      <3> HIDE DEF e, hooks
      <3>3. brought[h].tool = tool /\ brought[h].command = A!str(input(call), <<"command", "cmd">>)
            /\ brought[h].filePath = A!str(input(call), <<"path", "file_path", "filePath">>)
        BY <1>1, <1>4, <2>1, <3>2, Zenon DEF Arrives
      <3>4. tool # "mcp" => call.target \in {A!str(input(call), <<"command", "cmd">>),
                                             A!str(input(call), <<"path", "file_path", "filePath">>)}
        BY <1>2, <1>3, <1>7, TargetIsFound, Zenon
      <3> QED
        BY <3>2, <3>3, <3>4, Zenon
    <2> QED
      BY <2>2, <2>3, Zenon DEF brought, tool
  <1>8. CASE agent = "cursor"
    <2>1. (tool = "bash" /\ call.key = "command") \/ (tool = "read" /\ call.key = "file_path")
      BY <1>2, <1>8
    <2>2. \A h \in DOMAIN hooks :
            /\ e(h).event = hooks[h] /\ e(h).sessionId = call.session
            /\ hooks[h] = "user_prompt" => e(h).prompt = call.prompt
            /\ h = "beforeShellExecution" /\ call.key = "command" =>
                 e(h).tool = "bash" /\ e(h).command = call.target
            /\ h = "beforeReadFile" /\ call.key = "file_path" =>
                 e(h).tool = "read" /\ e(h).filePath = call.target
      <3>1. call.key \in {"command", "file_path"}
        BY <2>1
      <3> TAKE h \in DOMAIN hooks
      <3>2. input(call) = under(call.key, call.target)
        BY <1>3, Zenon DEF under
      <3> DEFINE c == carried("cursor", h, call.session, call.rawTool, under(call.key, call.target), call.prompt)
      <3>3. e(h) = c
        BY <1>8, <3>2
      <3>4. CursorSays(c, A!hooksOf("cursor")[h], h, call.session, call.prompt, call.key, call.target)
        <4>1. h \in DOMAIN A!hooksOf("cursor")
          BY <1>8
        <4> QED
          BY <1>2, <3>1, <4>1, CursorArrives
      <3> HIDE DEF c, e
      <3> QED
        BY <1>8, <3>3, <3>4 DEF CursorSays
    <2>3. asRegistered
      <3> HIDE DEF e, hooks
      <3> QED
        BY <1>1, <2>2, Zenon
    <2>4. \E h \in A!fires(agent, tool) : understood(h)
      <3>1. /\ "beforeShellExecution" \in DOMAIN hooks /\ hooks["beforeShellExecution"] = "pre_tool"
            /\ "beforeReadFile" \in DOMAIN hooks /\ hooks["beforeReadFile"] = "pre_tool"
        BY <1>8, HooksOf DEF A!CURSOR_EVENTS
      <3>2. CASE tool = "bash" /\ call.key = "command"
        <4> DEFINE h == "beforeShellExecution"
        <4>1. h \in A!fires(agent, tool)
          BY <3>1, <3>2 DEF A!fires
        <4>2. brought[h].tool = tool /\ brought[h].command = call.target
          <5> HIDE DEF e, hooks
          <5> QED
            BY <1>1, <2>2, <3>1, <3>2, Zenon
        <4> QED
          BY <4>1, <4>2
      <3>3. CASE tool = "read" /\ call.key = "file_path"
        <4> DEFINE h == "beforeReadFile"
        <4>1. h \in A!fires(agent, tool)
          BY <3>1, <3>3 DEF A!fires
        <4>2. brought[h].tool = tool /\ brought[h].filePath = call.target
          <5> HIDE DEF e, hooks
          <5> QED
            BY <1>1, <2>2, <3>1, <3>3, Zenon
        <4> QED
          BY <4>1, <4>2
      <3> QED
        BY <2>1, <3>2, <3>3, Zenon
    <2> QED
      BY <2>3, <2>4, Zenon DEF brought, tool
  <1>9. agent \in {"claude", "gemini", "codex"} \/ agent = "opencode" \/ agent = "copilot" \/ agent = "cursor"
    BY <1>2 DEF A!AGENT_IDS
  <1> QED
    BY <1>5, <1>6, <1>7, <1>8, <1>9, Zenon DEF agent

\* Every agent's own calls reach the engine as what they are, and its answer reaches them.
THEOREM EveryAgentHears == Spec => []EveryAgentHearsTheVerdict
  <1>1. AnswerInv => EveryAgentHearsTheVerdict
    <2> SUFFICES ASSUME AnswerInv, NEW d \in Deliveries, reply[d] \in {"allow", "deny"},
                        NEW call \in OwnCalls
        PROVE LET agent      == call.agent
                  registered == A!hooksOf(agent)
                  brought    == Understood[call]
                  word(h)    == A!hears(agent, A!render(agent, verdict[d], brought[h].event))
              IN  /\ \A t \in DOMAIN A!TABLE[agent] :
                       call.rawTool \in A!TABLE[agent][t] \ McpTools => toolOf(call) = t
                  /\ \E h \in A!fires(agent, toolOf(call)) :
                       /\ brought[h].tool = toolOf(call)
                       /\ toolOf(call) # "mcp" => call.target \in {brought[h].command, brought[h].filePath}
                  /\ \A h \in DOMAIN registered :
                       /\ brought[h].event = registered[h] /\ brought[h].sessionId = call.session
                       /\ registered[h] = "user_prompt" => brought[h].prompt = call.prompt
                       /\ word(h) # "failed"
                       /\ word(h) = "deny" <=> reply[d] = "deny" /\ registered[h] = "pre_tool"
      BY Zenon DEF EveryAgentHearsTheVerdict
    <2> DEFINE agent      == call.agent
               registered == A!hooksOf(agent)
               brought    == Understood[call]
               word(h)    == A!hears(agent, A!render(agent, verdict[d], brought[h].event))
    <2>1. agent \in A!AGENT_IDS
      BY CallAssumption
    <2>2. \A t \in DOMAIN A!TABLE[agent] :
            call.rawTool \in A!TABLE[agent][t] \ McpTools => toolOf(call) = t
      BY <2>1, OneToolAName DEF toolOf
    <2>3. /\ \A h \in DOMAIN registered :
               /\ brought[h].event = registered[h] /\ brought[h].sessionId = call.session
               /\ registered[h] = "user_prompt" => brought[h].prompt = call.prompt
          /\ \E h \in A!fires(agent, toolOf(call)) :
               /\ brought[h].tool = toolOf(call)
               /\ toolOf(call) # "mcp" => call.target \in {brought[h].command, brought[h].filePath}
      BY CallIsUnderstood, Zenon
    <2>4. AnswerIsHeard
      BY Dialects, VerdictAssumption DEF AnswerInv, AnswerIsHeard, Told
    <2>5. ASSUME NEW h \in DOMAIN registered
          PROVE  word(h) # "failed" /\ (word(h) = "deny" <=> reply[d] = "deny" /\ registered[h] = "pre_tool")
      <3>1. registered[h] \in A!EVENT_KINDS
        BY <2>1, KindsOfHooks
      <3>2. word(h) = A!hears(agent, A!render(agent, verdict[d], registered[h]))
        BY <2>3, Zenon
      <3> HIDE DEF agent, registered, word
      <3> QED
        BY <2>1, <2>4, <3>1, <3>2, Zenon DEF AnswerIsHeard
    <2> HIDE DEF registered, brought, word
    <2> QED
      BY <2>2, <2>3, <2>5, Zenon DEF registered, brought, word
  <1> QED
    BY <1>1, OutsideInvariant, PTL
=============================================================================
