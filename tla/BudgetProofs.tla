---------------------------- MODULE BudgetProofs ----------------------------
(***************************************************************************)
(* The two components that count first and act later, each by processes    *)
(* that overlap.  The judge's two budgets, for any number of judges,       *)
(* sessions and prices: BudgetInv is inductive, and both overruns are      *)
(* bounded by the judges that were between a check and its record at one   *)
(* time.  The triage bot, for any threads, people, texts and answers:      *)
(* BotInv is inductive, nobody is answered twice, and the day's cap is     *)
(* passed by the other runs in progress at most.  Of what it answers: for  *)
(* any documents and weights, a question gets the passage that matches it  *)
(* best.                                                                   *)
(***************************************************************************)
EXTENDS JudgeBudget, TriageBot, FiniteSetTheorems, NaturalsInduction, WellFoundedInduction, TLAPS

USE DEF Steps, Go, provider, budget, results, peaks

\* Everything counted is a finite set, so that its cardinality is a number.
LEMMA Counting ==
  \A S \in SUBSET Judges :
    /\ IsFiniteSet(S) /\ Cardinality(S) \in Nat
    /\ \A T \in SUBSET S : Cardinality(T) \in Nat /\ Cardinality(T) <= Cardinality(S)
    /\ \A j \in Judges \ S : Cardinality(S \cup {j}) = Cardinality(S) + 1
    /\ \A j \in S : Cardinality(S \ {j}) = Cardinality(S) - 1 /\ Cardinality(S) > 0
<1> SUFFICES ASSUME NEW S \in SUBSET Judges
             PROVE  /\ IsFiniteSet(S) /\ Cardinality(S) \in Nat
                    /\ \A T \in SUBSET S :
                         Cardinality(T) \in Nat /\ Cardinality(T) <= Cardinality(S)
                    /\ \A j \in Judges \ S : Cardinality(S \cup {j}) = Cardinality(S) + 1
                    /\ \A j \in S : /\ Cardinality(S \ {j}) = Cardinality(S) - 1
                                    /\ Cardinality(S) > 0
  OBVIOUS
<1>1. IsFiniteSet(S) /\ Cardinality(S) \in Nat
  BY JudgesAssumption, FS_Subset, FS_CardinalityType
<1>2. ASSUME NEW T \in SUBSET S
      PROVE  Cardinality(T) \in Nat /\ Cardinality(T) <= Cardinality(S)
  BY <1>1, FS_Subset, FS_CardinalityType
<1>3. ASSUME NEW j \in Judges \ S PROVE Cardinality(S \cup {j}) = Cardinality(S) + 1
  BY <1>1, FS_AddElement
<1>4. ASSUME NEW j \in S
      PROVE  Cardinality(S \ {j}) = Cardinality(S) - 1 /\ Cardinality(S) > 0
  <2>1. Cardinality(S) # 0
    BY <1>1, FS_EmptySet
  <2>2. Cardinality(S \ {j}) = Cardinality(S) - 1
    BY <1>1, FS_RemoveElement, Zenon
  <2> QED
    BY <1>1, <2>1, <2>2
<1> QED
  BY <1>1, <1>2, <1>3, <1>4

\* The counted sets are sets of judges.
LEMMA Sets ==
  ASSUME TypeOK
  PROVE  /\ PastCeiling \in SUBSET Judges
         /\ \A s : PastCap(s) \in SUBSET Judges /\ Counted(s) \in SUBSET Judges
                   /\ RowsOf(s) \in SUBSET Judges
BY DEF TypeOK, PastCeiling, PastCap, Counted, RowsOf

\* The initial state satisfies the invariant.
LEMMA BudgetInit == Init => BudgetInv
<1> SUFFICES ASSUME Init PROVE BudgetInv
  OBVIOUS
<1>1. TypeOK
  BY CostAssumption DEF Init, TypeOK
<1>2. StageInv
  BY DEF Init, StageInv
<1>3. CapInv /\ CeilingInv
  BY DEF Init, CapInv, CeilingInv, PastCap, PastCeiling
<1>4. LedgerInv
  <2>1. \A s : RowsOf(s) = {} /\ Counted(s) = {}
    BY DEF Init, RowsOf, Counted
  <2>2. Cardinality({}) = 0 /\ \A s \in Sessions : calls[s] = 0
    BY FS_EmptySet DEF Init
  <2> QED
    BY <2>1, <2>2 DEF LedgerInv
<1> QED
  BY <1>1, <1>2, <1>3, <1>4 DEF BudgetInv

\* Every step keeps every variable in its type.
LEMMA BudgetType == TypeOK /\ StageInv /\ [Next]_vars => TypeOK'
<1> SUFFICES ASSUME TypeOK, StageInv, [Next]_vars PROVE TypeOK'
  OBVIOUS
<1> USE DEF TypeOK, Sessions
<1>1. ASSUME NEW j \in Judges, dispatchJudge(j) PROVE TypeOK'
  BY <1>1 DEF dispatchJudge
<1>2. ASSUME NEW j \in Judges, dispatchNested(j) PROVE TypeOK'
  BY <1>2 DEF dispatchNested
<1>3. ASSUME NEW j \in Judges, readPayload(j) PROVE TypeOK'
  BY <1>3 DEF readPayload
<1>4. ASSUME NEW j \in Judges, discardPayload(j) PROVE TypeOK'
  BY <1>4 DEF discardPayload
<1>5. ASSUME NEW j \in Judges, checkCap(j) PROVE TypeOK'
  BY <1>5, Sets, Counting DEF checkCap, Larger
<1>6. ASSUME NEW j \in Judges, checkSpend(j) PROVE TypeOK'
  BY <1>6, Sets, Counting DEF checkSpend, Larger
<1>7. ASSUME NEW j \in Judges, callProvider(j) PROVE TypeOK'
  BY <1>7 DEF callProvider
<1>8. ASSUME NEW j \in Judges, answer(j) PROVE TypeOK'
  BY <1>8, CostAssumption DEF answer, StageInv
<1>9. ASSUME NEW j \in Judges, unavailable(j) PROVE TypeOK'
  BY <1>9 DEF unavailable
<1>10. ASSUME NEW j \in Judges, bump(j) PROVE TypeOK'
  BY <1>10 DEF bump
<1>11. ASSUME NEW j \in Judges, recordJudgeSpend(j) PROVE TypeOK'
  <2>1. cost[j] \in Nat /\ j \in answered
    BY <1>11, CostAssumption DEF recordJudgeSpend, StageInv
  <2> QED
    BY <1>11, <2>1 DEF recordJudgeSpend
<1>12. ASSUME NEW j \in Judges, parseJudgeJson(j) PROVE TypeOK'
  BY <1>12 DEF parseJudgeJson
<1>13. ASSUME NEW j \in Judges, recordJudgeFinding(j) PROVE TypeOK'
  BY <1>13 DEF recordJudgeFinding
<1>14. ASSUME NEW j \in Judges, countDrift(j) PROVE TypeOK'
  BY <1>14 DEF countDrift
<1>15. ASSUME NEW j \in Judges, Stop(j) PROVE TypeOK'
  BY <1>15 DEF Stop
<1>16. CASE UNCHANGED vars
  BY <1>16 DEF vars
<1> QED
  BY <1>1, <1>2, <1>3, <1>4, <1>5, <1>6, <1>7, <1>8, <1>9, <1>10, <1>11, <1>12,
     <1>13, <1>14, <1>15, <1>16 DEF Next, cmdJudgeRun, maybeJudge

\* Every step keeps what a judge's program counter says of its payload, its
\* prompt, its answer and its row.
LEMMA BudgetStage == TypeOK /\ StageInv /\ [Next]_vars => StageInv'
<1> SUFFICES ASSUME TypeOK, StageInv, [Next]_vars PROVE StageInv'
  OBVIOUS
<1> USE DEF TypeOK, StageInv
<1>1. ASSUME NEW j \in Judges, dispatchJudge(j) PROVE StageInv'
  BY <1>1 DEF dispatchJudge
<1>2. ASSUME NEW j \in Judges, dispatchNested(j) PROVE StageInv'
  BY <1>2 DEF dispatchNested
<1>3. ASSUME NEW j \in Judges, readPayload(j) PROVE StageInv'
  BY <1>3 DEF readPayload
<1>4. ASSUME NEW j \in Judges, discardPayload(j) PROVE StageInv'
  BY <1>4 DEF discardPayload
<1>5. ASSUME NEW j \in Judges, checkCap(j) PROVE StageInv'
  BY <1>5 DEF checkCap, mayJudge
<1>6. ASSUME NEW j \in Judges, checkSpend(j) PROVE StageInv'
  BY <1>6 DEF checkSpend
<1>7. ASSUME NEW j \in Judges, callProvider(j) PROVE StageInv'
  BY <1>7 DEF callProvider
<1>8. ASSUME NEW j \in Judges, answer(j) PROVE StageInv'
  BY <1>8 DEF answer
<1>9. ASSUME NEW j \in Judges, unavailable(j) PROVE StageInv'
  BY <1>9 DEF unavailable
<1>10. ASSUME NEW j \in Judges, bump(j) PROVE StageInv'
  BY <1>10 DEF bump
<1>11. ASSUME NEW j \in Judges, recordJudgeSpend(j) PROVE StageInv'
  BY <1>11 DEF recordJudgeSpend
<1>12. ASSUME NEW j \in Judges, parseJudgeJson(j) PROVE StageInv'
  BY <1>12 DEF parseJudgeJson
<1>13. ASSUME NEW j \in Judges, recordJudgeFinding(j) PROVE StageInv'
  BY <1>13 DEF recordJudgeFinding
<1>14. ASSUME NEW j \in Judges, countDrift(j) PROVE StageInv'
  BY <1>14 DEF countDrift
<1>15. ASSUME NEW j \in Judges, Stop(j) PROVE StageInv'
  BY <1>15 DEF Stop
<1>16. CASE UNCHANGED vars
  BY <1>16 DEF vars
<1> QED
  BY <1>1, <1>2, <1>3, <1>4, <1>5, <1>6, <1>7, <1>8, <1>9, <1>10, <1>11, <1>12,
     <1>13, <1>14, <1>15, <1>16 DEF Next, cmdJudgeRun, maybeJudge

\* A step that is neither a check of the cap nor a count moves no judge into
\* the stretch between them, and leaves the counter and the peak alone.
LEMMA CapQuiet ==
  ASSUME TypeOK, NEW j \in Judges, ~checkCap(j), ~bump(j),
         dispatchJudge(j) \/ dispatchNested(j) \/ cmdJudgeRun(j) \/ Stop(j)
  PROVE  calls' = calls /\ peak' = peak /\ \A s : PastCap(s)' \subseteq PastCap(s)
<1> USE DEF TypeOK, PastCap
<1>1. CASE dispatchJudge(j) \/ dispatchNested(j) \/ readPayload(j) \/ discardPayload(j)
  BY <1>1 DEF dispatchJudge, dispatchNested, readPayload, discardPayload
<1>2. CASE checkSpend(j) \/ callProvider(j) \/ answer(j) \/ unavailable(j)
  BY <1>2 DEF checkSpend, callProvider, answer, unavailable
<1>3. CASE recordJudgeSpend(j) \/ parseJudgeJson(j) \/ recordJudgeFinding(j)
           \/ countDrift(j) \/ Stop(j)
  BY <1>3 DEF recordJudgeSpend, parseJudgeJson, recordJudgeFinding, countDrift, Stop
<1> QED
  BY <1>1, <1>2, <1>3 DEF cmdJudgeRun, maybeJudge

\* Every step keeps the account of the calls of each session.
LEMMA BudgetCap == TypeOK /\ CapInv /\ [Next]_vars => CapInv'
<1> SUFFICES ASSUME TypeOK, CapInv, [Next]_vars, NEW s \in Sessions
             PROVE  \/ calls'[s] = 0 /\ PastCap(s)' = {}
                    \/ calls'[s] + Cardinality(PastCap(s)') <= Cap + peak'[s] - 1
  BY DEF CapInv
<1> USE BudgetAssumption
<1>0. /\ PastCap(s) \in SUBSET Judges /\ Cardinality(PastCap(s)) \in Nat
      /\ calls[s] \in Nat /\ peak[s] \in Nat
  BY Sets, Counting DEF TypeOK
<1>c. \/ calls[s] = 0 /\ PastCap(s) = {}
      \/ calls[s] + Cardinality(PastCap(s)) <= Cap + peak[s] - 1
  BY DEF CapInv
<1>1. ASSUME calls' = calls, peak' = peak, PastCap(s)' \subseteq PastCap(s)
      PROVE  \/ calls'[s] = 0 /\ PastCap(s)' = {}
             \/ calls'[s] + Cardinality(PastCap(s)') <= Cap + peak'[s] - 1
  <2>1. Cardinality(PastCap(s)') \in Nat
        /\ Cardinality(PastCap(s)') <= Cardinality(PastCap(s))
    BY <1>0, <1>1, Counting
  <2> QED
    BY <1>0, <1>c, <1>1, <2>1
<1>2. ASSUME NEW j \in Judges, checkCap(j)
      PROVE  \/ calls'[s] = 0 /\ PastCap(s)' = {}
             \/ calls'[s] + Cardinality(PastCap(s)') <= Cap + peak'[s] - 1
  <2>1. CASE mayJudge(j) /\ SessionOf[j] = s
    <3>1. /\ calls[s] < Cap /\ calls' = calls
          /\ peak'[s] = Larger(peak[s], Cardinality(PastCap(s)) + 1)
      BY <1>2, <2>1 DEF checkCap, mayJudge, TypeOK
    <3>2. j \in Judges \ PastCap(s) /\ PastCap(s)' = PastCap(s) \cup {j}
      BY <1>2, <2>1 DEF checkCap, TypeOK, PastCap
    <3>3. Cardinality(PastCap(s)') = Cardinality(PastCap(s)) + 1
      BY <1>0, <3>2, Counting
    <3>4. peak'[s] \in Nat /\ peak'[s] >= Cardinality(PastCap(s)) + 1
      BY <1>0, <3>1 DEF Larger
    <3> QED
      BY <1>0, <3>1, <3>3, <3>4
  <2>2. CASE ~mayJudge(j)
    <3>1. calls' = calls /\ peak' = peak /\ PastCap(s)' \subseteq PastCap(s)
      BY <1>2, <2>2 DEF checkCap, TypeOK, PastCap
    <3> QED
      BY <1>1, <3>1
  <2>3. CASE mayJudge(j) /\ SessionOf[j] # s
    <3>1. /\ calls' = calls /\ peak'[s] = peak[s] /\ PastCap(s)' = PastCap(s)
      BY <1>2, <2>3 DEF checkCap, TypeOK, PastCap
    <3> QED
      BY <1>c, <3>1
  <2> QED
    BY <2>1, <2>2, <2>3
<1>3. ASSUME NEW j \in Judges, bump(j)
      PROVE  \/ calls'[s] = 0 /\ PastCap(s)' = {}
             \/ calls'[s] + Cardinality(PastCap(s)') <= Cap + peak'[s] - 1
  <2>1. CASE SessionOf[j] = s
    <3>1. /\ calls'[s] = calls[s] + 1 /\ peak' = peak
          /\ j \in PastCap(s) /\ PastCap(s)' = PastCap(s) \ {j}
      BY <1>3, <2>1 DEF bump, TypeOK, PastCap
    <3>2. Cardinality(PastCap(s)') = Cardinality(PastCap(s)) - 1
      BY <1>0, <3>1, Counting
    <3> QED
      BY <1>0, <1>c, <3>1, <3>2
  <2>2. CASE SessionOf[j] # s
    <3>1. calls'[s] = calls[s] /\ peak' = peak /\ PastCap(s)' = PastCap(s)
      BY <1>3, <2>2 DEF bump, TypeOK, PastCap
    <3> QED
      BY <1>c, <3>1
  <2> QED
    BY <2>1, <2>2
<1>4. CASE UNCHANGED vars
  BY <1>1, <1>4 DEF vars, PastCap
<1>5. ASSUME NEW j \in Judges, ~checkCap(j), ~bump(j),
             dispatchJudge(j) \/ dispatchNested(j) \/ cmdJudgeRun(j) \/ Stop(j)
      PROVE  \/ calls'[s] = 0 /\ PastCap(s)' = {}
             \/ calls'[s] + Cardinality(PastCap(s)') <= Cap + peak'[s] - 1
  BY <1>1, <1>5, CapQuiet
<1> QED
  BY <1>2, <1>3, <1>4, <1>5 DEF Next

\* A step that is neither a check of the ceiling nor a record moves no judge
\* into the stretch between them, and leaves the sum and the peak alone.
LEMMA CeilingQuiet ==
  ASSUME TypeOK, NEW j \in Judges, ~checkSpend(j), ~recordJudgeSpend(j),
         dispatchJudge(j) \/ dispatchNested(j) \/ cmdJudgeRun(j) \/ Stop(j)
  PROVE  spend' = spend /\ peakAll' = peakAll /\ PastCeiling' \subseteq PastCeiling
<1> USE DEF TypeOK, PastCeiling
<1>1. CASE dispatchJudge(j) \/ dispatchNested(j) \/ readPayload(j) \/ discardPayload(j)
  BY <1>1 DEF dispatchJudge, dispatchNested, readPayload, discardPayload
<1>2. CASE checkCap(j) \/ callProvider(j) \/ answer(j) \/ unavailable(j)
  BY <1>2 DEF checkCap, callProvider, answer, unavailable
<1>3. CASE bump(j) \/ parseJudgeJson(j) \/ recordJudgeFinding(j) \/ countDrift(j)
           \/ Stop(j)
  BY <1>3 DEF bump, parseJudgeJson, recordJudgeFinding, countDrift, Stop
<1> QED
  BY <1>1, <1>2, <1>3 DEF cmdJudgeRun, maybeJudge

\* What the price of n judges is, and of one more or one less.
LEMMA Prices ==
  \A m, n, k \in Nat :
    /\ m * n \in Nat
    /\ n <= k => m * n <= m * k
    /\ m * (n + 1) = m * n + m
OBVIOUS

\* Every step keeps the account of what is spent or may be.
LEMMA BudgetCeiling == TypeOK /\ CeilingInv /\ [Next]_vars => CeilingInv'
<1> SUFFICES ASSUME TypeOK, CeilingInv, [Next]_vars PROVE CeilingInv'
  OBVIOUS
<1> DEFINE n == Cardinality(PastCeiling)
<1> USE BudgetAssumption, CostAssumption
<1>0. PastCeiling \in SUBSET Judges /\ n \in Nat /\ spend \in Nat /\ peakAll \in Nat
  BY Sets, Counting DEF TypeOK
<1>1. ASSUME spend' = spend, peakAll' = peakAll, PastCeiling' \subseteq PastCeiling
      PROVE  CeilingInv'
  <2> DEFINE k == Cardinality(PastCeiling')
  <2>1. k \in Nat /\ k <= n
    BY <1>0, <1>1, Counting
  <2> HIDE DEF n, k
  <2>2. MaxCost * k <= MaxCost * n /\ MaxCost * k \in Nat /\ MaxCost * n \in Nat
        /\ MaxCost * peakAll \in Nat
    BY <1>0, <2>1, Prices
  <2>3. CASE spend = 0 /\ PastCeiling = {}
    BY <1>1, <2>3 DEF CeilingInv
  <2>4. CASE spend + MaxCost * n <= Ceiling - 1 + MaxCost * peakAll
    <3>1. spend + MaxCost * k <= Ceiling - 1 + MaxCost * peakAll
      BY <1>0, <2>2, <2>4
    <3> QED
      BY <1>1, <3>1 DEF CeilingInv, k
  <2> QED
    BY <2>3, <2>4 DEF CeilingInv, n
<1>2. ASSUME NEW j \in Judges, checkSpend(j) PROVE CeilingInv'
  <2>1. CASE withinCeiling
    <3>1. /\ spend < Ceiling /\ spend' = spend /\ peakAll' = Larger(peakAll, n + 1)
          /\ j \in Judges \ PastCeiling /\ PastCeiling' = PastCeiling \cup {j}
      BY <1>2, <2>1 DEF checkSpend, withinCeiling, TypeOK, PastCeiling
    <3>2. Cardinality(PastCeiling') = n + 1
      BY <1>0, <3>1, Counting
    <3>3. peakAll' \in Nat /\ n + 1 <= peakAll'
      BY <1>0, <3>1 DEF Larger
    <3> HIDE DEF n
    <3>4. /\ MaxCost * (n + 1) <= MaxCost * peakAll'
          /\ MaxCost * (n + 1) \in Nat /\ MaxCost * peakAll' \in Nat
      <4> DEFINE one == n + 1  top == peakAll'
      <4>1. one \in Nat /\ top \in Nat /\ one <= top
        BY <1>0, <3>3
      <4> HIDE DEF one, top
      <4>2. MaxCost * one <= MaxCost * top /\ MaxCost * one \in Nat /\ MaxCost * top \in Nat
        BY <4>1, Prices
      <4> QED
        BY <4>2 DEF one, top
    <3> QED
      BY <1>0, <3>1, <3>2, <3>4 DEF CeilingInv
  <2>2. CASE ~withinCeiling
    <3>1. spend' = spend /\ peakAll' = peakAll /\ PastCeiling' \subseteq PastCeiling
      BY <1>2, <2>2 DEF checkSpend, TypeOK, PastCeiling
    <3> QED
      BY <1>1, <3>1
  <2> QED
    BY <2>1, <2>2
<1>3. ASSUME NEW j \in Judges, recordJudgeSpend(j) PROVE CeilingInv'
  <2> DEFINE k == Cardinality(PastCeiling')
  <2>1. /\ spend' = spend + cost[j] /\ cost[j] \in 0..MaxCost /\ peakAll' = peakAll
        /\ j \in PastCeiling /\ PastCeiling' = PastCeiling \ {j}
    BY <1>3 DEF recordJudgeSpend, TypeOK, PastCeiling
  <2>2. n = k + 1 /\ k \in Nat
    BY <1>0, <2>1, Counting
  <2>3. spend + MaxCost * n <= Ceiling - 1 + MaxCost * peakAll
    BY <2>1 DEF CeilingInv
  <2> HIDE DEF n, k
  <2>4. MaxCost * n = MaxCost * k + MaxCost /\ MaxCost * k \in Nat
        /\ MaxCost * peakAll \in Nat
    BY <1>0, <2>2, Prices
  <2>5. spend' + MaxCost * k <= Ceiling - 1 + MaxCost * peakAll
    BY <1>0, <2>1, <2>3, <2>4
  <2> QED
    BY <2>1, <2>5 DEF CeilingInv, k
<1>4. CASE UNCHANGED vars
  BY <1>1, <1>4 DEF vars, PastCeiling
<1>5. ASSUME NEW j \in Judges, ~checkSpend(j), ~recordJudgeSpend(j),
             dispatchJudge(j) \/ dispatchNested(j) \/ cmdJudgeRun(j) \/ Stop(j)
      PROVE  CeilingInv'
  BY <1>1, <1>5, CeilingQuiet
<1> QED
  BY <1>2, <1>3, <1>4, <1>5 DEF Next

\* A step that is neither a count nor a record adds no row and owes none.
LEMMA LedgerQuiet ==
  ASSUME TypeOK, NEW j \in Judges, ~bump(j), ~recordJudgeSpend(j),
         dispatchJudge(j) \/ dispatchNested(j) \/ cmdJudgeRun(j) \/ Stop(j)
  PROVE  calls' = calls /\ ledger' = ledger /\ \A s : Counted(s)' \subseteq Counted(s)
<1> USE DEF TypeOK, Counted
<1>1. CASE dispatchJudge(j) \/ dispatchNested(j) \/ readPayload(j) \/ discardPayload(j)
  BY <1>1 DEF dispatchJudge, dispatchNested, readPayload, discardPayload
<1>2. CASE checkCap(j) \/ checkSpend(j) \/ callProvider(j) \/ answer(j) \/ unavailable(j)
  BY <1>2 DEF checkCap, checkSpend, callProvider, answer, unavailable
<1>3. CASE parseJudgeJson(j) \/ recordJudgeFinding(j) \/ countDrift(j) \/ Stop(j)
  BY <1>3 DEF parseJudgeJson, recordJudgeFinding, countDrift, Stop
<1> QED
  BY <1>1, <1>2, <1>3 DEF cmdJudgeRun, maybeJudge

\* Every step keeps the ledger's rows within the counter.
LEMMA BudgetLedger == TypeOK /\ StageInv /\ LedgerInv /\ [Next]_vars => LedgerInv'
<1> SUFFICES ASSUME TypeOK, StageInv, LedgerInv, [Next]_vars, NEW s \in Sessions
             PROVE  Cardinality(RowsOf(s)') + Cardinality(Counted(s)') <= calls'[s]
  BY DEF LedgerInv
<1>0. /\ RowsOf(s) \in SUBSET Judges /\ Cardinality(RowsOf(s)) \in Nat
      /\ Counted(s) \in SUBSET Judges /\ Cardinality(Counted(s)) \in Nat
      /\ calls[s] \in Nat
      /\ Cardinality(RowsOf(s)) + Cardinality(Counted(s)) <= calls[s]
  BY Sets, Counting DEF TypeOK, LedgerInv
<1>1. ASSUME calls' = calls, ledger' = ledger, Counted(s)' \subseteq Counted(s)
      PROVE  Cardinality(RowsOf(s)') + Cardinality(Counted(s)') <= calls'[s]
  <2>1. Cardinality(Counted(s)') \in Nat
        /\ Cardinality(Counted(s)') <= Cardinality(Counted(s))
    BY <1>0, <1>1, Counting
  <2>2. RowsOf(s)' = RowsOf(s)
    BY <1>1 DEF RowsOf
  <2> QED
    BY <1>0, <1>1, <2>1, <2>2
<1>2. ASSUME NEW j \in Judges, bump(j)
      PROVE  Cardinality(RowsOf(s)') + Cardinality(Counted(s)') <= calls'[s]
  <2>1. RowsOf(s)' = RowsOf(s)
    BY <1>2 DEF bump, RowsOf
  <2>2. CASE SessionOf[j] = s
    <3>1. /\ calls'[s] = calls[s] + 1 /\ j \in Judges \ Counted(s)
          /\ Counted(s)' = Counted(s) \cup {j}
      BY <1>2, <2>2 DEF bump, TypeOK, Counted
    <3>2. Cardinality(Counted(s)') = Cardinality(Counted(s)) + 1
      BY <1>0, <3>1, Counting
    <3> QED
      BY <1>0, <2>1, <3>1, <3>2
  <2>3. CASE SessionOf[j] # s
    <3>1. calls'[s] = calls[s] /\ Counted(s)' = Counted(s)
      BY <1>2, <2>3 DEF bump, TypeOK, Counted
    <3> QED
      BY <1>0, <2>1, <3>1
  <2> QED
    BY <2>2, <2>3
<1>3. ASSUME NEW j \in Judges, recordJudgeSpend(j)
      PROVE  Cardinality(RowsOf(s)') + Cardinality(Counted(s)') <= calls'[s]
  <2>1. CASE SessionOf[j] = s
    <3>1. /\ calls' = calls
          /\ j \in Counted(s) /\ Counted(s)' = Counted(s) \ {j}
          /\ j \in Judges \ RowsOf(s) /\ RowsOf(s)' = RowsOf(s) \cup {j}
      BY <1>3, <2>1 DEF recordJudgeSpend, TypeOK, StageInv, Counted, RowsOf
    <3>2. /\ Cardinality(Counted(s)') = Cardinality(Counted(s)) - 1
          /\ Cardinality(RowsOf(s)') = Cardinality(RowsOf(s)) + 1
      BY <1>0, <3>1, Counting
    <3> QED
      BY <1>0, <3>1, <3>2
  <2>2. CASE SessionOf[j] # s
    <3>1. calls' = calls /\ Counted(s)' = Counted(s) /\ RowsOf(s)' = RowsOf(s)
      BY <1>3, <2>2 DEF recordJudgeSpend, TypeOK, Counted, RowsOf
    <3> QED
      BY <1>0, <3>1
  <2> QED
    BY <2>1, <2>2
<1>4. CASE UNCHANGED vars
  BY <1>1, <1>4 DEF vars, Counted
<1>5. ASSUME NEW j \in Judges, ~bump(j), ~recordJudgeSpend(j),
             dispatchJudge(j) \/ dispatchNested(j) \/ cmdJudgeRun(j) \/ Stop(j)
      PROVE  Cardinality(RowsOf(s)') + Cardinality(Counted(s)') <= calls'[s]
  BY <1>1, <1>5, LedgerQuiet
<1> QED
  BY <1>2, <1>3, <1>4, <1>5 DEF Next

\* BudgetInv holds throughout, for every number of judges, sessions and prices.
THEOREM BudgetInductive == Spec => []BudgetInv
<1>1. BudgetInv /\ [Next]_vars => BudgetInv'
  BY BudgetType, BudgetStage, BudgetCap, BudgetCeiling, BudgetLedger DEF BudgetInv
<1> QED
  BY <1>1, BudgetInit, PTL DEF Spec

\* The per-session cap is overrun only by judges that overlapped.
THEOREM CapOverrun == Spec => []CapWithinOverlap
<1>1. BudgetInv => CapWithinOverlap
  <2> SUFFICES ASSUME BudgetInv, NEW s \in Sessions, calls[s] > 0
               PROVE  calls[s] <= Cap + peak[s] - 1
    BY DEF CapWithinOverlap
  <2>1. calls[s] \in Nat /\ peak[s] \in Nat /\ Cardinality(PastCap(s)) \in Nat
    BY Sets, Counting DEF BudgetInv, TypeOK
  <2>2. calls[s] + Cardinality(PastCap(s)) <= Cap + peak[s] - 1
    BY <2>1 DEF BudgetInv, CapInv
  <2> QED
    BY <2>1, <2>2, BudgetAssumption
<1> QED
  BY <1>1, BudgetInductive, PTL

\* The dollar ceiling is overrun only by the price of judges that overlapped.
THEOREM CeilingOverrun == Spec => []CeilingWithinOverlap
<1>1. BudgetInv => CeilingWithinOverlap
  <2> SUFFICES ASSUME BudgetInv, spend > 0
               PROVE  spend <= Ceiling - 1 + MaxCost * peakAll
    BY DEF CeilingWithinOverlap
  <2> DEFINE n == Cardinality(PastCeiling)
  <2>1. spend \in Nat /\ peakAll \in Nat /\ n \in Nat
    BY Sets, Counting DEF BudgetInv, TypeOK
  <2>2. spend + MaxCost * n <= Ceiling - 1 + MaxCost * peakAll
    BY <2>1 DEF BudgetInv, CeilingInv
  <2> HIDE DEF n
  <2>3. MaxCost * n \in Nat /\ MaxCost * peakAll \in Nat
    BY <2>1, CostAssumption, Prices
  <2> QED
    BY <2>1, <2>2, <2>3, BudgetAssumption
<1> QED
  BY <1>1, BudgetInductive, PTL

\* What was paid for is on the ledger before it is read, and the call counter
\* never falls behind the ledger.
THEOREM PaidRecorded == Spec => []PaidIsOnTheLedger
<1>1. BudgetInv => PaidIsOnTheLedger
  <2> SUFFICES ASSUME BudgetInv, NEW s \in Sessions
               PROVE  Cardinality(RowsOf(s)) <= calls[s]
    BY DEF PaidIsOnTheLedger, BudgetInv, StageInv
  <2>1. calls[s] \in Nat /\ Cardinality(RowsOf(s)) \in Nat /\ Cardinality(Counted(s)) \in Nat
    BY Sets, Counting DEF BudgetInv, TypeOK
  <2> QED
    BY <2>1 DEF BudgetInv, LedgerInv
<1> QED
  BY <1>1, BudgetInductive, PTL

\* No judge of a judge reaches a provider.
THEOREM NoRecursion == Spec => []JudgesAreNotJudged
<1>1. BudgetInv => JudgesAreNotJudged
  BY DEF BudgetInv, StageInv, JudgesAreNotJudged
<1> QED
  BY <1>1, BudgetInductive, PTL

\* A payload still in the directory was never paid for.
THEOREM PendingUnpaid == Spec => []PendingIsUnpaid
<1>1. BudgetInv => PendingIsUnpaid
  BY DEF BudgetInv, StageInv, PendingIsUnpaid
<1> QED
  BY <1>1, BudgetInductive, PTL

-----------------------------------------------------------------------------
(* The triage bot *)

\* The labels of a reply are of the list.
LEMMA ReplyLabels ==
  ASSUME NEW text \in AllTexts, NEW from \in Checkouts
  PROVE  Reply[text][from].labels \subseteq ALLOWED_LABELS
  <1>1. \A intent, matches, found : labelsOf(intent, matches, found, text) \subseteq ALLOWED_LABELS
    BY DEF labelsOf
  <1>2. \A intent, matches, built : replyWith(text, intent, matches, built).labels \subseteq ALLOWED_LABELS
    BY <1>1 DEF replyWith
  <1>3. triage(text, Corpus[from]).labels \subseteq ALLOWED_LABELS
    BY <1>2 DEF triage
  <1>4. Reply[text][from] = triage(text, Corpus[from])
    BY DEF Reply
  <1> QED
    BY <1>3, <1>4

\* So are the labels of a run, whatever the model answers.
LEMMA RunLabels ==
  ASSUME NEW text \in AllTexts, NEW from \in Checkouts, NEW reply, reply = Reply[text][from], NEW said
  PROVE  labelsWith(reply, said) \in SUBSET ALLOWED_LABELS
  BY ReplyLabels DEF labelsWith

\* Events and comments are of their types.
LEMMA EventsTyped ==
  ASSUME NEW t \in Threads, NEW u \in Openers[t] \cup Writers[t]
  PROVE  /\ KindOf[t] # "pull" => eventOf(KindOf[t], u) \in Events /\ ~ onComment(KindOf[t])
         /\ eventOf(surfaceOf(t), u) \in Events /\ onComment(surfaceOf(t))
         /\ commentOf(u) \in Comments
         /\ u \in Users
  <1>1. u \in Users
    BY DEF Users
  <1>2. KindOf[t] \in {"issue", "pull", "discussion"}
    BY BotAssumption
  <1> QED
    BY <1>1, <1>2 DEF eventOf, surfaceOf, commentOf, Events, Comments, KNOWN_SURFACES, onComment

\* A thread that is opened is not taken for none, and neither is an event.
LEMMA NotNone == \A x \in Opened \cup Events : x # None
  BY BotAssumption

\* A listing that is long enough is the list.
LEMMA WholeList ==
  ASSUME NEW V, NEW seq \in Seq(V), NEW n \in Nat
  PROVE  /\ First(seq, n) \in Seq(V)
         /\ Len(seq) <= n => First(seq, n) = seq
  <1>1. Min({n, Len(seq)}) = IF n <= Len(seq) THEN n ELSE Len(seq)
    <2> DEFINE least == IF n <= Len(seq) THEN n ELSE Len(seq)
    <2>1. \A x \in {n, Len(seq)} : (\A y \in {n, Len(seq)} : x <= y) <=> x = least
      OBVIOUS
    <2>2. Min({n, Len(seq)}) = CHOOSE x \in {n, Len(seq)} : \A y \in {n, Len(seq)} : x <= y
      BY Zenon DEF Min
    <2>3. least \in {n, Len(seq)}
      OBVIOUS
    <2> HIDE DEF least
    <2>4. Min({n, Len(seq)}) = least
      BY <2>1, <2>2, <2>3
    <2> QED
      BY <2>4 DEF least
  <1>2. First(seq, n) \in Seq(V)
    <2>1. PICK m \in 0 .. Len(seq) : Min({n, Len(seq)}) = m
      BY <1>1
    <2>2. \A i \in 1 .. m : seq[i] \in V
      BY <2>1
    <2>3. SubSeq(seq, 1, m) = [i \in 1 .. m |-> seq[i]]
      BY <2>1
    <2>4. [i \in 1 .. m |-> seq[i]] \in Seq(V)
      BY <2>1, <2>2
    <2> QED
      BY <2>1, <2>3, <2>4 DEF First
  <1>3. ASSUME Len(seq) <= n PROVE First(seq, n) = seq
    <2>1. Min({n, Len(seq)}) = Len(seq)
      BY <1>1, <1>3
    <2>2. First(seq, n) = SubSeq(seq, 1, Len(seq))
      BY <2>1 DEF First
    <2> QED
      BY <2>2
  <1> QED
    BY <1>2, <1>3

\* A step of one thread: what becomes of it, of its waiting run, of the last run
\* and of the run in progress, with the rest as it was.
Moves(t, x, w, l, j) ==
  /\ thread' = [thread EXCEPT ![t] = x] /\ waiting' = [waiting EXCEPT ![t] = w]
  /\ last' = [last EXCEPT ![t] = l] /\ job' = [job EXCEPT ![t] = j]

RestTyped == day' \in Seq(BOOLEAN) /\ enabled' \in BOOLEAN /\ acts' \in Nat

LEMMA MovesTyped ==
  ASSUME BotTypeOK, NEW t \in Threads, NEW x \in Opened \cup {None}, NEW w \in Events \cup {None},
         NEW l \in Events \cup {None}, NEW j \in Jobs, Moves(t, x, w, l, j),
         RestTyped
  PROVE  /\ BotTypeOK'
         /\ thread'[t] = x /\ waiting'[t] = w /\ last'[t] = l /\ job'[t] = j
         /\ \A s \in Threads \ {t} :
              thread'[s] = thread[s] /\ waiting'[s] = waiting[s] /\ last'[s] = last[s] /\ job'[s] = job[s]
  BY DEF BotTypeOK, Moves, RestTyped

\* What does not change is set to what it was.
LEMMA Still ==
  ASSUME BotTypeOK, NEW t \in Threads
  PROVE  /\ thread = [thread EXCEPT ![t] = thread[t]] /\ waiting = [waiting EXCEPT ![t] = waiting[t]]
         /\ last = [last EXCEPT ![t] = last[t]] /\ job = [job EXCEPT ![t] = job[t]]
  BY DEF BotTypeOK

\* A thread that changes nothing that a run goes by stays as it should be.
LEMMA ThreadStill ==
  ASSUME NEW t \in Threads, ThreadOK(t),
         thread'[t] = thread[t], waiting'[t] = waiting[t], last'[t] = last[t], job'[t] = job[t]
  PROVE  ThreadOK(t)'
  BY DEF ThreadOK, sourced, happened, commented, after, ownComments, snapshot, fits, current,
         fresh, inHand, answeredOnce, isDiscussion

\* Nor does one whose comments stay, when its runs change places and a run enters no
\* stage that promises something.
LEMMA RunsMove ==
  ASSUME NEW t \in Threads, BotTypeOK, ThreadOK(t), thread[t] \in Opened, thread'[t] \in Opened,
         thread'[t].comments = thread[t].comments,
         \A event \in {waiting'[t], last'[t], job'[t].event} \ {None} :
           event \in {waiting[t], last[t], job[t].event},
         job'[t].pc # "idle" => job'[t].event # None,
         snapshot(t)', fresh(t)'
  PROVE  ThreadOK(t)'
  <1>1. thread[t] # None /\ thread'[t] # None
    BY NotNone
  <1>2. sourced(t)'
    BY <1>1 DEF ThreadOK, sourced, happened, commented
  <1>3. ownComments(t)' = ownComments(t)
    BY <1>1 DEF ownComments
  <1>4. after(t)'
    BY <1>3 DEF ThreadOK, after
  <1>5. answeredOnce(t)'
    BY <1>1, <1>3 DEF ThreadOK, answeredOnce, fits
  <1> QED
    BY <1>2, <1>4, <1>5 DEF ThreadOK

\* A run is of a thread, and so is what waits and what ended.
LEMMA RunsHaveThreads ==
  ASSUME BotTypeOK, NEW t \in Threads, sourced(t),
         waiting[t] # None \/ last[t] # None \/ job[t].pc # "idle"
  PROVE  thread[t] \in Opened
  BY DEF BotTypeOK, sourced, happened

\* Initially nothing is opened and nothing runs.
LEMMA InitBot == BotInit => BotInv
  <1> SUFFICES ASSUME BotInit PROVE BotInv
    OBVIOUS
  <1>1. Idle \in Jobs /\ Idle.pc = "idle" /\ Idle.event = None
    BY DEF Idle, Jobs
  <1>2. BotTypeOK
    BY <1>1 DEF BotInit, BotTypeOK
  <1>3. \A t \in Threads : ThreadOK(t)
    BY <1>1 DEF BotInit, ThreadOK, sourced, after, ownComments, snapshot, fresh, answeredOnce
  <1>4. CapHolds
    <2>1. ownIn(day) = 0
      <3>1. {i \in DOMAIN day : day[i]} = {}
        BY DEF BotInit
      <3> QED
        BY <3>1, FS_EmptySet DEF ownIn
    <2>2. posting = {}
      BY <1>1 DEF BotInit, posting, counted
    <2>3. Cardinality(posting) = 0
      BY <2>2, FS_EmptySet
    <2>4. Cardinality(counted) \in Nat
      BY BotAssumption, FS_Subset, FS_CardinalityType DEF counted
    <2> QED
      BY <2>1, <2>3, <2>4, BotAssumption DEF CapHolds
  <1> QED
    BY <1>2, <1>3, <1>4 DEF BotInv

\* The other threads stay as they should be.
ThreadsOK == BotTypeOK /\ \A t \in Threads : ThreadOK(t)

LEMMA OthersStill ==
  ASSUME NEW t \in Threads, ThreadsOK, BotTypeOK', ThreadOK(t)',
         \A s \in Threads \ {t} :
           thread'[s] = thread[s] /\ waiting'[s] = waiting[s] /\ last'[s] = last[s] /\ job'[s] = job[s]
  PROVE  ThreadsOK'
  BY ThreadStill DEF ThreadsOK

\* Nothing of a thread that is not opened waits, ran or runs.
LEMMA OpenStep ==
  ASSUME ThreadsOK, NEW t \in Threads, NEW user \in Openers[t],
         NEW text \in Texts[t], Open(t, user, text)
  PROVE  ThreadsOK'
  <1>ok. BotTypeOK /\ ThreadOK(t)
    BY DEF ThreadsOK
  <1> USE <1>ok
  <1> DEFINE x == [opener |-> user, text |-> text, open |-> TRUE, comments |-> << >>, labels |-> {}]
             w == IF KindOf[t] = "pull" THEN waiting[t] ELSE eventOf(KindOf[t], user)
  <1>1. x \in Opened
    BY EventsTyped DEF Opened, AllTexts
  <1>2. w \in Events \cup {None} /\ (w # waiting[t] => ~ onComment(w.surface))
    BY EventsTyped DEF BotTypeOK, eventOf
  <1>3. /\ Moves(t, x, w, last[t], job[t])
        /\ day' = day /\ enabled' = enabled /\ acts' = acts
    BY Still DEF Open, trigger, Moves
  <1>4. x.comments = << >>
    OBVIOUS
  <1>5. job[t] \in Jobs /\ last[t] \in Events \cup {None}
    BY DEF BotTypeOK
  <1> HIDE DEF x, w
  <1>6. /\ BotTypeOK'
        /\ thread'[t] = x /\ waiting'[t] = w /\ last'[t] = last[t] /\ job'[t] = job[t]
        /\ \A s \in Threads \ {t} :
             thread'[s] = thread[s] /\ waiting'[s] = waiting[s] /\ last'[s] = last[s] /\ job'[s] = job[s]
    <2>1. RestTyped
      BY <1>3 DEF BotTypeOK, RestTyped
    <2> QED
      BY <1>1, <1>2, <1>3, <1>5, <2>1, MovesTyped
  <1>7. thread[t] = None /\ x # None /\ sourced(t)
    BY <1>1, NotNone DEF Open, ThreadOK
  <1>8. waiting[t] = None /\ last[t] = None /\ job[t].event = None /\ job[t].pc = "idle"
    BY <1>7 DEF sourced, happened
  <1>9. ThreadOK(t)'
    <2>1. ownComments(t)' = {}
      BY <1>4, <1>6 DEF ownComments
    <2>2. sourced(t)'
      BY <1>2, <1>6, <1>7, <1>8 DEF sourced, happened
    <2>3. after(t)' /\ snapshot(t)' /\ fresh(t)' /\ answeredOnce(t)'
      BY <1>6, <1>8, <2>1 DEF after, snapshot, fresh, answeredOnce
    <2> QED
      BY <2>2, <2>3 DEF ThreadOK
  <1> QED
    BY <1>6, <1>9, OthersStill

\* What is on a thread stays there when a person's comment, or the bot's, follows.
LEMMA Appended ==
  ASSUME BotTypeOK, NEW t \in Threads, thread[t] \in Opened, thread'[t] \in Opened, NEW c \in Comments,
         thread'[t].comments = Append(thread[t].comments, c)
  PROVE  /\ thread[t] # None /\ thread'[t] # None
         /\ Len(thread[t].comments) \in Nat
         /\ Len(thread'[t].comments) = Len(thread[t].comments) + 1
         /\ DOMAIN thread[t].comments = 1 .. Len(thread[t].comments)
         /\ DOMAIN thread'[t].comments = 1 .. Len(thread[t].comments) + 1
         /\ \A i \in DOMAIN thread[t].comments : thread'[t].comments[i] = thread[t].comments[i]
         /\ thread'[t].comments[Len(thread[t].comments) + 1] = c
         /\ fits(t)' => fits(t)
         /\ ownComments(t) \subseteq DOMAIN thread[t].comments
         /\ ownComments(t)' = IF c.own THEN ownComments(t) \cup {Len(thread[t].comments) + 1}
                              ELSE ownComments(t)
  <1> DEFINE old == thread[t].comments
             new == thread'[t].comments
  <1>1. thread[t] # None /\ thread'[t] # None
    BY NotNone
  <1>2. old \in Seq(Comments) /\ new = Append(old, c)
    BY DEF Opened
  <1> HIDE DEF old, new
  <1>3. /\ Len(old) \in Nat /\ Len(new) = Len(old) + 1
        /\ DOMAIN old = 1 .. Len(old) /\ DOMAIN new = 1 .. Len(old) + 1
        /\ \A i \in DOMAIN old : new[i] = old[i]
        /\ new[Len(old) + 1] = c
    BY <1>2
  <1>4. fits(t)' => fits(t)
    BY <1>1, <1>3, BotAssumption DEF fits, old, new
  <1>5. /\ ownComments(t) = {i \in DOMAIN old : old[i].own}
        /\ ownComments(t)' = {i \in DOMAIN new : new[i].own}
    BY <1>1 DEF ownComments, old, new
  <1>6. \A i \in DOMAIN new : i \in DOMAIN old \/ i = Len(old) + 1
    BY <1>3
  <1>7. ownComments(t)' = IF c.own THEN ownComments(t) \cup {Len(old) + 1} ELSE ownComments(t)
    <2>1. \A i : i \in ownComments(t)' <=> i \in ownComments(t) \/ (i = Len(old) + 1 /\ c.own)
      <3>1. DOMAIN old \subseteq DOMAIN new /\ Len(old) + 1 \in DOMAIN new
        BY <1>3
      <3> QED
        BY <1>3, <1>5, <1>6, <3>1
    <2> QED
      BY <2>1
  <1> QED
    BY <1>1, <1>3, <1>4, <1>5, <1>7 DEF old, new

\* Before anyone comments again, whoever was heard is heard, and what stood after
\* a comment does.
LEMMA AppendedStays ==
  ASSUME BotTypeOK, NEW t \in Threads, ThreadOK(t), thread[t] \in Opened, thread'[t] \in Opened,
         NEW c \in Comments, thread'[t].comments = Append(thread[t].comments, c)
  PROVE  /\ \A event : happened(t, event) => happened(t, event)'
         /\ \A u : commented(t, u) => commented(t, u)'
         /\ \A k \in ownComments(t) : onComment(thread'[t].comments[k].surface) =>
              \E i \in 1 .. k - 1 : thread'[t].comments[i].user = thread'[t].comments[k].to
         /\ fits(t)' => \A i, k \in ownComments(t) :
              sameAnswer(thread'[t].comments[i], thread'[t].comments[k]) => i = k
         /\ c.own = FALSE /\ job'[t].comments = job[t].comments /\ (job'[t].pc = "list" => job[t].pc = "list")
              => snapshot(t)'
  <1> DEFINE n == Len(thread[t].comments)
  <1>1. /\ thread[t] # None /\ thread'[t] # None
        /\ n \in Nat /\ Len(thread'[t].comments) = n + 1
        /\ DOMAIN thread[t].comments = 1 .. n /\ DOMAIN thread'[t].comments = 1 .. n + 1
        /\ \A i \in 1 .. n : thread'[t].comments[i] = thread[t].comments[i]
        /\ fits(t)' => fits(t)
        /\ ownComments(t) \subseteq 1 .. n
        /\ ~ c.own => ownComments(t)' = ownComments(t)
    BY Appended
  <1>2. \A u : commented(t, u) => commented(t, u)'
    BY <1>1 DEF commented
  <1>3. \A event : happened(t, event) => happened(t, event)'
    BY <1>1, <1>2 DEF happened
  <1>4. \A k \in ownComments(t) : onComment(thread'[t].comments[k].surface) =>
          \E i \in 1 .. k - 1 : thread'[t].comments[i].user = thread'[t].comments[k].to
    <2>1. SUFFICES ASSUME NEW k \in ownComments(t), onComment(thread'[t].comments[k].surface)
                   PROVE  \E i \in 1 .. k - 1 : thread'[t].comments[i].user = thread'[t].comments[k].to
      OBVIOUS
    <2>2. k \in 1 .. n /\ thread'[t].comments[k] = thread[t].comments[k]
      BY <1>1, <2>1
    <2>3. PICK i \in 1 .. k - 1 : thread[t].comments[i].user = thread[t].comments[k].to
      BY <2>1, <2>2 DEF ThreadOK, after
    <2>4. i \in 1 .. n
      BY <1>1, <2>2
    <2> QED
      BY <1>1, <2>2, <2>3, <2>4
  <1>5. fits(t)' => \A i, k \in ownComments(t) :
          sameAnswer(thread'[t].comments[i], thread'[t].comments[k]) => i = k
    BY <1>1 DEF ThreadOK, answeredOnce
  <1>6. ASSUME c.own = FALSE, job'[t].comments = job[t].comments, job'[t].pc = "list" => job[t].pc = "list"
        PROVE  snapshot(t)'
    <2>1. SUFFICES ASSUME isDiscussion(t), job'[t].pc = "list", fits(t)' PROVE current(t)'
      BY DEF snapshot, isDiscussion
    <2>2. current(t)
      BY <1>1, <1>6, <2>1 DEF ThreadOK, snapshot
    <2>3. job[t].comments \in Seq(Comments)
      BY DEF BotTypeOK, Jobs
    <2>4. Len(job[t].comments) \in Nat /\ DOMAIN job[t].comments = 1 .. Len(job[t].comments)
      BY <2>3
    <2> QED
      BY <1>1, <1>6, <2>2, <2>4 DEF current
  <1> QED
    BY <1>2, <1>3, <1>4, <1>5, <1>6

\* What the day's listing becomes.
LEMMA DayTyped ==
  ASSUME BotTypeOK, NEW t \in Threads, NEW own \in BOOLEAN
  PROVE  ofTheDay(t, own) \in Seq(BOOLEAN)
  <1>1. \A S : \A seq \in Seq(S) : \A x \in S : Append(seq, x) \in Seq(S)
    OBVIOUS
  <1>2. Append(day, own) \in Seq(BOOLEAN) /\ day \in Seq(BOOLEAN)
    BY <1>1, Zenon DEF BotTypeOK
  <1> QED
    BY <1>2 DEF ofTheDay

\* A person's comment is heard, and is no answer.
LEMMA CommentStep ==
  ASSUME ThreadsOK, NEW t \in Threads, NEW user \in Writers[t], Comment(t, user)
  PROVE  ThreadsOK'
  <1>ok. BotTypeOK /\ ThreadOK(t)
    BY DEF ThreadsOK
  <1> USE <1>ok
  <1> DEFINE c == commentOf(user)
             x == [thread[t] EXCEPT !.comments = Append(@, c)]
             w == eventOf(surfaceOf(t), user)
  <1> HIDE DEF c, w
  <1>1. thread[t] \in Opened /\ ThreadOK(t)
    BY DEF Comment, BotTypeOK
  <1>2. c \in Comments /\ c.own = FALSE /\ c.user = user
    BY EventsTyped DEF commentOf, c
  <1>3. w \in Events /\ w.user = user
    BY EventsTyped DEF eventOf, w
  <1>4. x \in Opened /\ x.comments = Append(thread[t].comments, c)
    <2>1. thread[t].comments \in Seq(Comments)
      BY <1>1 DEF Opened
    <2>2. Append(thread[t].comments, c) \in Seq(Comments)
      BY <1>2, <2>1
    <2> QED
      BY <1>1, <2>2 DEF Opened
  <1>5. Moves(t, x, w, last[t], job[t]) /\ job[t] \in Jobs /\ last[t] \in Events \cup {None}
    BY Still DEF Comment, trigger, Moves, BotTypeOK, c, w
  <1>6. RestTyped
    <2>1. day' \in Seq(BOOLEAN)
      BY DayTyped, Zenon DEF Comment
    <2>2. enabled' = enabled /\ acts' = acts + 1
      BY Zenon DEF Comment, act
    <2> QED
      BY <2>1, <2>2 DEF BotTypeOK, RestTyped
  <1> HIDE DEF x
  <1>7. /\ BotTypeOK'
        /\ thread'[t] = x /\ waiting'[t] = w /\ last'[t] = last[t] /\ job'[t] = job[t]
        /\ \A s \in Threads \ {t} :
             thread'[s] = thread[s] /\ waiting'[s] = waiting[s] /\ last'[s] = last[s] /\ job'[s] = job[s]
    BY <1>3, <1>4, <1>5, <1>6, MovesTyped
  <1>8. thread'[t] \in Opened /\ thread'[t].comments = Append(thread[t].comments, c)
    BY <1>4, <1>7
  <1>9. ThreadOK(t)'
    <2> DEFINE n == Len(thread[t].comments)
    <2>1. /\ thread[t] # None /\ thread'[t] # None
          /\ DOMAIN thread[t].comments = 1 .. n /\ DOMAIN thread'[t].comments = 1 .. n + 1 /\ n \in Nat
          /\ \A i \in 1 .. n : thread'[t].comments[i] = thread[t].comments[i]
          /\ thread'[t].comments[n + 1] = c
          /\ fits(t)' => fits(t)
          /\ ownComments(t) \subseteq 1 .. n
          /\ ownComments(t)' = ownComments(t)
      BY <1>1, <1>2, <1>8, Appended
    <2>2. /\ \A event : happened(t, event) => happened(t, event)'
          /\ \A k \in ownComments(t) : onComment(thread'[t].comments[k].surface) =>
               \E i \in 1 .. k - 1 : thread'[t].comments[i].user = thread'[t].comments[k].to
          /\ fits(t)' => \A i, k \in ownComments(t) :
               sameAnswer(thread'[t].comments[i], thread'[t].comments[k]) => i = k
          /\ snapshot(t)'
      BY <1>1, <1>2, <1>7, <1>8, AppendedStays
    <2>3. happened(t, w)'
      <3>1. commented(t, user)'
        BY <1>2, <2>1 DEF commented
      <3> QED
        BY <1>3, <2>1, <3>1 DEF happened
    <2>4. sourced(t)'
      BY <1>1, <1>7, <2>2, <2>3 DEF ThreadOK, sourced
    <2>5. after(t)' /\ answeredOnce(t)'
      BY <2>1, <2>2 DEF after, answeredOnce
    <2>6. fresh(t)'
      BY <1>1, <1>7, <2>1 DEF ThreadOK, fresh, inHand
    <2> QED
      BY <2>2, <2>4, <2>5, <2>6 DEF ThreadOK
  <1> QED
    BY <1>7, <1>9, OthersStill

\* The events that are about stay so; a run stays, ends or has answered.
Recalled(t, w, l, j) ==
  \A event \in {w, l, j.event} : event = None \/ event \in {waiting[t], last[t], job[t].event}
Settled(t, j) == j = job[t] \/ j = Idle \/ (j.pc = "label" /\ j.event # None)

\* A step that leaves the comments alone, and a run that ends or goes nowhere new.
LEMMA QuietStep ==
  ASSUME ThreadsOK, NEW t \in Threads, thread[t] \in Opened,
         NEW x \in Opened, x.comments = thread[t].comments,
         NEW w \in Events \cup {None}, NEW l \in Events \cup {None}, NEW j \in Jobs, Moves(t, x, w, l, j),
         RestTyped,
         Recalled(t, w, l, j), Settled(t, j)
  PROVE  ThreadsOK'
  <1>ok. BotTypeOK /\ ThreadOK(t)
    BY DEF ThreadsOK
  <1> USE <1>ok
  <1>1. /\ BotTypeOK'
        /\ thread'[t] = x /\ waiting'[t] = w /\ last'[t] = l /\ job'[t] = j
        /\ \A s \in Threads \ {t} :
             thread'[s] = thread[s] /\ waiting'[s] = waiting[s] /\ last'[s] = last[s] /\ job'[s] = job[s]
    BY MovesTyped
  <1>2. /\ thread[t] # None /\ thread'[t] # None /\ ThreadOK(t)
        /\ ownComments(t)' = ownComments(t) /\ (fits(t)' <=> fits(t))
    BY <1>1, NotNone DEF ownComments, fits
  <1>a. \A event \in {waiting'[t], last'[t], job'[t].event} \ {None} :
          event \in {waiting[t], last[t], job[t].event}
    BY <1>1 DEF Recalled
  <1>3. CASE j = job[t]
    <2>1. snapshot(t)' /\ fresh(t)'
      BY <1>1, <1>2, <1>3 DEF ThreadOK, snapshot, current, isDiscussion, fresh, inHand
    <2>2. job'[t].pc # "idle" => job'[t].event # None
      BY <1>1, <1>2, <1>3 DEF ThreadOK, sourced
    <2>3. ThreadOK(t)'
      BY <1>1, <1>2, <1>a, <2>1, <2>2, RunsMove
    <2> QED
      BY <1>1, <2>3, OthersStill
  <1>4. CASE j = Idle \/ (j.pc = "label" /\ j.event # None)
    <2>1. j.pc \in {"idle", "label"} /\ (j.pc # "idle" => j.event # None)
      BY <1>4 DEF Idle
    <2>2. snapshot(t)' /\ fresh(t)'
      BY <1>1, <2>1 DEF snapshot, fresh
    <2>3. ThreadOK(t)'
      BY <1>1, <1>2, <1>a, <2>1, <2>2, RunsMove
    <2> QED
      BY <1>1, <2>3, OthersStill
  <1>5. j = job[t] \/ j = Idle \/ (j.pc = "label" /\ j.event # None)
    BY DEF Settled
  <1> QED
    BY <1>3, <1>4, <1>5

LEMMA IdleTyped == Idle \in Jobs /\ Idle.event = None /\ Idle.pc = "idle"
  BY DEF Idle, Jobs

\* Threads are closed and runs started again, skipped and ended.
LEMMA PeopleStep ==
  ASSUME ThreadsOK, NEW t \in Threads, Close(t) \/ Rerun(t) \/ Skip(t)
  PROVE  ThreadsOK'
  <1>ok. BotTypeOK /\ ThreadOK(t)
    BY DEF ThreadsOK
  <1> USE <1>ok
  <1>0. /\ job[t] \in Jobs /\ last[t] \in Events \cup {None} /\ waiting[t] \in Events \cup {None}
        /\ ThreadOK(t) /\ (thread[t] # None => thread[t] \in Opened)
    BY DEF BotTypeOK
  <1>1. CASE Close(t)
    <2> DEFINE x == [thread[t] EXCEPT !.open = FALSE]
    <2>1. thread[t] \in Opened
      BY <1>0, <1>1 DEF Close
    <2>2. x \in Opened /\ x.comments = thread[t].comments
      BY <2>1 DEF Opened
    <2>3. Moves(t, x, waiting[t], last[t], job[t]) /\ RestTyped
      BY <1>1, Still DEF Close, act, Moves, BotTypeOK, RestTyped
    <2> HIDE DEF x
    <2>4. Recalled(t, waiting[t], last[t], job[t]) /\ Settled(t, job[t])
      BY DEF Recalled, Settled
    <2> QED
      BY <1>0, <2>1, <2>2, <2>3, <2>4, QuietStep
  <1>2. CASE Rerun(t)
    <2>1. thread[t] \in Opened
      BY <1>0, <1>2, RunsHaveThreads DEF Rerun, ThreadOK
    <2>2. Moves(t, thread[t], last[t], last[t], job[t]) /\ RestTyped
      BY <1>2, Still DEF Rerun, trigger, act, Moves, BotTypeOK, RestTyped
    <2>3. Recalled(t, last[t], last[t], job[t]) /\ Settled(t, job[t])
      BY DEF Recalled, Settled
    <2> QED
      BY <1>0, <2>1, <2>2, <2>3, QuietStep
  <1>3. CASE Skip(t)
    <2>1. thread[t] \in Opened
      BY <1>0, <1>3, RunsHaveThreads DEF Skip, ThreadOK
    <2>2. Moves(t, thread[t], None, last[t], job[t]) /\ RestTyped
      BY <1>3, Still DEF Skip, Moves, BotTypeOK, RestTyped
    <2>3. Recalled(t, None, last[t], job[t]) /\ Settled(t, job[t])
      BY DEF Recalled, Settled
    <2> QED
      BY <1>0, <2>1, <2>2, <2>3, QuietStep
  <1> QED
    BY <1>1, <1>2, <1>3

\* The run that ends leaves its event behind.
LEMMA EndStep ==
  ASSUME ThreadsOK, NEW t \in Threads, thread[t] \in Opened,
         end(t), UNCHANGED << thread, waiting, day, enabled, acts >>
  PROVE  ThreadsOK'
  <1>ok. BotTypeOK /\ ThreadOK(t)
    BY DEF ThreadsOK
  <1> USE <1>ok
  <1>1. /\ job[t] \in Jobs /\ waiting[t] \in Events \cup {None}
        /\ job[t].event \in Events \cup {None}
    BY DEF BotTypeOK, Jobs
  <1>2. Moves(t, thread[t], waiting[t], job[t].event, Idle) /\ RestTyped
    BY Still DEF end, Moves, BotTypeOK, RestTyped
  <1>3. Recalled(t, waiting[t], job[t].event, Idle) /\ Settled(t, Idle)
    BY IdleTyped DEF Recalled, Settled
  <1> QED
    BY <1>1, <1>2, <1>3, IdleTyped, QuietStep

\* A run that starts takes what waited for its event, and a discussion as it stands.
LEMMA BeginStep ==
  ASSUME ThreadsOK, NEW t \in Threads, Begin(t)
  PROVE  ThreadsOK'
  <1>ok. BotTypeOK /\ ThreadOK(t)
    BY DEF ThreadsOK
  <1> USE <1>ok
  <1> DEFINE e == waiting[t]
             read == IF isDiscussion(t) THEN First(thread[t].comments, ThreadPage) ELSE << >>
             j == [Idle EXCEPT !.pc = "list", !.event = e, !.comments = read]
  <1>1. thread[t] \in Opened /\ thread[t] # None
    BY RunsHaveThreads, NotNone DEF Begin, ThreadOK
  <1>2. e \in Events /\ e # None /\ last[t] \in Events \cup {None} /\ job[t] \in Jobs
    BY DEF BotTypeOK, Begin
  <1>3. \/ Moves(t, thread[t], None, last[t], j) \/ Moves(t, thread[t], None, e, job[t])
    BY Still DEF Begin, Moves
  <1>4. RestTyped
    BY DEF Begin, BotTypeOK, RestTyped
  <1>5. thread[t].comments \in Seq(Comments)
    BY <1>1 DEF Opened
  <1>6. /\ read \in Seq(Comments)
        /\ isDiscussion(t) /\ fits(t) => read = thread[t].comments
    <2>1. << >> \in Seq(Comments)
      OBVIOUS
    <2> QED
      BY <1>1, <1>5, <2>1, WholeList, BotAssumption DEF fits
  <1>7. j \in Jobs /\ j.pc = "list" /\ j.event = e /\ j.comments = read
    BY <1>2, <1>6 DEF Idle, Jobs
  <1> HIDE DEF e, read, j
  <1>8. CASE Moves(t, thread[t], None, e, job[t])
    <2>1. Recalled(t, None, e, job[t]) /\ Settled(t, job[t])
      BY DEF Recalled, Settled, e
    <2> QED
      BY <1>1, <1>2, <1>4, <1>8, <2>1, QuietStep
  <1>9. CASE Moves(t, thread[t], None, last[t], j)
    <2>1. /\ BotTypeOK'
          /\ thread'[t] = thread[t] /\ waiting'[t] = None /\ last'[t] = last[t] /\ job'[t] = j
          /\ \A s \in Threads \ {t} :
               thread'[s] = thread[s] /\ waiting'[s] = waiting[s] /\ last'[s] = last[s] /\ job'[s] = job[s]
      BY <1>1, <1>2, <1>4, <1>7, <1>9, MovesTyped
    <2>2. fresh(t)'
      BY <1>7, <2>1 DEF fresh
    <2>3. snapshot(t)'
      <3>1. SUFFICES ASSUME isDiscussion(t), fits(t)' PROVE current(t)'
        BY DEF snapshot, isDiscussion
      <3>2. j.comments = thread[t].comments
        BY <1>6, <1>7, <2>1, <3>1 DEF fits
      <3>3. /\ Len(thread[t].comments) \in Nat
            /\ DOMAIN thread[t].comments = 1 .. Len(thread[t].comments)
        BY <1>5
      <3> QED
        BY <1>1, <2>1, <3>2, <3>3 DEF current, ownComments
    <2>4. \A event \in {waiting'[t], last'[t], job'[t].event} \ {None} :
            event \in {waiting[t], last[t], job[t].event}
      BY <1>7, <2>1 DEF e
    <2>5. ThreadOK(t)'
      BY <1>1, <1>2, <1>7, <2>1, <2>2, <2>3, <2>4, RunsMove
    <2> QED
      BY <2>1, <2>5, OthersStill
  <1> QED
    BY <1>3, <1>8, <1>9

\* The guard finds whatever the bot has answered before, as long as it sees the thread.
LEMMA GuardFresh ==
  ASSUME BotTypeOK, NEW t \in Threads, thread[t] \in Opened, ThreadOK(t), fits(t), job[t].pc = "list",
         NEW event, event = job[t].event, NEW comments, comments = listIssueComments(t),
         ~ alreadyCommented(event, comments), ~ answeredBefore(comments, event.user)
  PROVE  \A k \in ownComments(t) : ~ sameAnswer(thread[t].comments[k], inHand(t))
  <1> DEFINE all == thread[t].comments
  <1>1. all \in Seq(Comments) /\ thread[t] # None
    BY NotNone DEF Opened
  <1>2. ASSUME NEW k \in ownComments(t)
        PROVE  /\ k \in DOMAIN comments
               /\ \A i \in 1 .. k : i \in DOMAIN comments /\ comments[i] = all[i]
    <2>1. k \in DOMAIN all /\ Len(all) \in Nat /\ DOMAIN all = 1 .. Len(all)
      BY <1>1 DEF ownComments
    <2>2. CASE isDiscussion(t)
      <3>1. comments = job[t].comments
        BY <2>2 DEF listIssueComments
      <3>2. current(t)
        BY <2>2 DEF ThreadOK, snapshot
      <3>3. comments \in Seq(Comments)
        BY <3>1 DEF BotTypeOK, Jobs
      <3>4. DOMAIN comments = 1 .. Len(comments) /\ Len(comments) \in Nat
        BY <3>3
      <3>5. k <= Len(comments)
        BY <1>2, <3>1, <3>2 DEF current
      <3> QED
        BY <2>1, <3>1, <3>2, <3>4, <3>5 DEF current
    <2>3. CASE ~ isDiscussion(t)
      <3>1. comments = First(all, ThreadPage)
        BY <2>3 DEF listIssueComments
      <3>2. comments = all
        BY <1>1, <3>1, WholeList, BotAssumption DEF fits
      <3> QED
        BY <2>1, <3>2
    <2> QED
      BY <2>2, <2>3
  <1>3. ASSUME NEW k \in ownComments(t), sameAnswer(all[k], inHand(t)) PROVE FALSE
    <2>1. all[k].to = event.user /\ all[k].surface = event.surface /\ event.surface # "discussion"
      BY <1>3 DEF sameAnswer, inHand
    <2>2. k \in DOMAIN comments /\ comments[k] = all[k] /\ comments[k].own
      <3>1. k \in DOMAIN all /\ all[k].own
        BY <1>1 DEF ownComments
      <3>2. k \in 1 .. k
        BY <1>1, <3>1
      <3> QED
        BY <1>2, <3>1, <3>2
    <2>3. event.surface # "issue"
      BY <2>2 DEF alreadyCommented
    <2>4. onComment(all[k].surface)
      BY <2>1, <2>3 DEF onComment
    <2>5. PICK i \in 1 .. k - 1 : all[i].user = all[k].to
      BY <2>4 DEF ThreadOK, after
    <2>6. i \in 1 .. k /\ i < k
      <3>1. k \in Int
        BY <1>1 DEF ownComments
      <3> QED
        BY <3>1
    <2>7. i \in DOMAIN comments /\ comments[i].user = event.user
      BY <1>2, <2>1, <2>5, <2>6
    <2> QED
      BY <2>2, <2>6, <2>7 DEF answeredBefore
  <1> QED
    BY <1>3

LEMMA GuardStep ==
  ASSUME ThreadsOK, NEW t \in Threads, Guard(t)
  PROVE  ThreadsOK'
  <1>ok. BotTypeOK /\ ThreadOK(t)
    BY DEF ThreadsOK
  <1> USE <1>ok
  <1> DEFINE event == job[t].event
             comments == listIssueComments(t)
             j == [job[t] EXCEPT !.pc = "count"]
  <1>1. job[t].pc = "list" /\ UNCHANGED << thread, waiting, day, enabled, acts >>
    BY DEF Guard, At
  <1>2. thread[t] \in Opened /\ thread[t] # None /\ job[t] \in Jobs
    BY <1>1, RunsHaveThreads, NotNone DEF ThreadOK, BotTypeOK
  <1>3. CASE end(t)
    BY <1>1, <1>2, <1>3, EndStep
  <1>4. CASE ~ end(t)
    <2>1. /\ ~ alreadyCommented(event, comments) /\ shouldReply(event, TRUE, comments)
          /\ job' = [job EXCEPT ![t].pc = "count"] /\ last' = last
      BY <1>4 DEF Guard
    <2>2. ~ answeredBefore(comments, event.user)
      BY <2>1 DEF shouldReply
    <2>3. fits(t) => \A k \in ownComments(t) : ~ sameAnswer(thread[t].comments[k], inHand(t))
      BY <1>1, <1>2, <2>1, <2>2, GuardFresh
    <2>4. j \in Jobs /\ j.pc = "count" /\ j.event = job[t].event
      BY <1>2 DEF Jobs
    <2>5. Moves(t, thread[t], waiting[t], last[t], j)
      BY <1>1, <2>1, Still DEF Moves
    <2>6. RestTyped
      BY <1>1 DEF BotTypeOK, RestTyped
    <2>7. waiting[t] \in Events \cup {None} /\ last[t] \in Events \cup {None}
      BY DEF BotTypeOK
    <2> HIDE DEF j, event, comments
    <2>8. /\ BotTypeOK'
          /\ thread'[t] = thread[t] /\ waiting'[t] = waiting[t] /\ last'[t] = last[t] /\ job'[t] = j
          /\ \A s \in Threads \ {t} :
               thread'[s] = thread[s] /\ waiting'[s] = waiting[s] /\ last'[s] = last[s] /\ job'[s] = job[s]
      BY <1>2, <2>4, <2>5, <2>6, <2>7, MovesTyped
    <2>9. snapshot(t)'
      BY <2>4, <2>8 DEF snapshot
    <2>10. fresh(t)'
      BY <1>1, <2>3, <2>4, <2>8 DEF fresh, fits, ownComments, inHand
    <2>11. \A e \in {waiting'[t], last'[t], job'[t].event} \ {None} :
             e \in {waiting[t], last[t], job[t].event}
      BY <2>4, <2>8
    <2>12. job'[t].event # None
      BY <1>1, <2>4, <2>8 DEF ThreadOK, sourced
    <2>13. ThreadOK(t)'
      BY <1>2, <2>8, <2>9, <2>10, <2>11, <2>12, RunsMove
    <2> QED
      BY <2>8, <2>13, OthersStill
  <1> QED
    BY <1>3, <1>4

\* A run that composes has the reply in hand, for the person the guard let through.
LEMMA ComposeStep ==
  ASSUME ThreadsOK, NEW t \in Threads, NEW from \in Checkouts, NEW said, Compose(t, from, said)
  PROVE  ThreadsOK'
  <1>ok. BotTypeOK /\ ThreadOK(t)
    BY DEF ThreadsOK
  <1> USE <1>ok
  <1> DEFINE reply == Reply[thread[t].text][from]
             labels == labelsWith(reply, said)
             j == [job[t] EXCEPT !.pc = "post", !.from = from, !.labels = labels]
  <1>1. job[t].pc = "count" /\ UNCHANGED << thread, waiting, day, enabled, acts >>
    BY DEF Compose, At
  <1>2. thread[t] \in Opened /\ thread[t] # None /\ job[t] \in Jobs
    BY <1>1, RunsHaveThreads, NotNone DEF ThreadOK, BotTypeOK
  <1>3. labels \in SUBSET ALLOWED_LABELS
    <2>1. thread[t].text \in AllTexts
      BY <1>2 DEF Opened
    <2> QED
      BY <2>1, RunLabels
  <1> HIDE DEF reply, labels
  <1>4. j \in Jobs /\ j.pc = "post" /\ j.event = job[t].event
    BY <1>2, <1>3 DEF Jobs
  <1>5. CASE end(t)
    BY <1>1, <1>2, <1>5, EndStep
  <1>6. CASE ~ end(t)
    <2>1. job' = [job EXCEPT ![t].pc = "post", ![t].from = from, ![t].labels = labels] /\ last' = last
      BY <1>6 DEF Compose, composed, labels, reply
    <2>2. Moves(t, thread[t], waiting[t], last[t], j)
      BY <1>1, <2>1, Still DEF Moves
    <2>3. RestTyped
      BY <1>1 DEF BotTypeOK, RestTyped
    <2>4. waiting[t] \in Events \cup {None} /\ last[t] \in Events \cup {None}
      BY DEF BotTypeOK
    <2> HIDE DEF j
    <2>5. /\ BotTypeOK'
          /\ thread'[t] = thread[t] /\ waiting'[t] = waiting[t] /\ last'[t] = last[t] /\ job'[t] = j
          /\ \A s \in Threads \ {t} :
               thread'[s] = thread[s] /\ waiting'[s] = waiting[s] /\ last'[s] = last[s] /\ job'[s] = job[s]
      BY <1>2, <1>4, <2>2, <2>3, <2>4, MovesTyped
    <2>6. snapshot(t)'
      BY <1>4, <2>5 DEF snapshot
    <2>7. fresh(t)'
      BY <1>1, <1>4, <2>5 DEF ThreadOK, fresh, fits, ownComments, inHand
    <2>8. \A e \in {waiting'[t], last'[t], job'[t].event} \ {None} :
            e \in {waiting[t], last[t], job[t].event}
      BY <1>4, <2>5
    <2>9. job'[t].event # None
      BY <1>1, <1>4, <2>5 DEF ThreadOK, sourced
    <2>10. ThreadOK(t)'
      BY <1>2, <2>5, <2>6, <2>7, <2>8, <2>9, RunsMove
    <2> QED
      BY <2>5, <2>10, OthersStill
  <1> QED
    BY <1>5, <1>6

\* The answer is the first to this person, and stands after what it answers.
LEMMA PostStep ==
  ASSUME ThreadsOK, NEW t \in Threads, NEW answerLost \in BOOLEAN, Post(t, answerLost)
  PROVE  ThreadsOK'
  <1>ok. BotTypeOK /\ ThreadOK(t)
    BY DEF ThreadsOK
  <1> USE <1>ok
  <1> DEFINE e == job[t].event
             c == [user |-> None, own |-> TRUE, to |-> e.user, surface |-> e.surface, from |-> job[t].from]
             x == [thread[t] EXCEPT !.comments = Append(@, c)]
  <1>1. job[t].pc = "post" /\ job[t] \in Jobs /\ e \in Events /\ e # None
    <2>1. job[t].pc = "post" /\ job[t] \in Jobs
      BY DEF Post, At, BotTypeOK
    <2> QED
      BY <2>1 DEF ThreadOK, sourced, Jobs
  <1>2. thread[t] \in Opened /\ thread[t] # None
    BY <1>1, RunsHaveThreads, NotNone DEF ThreadOK
  <1>3. c \in Comments /\ c.own = TRUE /\ c.to = e.user /\ c.surface = e.surface
    BY <1>1 DEF Comments, Jobs, Events
  <1>4. thread' = [thread EXCEPT ![t] = x] /\ day' = ofTheDay(t, TRUE)
    BY DEF Post, createComment
  <1>5. waiting' = waiting /\ enabled' = enabled /\ acts' = acts
    BY DEF Post
  <1>6. PICK j \in Jobs, l \in Events \cup {None} :
          /\ job' = [job EXCEPT ![t] = j] /\ last' = [last EXCEPT ![t] = l]
          /\ Recalled(t, waiting[t], l, j) /\ (j = Idle \/ (j.pc = "label" /\ j.event # None))
    <2>1. CASE end(t)
      <3>1. job' = [job EXCEPT ![t] = Idle] /\ last' = [last EXCEPT ![t] = e]
        BY <2>1 DEF end
      <3>2. Recalled(t, waiting[t], e, Idle)
        BY IdleTyped DEF Recalled
      <3> HIDE DEF e
      <3> QED
        BY <1>1, <3>1, <3>2, IdleTyped
    <2>2. CASE ~ end(t)
      <3> DEFINE j == [job[t] EXCEPT !.pc = "label"]
      <3>1. job' = [job EXCEPT ![t] = j] /\ last' = [last EXCEPT ![t] = last[t]]
        BY <2>2, Still DEF Post
      <3>2. j \in Jobs /\ j.pc = "label" /\ j.event = e
        BY <1>1 DEF Jobs
      <3>3. Recalled(t, waiting[t], last[t], j) /\ last[t] \in Events \cup {None}
        BY <3>2 DEF Recalled, BotTypeOK
      <3> HIDE DEF e, j
      <3> QED
        BY <1>1, <3>1, <3>2, <3>3
    <2> QED
      BY <2>1, <2>2
  <1> HIDE DEF c
  <1>7. x \in Opened /\ x.comments = Append(thread[t].comments, c)
    <2>1. thread[t].comments \in Seq(Comments)
      BY <1>2 DEF Opened
    <2>2. Append(thread[t].comments, c) \in Seq(Comments)
      BY <1>3, <2>1
    <2> QED
      BY <1>2, <2>2 DEF Opened
  <1>8. RestTyped
    <2>1. day' \in Seq(BOOLEAN)
      BY <1>4, DayTyped, Zenon
    <2>2. enabled' \in BOOLEAN /\ acts' \in Nat
      BY <1>5 DEF BotTypeOK
    <2> QED
      BY <2>1, <2>2 DEF RestTyped
  <1>9. Moves(t, x, waiting[t], l, j) /\ waiting[t] \in Events \cup {None}
    <2>1. waiting' = [waiting EXCEPT ![t] = waiting[t]] /\ waiting[t] \in Events \cup {None}
      BY <1>5, Still DEF BotTypeOK
    <2> QED
      BY <1>4, <1>6, <2>1 DEF Moves
  <1> HIDE DEF e, x
  <1>10. /\ BotTypeOK'
         /\ thread'[t] = x /\ waiting'[t] = waiting[t] /\ last'[t] = l /\ job'[t] = j
         /\ \A s \in Threads \ {t} :
              thread'[s] = thread[s] /\ waiting'[s] = waiting[s] /\ last'[s] = last[s] /\ job'[s] = job[s]
    BY <1>6, <1>7, <1>8, <1>9, MovesTyped
  <1>11. ThreadOK(t)'
    <2> DEFINE n == Len(thread[t].comments)
    <2>1. thread'[t] \in Opened /\ thread'[t].comments = Append(thread[t].comments, c)
      BY <1>7, <1>10
    <2>2. /\ thread'[t] # None /\ n \in Nat
          /\ DOMAIN thread[t].comments = 1 .. n
          /\ \A i \in 1 .. n : thread'[t].comments[i] = thread[t].comments[i]
          /\ thread'[t].comments[n + 1] = c
          /\ fits(t)' => fits(t)
          /\ ownComments(t) \subseteq 1 .. n
          /\ ownComments(t)' = ownComments(t) \cup {n + 1}
      BY <1>2, <1>3, <2>1, Appended
    <2>3. /\ \A event : happened(t, event) => happened(t, event)'
          /\ \A k \in ownComments(t) : onComment(thread'[t].comments[k].surface) =>
               \E i \in 1 .. k - 1 : thread'[t].comments[i].user = thread'[t].comments[k].to
          /\ fits(t)' => \A i, k \in ownComments(t) :
               sameAnswer(thread'[t].comments[i], thread'[t].comments[k]) => i = k
      BY <1>2, <1>3, <2>1, AppendedStays
    <2>4. j.pc \in {"idle", "label"} /\ (j.pc # "idle" => j.event # None)
      BY <1>6, IdleTyped
    <2>5. sourced(t)'
      BY <1>6, <1>10, <2>3, <2>4 DEF ThreadOK, sourced, Recalled
    <2>6. snapshot(t)' /\ fresh(t)'
      BY <1>10, <2>4 DEF snapshot, fresh
    <2>7. onComment(c.surface) => \E i \in 1 .. n : thread'[t].comments[i].user = c.to
      <3>1. SUFFICES ASSUME onComment(c.surface)
                     PROVE  \E i \in 1 .. n : thread'[t].comments[i].user = c.to
        OBVIOUS
      <3>2. happened(t, e)
        BY <1>1 DEF ThreadOK, sourced, e
      <3>3. commented(t, e.user)
        BY <1>3, <3>1, <3>2 DEF happened
      <3> QED
        BY <1>3, <2>2, <3>3 DEF commented
    <2>8. after(t)'
      <3>1. SUFFICES ASSUME NEW k \in ownComments(t)', onComment(thread'[t].comments[k].surface)
                     PROVE  \E i \in 1 .. k - 1 : thread'[t].comments[i].user = thread'[t].comments[k].to
        BY DEF after
      <3>2. CASE k \in ownComments(t)
        BY <2>3, <3>1, <3>2
      <3>3. CASE k = n + 1
        <4>1. thread'[t].comments[k] = c /\ 1 .. k - 1 = 1 .. n
          BY <2>2, <3>3
        <4> QED
          BY <2>7, <3>1, <4>1
      <3> QED
        BY <2>2, <3>1, <3>2, <3>3
    <2>9. answeredOnce(t)'
      <3>1. SUFFICES ASSUME fits(t)', NEW i \in ownComments(t)', NEW k \in ownComments(t)',
                            sameAnswer(thread'[t].comments[i], thread'[t].comments[k])
                     PROVE  i = k
        BY DEF answeredOnce
      <3>2. \A m \in ownComments(t) : ~ sameAnswer(thread[t].comments[m], inHand(t))
        BY <1>1, <2>2, <3>1 DEF ThreadOK, fresh
      <3>3. \A m \in ownComments(t) : /\ ~ sameAnswer(thread'[t].comments[m], c)
                                      /\ ~ sameAnswer(c, thread'[t].comments[m])
        BY <1>3, <2>2, <3>2 DEF sameAnswer, inHand, e
      <3> QED
        BY <2>2, <2>3, <3>1, <3>3
    <2> QED
      BY <2>5, <2>6, <2>8, <2>9 DEF ThreadOK
  <1> QED
    BY <1>10, <1>11, OthersStill

\* Labels change nothing that a run goes by.
LEMMA LabelStep ==
  ASSUME ThreadsOK, NEW t \in Threads, NEW refused \in BOOLEAN, Label(t, refused)
  PROVE  ThreadsOK'
  <1>ok. BotTypeOK /\ ThreadOK(t)
    BY DEF ThreadsOK
  <1> USE <1>ok
  <1> DEFINE y == [thread[t] EXCEPT !.labels = @ \cup job[t].labels]
             x == IF refused THEN thread[t] ELSE y
  <1>1. job[t].pc = "label" /\ job[t] \in Jobs /\ UNCHANGED << waiting, day, enabled, acts >>
    BY DEF Label, At, BotTypeOK
  <1>2. thread[t] \in Opened
    BY <1>1, RunsHaveThreads DEF ThreadOK
  <1>3. y \in Opened /\ y.comments = thread[t].comments
    BY <1>1, <1>2 DEF Opened, Jobs
  <1>4. thread' = [thread EXCEPT ![t] = x]
    <2>1. refused => thread' = thread
      BY DEF Label
    <2>2. ~ refused => thread' = [thread EXCEPT ![t] = y]
      BY DEF Label
    <2>3. thread = [thread EXCEPT ![t] = thread[t]]
      BY Still
    <2> HIDE DEF y
    <2> QED
      BY <2>1, <2>2, <2>3
  <1> HIDE DEF y
  <1>5. x \in Opened /\ x.comments = thread[t].comments
    BY <1>2, <1>3
  <1> HIDE DEF x
  <1>6. Moves(t, x, waiting[t], job[t].event, Idle) /\ waiting[t] \in Events \cup {None}
        /\ job[t].event \in Events \cup {None}
    <2>1. job' = [job EXCEPT ![t] = Idle] /\ last' = [last EXCEPT ![t] = job[t].event]
      BY DEF Label, end
    <2>2. waiting' = [waiting EXCEPT ![t] = waiting[t]] /\ waiting[t] \in Events \cup {None}
      BY <1>1, Still DEF BotTypeOK
    <2> QED
      BY <1>1, <1>4, <2>1, <2>2 DEF Moves, Jobs
  <1>7. Recalled(t, waiting[t], job[t].event, Idle) /\ Settled(t, Idle)
    BY IdleTyped DEF Recalled, Settled
  <1>8. RestTyped
    BY <1>1 DEF BotTypeOK, RestTyped
  <1> QED
    BY <1>2, <1>5, <1>6, <1>7, <1>8, IdleTyped, QuietStep

\* The inductive step for the threads.
LEMMA NextThreads == ThreadsOK /\ [BotNext]_botVars => ThreadsOK'
  <1> SUFFICES ASSUME ThreadsOK, [BotNext]_botVars PROVE ThreadsOK'
    OBVIOUS
  <1>ok. BotTypeOK
    BY DEF ThreadsOK
  <1>1. ASSUME NEW t \in Threads, PostFails(t) PROVE ThreadsOK'
    <2>1. end(t) /\ UNCHANGED << thread, waiting, day, enabled, acts >> /\ job[t].pc = "post"
      BY <1>1 DEF PostFails, At
    <2>2. thread[t] \in Opened
      BY <1>ok, <2>1, RunsHaveThreads DEF ThreadsOK, ThreadOK
    <2> QED
      BY <2>1, <2>2, EndStep
  <1>2. ASSUME UNCHANGED << thread, waiting, job, last, day >>, enabled' \in BOOLEAN, acts' \in Nat
        PROVE  ThreadsOK'
    <2>1. BotTypeOK'
      BY <1>ok, <1>2 DEF BotTypeOK
    <2> QED
      BY <1>2, <2>1, ThreadStill DEF ThreadsOK
  <1>3. CASE Disable
    <2>1. UNCHANGED << thread, waiting, job, last, day >> /\ enabled' \in BOOLEAN /\ acts' \in Nat
      <3>1. UNCHANGED << thread, waiting, job, last, day >> /\ enabled' = FALSE /\ acts' = acts + 1
        BY <1>3, Zenon DEF Disable, act
      <3>2. enabled' \in BOOLEAN
        BY <3>1, Zenon
      <3>3. acts' \in Nat
        BY <1>ok, <3>1 DEF BotTypeOK
      <3> QED
        BY <3>1, <3>2, <3>3
    <2> QED
      BY <1>2, <2>1
  <1>4. CASE UNCHANGED botVars
    BY <1>ok, <1>2, <1>4 DEF botVars, BotTypeOK
  <1> QED
    BY <1>1, <1>3, <1>4, OpenStep, CommentStep, PeopleStep, BeginStep, GuardStep, ComposeStep, PostStep,
       LabelStep DEF BotNext

\* Sets of threads have a size, which grows by one and shrinks with them.
LEMMA CountingThreads ==
  ASSUME NEW S \in SUBSET Threads
  PROVE  /\ Cardinality(S) \in Nat
         /\ \A T \in SUBSET S : Cardinality(T) \in Nat /\ Cardinality(T) <= Cardinality(S)
         /\ \A t \in S : Cardinality(S \ {t}) = Cardinality(S) - 1
  <1>1. IsFiniteSet(S) /\ Cardinality(S) \in Nat
    BY BotAssumption, FS_Subset, FS_CardinalityType
  <1>2. ASSUME NEW T \in SUBSET S PROVE Cardinality(T) \in Nat /\ Cardinality(T) <= Cardinality(S)
    BY <1>1, FS_Subset, FS_CardinalityType
  <1>3. ASSUME NEW t \in S PROVE Cardinality(S \ {t}) = Cardinality(S) - 1
    BY <1>1, FS_RemoveElement, Zenon
  <1> QED
    BY <1>1, <1>2, <1>3

\* How many comments of a day are the bot's, and what one more makes of it.
LEMMA OwnInDay ==
  ASSUME BotTypeOK, NEW own \in BOOLEAN
  PROVE  /\ ownIn(day) \in Nat /\ Len(day) \in Nat
         /\ Len(Append(day, own)) = Len(day) + 1
         /\ ownIn(Append(day, own)) = IF own THEN ownIn(day) + 1 ELSE ownIn(day)
  <1> DEFINE n == Len(day)
             S == {i \in DOMAIN day : day[i]}
             T == {i \in DOMAIN Append(day, own) : Append(day, own)[i]}
  <1>1. /\ n \in Nat /\ DOMAIN day = 1 .. n /\ Len(Append(day, own)) = n + 1
        /\ DOMAIN Append(day, own) = 1 .. n + 1
        /\ \A i \in 1 .. n : Append(day, own)[i] = day[i]
        /\ Append(day, own)[n + 1] = own
    <2>1. \A V : \A seq \in Seq(V) : \A x \in V :
            /\ Len(seq) \in Nat /\ DOMAIN seq = 1 .. Len(seq) /\ Len(Append(seq, x)) = Len(seq) + 1
            /\ DOMAIN Append(seq, x) = 1 .. Len(seq) + 1
            /\ \A i \in 1 .. Len(seq) : Append(seq, x)[i] = seq[i]
            /\ Append(seq, x)[Len(seq) + 1] = x
      OBVIOUS
    <2> QED
      BY <2>1, Zenon DEF BotTypeOK
  <1>2. S \in SUBSET (1 .. n) /\ IsFiniteSet(1 .. n)
    BY <1>1, FS_Interval
  <1>3. IsFiniteSet(S) /\ Cardinality(S) \in Nat /\ n + 1 \notin S
    BY <1>1, <1>2, FS_Subset, FS_CardinalityType
  <1>4. CASE own = TRUE
    <2>1. T = S \cup {n + 1}
      <3>1. \A i : i \in T <=> i \in S \/ i = n + 1
        <4>1. \A i : i \in 1 .. n + 1 <=> i \in 1 .. n \/ i = n + 1
          BY <1>1
        <4>2. n + 1 \notin 1 .. n
          BY <1>1
        <4> QED
          BY <1>1, <1>4, <4>1, <4>2, Zenon
      <3> QED
        BY <3>1, Zenon
    <2>2. Cardinality(T) = Cardinality(S) + 1
      BY <1>3, <2>1, FS_AddElement, Zenon
    <2> QED
      BY <1>1, <1>3, <1>4, <2>2, Zenon DEF ownIn
  <1>5. CASE own = FALSE
    <2>1. T = S
      <3>1. \A i : i \in T <=> i \in S
        <4>1. \A i : i \in 1 .. n + 1 <=> i \in 1 .. n \/ i = n + 1
          BY <1>1
        <4>2. n + 1 \notin 1 .. n
          BY <1>1
        <4> QED
          BY <1>1, <1>5, <4>1, <4>2, Zenon
      <3> QED
        BY <3>1, Zenon
    <2> QED
      BY <1>1, <1>3, <1>5, <2>1, Zenon DEF ownIn
  <1> QED
    BY <1>4, <1>5, Zenon

\* A step that posts nothing on an issue and sends no run to post on one.
LEMMA CapQuietStep ==
  ASSUME BotTypeOK, CapHolds, day' = day \/ day' = Append(day, FALSE), posting' \subseteq posting
  PROVE  CapHolds'
  <1>1. posting \in SUBSET Threads /\ Cardinality(counted) \in Nat /\ counted' = counted
    BY CountingThreads DEF posting, counted, isDiscussion
  <1>2. Cardinality(posting) \in Nat /\ Cardinality(posting') \in Nat
        /\ Cardinality(posting') <= Cardinality(posting)
    BY <1>1, CountingThreads
  <1>3. /\ ownIn(day) \in Nat /\ ownIn(day') = ownIn(day)
        /\ Len(day) \in Nat /\ Len(day') >= Len(day) /\ Len(day') \in Nat
    <2>1. /\ ownIn(day) \in Nat /\ Len(day) \in Nat
          /\ ownIn(Append(day, FALSE)) = ownIn(day) /\ Len(Append(day, FALSE)) = Len(day) + 1
      BY OwnInDay, Zenon
    <2>2. CASE day' = day
      BY <2>1, <2>2
    <2>3. CASE day' = Append(day, FALSE)
      <3>1. ownIn(day') = ownIn(day) /\ Len(day') = Len(day) + 1
        BY <2>1, <2>3, Zenon
      <3> QED
        BY <2>1, <3>1
    <2> QED
      BY <2>2, <2>3
  <1>4. Len(day') <= DayPage => Len(day) <= DayPage
    BY <1>3, BotAssumption
  <1> QED
    BY <1>1, <1>2, <1>3, <1>4, BotAssumption DEF CapHolds

\* A run that gets past the count finds room for itself, and for all that are past it.
LEMMA CapComposes ==
  ASSUME BotTypeOK, CapHolds, NEW t \in Threads, NEW from \in Checkouts, NEW said, Compose(t, from, said)
  PROVE  CapHolds'
  <1>1. day' = day
    BY DEF Compose
  <1>2. CASE end(t)
    <2>1. posting' \subseteq posting
      BY <1>2, IdleTyped DEF end, posting, counted, isDiscussion, BotTypeOK
    <2> QED
      BY <1>1, <2>1, CapQuietStep
  <1>3. CASE ~ end(t)
    <2>1. ~ capReached(countRecentBotComments)
      BY <1>3 DEF Compose, composed
    <2>2. ASSUME Len(day) <= DayPage PROVE ownIn(day) < DAILY_COMMENT_CAP
      <3>1. First(day, DayPage) = day
        BY <2>2, WholeList, BotAssumption DEF BotTypeOK
      <3>2. ~ ownIn(day) >= DAILY_COMMENT_CAP
        BY <2>1, <3>1 DEF capReached, countRecentBotComments
      <3>3. ownIn(day) \in Nat
        BY OwnInDay
      <3> QED
        BY <3>2, <3>3, BotAssumption
    <2>3. posting' \in SUBSET counted' /\ counted' = counted /\ counted \in SUBSET Threads
      BY DEF posting, counted, isDiscussion
    <2>4. Cardinality(posting') \in Nat /\ Cardinality(counted) \in Nat
          /\ Cardinality(posting') <= Cardinality(counted)
      BY <2>3, CountingThreads
    <2>5. ownIn(day) \in Nat
      BY OwnInDay
    <2> QED
      BY <1>1, <2>2, <2>3, <2>4, <2>5, BotAssumption DEF CapHolds
  <1> QED
    BY <1>2, <1>3

\* A post is one comment more and one run less on its way.
LEMMA CapPosts ==
  ASSUME BotTypeOK, CapHolds, NEW t \in Threads, NEW answerLost \in BOOLEAN, Post(t, answerLost)
  PROVE  CapHolds'
  <1>1. /\ job[t].pc = "post" /\ job \in [Threads -> Jobs]
        /\ day' = ofTheDay(t, TRUE)
    BY DEF Post, At, createComment, BotTypeOK
  <1>2. /\ job'[t].pc # "post" /\ \A s \in Threads \ {t} : job'[s] = job[s]
    <2>1. CASE end(t)
      BY <1>1, <2>1, IdleTyped DEF end
    <2>2. CASE ~ end(t)
      BY <1>1, <2>2 DEF Post, Jobs
    <2> QED
      BY <2>1, <2>2
  <1>3. posting' = posting \ {t} /\ posting \in SUBSET Threads
    BY <1>2 DEF posting, counted, isDiscussion
  <1>4. CASE isDiscussion(t)
    BY <1>1, <1>3, <1>4, CapQuietStep DEF ofTheDay
  <1>5. CASE ~ isDiscussion(t)
    <2>1. t \in posting /\ counted' = counted
      BY <1>1, <1>5 DEF posting, counted, isDiscussion
    <2>2. Cardinality(posting) \in Nat /\ Cardinality(posting') = Cardinality(posting) - 1
      BY <1>3, <2>1, CountingThreads
    <2>3. day' = Append(day, TRUE)
      BY <1>1, <1>5, Zenon DEF ofTheDay
    <2>4. /\ ownIn(day) \in Nat /\ Len(day) \in Nat
          /\ ownIn(Append(day, TRUE)) = ownIn(day) + 1 /\ Len(Append(day, TRUE)) = Len(day) + 1
      BY OwnInDay, Zenon
    <2>5. ownIn(day') = ownIn(day) + 1 /\ Len(day') = Len(day) + 1
      BY <2>3, <2>4, Zenon
    <2>6. Cardinality(counted) \in Nat
      BY CountingThreads DEF counted
    <2> QED
      BY <2>1, <2>2, <2>4, <2>5, <2>6, BotAssumption DEF CapHolds
  <1> QED
    BY <1>4, <1>5

\* The inductive step for the cap.
LEMMA NextCap == BotTypeOK /\ CapHolds /\ [BotNext]_botVars => CapHolds'
  <1> SUFFICES ASSUME BotTypeOK, CapHolds, [BotNext]_botVars PROVE CapHolds'
    OBVIOUS
  <1>1. ASSUME job' = job, day' = day PROVE CapHolds'
    BY <1>1, CapQuietStep DEF posting, counted, isDiscussion
  <1>2. ASSUME NEW t \in Threads, end(t), day' = day PROVE CapHolds'
    <2>1. posting' \subseteq posting
      BY <1>2, IdleTyped DEF end, posting, counted, isDiscussion, BotTypeOK
    <2> QED
      BY <1>2, <2>1, CapQuietStep
  <1>3. ASSUME NEW t \in Threads, NEW user \in Writers[t], Comment(t, user) PROVE CapHolds'
    <2>1. day' = day \/ day' = Append(day, FALSE)
      BY <1>3, Zenon DEF Comment, ofTheDay
    <2>2. posting' \subseteq posting
      BY <1>3, Zenon DEF Comment, posting, counted, isDiscussion
    <2> QED
      BY <2>1, <2>2, CapQuietStep
  <1>4. ASSUME NEW t \in Threads, Begin(t) PROVE CapHolds'
    <2>1. day' = day
      BY <1>4, Zenon DEF Begin
    <2>2. PICK j : j.pc = "list" /\ (job' = [job EXCEPT ![t] = j] \/ job' = job)
      <3> DEFINE read == IF isDiscussion(t) THEN First(thread[t].comments, ThreadPage) ELSE << >>
                 k == [Idle EXCEPT !.pc = "list", !.event = waiting[t], !.comments = read]
      <3>1. k.pc = "list"
        BY DEF Idle
      <3>2. job' = [job EXCEPT ![t] = k] \/ job' = job
        BY <1>4, Zenon DEF Begin
      <3> QED
        BY <3>1, <3>2, Zenon
    <2>3. posting' \subseteq posting
      BY <2>2 DEF posting, counted, isDiscussion, BotTypeOK
    <2> QED
      BY <2>1, <2>3, CapQuietStep
  <1>5. ASSUME NEW t \in Threads, Guard(t) PROVE CapHolds'
    <2>1. CASE end(t)
      BY <1>2, <1>5, <2>1 DEF Guard
    <2>2. CASE ~ end(t)
      <3>1. job' = [job EXCEPT ![t].pc = "count"] /\ day' = day
        BY <1>5, <2>2 DEF Guard
      <3>2. posting' \subseteq posting
        BY <3>1 DEF posting, counted, isDiscussion, BotTypeOK, Jobs
      <3> QED
        BY <3>1, <3>2, CapQuietStep
    <2> QED
      BY <2>1, <2>2
  <1>6. ASSUME NEW t \in Threads, Close(t) \/ Rerun(t) \/ Skip(t) PROVE CapHolds'
    <2>1. job' = job /\ day' = day
      BY <1>6, Zenon DEF Close, Rerun, Skip
    <2> QED
      BY <1>1, <2>1
  <1>7. ASSUME NEW t \in Threads, NEW user \in Openers[t], NEW text \in Texts[t], Open(t, user, text)
        PROVE  CapHolds'
    BY <1>1, <1>7 DEF Open
  <1>8. ASSUME NEW t \in Threads, PostFails(t) PROVE CapHolds'
    BY <1>2, <1>8 DEF PostFails
  <1>9. ASSUME NEW t \in Threads, NEW refused \in BOOLEAN, Label(t, refused) PROVE CapHolds'
    BY <1>2, <1>9 DEF Label
  <1>10. CASE UNCHANGED botVars
    BY <1>1, <1>10 DEF botVars
  <1>11. CASE Disable
    BY <1>1, <1>11, Zenon DEF Disable
  <1> QED
    BY <1>3, <1>4, <1>5, <1>6, <1>7, <1>8, <1>9, <1>10, <1>11, CapComposes, CapPosts DEF BotNext

\* The inductive invariant holds throughout.
LEMMA BotInvariant == BotSpec => []BotInv
  <1>1. BotInv /\ [BotNext]_botVars => BotInv'
    BY NextThreads, NextCap DEF BotInv, ThreadsOK
  <1> QED
    BY <1>1, InitBot, PTL DEF BotSpec

\* Nobody is answered twice for a comment, nor an issue that is opened, whatever
\* people write, whatever fails and is started again.
THEOREM NobodyIsAnsweredTwice == BotSpec => []NeverTwiceToOnePerson
  <1>1. BotInv => NeverTwiceToOnePerson
    BY DEF BotInv, ThreadOK, NeverTwiceToOnePerson
  <1> QED
    BY <1>1, BotInvariant, PTL

\* The day's comments pass the cap by the runs that overlap at most.
THEOREM DailyCapHolds == BotSpec => []DailyCapWithinOverlap
  <1>1. ASSUME BotInv PROVE DailyCapWithinOverlap
    <2>1. BotTypeOK /\ CapHolds
      BY <1>1 DEF BotInv
    <2>2. Cardinality(posting) \in Nat /\ Cardinality(counted) \in Nat
      BY CountingThreads DEF posting, counted
    <2>3. ownIn(day) \in Nat
      BY <2>1, OwnInDay
    <2> QED
      BY <2>1, <2>2, <2>3, BotAssumption DEF CapHolds, DailyCapWithinOverlap
  <1> QED
    BY <1>1, BotInvariant, PTL

\* Only labels of the list are ever put on a thread, whatever the model answers
\* (classify.ts:120-138).
OnlyListedLabels ==
  \A t \in Threads : thread[t] # None => thread[t].labels \subseteq ALLOWED_LABELS

\* The model's answer cannot name a label of its own.
THEOREM LabelsAreOfTheList == BotSpec => []OnlyListedLabels
  <1>1. BotInv => OnlyListedLabels
    BY DEF BotInv, BotTypeOK, Opened, OnlyListedLabels
  <1> QED
    BY <1>1, BotInvariant, PTL

(***************************************************************************)
(* What the bot quotes: the lists that the retriever is built from.        *)
(***************************************************************************)

\* The first numbers, counted.
LEMMA UpToCount ==
  ASSUME NEW n \in Nat
  PROVE  IsFiniteSet(1 .. n) /\ Cardinality(1 .. n) = n
  <1>1. Cardinality(1 .. n) = IF 1 > n THEN 0 ELSE n - 1 + 1
    BY FS_Interval
  <1> QED
    BY <1>1, FS_Interval

\* What is in a list, and a list without repetitions.
Holds(seq, x) == \E n \in DOMAIN seq : seq[n] = x
Once(seq) == \A k, m \in DOMAIN seq : seq[k] = seq[m] => k = m

\* A list whose entries are of a set is a list of it.
LEMMA ListOf ==
  ASSUME NEW V, NEW W, NEW seq \in Seq(V), \A i \in DOMAIN seq : seq[i] \in W
  PROVE  seq \in Seq(W)
  <1>1. seq = [i \in 1 .. Len(seq) |-> seq[i]] /\ Len(seq) \in Nat
    OBVIOUS
  <1>2. \A i \in 1 .. Len(seq) : seq[i] \in W
    OBVIOUS
  <1> QED
    BY <1>1, <1>2

\* What comes before an element of a set in the order of weight and place.
Above(x, y, weight, place) ==
  weight[x] > weight[y] \/ (weight[x] = weight[y] /\ place[x] < place[y])
AboveOf(x, S, weight, place) == {y \in S : Above(y, x, weight, place)}

\* The ranks of a finite set are all different, and no higher than its size.
LEMMA Ranks ==
  ASSUME NEW S, IsFiniteSet(S), NEW weight, NEW place,
         \A x \in S : weight[x] \in Int /\ place[x] \in Int,
         \A x, y \in S : place[x] = place[y] => x = y
  PROVE  [x \in S |-> Cardinality(AboveOf(x, S, weight, place)) + 1]
           \in Injection(S, 1 .. Cardinality(S))
  <1> DEFINE of(x) == AboveOf(x, S, weight, place)
             N == Cardinality(S)
             rank == [x \in S |-> Cardinality(of(x)) + 1]
  <1>1. N \in Nat
    BY FS_CardinalityType
  <1>2. ASSUME NEW x \in S
        PROVE  IsFiniteSet(of(x)) /\ Cardinality(of(x)) \in 0 .. N - 1
    <2>1. x \notin of(x)
      BY DEF AboveOf, Above
    <2>2. of(x) \subseteq S \ {x}
      BY <2>1 DEF AboveOf
    <2>3. Cardinality(S \ {x}) = N - 1 /\ IsFiniteSet(S \ {x})
      BY FS_RemoveElement
    <2> QED
      BY <1>1, <2>2, <2>3, FS_Subset, FS_CardinalityType
  <1>3. ASSUME NEW x \in S, NEW y \in S, Above(x, y, weight, place)
        PROVE  Cardinality(of(x)) < Cardinality(of(y))
    <2>1. of(x) \subseteq of(y)
      <3> SUFFICES ASSUME NEW z \in S, Above(z, x, weight, place) PROVE Above(z, y, weight, place)
        BY DEF AboveOf
      <3> QED
        BY <1>3 DEF Above
    <2>2. x \in of(y) /\ x \notin of(x)
      BY <1>3 DEF AboveOf, Above
    <2>3. of(x) # of(y)
      BY <2>2
    <2> HIDE DEF of
    <2> QED
      BY <1>2, <2>1, <2>3, FS_Subset
  <1>4. ASSUME NEW x \in S, NEW y \in S, Cardinality(of(x)) = Cardinality(of(y)) PROVE x = y
    <2> SUFFICES ASSUME x # y PROVE FALSE
      OBVIOUS
    <2>1. Above(x, y, weight, place) \/ Above(y, x, weight, place)
      BY DEF Above
    <2> QED
      BY <1>2, <1>3, <1>4, <2>1
  <1> HIDE DEF of
  <1>5. rank \in [S -> 1 .. N]
    BY <1>1, <1>2
  <1>6. \A x, y \in S : rank[x] = rank[y] => x = y
    BY <1>2, <1>4
  <1>7. rank \in Injection(S, 1 .. N)
    <2> HIDE DEF rank, N
    <2> QED
      BY <1>5, <1>6 DEF Injection, IsInjective
  <1> QED
    BY <1>7 DEF of

\* A sorted set is a list of its elements, each of them once.
LEMMA Sorted ==
  ASSUME NEW S, IsFiniteSet(S), NEW weight, NEW place,
         \A x \in S : weight[x] \in Int /\ place[x] \in Int,
         \A x, y \in S : place[x] = place[y] => x = y,
         NEW s, s = sorted(S, weight, place)
  PROVE  /\ Cardinality(S) \in Nat /\ s \in [1 .. Cardinality(S) -> S]
         /\ \A n \in 1 .. Cardinality(S) : Cardinality(AboveOf(s[n], S, weight, place)) = n - 1
         /\ \A x \in S : \E n \in 1 .. Cardinality(S) : s[n] = x
  <1> DEFINE of(x) == AboveOf(x, S, weight, place)
             N == Cardinality(S)
             rank == [x \in S |-> Cardinality(of(x)) + 1]
  <1>1. N \in Nat
    BY FS_CardinalityType
  <1>2. rank \in Injection(S, 1 .. N)
    BY Ranks
  <1>3. rank \in Surjection(S, 1 .. N)
    <2>1. IsFiniteSet(1 .. N) /\ Cardinality(1 .. N) = N
      BY <1>1, UpToCount
    <2> HIDE DEF rank
    <2> QED
      BY <1>2, <2>1, FS_Injection
  <1>4. \A x \in S : Cardinality(of(x)) \in Nat
    <2>1. \A x \in S : of(x) \subseteq S
      BY DEF AboveOf
    <2> HIDE DEF of
    <2> QED
      BY <2>1, FS_Subset, FS_CardinalityType
  <1>5. \A n \in 1 .. N : \E x \in S : rank[x] = n
    <2> HIDE DEF rank, N
    <2> QED
      BY <1>3 DEF Surjection
  <1> HIDE DEF of
  <1>6. \A n \in 1 .. N : \E x \in S : Cardinality(of(x)) = n - 1
    BY <1>1, <1>4, <1>5
  <1>7. s = [n \in 1 .. N |-> CHOOSE x \in S : Cardinality(of(x)) = n - 1]
    BY Zenon DEF sorted, of, AboveOf, Above
  <1>8. \A n \in 1 .. N : s[n] \in S /\ Cardinality(of(s[n])) = n - 1
    BY <1>6, <1>7
  <1>9. s \in [1 .. N -> S]
    BY <1>7, <1>8
  <1>10. \A x \in S : \E n \in 1 .. N : s[n] = x
    <2> SUFFICES ASSUME NEW x \in S PROVE \E n \in 1 .. N : s[n] = x
      OBVIOUS
    <2>1. rank[x] \in 1 .. N /\ rank[x] = Cardinality(of(x)) + 1
      <3>1. rank \in [S -> 1 .. N]
        BY <1>2 DEF Injection
      <3> QED
        BY <3>1
    <2> DEFINE n == rank[x]
    <2>2. s[n] \in S /\ Cardinality(of(s[n])) = n - 1
      BY <1>8, <2>1
    <2>3. rank[s[n]] = rank[x]
      BY <1>4, <2>1, <2>2
    <2>4. \A y, z \in S : rank[y] = rank[z] => y = z
      <3> HIDE DEF rank
      <3> QED
        BY <1>2 DEF Injection, IsInjective
    <2>5. s[n] = x
      <3> HIDE DEF rank
      <3> QED
        BY <2>2, <2>3, <2>4
    <2> QED
      BY <2>1, <2>5
  <1> QED
    BY <1>1, <1>8, <1>9, <1>10 DEF of

\* The same, as lists are spoken of below.
LEMMA SortedList ==
  ASSUME NEW S, IsFiniteSet(S), NEW weight, NEW place,
         \A x \in S : weight[x] \in Int /\ place[x] \in Int,
         \A x, y \in S : place[x] = place[y] => x = y,
         NEW s, s = sorted(S, weight, place)
  PROVE  /\ s \in Seq(S) /\ Len(s) = Cardinality(S)
         /\ \A x \in S : Holds(s, x)
         /\ Once(s)
  <1> DEFINE N == Cardinality(S)
  <1>1. /\ Cardinality(S) \in Nat /\ s \in [1 .. Cardinality(S) -> S]
        /\ \A n \in 1 .. Cardinality(S) : Cardinality(AboveOf(s[n], S, weight, place)) = n - 1
        /\ \A x \in S : \E n \in 1 .. Cardinality(S) : s[n] = x
    BY Sorted
  <1>2. N \in Nat /\ s \in [1 .. N -> S] /\ DOMAIN s = 1 .. N
    BY <1>1
  <1>3. \A x \in S : Holds(s, x)
    BY <1>1, <1>2 DEF Holds
  <1>4. ASSUME NEW k \in 1 .. N, NEW m \in 1 .. N, s[k] = s[m] PROVE k = m
    <2>1. Cardinality(AboveOf(s[k], S, weight, place)) = k - 1
          /\ Cardinality(AboveOf(s[m], S, weight, place)) = m - 1
      BY <1>1
    <2>2. k - 1 = m - 1
      BY <1>4, <2>1
    <2> QED
      BY <2>2
  <1> HIDE DEF N
  <1>5. s \in Seq(S) /\ Len(s) = N
    BY <1>2
  <1>6. Once(s)
    BY <1>2, <1>4 DEF Once
  <1> QED
    BY <1>3, <1>5, <1>6 DEF N

\* The entries of a list at some positions are a list of them, and none comes later than it was.
LEMMA EntriesOf ==
  ASSUME NEW V, NEW seq \in Seq(V), NEW at \in SUBSET DOMAIN seq
  PROVE  /\ entries(seq, at) \in Seq(V)
         /\ IsFiniteSet(at) /\ Len(entries(seq, at)) = Cardinality(at)
         /\ \A n \in DOMAIN entries(seq, at) : \E i \in at : entries(seq, at)[n] = seq[i]
         /\ \A i \in at : \E n \in DOMAIN entries(seq, at) : n <= i /\ entries(seq, at)[n] = seq[i]
  <1> DEFINE weight == [i \in at |-> 0]
             place == [i \in at |-> i]
             order == sorted(at, weight, place)
             N == Cardinality(at)
             e == entries(seq, at)
  <1>1. DOMAIN seq = 1 .. Len(seq) /\ Len(seq) \in Nat
    OBVIOUS
  <1>2. IsFiniteSet(at) /\ N \in Nat
    <2>1. IsFiniteSet(1 .. Len(seq))
      BY <1>1, UpToCount
    <2> QED
      BY <1>1, <2>1, FS_Subset, FS_CardinalityType
  <1>3. /\ order \in [1 .. N -> at]
        /\ \A n \in 1 .. N : Cardinality(AboveOf(order[n], at, weight, place)) = n - 1
        /\ \A i \in at : \E n \in 1 .. N : order[n] = i
    <2>1. \A i \in at : weight[i] \in Int /\ place[i] \in Int
      BY <1>1
    <2>2. \A i, k \in at : place[i] = place[k] => i = k
      OBVIOUS
    <2> HIDE DEF weight, place
    <2> QED
      BY <1>2, <2>1, <2>2, Sorted
  <1>4. e = [n \in 1 .. N |-> seq[order[n]]]
    <2>1. DOMAIN order = 1 .. N
      BY <1>3
    <2> QED
      BY <2>1 DEF entries
  <1> HIDE DEF order, weight, place, N
  <1>5. ASSUME NEW n \in 1 .. N PROVE n <= order[n]
    <2> DEFINE i == order[n]
               before == AboveOf(i, at, weight, place)
    <2>1. i \in at /\ i \in Nat /\ i >= 1
      BY <1>1, <1>3, <1>5
    <2>2. before \subseteq 1 .. i - 1
      BY <1>1, <2>1 DEF AboveOf, Above, weight, place
    <2>3. IsFiniteSet(1 .. i - 1) /\ Cardinality(1 .. i - 1) = i - 1
      <3>1. i - 1 \in Nat
        BY <2>1
      <3> QED
        BY <3>1, UpToCount
    <2>4. Cardinality(before) <= i - 1
      <3> HIDE DEF before, i
      <3> QED
        BY <2>2, <2>3, FS_Subset
    <2>5. Cardinality(before) = n - 1
      BY <1>3, <1>5
    <2> QED
      BY <1>2, <2>1, <2>4, <2>5
  <1>6. \A n \in 1 .. N : seq[order[n]] \in V
    BY <1>1, <1>3
  <1>7. e \in Seq(V) /\ Len(e) = N /\ DOMAIN e = 1 .. N
    BY <1>2, <1>4, <1>6
  <1>8. \A n \in 1 .. N : \E i \in at : e[n] = seq[i]
    BY <1>3, <1>4
  <1>9. \A i \in at : \E n \in 1 .. N : n <= i /\ e[n] = seq[i]
    <2> SUFFICES ASSUME NEW i \in at PROVE \E n \in 1 .. N : n <= i /\ e[n] = seq[i]
      OBVIOUS
    <2>1. PICK n \in 1 .. N : order[n] = i
      BY <1>3
    <2> QED
      BY <1>4, <1>5, <2>1
  <1> QED
    BY <1>2, <1>7, <1>8, <1>9 DEF N

\* A filtered list is a list of the entries it keeps, and holds all of them.
LEMMA Filtered ==
  ASSUME NEW V, NEW seq \in Seq(V), NEW S
  PROVE  /\ filter(seq, S) \in Seq(V \cap S)
         /\ Len(filter(seq, S)) <= Len(seq)
         /\ \A i \in DOMAIN seq : seq[i] \in S => Holds(filter(seq, S), seq[i])
  <1> DEFINE at == {i \in DOMAIN seq : seq[i] \in S}
             e == entries(seq, at)
  <1>1. e = filter(seq, S) /\ at \in SUBSET DOMAIN seq
    BY DEF filter
  <1>2. DOMAIN seq = 1 .. Len(seq) /\ Len(seq) \in Nat
    OBVIOUS
  <1>3. /\ e \in Seq(V) /\ Len(e) = Cardinality(at)
        /\ \A n \in DOMAIN e : \E i \in at : e[n] = seq[i]
        /\ \A i \in at : \E n \in DOMAIN e : n <= i /\ e[n] = seq[i]
    <2> HIDE DEF at
    <2> QED
      BY <1>1, EntriesOf
  <1>4. Cardinality(at) <= Len(seq)
    <2>1. IsFiniteSet(1 .. Len(seq)) /\ Cardinality(1 .. Len(seq)) = Len(seq)
      BY <1>2, UpToCount
    <2> HIDE DEF at
    <2> QED
      BY <1>1, <1>2, <2>1, FS_Subset
  <1> HIDE DEF e
  <1>5. ASSUME NEW n \in DOMAIN e PROVE e[n] \in V \cap S
    <2>1. PICK i \in at : e[n] = seq[i]
      BY <1>3
    <2>2. i \in DOMAIN seq /\ seq[i] \in S /\ seq[i] \in V
      BY <1>2, <2>1
    <2> QED
      BY <2>1, <2>2
  <1>6. e \in Seq(V \cap S)
    BY <1>3, <1>5, ListOf
  <1>7. \A i \in DOMAIN seq : seq[i] \in S => Holds(e, seq[i])
    BY <1>3 DEF Holds
  <1> QED
    BY <1>1, <1>3, <1>4, <1>6, <1>7

\* The smaller of two numbers.
LEMMA MinOfTwo ==
  ASSUME NEW m \in Int, NEW n \in Int
  PROVE  Min({m, n}) \in {m, n} /\ Min({m, n}) <= m /\ Min({m, n}) <= n
  <1>1. \E x \in {m, n} : \A y \in {m, n} : x <= y
    OBVIOUS
  <1> QED
    BY <1>1 DEF Min

\* The first entries of a list are where they were.
LEMMA FirstOf ==
  ASSUME NEW V, NEW seq \in Seq(V), NEW n \in Nat
  PROVE  /\ First(seq, n) \in Seq(V) /\ Len(First(seq, n)) <= n
         /\ \A i \in DOMAIN seq : i <= n => i \in DOMAIN First(seq, n) /\ First(seq, n)[i] = seq[i]
  <1> DEFINE m == Min({n, Len(seq)})
  <1>1. m \in Nat /\ m <= n /\ m <= Len(seq) /\ (m = n \/ m = Len(seq))
    <2>1. n \in Int /\ Len(seq) \in Int /\ Len(seq) \in Nat
      OBVIOUS
    <2>2. m \in {n, Len(seq)} /\ m <= n /\ m <= Len(seq)
      BY <2>1, MinOfTwo, Zenon
    <2> HIDE DEF m
    <2> QED
      BY <2>1, <2>2
  <1>2. First(seq, n) = SubSeq(seq, 1, m)
    BY DEF First
  <1> HIDE DEF m
  <1>3. /\ SubSeq(seq, 1, m) \in Seq(V) /\ Len(SubSeq(seq, 1, m)) = m
        /\ DOMAIN SubSeq(seq, 1, m) = 1 .. m
        /\ \A i \in 1 .. m : SubSeq(seq, 1, m)[i] = seq[i]
    BY <1>1
  <1>4. \A i \in DOMAIN seq : i <= n => i \in 1 .. m
    BY <1>1
  <1> QED
    BY <1>1, <1>2, <1>3, <1>4

\* Without its repetitions a list is a list.
LEMMA DistinctOf ==
  ASSUME NEW V, NEW seq \in Seq(V)
  PROVE  Distinct(seq) \in Seq(V)
  <1> DEFINE at == {i \in DOMAIN seq : \A j \in 1 .. i - 1 : seq[j] # seq[i]}
  <1>1. at \in SUBSET DOMAIN seq /\ Distinct(seq) = entries(seq, at)
    BY DEF Distinct
  <1> HIDE DEF at
  <1> QED
    BY <1>1, EntriesOf

\* A set of numbers that is not empty has a least one.
LEMMA Least ==
  ASSUME NEW S \in SUBSET Nat, S # {}
  PROVE  \E m \in S : \A k \in S : m <= k
  <1>1. PICK m \in S : \A k \in S : << k, m >> \notin OpToRel(<, Nat)
    BY WFMin, NatLessThanWellFounded, Zenon
  <1>2. \A k \in S : ~ (k < m)
    BY <1>1, Zenon DEF OpToRel
  <1> QED
    BY <1>2

\* What holds of 1 and of the next number with each is not missed by any up to n.
LEMMA UpTo ==
  ASSUME NEW n \in Nat, NEW S \in SUBSET (1 .. n), 1 \notin S,
         \A k \in 1 .. n - 1 : k \notin S => k + 1 \notin S
  PROVE  S = {}
  <1> SUFFICES ASSUME S # {} PROVE FALSE
    OBVIOUS
  <1>1. S \in SUBSET Nat
    OBVIOUS
  <1>2. PICK m \in S : \A k \in S : m <= k
    BY <1>1, Least
  <1>3. m \in 2 .. n /\ m - 1 \in 1 .. n - 1 /\ m - 1 + 1 = m /\ ~ m <= m - 1
    BY <1>1
  <1>4. m - 1 \notin S
    BY <1>2, <1>3
  <1> QED
    BY <1>3, <1>4

\* The key of a passage that a list has.
Shows(list, key) == \E n \in DOMAIN list : keyOf(list[n].chunk) = key

\* Filling the slots leaves out no passage of the first candidates, as many as there are slots.
LEMMA Filled ==
  ASSUME NEW C, NEW candidates \in Seq(C), NEW limit \in Nat
  PROVE  /\ fill(candidates, limit) \in Seq(C)
         /\ \A i \in DOMAIN candidates : i <= limit =>
              Shows(fill(candidates, limit), keyOf(candidates[i].chunk))
  <1> DEFINE key == [i \in DOMAIN candidates |-> keyOf(candidates[i].chunk)]
             at == {i \in DOMAIN key : \A j \in 1 .. i - 1 : key[j] # key[i]}
             e == entries(candidates, at)
  <1>1. fill(candidates, limit) = First(e, limit)
    BY DEF fill
  <1>2. DOMAIN candidates \in SUBSET Nat /\ DOMAIN key = DOMAIN candidates
        /\ DOMAIN candidates = 1 .. Len(candidates) /\ Len(candidates) \in Nat
    OBVIOUS
  <1>3. at \in SUBSET DOMAIN candidates
    OBVIOUS
  <1>4. e \in Seq(C) /\ \A i \in at : \E n \in DOMAIN e : n <= i /\ e[n] = candidates[i]
    <2> HIDE DEF at
    <2> QED
      BY <1>3, EntriesOf
  <1>5. /\ First(e, limit) \in Seq(C)
        /\ \A n \in DOMAIN e : n <= limit =>
             n \in DOMAIN First(e, limit) /\ First(e, limit)[n] = e[n]
    <2> HIDE DEF e
    <2> QED
      BY <1>4, FirstOf
  <1>6. ASSUME NEW i \in DOMAIN candidates, i <= limit
        PROVE  Shows(First(e, limit), keyOf(candidates[i].chunk))
    <2> DEFINE same == {j \in DOMAIN candidates : key[j] = key[i]}
    <2>1. same \in SUBSET Nat /\ i \in same
      BY <1>2
    <2>2. PICK j \in same : \A k \in same : j <= k
      <3> HIDE DEF same
      <3> QED
        BY <2>1, Least
    <2>3. j <= i /\ j \in DOMAIN candidates /\ key[j] = key[i] /\ i \in Nat /\ j \in Nat
      BY <1>2, <2>1, <2>2
    <2>4. \A k \in 1 .. j - 1 : k \in DOMAIN candidates /\ ~ j <= k
      BY <1>2, <2>3
    <2>5. \A k \in 1 .. j - 1 : key[k] # key[j]
      BY <2>2, <2>3, <2>4
    <2>6. j \in at
      BY <1>2, <2>3, <2>5
    <2>7. PICK n \in DOMAIN e : n <= j /\ e[n] = candidates[j]
      BY <1>4, <2>6
    <2>8. n \in Nat /\ n <= limit
      BY <1>4, <1>6, <2>3, <2>7
    <2>9. n \in DOMAIN First(e, limit) /\ First(e, limit)[n] = candidates[j]
      BY <1>5, <2>7, <2>8
    <2>10. keyOf(candidates[j].chunk) = keyOf(candidates[i].chunk)
      BY <2>3
    <2> HIDE DEF e
    <2> QED
      BY <2>9, <2>10 DEF Shows
  <1> QED
    BY <1>1, <1>5, <1>6

\* Lists joined to one, each joined to what is before it; they are a list.
Joins(g, seqs, n) ==
  g = [i \in 1 .. n |-> IF i = 1 THEN seqs[i] ELSE g[i - 1] \o seqs[i]]

LEMMA Joined ==
  ASSUME NEW V, NEW seqs \in Seq(Seq(V))
  PROVE  FlattenSeq(seqs) \in Seq(V)
  <1> DEFINE n == Len(seqs)
  <1>1. n \in Nat /\ \A i \in 1 .. n : seqs[i] \in Seq(V)
    OBVIOUS
  <1>2. CASE n = 0
    <2>1. FlattenSeq(seqs) = << >>
      BY <1>2 DEF FlattenSeq
    <2> QED
      BY <2>1
  <1>3. CASE n # 0
    <2>1. FlattenSeq(seqs) = (CHOOSE g : Joins(g, seqs, n))[n]
      BY <1>3, Zenon DEF FlattenSeq, Joins
    <2> HIDE DEF n
    <2> DEFINE B == {k \in 1 .. n : ~ \E g : Joins(g, seqs, k)}
    <2>2. 1 \notin B
      <3> DEFINE g == [i \in 1 .. 1 |-> seqs[i]]
      <3>1. g = [i \in 1 .. 1 |-> IF i = 1 THEN seqs[i] ELSE g[i - 1] \o seqs[i]]
        OBVIOUS
      <3> HIDE DEF g
      <3>2. Joins(g, seqs, 1)
        BY <3>1 DEF Joins
      <3> QED
        BY <3>2
    <2>3. ASSUME NEW k \in 1 .. n - 1, k \notin B PROVE k + 1 \notin B
      <3>1. k \in 1 .. n /\ k + 1 \in 1 .. n
        BY <1>1
      <3>2. PICK g : Joins(g, seqs, k)
        BY <2>3, <3>1
      <3>3. \A i \in 1 .. k : g[i] = IF i = 1 THEN seqs[i] ELSE g[i - 1] \o seqs[i]
        BY <3>2 DEF Joins
      <3> DEFINE h == [i \in 1 .. k + 1 |-> IF i = k + 1 THEN g[k] \o seqs[k + 1] ELSE g[i]]
      <3>4. \A i \in 1 .. k + 1 : h[i] = IF i = 1 THEN seqs[i] ELSE h[i - 1] \o seqs[i]
        <4> SUFFICES ASSUME NEW i \in 1 .. k + 1
                     PROVE  h[i] = IF i = 1 THEN seqs[i] ELSE h[i - 1] \o seqs[i]
          OBVIOUS
        <4>1. CASE i = k + 1
          <5>1. i # 1 /\ i - 1 = k /\ k \in 1 .. k + 1 /\ k # k + 1
            <6>1. k \in Nat /\ k >= 1
              BY <1>1
            <6> HIDE DEF h
            <6> QED
              BY <4>1, <6>1
          <5>2. h[i] = g[k] \o seqs[k + 1]
            BY <4>1
          <5>3. h[k] = g[k]
            BY <5>1
          <5> HIDE DEF h
          <5>4. (IF i = 1 THEN seqs[i] ELSE h[i - 1] \o seqs[i]) = h[i - 1] \o seqs[i]
            BY <5>1
          <5> QED
            BY <4>1, <5>1, <5>2, <5>3, <5>4
        <4>2. CASE i # k + 1
          <5>1. i \in 1 .. k /\ h[i] = g[i]
            BY <4>2
          <5>2. i # 1 => i - 1 \in 1 .. k + 1 /\ i - 1 # k + 1 /\ h[i - 1] = g[i - 1]
            BY <5>1
          <5> QED
            BY <3>3, <5>1, <5>2
        <4> QED
          BY <4>1, <4>2
      <3>5. h = [i \in 1 .. k + 1 |-> h[i]]
        OBVIOUS
      <3> HIDE DEF h
      <3>6. h = [i \in 1 .. k + 1 |-> IF i = 1 THEN seqs[i] ELSE h[i - 1] \o seqs[i]]
        BY <3>4, <3>5, Zenon
      <3>7. Joins(h, seqs, k + 1)
        BY <3>6, Zenon DEF Joins
      <3> QED
        BY <3>7
    <2>4. B = {}
      <3> HIDE DEF B
      <3>1. B \in SUBSET (1 .. n)
        BY DEF B
      <3> QED
        BY <1>1, <2>2, <2>3, <3>1, UpTo
    <2>5. n \in 1 .. n
      BY <1>1, <1>3
    <2>6. \E g : Joins(g, seqs, n)
      BY <2>4, <2>5
    <2> DEFINE f == CHOOSE g : Joins(g, seqs, n)
    <2>7. Joins(f, seqs, n)
      BY <2>6, Zenon
    <2> HIDE DEF f
    <2>8. \A i \in 1 .. n : f[i] = IF i = 1 THEN seqs[i] ELSE f[i - 1] \o seqs[i]
      BY <2>7 DEF Joins
    <2> DEFINE D == {k \in 1 .. n : f[k] \notin Seq(V)}
    <2>9. 1 \notin D
      BY <1>1, <1>3, <2>8
    <2>10. ASSUME NEW k \in 1 .. n - 1, k \notin D PROVE k + 1 \notin D
      <3>1. k \in 1 .. n /\ k + 1 \in 1 .. n /\ k + 1 # 1 /\ (k + 1) - 1 = k
        BY <1>1
      <3>2. f[k] \in Seq(V) /\ seqs[k + 1] \in Seq(V)
        BY <1>1, <2>10, <3>1
      <3>3. f[k + 1] = f[k] \o seqs[k + 1]
        BY <2>8, <3>1
      <3>4. \A a, b \in Seq(V) : a \o b \in Seq(V)
        OBVIOUS
      <3>5. f[k + 1] \in Seq(V)
        BY <3>2, <3>3, <3>4, Zenon
      <3> QED
        BY <3>5
    <2>11. D = {}
      <3> HIDE DEF D
      <3>1. D \in SUBSET (1 .. n)
        BY DEF D
      <3> QED
        BY <1>1, <2>9, <2>10, <3>1, UpTo
    <2> QED
      BY <2>1, <2>5, <2>11 DEF f
  <1> QED
    BY <1>2, <1>3

\* Among subsets of a finite set there is one that no longer is one of them when it loses
\* an element.
LEMMA Smallest ==
  ASSUME NEW T, IsFiniteSet(T), NEW B \in SUBSET SUBSET T, B # {}
  PROVE  \E s \in B : \A x \in s : s \ {x} \notin B
  <1> DEFINE sizes == {Cardinality(s) : s \in B}
  <1>1. \A s \in B : IsFiniteSet(s) /\ Cardinality(s) \in Nat
    BY FS_Subset, FS_CardinalityType
  <1>2. sizes \in SUBSET Nat /\ sizes # {}
    BY <1>1
  <1>3. PICK m \in sizes : \A k \in sizes : m <= k
    <2> HIDE DEF sizes
    <2> QED
      BY <1>2, Least
  <1>4. PICK s \in B : Cardinality(s) = m
    BY <1>3
  <1>5. \A x \in s : s \ {x} \notin B
    <2> SUFFICES ASSUME NEW x \in s, s \ {x} \in B PROVE FALSE
      OBVIOUS
    <2>1. Cardinality(s \ {x}) = Cardinality(s) - 1
      BY <1>1, FS_RemoveElement
    <2>2. Cardinality(s) <= Cardinality(s \ {x})
      BY <1>3, <1>4
    <2> QED
      BY <1>1, <2>1, <2>2
  <1> QED
    BY <1>5

\* What a sum computes over the subsets of the domain, one element at a time.
SumOver(g, f) ==
  g = [s \in SUBSET (DOMAIN f) |->
         IF s = {} THEN 0 ELSE f[CHOOSE x \in s : TRUE] + g[s \ {CHOOSE x \in s : TRUE}]]

\* A sum is what that function has for the whole domain.
LEMMA SumIsOver ==
  ASSUME NEW f
  PROVE  SumFunction(f) = (CHOOSE g : SumOver(g, f))[DOMAIN f]
  BY Zenon DEF SumFunction, SumFunctionOnSet, FoldFunctionOnSet, MapThenFoldSet, SumOver

\* The sum of a function over its finite domain is what any function of the subsets has for the
\* whole, when it is 0 for the empty set and gains the value of each element with it.
LEMMA SumIs ==
  ASSUME NEW f, IsFiniteSet(DOMAIN f), NEW h, h[{}] = 0,
         \A s \in SUBSET (DOMAIN f) : \A x \in s : h[s] = f[x] + h[s \ {x}]
  PROVE  SumFunction(f) = h[DOMAIN f]
  <1> DEFINE T == DOMAIN f
  <1>1. \A g : SumOver(g, f) => \A s \in SUBSET T : g[s] = h[s]
    <2> SUFFICES ASSUME NEW g, SumOver(g, f) PROVE \A s \in SUBSET T : g[s] = h[s]
      OBVIOUS
    <2>1. \A s \in SUBSET T : g[s] = IF s = {} THEN 0
                                     ELSE f[CHOOSE x \in s : TRUE] + g[s \ {CHOOSE x \in s : TRUE}]
      BY DEF SumOver
    <2> DEFINE B == {s \in SUBSET T : g[s] # h[s]}
    <2> SUFFICES ASSUME B # {} PROVE FALSE
      OBVIOUS
    <2>2. PICK s \in B : \A x \in s : s \ {x} \notin B
      BY Smallest, Zenon
    <2>3. s \in SUBSET T /\ g[s] # h[s]
      OBVIOUS
    <2>4. s # {}
      BY <2>1, <2>3
    <2> DEFINE x == CHOOSE y \in s : TRUE
    <2>5. x \in s
      BY <2>4
    <2>6. s \ {x} \in SUBSET T /\ g[s \ {x}] = h[s \ {x}]
      BY <2>2, <2>3, <2>5
    <2>7. g[s] = f[x] + g[s \ {x}]
      BY <2>1, <2>3, <2>4, Zenon
    <2>8. h[s] = f[x] + h[s \ {x}]
      BY <2>3, <2>5
    <2> QED
      BY <2>3, <2>6, <2>7, <2>8
  <1>2. \E g : SumOver(g, f)
    <2> DEFINE g == [s \in SUBSET T |-> h[s]]
    <2>1. ASSUME NEW s \in SUBSET T, s # {}
          PROVE  g[s] = f[CHOOSE x \in s : TRUE] + g[s \ {CHOOSE x \in s : TRUE}]
      <3> DEFINE x == CHOOSE y \in s : TRUE
      <3>1. x \in s
        BY <2>1
      <3>2. s \ {x} \in SUBSET T /\ h[s] = f[x] + h[s \ {x}]
        BY <2>1, <3>1
      <3> QED
        BY <3>2
    <2>2. g[{}] = 0
      OBVIOUS
    <2> HIDE DEF g
    <2>3. \A s \in SUBSET T : g[s] = IF s = {} THEN 0
                                     ELSE f[CHOOSE x \in s : TRUE] + g[s \ {CHOOSE x \in s : TRUE}]
      BY <2>1, <2>2
    <2>4. g = [s \in SUBSET T |-> g[s]]
      BY DEF g
    <2>5. SumOver(g, f)
      BY <2>3, <2>4, Zenon DEF SumOver
    <2> QED
      BY <2>5
  <1>3. SumFunction(f) = (CHOOSE g : SumOver(g, f))[T]
    BY SumIsOver, Zenon
  <1>4. SumOver(CHOOSE g : SumOver(g, f), f)
    BY <1>2, Zenon
  <1> QED
    BY <1>1, <1>3, <1>4

\* The values of a function on a finite set are finitely many.
LEMMA FiniteImage ==
  ASSUME NEW S, IsFiniteSet(S), NEW f
  PROVE  IsFiniteSet({f[x] : x \in S})
  <1>1. [x \in S |-> f[x]] \in Surjection(S, {f[x] : x \in S})
    BY DEF Surjection
  <1> QED
    BY <1>1, FS_Surjection, Zenon

\* One to one, they are as many.
LEMMA OneToOne ==
  ASSUME NEW S, IsFiniteSet(S), NEW f, \A x, y \in S : f[x] = f[y] => x = y
  PROVE  IsFiniteSet({f[x] : x \in S}) /\ Cardinality({f[x] : x \in S}) = Cardinality(S)
  <1> DEFINE T == {f[x] : x \in S}
             g == [x \in S |-> f[x]]
  <1>1. g \in Surjection(S, T)
    BY DEF Surjection
  <1>2. g \in Injection(S, T)
    <2>1. \A x, y \in S : g[x] = g[y] => x = y
      OBVIOUS
    <2>2. g \in [S -> T]
      OBVIOUS
    <2> HIDE DEF g
    <2> QED
      BY <2>1, <2>2 DEF Injection, IsInjective
  <1> HIDE DEF g, T
  <1>3. IsFiniteSet(T) /\ Cardinality(T) = Cardinality(S)
    BY <1>1, <1>2, FS_Surjection
  <1> QED
    BY <1>3 DEF T

\* The partial sums of integers: h gains the value of each element with it.
Gains(h, f, T) ==
  /\ h \in [SUBSET T -> Int] /\ h[{}] = 0
  /\ \A s \in SUBSET T : \A x \in s : h[s] = f[x] + h[s \ {x}]

\* Integers have partial sums: the finite subsets are reached one element at a time.
LEMMA PartialSums ==
  ASSUME NEW f, NEW T, IsFiniteSet(T), \A x \in T : f[x] \in Int
  PROVE  \E h : Gains(h, f, T)
  <1> DEFINE B == {s \in SUBSET T : ~ \E h : Gains(h, f, s)}
  <1> SUFFICES ASSUME B # {} PROVE FALSE
    OBVIOUS
  <1>1. PICK s \in B : \A x \in s : s \ {x} \notin B
    BY Smallest, Zenon
  <1>2. s \in SUBSET T /\ ~ \E h : Gains(h, f, s)
    OBVIOUS
  <1>3. CASE s = {}
    <2> DEFINE h == [u \in SUBSET {} |-> 0]
    <2>1. Gains(h, f, {})
      BY DEF Gains
    <2> QED
      BY <1>2, <1>3, <2>1
  <1>4. CASE s # {}
    <2>1. PICK x \in s : TRUE
      BY <1>4
    <2>2. s \ {x} \in SUBSET T /\ f[x] \in Int
      BY <1>2
    <2>3. PICK k : Gains(k, f, s \ {x})
      BY <1>1, <2>2
    <2> DEFINE h == [u \in SUBSET s |-> IF x \in u THEN f[x] + k[u \ {x}] ELSE k[u]]
    <2>4. \A u \in SUBSET s : u \ {x} \in SUBSET (s \ {x}) /\ (x \notin u => u \in SUBSET (s \ {x}))
      OBVIOUS
    <2>5. \A u \in SUBSET s : h[u] \in Int /\ (h[u] = IF x \in u THEN f[x] + k[u \ {x}] ELSE k[u])
      BY <2>2, <2>3, <2>4 DEF Gains
    <2>6. h \in [SUBSET s -> Int]
      BY <2>5
    <2>7. h[{}] = 0
      BY <2>3, <2>5 DEF Gains
    <2> HIDE DEF h
    <2>8. ASSUME NEW u \in SUBSET s, NEW y \in u PROVE h[u] = f[y] + h[u \ {y}]
      <3>1. u \ {y} \in SUBSET s /\ y \in T
        BY <1>2
      <3>2. CASE y = x
        BY <2>5, <2>8, <3>1, <3>2
      <3>3. CASE y # x /\ x \notin u
        <4>1. k[u] = f[y] + k[u \ {y}]
          BY <2>3, <2>4, <3>3 DEF Gains
        <4> QED
          BY <2>5, <3>1, <3>3, <4>1
      <3>4. CASE y # x /\ x \in u
        <4>1. y \in u \ {x} /\ (u \ {x}) \ {y} = (u \ {y}) \ {x}
          BY <3>4
        <4>2. k[u \ {x}] = f[y] + k[(u \ {y}) \ {x}]
          <5>1. u \ {x} \in SUBSET (s \ {x})
            BY <2>4
          <5>2. k[u \ {x}] = f[y] + k[(u \ {x}) \ {y}]
            BY <2>3, <4>1, <5>1, Zenon DEF Gains
          <5> QED
            BY <4>1, <5>2, Zenon
        <4>3. k[(u \ {y}) \ {x}] \in Int /\ f[y] \in Int
          BY <2>3, <2>4, <3>1 DEF Gains
        <4>4. h[u] = f[x] + k[u \ {x}] /\ h[u \ {y}] = f[x] + k[(u \ {y}) \ {x}]
          BY <2>5, <3>1, <3>4
        <4> QED
          BY <2>2, <4>2, <4>3, <4>4
      <3> QED
        BY <3>2, <3>3, <3>4
    <2>9. Gains(h, f, s)
      BY <2>6, <2>7, <2>8 DEF Gains
    <2> QED
      BY <1>2, <2>9
  <1> QED
    BY <1>3, <1>4

\* The sum of integers is one.
LEMMA SumIsInt ==
  ASSUME NEW f, IsFiniteSet(DOMAIN f), \A x \in DOMAIN f : f[x] \in Int
  PROVE  SumFunction(f) \in Int
  <1>1. PICK h : Gains(h, f, DOMAIN f)
    BY PartialSums
  <1>2. SumFunction(f) = h[DOMAIN f]
    BY <1>1, SumIs DEF Gains
  <1> QED
    BY <1>1, <1>2 DEF Gains

\* A finite set of integers that is not empty has a greatest and a least element.
LEMMA Extremes ==
  ASSUME NEW S \in SUBSET Int, IsFiniteSet(S), S # {}
  PROVE  (\E m \in S : \A k \in S : m >= k) /\ (\E m \in S : \A k \in S : m <= k)
  <1> DEFINE Has(s) == (\E m \in s : \A k \in s : m >= k) /\ (\E m \in s : \A k \in s : m <= k)
             B == {s \in SUBSET S : s # {} /\ ~ Has(s)}
  <1> SUFFICES ASSUME B # {} PROVE FALSE
    OBVIOUS
  <1>1. PICK s \in B : \A x \in s : s \ {x} \notin B
    BY Smallest, Zenon
  <1>2. s \in SUBSET Int /\ s # {} /\ ~ Has(s)
    OBVIOUS
  <1>3. PICK x \in s : TRUE
    BY <1>2
  <1>4. CASE s \ {x} = {}
    <2>1. s = {x} /\ x >= x /\ x <= x
      BY <1>2, <1>4
    <2> QED
      BY <1>2, <2>1
  <1>5. CASE s \ {x} # {}
    <2>1. Has(s \ {x})
      BY <1>1, <1>5
    <2>2. PICK m \in s \ {x} : \A k \in s \ {x} : m >= k
      BY <2>1
    <2>3. PICK n \in s \ {x} : \A k \in s \ {x} : n <= k
      BY <2>1
    <2>4. \E i \in s : \A k \in s : i >= k
      <3>1. CASE x >= m
        <4>1. \A k \in s : x >= k
          BY <1>2, <2>2, <3>1
        <4> QED
          BY <4>1
      <3>2. CASE ~ x >= m
        <4>1. \A k \in s : m >= k
          BY <1>2, <2>2, <3>2
        <4> QED
          BY <4>1
      <3> QED
        BY <3>1, <3>2
    <2>5. \E i \in s : \A k \in s : i <= k
      <3>1. CASE x <= n
        <4>1. \A k \in s : x <= k
          BY <1>2, <2>3, <3>1
        <4> QED
          BY <4>1
      <3>2. CASE ~ x <= n
        <4>1. \A k \in s : n <= k
          BY <1>2, <2>3, <3>2
        <4> QED
          BY <4>1
      <3> QED
        BY <3>1, <3>2
    <2> QED
      BY <1>2, <2>4, <2>5
  <1> QED
    BY <1>4, <1>5

\* A passage as the documents have it.
ChunkOK(c) == c.at \in Nat /\ IsFiniteSet(c.words) /\ c.words \subseteq DOMAIN Idf

\* A query has finitely many ideas.
LEMMA UnitsFinite ==
  ASSUME NEW query \in Seq(Words)
  PROVE  IsFiniteSet(queryUnits(query))
  <1> DEFINE at == {i \in DOMAIN query : \A k \in 1 .. i - 1 : query[k] \notin formsOf(query[i])}
             f == [i \in DOMAIN query |-> [primary |-> query[i], forms |-> formsOf(query[i])]]
  <1>1. IsFiniteSet(at)
    <2>1. IsFiniteSet(1 .. Len(query)) /\ DOMAIN query = 1 .. Len(query)
      BY UpToCount
    <2> QED
      BY <2>1, FS_Subset
  <1>2. queryUnits(query) = {f[i] : i \in at}
    BY DEF queryUnits
  <1> HIDE DEF at, f
  <1> QED
    BY <1>1, <1>2, FiniteImage

\* What an idea weighs in a passage that holds it.
LEMMA BestOfUnit ==
  ASSUME NEW chunk, ChunkOK(chunk), NEW u, u.forms \cap chunk.words # {}
  PROVE  Max({Idf[f] * (IF f = u.primary THEN 4 ELSE 3) : f \in u.forms \cap chunk.words}) \in Int
  <1> DEFINE found == u.forms \cap chunk.words
             weigh == [f \in found |-> Idf[f] * (IF f = u.primary THEN 4 ELSE 3)]
             weights == {weigh[f] : f \in found}
  <1>1. IsFiniteSet(found)
    BY FS_Subset DEF ChunkOK
  <1>2. \A f \in found : weigh[f] \in Int
    <2> SUFFICES ASSUME NEW f \in found PROVE weigh[f] \in Int
      OBVIOUS
    <2>1. Idf[f] \in Nat
      BY TextAssumption DEF ChunkOK
    <2> QED
      BY <2>1
  <1>3. weights = {Idf[f] * (IF f = u.primary THEN 4 ELSE 3) : f \in found}
    OBVIOUS
  <1>4. weights # {}
    OBVIOUS
  <1> HIDE DEF weigh, found
  <1>5. IsFiniteSet(weights) /\ weights \in SUBSET Int
    BY <1>1, <1>2, FiniteImage
  <1> HIDE DEF weights
  <1>6. \E m \in weights : \A k \in weights : m >= k
    BY <1>4, <1>5, Extremes
  <1>7. Max(weights) \in Int
    BY <1>5, <1>6 DEF Max
  <1> QED
    BY <1>3, <1>7 DEF found

\* What a document weighs.
LEMMA WeightIsInt == \A file, asks : sourceWeight(file, asks) \in Int
  <1> TAKE file, asks
  <1> DEFINE a == file \in Transcripts
             b == file \in MAINTAINER_DOCS
             c == file = "README.md"
             d == file \in {"docs/METRICS.md", "docs/HOOK-MATRIX.md", "docs/TELEMETRY.md",
                            "docs/THREAT-MODEL.md", "docs/DEPENDENCY-BUDGET.md"}
             e == file = "SECURITY.md"
             f == file = "CONTRIBUTING.md"
  <1>1. sourceWeight(file, asks) =
          CASE a -> 70 [] b -> IF asks THEN 40 ELSE 75 [] c -> 135 [] d -> 120 [] e -> 115
            [] f -> 110 [] OTHER -> 100
    BY Zenon DEF sourceWeight
  <1> HIDE DEF a, b, c, d, e, f
  <1> QED
    BY <1>1

\* What a passage scores for a query.
LEMMA ScoreIsInt ==
  ASSUME NEW chunk, ChunkOK(chunk), NEW query \in Seq(Words), NEW asks
  PROVE  score(query, chunk, asks) \in Int
  <1> DEFINE best(u) == Max({Idf[f] * (IF f = u.primary THEN 4 ELSE 3) : f \in u.forms \cap chunk.words})
             units == matchedUnits(query, chunk)
             values == [u \in units |-> best(u)]
             weight == sourceWeight(chunk.file, asks)
             more == IF asks /\ chunk.asks THEN 8 ELSE 5
  <1>1. score(query, chunk, asks) = SumFunction(values) * weight * more
    BY DEF score
  <1>2. IsFiniteSet(units) /\ \A u \in units : u.forms \cap chunk.words # {}
    BY UnitsFinite, FS_Subset DEF matchedUnits
  <1>3. \A u \in units : best(u) \in Int
    BY <1>2, BestOfUnit, Zenon
  <1>4. DOMAIN values = units /\ \A u \in units : values[u] \in Int
    <2> HIDE DEF best, units
    <2> QED
      BY <1>3
  <1>5. SumFunction(values) \in Int
    <2> HIDE DEF values, units
    <2> QED
      BY <1>2, <1>4, SumIsInt
  <1>6. weight \in Int
    BY Zenon, WeightIsInt
  <1>7. more \in Int
    OBVIOUS
  <1> HIDE DEF values, weight, more
  <1> QED
    BY <1>1, <1>5, <1>6, <1>7

\* The retriever's lists: a corpus whose passages have places of their own, and what is found in it.
CorpusOK(corpus) ==
  /\ IsFiniteSet(corpus)
  /\ \A c \in corpus : ChunkOK(c) /\ \A d \in corpus : c.at = d.at => c = d
TextOK(text) == text.title \in Seq(Words) /\ text.sentences \in Seq(Sentences)

\* What the search returns is a list of passages.
LEMMA SearchOf ==
  ASSUME NEW corpus, CorpusOK(corpus), NEW query \in Seq(Words), NEW limit \in Nat, NEW asks
  PROVE  search(query, corpus, limit, asks) \in Seq(corpus)
  <1> DEFINE scores == [c \in corpus |-> score(query, c, asks)]
             place == [c \in corpus |-> c.at]
             found == {c \in corpus : scores[c] > 0}
             all == sorted(found, scores, place)
  <1>1. search(query, corpus, limit, asks) = First(all, limit)
    BY DEF search
  <1>2. IsFiniteSet(found) /\ found \subseteq corpus
    BY FS_Subset DEF CorpusOK
  <1>3. \A c \in found : scores[c] \in Int /\ place[c] \in Int
    <2> SUFFICES ASSUME NEW c \in found PROVE scores[c] \in Int /\ place[c] \in Int
      OBVIOUS
    <2>1. c \in corpus /\ ChunkOK(c)
      BY DEF CorpusOK
    <2>2. score(query, c, asks) \in Int
      BY <2>1, ScoreIsInt
    <2> QED
      BY <2>1, <2>2 DEF ChunkOK
  <1>4. \A c, d \in found : place[c] = place[d] => c = d
    BY <1>2 DEF CorpusOK
  <1> HIDE DEF scores, place, found
  <1>5. Cardinality(found) \in Nat /\ all \in [1 .. Cardinality(found) -> found]
    BY <1>2, <1>3, <1>4, Sorted
  <1> HIDE DEF all
  <1>6. all \in Seq(corpus)
    <2>1. all \in Seq(found)
      BY <1>5
    <2> QED
      BY <1>2, <2>1, ListOf
  <1> QED
    BY <1>1, <1>6, FirstOf

\* So is what clears the gates.
LEMMA PassOf ==
  ASSUME NEW corpus, CorpusOK(corpus), NEW query \in Seq(Words), NEW limit \in Nat, NEW asks
  PROVE  pass(query, corpus, limit, asks) \in Seq(corpus)
  <1> DEFINE hits == search(query, corpus, limit + 1, asks)
  <1>1. hits \in Seq(corpus)
    <2>1. limit + 1 \in Nat
      OBVIOUS
    <2> QED
      BY <2>1, SearchOf
  <1> HIDE DEF hits
  <1>2. \A S : filter(hits, S) \in Seq(corpus)
    <2> SUFFICES ASSUME NEW S PROVE filter(hits, S) \in Seq(corpus)
      OBVIOUS
    <2>1. filter(hits, S) \in Seq(corpus \cap S)
      BY <1>1, Filtered
    <2> QED
      BY <2>1, ListOf
  <1>3. << >> \in Seq(corpus)
    OBVIOUS
  <1>4. \E S : pass(query, corpus, limit, asks) \in {<< >>, filter(hits, S)}
    BY Zenon DEF pass, hits
  <1> QED
    BY <1>2, <1>3, <1>4

\* The questions of a text are lists of words.
LEMMA Tokenized ==
  ASSUME NEW words \in Seq(Words)
  PROVE  tokenize(words) \in Seq(Words)
  <1>1. filter(words, ToSet(words) \ STOPWORDS) \in Seq(Words \cap (ToSet(words) \ STOPWORDS))
    BY Filtered
  <1> HIDE DEF Words
  <1>2. filter(words, ToSet(words) \ STOPWORDS) \in Seq(Words)
    BY <1>1, ListOf
  <1> QED
    BY <1>2 DEF tokenize

\* What is made of one sentence.
LEMMA SentenceOf ==
  ASSUME NEW sentence \in Sentences
  PROVE  /\ contentOf(sentence) \in Seq(Words)
         /\ decompose(sentence) \in Seq(Seq(Words))
  <1> DEFINE clauses == sentence.clauses
             head == sentence.head
             words == [i \in DOMAIN clauses |-> clauses[i].words]
  <1>1. /\ head \in Seq(Words) \cup {None}
        /\ clauses \in Seq([words : Seq(Words), asks : BOOLEAN])
    BY DEF Sentences
  <1>2. \A i \in DOMAIN clauses : clauses[i].words \in Seq(Words)
    <2> DEFINE Clauses == [words : Seq(Words), asks : BOOLEAN]
    <2>1. clauses \in Seq(Clauses)
      BY <1>1
    <2> HIDE DEF Clauses, clauses
    <2>2. \A i \in DOMAIN clauses : clauses[i] \in Clauses
      BY <2>1
    <2> QED
      BY <2>2 DEF Clauses
  <1>3. DOMAIN clauses = 1 .. Len(clauses) /\ Len(clauses) \in Nat
    BY <1>1
  <1> HIDE DEF Words, clauses, head
  <1>4. words \in Seq(Seq(Words))
    BY <1>2, <1>3
  <1>5. FlattenSeq(words) \in Seq(Words)
    <2> HIDE DEF words
    <2> QED
      BY <1>4, Joined
  <1>6. contentOf(sentence) \in Seq(Words)
    <2> DEFINE first == IF head = None THEN << >> ELSE head
    <2>1. first \in Seq(Words)
      BY <1>1
    <2>2. first \o FlattenSeq(words) \in Seq(Words)
      <3> HIDE DEF first, words
      <3> QED
        BY <1>5, <2>1
    <2>3. contentOf(sentence) = tokenize(first \o FlattenSeq(words))
      BY DEF contentOf, clauses, head
    <2> HIDE DEF first, words
    <2> QED
      BY <2>2, <2>3, Tokenized
  <1>7. decompose(sentence) \in Seq(Seq(Words))
    <2>1. CASE head = None \/ Len(clauses) <= 1
      <3>1. decompose(sentence) = << contentOf(sentence) >>
        BY <2>1 DEF decompose, head, clauses
      <3> QED
        BY <1>6, <3>1
    <2>2. CASE ~ (head = None \/ Len(clauses) <= 1)
      <3> DEFINE part(i) == tokenize(IF clauses[i].asks THEN clauses[i].words ELSE head \o clauses[i].words)
      <3>1. decompose(sentence) = [i \in DOMAIN clauses |-> part(i)]
        BY <2>2 DEF decompose, head, clauses
      <3>2. ASSUME NEW i \in DOMAIN clauses PROVE part(i) \in Seq(Words)
        <4>1. head \in Seq(Words) /\ clauses[i].words \in Seq(Words)
          BY <1>1, <1>2, <2>2
        <4>2. head \o clauses[i].words \in Seq(Words)
          BY <4>1
        <4>3. (IF clauses[i].asks THEN clauses[i].words ELSE head \o clauses[i].words) \in Seq(Words)
          BY <4>1, <4>2
        <4> QED
          BY <4>3, Tokenized
      <3> HIDE DEF part
      <3> QED
        BY <1>3, <3>1, <3>2
    <2> QED
      BY <2>1, <2>2
  <1> QED
    BY <1>6, <1>7

\* Some entries of a list, once each, and the first ones of them.
LEMMA KeptOf ==
  ASSUME NEW V, NEW seq \in Seq(V), NEW S, NEW n \in Nat
  PROVE  /\ filter(seq, S) \in Seq(V)
         /\ First(Distinct(filter(seq, S)), n) \in Seq(V)
  <1>1. filter(seq, S) \in Seq(V \cap S)
    BY Filtered
  <1>2. filter(seq, S) \in Seq(V)
    BY <1>1, ListOf
  <1>3. Distinct(filter(seq, S)) \in Seq(V)
    BY <1>2, DistinctOf
  <1> QED
    BY <1>2, <1>3, FirstOf

\* What is made of a text.
LEMMA QueriesOf ==
  ASSUME NEW text, TextOK(text)
  PROVE  /\ question(text) \in Seq(Words)
         /\ decomposeQuestions(text) \in Seq(Seq(Words))
         /\ splitQueries(text) \in Seq(Seq(Words))
  <1> DEFINE sentences == text.sentences
             contents == [i \in DOMAIN sentences |-> contentOf(sentences[i])]
             parts == [i \in DOMAIN sentences |-> decompose(sentences[i])]
  <1>1. DOMAIN sentences = 1 .. Len(sentences) /\ Len(sentences) \in Nat
        /\ \A i \in DOMAIN sentences : sentences[i] \in Sentences
    BY DEF TextOK
  <1> HIDE DEF sentences
  <1>2. /\ \A i \in DOMAIN sentences : contentOf(sentences[i]) \in Seq(Words)
        /\ \A i \in DOMAIN sentences : decompose(sentences[i]) \in Seq(Seq(Words))
    BY <1>1, SentenceOf
  <1>3. contents \in Seq(Seq(Words)) /\ parts \in Seq(Seq(Seq(Words)))
    BY <1>1, <1>2
  <1> HIDE DEF contents, parts
  <1>4. question(text) \in Seq(Words)
    <2>1. question(text) = FlattenSeq(contents)
      BY DEF question, contents, sentences
    <2> QED
      BY <1>3, <2>1, Joined
  <1>5. decomposeQuestions(text) \in Seq(Seq(Words))
    <2> DEFINE all == FlattenSeq(parts)
    <2>1. decomposeQuestions(text) = First(Distinct(filter(all, ToSet(all) \ {<< >>})), 12)
      BY DEF decomposeQuestions, parts, sentences
    <2>2. all \in Seq(Seq(Words))
      BY <1>3, Joined
    <2> HIDE DEF all
    <2> QED
      BY <2>1, <2>2, KeptOf
  <1>6. splitQueries(text) \in Seq(Seq(Words))
    <2>1. splitQueries(text)
            = First(Distinct(filter(contents, {q \in ToSet(contents) : Len(q) >= 3})), 12)
      BY DEF splitQueries, contents, sentences
    <2> QED
      BY <1>3, <2>1, KeptOf
  <1> QED
    BY <1>4, <1>5, <1>6

\* And the queries beside the questions asked.
LEMMA SupportingOf ==
  ASSUME NEW text, TextOK(text), NEW primary, NEW title \in Seq(Words)
  PROVE  supporting(primary, text, title) \in Seq(Seq(Words))
  <1> DEFINE first == IF title = << >> THEN << >> ELSE << title >>
             list == first \o splitQueries(text) \o << question(text) >>
             all == Distinct(list)
  <1>1. first \in Seq(Seq(Words))
    OBVIOUS
  <1>2. list \in Seq(Seq(Words))
    <2>1. splitQueries(text) \in Seq(Seq(Words)) /\ << question(text) >> \in Seq(Seq(Words))
      BY QueriesOf
    <2> HIDE DEF first
    <2> QED
      BY <1>1, <2>1
  <1>3. supporting(primary, text, title) = filter(all, ToSet(all) \ ToSet(primary))
    BY DEF supporting
  <1> HIDE DEF list
  <1>4. all \in Seq(Seq(Words))
    BY <1>2, DistinctOf
  <1> HIDE DEF all
  <1>5. filter(all, ToSet(all) \ ToSet(primary)) \in Seq(Seq(Words))
    BY <1>4, KeptOf
  <1> QED
    BY <1>3, <1>5

\* The lists of hits in their order: each that is not empty, once.
LEMMA OrderOf ==
  ASSUME NEW corpus, CorpusOK(corpus), NEW size \in Nat, NEW queries \in [1 .. size -> Seq(Words)],
         NEW hits \in [1 .. size -> Seq(corpus)], NEW asks,
         NEW all, all = strongestFirst(hits, queries, asks)
  PROVE  /\ all \in Seq(1 .. size)
         /\ \A i \in 1 .. size : hits[i] # << >> => Holds(all, i)
         /\ Once(all)
  <1> DEFINE at == {i \in DOMAIN hits : hits[i] # << >>}
             weight == [i \in at |-> score(queries[i], hits[i][1], asks)]
             place == [i \in at |-> i]
  <1>1. all = sorted(at, weight, place)
    BY DEF strongestFirst
  <1>2. IsFiniteSet(at) /\ at \subseteq 1 .. size
    BY UpToCount, FS_Subset
  <1>3. \A i \in at : weight[i] \in Int /\ place[i] \in Int
    <2> SUFFICES ASSUME NEW i \in at PROVE weight[i] \in Int /\ place[i] \in Int
      OBVIOUS
    <2>1. queries[i] \in Seq(Words) /\ hits[i][1] \in corpus
      <3>1. hits[i] \in Seq(corpus) /\ hits[i] # << >>
        BY <1>2
      <3>2. \A s \in Seq(corpus) : s # << >> => s[1] \in corpus
        OBVIOUS
      <3>3. hits[i][1] \in corpus
        BY <3>1, <3>2
      <3> QED
        BY <1>2, <3>3
    <2>2. ChunkOK(hits[i][1])
      BY <2>1 DEF CorpusOK
    <2>3. score(queries[i], hits[i][1], asks) \in Int
      BY <2>1, <2>2, ScoreIsInt
    <2> QED
      BY <1>2, <2>3
  <1>4. \A i, k \in at : place[i] = place[k] => i = k
    OBVIOUS
  <1> HIDE DEF weight, place
  <1> HIDE DEF at
  <1>5. all \in Seq(at)
    BY <1>1, <1>2, <1>3, <1>4, SortedList
  <1>6. \A i \in at : Holds(all, i)
    BY <1>1, <1>2, <1>3, <1>4, SortedList
  <1>7. Once(all)
    BY <1>1, <1>2, <1>3, <1>4, SortedList
  <1>8. \A i \in 1 .. size : hits[i] # << >> => i \in at
    BY DEF at
  <1>9. all \in Seq(1 .. size)
    <2>0. \A k \in DOMAIN all : all[k] \in at
      BY <1>5
    <2>1. \A k \in DOMAIN all : all[k] \in 1 .. size
      BY <1>2, <2>0
    <2> QED
      BY <1>5, <2>1, ListOf
  <1> QED
    BY <1>6, <1>7, <1>8, <1>9

\* The passage is one of a list of candidates.
Passes(list, chunk) == \E m \in DOMAIN list : list[m].chunk = chunk

\* The first round is no longer than there are questions, and holds the first hit of each.
LEMMA RoundOf ==
  ASSUME NEW corpus, NEW size \in Nat, NEW hits \in [1 .. size -> Seq(corpus)],
         NEW order \in Seq(1 .. size), NEW rank \in {1, 2, 3}
  PROVE  /\ round(rank, order, hits) \in Seq([chunk : corpus, for : Nat])
         /\ Len(round(rank, order, hits)) <= Len(order)
         /\ \A k \in DOMAIN order : Len(hits[order[k]]) >= rank =>
              Passes(round(rank, order, hits), hits[order[k]][rank])
  <1> DEFINE S == {i \in DOMAIN hits : Len(hits[i]) >= rank}
             at == filter(order, S)
             pass1(k) == [chunk |-> hits[at[k]][rank], for |-> IF rank = 1 THEN at[k] ELSE 0]
             r == round(rank, order, hits)
  <1>1. r = [k \in DOMAIN at |-> pass1(k)]
    BY DEF round
  <1>2. /\ at \in Seq((1 .. size) \cap S) /\ Len(at) <= Len(order)
        /\ \A k \in DOMAIN order : order[k] \in S => Holds(at, order[k])
    <2> HIDE DEF S
    <2>1. at \in Seq((1 .. size) \cap S)
      BY Filtered
    <2>2. Len(at) <= Len(order)
      BY Filtered
    <2>3. \A k \in DOMAIN order : order[k] \in S => Holds(at, order[k])
      BY Filtered
    <2> QED
      BY <2>1, <2>2, <2>3
  <1> HIDE DEF at
  <1>3. DOMAIN at = 1 .. Len(at) /\ Len(at) \in Nat
    BY <1>2
  <1>4. ASSUME NEW k \in DOMAIN at PROVE pass1(k) \in [chunk : corpus, for : Nat]
    <2>1. at[k] \in 1 .. size /\ at[k] \in S
      BY <1>2, <1>4
    <2>2. hits[at[k]] \in Seq(corpus) /\ Len(hits[at[k]]) >= rank
      BY <2>1
    <2>3. \A s \in Seq(corpus) : Len(s) >= rank => s[rank] \in corpus
      OBVIOUS
    <2>4. hits[at[k]][rank] \in corpus
      BY <2>2, <2>3
    <2>5. (IF rank = 1 THEN at[k] ELSE 0) \in Nat
      BY <2>1
    <2> QED
      BY <2>4, <2>5
  <1>5. \A k \in DOMAIN at : r[k].chunk = hits[at[k]][rank]
    BY <1>1
  <1> HIDE DEF pass1, r
  <1>6. r \in Seq([chunk : corpus, for : Nat]) /\ Len(r) = Len(at) /\ DOMAIN r = DOMAIN at
    BY <1>1, <1>3, <1>4
  <1>7. ASSUME NEW k \in DOMAIN order, Len(hits[order[k]]) >= rank
        PROVE  Passes(r, hits[order[k]][rank])
    <2>1. order[k] \in S
      BY <1>7
    <2>2. PICK m \in DOMAIN at : at[m] = order[k]
      BY <1>2, <2>1 DEF Holds
    <2> QED
      BY <1>5, <1>6, <2>2 DEF Passes
  <1> QED
    BY <1>2, <1>6, <1>7 DEF r

\* What is left of a list without repetitions, of numbers up to one, is no longer than it.
LEMMA OnceLength ==
  ASSUME NEW V, NEW seq \in Seq(V), Once(seq), NEW asked \in Nat
  PROVE  Len(filter(seq, 1 .. asked)) <= asked
  <1> DEFINE at == {k \in DOMAIN seq : seq[k] \in 1 .. asked}
             image == {seq[k] : k \in at}
  <1>1. at \in SUBSET DOMAIN seq /\ filter(seq, 1 .. asked) = entries(seq, at)
    BY DEF filter
  <1>2. image \subseteq 1 .. asked /\ \A k, m \in at : seq[k] = seq[m] => k = m
    BY DEF Once
  <1> HIDE DEF at
  <1>3. IsFiniteSet(at) /\ Len(entries(seq, at)) = Cardinality(at)
    BY <1>1, EntriesOf
  <1>4. Cardinality(image) = Cardinality(at)
    BY <1>2, <1>3, OneToOne
  <1>5. IsFiniteSet(1 .. asked) /\ Cardinality(1 .. asked) = asked
    BY UpToCount
  <1>6. Cardinality(image) <= asked
    <2> DEFINE U == 1 .. asked
    <2> HIDE DEF image, U
    <2>1. Cardinality(image) <= Cardinality(U)
      BY <1>2, <1>5, FS_Subset DEF U
    <2> QED
      BY <1>5, <2>1 DEF U
  <1> HIDE DEF image
  <1> QED
    BY <1>1, <1>3, <1>4, <1>6

\* Among the passages that are chosen is the first hit of each question asked, when there is a slot
\* for each.
LEMMA ChosenBest ==
  ASSUME NEW corpus, CorpusOK(corpus), NEW size \in Nat, NEW queries \in [1 .. size -> Seq(Words)],
         NEW hits \in [1 .. size -> Seq(corpus)], NEW asks, NEW limit \in Nat,
         NEW asked \in 0 .. size, asked <= limit, NEW i \in 1 .. asked, hits[i] # << >>
  PROVE  Shows(choose(asked, hits, strongestFirst(hits, queries, asks), queries, limit, asks),
               keyOf(hits[i][1]))
  <1> DEFINE all == strongestFirst(hits, queries, asks)
             mine == filter(all, 1 .. asked)
             P == [chunk : corpus, for : Nat]
             round1 == round(1, mine, hits)
             round2 == round(2, all, hits)
             round3 == round(3, all, hits)
             found == Distinct(FlattenSeq(hits))
             rest == byScore(found, hits, queries, asks)
             candidates == round1 \o round2 \o round3 \o rest
  <1>1. choose(asked, hits, all, queries, limit, asks) = fill(candidates, limit)
    BY Zenon DEF choose, firstRound
  <1>2. i \in 1 .. size /\ asked \in Nat /\ i \in Nat
    OBVIOUS
  <1>3. all \in Seq(1 .. size) /\ Once(all) /\ Holds(all, i)
    <2> HIDE DEF all
    <2>1. all \in Seq(1 .. size)
      BY OrderOf DEF all
    <2>2. Once(all)
      BY OrderOf DEF all
    <2>3. Holds(all, i)
      BY <1>2, OrderOf DEF all
    <2> QED
      BY <2>1, <2>2, <2>3
  <1> HIDE DEF all
  <1>4. mine \in Seq(1 .. size) /\ Holds(mine, i) /\ Len(mine) <= asked
    <2>1. mine \in Seq(1 .. size)
      BY <1>3, KeptOf
    <2>2. \A k \in DOMAIN all : all[k] \in 1 .. asked => Holds(mine, all[k])
      BY <1>3, Filtered
    <2>3. PICK k \in DOMAIN all : all[k] = i
      BY <1>3 DEF Holds
    <2>4. Holds(mine, i)
      BY <2>2, <2>3
    <2>5. Len(mine) <= asked
      BY <1>2, <1>3, OnceLength
    <2> QED
      BY <2>1, <2>4, <2>5
  <1> HIDE DEF mine
  <1>5. round1 \in Seq(P) /\ Len(round1) <= Len(mine)
    BY <1>4, RoundOf
  <1>6. PICK m \in DOMAIN round1 : round1[m].chunk = hits[i][1]
    <2>1. PICK k \in DOMAIN mine : mine[k] = i
      BY <1>4 DEF Holds
    <2>2. hits[i] \in Seq(corpus)
      BY <1>2
    <2>3. \A s \in Seq(corpus) : s # << >> => Len(s) >= 1
      OBVIOUS
    <2>4. Len(hits[mine[k]]) >= 1
      BY <2>1, <2>2, <2>3
    <2>5. \A k1 \in DOMAIN mine : Len(hits[mine[k1]]) >= 1 => Passes(round1, hits[mine[k1]][1])
      BY <1>4, RoundOf
    <2> HIDE DEF round1
    <2>6. Passes(round1, hits[i][1])
      BY <2>1, <2>4, <2>5
    <2> QED
      BY <2>6 DEF Passes
  <1>7. round2 \in Seq(P) /\ round3 \in Seq(P)
    BY <1>3, RoundOf
  <1>8. \E C : /\ candidates \in Seq(C)
                /\ round1 \in Seq(C) /\ round2 \in Seq(C) /\ round3 \in Seq(C) /\ rest \in Seq(C)
    <2>1. found \in Seq(corpus)
      <3>1. hits \in Seq(Seq(corpus))
        OBVIOUS
      <3>2. FlattenSeq(hits) \in Seq(corpus)
        BY <3>1, Joined
      <3> QED
        BY <3>2, DistinctOf
    <2> DEFINE C == P \cup {rest[k] : k \in DOMAIN rest}
    <2>2. rest = [k \in DOMAIN found |-> rest[k]]
      BY DEF byScore
    <2> HIDE DEF found
    <2>3. DOMAIN found = 1 .. Len(found) /\ Len(found) \in Nat
      BY <2>1
    <2> HIDE DEF rest
    <2>4. DOMAIN rest = 1 .. Len(found) /\ \A k \in DOMAIN rest : rest[k] \in C
      BY <2>2, <2>3
    <2>5. P \subseteq C
      OBVIOUS
    <2> HIDE DEF C
    <2>6. rest \in Seq(C)
      BY <2>2, <2>3, <2>4
    <2> HIDE DEF round1, round2, round3, P
    <2>7. round1 \in Seq(C) /\ round2 \in Seq(C) /\ round3 \in Seq(C)
      BY <1>5, <1>7, <2>5, ListOf
    <2>8. candidates \in Seq(C)
      BY <2>6, <2>7
    <2> QED
      BY <2>6, <2>7, <2>8
  <1>9. m \in DOMAIN candidates /\ candidates[m] = round1[m] /\ m <= limit
    <2> HIDE DEF round1, round2, round3, rest, P
    <2>0. \A S : \A s \in Seq(S) : DOMAIN s = 1 .. Len(s) /\ Len(s) \in Nat
      OBVIOUS
    <2>1. DOMAIN round1 = 1 .. Len(round1) /\ Len(round1) \in Nat
      BY <1>5, <2>0
    <2>5. Len(mine) \in Nat
      BY <1>4, <2>0
    <2>6. m \in 1 .. Len(round1)
      BY <1>6, <2>1
    <2>2. m <= limit
      BY <1>2, <1>4, <1>5, <2>1, <2>5, <2>6
    <2>3. PICK C : /\ round1 \in Seq(C) /\ round2 \in Seq(C) /\ round3 \in Seq(C)
                   /\ rest \in Seq(C)
      BY <1>8
    <2>7. /\ m \in DOMAIN (round1 \o round2 \o round3 \o rest)
          /\ (round1 \o round2 \o round3 \o rest)[m] = round1[m]
      <3> SUFFICES ASSUME NEW a \in Seq(C), a = round1, NEW b \in Seq(C), b = round2,
                          NEW c \in Seq(C), c = round3, NEW d \in Seq(C), d = rest,
                          NEW k \in 1 .. Len(a), k = m
                   PROVE  k \in DOMAIN (a \o b \o c \o d) /\ (a \o b \o c \o d)[k] = a[k]
        BY <2>3, <2>6
      <3> QED
        OBVIOUS
    <2>8. m \in DOMAIN candidates /\ candidates[m] = round1[m]
      BY <2>6, <2>7, Zenon
    <2> QED
      BY <2>2, <2>8
  <1> HIDE DEF candidates
  <1>10. Shows(fill(candidates, limit), keyOf(candidates[m].chunk))
    BY <1>8, <1>9, Filled
  <1> QED
    BY <1>1, <1>6, <1>9, <1>10 DEF all

\* There is a slot for each question asked, up to five of them.
LEMMA SlotsOf ==
  ASSUME NEW text, Len(decomposeQuestions(text)) \in Nat, Len(decomposeQuestions(text)) <= 5
  PROVE  /\ slots("question", text) \in Nat
         /\ Len(decomposeQuestions(text)) <= slots("question", text)
  <1> DEFINE asked == Len(decomposeQuestions(text))
             most == Max({3, asked})
  <1>1. most \in {3, asked} /\ 3 <= most /\ asked <= most
    <2>1. \E x \in {3, asked} : \A y \in {3, asked} : x >= y
      OBVIOUS
    <2> HIDE DEF asked
    <2>2. most \in {3, asked} /\ \A y \in {3, asked} : most >= y
      BY <2>1 DEF Max
    <2> QED
      BY <2>2 DEF asked
  <1>2. slots("question", text) = Min({5, most})
    BY DEF slots
  <1> HIDE DEF most
  <1>3. most \in Nat
    BY <1>1
  <1>4. Min({5, most}) \in {5, most}
    <2>1. 5 \in Int /\ most \in Int
      BY <1>3
    <2> QED
      BY <2>1, MinOfTwo, Zenon
  <1> QED
    BY <1>1, <1>2, <1>3, <1>4

\* The answer quotes what was chosen, unless it is none.
LEMMA QuotedOf ==
  ASSUME NEW chosen, NEW primary, NEW corpus, NEW text, NEW asks, NEW key, Shows(chosen, key),
         NEW written, written = answerOf(keep(chosen, asks), primary, corpus, text, asks), written.answered
  PROVE  key \in {q.key : q \in written.quoted}
  <1>1. written.answered = (keep(chosen, asks) # << >>)
        /\ written.quoted = {[key |-> keyOf(keep(chosen, asks)[k].chunk),
                             from |-> excerpt(keep(chosen, asks)[k].chunk, question(text))] :
                               k \in DOMAIN keep(chosen, asks)}
    BY DEF answerOf
  <1>2. keep(chosen, asks) = chosen
    BY <1>1 DEF keep
  <1>3. PICK k \in DOMAIN chosen : keyOf(chosen[k].chunk) = key
    BY DEF Shows
  <1> DEFINE quote == [key |-> keyOf(chosen[k].chunk), from |-> excerpt(chosen[k].chunk, question(text))]
  <1>4. quote \in written.quoted
    BY <1>1, <1>2
  <1>5. quote.key = key
    BY <1>3
  <1> HIDE DEF quote
  <1> QED
    BY <1>4, <1>5

\* Two lists joined: the first one stands where it stood.
Starts(c, a) == \A i \in DOMAIN a : i \in 1 .. Len(a) /\ c[i] = a[i]

LEMMA TwoLists ==
  ASSUME NEW V, NEW a \in Seq(V), NEW b \in Seq(V)
  PROVE  /\ Len(a \o b) \in Nat /\ Len(a) \in 0 .. Len(a \o b)
         /\ a \o b \in [1 .. Len(a \o b) -> V]
         /\ Starts(a \o b, a)
  <1> DEFINE c == a \o b
  <1>1. Len(a) \in Nat /\ Len(b) \in Nat /\ Len(c) = Len(a) + Len(b) /\ DOMAIN a = 1 .. Len(a)
    OBVIOUS
  <1>2. \A i \in DOMAIN a : i \in 1 .. Len(a) /\ c[i] = a[i]
    OBVIOUS
  <1>3. c \in Seq(V)
    OBVIOUS
  <1> HIDE DEF c
  <1>4. c \in [1 .. Len(c) -> V]
    BY <1>3
  <1>5. Len(c) \in Nat /\ Len(a) \in 0 .. Len(c)
    BY <1>1
  <1> QED
    BY <1>2, <1>4, <1>5 DEF c, Starts

\* An answer to a question of a text quotes the passage that matches that question best.
LEMMA QuotesTheBest ==
  ASSUME NEW text, TextOK(text), NEW corpus, CorpusOK(corpus), NEW q, NEW hit, NEW reply,
         Len(decomposeQuestions(text)) <= 5, q \in ToSet(decomposeQuestions(text)),
         hit = pass(q, corpus, slots("question", text), TRUE), hit # << >>,
         reply = triage(text, corpus), reply.intent = "question", reply.answer.answered
  PROVE  keyOf(hit[1]) \in {quote.key : quote \in reply.answer.quoted}
  <1> DEFINE primary == decomposeQuestions(text)
             limit == slots("question", text)
             queries == primary \o supporting(primary, text, tokenize(text.title))
             size == Len(queries)
             hits == [i \in DOMAIN queries |-> pass(queries[i], corpus, limit, TRUE)]
             chosen == choose(Len(primary), hits, strongestFirst(hits, queries, TRUE), queries, limit, TRUE)
  <1>1. reply.answer = answerOf(keep(chosen, TRUE), primary, corpus, text, TRUE)
    <2>1. reply.intent = classifyIntent(text)
      BY DEF triage, replyWith
    <2>2. reply.answer = IF classifyIntent(text) = "feature" THEN NoAnswer
                         ELSE buildAnswer(corpus, text, slots(classifyIntent(text), text),
                                          classifyIntent(text) = "question")
      BY DEF triage, replyWith
    <2>3. reply.answer = buildAnswer(corpus, text, limit, TRUE)
      BY <2>1, <2>2
    <2> QED
      BY <2>3, Zenon DEF buildAnswer, answerTo, answerWith
  <1>2. primary \in Seq(Seq(Words)) /\ queries \in Seq(Seq(Words))
    <2>1. primary \in Seq(Seq(Words))
      BY QueriesOf
    <2>2. tokenize(text.title) \in Seq(Words)
      BY Tokenized DEF TextOK
    <2>3. supporting(primary, text, tokenize(text.title)) \in Seq(Seq(Words))
      BY <2>2, SupportingOf
    <2> HIDE DEF primary
    <2> QED
      BY <2>1, <2>3
  <1>3. /\ size \in Nat /\ Len(primary) \in 0 .. size /\ queries \in [1 .. size -> Seq(Words)]
        /\ Starts(queries, primary)
    <2>1. supporting(primary, text, tokenize(text.title)) \in Seq(Seq(Words))
      <3>1. tokenize(text.title) \in Seq(Words)
        BY Tokenized DEF TextOK
      <3> QED
        BY <3>1, SupportingOf
    <2> HIDE DEF primary
    <2> QED
      BY <1>2, <2>1, TwoLists
  <1>4. limit \in Nat /\ Len(primary) <= limit
    <2>1. Len(primary) \in Nat
      BY <1>2
    <2> QED
      BY <2>1, SlotsOf
  <1> HIDE DEF limit
  <1>5. hits \in [1 .. size -> Seq(corpus)]
    <2> HIDE DEF queries, size
    <2>1. DOMAIN queries = 1 .. size /\ \A i \in 1 .. size : queries[i] \in Seq(Words)
      BY <1>3
    <2>2. \A i \in 1 .. size : pass(queries[i], corpus, limit, TRUE) \in Seq(corpus)
      BY <1>4, <2>1, PassOf
    <2> QED
      BY <2>1, <2>2
  <1>6. PICK i \in DOMAIN primary : primary[i] = q
    BY DEF ToSet
  <1>7. i \in 1 .. Len(primary) /\ hits[i] = hit
    <2>1. i \in 1 .. Len(primary) /\ queries[i] = q /\ i \in DOMAIN queries
      <3> HIDE DEF queries, size, primary
      <3> QED
        BY <1>3, <1>6 DEF Starts
    <2> HIDE DEF queries, size
    <2> QED
      BY <2>1 DEF limit
  <1> HIDE DEF queries, size, hits, primary
  <1>8. Shows(chosen, keyOf(hits[i][1]))
    BY <1>3, <1>4, <1>5, <1>7, ChosenBest
  <1> HIDE DEF chosen
  <1> QED
    BY <1>1, <1>7, <1>8, QuotedOf

\* A comment of the bot says which checkout it was composed from, and so does a run that is about
\* to post one.
composedFrom(t) ==
  /\ \A k \in ownComments(t) : thread[t].comments[k].from \in Checkouts
  /\ job[t].pc = "post" => job[t].from \in Checkouts
EveryoneComposed == \A t \in Threads : composedFrom(t)

\* The inductive step for that.
LEMMA NextComposed == ThreadsOK /\ EveryoneComposed /\ [BotNext]_botVars => EveryoneComposed'
  <1> SUFFICES ASSUME ThreadsOK, EveryoneComposed, [BotNext]_botVars, NEW s \in Threads
               PROVE  composedFrom(s)'
    BY DEF EveryoneComposed
  <1>1. /\ composedFrom(s) /\ thread[s] \in Opened \cup {None} /\ job[s] \in Jobs
        /\ DOMAIN thread = Threads /\ DOMAIN job = Threads
    BY DEF EveryoneComposed, ThreadsOK, BotTypeOK
  <1>0. job[s].pc # "idle" => thread[s] # None
    <2>1. BotTypeOK /\ sourced(s)
      BY DEF ThreadsOK, ThreadOK
    <2> QED
      BY <2>1, RunsHaveThreads, NotNone
  <1>2. ASSUME thread'[s] = thread[s] \/ (thread[s] # None /\ thread'[s].comments = thread[s].comments),
               job'[s] = job[s] \/ job'[s].pc # "post"
        PROVE  composedFrom(s)'
    BY <1>1, <1>2 DEF composedFrom, ownComments
  <1>3. ASSUME NEW t \in Threads, end(t), thread' = thread PROVE composedFrom(s)'
    <2>1. job'[s] = job[s] \/ job'[s].pc # "post"
      BY <1>1, <1>3, IdleTyped DEF end
    <2> QED
      BY <1>2, <1>3, <2>1
  <1>4. ASSUME NEW t \in Threads, NEW user \in Openers[t], NEW text \in Texts[t], Open(t, user, text)
        PROVE  composedFrom(s)'
    <2>1. job'[s] = job[s]
      BY <1>4 DEF Open
    <2>2. CASE s = t
      <3>1. thread'[s].comments = << >>
        BY <1>1, <1>4, <2>2 DEF Open
      <3>2. ownComments(s)' = {}
        BY <3>1 DEF ownComments
      <3> QED
        BY <1>1, <2>1, <3>2 DEF composedFrom
    <2>3. CASE s # t
      <3>1. thread'[s] = thread[s]
        BY <1>1, <1>4, <2>3 DEF Open
      <3> QED
        BY <1>2, <2>1, <3>1
    <2> QED
      BY <2>2, <2>3
  <1>5. ASSUME NEW c, c.own => c.from \in Checkouts, thread[s] # None,
               thread'[s].comments = Append(thread[s].comments, c),
               job'[s] = job[s] \/ job'[s].pc # "post"
        PROVE  composedFrom(s)'
    <2> DEFINE old == thread[s].comments
               new == thread'[s].comments
    <2>1. old \in Seq(Comments)
      BY <1>1, <1>5 DEF Opened
    <2>2. \A k \in DOMAIN Append(old, c) :
            (k \in DOMAIN old /\ Append(old, c)[k] = old[k]) \/ Append(old, c)[k] = c
      <3> HIDE DEF old
      <3> QED
        BY <2>1
    <2>3. \A k \in DOMAIN old : old[k].own => old[k].from \in Checkouts
      BY <1>1, <1>5 DEF composedFrom, ownComments
    <2>4. \A k \in DOMAIN new : new[k].own => new[k].from \in Checkouts
      BY <1>5, <2>2, <2>3
    <2>5. \A k \in ownComments(s)' : new[k].from \in Checkouts
      BY <2>4 DEF ownComments
    <2> QED
      BY <1>1, <1>5, <2>5 DEF composedFrom
  <1>6. ASSUME NEW t \in Threads, NEW user \in Writers[t], Comment(t, user) PROVE composedFrom(s)'
    <2>1. job'[s] = job[s]
      BY <1>6 DEF Comment
    <2>2. CASE s = t
      <3>1. thread[s] # None /\ thread'[s].comments = Append(thread[s].comments, commentOf(user))
        BY <1>1, <1>6, <2>2 DEF Comment, Opened
      <3>2. ~ commentOf(user).own
        BY DEF commentOf
      <3> QED
        BY <1>5, <2>1, <3>1, <3>2
    <2>3. CASE s # t
      <3>1. thread'[s] = thread[s]
        BY <1>1, <1>6, <2>3 DEF Comment
      <3> QED
        BY <1>2, <2>1, <3>1
    <2> QED
      BY <2>2, <2>3
  <1>7. ASSUME NEW t \in Threads, Close(t) \/ Rerun(t) \/ Skip(t) PROVE composedFrom(s)'
    <2>1. job'[s] = job[s]
      BY <1>7 DEF Close, Rerun, Skip
    <2>2. thread'[s] = thread[s] \/ (thread[s] # None /\ thread'[s].comments = thread[s].comments)
      BY <1>1, <1>7 DEF Close, Rerun, Skip, Opened
    <2> QED
      BY <1>2, <2>1, <2>2
  <1>8. ASSUME NEW t \in Threads, Begin(t) PROVE composedFrom(s)'
    <2>1. thread' = thread
      BY <1>8, Zenon DEF Begin
    <2>2. PICK j : j.pc = "list" /\ (job' = [job EXCEPT ![t] = j] \/ job' = job)
      <3> DEFINE read == IF isDiscussion(t) THEN First(thread[t].comments, ThreadPage) ELSE << >>
                 k == [Idle EXCEPT !.pc = "list", !.event = waiting[t], !.comments = read]
      <3>1. k.pc = "list"
        BY DEF Idle
      <3>2. job' = [job EXCEPT ![t] = k] \/ job' = job
        BY <1>8, Zenon DEF Begin
      <3> QED
        BY <3>1, <3>2, Zenon
    <2>3. job'[s] = job[s] \/ job'[s].pc # "post"
      BY <1>1, <2>2
    <2> QED
      BY <1>2, <2>1, <2>3
  <1>9. ASSUME NEW t \in Threads, Guard(t) PROVE composedFrom(s)'
    <2>1. thread' = thread
      BY <1>9, Zenon DEF Guard
    <2>2. CASE end(t)
      BY <1>3, <2>1, <2>2
    <2>3. CASE ~ end(t)
      <3>1. job' = [job EXCEPT ![t].pc = "count"]
        BY <1>9, <2>3 DEF Guard
      <3>2. job'[s] = job[s] \/ job'[s].pc # "post"
        BY <1>1, <3>1 DEF Jobs
      <3> QED
        BY <1>2, <2>1, <3>2
    <2> QED
      BY <2>2, <2>3
  <1>10. ASSUME NEW t \in Threads, NEW from \in Checkouts, NEW written \in classify,
                Compose(t, from, written)
         PROVE  composedFrom(s)'
    <2>1. thread' = thread
      BY <1>10, Zenon DEF Compose
    <2>2. CASE end(t)
      BY <1>3, <2>1, <2>2
    <2>3. CASE ~ end(t)
      <3>1. PICK l : job' = [job EXCEPT ![t].pc = "post", ![t].from = from, ![t].labels = l]
        BY <1>10, <2>3, Zenon DEF Compose, composed
      <3>2. CASE s = t
        <4>1. job'[s].from = from
          BY <1>1, <3>1, <3>2 DEF Jobs
        <4> QED
          BY <1>1, <2>1, <4>1 DEF composedFrom, ownComments
      <3>3. CASE s # t
        <4>1. job'[s] = job[s]
          BY <1>1, <3>1, <3>3
        <4> QED
          BY <1>2, <2>1, <4>1
      <3> QED
        BY <3>2, <3>3
    <2> QED
      BY <2>2, <2>3
  <1>11. ASSUME NEW t \in Threads, PostFails(t) PROVE composedFrom(s)'
    BY <1>3, <1>11 DEF PostFails
  <1>12. ASSUME NEW t \in Threads, NEW answerLost \in BOOLEAN, Post(t, answerLost)
         PROVE  composedFrom(s)'
    <2> DEFINE c == [user |-> None, own |-> TRUE, to |-> job[t].event.user,
                     surface |-> job[t].event.surface, from |-> job[t].from]
    <2>1. /\ job[t].pc = "post"
          /\ thread' = [thread EXCEPT ![t].comments = Append(@, c)]
      BY <1>12 DEF Post, At, createComment
    <2>2. job'[s] = job[s] \/ job'[s].pc # "post"
      <3>1. job' = [job EXCEPT ![t] = Idle] \/ job' = [job EXCEPT ![t].pc = "label"]
        BY <1>12, Zenon DEF Post, end
      <3> QED
        BY <1>1, <3>1, IdleTyped DEF Jobs
    <2>3. CASE s = t
      <3>1. c.from \in Checkouts
        BY <1>1, <2>1, <2>3 DEF composedFrom
      <3>2. thread[s] # None
        BY <2>1, <2>3, <1>0
      <3>3. thread'[s].comments = Append(thread[s].comments, c)
        BY <1>1, <2>1, <2>3, <3>2 DEF Opened
      <3> HIDE DEF c
      <3> QED
        BY <1>5, <2>2, <3>1, <3>2, <3>3
    <2>4. CASE s # t
      <3>1. thread'[s] = thread[s]
        BY <1>1, <2>1, <2>4
      <3> QED
        BY <1>2, <2>2, <3>1
    <2> QED
      BY <2>3, <2>4
  <1>13. ASSUME NEW t \in Threads, NEW refused \in BOOLEAN, Label(t, refused) PROVE composedFrom(s)'
    <2>1. job'[s] = job[s] \/ job'[s].pc # "post"
      BY <1>1, <1>13, IdleTyped DEF Label, end
    <2>2. thread'[s] = thread[s] \/ (thread[s] # None /\ thread'[s].comments = thread[s].comments)
      <3>1. thread' = thread \/ thread' = [thread EXCEPT ![t].labels = @ \cup job[t].labels]
        BY <1>13, Zenon DEF Label
      <3>2. job[t].pc = "label"
        BY <1>13, Zenon DEF Label, At
      <3>3. CASE s = t
        <4>1. thread[s] # None /\ thread[s] \in Opened
          BY <1>1, <1>0, <3>2, <3>3
        <4> QED
          BY <1>1, <3>1, <3>3, <4>1 DEF Opened
      <3>4. CASE s # t
        BY <1>1, <3>1, <3>4
      <3> QED
        BY <3>3, <3>4
    <2> QED
      BY <1>2, <2>1, <2>2
  <1>14. CASE UNCHANGED botVars
    BY <1>2, <1>14 DEF botVars
  <1>15. CASE Disable
    BY <1>2, <1>15, Zenon DEF Disable
  <1> QED
    BY <1>4, <1>6, <1>7, <1>8, <1>9, <1>10, <1>11, <1>12, <1>13, <1>14, <1>15 DEF BotNext

\* Both invariants hold throughout.
LEMMA ComposedThroughout == BotSpec => [](BotInv /\ EveryoneComposed)
  <1>1. BotInit => EveryoneComposed
    BY DEF BotInit, EveryoneComposed, composedFrom, ownComments, Idle
  <1>2. BotInv /\ EveryoneComposed /\ [BotNext]_botVars => EveryoneComposed'
    BY NextComposed DEF BotInv, ThreadsOK
  <1> QED
    BY <1>1, <1>2, BotInvariant, PTL DEF BotSpec

\* When the bot answers a question that asks up to five things, it quotes the passage that matches
\* each of them best, whatever the documents and the weights of their words.
THEOREM NoQuestionIsCrowdedOut == BotSpec => []NoQuestionCrowdedOut
  <1>1. ASSUME BotInv, EveryoneComposed PROVE NoQuestionCrowdedOut
    <2> SUFFICES ASSUME NEW t \in Threads, NEW i \in ownComments(t),
                        NEW text, text = thread[t].text, NEW from, from = thread[t].comments[i].from,
                        NEW reply, reply = Reply[text][from],
                        reply.intent = "question", reply.answer.answered,
                        Len(decomposeQuestions(text)) <= 5
                 PROVE  Best[text][from] \subseteq {q.key : q \in reply.answer.quoted}
      BY Zenon DEF NoQuestionCrowdedOut
    <2>1. text \in AllTexts /\ from \in Checkouts
      <3>1. thread[t] \in Opened
        BY <1>1, Zenon DEF BotInv, BotTypeOK, ownComments
      <3> QED
        BY <1>1, <3>1, Zenon DEF Opened, EveryoneComposed, composedFrom
    <2>2. TextOK(text) /\ CorpusOK(Corpus[from])
      BY <2>1, TextAssumption, Zenon DEF TextOK, CorpusOK, ChunkOK
    <2>3. reply = triage(text, Corpus[from])
      BY <2>1, Zenon DEF Reply
    <2>4. Best[text][from] = firstsOf({pass(q, Corpus[from], slots("question", text), TRUE) :
                                          q \in ToSet(decomposeQuestions(text))})
      BY <2>1, Zenon DEF Best
    <2>5. ASSUME NEW key \in Best[text][from] PROVE key \in {q.key : q \in reply.answer.quoted}
      <3>1. PICK q \in ToSet(decomposeQuestions(text)) :
              /\ pass(q, Corpus[from], slots("question", text), TRUE) # << >>
              /\ key = keyOf(pass(q, Corpus[from], slots("question", text), TRUE)[1])
        BY <2>4, <2>5, Zenon DEF firstsOf
      <3>2. PICK hit : hit = pass(q, Corpus[from], slots("question", text), TRUE)
        BY Zenon
      <3>3. hit # << >> /\ key = keyOf(hit[1])
        BY <3>1, <3>2, Zenon
      <3>4. keyOf(hit[1]) \in {quote.key : quote \in reply.answer.quoted}
        BY <2>2, <2>3, <3>2, <3>3, QuotesTheBest, Zenon
      <3> QED
        BY <3>3, <3>4, Zenon
    <2> QED
      BY <2>5
  <1> QED
    BY <1>1, ComposedThroughout, PTL
=============================================================================
