--------------------------- MODULE PolicyGateProofs ---------------------------
(***************************************************************************)
(* Theorems about PolicyGate, for every policy file, every set of commands *)
(* and every clock.                                                        *)
(***************************************************************************)
EXTENDS PolicyGate, TLAPS, WellFoundedInduction

-----------------------------------------------------------------------------
(* Waivers *)

\* Initially nothing is granted and no command runs.
LEMMA InitWaivers == Init => IInv
  <1> SUFFICES ASSUME Init PROVE IInv
    OBVIOUS
  <1> USE DEF Init, Idle, busy, unexpired, loadAllExceptions
  <1>1. now \in 0 .. MaxTime
    BY GateAssumption
  <1>2. cli \in [Commands -> [phase : {"idle", "truncate", "write"}, list : SUBSET Grants]]
    OBVIOUS
  <1>3. TypeOK
    BY <1>1, <1>2 DEF TypeOK
  <1> QED
    BY <1>3 DEF IInv

\* What is granted now is a grant within its term.
LEMMA GrantTyped ==
  ASSUME TypeOK, NEW rule \in Typable, NEW scope \in Roots
  PROVE  granted(rule, scope) \in Grants
  BY GateAssumption DEF TypeOK, granted, Grants

\* A command that starts knows nothing that was not granted, and if it is alone
\* it knows what the ledger does.
LEMMA BeginWaivers ==
  ASSUME IInv, NEW c \in Commands, NEW rule \in Typable, NEW scope \in Roots,
         NEW new \in SUBSET Grants, Begin(c, rule, scope, new)
  PROVE  IInv'
  <1> DEFINE list == others(loadAllExceptions, rule, scope) \cup new
  <1>1. /\ list \subseteq issued' /\ issued \subseteq issued'
        /\ issued' \subseteq Grants /\ ledger' \subseteq issued'
    BY DEF IInv, TypeOK, Begin, others, unexpired
  <1>2. /\ cli' = [cli EXCEPT ![c] = [phase |-> "truncate", list |-> list]]
        /\ UNCHANGED << global, repoDoc, trusted, file, torn, now >>
    BY DEF Begin, policyVars
  <1>3. TypeOK'
    <2>1. list \in SUBSET Grants
      BY <1>1
    <2>2. cli' \in [Commands -> [phase : {"idle", "truncate", "write"}, list : SUBSET Grants]]
      BY <1>2, <2>1 DEF IInv, TypeOK
    <2>3. raced' \in BOOLEAN
      BY DEF IInv, TypeOK, Begin
    <2> QED
      BY <1>1, <1>2, <2>2, <2>3 DEF IInv, TypeOK
  <1>4. (loadAllExceptions \subseteq issued)'
    BY <1>1, <1>2 DEF IInv, loadAllExceptions
  <1>5. \A d \in Commands : cli'[d].list \subseteq issued'
    BY <1>1, <1>2 DEF IInv, TypeOK
  <1>6. ASSUME ~ raced'
        PROVE  /\ \A d \in Commands : busy(d)' <=> d = c
               /\ unexpired(cli[c].list)' = unexpired(ledger)'
    <2>1. ~ raced /\ \A d \in Commands : ~ busy(d)
      BY <1>6 DEF Begin
    <2>2. \A d \in Commands : busy(d)' <=> d = c
      BY <1>2, <2>1 DEF busy, IInv, TypeOK
    <2>3. unexpired(loadAllExceptions) = unexpired(ledger)
      BY <2>1 DEF IInv
    <2>4. cli'[c].list = list
      BY <1>2 DEF IInv, TypeOK
    <2>5. unexpired(list) = unexpired(ledger')
      BY <2>3 DEF unexpired, others, Begin
    <2> QED
      BY <1>2, <2>2, <2>4, <2>5 DEF unexpired
  <1> QED
    BY <1>1, <1>3, <1>4, <1>5, <1>6 DEF IInv

\* Two lists that agree on what runs now agree on it a moment later.
LEMMA UnexpiredLater ==
  ASSUME TypeOK, now' = now + 1, NEW A \in SUBSET Grants, NEW B \in SUBSET Grants,
         unexpired(A) = unexpired(B)
  PROVE  {g \in A : g.expires > now'} = {g \in B : g.expires > now'}
  <1>1. \A g \in Grants : g.expires \in Int
    BY GateAssumption DEF Grants
  <1>2. now \in Int
    BY DEF TypeOK
  <1>3. \A g \in Grants : g.expires > now' => g.expires > now
    BY <1>1, <1>2
  <1> QED
    BY <1>3 DEF unexpired

\* The inductive step.
LEMMA NextWaivers == IInv /\ [Next]_vars => IInv'
  <1> SUFFICES ASSUME IInv, [Next]_vars PROVE IInv'
    OBVIOUS
  <1>1. ASSUME NEW c \in Commands, NEW rule \in Typable, NEW scope \in Roots,
               addException(c, rule, scope)
        PROVE  IInv'
    BY <1>1, BeginWaivers, GrantTyped DEF addException, IInv
  <1>2. ASSUME NEW c \in Commands, NEW rule \in Typable, NEW scope \in Roots,
               revokeException(c, rule, scope)
        PROVE  IInv'
    BY <1>2, BeginWaivers DEF revokeException
  <1>3. ASSUME NEW c \in Commands, Truncate(c) PROVE IInv'
    <2> USE <1>3 DEF Truncate, policyVars
    <2>1. cli' \in [Commands -> [phase : {"idle", "truncate", "write"}, list : SUBSET Grants]]
      BY DEF IInv, TypeOK
    <2>2. \A d \in Commands : cli'[d].list = cli[d].list /\ (busy(d)' <=> busy(d)) /\ busy(c)
      BY DEF IInv, TypeOK, busy
    <2>3. TypeOK'
      BY <2>1 DEF IInv, TypeOK
    <2> QED
      BY <2>2, <2>3 DEF IInv, loadAllExceptions, unexpired
  <1>4. ASSUME NEW c \in Commands, Write(c) PROVE IInv'
    <2> USE <1>4 DEF Write, policyVars
    <2>1. cli' \in [Commands -> [phase : {"idle", "truncate", "write"}, list : SUBSET Grants]]
      BY DEF IInv, TypeOK, Idle
    <2>2. \A d \in Commands : /\ d # c => cli'[d] = cli[d]
                              /\ cli'[c] = Idle
      BY DEF IInv, TypeOK
    <2>3. TypeOK'
      BY <2>1 DEF IInv, TypeOK
    <2>4. loadAllExceptions' \subseteq cli[c].list
      BY DEF loadAllExceptions
    <2>5. cli[c].list \subseteq issued /\ busy(c)
      BY DEF IInv, busy
    <2>6. \A d \in Commands : cli'[d].list \subseteq issued'
      BY <2>2 DEF IInv, Idle
    <2>7. ASSUME ~ raced
          PROVE  /\ \A d \in Commands : ~ busy(d)'
                 /\ unexpired(loadAllExceptions)' = unexpired(ledger)'
      <3>1. \A d \in Commands : busy(d) => d = c
        BY <2>5, <2>7 DEF IInv
      <3>2. \A d \in Commands : ~ busy(d)'
        BY <2>2, <3>1 DEF busy, Idle
      <3>3. unexpired(cli[c].list) = unexpired(ledger)
        BY <2>5, <2>7 DEF IInv
      <3> QED
        BY <3>2, <3>3 DEF loadAllExceptions, unexpired
    <2> QED
      BY <2>3, <2>4, <2>5, <2>6, <2>7 DEF IInv
  <1>5. ASSUME NEW c \in Commands, Die(c) PROVE IInv'
    <2> USE <1>5 DEF Die, policyVars
    <2>1. cli' \in [Commands -> [phase : {"idle", "truncate", "write"}, list : SUBSET Grants]]
      BY DEF IInv, TypeOK, Idle
    <2>2. \A d \in Commands : cli'[d].list \subseteq cli[d].list
      BY DEF IInv, TypeOK, Idle
    <2>3. TypeOK'
      BY <2>1 DEF IInv, TypeOK
    <2> QED
      BY <2>2, <2>3 DEF IInv, loadAllExceptions
  <1>6. ASSUME Tick PROVE IInv'
    <2> USE <1>6 DEF Tick, policyVars
    <2>1. TypeOK'
      BY GateAssumption DEF IInv, TypeOK
    <2>2. loadAllExceptions' = loadAllExceptions
      BY DEF loadAllExceptions
    <2>3. /\ loadAllExceptions \in SUBSET Grants /\ ledger \in SUBSET Grants
          /\ \A c \in Commands : cli[c].list \in SUBSET Grants
      BY DEF IInv, TypeOK
    <2>4. unexpired(loadAllExceptions) = unexpired(ledger)
          => unexpired(loadAllExceptions)' = unexpired(ledger)'
      BY <2>2, <2>3, UnexpiredLater DEF IInv, unexpired
    <2>5. \A c \in Commands : unexpired(cli[c].list) = unexpired(ledger)
          => unexpired(cli[c].list)' = unexpired(ledger)'
      BY <2>3, UnexpiredLater DEF IInv, unexpired
    <2>6. \A c \in Commands : busy(c)' <=> busy(c)
      BY DEF busy
    <2> QED
      BY <2>1, <2>2, <2>4, <2>5, <2>6 DEF IInv
  <1>7. ASSUME EditPolicy PROVE IInv'
    <2> USE <1>7 DEF EditPolicy, Edit, trust, untrust, waiverVars
    <2>1. TypeOK'
      BY DEF IInv, TypeOK
    <2> QED
      BY <2>1 DEF IInv, loadAllExceptions, unexpired, busy
  <1>8. CASE UNCHANGED vars
    <2> USE <1>8 DEF vars, policyVars, waiverVars
    <2>1. TypeOK'
      BY DEF IInv, TypeOK
    <2> QED
      BY <2>1 DEF IInv, loadAllExceptions, unexpired, busy
  <1> QED
    BY <1>1, <1>2, <1>3, <1>4, <1>5, <1>6, <1>7, <1>8 DEF Next

\* The inductive invariant holds throughout.
LEMMA WaiverInvariant == Spec => []IInv
  BY InitWaivers, NextWaivers, PTL DEF Spec

\* A waiver that is honoured was granted and runs out when it was to.
THEOREM WaiversAlwaysHeal == Spec => []WaiversHeal
  <1>1. IInv => WaiversHeal
    BY DEF IInv, WaiversHeal, loadExceptions, unexpired
  <1> QED
    BY <1>1, WaiverInvariant, PTL

\* Commands that do not overlap lose no waiver and bring none back.
THEOREM LedgerIsKeptUnlessRaced == Spec => []LedgerUnlessRaced
  <1>1. IInv => LedgerUnlessRaced
    BY DEF IInv, LedgerUnlessRaced, loadExceptions
  <1> QED
    BY <1>1, WaiverInvariant, PTL

-----------------------------------------------------------------------------
(* The merge of the rule lists, one rule at a time *)

\* A set of numbers that is not empty has a least one.
LEMMA Least ==
  ASSUME NEW S \in SUBSET Nat, S # {}
  PROVE  \E m \in S : \A k \in S : m <= k
  <1>1. PICK m \in S : \A k \in S : << k, m >> \notin OpToRel(<, Nat)
    BY WFMin, NatLessThanWellFounded, Zenon
  <1>2. \A k \in S : ~ (k < m)
    BY <1>1, Zenon DEF OpToRel
  <1> QED
    BY <1>2

\* A set of exceptions up to a number, which 0 is not in and which nothing enters
\* first, is empty.
LEMMA UpTo ==
  ASSUME NEW n \in Nat, NEW S \in SUBSET (0 .. n), 0 \notin S,
         \A k \in 0 .. n - 1 : k \notin S => k + 1 \notin S
  PROVE  S = {}
  <1> SUFFICES ASSUME S # {} PROVE FALSE
    OBVIOUS
  <1>1. S \in SUBSET Nat
    OBVIOUS
  <1>2. PICK m \in S : \A k \in S : m <= k
    BY <1>1, Least
  <1>3. m \in 1 .. n /\ m - 1 \in 0 .. n - 1 /\ m - 1 + 1 = m /\ ~ m <= m - 1
    BY <1>1
  <1>4. m - 1 \notin S
    BY <1>2, <1>3
  <1> QED
    BY <1>3, <1>4

\* One rule more: over the user's list, or over the repository's.
Step(keep, rules, r) == IF keep THEN PutUnlessDowngrade(rules, r) ELSE Put(rules, r)

\* What a fold computes over the places of a list, the last place first.
StepOver(keep, g, T, base, seq) ==
  g = [s \in SUBSET T |-> IF s = {} THEN base ELSE Step(keep, g[s \ {Max(s)}], seq[Max(s)])]

LEMMA FoldsOver ==
  ASSUME NEW base, NEW seq
  PROVE  /\ FoldLeft(Put, base, seq) =
              (CHOOSE g : StepOver(FALSE, g, DOMAIN seq, base, seq))[DOMAIN seq]
         /\ FoldLeft(PutUnlessDowngrade, base, seq) =
              (CHOOSE g : StepOver(TRUE, g, DOMAIN seq, base, seq))[DOMAIN seq]
  <1>1. FoldLeft(Put, base, seq) = (CHOOSE g : StepOver(FALSE, g, DOMAIN seq, base, seq))[DOMAIN seq]
    BY Zenon DEF FoldLeft, MapThenFoldSet, StepOver, Step
  <1>2. FoldLeft(PutUnlessDowngrade, base, seq) = (CHOOSE g : StepOver(TRUE, g, DOMAIN seq, base, seq))[DOMAIN seq]
    BY Zenon DEF FoldLeft, MapThenFoldSet, StepOver, Step
  <1> QED
    BY <1>1, <1>2

\* The last of the first k places is k.
LEMMA MaxOfPrefix ==
  ASSUME NEW k \in Nat, NEW s \in SUBSET (1 .. k + 1), k + 1 \in s
  PROVE  Max(s) = k + 1 /\ s \ {k + 1} \in SUBSET (1 .. k)
  <1>1. \A x \in s : (\A y \in s : x >= y) <=> x = k + 1
    OBVIOUS
  <1>2. Max(s) = CHOOSE x \in s : \A y \in s : x >= y
    BY Zenon DEF Max
  <1>3. Max(s) = k + 1
    BY <1>1, <1>2
  <1> QED
    BY <1>3

LEMMA StepOverExists ==
  ASSUME NEW keep, NEW base, NEW seq, NEW n \in Nat
  PROVE  \E g : StepOver(keep, g, 1 .. n, base, seq)
  <1> DEFINE Bad0 == {k \in Nat : ~ \E g : StepOver(keep, g, 1 .. k, base, seq)}
  <1>1. 0 \notin Bad0
    <2> DEFINE g == [s \in SUBSET (1 .. 0) |-> base]
    <2>1. SUBSET (1 .. 0) = {{}}
      OBVIOUS
    <2>2. StepOver(keep, g, 1 .. 0, base, seq)
      BY <2>1 DEF StepOver
    <2> QED
      BY <2>2
  <1>2. ASSUME NEW k \in Nat, k \notin Bad0 PROVE k + 1 \notin Bad0
    <2>1. PICK g : StepOver(keep, g, 1 .. k, base, seq)
      BY <1>2
    <2> DEFINE h == [s \in SUBSET (1 .. k + 1) |->
                       IF k + 1 \in s THEN Step(keep, g[s \ {k + 1}], seq[k + 1]) ELSE g[s]]
    <2>2. \A s \in SUBSET (1 .. k) : h[s] = g[s]
      <3>1. \A s \in SUBSET (1 .. k) : s \in SUBSET (1 .. k + 1) /\ k + 1 \notin s
        OBVIOUS
      <3> QED
        BY <3>1
    <2>3. ASSUME NEW s \in SUBSET (1 .. k + 1), k + 1 \in s
          PROVE  h[s] = Step(keep, h[s \ {Max(s)}], seq[Max(s)])
      <3>1. Max(s) = k + 1 /\ s \ {k + 1} \in SUBSET (1 .. k)
        BY <2>3, MaxOfPrefix
      <3>2. h[s \ {k + 1}] = g[s \ {k + 1}]
        BY <2>2, <3>1
      <3>3. h[s] = Step(keep, g[s \ {k + 1}], seq[k + 1])
        BY <2>3
      <3> QED
        BY <3>1, <3>2, <3>3
    <2>4. ASSUME NEW s \in SUBSET (1 .. k + 1), k + 1 \notin s, s # {}
          PROVE  h[s] = Step(keep, h[s \ {Max(s)}], seq[Max(s)])
      <3>1. s \in SUBSET (1 .. k) /\ s \ {Max(s)} \in SUBSET (1 .. k)
        <4>1. \A x \in s : x \in 1 .. k
          BY <2>4
        <4> QED
          BY <4>1
      <3>2. h[s] = g[s] /\ h[s \ {Max(s)}] = g[s \ {Max(s)}]
        BY <2>2, <3>1
      <3>3. g[s] = Step(keep, g[s \ {Max(s)}], seq[Max(s)])
        BY <2>1, <2>4, <3>1 DEF StepOver
      <3> QED
        BY <3>2, <3>3
    <2>5. h[{}] = base
      <3>1. {} \in SUBSET (1 .. k)
        OBVIOUS
      <3>2. g[{}] = base
        BY <2>1, <3>1 DEF StepOver
      <3> QED
        BY <2>2, <3>1, <3>2
    <2> HIDE DEF h
    <2>6. \A s \in SUBSET (1 .. k + 1) :
            h[s] = IF s = {} THEN base ELSE Step(keep, h[s \ {Max(s)}], seq[Max(s)])
      BY <2>3, <2>4, <2>5
    <2>7. h = [s \in SUBSET (1 .. k + 1) |-> h[s]]
      BY DEF h
    <2>8. StepOver(keep, h, 1 .. k + 1, base, seq)
      BY <2>6, <2>7, Zenon DEF StepOver
    <2> QED
      BY <2>8
  <1> HIDE DEF Bad0
  <1>3. Bad0 = {}
    <2> SUFFICES ASSUME Bad0 # {} PROVE FALSE
      OBVIOUS
    <2>1. Bad0 \in SUBSET Nat
      BY DEF Bad0
    <2>2. PICK m \in Bad0 : \A k \in Bad0 : m <= k
      BY <2>1, Least
    <2>3. m # 0 /\ m \in Nat
      BY <1>1, <2>1, <2>2
    <2>4. m - 1 \in Nat /\ m - 1 \notin Bad0
      BY <2>1, <2>2, <2>3
    <2>5. m - 1 + 1 = m
      BY <2>3
    <2> QED
      BY <1>2, <2>2, <2>4, <2>5
  <1> QED
    BY <1>3 DEF Bad0

\* The two folds, and the lists they go through from the first place on.
Folded(keep, base, seq) ==
  IF keep THEN FoldLeft(PutUnlessDowngrade, base, seq) ELSE FoldLeft(Put, base, seq)

Steps(keep, h, base, seq, n) ==
  /\ h[0] = base
  /\ \A k \in 0 .. n - 1 : h[k + 1] = Step(keep, h[k], seq[k + 1])
  /\ h[n] = Folded(keep, base, seq)

LEMMA FoldSteps ==
  ASSUME NEW keep \in BOOLEAN, NEW base, NEW seq, NEW n \in Nat, DOMAIN seq = 1 .. n
  PROVE  \E h : Steps(keep, h, base, seq, n)
  <1> DEFINE g == CHOOSE f : StepOver(keep, f, 1 .. n, base, seq)
             h == [k \in 0 .. n |-> g[1 .. k]]
  <1>1. StepOver(keep, g, 1 .. n, base, seq)
    BY StepOverExists, Zenon
  <1>2. g[1 .. n] = Folded(keep, base, seq)
    <2>1. CASE keep = TRUE
      BY <2>1, FoldsOver, Zenon DEF Folded
    <2>2. CASE keep = FALSE
      BY <2>2, FoldsOver, Zenon DEF Folded
    <2> QED
      BY <2>1, <2>2
  <1> HIDE DEF g
  <1>3. g[{}] = base
    BY <1>1 DEF StepOver
  <1>4. ASSUME NEW k \in 0 .. n - 1 PROVE g[1 .. k + 1] = Step(keep, g[1 .. k], seq[k + 1])
    <2>1. 1 .. k + 1 \in SUBSET (1 .. n) /\ 1 .. k + 1 # {} /\ k \in Nat
      BY <1>4
    <2>2. Max(1 .. k + 1) = k + 1
      BY <2>1, MaxOfPrefix
    <2>3. (1 .. k + 1) \ {k + 1} = 1 .. k
      BY <2>1
    <2> QED
      BY <1>1, <2>1, <2>2, <2>3 DEF StepOver
  <1>5. h[0] = base /\ h[n] = g[1 .. n]
    <2>1. 1 .. 0 = {}
      OBVIOUS
    <2> QED
      BY <1>3, <2>1
  <1>6. \A k \in 0 .. n - 1 : h[k + 1] = Step(keep, h[k], seq[k + 1])
    BY <1>4
  <1>7. Steps(keep, h, base, seq, n)
    BY <1>2, <1>5, <1>6 DEF Steps
  <1> QED
    BY <1>7

\* A rule more leaves a list of rules.
LEMMA StepKeepsRules ==
  ASSUME NEW V, NEW rules \in Seq(V), NEW r \in V, NEW keep \in BOOLEAN
  PROVE  Step(keep, rules, r) \in Seq(V)
  <1>1. [i \in DOMAIN rules |-> IF rules[i].id = r.id THEN r ELSE rules[i]] \in Seq(V)
    <2>1. DOMAIN rules = 1 .. Len(rules) /\ Len(rules) \in Nat
      OBVIOUS
    <2>2. \A i \in 1 .. Len(rules) : (IF rules[i].id = r.id THEN r ELSE rules[i]) \in V
      OBVIOUS
    <2> QED
      BY <2>1, <2>2
  <1>2. Append(rules, r) \in Seq(V)
    OBVIOUS
  <1>3. Put(rules, r) \in Seq(V)
    BY <1>1, <1>2, Zenon DEF Put
  <1> QED
    BY <1>3 DEF Step, PutUnlessDowngrade

\* Lists added to a list give a list.
LEMMA FoldKeepsRules ==
  ASSUME NEW V, NEW keep \in BOOLEAN, NEW base \in Seq(V), NEW seq \in Seq(V)
  PROVE  Folded(keep, base, seq) \in Seq(V)
  <1> DEFINE n == Len(seq)
  <1>1. DOMAIN seq = 1 .. n /\ n \in Nat
    OBVIOUS
  <1>2. \A k \in 1 .. n : seq[k] \in V
    OBVIOUS
  <1> HIDE DEF n
  <1>3. PICK h : Steps(keep, h, base, seq, n)
    BY <1>1, FoldSteps
  <1> DEFINE S == {k \in 0 .. n : h[k] \notin Seq(V)}
  <1>4. 0 \notin S
    BY <1>3 DEF Steps
  <1>5. ASSUME NEW k \in 0 .. n - 1, k \notin S PROVE k + 1 \notin S
    <2>1. h[k] \in Seq(V) /\ seq[k + 1] \in V
      BY <1>1, <1>2, <1>5
    <2>2. h[k + 1] = Step(keep, h[k], seq[k + 1])
      BY <1>3 DEF Steps
    <2>3. h[k + 1] \in Seq(V)
      BY <2>1, <2>2, StepKeepsRules
    <2> QED
      BY <2>3
  <1>6. S = {}
    BY <1>1, <1>4, <1>5, UpTo
  <1> QED
    BY <1>1, <1>3, <1>6 DEF Steps

\* The merged list is a list of the rules of both.
LEMMA MergedRules ==
  ASSUME NEW us, IsRules(us), NEW rs, IsRules(rs)
  PROVE  mergeDeny(us, rs) \in Seq(Range(us) \cup Range(rs))
  <1> DEFINE V == Range(us) \cup Range(rs)
             first == FoldLeft(Put, << >>, us)
  <1>1. us \in Seq(V) /\ rs \in Seq(V)
    <2>1. us \in Seq(Range(us)) /\ rs \in Seq(Range(rs))
      BY DEF IsRules
    <2>2. \A A \in SUBSET V : \A s \in Seq(A) : s \in Seq(V)
      OBVIOUS
    <2> HIDE DEF V
    <2>3. Range(us) \in SUBSET V /\ Range(rs) \in SUBSET V
      BY DEF V
    <2> QED
      BY <2>1, <2>2, <2>3
  <1>2. << >> \in Seq(V)
    OBVIOUS
  <1> HIDE DEF V
  <1>3. first \in Seq(V)
    BY <1>1, <1>2, FoldKeepsRules DEF Folded
  <1> HIDE DEF first
  <1>4. FoldLeft(PutUnlessDowngrade, first, rs) \in Seq(V)
    BY <1>1, <1>3, FoldKeepsRules DEF Folded
  <1> QED
    BY <1>4 DEF mergeDeny, first, V

\* A list holds another when every rule is where it was, and blocks if it did.
Holds(rules, base) ==
  /\ DOMAIN base \subseteq DOMAIN rules
  /\ \A i \in DOMAIN base : /\ rules[i].id = base[i].id
                            /\ base[i].action = "block" => rules[i].action = "block"

\* Put leaves every id in its place, and has one for the rule's.
LEMMA PutKeepsIds ==
  ASSUME NEW V, NEW rules \in Seq(V), NEW r \in V
  PROVE  /\ DOMAIN rules \subseteq DOMAIN Put(rules, r)
         /\ \A i \in DOMAIN rules : Put(rules, r)[i].id = rules[i].id
         /\ \E i \in DOMAIN Put(rules, r) : Put(rules, r)[i].id = r.id
  <1>1. CASE \E i \in DOMAIN rules : rules[i].id = r.id
    <2>1. Put(rules, r) = [i \in DOMAIN rules |-> IF rules[i].id = r.id THEN r ELSE rules[i]]
      BY <1>1 DEF Put
    <2> QED
      BY <1>1, <2>1
  <1>2. CASE ~ \E i \in DOMAIN rules : rules[i].id = r.id
    <2>1. Put(rules, r) = Append(rules, r)
      BY <1>2 DEF Put
    <2>2. /\ DOMAIN rules = 1 .. Len(rules) /\ Len(rules) \in Nat
          /\ DOMAIN Append(rules, r) = 1 .. Len(rules) + 1
          /\ \A i \in 1 .. Len(rules) : Append(rules, r)[i] = rules[i]
          /\ Append(rules, r)[Len(rules) + 1] = r
      OBVIOUS
    <2> QED
      BY <2>1, <2>2
  <1> QED
    BY <1>1, <1>2

\* No rule of the repository's moves or downgrades one that blocks.
LEMMA KeepHolds ==
  ASSUME NEW V, NEW rules \in Seq(V), NEW r \in V, r.action \in {"block", "warn"},
         NEW base, Holds(rules, base)
  PROVE  Holds(PutUnlessDowngrade(rules, r), base)
  <1>1. CASE Downgrades(rules, r)
    BY <1>1 DEF PutUnlessDowngrade
  <1>2. CASE ~ Downgrades(rules, r)
    <2>1. PutUnlessDowngrade(rules, r) = Put(rules, r)
      BY <1>2 DEF PutUnlessDowngrade
    <2>2. \A i \in DOMAIN rules : rules[i].action = "block" => Put(rules, r)[i].action = "block"
      <3>1. CASE \E i \in DOMAIN rules : rules[i].id = r.id
        <4>1. Put(rules, r) = [i \in DOMAIN rules |-> IF rules[i].id = r.id THEN r ELSE rules[i]]
          BY <3>1 DEF Put
        <4>2. \A i \in DOMAIN rules : rules[i].id = r.id /\ rules[i].action = "block" => r.action = "block"
          BY <1>2 DEF Downgrades
        <4> QED
          BY <4>1, <4>2
      <3>2. CASE ~ \E i \in DOMAIN rules : rules[i].id = r.id
        <4>1. Put(rules, r) = Append(rules, r)
          BY <3>2 DEF Put
        <4> QED
          BY <4>1
      <3> QED
        BY <3>1, <3>2
    <2>3. /\ DOMAIN rules \subseteq DOMAIN Put(rules, r)
          /\ \A i \in DOMAIN rules : Put(rules, r)[i].id = rules[i].id
      BY PutKeepsIds
    <2> QED
      BY <2>1, <2>2, <2>3 DEF Holds
  <1> QED
    BY <1>1, <1>2

\* Every id of a list is in the map that is made of it.
LEMMA EveryIdIsPut ==
  ASSUME NEW us, IsRules(us)
  PROVE  /\ FoldLeft(Put, << >>, us) \in Seq(Range(us))
         /\ \A r \in Range(us) : \E i \in DOMAIN FoldLeft(Put, << >>, us) :
              FoldLeft(Put, << >>, us)[i].id = r.id
  <1> DEFINE n == Len(us)
             V == Range(us)
  <1>1. us \in Seq(V)
    BY DEF IsRules
  <1> HIDE DEF V
  <1>2. DOMAIN us = 1 .. n /\ n \in Nat /\ \A k \in 1 .. n : us[k] \in V
    BY <1>1
  <1> HIDE DEF n
  <1>3. PICK h : Steps(FALSE, h, << >>, us, n)
    BY <1>2, FoldSteps
  <1> DEFINE S == {k \in 0 .. n : ~ /\ h[k] \in Seq(V)
                                    /\ \A j \in 1 .. k : \E i \in DOMAIN h[k] : h[k][i].id = us[j].id}
  <1>4. 0 \notin S
    <2>1. h[0] = << >> /\ << >> \in Seq(V) /\ 1 .. 0 = {}
      BY <1>3 DEF Steps
    <2> QED
      BY <2>1, Zenon
  <1>5. ASSUME NEW k \in 0 .. n - 1, k \notin S PROVE k + 1 \notin S
    <2>1. /\ h[k] \in Seq(V) /\ us[k + 1] \in V
          /\ \A j \in 1 .. k : \E i \in DOMAIN h[k] : h[k][i].id = us[j].id
      BY <1>2, <1>5
    <2>2. h[k + 1] = Put(h[k], us[k + 1]) /\ h[k + 1] = Step(FALSE, h[k], us[k + 1])
      BY <1>3 DEF Steps, Step
    <2>3. h[k + 1] \in Seq(V)
      BY <2>1, <2>2, StepKeepsRules
    <2>4. /\ DOMAIN h[k] \subseteq DOMAIN h[k + 1]
          /\ \A i \in DOMAIN h[k] : h[k + 1][i].id = h[k][i].id
          /\ \E i \in DOMAIN h[k + 1] : h[k + 1][i].id = us[k + 1].id
      <3> DEFINE rules == h[k]
                 r == us[k + 1]
      <3>1. rules \in Seq(V) /\ r \in V /\ h[k + 1] = Put(rules, r)
        BY <2>1, <2>2
      <3> HIDE DEF rules, r
      <3>2. /\ DOMAIN rules \subseteq DOMAIN Put(rules, r)
            /\ \A i \in DOMAIN rules : Put(rules, r)[i].id = rules[i].id
            /\ \E i \in DOMAIN Put(rules, r) : Put(rules, r)[i].id = r.id
        BY <3>1, PutKeepsIds
      <3> QED
        BY <3>1, <3>2 DEF rules, r
    <2>5. \A j \in 1 .. k + 1 : \E i \in DOMAIN h[k + 1] : h[k + 1][i].id = us[j].id
      <3>1. \A j \in 1 .. k + 1 : j \in 1 .. k \/ j = k + 1
        BY <1>2
      <3> QED
        BY <2>1, <2>4, <3>1
    <2> QED
      BY <2>3, <2>5
  <1>6. S = {}
    BY <1>2, <1>4, <1>5, UpTo
  <1>7. /\ h[n] \in Seq(V)
        /\ \A j \in 1 .. n : \E i \in DOMAIN h[n] : h[n][i].id = us[j].id
    BY <1>2, <1>6
  <1>8. h[n] = FoldLeft(Put, << >>, us)
    BY <1>3 DEF Steps, Folded
  <1>9. \A r \in V : \E j \in 1 .. n : r = us[j]
    BY <1>2 DEF V, Range
  <1> QED
    BY <1>7, <1>8, <1>9 DEF V

\* Whatever a repository lists, the map it is merged into is held.
LEMMA MergeHolds ==
  ASSUME NEW us, IsRules(us), NEW rs, IsRules(rs)
  PROVE  Holds(mergeDeny(us, rs), FoldLeft(Put, << >>, us))
  <1> DEFINE n == Len(rs)
             base == FoldLeft(Put, << >>, us)
             V == Range(us) \cup Range(rs)
  <1>1. rs \in Seq(Range(rs)) /\ base \in Seq(Range(us))
    BY EveryIdIsPut DEF IsRules
  <1>2. rs \in Seq(V) /\ base \in Seq(V)
    <2>1. \A A \in SUBSET V : \A s \in Seq(A) : s \in Seq(V)
      OBVIOUS
    <2> HIDE DEF base, V
    <2>2. Range(us) \in SUBSET V /\ Range(rs) \in SUBSET V
      BY DEF V
    <2> QED
      BY <1>1, <2>1, <2>2
  <1>3. \A r \in Range(rs) : r.action \in {"block", "warn"}
    BY DEF IsRules
  <1> HIDE DEF V, base
  <1>4. DOMAIN rs = 1 .. n /\ n \in Nat /\ \A k \in 1 .. n : rs[k] \in V /\ rs[k].action \in {"block", "warn"}
    <2>1. DOMAIN rs = 1 .. n /\ n \in Nat /\ \A k \in 1 .. n : rs[k] \in V
      BY <1>2
    <2>2. \A k \in DOMAIN rs : rs[k] \in Range(rs)
      BY DEF Range
    <2> QED
      BY <1>3, <2>1, <2>2
  <1> HIDE DEF n
  <1>5. PICK h : Steps(TRUE, h, base, rs, n)
    BY <1>4, FoldSteps
  <1> DEFINE S == {k \in 0 .. n : ~ (h[k] \in Seq(V) /\ Holds(h[k], base))}
  <1>6. 0 \notin S
    BY <1>2, <1>5 DEF Steps, Holds
  <1>7. ASSUME NEW k \in 0 .. n - 1, k \notin S PROVE k + 1 \notin S
    <2>1. h[k] \in Seq(V) /\ Holds(h[k], base) /\ rs[k + 1] \in V /\ rs[k + 1].action \in {"block", "warn"}
      BY <1>4, <1>7
    <2>2. h[k + 1] = PutUnlessDowngrade(h[k], rs[k + 1]) /\ h[k + 1] = Step(TRUE, h[k], rs[k + 1])
      BY <1>5 DEF Steps, Step
    <2>3. h[k + 1] \in Seq(V) /\ Holds(h[k + 1], base)
      BY <2>1, <2>2, StepKeepsRules, KeepHolds
    <2> QED
      BY <2>3
  <1>8. S = {}
    BY <1>4, <1>6, <1>7, UpTo
  <1>9. Holds(h[n], base)
    BY <1>4, <1>8
  <1> QED
    BY <1>5, <1>9 DEF Steps, Folded, mergeDeny, base

-----------------------------------------------------------------------------
(* The merge of the policies *)

\* The policies that the files make have their lists where they should be.
WellFormed(p) ==
  /\ p = [k \in Keys |-> p[k]]
  /\ p.allowed \subseteq Entries /\ p.forbidden \subseteq Entries
  /\ IsRules(p.deny)

\* A document that parses over a well-formed base gives a well-formed policy.
LEMMA ParseWellFormed ==
  ASSUME NEW doc, DocOK(doc), NEW base, WellFormed(base), parseFile(doc, base) # Malformed
  PROVE  WellFormed(parseFile(doc, base))
  <1>1. CASE doc = Absent
    BY <1>1 DEF parseFile
  <1>2. CASE doc # Absent
    <2> DEFINE q == parseFile(doc, base)
    <2>1. doc # Malformed
      BY <1>2 DEF parseFile
    <2>2. q = validatePolicy(doc, base)
      BY <1>2, <2>1 DEF parseFile
    <2>3. /\ ~ \E k \in DOMAIN doc : doc[k] = Bad
          /\ q = [k \in Keys |-> CASE k \notin DOMAIN doc -> base[k]
                                 [] k \in DOMAIN doc /\ doc[k] = Null -> Blank(k, base)
                                 [] OTHER -> doc[k]]
      BY <2>2 DEF validatePolicy
    <2>4. {"allowed", "forbidden", "deny"} \subseteq Keys
      BY DEF Keys
    <2>5. q.allowed \subseteq Entries
      BY <1>2, <2>1, <2>3, <2>4 DEF WellFormed, DocOK, Blank, Lists
    <2>6. q.forbidden \subseteq Entries
      BY <1>2, <2>1, <2>3, <2>4 DEF WellFormed, DocOK, Blank, Lists
    <2>7. IsRules(q.deny)
      BY <1>2, <2>1, <2>3, <2>4 DEF WellFormed, DocOK, Blank, Lists
    <2>8. q = [k \in Keys |-> q[k]]
      BY <2>3
    <2> QED
      BY <2>5, <2>6, <2>7, <2>8 DEF WellFormed
  <1> QED
    BY <1>1, <1>2

\* The user's layer is well formed.
LEMMA UserWellFormed ==
  ASSUME TypeOK, user # Malformed
  PROVE  WellFormed(user)
  BY GateAssumption, DefaultsAssumption, ParseWellFormed DEF TypeOK, user, userLayer, WellFormed

\* The merge is a policy that narrows the user's: what was forbidden stays so,
\* and every entry that is allowed lies in one that was.
LEMMA NarrowNarrows ==
  ASSUME NEW u, WellFormed(u), NEW r, WellFormed(r)
  PROVE  LET n == narrowOnly(u, r) IN
         /\ u.forbidden \subseteq n.forbidden
         /\ u.allowed # {} => n.allowed # {}
         /\ \A a \in n.allowed : \E b \in u.allowed : a = b \/ Covers[a] \subseteq Covers[b]
         /\ u.uncommitted => n.uncommitted
         /\ n.ephemeral = u.ephemeral /\ n.backup = u.backup
         /\ \A a \in n.allowed : \E b \in u.allowed : Inside(a) \subseteq Inside(b)
         /\ u.branches \subseteq n.branches
         /\ n.deny = mergeDeny(u.deny, r.deny)
  <1> DEFINE n == narrowOnly(u, r)
  <1>1. u = [k \in Keys |-> u[k]] /\ {"allowed", "forbidden", "uncommitted", "ephemeral", "backup", "branches", "deny"} \subseteq Keys
    BY DEF WellFormed, Keys
  <1>2. /\ n.forbidden = u.forbidden \cup r.forbidden
        /\ n.allowed = IF Kept(u, r) # {} THEN Kept(u, r) ELSE u.allowed
        /\ n.uncommitted = (u.uncommitted \/ r.uncommitted)
        /\ n.ephemeral = u.ephemeral /\ n.backup = u.backup
        /\ n.branches = u.branches \cup r.branches
        /\ n.deny = mergeDeny(u.deny, r.deny)
    BY <1>1 DEF narrowOnly
  <1>3. \A a \in Kept(u, r) : \E b \in u.allowed : a = b \/ Covers[a] \subseteq Covers[b]
    BY DEF Kept, Inside
  <1>4. \A a \in Kept(u, r) : \E b \in u.allowed : Inside(a) \subseteq Inside(b)
    BY DEF Kept, Inside
  <1> HIDE DEF n
  <1>5. /\ u.forbidden \subseteq n.forbidden
        /\ u.allowed # {} => n.allowed # {}
        /\ \A a \in n.allowed : \E b \in u.allowed : a = b \/ Covers[a] \subseteq Covers[b]
        /\ u.uncommitted => n.uncommitted
        /\ n.ephemeral = u.ephemeral /\ n.backup = u.backup
        /\ \A a \in n.allowed : \E b \in u.allowed : Inside(a) \subseteq Inside(b)
        /\ u.branches \subseteq n.branches
        /\ n.deny = mergeDeny(u.deny, r.deny)
    <2>1. u.allowed # {} => n.allowed # {}
      BY <1>2
    <2>2. \A a \in n.allowed : \E b \in u.allowed : a = b \/ Covers[a] \subseteq Covers[b]
      BY <1>2, <1>3
    <2>3. u.uncommitted => n.uncommitted
      BY <1>2, Zenon
    <2>4. \A a \in n.allowed : \E b \in u.allowed : Inside(a) \subseteq Inside(b)
      BY <1>2, <1>4
    <2> QED
      BY <1>2, <2>1, <2>2, <2>3, <2>4
  <1> QED
    BY <1>5 DEF n

\* A file call is denied exactly when one of the rules about files fires.
LEMMA FileDenial ==
  ASSUME NEW e, e.tool # "bash", NEW p
  PROVE  (evaluateLayer1Raw(e, p, FALSE).decision = "deny") <=>
         \/ Forbids(e, p) # {} \/ OutOfScope(e, p) \/ OverUncommitted(e, p, FALSE) \/ DotenvByTool(e)
  <1>1. Listed(e, p) = {} /\ ~ DotenvByCommand(e)
    BY DEF Listed, DotenvByCommand
  <1> QED
    BY <1>1 DEF evaluateLayer1Raw, Deny, Allow

\* What the user's policy denies a file tool, the merge denies.
LEMMA NarrowDenies ==
  ASSUME NEW u, WellFormed(u), NEW r, WellFormed(r), NEW e, e.tool # "bash",
         evaluateLayer1Raw(e, u, FALSE).decision = "deny"
  PROVE  evaluateLayer1Raw(e, narrowOnly(u, r), FALSE).decision = "deny"
  <1> DEFINE n == narrowOnly(u, r)
  <1>1. /\ u.forbidden \subseteq n.forbidden
        /\ u.allowed # {} => n.allowed # {}
        /\ \A a \in n.allowed : \E b \in u.allowed : a = b \/ Covers[a] \subseteq Covers[b]
        /\ u.uncommitted => n.uncommitted
        /\ n.ephemeral = u.ephemeral
    BY NarrowNarrows
  <1> HIDE DEF n
  <1>2. Forbids(e, u) # {} => Forbids(e, n) # {}
    BY <1>1 DEF Forbids
  <1>3. InScratchpad(e.path, n) => InScratchpad(e.path, u)
    BY <1>1 DEF InScratchpad
  <1>4. OutOfScope(e, u) => OutOfScope(e, n)
    BY <1>1, <1>3 DEF OutOfScope
  <1>5. OverUncommitted(e, u, FALSE) => OverUncommitted(e, n, FALSE)
    BY <1>1 DEF OverUncommitted
  <1>6. evaluateLayer1Raw(e, n, FALSE).decision = "deny"
    BY <1>2, <1>4, <1>5, FileDenial
  <1> QED
    BY <1>6 DEF n

\* A command is denied when a forbidden path is named, when the first rule of the
\* list that fires blocks, and when a .env file is read.
LEMMA CommandDenial ==
  ASSUME NEW e, e.tool = "bash", NEW p
  PROVE  (evaluateLayer1Raw(e, p, FALSE).decision = "deny") <=>
         \/ Forbids(e, p) # {}
         \/ Listed(e, p) # {} /\ p.deny[First(Listed(e, p))].action = "block"
         \/ Listed(e, p) = {} /\ DotenvByCommand(e)
  <1>1. ~ OutOfScope(e, p) /\ ~ OverUncommitted(e, p, FALSE) /\ ~ DotenvByTool(e)
    BY DEF OutOfScope, OverUncommitted, DotenvByTool
  <1>2. \A r, i : (ListedVerdict(r, i).decision = "deny") <=> r.action = "block"
    BY DEF ListedVerdict, Deny, Warn
  <1> QED
    BY <1>1, <1>2 DEF evaluateLayer1Raw, Deny, Allow

\* A rule that fires under the user's policy fires under the merge: no statement
\* has all its targets in the scope that did not, and no branch is protected less.
LEMMA NarrowFires ==
  ASSUME NEW u, WellFormed(u), NEW r, WellFormed(r), NEW e, NEW rule, RuleFires(rule, e, u)
  PROVE  RuleFires(rule, e, narrowOnly(u, r))
  <1> DEFINE n == narrowOnly(u, r)
  <1>1. /\ u.forbidden \subseteq n.forbidden
        /\ \A a \in n.allowed : \E b \in u.allowed : Inside(a) \subseteq Inside(b)
        /\ n.ephemeral = u.ephemeral
        /\ u.branches \subseteq n.branches
    BY NarrowNarrows
  <1> HIDE DEF n
  <1>2. \A t : InScratchpad(t, n) => InScratchpad(t, u)
    BY <1>1 DEF InScratchpad
  <1>3. \A st : commandTargetsOnlyAllowedPaths(st, n) => commandTargetsOnlyAllowedPaths(st, u)
    BY <1>1, <1>2 DEF commandTargetsOnlyAllowedPaths
  <1>4. \A st, branch : targetsProtectedBranch(st, u, branch) => targetsProtectedBranch(st, n, branch)
    BY <1>1 DEF targetsProtectedBranch
  <1>5. RuleFires(rule, e, n)
    BY <1>3, <1>4 DEF RuleFires
  <1> QED
    BY <1>5 DEF n

\* What the user's policy denies a command, the merge denies when its rules add up.
LEMMA NarrowDeniesCommands ==
  ASSUME NEW u, WellFormed(u), NEW r, WellFormed(r), NEW e, e.tool = "bash",
         \A rule \in Range(narrowOnly(u, r).deny) : rule.action = "block",
         Range(u.deny) \subseteq Range(narrowOnly(u, r).deny),
         evaluateLayer1Raw(e, u, FALSE).decision = "deny"
  PROVE  evaluateLayer1Raw(e, narrowOnly(u, r), FALSE).decision = "deny"
  <1> DEFINE n == narrowOnly(u, r)
  <1>1. u.forbidden \subseteq n.forbidden /\ n.deny = mergeDeny(u.deny, r.deny)
    BY NarrowNarrows
  <1>2. DOMAIN n.deny \in SUBSET Nat
    <2>1. n.deny \in Seq(Range(u.deny) \cup Range(r.deny))
      BY <1>1, MergedRules DEF WellFormed
    <2> HIDE DEF n
    <2> QED
      BY <2>1
  <1>3. /\ \A rule \in Range(n.deny) : rule.action = "block"
        /\ Range(u.deny) \subseteq Range(n.deny)
        /\ \A rule : RuleFires(rule, e, u) => RuleFires(rule, e, n)
    BY NarrowFires
  <1> HIDE DEF n
  <1>4. Forbids(e, u) # {} => Forbids(e, n) # {}
    BY <1>1 DEF Forbids
  <1>5. Listed(e, u) # {} => Listed(e, n) # {}
    <2>1. ASSUME NEW i \in Listed(e, u) PROVE Listed(e, n) # {}
      <3>1. i \in DOMAIN u.deny /\ RuleFires(u.deny[i], e, u)
        BY DEF Listed
      <3>2. u.deny[i] \in Range(n.deny)
        BY <1>3, <3>1 DEF Range
      <3>3. PICK j \in DOMAIN n.deny : n.deny[j] = u.deny[i]
        BY <3>2 DEF Range
      <3>4. j \in Listed(e, n)
        BY <1>3, <3>1, <3>3 DEF Listed
      <3> QED
        BY <3>4
    <2> QED
      BY <2>1
  <1>6. Listed(e, n) # {} => n.deny[First(Listed(e, n))].action = "block"
    <2>1. SUFFICES ASSUME Listed(e, n) # {} PROVE n.deny[First(Listed(e, n))].action = "block"
      OBVIOUS
    <2>2. Listed(e, n) \in SUBSET Nat /\ Listed(e, n) \subseteq DOMAIN n.deny
      BY <1>2 DEF Listed
    <2>3. \E i \in Listed(e, n) : \A j \in Listed(e, n) : i <= j
      BY <2>1, <2>2, Least
    <2>4. First(Listed(e, n)) \in Listed(e, n)
      BY <2>3, Zenon DEF First
    <2> QED
      BY <1>3, <2>2, <2>4 DEF Range
  <1>7. evaluateLayer1Raw(e, n, FALSE).decision = "deny"
    BY <1>4, <1>5, <1>6, CommandDenial
  <1> QED
    BY <1>7 DEF n

\* A denial that ends up allowed was waived by a grant that is running.
LEMMA AllowedIsWaived ==
  ASSUME IInv, NEW e, NEW p,
         evaluateLayer1Raw(e, p, FALSE).decision = "deny",
         evaluateLayer1(e, p, Here, loadExceptions).decision = "allow"
  PROVE  \E g \in unexpired(issued) :
           g.scope = Here /\ ruleMatches(g.rule, evaluateLayer1Raw(e, p, FALSE).rule)
  <1> DEFINE raw == evaluateLayer1Raw(e, p, FALSE)
  <1> HIDE DEF raw
  <1>1. findException(raw.rule, Here, loadExceptions) # {}
    BY DEF evaluateLayer1, raw
  <1>2. loadExceptions \subseteq unexpired(issued)
    BY DEF IInv, loadExceptions, unexpired
  <1> QED
    BY <1>1, <1>2 DEF findException, raw

\* What is in force here: the user's layer alone, or the merge of the two.
LEMMA EffectiveIsNarrowed ==
  ASSUME TypeOK, effective # Malformed
  PROVE  /\ WellFormed(user)
         /\ effective.backup = user.backup
         /\ ~ trusted => \/ effective = user
                         \/ \E r : WellFormed(r) /\ effective = narrowOnly(user, r)
  <1> DEFINE r == parseFile(repoDoc, user)
  <1>1. user # Malformed /\ r # Malformed
    BY DEF effective, loadPolicy, user
  <1>2. WellFormed(user)
    BY <1>1, UserWellFormed
  <1>3. WellFormed(r)
    BY <1>1, <1>2, ParseWellFormed, GateAssumption DEF TypeOK
  <1>4. CASE repoDoc = Absent
    <2>1. effective = user
      BY <1>1, <1>4 DEF effective, loadPolicy, user
    <2> QED
      BY <1>2, <2>1
  <1>5. CASE repoDoc # Absent /\ trusted
    <2>1. effective = [r EXCEPT !.backup = user.backup]
      BY <1>1, <1>5 DEF effective, loadPolicy, trustedPolicy, user
    <2>2. r = [k \in Keys |-> r[k]] /\ "backup" \in Keys
      BY <1>3 DEF WellFormed, Keys
    <2> HIDE DEF r
    <2> QED
      BY <1>2, <1>5, <2>1, <2>2
  <1>6. CASE repoDoc # Absent /\ ~ trusted
    <2>1. effective = narrowOnly(user, r)
      BY <1>1, <1>6 DEF effective, loadPolicy, user
    <2> HIDE DEF r
    <2>2. effective.backup = user.backup
      BY <1>2, <1>3, <2>1, NarrowNarrows
    <2> QED
      BY <1>2, <1>3, <2>1, <2>2
  <1> QED
    BY <1>4, <1>5, <1>6 DEF TypeOK

\* A file call that the user's policy refuses and that is let through was waived.
LEMMA RefusedFilesStand ==
  ASSUME IInv, effective # Malformed, ~ trusted, NEW e \in Calls, e.tool # "bash",
         evaluateLayer1Raw(e, user, FALSE).decision = "deny", Final(e).decision = "allow"
  PROVE  \E g \in unexpired(issued) :
           g.scope = Here /\ ruleMatches(g.rule, evaluateLayer1Raw(e, effective, FALSE).rule)
  <1>1. TypeOK
    BY DEF IInv
  <1>2. evaluateLayer1Raw(e, effective, FALSE).decision = "deny"
    BY <1>1, EffectiveIsNarrowed, NarrowDenies
  <1> QED
    BY <1>2, AllowedIsWaived DEF Final

\* An untrusted repository only tightens what the file tools may do.
THEOREM FileRefusalsAlwaysStand == Spec => []FileRefusalsStand
  <1>1. IInv => FileRefusalsStand
    BY RefusedFilesStand DEF FileRefusalsStand, Stands
  <1> QED
    BY <1>1, WaiverInvariant, PTL

\* Nor does it loosen what commands may do, where rules can be added up.
THEOREM RefusalsAlwaysStand == Spec => []RefusalsStand
  <1>1. IInv => FileRefusalsStand
    BY RefusedFilesStand DEF FileRefusalsStand, Stands
  <1>2. ASSUME IInv, effective # Malformed, ~ trusted, AddUp, NEW e \in Calls, e.tool = "bash",
               evaluateLayer1Raw(e, user, FALSE).decision = "deny", Final(e).decision = "allow"
        PROVE  \E g \in unexpired(issued) :
                 g.scope = Here /\ ruleMatches(g.rule, evaluateLayer1Raw(e, effective, FALSE).rule)
    <2>1. TypeOK
      BY <1>2 DEF IInv
    <2>2. evaluateLayer1Raw(e, effective, FALSE).decision = "deny"
      <3>1. CASE effective = user
        BY <1>2, <3>1
      <3>2. CASE effective # user
        <4>1. PICK r : WellFormed(r) /\ effective = narrowOnly(user, r)
          BY <1>2, <2>1, <3>2, EffectiveIsNarrowed
        <4>2. WellFormed(user)
          BY <1>2, <2>1, EffectiveIsNarrowed
        <4> QED
          BY <1>2, <4>1, <4>2, NarrowDeniesCommands DEF AddUp
      <3> QED
        BY <3>1, <3>2
    <2> QED
      BY <1>2, <2>2, AllowedIsWaived DEF Final
  <1>3. IInv => RefusalsStand
    BY <1>1, <1>2 DEF RefusalsStand, FileRefusalsStand, Stands
  <1> QED
    BY <1>3, WaiverInvariant, PTL

\* A rule of the user's that blocks cannot be taken out or turned into a warning
\* by a repository that is not trusted (load.ts:164-188): its id still blocks.  An
\* id that the user lists twice counts by its last rule, so both must block.
BlocksStay ==
  effective # Malformed /\ ~ trusted =>
    \A r \in Range(user.deny) :
      (\A q \in Range(user.deny) : q.id = r.id => q.action = "block") =>
        \E q \in Range(effective.deny) : q.id = r.id /\ q.action = "block"

\* No repository downgrades or drops a command rule that blocks.
THEOREM BlocksAlwaysStay == Spec => []BlocksStay
  <1>1. ASSUME IInv, effective # Malformed, ~ trusted, NEW r \in Range(user.deny),
               \A q \in Range(user.deny) : q.id = r.id => q.action = "block"
        PROVE  \E q \in Range(effective.deny) : q.id = r.id /\ q.action = "block"
    <2>1. TypeOK
      BY <1>1 DEF IInv
    <2>2. CASE effective = user
      BY <1>1, <2>2
    <2>3. CASE effective # user
      <3> DEFINE base == FoldLeft(Put, << >>, user.deny)
      <3>1. PICK p : WellFormed(p) /\ effective = narrowOnly(user, p)
        BY <1>1, <2>1, <2>3, EffectiveIsNarrowed
      <3>2. IsRules(user.deny) /\ IsRules(p.deny) /\ WellFormed(user)
        BY <1>1, <2>1, <3>1, EffectiveIsNarrowed DEF WellFormed
      <3>3. effective.deny = mergeDeny(user.deny, p.deny)
        BY <3>1, <3>2, NarrowNarrows
      <3>4. Holds(effective.deny, base)
        BY <3>2, <3>3, MergeHolds
      <3>5. /\ base \in Seq(Range(user.deny))
            /\ \E i \in DOMAIN base : base[i].id = r.id
        BY <3>2, EveryIdIsPut
      <3> HIDE DEF base
      <3>6. PICK i \in DOMAIN base : base[i].id = r.id
        BY <3>5
      <3>7. base[i] \in Range(user.deny)
        BY <3>5
      <3>8. base[i].action = "block"
        BY <1>1, <3>6, <3>7
      <3> QED
        BY <3>4, <3>6, <3>8 DEF Holds, Range
    <2> QED
      BY <2>2, <2>3
  <1>2. IInv => BlocksStay
    BY <1>1 DEF BlocksStay
  <1> QED
    BY <1>2, WaiverInvariant, PTL

\* No repository chooses where the record is copied to.
THEOREM BackupIsAlwaysTheUsers == Spec => []BackupIsTheUsers
  <1>1. IInv => BackupIsTheUsers
    BY EffectiveIsNarrowed DEF IInv, BackupIsTheUsers
  <1> QED
    BY <1>1, WaiverInvariant, PTL
=============================================================================
