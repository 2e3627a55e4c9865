------------------------------ MODULE Reports ------------------------------
(***************************************************************************)
(* What usewarden says about its own record: `usewarden metrics`           *)
(* (src/src/metrics.ts), the telemetry payload (src/src/telemetry.ts), the *)
(* session receipt and the week (src/src/receipt.ts, src/src/week.ts), the *)
(* replay of stored incidents against the rules of now (src/src/replay.ts),*)
(* the frozen label set (src/src/labels.ts) and the value report           *)
(* (src/src/value.ts).  Every figure is derived by query, so each is an    *)
(* operator of the database                                                *)
(*     db = [sessions, events, incidents, spend]                           *)
(* a record of sets of rows.  None is SQL NULL and a missing result.       *)
(***************************************************************************)
EXTENDS Integers, FiniteSets, FiniteSetsExt

CONSTANTS
  None,
  RuleWords,     \* the words of its vocabulary each rule id contains
  TargetWords,   \* likewise, for the target of an action
  IdleMinutes,   \* USEWARDEN_SESSION_IDLE_MIN
  SafeLabel,     \* the id a rule goes by in telemetry, None if it might be user data
  PAYLOAD_ROWS,  \* incidents the payload reads (500 in the code)
  WEEK_ROWS,     \* incidents of any origin the week reads (500 in the code)
  WEEK_SESSIONS, \* sessions it reads (200 in the code)
  MAX_RULE_KEYS  \* rules it names (40 in the code)

INCIDENT_ORIGINS == {"live", "demo", "fixture"}

Of(S, o)        == {r \in S : r.origin = o}
InSession(S, s) == {r \in S : r.session = s}
Blocks(S)       == {r \in S : r.action = "block"}

\* ORDER BY ... DESC LIMIT n, which picks among equals as it likes.
newest(S, n, at) ==
  IF Cardinality(S) <= n THEN S
  ELSE CHOOSE T \in SUBSET S : Cardinality(T) = n /\ \A x \in T, y \in S \ T : at[y] <= at[x]

available(v)     == [available |-> TRUE, value |-> v]
unavailable(why) == [available |-> FALSE, reason |-> why]

(***************************************************************************)
(* metrics.ts                                                              *)
(***************************************************************************)
TURN_TOKENS == [low |-> 1000, high |-> 4000]

TURNS_WASTED ==
  [out_of_scope_write |-> [low |-> 1, high |-> 3],
   destructive |-> [low |-> 2, high |-> 10], drift |-> [low |-> 2, high |-> 15],
   credential_exposure |-> None, shell_execution |-> None, other |-> None]

\* In cents per million tokens: the share of input is four fifths.
blendedPerMTok == (8 * 200 + 2 * 1000) \div 10

\* The words of a rule id are tried in this order.
CategoryWords ==
  << <<"credential_exposure", {"forbidden_paths", "dotenv"}>>,
     <<"shell_execution", {"curl-pipe-sh", "sudo"}>>,
     <<"out_of_scope_write", {"allowed_paths", "sibling"}>>,
     <<"destructive", {"protected_branch", "force-push", "rm-rf", "reset-hard",
                       "drop-table"}>> >>

FirstNamed(table, words, default) ==
  LET hits == {i \in DOMAIN table : table[i][2] \cap words # {}}
  IN  IF hits = {} THEN default ELSE table[Min(hits)][1]

categorise(rule, layer) ==
  IF layer = 2 THEN "drift" ELSE FirstNamed(CategoryWords, RuleWords[rule], "other")

bandTokens(cat) ==
  [end \in {"low", "high"} |-> TURNS_WASTED[cat][end] * TURN_TOKENS[end]]

Actions(S) == {<<r.rule, r.tool, r.target>> : r \in S}

breakdownFor(db, o) ==
  LET inc == Of(db.incidents, o)
      n(S) == Cardinality(S)
  IN  [attempts |-> n(Blocks(inc)), distinct_actions |-> n(Actions(Blocks(inc))),
       drift_warnings |-> n({r \in inc : r.layer = 2}),
       advisories |-> n({r \in inc : r.action = "compact-advice"}),
       incidents |-> n(inc), sessions |-> n(Of(db.sessions, o)),
       events |-> n(Of(db.events, o))]

\* distinct_actions is not additive: the caller counts it over the whole table.
sumBreakdowns(parts) ==
  [k \in DOMAIN parts["live"] |->
     IF k = "distinct_actions" THEN 0
     ELSE SumFunction([o \in INCIDENT_ORIGINS |-> parts[o][k]])]

estimateSavings(db) ==
  LET rows == {<<r.rule, r.tool, r.target, r.layer>> :
                 r \in {x \in Of(db.incidents, "live") : x.action = "block" \/ x.layer = 2}}
      category(r) == categorise(r[1], r[4])
      priced   == {r \in rows : TURNS_WASTED[category(r)] # None}
      sum(end) == SumFunction([r \in priced |-> bandTokens(category(r))[end]])
      tokens   == [end \in {"low", "high"} |-> sum(end)]
  IN  [priced_actions |-> Cardinality(priced),
       unpriced_actions |-> Cardinality(rows \ priced),
       tokens |-> tokens,
       usd |-> [end \in {"low", "high"} |-> tokens[end] * blendedPerMTok],
       by_category |-> [c \in DOMAIN TURNS_WASTED |->
                          Cardinality({r \in rows : category(r) = c})]]

checkIntegrity(m) ==
  {<<"blocks outnumber events", o>> : o \in {x \in INCIDENT_ORIGINS :
      m[x].attempts > m[x].events /\ m[x].events > 0}}
  \cup {<<"distinct exceeds total", o>> : o \in {x \in INCIDENT_ORIGINS :
      m[x].distinct_actions > m[x].attempts}}
  \cup {<<"total below its parts", o>> : o \in {x \in INCIDENT_ORIGINS :
      m[x].incidents < m[x].attempts \/ m[x].incidents < m[x].drift_warnings}}
  \cup {<<"low exceeds high", "savings">> : o \in
      {x \in {m.savings} : x.tokens.low > x.tokens.high}}
  \cup {<<"priced a row that is no catch", "savings">> : o \in
      {x \in {m.savings} : x.priced_actions > m["live"].distinct_actions
                                              + m["live"].drift_warnings}}

totalJudgeSpend(db) ==
  LET total(field) == SumFunction([r \in db.spend |-> r[field]])
  IN  [calls |-> Cardinality(db.spend),
       mocked |-> Cardinality({r \in db.spend : r.mocked}),
       unmetered |-> Cardinality({r \in db.spend : r.local}),
       inTok |-> total("inTok"), outTok |-> total("outTok"), usd |-> total("usd")]

buildMetrics(db) ==
  LET parts   == [o \in INCIDENT_ORIGINS |-> breakdownFor(db, o)]
      total   == [sumBreakdowns(parts) EXCEPT
                    !.distinct_actions = Cardinality(Actions(Blocks(db.incidents)))]
      savings == estimateSavings(db)
      partial == [live |-> parts["live"], demo |-> parts["demo"],
                  fixture |-> parts["fixture"], savings |-> savings]
  IN  [live |-> parts["live"], demo |-> parts["demo"], fixture |-> parts["fixture"],
       total |-> total, savings |-> savings, overhead |-> totalJudgeSpend(db),
       problems |-> checkIntegrity(partial)]

(***************************************************************************)
(* telemetry.ts: what `usewarden telemetry` records and may send           *)
(***************************************************************************)
incidentsByOrigin(db, o, limit) ==
  LET rows == Of(db.incidents, o)
  IN  newest(rows, limit, [r \in rows |-> r.ts])

\* The derived live figures, and the rules by their own ids, the newest first.
payloadOf(live, incidents) ==
  LET rows   == {r \in incidents : SafeLabel[r.rule] # None}
      of(l)  == {r \in rows : SafeLabel[r.rule] = l}
      labels == {SafeLabel[r.rule] : r \in rows}
      shown  == newest(labels, MAX_RULE_KEYS, [l \in labels |-> Max({r.ts : r \in of(l)})])
  IN  [counts |-> [events_seen |-> live.events, actions_blocked |-> live.attempts,
                   drift_caught |-> live.drift_warnings, sessions |-> live.sessions,
                   live_catches |-> live.incidents],
       rules |-> [l \in shown |-> Cardinality(of(l))]]

buildPayload(db) ==
  payloadOf(buildMetrics(db).live, incidentsByOrigin(db, "live", PAYLOAD_ROWS))

(***************************************************************************)
(* receipt.ts                                                              *)
(***************************************************************************)
FILE_TOOLS == {"write", "edit", "read", "grep"}

idleGap == IF IdleMinutes # None /\ IdleMinutes > 0 THEN IdleMinutes ELSE 30

\* A session that was never recorded has no receipt.
hasReceipt(db, s) == \E r \in db.sessions : r.id = s

actionsIn(db, s, a) == Cardinality({r \in InSession(db.incidents, s) : r.action = a})

\* A value that may not be knowable is unavailable with a reason, never zero.
buildReceipt(db, s, now) ==
  LET row     == CHOOSE r \in db.sessions : r.id = s
      rows    == InSession(db.events, s)
      validTs == {r \in rows : r.ts # None /\ r.ts > 0}
      badTs   == Cardinality(rows \ validTs)
      noTarget(S) == {r \in S : r.target \in {None, ""}}
      files   == {r \in rows : r.tool \in FILE_TOOLS}
      bash    == {r \in rows : r.tool = "bash"}
      ends    == {r.ts : r \in {x \in validTs : x.event = "session_end"}}
      times   == {r.ts : r \in validTs}
      method  == CASE ends # {} -> "session-end-hook"
                   [] ends = {} /\ times # {} /\ now - Max(times \cup {0}) > idleGap -> "idle-gap"
                   [] OTHER -> "in-progress"
      endedAt == CASE method = "session-end-hook" -> Max(ends)
                   [] method = "idle-gap" -> Max(times)
                   [] OTHER -> None
      start   == Min(times \cup {row.startedAt})
      end     == IF endedAt = None THEN now ELSE endedAt
      inc     == InSession(db.incidents, s)
      fills   == {r.fill : r \in {x \in rows : x.fill # None /\ x.fill \in 0..100}}
      spend   == InSession(db.spend, s)
      touched == IF noTarget(files) # {} THEN unavailable("file event without target")
                 ELSE available(Cardinality({r.target : r \in files}))
      ran     == IF noTarget(bash) # {} THEN unavailable("command event without command")
                 ELSE available(Cardinality(bash))
      above(f, n) == f.available /\ f.value > n
  IN  IF ~ hasReceipt(db, s) THEN None ELSE
      [sessionId |-> s, agent |-> row.agent, origin |-> row.origin, cwd |-> row.cwd,
       goal |-> row.goal, startedAt |-> start, endedAt |-> endedAt,
       lastActivityAt |-> IF times = {} THEN start ELSE Max(times),
       boundary |-> method,
       duration |-> CASE start <= 0 -> unavailable("no usable start")
                      [] start > 0 /\ badTs > 0 /\ endedAt = None -> unavailable("no usable end")
                      [] OTHER -> IF end >= start THEN available(end - start)
                                  ELSE unavailable("ends before it starts"),
       events |-> Cardinality(rows), filesTouched |-> touched, commandsRun |-> ran,
       outsideScope |-> Cardinality({r \in inc : "scope." \in RuleWords[r.rule]}),
       blocked |-> actionsIn(db, s, "block"), warned |-> actionsIn(db, s, "warn"),
       peakContextFill |-> IF fills = {} THEN unavailable("no adapter reports it")
                           ELSE available(Max(fills)),
       judge |-> IF spend = {} /\ \E r \in db.spend : r.session = None
                 THEN unavailable("calls of before schema v3 carry no session")
                 ELSE available([calls |-> Cardinality(spend),
                                 metered |-> Cardinality({r \in spend : ~r.local}),
                                 unmetered |-> Cardinality({r \in spend : r.local}),
                                 usd |-> SumFunction([r \in spend |-> r.usd])]),
       problems |->
         {p \in {"timestamp", "target", "command", "incidents", "files", "commands"} :
            \/ p = "timestamp" /\ badTs > 0
            \/ p = "target" /\ noTarget(files) # {}
            \/ p = "command" /\ noTarget(bash) # {}
            \/ p = "incidents" /\ actionsIn(db, s, "block") + actionsIn(db, s, "warn") > Cardinality(inc)
            \/ p = "files" /\ above(touched, Cardinality(rows))
            \/ p = "commands" /\ above(ran, Cardinality(rows))}]

\* The sentence a receipt ends with: "Nothing needed blocking this session."
CleanSession(receipt) == receipt.blocked = 0 /\ receipt.warned = 0

lastActivity(db, s) ==
  LET times == {r.ts : r \in {x \in InSession(db.events, s) : x.ts # None}}
  IN  IF times = {} THEN (CHOOSE r \in db.sessions : r.id = s).startedAt ELSE Max(times)

recentSessionIds(db, limit) ==
  {r.id : r \in newest(db.sessions, limit, [x \in db.sessions |-> lastActivity(db, x.id)])}

(***************************************************************************)
(* week.ts.  A receipt that is not of a real session never gets in.        *)
(***************************************************************************)
weekOf(db, receipts, since) ==
  LET ids      == {r.sessionId : r \in receipts}
      recent   == newest(db.incidents, WEEK_ROWS, [r \in db.incidents |-> r.ts])
      caught   == {i \in Of(recent, "live") : i.session \in ids /\ i.ts >= since}
      total(k) == SumFunction([r \in receipts |-> r[k]])
  IN  [sessions |-> Cardinality(receipts), events |-> total("events"),
       blocked |-> total("blocked"), warned |-> total("warned"),
       byRule |-> [rule \in {i.rule : i \in caught} |->
                     Cardinality({i \in caught : i.rule = rule})],
       nothingRecorded |-> receipts = {}]

recentReceipts(db, since, now) ==
  {r \in {buildReceipt(db, s, now) : s \in recentSessionIds(db, WEEK_SESSIONS)} :
     r.lastActivityAt >= since}

\* Mutation: demo sessions are not left out.
buildWeekOfAll(db, since, now) == weekOf(db, recentReceipts(db, since, now), since)

buildWeek(db, since, now) ==
  weekOf(db, Of(recentReceipts(db, since, now), "live"), since)

(***************************************************************************)
(* store.ts, replayCorpus: each incident with the action that produced it, *)
(* as stored, or recovered from the one event row that shares its session  *)
(* and timestamp.  An action is <<tool, target>>, and empty when the text  *)
(* that was stored cannot be parsed.                                       *)
(***************************************************************************)
toReplayRow(db, i) ==
  LET twins  == {e \in InSession(db.events, i.session) : e.ts = i.ts}
      action == CASE i.json = <<>> -> None
                  [] i.json \notin {None, <<>>} -> i.json
                  [] i.json = None -> IF Cardinality(twins) # 1 THEN None
                                      ELSE LET e == CHOOSE x \in twins : TRUE
                                           IN  <<e.tool, e.target>>
  IN  [row |-> i, replayable |-> action,
       provenance |-> CASE action = None -> "unavailable"
                        [] action # None /\ i.json = None -> "recovered"
                        [] OTHER -> "stored"]

storedCorpus(db, origin) ==
  {toReplayRow(db, i) : i \in IF origin = "all" THEN db.incidents
                              ELSE Of(db.incidents, origin)}

(***************************************************************************)
(* replay.ts.  ruling[action] is what the rules of now say with the        *)
(* filesystem fenced and no waiver: [decision, rule, unevaluable].         *)
(***************************************************************************)
replayOne(r, ruling) ==
  LET then  == r.row.action = "block"
      blind == r.provenance = "unavailable"
      deny  == ~blind /\ ruling[r.replayable].decision = "deny"
      unsure == ~blind /\ ~deny /\ ruling[r.replayable].unevaluable
      rule  == IF deny THEN ruling[r.replayable].rule ELSE None
  IN  [id |-> r.row.id, blockedThen |-> then,
       blockedNow |-> IF blind \/ unsure THEN None ELSE deny,
       ruleNow |-> rule,
       outcome |-> CASE blind -> "unreplayable"
                     [] unsure -> "indeterminate"
                     [] ~blind /\ ~unsure /\ then /\ deny ->
                          IF rule = r.row.rule THEN "same" ELSE "rule-changed"
                     [] ~blind /\ ~unsure /\ then /\ ~deny -> "now-allowed"
                     [] ~blind /\ ~unsure /\ ~then /\ deny -> "now-blocked"
                     [] ~blind /\ ~unsure /\ ~then /\ ~deny -> "same"]

replayCorpus(rows, ruling) == {replayOne(r, ruling) : r \in rows}

Outcomes == {"same", "rule-changed", "now-allowed", "now-blocked", "indeterminate",
             "unreplayable"}

summarise(results) ==
  LET n(o) == Cardinality({r \in results : r.outcome = o})
  IN  [total |-> Cardinality(results),
       replayed |-> Cardinality(results) - n("unreplayable") - n("indeterminate"),
       blockedThen |-> Cardinality({r \in results : r.blockedThen}),
       blockedNow |-> Cardinality({r \in results : r.blockedNow = TRUE}),
       byOutcome |-> [o \in Outcomes |-> n(o)]]

(***************************************************************************)
(* labels.ts.  A label set is [criterion, corpus, labels]; a label is      *)
(* [id, label, class, actionSha].  Hashes are their arguments.             *)
(***************************************************************************)
actionHash(action) == <<"sha", action>>

labelSetHash(set) == <<set.criterion, set.corpus, set.labels>>

\* With no actions at all only the hash of the set is compared.
verifyLabels(set, expected, actions) ==
  {p \in {"hash", "missing", "moved"} :
     \/ p = "hash" /\ labelSetHash(set) # expected
     \/ /\ p = "missing" /\ DOMAIN actions # {}
        /\ \E l \in set.labels : l.id \notin DOMAIN actions
     \/ /\ p = "moved"
        /\ \E l \in set.labels : l.id \in DOMAIN actions
                                 /\ actionHash(actions[l.id]) # l.actionSha}

\* blocked[id] is TRUE, FALSE, or None where the replay could not tell.
score(set, blocked) ==
  LET ruled(l)  == IF l.id \in DOMAIN blocked THEN blocked[l.id] ELSE None
      is(label) == {l \in set.labels : l.label = label}
      firing(S) == Cardinality({l \in S : ruled(l) = TRUE})
  IN  [truePositives |-> firing(is("TRUE_POSITIVE")),
       falsePositives |-> firing(is("FALSE_POSITIVE")),
       unknown |-> firing(set.labels \ (is("TRUE_POSITIVE") \cup is("FALSE_POSITIVE"))),
       coverageCaught |-> firing(is("TRUE_POSITIVE")),
       coverageTotal |-> Cardinality(is("TRUE_POSITIVE")),
       indeterminate |-> Cardinality({l \in set.labels : ruled(l) = None})]

actionsOf(rows) ==
  [id \in {r.row.id : r \in {x \in rows : x.provenance # "unavailable"}} |->
     (CHOOSE r \in rows : r.row.id = id).replayable]

rulingsOf(results, field) ==
  [id \in {r.id : r \in results} |-> (CHOOSE r \in results : r.id = id)[field]]

\* `usewarden replay --labels` (src/src/cli-replay.ts): every row is replayed.
cmdReplay(db, origin, ruling, file) ==
  LET rows     == storedCorpus(db, origin)
      results  == replayCorpus(rows, ruling)
      refused  == verifyLabels(file.set, file.frozen, actionsOf(rows)) # {}
  IN  IF refused THEN [exit |-> 1, summary |-> summarise(results)]
      ELSE [exit |-> 0, summary |-> summarise(results),
            before |-> score(file.set, rulingsOf(results, "blockedThen")),
            after |-> score(file.set, rulingsOf(results, "blockedNow"))]

(***************************************************************************)
(* value.ts.  The screen with the precision figure reads live rows only.   *)
(***************************************************************************)
CriticalTargets == {".ssh", ".aws", ".gnupg", "Keychain", "id_rsa", "id_ed25519", ".pem", ".npmrc",
                    ".netrc", ".docker", ".kube", "gcloud", "azure", ".env"}

HighRules == {"forbidden_paths", "rm-rf", "git-clean-force", "dd-to-device", "mv-to-devnull",
              "find-delete", "infra-destroy", "drop-table", "force-push", "curl-pipe-shell", "sudo",
              "allowed_paths", "protect_uncommitted"}

severityOfRule(rule, target) ==
  LET named == RuleWords[rule]  at == TargetWords[target] IN
  IF \/ {"usewarden.yml", "usewarden.yaml"} \cap at # {}
     \/ {".env", "dotenv"} \cap named # {}
     \/ "forbidden_paths" \in named /\ at \cap CriticalTargets # {}
  THEN "critical"
  ELSE IF named \cap HighRules # {} THEN "high" ELSE "medium"

checked(what, value, sound) ==
  IF sound THEN available(value) ELSE unavailable(what)

liveOnly(db) == storedCorpus(db, "live")

noLabels(why) ==
  [labelSet |-> unavailable(why), precision |-> unavailable(why),
   coverage |-> unavailable(why), severity |-> unavailable(why),
   classes |-> unavailable(why)]

activity(db) ==
  LET rows == {r.row : r \in liveOnly(db)} IN
  [liveBlocks |-> Cardinality(Blocks(rows)),
   liveWarnings |-> Cardinality(rows \ Blocks(rows)),
   liveSessions |-> Cardinality(Of(db.sessions, "live")),
   excludedDemo |-> Cardinality(storedCorpus(db, "demo")),
   excludedFixture |-> Cardinality(storedCorpus(db, "fixture"))]

\* The figures, once the labels were found to describe this record.
labelledFigures(blocks, set, ruling) ==
  LET results  == replayCorpus(blocks, ruling)
      nowOf    == rulingsOf(results, "blockedNow")
      firing   == {l \in set.labels : l.id \in DOMAIN nowOf /\ nowOf[l.id] = TRUE}
      s        == score(set, nowOf)
      tp       == {l \in set.labels : l.label = "TRUE_POSITIVE"}
      fp       == {l \in set.labels : l.label = "FALSE_POSITIVE"}
      rowOf(l) == (CHOOSE r \in blocks : r.row.id = l.id).row
      resultOf(l) == CHOOSE r \in results : r.id = l.id
      worth(l) == severityOfRule(resultOf(l).ruleNow, rowOf(l).target)
      sev      == [x \in {"critical", "high", "medium"} |->
                     Cardinality({l \in tp \cap firing : worth(l) = x})]
      classes  == [c \in {l.class : l \in fp} |->
                     [then |-> Cardinality({l \in fp : l.class = c}),
                      now |-> Cardinality({l \in fp \cap firing : l.class = c})]]
      sum(f, k) == SumFunction([c \in DOMAIN f |-> f[c][k]])
  IN  [labelSet |-> available(Cardinality(set.labels)),
       precision |->
         IF s.truePositives + s.falsePositives = 0 THEN unavailable("no denominator")
         ELSE checked("precision", s, Cardinality(firing)
                        = s.truePositives + s.falsePositives + s.unknown),
       coverage |->
         IF s.coverageTotal = 0 THEN unavailable("no true positives")
         ELSE checked("coverage", s, /\ Cardinality(tp) = s.coverageTotal
                                     /\ Cardinality(tp \cap firing) = s.coverageCaught),
       severity |-> checked("severity", sev,
                            sev["critical"] + sev["high"] + sev["medium"] = s.truePositives),
       classes |-> checked("classes", classes, /\ sum(classes, "then") = Cardinality(fp)
                                               /\ sum(classes, "now") = s.falsePositives)]

\* Mutation: that the labels describe this record is left to verifyLabels.
buildValueReportUnbound(db, ruling, file) ==
  LET rows == liveOnly(db)
  IN  IF verifyLabels(file.set, file.frozen, actionsOf(rows)) # {}
      THEN noLabels("refused")
      ELSE labelledFigures({r \in rows : r.row.action = "block"}, file.set, ruling)

buildValueReport(db, ruling, file) ==
  LET rows == liveOnly(db)  actions == actionsOf(rows) IN
  CASE file = None -> noLabels("no labelled set")
    [] file # None /\ verifyLabels(file.set, file.frozen, actions) # {} -> noLabels("refused")
    [] OTHER ->
         IF \E l \in file.set.labels : l.id \notin DOMAIN actions
         THEN noLabels("not this record")
         ELSE labelledFigures({r \in rows : r.row.action = "block"}, file.set, ruling)
=============================================================================
