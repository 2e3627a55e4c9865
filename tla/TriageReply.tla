----------------------------- MODULE TriageReply -----------------------------
(***************************************************************************)
(* What the triage bot says to an issue (bots/triage: intent.ts,           *)
(* knowledge.ts, corpus.ts, answer.ts, triage.ts): the intent decides which *)
(* passes run, the retriever quotes passages of the repository's documents *)
(* for each question asked, and the comment and its labels follow.         *)
(*                                                                         *)
(* A text is a record of what the regular expressions find in it:          *)
(*   signals    the intents that one of their patterns announces           *)
(*   modes, anti  the failure modes with a signal, with an anti-signal     *)
(*   env        which of its status and the version of Node it carries     *)
(*   agents     the labels of the agents it names                          *)
(*   title      the words of the title                                     *)
(*   sentences  each with its interrogative head, or None, and the clauses *)
(*              that coordinators join behind it: [words, asks], with an   *)
(*              interrogative head of their own or not                     *)
(* A line of a document is [kind, heading, words, chars]; a heading is     *)
(* [name, asks, claims, words], claims when it holds a phrase that the bot *)
(* may not use.  BM25's weight of a word is the constant Idf, in tenths,   *)
(* without the term frequency and the length.                              *)
(***************************************************************************)
EXTENDS Integers, Sequences, FiniteSets, SequencesExt, FiniteSetsExt

CONSTANTS
  None,
  STOPWORDS,      \* the words that carry no content
  Transcripts,    \* the files under TRANSCRIPT_DIR
  Idf,            \* the weight of each content word, in tenths
  Synonyms        \* the groups of words that mean one thing here

-----------------------------------------------------------------------------
(* knowledge.ts *)

Mode(id, labels, route) == [id |-> id, labels |-> labels, route |-> route]

FAILURE_MODES == {
  Mode("hook-not-executing", {"bug", "triage:hook-not-executing"}, "likely-known"),
  Mode("gemini-hook-contract", {"bug", "agent:gemini", "triage:gemini-contract"}, "likely-known"),
  Mode("hook-hangs", {"bug", "priority:high", "triage:hang"}, "likely-known"),
  Mode("unprotected-or-tampered", {"triage:status-state"}, "needs-info"),
  Mode("dotenv-bypass", {"security", "triage:dotenv"}, "security"),
  Mode("credential-format", {"security", "triage:credential-format"}, "security"),
  Mode("metrics-inconsistent", {"bug", "triage:metrics"}, "likely-known"),
  Mode("config-restore", {"bug", "priority:high", "triage:config"}, "possible-regression"),
  Mode("judge-provider", {"triage:judge"}, "needs-info"),
  Mode("false-positive", {"bug", "triage:false-positive"}, "possible-regression")}

AGENT_LABELS == {"agent:claude", "agent:cursor", "agent:gemini", "agent:copilot", "agent:codex",
                 "agent:opencode"}

ALLOWED_LABELS ==
  {"bug", "security", "question", "documentation", "enhancement", "priority:high", "needs-info",
   "unmatched", "docs-gap"} \cup AGENT_LABELS \cup UNION {m.labels : m \in FAILURE_MODES}

matchFailureModes(text) == {m \in FAILURE_MODES : m.id \in text.modes \ text.anti}

hasEnvironmentInfo(text) == {"status", "node"} \subseteq text.env
agentLabels(text) == text.agents \cap AGENT_LABELS

\* The precedence of intent.ts; a text that nothing announces is a question.
classifyIntent(text) ==
  CASE "security" \in text.signals -> "security"
    [] "bug" \in text.signals /\ "security" \notin text.signals -> "bug"
    [] text.signals = {"feature"} -> "feature"
    [] text.signals = {} -> "question"

-----------------------------------------------------------------------------
(* Lists: what JavaScript's sort, filter and Set make of an array.  SelectSeq and *)
(* SetToSortSeq are not used where something is proved, for the prover has no     *)
(* definition of them.                                                            *)

\* The elements of S by weight, the heaviest first, and equal ones by their places.
sorted(S, weight, place) ==
  LET above(x, y) == weight[x] > weight[y] \/ (weight[x] = weight[y] /\ place[x] < place[y])
  IN  [n \in 1 .. Cardinality(S) |->
         CHOOSE x \in S : Cardinality({y \in S : above(y, x)}) = n - 1]

\* The entries of a list at these of its positions, in their order.
entries(seq, at) ==
  LET order == sorted(at, [i \in at |-> 0], [i \in at |-> i])
  IN  [n \in DOMAIN order |-> seq[order[n]]]

filter(seq, S) == entries(seq, {i \in DOMAIN seq : seq[i] \in S})
Distinct(seq) == entries(seq, {i \in DOMAIN seq : \A j \in 1 .. i - 1 : seq[j] # seq[i]})
First(seq, n) == SubSeq(seq, 1, Min({n, Len(seq)}))

-----------------------------------------------------------------------------
(* corpus.ts: the documents and their chunks *)

tokenize(words) == filter(words, ToSet(words) \ STOPWORDS)

Top == [name |-> "(top)", asks |-> FALSE, claims |-> FALSE, words |-> << >>]
sizeOf(buf) == SumFunction([i \in DOMAIN buf |-> buf[i].chars])
wordsOf(lines) == FlattenSeq([i \in DOMAIN lines |-> lines[i].words])

\* The words of each paragraph; a blank line has no words.
splitParagraphs(buf) ==
  LET starts == {i \in DOMAIN buf : i = 1 \/ buf[i - 1].words = << >>}
      endOf(i) == Min({j - 1 : j \in {k \in starts : k > i}} \cup {Len(buf)})
  IN  [n \in 1 .. Cardinality(starts) |->
         LET from == SetToSortSeq(starts, LAMBDA i, j : i < j)[n] IN ToSet(tokenize(wordsOf(SubSeq(buf, from, endOf(from)))))]

chunkOf(file, heading, buf) ==
  [file |-> file, heading |-> heading.name, asks |-> heading.asks, claims |-> heading.claims,
   words |-> ToSet(tokenize(heading.words \o wordsOf(buf))),
   paras |-> splitParagraphs(buf), long |-> sizeOf(buf) > 900]

\* Splits a document on headings, and on lines that are bold from end to end; under 80 characters
\* nothing is kept, and beyond 45 lines a section is cut.
chunkMarkdown(file, lines) ==
  LET flush(acc) ==
        [acc EXCEPT !.buf = << >>,
           !.chunks = IF sizeOf(acc.buf) >= 80 THEN Append(@, chunkOf(file, acc.heading, acc.buf)) ELSE @]
      named(acc, line) == IF line.kind = "bold" THEN [acc EXCEPT !.heading = line.heading] ELSE acc
      grown(acc, line) == [named(acc, line) EXCEPT !.buf = Append(@, line)]
      step(acc, line) ==
        CASE line.kind = "heading" -> [flush(acc) EXCEPT !.heading = line.heading]
          [] line.kind = "bold" /\ acc.buf # << >> -> grown(flush(acc), line)
          [] line.kind = "text" \/ (line.kind = "bold" /\ acc.buf = << >>) ->
               IF Len(acc.buf) = 45 THEN flush(grown(acc, line)) ELSE grown(acc, line)
  IN  flush(FoldLeft(step, [heading |-> Top, buf |-> << >>, chunks |-> << >>], lines)).chunks

transcriptChunk(t) ==
  [file |-> t.file, heading |-> "live agent session transcript", asks |-> FALSE, claims |-> t.claims,
   words |-> ToSet(tokenize(t.words)), paras |-> << ToSet(tokenize(t.words)) >>, long |-> FALSE]

\* The chunks of the documents that can be read, in their order, and of the transcripts.
chunksOf(documents, transcripts) ==
  LET all == FlattenSeq([i \in DOMAIN documents |-> chunkMarkdown(documents[i].file, documents[i].lines)])
               \o [i \in DOMAIN transcripts |-> transcriptChunk(transcripts[i])]
  IN  {[at |-> i] @@ all[i] : i \in DOMAIN all}

-----------------------------------------------------------------------------
(* corpus.ts: retrieval *)

MIN_SCORE == 70000          \* 3.5, in the unit of score
MIN_COVERAGE == 34          \* per cent
MIN_MATCHED_TERMS == 2
MAINTAINER_DOCS == {"DECISIONS.md", "FINAL-REPORT.md"}

\* Per cent.
sourceWeight(file, asks) ==
  CASE file \in Transcripts -> 70
    [] file \in MAINTAINER_DOCS -> IF asks THEN 40 ELSE 75
    [] file = "README.md" -> 135
    [] file \in {"docs/METRICS.md", "docs/HOOK-MATRIX.md", "docs/TELEMETRY.md", "docs/THREAT-MODEL.md",
                 "docs/DEPENDENCY-BUDGET.md"} -> 120
    [] file = "SECURITY.md" -> 115
    [] file = "CONTRIBUTING.md" -> 110
    [] OTHER -> 100

formsOf(word) == {word} \cup UNION {g \in Synonyms : word \in g}

\* One unit for each idea of the query: its first word, and the words that stand for it.
queryUnits(query) ==
  {[primary |-> query[i], forms |-> formsOf(query[i])] :
     i \in {j \in DOMAIN query : \A k \in 1 .. j - 1 : query[k] \notin formsOf(query[j])}}

knownUnits(query, corpus) == {u \in queryUnits(query) : \E c \in corpus : u.forms \cap c.words # {}}
matchedUnits(query, chunk) == {u \in queryUnits(query) : u.forms \cap chunk.words # {}}

\* In units of 1/20000: tenths, quarters (a synonym counts three), per cent, fifths.
score(query, chunk, asks) ==
  LET best(u) == Max({Idf[f] * (IF f = u.primary THEN 4 ELSE 3) : f \in u.forms \cap chunk.words})
  IN  SumFunction([u \in matchedUnits(query, chunk) |-> best(u)])
        * sourceWeight(chunk.file, asks) * (IF asks /\ chunk.asks THEN 8 ELSE 5)

keyOf(chunk) == << chunk.file, chunk.heading >>

\* The best chunks for the query; equal scores are ordered by the place in the corpus.
search(query, corpus, limit, asks) ==
  LET scores == [c \in corpus |-> score(query, c, asks)]
  IN  First(sorted({c \in corpus : scores[c] > 0}, scores, [c \in corpus |-> c.at]), limit)

-----------------------------------------------------------------------------
(* answer.ts *)

contentOf(sentence) ==
  tokenize((IF sentence.head = None THEN << >> ELSE sentence.head)
             \o FlattenSeq([i \in DOMAIN sentence.clauses |-> sentence.clauses[i].words]))
question(text) == FlattenSeq([i \in DOMAIN text.sentences |-> contentOf(text.sentences[i])])

\* The clauses behind one interrogative head are questions of their own; the head goes with each
\* that has none itself.
decompose(sentence) ==
  IF sentence.head = None \/ Len(sentence.clauses) <= 1
  THEN << contentOf(sentence) >>
  ELSE [i \in DOMAIN sentence.clauses |->
          LET clause == sentence.clauses[i]
          IN  tokenize(IF clause.asks THEN clause.words ELSE sentence.head \o clause.words)]

decomposeQuestions(text) ==
  LET all == FlattenSeq([i \in DOMAIN text.sentences |-> decompose(text.sentences[i])])
  IN  First(Distinct(filter(all, ToSet(all) \ {<< >>})), 12)

splitQueries(text) ==
  LET all == [i \in DOMAIN text.sentences |-> contentOf(text.sentences[i])]
  IN  First(Distinct(filter(all, {q \in ToSet(all) : Len(q) >= 3})), 12)

\* The three gates: strength, subject and evidence.
pass(query, corpus, limit, asks) ==
  LET known == Cardinality(knownUnits(query, corpus))
      need == Min({MIN_MATCHED_TERMS, Max({1, known})})
      clears(c) ==
        LET matched == Cardinality(matchedUnits(query, c))
        IN  /\ score(query, c, asks) >= MIN_SCORE
            /\ matched * 100 >= MIN_COVERAGE * known
            /\ matched >= need
  IN  IF Len(query) >= 3 /\ known < 2 THEN << >>
      ELSE filter(search(query, corpus, limit + 1, asks), {c \in corpus : clears(c)})

\* The lists of hits, the one with the strongest first hit first.
strongestFirst(hits, queries, asks) ==
  LET at == {i \in DOMAIN hits : hits[i] # << >>}
  IN  sorted(at, [i \in at |-> score(queries[i], hits[i][1], asks)], [i \in at |-> i])

\* Mutation: every query takes part in the first round, the questions asked or not.
firstRoundOfAll(primary, all) == all
\* The first round is for the questions asked, one passage each.
firstRound(primary, all) == primary

\* Where the quotation of a long chunk starts: the paragraph with most of the asker's words, 0.35
\* of a word less for each before it.
excerpt(chunk, query) ==
  LET hits(i) == Cardinality(chunk.paras[i] \cap ToSet(query))
      scored(i) == 100 * hits(i) - 35 * (i - 1)
      at == {i \in DOMAIN chunk.paras : hits(i) > 0 /\ scored(i) > -100}
  IN  IF ~ chunk.long \/ at = {} THEN 1
      ELSE CHOOSE i \in at : \A j \in at : scored(i) > scored(j) \/ (scored(i) = scored(j) /\ i <= j)

\* The closest passage whatever its score, of the documents that are written for users.
nearestFor(q, corpus, asks) ==
  LET near == filter(search(q, corpus, 6, asks), {c \in corpus : c.file \notin MAINTAINER_DOCS})
  IN  IF near = << >> THEN None ELSE near[1]

\* Each question that got no passage is declined by its number, with the nearest document.
declinedOf(primary, unanswered, answered, corpus, text, asks) ==
  IF ~ answered THEN {[which |-> 0, nearest |-> nearestFor(question(text), corpus, asks)]}
  ELSE IF Len(primary) <= 1 THEN {}
  ELSE {[which |-> i, nearest |-> nearestFor(primary[i], corpus, asks)] : i \in unanswered}

\* Fills the slots: a chunk once, until there are no more. `for` is the question whose slot it was.
fill(candidates, limit) ==
  LET key == [i \in DOMAIN candidates |-> keyOf(candidates[i].chunk)]
  IN  First(entries(candidates, {i \in DOMAIN key : \A j \in 1 .. i - 1 : key[j] # key[i]}), limit)

\* The queries beside the questions asked: the title, the sentences and the whole text.
supporting(primary, text, title) ==
  LET all == Distinct((IF title = << >> THEN << >> ELSE << title >>)
                        \o splitQueries(text) \o << question(text) >>)
  IN  filter(all, ToSet(all) \ ToSet(primary))

\* One round: the passage of this rank of each list in `order` that has one.
round(rank, order, hits) ==
  LET at == filter(order, {i \in DOMAIN hits : Len(hits[i]) >= rank})
  IN  [n \in DOMAIN at |-> [chunk |-> hits[at[n]][rank], for |-> IF rank = 1 THEN at[n] ELSE 0]]

\* Whatever was found, by its best score for any query.
byScore(found, hits, queries, asks) ==
  LET best == [n \in DOMAIN found |->
                 Max({score(queries[i], found[n], asks) : i \in {j \in DOMAIN hits : Contains(hits[j], found[n])}})]
      order == sorted(DOMAIN found, best, [n \in DOMAIN found |-> n])
  IN  [n \in DOMAIN found |-> [chunk |-> found[order[n]], for |-> 0]]

\* A question each first, then the second and the third passage of each list, then the rest.
choose(asked, hits, all, queries, limit, asks) ==
  fill(round(1, firstRound(filter(all, 1 .. asked), all), hits)
         \o round(2, all, hits) \o round(3, all, hits)
         \o byScore(Distinct(FlattenSeq(hits)), hits, queries, asks), limit)

\* An answer that would quote the maintainer's logs alone is none.
keep(chosen, asks) ==
  IF asks /\ \A i \in DOMAIN chosen : chosen[i].chunk.file \in MAINTAINER_DOCS THEN << >> ELSE chosen

answerOf(kept, primary, corpus, text, asks) ==
  LET unanswered == {i \in DOMAIN primary : \A n \in DOMAIN kept : kept[n].for # i}
  IN  [answered |-> kept # << >>,
       quoted |-> {[key |-> keyOf(kept[n].chunk), from |-> excerpt(kept[n].chunk, question(text))] :
                     n \in DOMAIN kept},
       unanswered |-> unanswered,
       declined |-> declinedOf(primary, unanswered, kept # << >>, corpus, text, asks)]

answerWith(queries, hits, primary, corpus, text, limit, asks) ==
  answerOf(keep(choose(Len(primary), hits, strongestFirst(hits, queries, asks), queries, limit, asks), asks),
           primary, corpus, text, asks)

answerTo(primary, queries, corpus, text, limit, asks) ==
  answerWith(queries, [i \in DOMAIN queries |-> pass(queries[i], corpus, limit, asks)],
             primary, corpus, text, limit, asks)

buildAnswer(corpus, text, limit, asks) ==
  LET primary == decomposeQuestions(text)
  IN  answerTo(primary, primary \o supporting(primary, text, tokenize(text.title)), corpus, text, limit, asks)

-----------------------------------------------------------------------------
(* triage.ts *)

NoAnswer == [answered |-> FALSE, quoted |-> {}, unanswered |-> {}, declined |-> {}]

slots(intent, text) ==
  IF intent = "question" THEN Min({5, Max({3, Len(decomposeQuestions(text))})}) ELSE 2

routeOf(intent, matches, answered, env) ==
  IF intent = "security" \/ \E m \in matches : m.route = "security" THEN "security"
  ELSE IF intent = "feature" THEN "feature"
  ELSE IF intent = "question" THEN IF answered THEN "likely-known" ELSE "docs-gap"
  ELSE IF matches = {} THEN "unmatched"
  ELSE IF ~ env THEN "needs-info"
  ELSE IF \E m \in matches : m.route = "possible-regression" THEN "possible-regression"
  ELSE "likely-known"

labelsOf(intent, matches, answered, text) ==
  LET when(condition, label) == IF condition THEN {label} ELSE {}
  IN  ALLOWED_LABELS \cap UNION {
        UNION {m.labels : m \in matches}, agentLabels(text),
        when(intent = "question", "question"), when(intent = "feature", "enhancement"),
        when(intent = "security", "security"), when(intent = "question" /\ ~ answered, "docs-gap"),
        when(intent = "bug" /\ matches = {}, "unmatched"),
        when(intent = "bug" /\ matches # {} /\ ~ hasEnvironmentInfo(text), "needs-info")}

\* The parts of the comment, in the order they are written.
renderComment(intent, matches, route, shown, answered, env) ==
  LET when(condition, part) == IF condition THEN << part >> ELSE << >>
  IN  CASE intent = "question" -> << "thanks for asking", "answer" >> \o when(~ answered, "not found")
        [] intent = "feature" -> << "feature request" >>
        [] intent \in {"bug", "security"} ->
             << "thanks for the report" >> \o when(shown, "answer")
               \o (IF route = "security" THEN << "report it privately", "never paste a key" >> ELSE << >>)
               \o when(matches # {}, "failure modes") \o when(matches = {} /\ ~ answered, "unmatched")
               \o when(~ env, "environment ask") \o when(route # "security", "never paste a key")

\* The guard over the bot's own prose: quotations and their citations are left out of it, and the
\* name of a nearest document is not.
assertIsSafe(declined) == \A d \in declined : d.nearest = None \/ ~ d.nearest.claims

replyWith(text, intent, matches, built) ==
  LET env == hasEnvironmentInfo(text)
      shown == built.answered \/ intent = "question"
      route == routeOf(intent, matches, built.answered, env)
  IN  [intent |-> intent, route |-> route, answer |-> built,
       labels |-> labelsOf(intent, matches, built.answered, text),
       comment |-> renderComment(intent, matches, route, built.answered, built.answered, env),
       refused |-> shown /\ ~ assertIsSafe(built.declined),
       needsClassifier |-> ~ built.answered /\ matches = {} /\ intent # "feature"]

triage(text, corpus) ==
  LET intent == classifyIntent(text)
  IN  replyWith(text, intent,
        IF intent \in {"question", "feature"} THEN {} ELSE matchFailureModes(text),
        IF intent = "feature" THEN NoAnswer
        ELSE buildAnswer(corpus, text, slots(intent, text), intent = "question"))
=============================================================================
