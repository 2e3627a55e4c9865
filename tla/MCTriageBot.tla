----------------------------- MODULE MCTriageBot -----------------------------
(* Two issues and a discussion, two askers, a maintainer and a foreign bot.     *)
EXTENDS TriageBot

CONSTANTS ana, ben, mel, bot
MCOpeners == "i1" :> {ana} @@ "i2" :> {ben} @@ "d1" :> {ben}
MCWriters == "i1" :> {ana, bot} @@ "i2" :> {mel} @@ "d1" :> {ben}

MCKindOf == "i1" :> "issue" @@ "i2" :> "issue" @@ "d1" :> "discussion"

MCIdf == "free" :> 30 @@ "paid" :> 25 @@ "install" :> 20 @@ "setup" :> 45 @@ "monitor" :> 34
         @@ "impact" :> 28 @@ "windows" :> 40 @@ "key" :> 26 @@ "roadmap" :> 45
MCSynonyms == {{"free", "paid"}, {"install", "setup"}}

\* Documents of one passage a section, most of 100 characters.
Heading(name, asks, claims) == [name |-> name, asks |-> asks, claims |-> claims, words |-> << >>]
Line(kind, heading, words, chars) == [kind |-> kind, heading |-> heading, words |-> words, chars |-> chars]
Section(name, words) == << Line("heading", Heading(name, FALSE, FALSE), << >>, 0), Line("text", None, words, 100) >>
Asked(name, words) == << Line("bold", Heading(name, TRUE, FALSE), << >>, 10), Line("text", None, words, 100) >>
Blank == Line("text", None, << >>, 1)
Document(file, lines) == [file |-> file, lines |-> lines]

README == Document("README.md",
  Asked("Do I need a key?", << "key" >>) \o Asked("Is it free?", << "it", "free", "key" >>)
    \o << Line("heading", Heading("Install", FALSE, FALSE), << >>, 0),
          Line("text", None, << "key" >>, 600), Blank, Line("text", None, << "the", "setup" >>, 500) >>)
METRICS == Document("docs/METRICS.md",
  Section("Impact", << "monitor", "impact" >>) \o Section("What is counted", << "free", "monitor", "windows" >>)
    \o [i \in 1 .. 46 |-> Line("text", None, << "impact" >>, 2)])
KEYS == Document("SECURITY.md",
  Section("Keys", << "key", "windows" >>) \o << Line("heading", Heading("Short", FALSE, FALSE), << >>, 0), Blank >>)
LOGS == Document("DECISIONS.md", Section("Pricing", << "free", "paid", "roadmap", "windows", "impact" >>))
Fixed == [file |-> "verification/live/12-dotenv-bypass-fixed.txt", claims |-> TRUE, words |-> << "the", "roadmap" >>]

Clause(words, asks) == [words |-> words, asks |-> asks]
Sentence(head, clauses) == [head |-> head, clauses |-> clauses]
Text(signals, modes, env, title, sentences) ==
  [signals |-> signals, modes |-> modes, anti |-> {}, env |-> env, agents |-> {},
   title |-> title, sentences |-> sentences]

IsItFree == Sentence(<< "is", "it" >>, << Clause(<< "free", "paid" >>, FALSE) >>)
HowDoI == Sentence(<< "how", "do" >>,
                   << Clause(<< "install" >>, FALSE), Clause(<< "how", "monitor", "the", "impact" >>, TRUE) >>)
OnWindows == Sentence(None, << Clause(<< "windows", "key" >>, FALSE) >>)
WhatIsPlanned == Sentence(<< "is" >>, << Clause(<< "the", "roadmap" >>, FALSE) >>)

Questions ==
  {Text({}, {}, {}, << "free" >>, << IsItFree, HowDoI, OnWindows >>),
   Text({}, {}, {}, << >>, << HowDoI, OnWindows >>),
   Text({}, {}, {}, << "roadmap" >>, << WhatIsPlanned >>)}
Report == Text({"bug"}, {"config-restore"}, {"status"}, << "install" >>, << OnWindows >>)
Wish == Text({"feature"}, {}, {}, << "windows" >>, << OnWindows >>)

MCTexts == "i1" :> {Report} @@ "i2" :> {Wish} @@ "d1" :> Questions
Docs == chunksOf(<< README, METRICS, KEYS, LOGS >>, << Fixed >>)
MCCorpus == "docs" :> Docs @@ "none" :> {}
MCBotProviders == "openai" :> [inPer1M |-> 25, outPer1M |-> 200]
               @@ "gemini" :> [inPer1M |-> 75, outPer1M |-> 375]
               @@ "anthropic" :> [inPer1M |-> 100, outPer1M |-> 500]
MCModelAnswers == {None, [labels |-> << "bugs", "documentation", "question", "bug" >>, claims |-> FALSE]}
=============================================================================
