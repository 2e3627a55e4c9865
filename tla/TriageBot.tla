------------------------------ MODULE TriageBot ------------------------------
(***************************************************************************)
(* The triage bot on GitHub (bots/triage: main.ts, run.ts, conversation.ts, *)
(* surface.ts, discussions.ts).  People write on threads; every post starts *)
(* a workflow run, and the runs of one thread follow one another: one runs, *)
(* one waits, and a newer one takes the place of the one that waits.  Runs  *)
(* of different threads overlap.  A run reads the thread, decides, counts   *)
(* the day's comments, posts and labels, each a call that can fail; a run   *)
(* that has ended can be started again by hand.  A day is one behaviour:    *)
(* the 24 hours of the cap do not pass.                                     *)
(***************************************************************************)
EXTENDS TriageReply

CONSTANTS
  Threads, KindOf,      \* "issue", "pull" or "discussion"
  Bots, Maintainers,
  Openers, Writers,     \* who may open each thread, and who may comment on it
  Unnamed,              \* the author that the API does not name
  Texts,                \* what may be asked on each thread
  Checkouts, Corpus,    \* the checkouts of the repository, and the chunks of each
  BotProviders, BotKeys,  \* the table of prices, in cents, and the providers with a key
  ModelAnswers,         \* what the model may return, or None: [labels, claims]
  SurfaceNames,         \* the names in TRIAGE_BOT_SURFACES
  DAILY_COMMENT_CAP,
  ThreadPage, DayPage,  \* how many comments a listing returns
  MaxActs               \* bound on comments, closings, reruns and throws of the switch, together

VARIABLES
  thread,     \* [opener, text, open, comments, labels], or None before it is opened
  waiting,    \* the workflow run that waits for the thread, or None
  job,        \* the run in progress
  last,       \* the event of the last run that ended
  day,        \* whether each comment on issues of the last 24 hours is the bot's, oldest first
  enabled,    \* the kill switch
  acts

botVars == << thread, waiting, job, last, day, enabled, acts >>

AllTexts == UNION {Texts[t] : t \in Threads}

\* What the regular expressions find in a text is made of words; a passage has a place of its own
\* in the corpus, and only words that carry a weight (tokenize leaves out the others).
Words == DOMAIN Idf \cup STOPWORDS
Sentences == [head : Seq(Words) \cup {None}, clauses : Seq([words : Seq(Words), asks : BOOLEAN])]
ASSUME TextAssumption ==
  /\ Idf \in [DOMAIN Idf -> Nat]
  /\ \A text \in AllTexts : text.title \in Seq(Words) /\ text.sentences \in Seq(Sentences)
  /\ \A from \in Checkouts :
       /\ IsFiniteSet(Corpus[from])
       /\ \A c \in Corpus[from] :
            /\ c.at \in Nat /\ IsFiniteSet(c.words) /\ c.words \subseteq DOMAIN Idf
            /\ \A d \in Corpus[from] : c.at = d.at => c = d
Idle == [pc |-> "idle", event |-> None, comments |-> << >>, labels |-> {}, from |-> None]
isDiscussion(t) == KindOf[t] = "discussion"
eventOf(surface, user) == [surface |-> surface, user |-> user]
commentOf(user) == [user |-> user, own |-> FALSE, to |-> None, surface |-> None, from |-> None]
isBot(c) == c.own \/ c.user \in Bots

BotInit ==
  /\ thread = [t \in Threads |-> None]
  /\ waiting = [t \in Threads |-> None] /\ job = [t \in Threads |-> Idle]
  /\ last = [t \in Threads |-> None]
  /\ day = << >> /\ enabled \in BOOLEAN
  /\ acts = 0

-----------------------------------------------------------------------------
(* People and the workflow *)

KNOWN_SURFACES == {"issue", "issue_comment", "discussion", "discussion_comment", "pr_comment"}
\* Names that are not known are dropped; nothing known means issues only.
parseSurfaces(names) ==
  IF names \cap KNOWN_SURFACES = {} THEN {"issue"} ELSE names \cap KNOWN_SURFACES

\* A post takes the waiting place of its thread's group, whoever wrote it.
trigger(t, event) == waiting' = [waiting EXCEPT ![t] = event]

Open(t, user, text) ==
  /\ thread[t] = None
  /\ thread' = [thread EXCEPT ![t] = [opener |-> user, text |-> text, open |-> TRUE,
                                      comments |-> << >>, labels |-> {}]]
  /\ IF KindOf[t] = "pull" THEN UNCHANGED waiting
     ELSE trigger(t, eventOf(KindOf[t], user))
  /\ UNCHANGED << job, last, day, enabled, acts >>

act == acts < MaxActs /\ acts' = acts + 1

surfaceOf(t) ==
  CASE KindOf[t] = "issue" -> "issue_comment"
    [] KindOf[t] = "pull" -> "pr_comment"
    [] KindOf[t] = "discussion" -> "discussion_comment"

\* The day's listing holds the comments on issues and pull requests, not those on discussions.
ofTheDay(t, own) == IF isDiscussion(t) THEN day ELSE Append(day, own)

Comment(t, user) ==
  /\ thread[t] # None /\ act
  /\ thread' = [thread EXCEPT ![t].comments = Append(@, commentOf(user))]
  /\ trigger(t, eventOf(surfaceOf(t), user))
  /\ day' = ofTheDay(t, FALSE)
  /\ UNCHANGED << job, last, enabled >>

Close(t) ==
  /\ thread[t] # None /\ thread[t].open /\ act
  /\ thread' = [thread EXCEPT ![t].open = FALSE]
  /\ UNCHANGED << waiting, job, last, day, enabled >>

Rerun(t) ==
  /\ last[t] # None /\ act
  /\ trigger(t, last[t])
  /\ UNCHANGED << thread, job, last, day, enabled >>

Disable ==
  /\ enabled /\ act
  /\ enabled' = FALSE
  /\ UNCHANGED << thread, waiting, job, last, day >>

-----------------------------------------------------------------------------
(* One run *)

At(t, pc) == job[t].pc = pc
end(t) ==
  /\ job' = [job EXCEPT ![t] = Idle]
  /\ last' = [last EXCEPT ![t] = job[t].event]

\* conversation.ts: the comments are a snapshot, oldest first.
lastIs(comments, k) == comments[Len(comments) - k + 1]
\* Mutation: a person's latest comment is taken for the first.
answeredSince(comments, user) ==
  \E i \in DOMAIN comments :
    /\ comments[i].user = user /\ \A k \in i + 1 .. Len(comments) : comments[k].user # user
    /\ \E k \in i + 1 .. Len(comments) : comments[k].own

answeredBefore(comments, user) ==
  \E i, k \in DOMAIN comments : i < k /\ comments[i].user = user /\ comments[k].own

shouldReply(event, open, comments) ==
  /\ open
  /\ event.user # Unnamed
  /\ event.user \notin Bots
  /\ event.user \notin Maintainers
  /\ ~ answeredBefore(comments, event.user)
  /\ ~ (Len(comments) >= 2 /\ \A k \in {1, 2} : isBot(lastIs(comments, k)))

alreadyCommented(event, comments) ==
  event.surface = "issue" /\ \E i \in DOMAIN comments : comments[i].own

\* The workflow skips a run that a bot set off; it has taken the waiting place all the same.
Skip(t) ==
  /\ At(t, "idle") /\ waiting[t] # None /\ waiting[t].user \in Bots
  /\ waiting' = [waiting EXCEPT ![t] = None]
  /\ UNCHANGED << thread, job, last, day, enabled, acts >>

\* The switches are read, and the thread: a discussion's comments come with the same read.
Begin(t) ==
  /\ At(t, "idle") /\ waiting[t] # None /\ waiting[t].user \notin Bots
  /\ waiting' = [waiting EXCEPT ![t] = None]
  /\ IF enabled /\ waiting[t].surface \in parseSurfaces(SurfaceNames) /\ thread[t].open
     THEN /\ job' = [job EXCEPT ![t] = [Idle EXCEPT !.pc = "list", !.event = waiting[t],
                       !.comments = IF isDiscussion(t) THEN First(thread[t].comments, ThreadPage)
                                    ELSE << >>]]
          /\ UNCHANGED last
     ELSE /\ last' = [last EXCEPT ![t] = waiting[t]]
          /\ UNCHANGED job
  /\ UNCHANGED << thread, day, enabled, acts >>

listIssueComments(t) ==
  IF isDiscussion(t) THEN job[t].comments ELSE First(thread[t].comments, ThreadPage)

Guard(t) ==
  /\ At(t, "list")
  /\ LET comments == listIssueComments(t)
         event == job[t].event
     IN  IF ~ alreadyCommented(event, comments) /\ shouldReply(event, TRUE, comments)
         THEN /\ job' = [job EXCEPT ![t].pc = "count"]
              /\ UNCHANGED last
         ELSE end(t)
  /\ UNCHANGED << thread, waiting, day, enabled, acts >>

ownIn(seq) == Cardinality({i \in DOMAIN seq : seq[i]})
countRecentBotComments == ownIn(First(day, DayPage))

\* Mutation: the cap is passed before it stops anything.
capReachedLate(n) == n > DAILY_COMMENT_CAP
capReached(n) == n >= DAILY_COMMENT_CAP

\* The reply to each text from each checkout.
Reply == [text \in AllTexts |-> [from \in Checkouts |-> triage(text, Corpus[from])]]

\* At most two labels of the list; nothing from an answer that claims a resolution.
parseClassification(answer) ==
  IF answer = None \/ answer.claims THEN {}
  ELSE ToSet(First(SelectSeq(answer.labels, LAMBDA l : l \in ALLOWED_LABELS), 2))

\* The model's labels join in when nothing else placed the text.
labelsWith(reply, answer) ==
  IF reply.needsClassifier
  THEN ALLOWED_LABELS \cap (reply.labels \cup parseClassification(answer)) ELSE reply.labels

\* Classify.ts: what one call costs, 700 tokens in and 60 out, and the cheapest provider with a key.
costPerCall(provider) == 700 * BotProviders[provider].inPer1M + 60 * BotProviders[provider].outPer1M
selectBotProvider ==
  IF BotKeys = {} THEN None
  ELSE CHOOSE p \in BotKeys : \A q \in BotKeys : costPerCall(p) <= costPerCall(q)

\* What the model pass returns; without a key there is none, and its failure changes nothing.
classify == IF selectBotProvider = None THEN {None} ELSE ModelAnswers

\* The day's comments are counted; then the checkout's corpus is read and the reply composed.  A
\* reply that the guard over its prose refuses fails the run.
composed(t, from, reply, answer) ==
  IF capReached(countRecentBotComments) \/ Corpus[from] = {} \/ reply.refused
  THEN end(t)
  ELSE /\ job' = [job EXCEPT ![t].pc = "post", ![t].from = from, ![t].labels = labelsWith(reply, answer)]
       /\ UNCHANGED last

Compose(t, from, answer) ==
  /\ At(t, "count")
  /\ composed(t, from, Reply[thread[t].text][from], answer)
  /\ UNCHANGED << thread, waiting, day, enabled, acts >>

\* The API refuses, or the answer is lost on the way: the run fails and nothing is labelled.
PostFails(t) ==
  /\ At(t, "post")
  /\ end(t)
  /\ UNCHANGED << thread, waiting, day, enabled, acts >>

createComment(t) ==
  /\ thread' = [thread EXCEPT ![t].comments = Append(@,
       [user |-> None, own |-> TRUE, to |-> job[t].event.user, surface |-> job[t].event.surface,
        from |-> job[t].from])]
  /\ day' = ofTheDay(t, TRUE)

Post(t, answerLost) ==
  /\ At(t, "post")
  /\ createComment(t)
  /\ IF answerLost \/ job[t].labels = {} \/ isDiscussion(t) THEN end(t)
     ELSE /\ job' = [job EXCEPT ![t].pc = "label"]
          /\ UNCHANGED last
  /\ UNCHANGED << waiting, enabled, acts >>

Label(t, refused) ==
  /\ At(t, "label")
  /\ IF refused THEN UNCHANGED thread
     ELSE thread' = [thread EXCEPT ![t].labels = @ \cup job[t].labels]
  /\ end(t)
  /\ UNCHANGED << waiting, day, enabled, acts >>

BotNext ==
  \/ \E t \in Threads :
       \/ \E user \in Openers[t], text \in Texts[t] : Open(t, user, text)
       \/ \E user \in Writers[t] : Comment(t, user)
       \/ Close(t)
       \/ Rerun(t)
       \/ Skip(t)
       \/ Begin(t)
       \/ Guard(t)
       \/ \E from \in Checkouts, answer \in classify : Compose(t, from, answer)
       \/ PostFails(t)
       \/ \E answerLost \in BOOLEAN : Post(t, answerLost)
       \/ \E refused \in BOOLEAN : Label(t, refused)
  \/ Disable

BotSpec == BotInit /\ [][BotNext]_botVars

-----------------------------------------------------------------------------
(* Types, and what holds of every run *)

Users == UNION {Openers[t] \cup Writers[t] : t \in Threads}
Events == [surface : KNOWN_SURFACES, user : Users]
Comments == [user : Users \cup {None}, own : BOOLEAN, to : Users \cup {None},
             surface : KNOWN_SURFACES \cup {None}, from : Checkouts \cup {None}]
Opened == [opener : Users, text : AllTexts, open : BOOLEAN, comments : Seq(Comments),
           labels : SUBSET ALLOWED_LABELS]
Jobs == [pc : {"idle", "list", "count", "post", "label"}, event : Events \cup {None},
         comments : Seq(Comments), labels : SUBSET ALLOWED_LABELS, from : Checkouts \cup {None}]

ASSUME BotAssumption ==
  /\ IsFiniteSet(Threads)
  /\ \A t \in Threads : KindOf[t] \in {"issue", "pull", "discussion"}
  /\ ThreadPage \in Nat /\ DayPage \in Nat /\ DAILY_COMMENT_CAP \in Nat \ {0}
  /\ None \notin Opened \cup Events

BotTypeOK ==
  /\ thread \in [Threads -> Opened \cup {None}]
  /\ waiting \in [Threads -> Events \cup {None}] /\ last \in [Threads -> Events \cup {None}]
  /\ job \in [Threads -> Jobs]
  /\ day \in Seq(BOOLEAN) /\ enabled \in BOOLEAN /\ acts \in Nat

ownComments(t) == IF thread[t] = None THEN {}
                  ELSE {i \in DOMAIN thread[t].comments : thread[t].comments[i].own}
fits(t) == thread[t] = None \/ Len(thread[t].comments) <= ThreadPage

\* An event is of a thread, and a comment that set one off is on it.
onComment(surface) == surface \notin {"issue", "discussion"}
commented(t, user) == \E i \in DOMAIN thread[t].comments : thread[t].comments[i].user = user
happened(t, event) == thread[t] # None /\ (onComment(event.surface) => commented(t, event.user))

sourced(t) ==
  /\ \A event \in {waiting[t], last[t], job[t].event} \ {None} : happened(t, event)
  /\ job[t].pc # "idle" => job[t].event # None

\* What the bot wrote to a comment stands after it.
after(t) == \A k \in ownComments(t) :
  onComment(thread[t].comments[k].surface) =>
    \E i \in 1 .. k - 1 : thread[t].comments[i].user = thread[t].comments[k].to

\* A snapshot that a run still has to judge is the thread but for what people wrote since.
current(t) ==
  /\ Len(job[t].comments) <= Len(thread[t].comments)
  /\ \A i \in DOMAIN job[t].comments : job[t].comments[i] = thread[t].comments[i]
  /\ \A i \in ownComments(t) : i <= Len(job[t].comments)
snapshot(t) == isDiscussion(t) /\ job[t].pc = "list" /\ fits(t) => current(t)

\* A run that is past the guard has nobody's second answer in hand.
sameAnswer(c, d) == c.to = d.to /\ c.surface = d.surface /\ c.surface # "discussion"
inHand(t) == [to |-> job[t].event.user, surface |-> job[t].event.surface]
fresh(t) == job[t].pc \in {"count", "post"} /\ fits(t) =>
  \A k \in ownComments(t) : ~ sameAnswer(thread[t].comments[k], inHand(t))

\* What the day's cap has let through, posted or not yet.
counted == {t \in Threads : ~ isDiscussion(t)}
posting == {t \in counted : job[t].pc = "post"}
CapHolds ==
  Len(day) <= DayPage => ownIn(day) + Cardinality(posting) < DAILY_COMMENT_CAP + Cardinality(counted)

-----------------------------------------------------------------------------
(* Properties *)

\* Rule 2 of conversation.ts, at any interleaving with people, failures and reruns: as long as
\* a listing holds the whole thread, a person who comments is answered once at most for it,
\* and an issue that is opened once at most (run.ts:129, conversation.ts:116).
answeredOnce(t) == fits(t) =>
  \A i, k \in ownComments(t) : sameAnswer(thread[t].comments[i], thread[t].comments[k]) => i = k
NeverTwiceToOnePerson == \A t \in Threads : answeredOnce(t)

\* run.ts:154: the count is read before the comment is posted.  As long as one listing holds the
\* day, the comments on issues pass the cap by the other runs in progress at most.
DailyCapWithinOverlap ==
  Len(day) <= DayPage =>
    ownIn(day) < DAILY_COMMENT_CAP + Cardinality(counted)

ThreadOK(t) == sourced(t) /\ after(t) /\ snapshot(t) /\ fresh(t) /\ answeredOnce(t)
BotInv == BotTypeOK /\ (\A t \in Threads : ThreadOK(t)) /\ CapHolds

\* The passage that matches each question of a text best, of those that clear the gates.
firstsOf(lists) == {keyOf(hits[1]) : hits \in lists \ {<< >>}}
Best == [text \in AllTexts |-> [from \in Checkouts |->
           firstsOf({pass(q, Corpus[from], slots("question", text), TRUE) :
                       q \in ToSet(decomposeQuestions(text))})]]

\* answer.ts:122 and triage.ts:176, "one answer per question asked, before a second answer to any
\* of them": when the bot answers a question that asks up to five things, it quotes the passage
\* that matches each of them best.
NoQuestionCrowdedOut ==
  \A t \in Threads : \A i \in ownComments(t) :
    LET text == thread[t].text
        from == thread[t].comments[i].from
        quotesTheBest(reply) ==
          (reply.intent = "question" /\ reply.answer.answered /\ Len(decomposeQuestions(text)) <= 5) =>
            Best[text][from] \subseteq {q.key : q \in reply.answer.quoted}
    IN  quotesTheBest(Reply[text][from])
=============================================================================
