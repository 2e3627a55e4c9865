------------------------------ MODULE ShellText ------------------------------
(***************************************************************************)
(* The text that the command rules of Layer 1 are matched against: the     *)
(* lexer of engine/shlex.ts and the readers of engine/layer1.ts that ask   *)
(* which words are commands, which text is only carried, and which         *)
(* statement names a .env file.  A command line is a sequence of symbols:  *)
(* a word, a blank, a quote, an operator.  It is typed piece by piece by   *)
(* someone who writes shell; what the shell itself makes of the pieces is  *)
(* recorded beside it, and what the code makes of the text is compared     *)
(* with that.  Backslashes, comments and <( ) are not typed.               *)
(***************************************************************************)
EXTENDS Integers, SequencesExt

CONSTANTS
  Danger,        \* the word a deny rule is about
  DotEnv,        \* the word for a .env file
  Inert, Shells, Foreign, Safe, Runners, Messages, EvalFlags, Flags, Assignments,
  Escape,        \* the symbol by which foreign source gets back to a shell
  Delim,         \* the delimiter of a here-document
  Commands, Args,  \* the words that are typed, by themselves, as names and as arguments
  QuotedWords,   \* what is typed with quotes: which, after what, and what is between them
  Bodies,        \* what is typed into a here-document
  Documents,     \* the openers, with the quote around the delimiter
  Inner,     \* the documents typed inside a substitution: who reads it, and what it says
  Separators,
  Substituted,   \* the commands typed between $( and )
  MaxPieces      \* bound on the pieces of a command line

VARIABLES
  cmd,           \* the command line
  pieces,
  sh,            \* the shell: the statement it is reading and the document that is open
  names,         \* where the shell finds command names
  runs,          \* where it finds dangerous text that it runs
  carried,       \* where dangerous text is an argument or a document that nothing runs
  reads,         \* whether a command that may disclose it is given a .env file: "no", or
                 \* "open", or "hidden" by a substitution or by what stands before its name
  plain,         \* none of the shapes that the lexer does not look into
  split,         \* an operator stands between quotes
  lexed, text    \* what the code makes of the command line, once it is complete

vars == << cmd, pieces, sh, names, runs, carried, reads, plain, split, lexed, text >>

Sp == " "
Nl == "newline"
Tab == "tab"
Sq == "sq"
Dq == "dq"
Bt == "bq"
Sub == "$("
Quotes == {Sq, Dq}
Openers == {"<<", "<<-"}
Redirects == {"<", ">"} \cup Openers
Boundary == {Nl, ";", "&&", "||", "|", "(", ")"}
Blank == {Sp, Nl, Tab}
Operators == Redirects \cup (Boundary \ {Nl})
Unread == [ok |-> FALSE, words |-> << >>, heredocs |-> << >>]

-----------------------------------------------------------------------------
(* Scanning *)

\* The first position from i on that holds one of these symbols, or one past the end.
Next1(s, i, S) == LET at == {j \in i .. Len(s) : s[j] \in S}
                  IN IF at = {} THEN Len(s) + 1 ELSE CHOOSE j \in at : \A k \in at : j <= k

\* The here-documents.  Of each line the first opener counts, quoted or not; its
\* body runs to the first line that is the delimiter alone.
openers(s, i, e) ==
  {j \in i .. e - 2 : /\ s[j] \in Openers
                      /\ \/ s[j + 1] = Delim
                         \/ j + 3 < e /\ s[j + 1] \in Quotes /\ s[j + 2] = Delim /\ s[j + 3] = s[j + 1]}

isDelimiter(s, from, dashed) ==
  LET line == SubSeq(s, from, Next1(s, from, {Nl}) - 1)
  IN line = << Delim >> \/ (dashed /\ line = << Tab, Delim >>)

RECURSIVE heredocsFrom(_, _)
heredocsFrom(s, i) ==
  IF i > Len(s) THEN << >>
  ELSE LET e     == Next1(s, i, {Nl})
           os    == openers(s, i, e)
           o     == CHOOSE j \in os : \A k \in os : j <= k
           ends  == {j \in e + 1 .. Len(s) : s[j - 1] = Nl /\ isDelimiter(s, j, s[o] = "<<-")}
           end   == CHOOSE j \in ends : \A k \in ends : j <= k
           after == Next1(s, end, {Nl}) + 1
       IN CASE os = {} -> heredocsFrom(s, e + 1)
            [] os # {} /\ ends = {} -> << Unread >>
            [] OTHER -> << [bodyStart |-> e + 1, bodyEnd |-> end, spanEnd |-> after, line |-> i,
                            quoted |-> s[o + 1] \in Quotes] >> \o heredocsFrom(s, after)

inBody(hs, i) == {k \in DOMAIN hs : hs[k].bodyStart <= i /\ i < hs[k].spanEnd}
skip(hs, i) == hs[CHOOSE k \in inBody(hs, i) : TRUE].spanEnd

\* The quote that closes a double-quoted span, and the ) that closes a $( : both
\* step over what is nested in them.  0 when there is none.
RECURSIVE findDoubleQuoteEnd(_, _, _), findParenEnd(_, _, _, _)
findDoubleQuoteEnd(s, i, hs) ==
  CASE i > Len(s)                          -> 0
    [] i <= Len(s) /\ inBody(hs, i) # {}   -> findDoubleQuoteEnd(s, skip(hs, i), hs)
    [] OTHER ->
         CASE s[i] = Dq  -> i
           [] s[i] = Bt  -> LET e == Next1(s, i + 1, {Bt})
                            IN IF e > Len(s) THEN 0 ELSE findDoubleQuoteEnd(s, e + 1, hs)
           [] s[i] = Sub -> LET e == findParenEnd(s, i + 1, hs, 1)
                            IN IF e = 0 THEN 0 ELSE findDoubleQuoteEnd(s, e + 1, hs)
           [] OTHER      -> findDoubleQuoteEnd(s, i + 1, hs)

findParenEnd(s, i, hs, depth) ==
  CASE i > Len(s)                          -> 0
    [] i <= Len(s) /\ inBody(hs, i) # {}   -> findParenEnd(s, skip(hs, i), hs, depth)
    [] OTHER ->
         CASE s[i] \in Quotes     -> LET e == IF s[i] = Dq THEN findDoubleQuoteEnd(s, i + 1, hs)
                                              ELSE Next1(s, i + 1, {Sq})
                                     IN IF e \notin 1 .. Len(s) THEN 0 ELSE findParenEnd(s, e + 1, hs, depth)
           [] s[i] \in {Sub, "("} -> findParenEnd(s, i + 1, hs, depth + 1)
           [] s[i] = ")"          -> IF depth = 1 THEN i ELSE findParenEnd(s, i + 1, hs, depth - 1)
           [] OTHER               -> findParenEnd(s, i + 1, hs, depth)

-----------------------------------------------------------------------------
(* Words *)

NoWord == [start |-> 0, quoting |-> "none", bare |-> FALSE, expands |-> FALSE]

wordAt(s, w, end) ==
  [start |-> w.start, end |-> end, raw |-> SubSeq(s, w.start, end - 1), expands |-> w.expands,
   quoting |-> IF w.quoting # "none" /\ w.bare THEN "mixed" ELSE w.quoting]

RECURSIVE walk(_, _, _, _, _)
walk(s, hs, i, w, words) ==
  LET flushed == IF w.start = 0 THEN words ELSE Append(words, wordAt(s, w, i))
      start   == IF w.start = 0 THEN i ELSE w.start
      keep(new, j) == IF j \notin 1 .. Len(s) THEN Unread ELSE walk(s, hs, j + 1, new, words)
  IN IF i > Len(s) THEN [ok |-> TRUE, words |-> flushed, heredocs |-> hs]
     ELSE IF inBody(hs, i) # {} THEN walk(s, hs, skip(hs, i), NoWord, flushed)
     ELSE CASE s[i] \in Quotes ->
                 LET close == IF s[i] = Sq THEN Next1(s, i + 1, {Sq}) ELSE findDoubleQuoteEnd(s, i + 1, hs)
                 IN keep([w EXCEPT !.start = start, !.quoting = IF @ = "none" THEN s[i] ELSE @,
                                   !.expands = @ \/ (s[i] = Dq /\ \E j \in i .. close : s[j] \in {Sub, Bt})],
                         close)
            [] s[i] \in {Bt, Sub} ->
                 keep([w EXCEPT !.start = start, !.bare = TRUE, !.expands = TRUE],
                      IF s[i] = Bt THEN Next1(s, i + 1, {Bt}) ELSE findParenEnd(s, i + 1, hs, 1))
            [] s[i] \in Blank \cup Operators -> walk(s, hs, i + 1, NoWord, flushed)
            [] OTHER -> keep([w EXCEPT !.start = start, !.bare = TRUE], i)

\* Mutation: an assignment before a command is taken for its name.
noAssignment(w) == FALSE
isAssignment(w) == w.quoting = "none" /\ w.raw[1] \in Assignments

\* A command name is the first word after a boundary that assigns nothing.
markCommandPositions(s, l) ==
  LET inWord(i) == \E k \in DOMAIN l.words : l.words[k].start <= i /\ i < l.words[k].end
      boundaries == {1} \cup {i + 1 : i \in {j \in DOMAIN s : /\ s[j] \in Boundary
                                                              /\ inBody(l.heredocs, j) = {} /\ ~ inWord(j)}}
  IN [k \in DOMAIN l.words |->
        /\ ~ isAssignment(l.words[k])
        /\ \E b \in boundaries :
             /\ b <= l.words[k].start
             /\ \A j \in 1 .. k - 1 : l.words[j].start >= b => isAssignment(l.words[j])]

lex(s) ==
  LET hs == heredocsFrom(s, 1)
      l  == IF Unread \in ToSet(hs) THEN Unread ELSE walk(s, hs, 1, NoWord, << >>)
      at == markCommandPositions(s, l)
  IN [ok |-> l.ok, heredocs |-> l.heredocs,
      words |-> [k \in DOMAIN l.words |-> [w \in {"start", "end", "raw", "quoting", "expands", "command"} |->
                   IF w = "command" THEN at[k] ELSE l.words[k][w]]]]

\* The text of a word or a token without its quotes: a quote of the other kind stays.
unquote(raw) ==
  FoldLeft(LAMBDA acc, c : IF acc.q = "none" THEN IF c \in Quotes THEN [acc EXCEPT !.q = c]
                                                 ELSE [acc EXCEPT !.out = Append(@, c)]
                           ELSE IF c = acc.q THEN [acc EXCEPT !.q = "none"]
                                ELSE [acc EXCEPT !.out = Append(@, c)],
           [q |-> "none", out |-> << >>], raw).out

verbOf(w, S) == \E v \in S : unquote(w.raw) = << v >>

-----------------------------------------------------------------------------
(* The text the shell runs: everything else is blanked *)

\* The command names on the line that opened a document.
onOpenerLine(l, h) ==
  SelectSeq(l.words, LAMBDA w : w.command /\ w.end <= h.bodyStart /\ w.start >= h.line)

shellConsumerOf(l, h) ==
  LET ws == onOpenerLine(l, h)
  IN CASE \E k \in DOMAIN ws : verbOf(ws[k], Shells) -> "shell"
       [] /\ \A k \in DOMAIN ws : ~ verbOf(ws[k], Shells)
          /\ \E k \in DOMAIN ws : verbOf(ws[k], Foreign) -> "foreign"
       [] OTHER -> "data"

bodyIsForeignSource(body) == Escape \notin ToSet(body)

isData(s, l, h) ==
  LET body == SubSeq(s, h.bodyStart, h.bodyEnd - 1)
      consumer == shellConsumerOf(l, h)
  IN \/ consumer = "data"
     \/ /\ consumer = "foreign"
        /\ h.quoted \/ {Sub, Bt} \cap ToSet(body) = {}
        /\ bodyIsForeignSource(body)

argsOf(l, k) ==
  LET next == {j \in k + 1 .. Len(l.words) : l.words[j].command}
      end  == IF next = {} THEN Len(l.words) + 1 ELSE CHOOSE j \in next : \A i \in next : j <= i
  IN SubSeq(l.words, k + 1, end - 1)

\* Mutation: a word between double quotes is literal whatever is in it.
quotedWord(w) == w.quoting \in Quotes
literal(w) == w.quoting \in Quotes /\ ~ w.expands

\* Mutation: only the verbs of the list, no message of git.
listedVerb(verb, args) == verbOf(verb, Inert)

isInertVerb(verb, args) ==
  \/ verbOf(verb, Inert)
  \/ /\ verbOf(verb, {"git"})
     /\ LET subs == SelectSeq(args, LAMBDA a : unquote(a.raw) = << >> \/ unquote(a.raw)[1] \notin Flags)
        IN subs # << >> /\ verbOf(subs[1], Messages)

\* The arguments that an inert command carries, and the programs given to a
\* foreign interpreter on its command line.
dataWords(l) ==
  UNION {LET args == argsOf(l, k)
         IN IF isInertVerb(l.words[k], args) THEN {a \in ToSet(args) : literal(a)}
            ELSE {args[j] : j \in {i \in 2 .. Len(args) : /\ verbOf(l.words[k], Foreign)
                                                          /\ verbOf(args[i - 1], EvalFlags)
                                                          /\ literal(args[i])
                                                          /\ bodyIsForeignSource(args[i].raw)}} :
         k \in {j \in DOMAIN l.words : l.words[j].command}}

executableText(s, l) ==
  LET blanks == UNION {w.start .. w.end - 1 : w \in dataWords(l)}
                \cup UNION {h.bodyStart .. h.bodyEnd - 1 : h \in {d \in ToSet(l.heredocs) : isData(s, l, d)}}
  IN IF l.ok THEN [i \in DOMAIN s |-> IF i \in blanks /\ s[i] # Nl THEN Sp ELSE s[i]] ELSE s

-----------------------------------------------------------------------------
(* The statement that discloses a .env file: the line is cut at every operator,  *)
(* between quotes too, and each piece is read by itself.                          *)

segments(s) ==
  FoldLeft(LAMBDA acc, c : IF c \in {"&&", "||", ";", "|", Nl} THEN Append(acc, << >>)
                           ELSE Append(Front(acc), Append(Last(acc), c)),
           << << >> >>, s)

tokenize(seg) ==
  SelectSeq(FoldLeft(LAMBDA acc, c :
              LET add == [acc EXCEPT !.out = Append(Front(@), Append(Last(@), c))]
              IN CASE acc.q # "none" -> IF c = acc.q THEN [acc EXCEPT !.q = "none"] ELSE add
                   [] acc.q = "none" /\ c \in Quotes -> [acc EXCEPT !.q = c]
                   [] acc.q = "none" /\ c \in Blank -> [acc EXCEPT !.out = Append(@, << >>)]
                   [] OTHER -> add,
            [q |-> "none", out |-> << << >> >>], seg).out, LAMBDA t : t # << >>)

\* What looks like the name of a program.
isName(t) == \A i \in DOMAIN t : t[i] \notin Blank \cup Quotes \cup Operators \cup Flags \cup Assignments \cup {Sub, Bt, DotEnv}

\* Mutation: runners are not stepped over.
disclosesBare(seg) ==
  LET toks == tokenize(seg)
      v == CHOOSE j \in 1 .. Len(toks) + 1 :
             /\ \A i \in 1 .. j - 1 : toks[i][1] \in Assignments
             /\ j <= Len(toks) => toks[j][1] \notin Assignments
  IN /\ v <= Len(toks) /\ isName(toks[v])
     /\ toks[v] \notin {<< c >> : c \in Safe \cup Runners}
     /\ \E i \in v + 1 .. Len(toks) : toks[i] = << DotEnv >>

discloses(seg) ==
  LET toks == tokenize(seg)
      past(from, S) == CHOOSE j \in from .. Len(toks) + 1 :
                         /\ \A i \in from .. j - 1 : toks[i][1] \in S
                         /\ j <= Len(toks) => toks[j][1] \notin S
      v == past(past(1, Assignments), Runners)
  IN /\ v <= Len(toks) /\ isName(toks[v])
     /\ toks[v] \notin {<< c >> : c \in Safe}
     /\ \E i \in v + 1 .. Len(toks) : toks[i] = << DotEnv >>

dotenvSegment(s) == \E seg \in ToSet(segments(s)) : discloses(seg)

-----------------------------------------------------------------------------
(* The shell, and the pieces that are typed *)

Reset == [want |-> TRUE, runner |-> FALSE, verb |-> "none", sub |-> "none", eval |-> FALSE,
          broken |-> FALSE, hidden |-> FALSE]
NoDoc == [open |-> FALSE, quoted |-> FALSE, dashed |-> FALSE, shell |-> FALSE,
          foreign |-> FALSE, runner |-> FALSE, piped |-> FALSE]

Init ==
  /\ cmd = << >> /\ pieces = 0
  /\ sh = [st |-> Reset, doc |-> NoDoc, line |-> FALSE]
  /\ names = {} /\ runs = {} /\ carried = {} /\ reads = "no"
  /\ plain = TRUE /\ split = FALSE
  /\ lexed = Unread /\ text = << >>

st == sh.st
Dangers(piece) == {Len(cmd) + i : i \in {j \in DOMAIN piece : piece[j] = Danger}}

\* A piece is typed; a complete line is delivered to the code.  The dangerous
\* word and the file are typed once.
Type(piece, next) ==
  /\ pieces < MaxPieces /\ pieces' = pieces + 1
  /\ ToSet(piece) \cap ToSet(cmd) \cap {Danger, DotEnv} = {}
  /\ cmd' = cmd \o piece
  /\ sh' = next
  /\ IF next.doc.open THEN lexed' = Unread /\ text' = << >>
     ELSE lexed' = lex(cmd') /\ text' = executableText(cmd', lexed')

isInert == ~ st.runner /\ (st.verb \in Inert \/ (st.verb = "git" /\ st.sub \in Messages))

\* The shell takes a word: the name of a command or an argument of one.
Take(w) ==
  IF st.want THEN CASE w \in Assignments -> [st EXCEPT !.hidden = st.runner]
                    [] w \in Runners     -> [st EXCEPT !.runner = TRUE]
                    [] OTHER              -> [st EXCEPT !.want = FALSE, !.verb = w]
  ELSE [st EXCEPT !.eval = w \in EvalFlags, !.sub = IF @ = "none" /\ w \notin Flags THEN w ELSE @]

\* A command is given the file, behind what hides its name from the code or not.
Read == IF st.verb \in Safe THEN reads ELSE IF st.hidden THEN "hidden" ELSE "open"

\* A document opened before a pipe goes where the pipe goes.
Piped(next) ==
  [st |-> next, line |-> sh.line \/ (st.want /\ next.verb \in Shells \cup Foreign), doc |-> [sh.doc EXCEPT !.shell = @ \/ (sh.doc.open /\ sh.doc.piped /\ next.verb \in Shells),
                                       !.runner = @ \/ (sh.doc.open /\ sh.doc.piped /\ next.runner)]]

Word(w) ==
  /\ w \in IF st.want THEN Commands \cup Runners \cup Assignments ELSE Args
  /\ Type(<< Sp, w >>, Piped(Take(w)))
  /\ names' = IF st.want /\ ~ st.runner /\ w \notin Assignments THEN names \cup {Len(cmd) + 2} ELSE names
  /\ runs' = IF w = Danger /\ (st.want \/ st.verb \in Shells) THEN runs \cup {Len(cmd) + 2} ELSE runs
  /\ reads' = IF w = DotEnv /\ ~ st.want THEN Read ELSE reads
  /\ UNCHANGED << carried, plain, split >>

\* An argument between quotes, or one that only partly stands between them.
Quoted(q, glue, content) ==
  LET piece == << Sp >> \o glue \o << q >> \o content \o << q >>
      D     == Dangers(piece)
      expands == q = Dq /\ Sub \in ToSet(content)
  IN /\ ~ st.want
     /\ q \notin ToSet(content)
     /\ Type(piece, Piped(Take("text")))
     /\ runs' = IF \/ st.verb \in Shells \/ expands
                   \/ st.verb \in Foreign /\ st.eval /\ Escape \in ToSet(content)
                THEN runs \cup D ELSE runs
     /\ carried' = IF /\ glue = << >> /\ ~ expands
                      /\ isInert \/ (~ st.runner /\ st.verb \in Foreign /\ st.eval /\ Escape \notin ToSet(content))
                   THEN carried \cup D ELSE carried
     /\ reads' = IF glue = << >> /\ content = << DotEnv >> THEN Read ELSE reads
     /\ plain' = (plain /\ ToSet(content) \cap Openers = {})
     /\ split' = (split \/ ToSet(content) \cap Boundary # {})
     /\ UNCHANGED names

\* $( ) around a command, as a word or as the name of another command.
Substitute(inside) ==
  LET piece == << Sp, Sub >> \o inside \o << ")" >>
  IN /\ Type(piece, Piped([Take("text") EXCEPT !.hidden = @ \/ st.want]))
     /\ names' = IF st.want /\ ~ st.runner THEN names \cup {Len(cmd) + 2} ELSE names
     /\ runs' = runs \cup Dangers(piece)
     /\ reads' = IF DotEnv \in ToSet(inside) THEN "hidden" ELSE reads
     /\ UNCHANGED << carried, plain, split >>

Separate(op) ==
  /\ ~ st.want
  /\ Type(<< Sp, op >>, [st |-> Reset, line |-> sh.line, doc |-> [sh.doc EXCEPT !.piped = @ /\ op = "|"]])
  /\ UNCHANGED << names, runs, carried, reads, plain, split >>

OpenHeredoc(opener, q) ==
  /\ ~ st.want /\ ~ sh.doc.open
  /\ Type(<< Sp, opener >> \o q \o << Delim >> \o q,
          [st |-> [st EXCEPT !.eval = FALSE], line |-> sh.line, doc |-> [open |-> TRUE, quoted |-> q # << >>, dashed |-> opener = "<<-",
                               shell |-> st.verb \in Shells, foreign |-> st.verb \in Foreign,
                               runner |-> st.runner, piped |-> TRUE]])
  /\ plain' = (plain /\ ~ st.broken)
  /\ UNCHANGED << names, runs, carried, reads, split >>

\* The line ends, and with it the document that it opened is read.
EndLine ==
  /\ ~ sh.doc.open /\ ~ st.want
  /\ Type(<< Nl >>, [st |-> Reset, doc |-> NoDoc, line |-> FALSE])
  /\ UNCHANGED << names, runs, carried, reads, plain, split >>

Body(body) ==
  LET doc   == sh.doc
      piece == << Nl >> \o body \o << Nl >> \o (IF doc.dashed THEN << Tab >> ELSE << >>) \o << Delim, Nl >>
      D     == Dangers(piece)
      expands == ~ doc.quoted /\ Sub \in ToSet(body)
      escapes == doc.foreign /\ Escape \in ToSet(body)
  IN /\ doc.open /\ ~ st.want
     /\ Type(piece, [st |-> Reset, doc |-> NoDoc, line |-> FALSE])
     /\ runs' = IF doc.shell \/ expands \/ escapes THEN runs \cup D ELSE runs
     /\ carried' = IF ~ sh.line /\ ~ expands THEN carried \cup D ELSE carried
     /\ plain' = (plain /\ ~ (doc.runner /\ (doc.shell \/ doc.foreign)) /\ (expands => doc.shell \/ doc.foreign))
     /\ UNCHANGED << names, reads, split >>

\* A document inside a substitution inside quotes, the way long messages are written.
Nested(v, body) ==
  LET piece == << Sp, Dq, Sub, v, Sp, "<<", Sq, Delim, Sq, Nl >> \o body \o << Nl, Delim, Nl, ")", Dq >>
  IN /\ ~ st.want /\ ~ sh.doc.open
     /\ Type(piece, Piped([Take("text") EXCEPT !.broken = TRUE]))
     /\ runs' = IF v \in Shells \/ st.verb \in Shells THEN runs \cup Dangers(piece) ELSE runs
     /\ carried' = IF isInert /\ v \notin Shells /\ ~ sh.line THEN carried \cup Dangers(piece) ELSE carried
     /\ plain' = (plain /\ v \notin Shells /\ st.verb \notin Shells)
     /\ split' = TRUE
     /\ UNCHANGED << names, reads >>

Next ==
  \/ \E w \in Commands \cup Args \cup Runners \cup Assignments : Word(w)
  \/ \E w \in QuotedWords : Quoted(w.quote, w.after, w.content)
  \/ \E inside \in Substituted : Substitute(inside)
  \/ \E op \in Separators : Separate(op)
  \/ \E d \in Documents : OpenHeredoc(d.opener, d.quote)
  \/ EndLine
  \/ \E b \in Bodies : Body(b)
  \/ \E d \in Inner : Nested(d.reader, d.body)

Spec == Init /\ [][Next]_vars

-----------------------------------------------------------------------------
(* Properties *)

Complete == lexed # Unread

\* The lexer finds the command names that the shell finds, whatever quotes,
\* documents, continued pipes and substitutions stand around them
\* (shlex.ts:22-24, :280-285).
LexAgrees ==
  Complete /\ plain => /\ lexed.ok
                      /\ {w.start : w \in {v \in ToSet(lexed.words) : v.command}} = names

\* Text that the shell runs is never taken out of what the rules are matched
\* against (layer1.ts:743-752, :601-608).
NothingThatRunsIsBlanked ==
  Complete /\ plain => \A i \in runs : text[i] = cmd[i]

\* Text that a command only carries is taken out: a search, a message, a
\* program in another language or a document does not fire a command rule
\* (layer1.ts:720-729, :572-599).
CarriedTextIsBlanked ==
  Complete /\ plain => \A i \in carried \ runs : text[i] # Danger

\* A command that is not known to be harmless is seen when it is given a .env
\* file, in any statement of the line, behind assignments and behind runners
\* (layer1.ts:493-546).  Not among them are the reads that are "hidden": by an
\* assignment behind a runner (sudo X=1 sed .env), by a substitution that is the
\* command's name ($(cmd) .env) or that holds the whole command (ls $(sed .env)),
\* all of which the code misses; nor a line with an operator between quotes.
DotenvReadsAreSeen ==
  Complete /\ plain /\ ~ split /\ reads = "open" => dotenvSegment(cmd)

\* Claimed, and not so: whatever can run is left in the text, and anything that
\* is not on the short list of safe commands is treated as a reader of the .env
\* file it names, past the assignments and runners before it (layer1.ts:598-599,
\* :605, :496, :522).
WhatRunsIsAlwaysScanned == Complete => \A i \in runs : text[i] = cmd[i]
ReadsAreAlwaysSeen == Complete /\ reads # "no" => dotenvSegment(cmd)
=============================================================================
