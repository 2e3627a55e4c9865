------------------------------ MODULE PolicyFile ------------------------------
(***************************************************************************)
(* The policy that governs one repository, and the files it is read from:  *)
(* policy/schema.ts and policy/load.ts.  A document is a function from the *)
(* keys it sets to their values; a key may be left blank (Null) or hold a  *)
(* value of the wrong type or out of range (Bad).  A policy sets every key:*)
(*   allowed, forbidden   entries of scope.*_paths; what names a place in  *)
(*                        a list of paths names the entry itself           *)
(*   deny                 commands.deny, in order; the pattern of a rule   *)
(*                        is the set of statements it matches              *)
(*   warnPct              context.warn_pct, 0 when it is null              *)
(* and the rest as their names say.                                        *)
(***************************************************************************)
EXTENDS Integers, Sequences, FiniteSets, SequencesExt

CONSTANTS
  Covers,     \* the paths each entry of a path list matches, from the repository
  Globs,      \* the entries that hold a wildcard
  Defaults,   \* defaultPolicy
  Absent, Malformed, Null, Bad

Keys == {"allowed", "forbidden", "uncommitted", "ephemeral", "deny", "branches", "invariants",
         "goal", "warnPct", "checkpoint", "judge", "telemetry", "backup"}
Entries == DOMAIN Covers

\* A list of rules, each of which blocks or warns.
IsRules(rules) ==
  /\ rules \in Seq(Range(rules))
  /\ \A r \in Range(rules) : r.action \in {"block", "warn"}

ASSUME DefaultsAssumption ==
  /\ Globs \subseteq Entries
  /\ Defaults = [k \in Keys |-> Defaults[k]]
  /\ Defaults.allowed \subseteq Entries /\ Defaults.forbidden \subseteq Entries
  /\ IsRules(Defaults.deny)

\* What a file may hold: its lists of paths and of rules are blank, wrong or lists.
DocOK(doc) ==
  doc \in {Absent, Malformed} \/
    /\ DOMAIN doc \subseteq Keys
    /\ "allowed" \in DOMAIN doc => doc["allowed"] \in {Null, Bad} \cup SUBSET Entries
    /\ "forbidden" \in DOMAIN doc => doc["forbidden"] \in {Null, Bad} \cup SUBSET Entries
    /\ "deny" \in DOMAIN doc => doc["deny"] \in {Null, Bad} \/ IsRules(doc["deny"])

Lists == {"allowed", "forbidden", "branches", "invariants"}

\* The paths below an entry read as a directory.
Inside(entry) == IF entry \in Globs THEN {} ELSE Covers[entry]

\* What a key left blank means: an empty list for the path lists, no threshold
\* for context.warn_pct, and for every other key what was there before.
Blank(k, base) ==
  CASE k \in Lists    -> {}
    [] k = "warnPct"  -> 0
    [] OTHER          -> base[k]

\* A document read over a base.  An unknown key or a bad value is an error.
validatePolicy(doc, base) ==
  IF ~ DOMAIN doc \subseteq Keys \/ \E k \in DOMAIN doc : doc[k] = Bad
  THEN Malformed
  ELSE [k \in Keys |-> CASE k \notin DOMAIN doc -> base[k]
                         [] k \in DOMAIN doc /\ doc[k] = Null -> Blank(k, base)
                         [] OTHER -> doc[k]]

\* parseFile, with the test that the file is there: no file adds nothing.
parseFile(doc, base) ==
  CASE doc = Absent    -> base
    [] doc = Malformed -> Malformed
    [] OTHER           -> validatePolicy(doc, base)

-----------------------------------------------------------------------------
(* The merge of an untrusted repository's policy into the user's.  *)

\* Mutation: whatever a repository allows is kept.
keepAll(user, repo) == repo.allowed

\* An entry of the repository is kept when it lies in an entry of the user's.
Kept(user, repo) ==
  {p \in repo.allowed : \E u \in user.allowed : p = u \/ Covers[p] \subseteq Inside(u)}

\* A map keyed by rule id: the place of the first rule of an id, the value of the last.
Put(rules, r) ==
  IF \E i \in DOMAIN rules : rules[i].id = r.id
  THEN [i \in DOMAIN rules |-> IF rules[i].id = r.id THEN r ELSE rules[i]]
  ELSE Append(rules, r)

Downgrades(rules, r) ==
  r.action = "warn" /\ \E i \in DOMAIN rules : rules[i].id = r.id /\ rules[i].action = "block"

PutUnlessDowngrade(rules, r) == IF Downgrades(rules, r) THEN rules ELSE Put(rules, r)

mergeDeny(user, repo) ==
  FoldLeft(PutUnlessDowngrade, FoldLeft(Put, << >>, user), repo)

tighterPct(a, b) ==
  CASE a = 0 -> b [] b = 0 -> a [] OTHER -> IF a < b THEN a ELSE b

narrowOnly(user, repo) ==
  [user EXCEPT
    !.allowed     = IF Kept(user, repo) # {} THEN Kept(user, repo) ELSE @,
    !.forbidden   = @ \cup repo.forbidden,
    !.branches    = @ \cup repo.branches,
    !.invariants  = @ \cup repo.invariants,
    !.deny        = mergeDeny(@, repo.deny),
    !.uncommitted = @ \/ repo.uncommitted,
    !.goal        = @ \/ repo.goal,
    !.checkpoint  = @ \/ repo.checkpoint,
    !.warnPct     = tighterPct(@, repo.warnPct)]

\* The user is told of everything the merge refused.
notices(user, repo) ==
  (IF repo.allowed # Kept(user, repo) THEN {"allowed_paths"} ELSE {})
  \cup {r.id : r \in {x \in Range(repo.deny) : Downgrades(user.deny, x)}}
  \cup {r.id : r \in {x \in Range(user.deny) : \A i \in DOMAIN repo.deny : repo.deny[i].id # x.id}}
  \cup {k \in {"uncommitted", "judge"} : user[k] /\ ~ repo[k]}
  \cup (IF repo.telemetry /\ ~ user.telemetry THEN {"telemetry"} ELSE {})
  \cup (IF repo.backup # user.backup THEN {"backup"} ELSE {})

-----------------------------------------------------------------------------
(* The layers: built-in defaults, the machine-wide file, the repository's.     *)

userLayer(global) == parseFile(global, Defaults)

\* A trusted policy is taken as it is, but for where the record is copied to.
trustedPolicy(user, repo) == [repo EXCEPT !.backup = user.backup]

loadPolicy(global, repoDoc, trusted) ==
  LET user == userLayer(global) IN
  IF user = Malformed THEN Malformed
  ELSE LET repo == parseFile(repoDoc, user) IN
       CASE repo = Malformed                 -> Malformed
         [] repo # Malformed /\ repoDoc = Absent -> user
         [] repo # Malformed /\ repoDoc # Absent /\ trusted   -> trustedPolicy(user, repo)
         [] OTHER                            -> narrowOnly(user, repo)
=============================================================================
