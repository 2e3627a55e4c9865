------------------------------ MODULE PolicyGate ------------------------------
(***************************************************************************)
(* What stands between an agent and a call: the policy that its            *)
(* repository's files and the user's make together, and the waivers that   *)
(* people grant and revoke at a terminal (usewarden allow), several at a   *)
(* time.  The waivers are one file that every command rewrites whole from  *)
(* what it read, truncating it first; a file caught half written, or left  *)
(* so by a command that died, reads as no waivers at all.  A hook reads    *)
(* every file again on each event, so what it would decide is a function   *)
(* of the state (Final below).                                             *)
(***************************************************************************)
EXTENDS Layer1

CONSTANTS
  Terminals,      \* the commands that run at a terminal, one at a time each
  Pipes,          \* the commands that an agent runs, with no terminal
  TTL,            \* how long a waiver lasts
  MaxTime,        \* bound on the clock
  MaxCommands,    \* bound on the commands of usewarden allow
  Calls,          \* the calls an agent makes
  Typable,        \* the rules that a person types
  Here, Roots,    \* this repository, and those that waivers are granted in
  GlobalDocs, RepoDocs    \* the policy files there can be

ASSUME GateAssumption ==
  /\ Here \in Roots /\ TTL \in Nat /\ MaxTime \in Nat
  /\ \A doc \in GlobalDocs \cup RepoDocs : DocOK(doc)

VARIABLES
  global, repoDoc,  \* the user's policy file and the repository's
  trusted,          \* whether the repository's is in the trust file
  file,             \* exceptions.json
  torn,             \* whether it is truncated and not written yet
  cli,              \* what each command is about to do, and to write
  now,
  issued,           \* every waiver granted so far
  ledger,           \* the waivers there would be if commands ran one at a time
  raced             \* whether two commands overlapped, or one died half way

policyVars == << global, repoDoc, trusted >>
waiverVars == << file, torn, cli, now, issued, ledger, raced >>
vars == << policyVars, waiverVars >>

Grants == [rule : Typable, scope : Roots, expires : 0 .. MaxTime + TTL]
Idle == [phase |-> "idle", list |-> {}]
Commands == Terminals \cup Pipes

TypeOK ==
  /\ global \in GlobalDocs /\ repoDoc \in RepoDocs /\ trusted \in BOOLEAN
  /\ file \subseteq Grants /\ torn \in BOOLEAN
  /\ cli \in [Commands -> [phase : {"idle", "truncate", "write"}, list : SUBSET Grants]]
  /\ now \in 0 .. MaxTime
  /\ issued \subseteq Grants /\ ledger \subseteq Grants /\ raced \in BOOLEAN

Init ==
  /\ global \in GlobalDocs /\ repoDoc \in RepoDocs /\ trusted = FALSE
  /\ file = {} /\ torn = FALSE /\ cli = [c \in Commands |-> Idle] /\ now = 0
  /\ issued = {} /\ ledger = {} /\ raced = FALSE

-----------------------------------------------------------------------------
(* exceptions.ts *)

loadAllExceptions == IF torn THEN {} ELSE file
unexpired(grants) == {g \in grants : g.expires > now}

\* Mutation: the hook honours what has expired too.
loadExpiredToo == loadAllExceptions
loadExceptions == unexpired(loadAllExceptions)

\* Expired grants go whenever the file is written, and so does what there was
\* on the same rule in the same repository.
same(g, rule, scope) == g.rule = rule /\ g.scope = scope

\* Mutation: a revocation, or a second grant, leaves what there was in place.
keepSame(grants, rule, scope) == unexpired(grants)
others(grants, rule, scope) == {g \in unexpired(grants) : ~ same(g, rule, scope)}
granted(rule, scope) == [rule |-> rule, scope |-> scope, expires |-> now + TTL]

\* Only a person at a terminal is served.
refuseIfNotHuman(c) == c \in Pipes

busy(c) == cli[c].phase # "idle"

\* A command reads the clock and the file, and from then on knows what to write.
Begin(c, rule, scope, new) ==
  /\ ~ busy(c) /\ ~ refuseIfNotHuman(c)
  /\ cli' = [cli EXCEPT ![c] = [phase |-> "truncate",
                                list |-> others(loadAllExceptions, rule, scope) \cup new]]
  /\ issued' = issued \cup new
  /\ ledger' = {g \in ledger : ~ same(g, rule, scope)} \cup new
  /\ raced' = (raced \/ \E d \in Commands : busy(d))
  /\ UNCHANGED << policyVars, file, torn, now >>

addException(c, rule, scope) ==
  /\ Cardinality(issued) < MaxCommands
  /\ Begin(c, rule, scope, {granted(rule, scope)})

revokeException(c, rule, scope) == Begin(c, rule, scope, {})

Truncate(c) ==
  /\ cli[c].phase = "truncate"
  /\ torn' = TRUE /\ file' = {}
  /\ cli' = [cli EXCEPT ![c].phase = "write"]
  /\ UNCHANGED << policyVars, now, issued, ledger, raced >>

Write(c) ==
  /\ cli[c].phase = "write"
  /\ torn' = FALSE /\ file' = cli[c].list
  /\ cli' = [cli EXCEPT ![c] = Idle]
  /\ UNCHANGED << policyVars, now, issued, ledger, raced >>

\* A command is killed, or its disk is full.
Die(c) ==
  /\ busy(c)
  /\ cli' = [cli EXCEPT ![c] = Idle]
  /\ raced' = TRUE
  /\ UNCHANGED << policyVars, file, torn, now, issued, ledger >>

Tick ==
  /\ now < MaxTime
  /\ now' = now + 1
  /\ UNCHANGED << policyVars, file, torn, cli, issued, ledger, raced >>

-----------------------------------------------------------------------------
(* The policy files: edited by anyone, trusted by usewarden trust.  *)

trust   == trusted' = TRUE
untrust == trusted' = FALSE

Edit ==
  \/ global' \in GlobalDocs /\ UNCHANGED << repoDoc, trusted >>
  \/ repoDoc' \in RepoDocs /\ UNCHANGED << global, trusted >>
  \/ (trust \/ untrust) /\ UNCHANGED << global, repoDoc >>

EditPolicy ==
  /\ Edit /\ policyVars' # policyVars
  /\ UNCHANGED waiverVars

Next ==
  \/ \E c \in Commands :
       \/ \E rule \in Typable, scope \in Roots : addException(c, rule, scope) \/ revokeException(c, rule, scope)
       \/ Truncate(c) \/ Write(c) \/ Die(c)
  \/ Tick
  \/ EditPolicy

Spec == Init /\ [][Next]_vars

\* Everything on its way to the file was granted; commands that did not
\* overlap carry what the ledger holds.
IInv ==
  /\ TypeOK
  /\ ledger \subseteq issued
  /\ loadAllExceptions \subseteq issued
  /\ \A c \in Commands : cli[c].list \subseteq issued
  /\ ~ raced =>
       /\ \A c, d \in Commands : busy(c) /\ busy(d) => c = d
       /\ (\A c \in Commands : ~ busy(c)) => unexpired(loadAllExceptions) = unexpired(ledger)
       /\ \A c \in Commands : busy(c) => unexpired(cli[c].list) = unexpired(ledger)

-----------------------------------------------------------------------------
(* What the hook would say of a call now.  *)

user      == userLayer(global)
effective == loadPolicy(global, repoDoc, trusted)
Final(e)  == evaluateLayer1(e, effective, Here, loadExceptions)

-----------------------------------------------------------------------------
(* Properties *)

\* A waiver that a hook honours was granted by a person and has not outlived
\* its term, whatever commands overlapped, died or rewrote the file since
\* (exceptions.ts:71-73).
WaiversHeal ==
  loadExceptions \subseteq unexpired(issued)

\* As long as no two commands overlapped and none died half way, the file holds
\* exactly the waivers granted and not revoked: none lost, none back from the
\* dead (exceptions.ts:105, the rewrite of the whole file).
LedgerUnlessRaced ==
  ~ raced /\ (\A c \in Commands : ~ busy(c)) => loadExceptions = unexpired(ledger)

\* A call is not let through that the user's own policy refuses, unless a
\* waiver of the rule that refuses it here is running.
Stands(e) ==
  evaluateLayer1Raw(e, user, FALSE).decision = "deny" /\ Final(e).decision = "allow" =>
    LET raw == evaluateLayer1Raw(e, effective, FALSE) IN
    \E g \in unexpired(issued) : g.scope = Here /\ ruleMatches(g.rule, raw.rule)

\* Command rules can be added up when they all block and no id of the user's is
\* taken over by another rule.
AddUp ==
  /\ \A r \in Range(effective.deny) : r.action = "block"
  /\ Range(user.deny) \subseteq Range(effective.deny)

\* A repository that is not trusted only tightens what the file tools may do
\* (load.ts:95-101) ...
FileRefusalsStand ==
  effective # Malformed /\ ~ trusted => \A e \in Calls : e.tool # "bash" => Stands(e)

\* ... and what commands may do, where rules can be added up.
RefusalsStand ==
  /\ FileRefusalsStand
  /\ effective # Malformed /\ ~ trusted /\ AddUp => \A e \in Calls : Stands(e)

\* A statement that a rule refuses alone it refuses in a chain too
\* (layer1.ts:231-240).
EveryStatementIsJudged ==
  effective # Malformed =>
    \A e \in Calls, r \in Range(effective.deny) : \A i \in DOMAIN e.command :
      RuleFires(r, [e EXCEPT !.command = << e.command[i] >>], effective) => RuleFires(r, e, effective)

\* Where the record is copied to is the user's own choice, under a trusted
\* policy too (load.ts:123-134, :221-235).
BackupIsTheUsers ==
  effective # Malformed => effective.backup = user.backup
=============================================================================
