# usewarden in TLA+

Models of usewarden's stateful parts, the TLC runs that check them, and the
theorems about them that TLAPS checks. Paths are relative to the repository;
`store.ts`, `hook.ts` and the like are under `src/src/`. Every definition of a
module that stands for code is listed with its lines in `PROJECT.json` (`map`).

To repeat a run, `tlc -config <run>.cfg <module>.tla` (the module is named in the
table of runs); to check proofs, `tlapm <module>.tla` on a module whose name ends in `Proofs`.

## 1. The system

usewarden guards coding agents (Claude Code, Codex, Cursor, Gemini, Copilot,
OpenCode). There is no daemon: each hook of an agent starts a process that reads
one event, decides in milliseconds, answers and exits. What holds the system
together is a SQLite file, `~/.usewarden`, and the agents' own config files.

| part | state it keeps | operations | where it is hard |
|---|---|---|---|
| Hook pipeline (`hook.ts`, `engine/pipeline.ts`) with the store (`store.ts`) | sessions, events, incidents, counters, the checklist | `runHook`, `handleEvent`, `recordEvent`, `addIncident`, `bump` | every statement commits alone; deliveries run in parallel, are sent twice, are killed by the vendor's timeout |
| Layer 1 (`engine/layer1.ts`, `shlex.ts`) with the uncommitted-work guard (`engine/gitstate.ts`) | none; reads git and the events table | `evaluateLayer1` | the answer is about a file that others go on editing |
| Layer 2 (`engine/judge.ts`, `detached.ts`) | payload files, the call counter, `judge_spend` | `dispatchDetachedJudge`, `cmdJudgeRun`, `maybeJudge` | budgets are read before, and written after, a call that takes seconds; a judge's own CLI fires hooks |
| Corpus backup (`backup.ts`) | snapshots and receipts in a directory | `backupCorpus`, `prune`, `maybeAutoBackup` | several processes in one directory, named by the second; a crash between two files |
| Installer and status (`install/*`, `status.ts`) | the agents' configs, integrity records, config backups | `init`, `uninstall`, `restore-configs`, `status` | users and agents edit the same files, and agents rewrite them by their own schema |
| Policy: loading, merging (`policy/load.ts`, `policy/schema.ts`) | the policy files, the trust file | `loadPolicy`, `mergePolicy` | a repository nobody trusted writes half of the input and may only tighten |
| Seal and drift (`policy/drift.ts`, `status.ts`) | the sealed copy and its metadata | `sealPolicy`, `compareToSeal` | two files written in turn, by commands and by any status |
| Waivers (`exceptions.ts`) | `exceptions.json` | `usewarden allow`, its list and revocation | whole-file read, change, write in place, by any process |
| Shell text (`engine/shlex.ts`, `engine/layer1.ts`) | none | `lex`, heredoc blanking, `.env` segments | says what a shell runs without being a shell |
| Adapters (`adapters/*`, `install/entries.ts`) | none | `parse`, `render` for six agents | six payload shapes, five ways to say no |
| Reports, replay, labels (`metrics.ts`, `receipt.ts`, `week.ts`, `value.ts`, `replay.ts`, `labels.ts`, `telemetry.ts`) | none; queries of the store | `buildMetrics`, `buildReceipt`, `buildWeek`, `buildValueReport`, `buildPayload` | many queries for the same figures, over rows that hooks are still writing |
| Store migration (`store.ts`) | the schema | the constructor | `ALTER` and backfill in separate statements; concurrent openers |
| Telemetry service (`service/src/`) | daily aggregates; limiter and ceiling in memory | `POST /v1/telemetry`, `/v1/stats` | requests overlap between their headers and the end of their body, across midnight and a restart |
| Triage bot (`bots/triage/src/`) | a GitHub thread, labels | `run`, `buildAnswer` | overlapping and rerun workflow runs, a daily cap, paged listings |
| Command line, dashboards, X bot, scripts | none of their own | dispatch, rendering | - |

They interact through shared state only. The pipeline asks the guard, which asks
git and the events table the pipeline has just written. It leaves payload files
for judges, which write incidents and counters to the same store; at the end of a
session it starts a backup of that store, while others write. `init` records in
the store what it wrote into configs; `status` compares the two, and seals the
policy when it finds no seal. A hook reads the policy files and the waivers afresh on
every event. The reports read the rows the pipeline left. The service knows
the clients by their POSTs alone, the bot its earlier runs by their comments.

What makes each part correct:

* **Pipeline and store**: one logical call is recorded, counted and judged once;
  counters do not run ahead of their tables; a refusal is on record before the
  agent hears it.
* **Guard**: an agent's whole-file write does not destroy another's work that git
  cannot restore; an agent is not locked out of files it made.
* **Judge**: budgets hold but for what overlaps; what was paid is on the ledger; a
  judge is not judged.
* **Backup**: what has a snapshot's name was verified; a receipt describes the
  snapshot beside it; retention keeps the newest.
* **Installer**: the user's entries survive, usewarden is registered once or not at
  all, `PROTECTED` means running, an unchanged hook is not called `TAMPERED`.
* **Policy and waivers**: a repository that is not trusted lets nothing through that
  the user's policy refuses; a waiver lasts its term and is neither lost nor revived.
* **Seal**: what a person sealed stays the baseline, and a clean report is true of it.
* **Shell text**: what runs is matched, what is only carried is not.
* **Adapters**: each agent hears the verdict that was reached.
* **Reports**: every surface tells the same number, of live rows, of this record.
* **Triage bot**: a person is answered once; the day's cap holds but for what
  overlaps; no question of several loses its answer to another.
* **Telemetry**: ceiling and limiter count what they should, nobody is refused
  early, nothing thinner than the threshold is published.

The hazards that come with all this, each at its line, are in `PROJECT.json`
(`hazards`), with the properties that would catch them or the reason why none does.

## 2. The modules

Each specification has its bounds as CONSTANTS, with named assumptions, and one action
per operation. `MC<module>` gives it an instance, and the `.cfg` files the values.
Only ShellText, which nothing is proved about, uses recursive operators. Adapters, Reports,
PolicyFile, Layer1 and TriageReply are pure: operators that the state machines
apply to their states.

### HookStore, HookSurfaces, MCHookStore, HookStoreProofs; CallLedger

A delivery is a process that walks through `runHook` and `handleEvent`; **a step is
one SQL statement**, because each commits by itself. `pc` is the next statement;
`fresh`, `verdict` and `reply` are locals of the code; the rest are tables. A row is
named by the delivery that inserted it, so `INSERT OR IGNORE` and the unique
`dedupe_hash` become "no row with this key". `Kill` is the vendor's timeout at any
point, `FailOpen` a statement that throws into `runHook`'s catch, `skipEvent`
also the catch in `recordEvent` that takes any error for a duplicate. Layer 1 is a set of
verdicts (`Verdicts`): a waiver can be granted or expire between two evaluations of one call.

`CallLedger` is the abstract specification: a set of keys that grows by one and a
counter that grows by one and never passes it. The events table with `events_seen`
and the incidents table with `catches` are shown to implement it
(`EventsAreALedger`, `IncidentsAreALedger`), under the mapping `seen <- {Key(d) : d
\in events}`, `counted <- counters["events_seen"]`.

`HookSurfaces` composes HookStore with Adapters and Reports: the rows as a database (`DB`), the
verdicts as the answers agents read, and what is promised of both. The proofs are about it and
the instances are of it.

Left out: reading stdin, the automatic backup (`Backup` has it), the git
tag of an intervention, and the 8 s race of `runHook`: a JavaScript timer does not
run while the synchronous `handleEvent` does, so it cannot cut it short.

### Adapters

What `init` registers with each agent (`planFor`, OpenCode's plugin), how each
adapter finds kind, tool, command and path in a payload (`parse`, `receive`), and how
it says a verdict (`render`). What a vendor sends (`sent`, `fires`) and makes of
the answer (`hears`) is external, from `docs/HOOK-MATRIX.md`. An assumption of
MCHookStore, which TLC evaluates, says that its deliveries are what Claude Code's payloads become.
HookSurfaces takes the calls of the agents' own (`OwnCalls`) through every hook and says each verdict
HookStore reaches to all six agents. What it takes a call to be (`CallAssumption`) is the code's: the
target is under a key the adapter of that agent reads, no part is empty, and a Cursor edit is not one
of them, for that adapter does not find its path (below). The instance has every name of every
tool that the adapters' tables know. Payloads are records of the keys that are
there. Left out: timeouts, transcript paths, working directories.

### Reports

`metrics`, receipt, week, value report, replay, label set and the telemetry payload
as operators of a database, a record of sets of rows. In HookSurfaces the database is
what the hook processes have left at that moment (`DB`), so a report is read between any
two statements of theirs. The limits of the queries (`WEEK_ROWS`, `WEEK_SESSIONS`, `PAYLOAD_ROWS`,
`MAX_RULE_KEYS`) are constants. Words of rules and targets are constants
(`RuleWords`, `TargetWords`); layout is left out.

### UncommittedGuard, MCUncommittedGuard, UncommittedGuardProofs

Rule 2b of `evaluateLayer1`. A file's content is the set of pieces of work in it;
`disk`, `index` and `committed` are the working tree, the staged content and history.
A call goes `asked` (the question whether the session wrote the file, before the row
is inserted), `recorded`, `allowed`, then the agent's tool writes. Humans and other
sessions edit, stage and commit. Paths are compared under their spelling, as in
`sessionHasWrittenTo`. `Serial` says whether everyone waits while a call is under way.

### JudgeBudget, MCJudgeBudget, BudgetProofs

A judge is a process from `judge-run` to its end: read and delete the payload, check
the cap, check the ceiling, send, wait, count the call, record the price, parse,
report. It can die, and a statement can throw, anywhere. `Nested` judges are
dispatched by hooks inside a judge's own CLI and inherit `USEWARDEN_JUDGE_CHILD`.
`peak` and `peakAll` are history: the most judges that were between a check and its
record at one time.

### Backup, MCBackup, BackupProofs

`backupCorpus` and `maybeAutoBackup` as processes in one directory: `VACUUM INTO`, open, count, verify, rename,
receipt, list, prune, one file operation per step. A file is known by who wrote it,
and a name (`tmp`, `db`, `receipt`, by stamp) says which file it leads to, so that two
processes of one second show under the names they share. Hooks add rows meanwhile. The age of the
newest snapshot is at most its stamp's, since a file is written after the second in its name, and
an automatic backup may be skipped whenever it looks (`AUTO_MAX_BYTES`, no source).
`crossed` is history: the names at which two were at work at one time.

### TelemetryService, MCTelemetryService, TelemetryServiceProofs

One event loop: **a callback is an action**. Headers are admitted or refused in one,
the body ends (or the client goes) in another, with other requests, midnight
and restarts between. `Die` is a death between callbacks, `DieFolding` one between
the statements of `fold`. The limiter's timestamps are kept as the set of requests
they belong to. `peak` is history.

### Installer, MCInstaller, InstallerProofs

A config file is a record: whether it exists, whether hooks are switched off, whether
there is a hooks container, the groups of hooks per event, and, for all that is not
hooks, the number of the last edit. A hook is what it runs: the user's own, usewarden
at one of its locations, or something Elsewhere. `init` plans (`planInit`), saves
backups and manifest (`saveBackups`), writes each file (`writeConfig`), notes the
containers it made, and records what it then finds in each file
(`recordIntegrity`); `uninstall` and `restoreConfigs` likewise, one file per step. A write is in
place: it can fail before it, leave the file empty (`Empty`) or cut short (`Tear`, a file that
no longer parses), and the command go on or die there.
`protected` and `tampered` are the verdict of `buildStatus` with usewarden locked, and `migrateRecord` its write.
Between any two steps the user or an agent edits, an agent drops the tags, a file is
left half saved, the command dies. `moveInstall` puts usewarden elsewhere.
`Kept` are the places an old installation is left at, which `status` finds there still.
`disturbed`, `doubtful`, `unrecorded`, `torn`, `theirs` and `aged` are history, to say of which files
a property speaks. Left out: formatting, OpenCode's plugin file, the aggregation of
files into agents, and the gap between `uninstall`'s read and write of one file.

### PolicyFile, Layer1, PolicyGate, MCPolicyGate, PolicyGateProofs

`PolicyFile` has `validatePolicy` and `mergePolicy`: a document is a function from the
sections it sets, possibly blank or bad, to their values; the repository's file is
merged into the user's by whether it is trusted, and a bad document makes the policy
`Malformed`. `Layer1` has the rules in the order the code tries them, for a call
whose statements, targets and branches are given by constants, and the waivers.
`PolicyGate` is the state: the two files, the trust, the clock, and `usewarden allow`
commands that read the waiver file, truncate it and write it, each a step, overlapping
and dying anywhere. The hook has no state of its own: `Final(e)` is what it would say
now. `issued`, `ledger` and `raced` are history.

### PolicySeal, MCPolicySeal, PolicySealProofs

`init`, `reseal` and `status` as processes over the two files of the seal, one file
operation per step, beside edits of the policy. Each of the two is truncated in one step and written
in another (`openCopy`, `writeCopy`, `openMeta`, `writeMeta`), and a process can die, or its write
throw, in between: half a copy (`Half`) reads as any policy or as none, half of the metadata does not
parse. A file is modelled by its bytes, a
hash by the bytes it was taken of. The drift report (`compareToSeal`) runs the probes
the code runs, over Layer1. `baseline` and `disturbed` are history.

### ShellText, MCShellText

A command line is typed piece by piece (words, quoted words, substitutions, operators,
here-documents, line ends), and beside it is kept what the shell makes of it: where
command names are, which text runs, which is only carried. Once complete, the
code's reading of the same text (`lex`, `blankInertText`, `blankForeignHeredocs`, `dotenvSegment`)
is compared with that. Symbols are words, not characters; `plain` and `split`, and
`reads` of a `.env` file, say of which lines a property speaks. Not typed: backslashes, comments, `<( )`, a
redirection from a `.env` file, and a program for `sh -c` that reads one.

### TriageReply, TriageBot, MCTriageBot, BudgetProofs

`TriageReply` is what the bot says: the intent, the questions taken apart, the
ranking of passages, the limits, the reply and its labels, over texts given as what
the code's patterns find in them. JavaScript's sort, filter and Set are written as operators of
sets of positions (`sorted`, `entries`, `filter`, `Distinct`), for the prover has no definition of
`SelectSeq` and `SetToSortSeq`. `TriageBot` is when: threads with comments, workflow
runs in GitHub's concurrency groups (one runs, one waits, a newer one replaces the one
that waits), a run as guard, cap, post, labels, each a call that can fail, with an
answer that is lost, and reruns by hand.

## 3. The runs

| run | module | instance | result |
|---|---|---|---|
| HookStoreFailures | MCHookStore | an edit, its duplicate delivery, the same edit in a demo; kills and `SQLITE_BUSY` anywhere; reports at every moment | 148 461 states, passes |
| HookStoreQuiet | MCHookStore | two prompts, a duplicated edit, the session's end; no failures; verdicts told to six agents | 12 679, passes |
| GuardSerial | MCUncommittedGuard | one file, two sessions, a human, both spellings, 3 pieces of work, calls not overlapping | 1 696 798, passes |
| GuardRetry | MCUncommittedGuard | one session that repeats a refused write | violates `WorkItDidNotDoIsProtected` |
| JudgeBudget | MCJudgeBudget | three judges of a session and one inside a judge's CLI, cap 2, ceiling 2, price 0 or 2, failures | 121 531, passes |
| Backup | MCBackup | an automatic backup and two others that share their second, an old snapshot, `keep` 2, one row added meanwhile; failures; fair | 385 238, passes |
| TelemetryService | MCTelemetryService | three requests of two addresses, two days of two ticks, one restart, ceiling, limit and key table of 1 | 89 709, passes |
| Installer | MCInstaller | one project's config, two events, two edits, one backup, usewarden moved once and its old place left on disk (what `NoFalseAlarm` is harder for), fresh or installed by an older version; failures | 797 574, passes |
| PolicyGate | MCPolicyGate | two terminals and an agent's pipe, two commands, three ticks; 3 user and 4 repository policies; reads, writes and chains of two statements | 165 552, passes |
| PolicySeal | MCPolicySeal | two processes, three commands, one edit; policies that narrow an entry or empty a list, a bad file and none; deaths and failed writes | 688 665, passes |
| ShellText | MCShellText | every command line of up to five pieces | 347 294, passes |
| TriageBot | MCTriageBot | two issues and a discussion, cap 1, listings of 4, two acts of people or reruns; failures | 397 617, passes |

**What the passing runs show.**
`CountersNeverInflate`: no kill, duplicate or throw puts a counter ahead of its table
(the inflation `docs/METRICS.md` tells of); `QuietCountersExact`: without failures
they are exact. `NoCleanReceiptAfterADenial`: an agent that heard "deny" never has a
receipt that says nothing was blocked. `JudgedOncePerCall`, `EventsAreALedger`: see their
comments. `FirstPromptIsTheGoal`: although the goal is read and written in two
statements, a prompt sent after another was answered does not replace it.
`EveryAgentHearsTheVerdict`: by every vendor's name for every tool, a call reaches the engine with
its tool and target, and a verdict is a refusal to each agent exactly when it denies.
`SurfacesAgree`: metrics, receipts, week, value report and telemetry payload count the
same, and the demo is in none; a week beyond the limits of its queries (200 sessions, 500 incidents)
says less, never more. `FiguresAreOfThisRecord`: a figure of the value report is
of rows that are there, live and labelled, and it is the one `usewarden replay` prints. Both are
evaluated once all deliveries have ended; the theorems say the same of every moment.
`EveryBackupEnds`: liveness.
`FirstTouchProtects`: the first whole-file write of a session destroys nothing that
git cannot restore, if calls do not overlap. `OwnFilesStayWritable`: an agent is not
locked out of a file it made, under the path it used or the absolute one.
`CapWithinOverlap` and `CeilingWithinOverlap` give the exact price of overlap for the
two budgets; run one by one, they are hard. `PaidIsOnTheLedger`: see its comment.
`SnapshotsAreVerified`, `ReceiptDescribesItsSnapshot`: whatever fails or is killed, also when a later
backup of one second remakes what an earlier one made; not under a name at which two are at work at
one time, nor, for the receipt, beside a snapshot whose own backup did not get to write one. `NewestAreKept` has
no exception but the second backup of one second, which removes the first one's snapshot.
`FoldedWithinCeiling`: a day gets at most `Ceiling - 1` submissions and twice the most
that overlapped (once at midnight, once at the limit).
`RowsAreRequests`, `PublishedIsOfMany`: also where the process died in the middle
of `fold`.
`NeverTwice`, `ProtectedMeansRunning`, `NoFalseAlarm`, `OthersUntouched`,
`OverwrittenIsBackedUp`, `UninstallLeavesNothing`: over all the orders of commands,
edits and rewrites. The exceptions in them are the code's: what was saved
between `init`'s read and its write is overwritten, what is in a file when it is recorded is the
baseline, whoever wrote it, a write that fails half-way loses what it was to keep, and hooks that were
written and not recorded are called `TAMPERED` if the record that stands is of another place.
`WaiversHeal`: whatever happened to the file, what a hook honours was granted by a
person and runs; `LedgerUnlessRaced`: none is lost or revived unless commands overlap
or die. `RefusalsStand`: an untrusted repository opens nothing of the user's,
for file tools always, for commands where the rules all block and keep their ids
(why these conditions: below).
`BaselineStays`: a status replaces no baseline a person sealed, unless a command
overlapped it, or a write of the two files was killed or failed before it ended. `LossIsReported`:
"nothing lost" is true of the forbidden paths that have a probe, likewise.
`LexAgrees`, `NothingThatRunsIsBlanked`, `CarriedTextIsBlanked`, `DotenvReadsAreSeen`: the
code and the shell agree on every line that is `plain`; the last but for reads that an assignment
behind a runner or a substitution hides, and for operators between quotes.
`NeverTwiceToOnePerson`, `DailyCapWithinOverlap`: whatever runs overlap, fail or are
started again, as long as a listing holds the thread, or the day.
`NoQuestionCrowdedOut`: the passage that fits a question best is quoted, whatever else
was asked.

**Why the bounds are enough.** Two deliveries race for a key and a third, in another
origin, must not be confused with them; a fourth brings no new statement. Three
judges exceed a cap of 2 by one. Three backups, two of one second, and an old
snapshot pass what is kept by one, remake each other's names and prune side by side; a prune that
has several to delete is left to the theorem, `RetentionKeepsNewest`. Three requests of two addresses fill a ceiling
and a limit of 1 while another is read, and evict with a table of one key; two days and two starts are
what a request can span. Two edits are what a rewrite and a change after it take, and
two locations what a move takes; files do not influence each other except through
the backup they share. Two commands are what a lost or revived waiver takes, with a
third party to see it; two processes and a death are what a torn seal takes. Five pieces
are an opener, its document and a command on either side of it. Two issues and two acts
overlap two runs and put a rerun or a second comment under them; a listing of four is
passed by none but what the properties except. A report over two live rows and a demo
row can miss, double or confuse them; `PAYLOAD_ROWS` 1 makes the newest row matter. The conclusions that are proved do not depend on bounds.

**Symmetry** is used for interchangeable sessions, judges and requests, in runs without
liveness only.

**Fairness.** `WF_vars(backup(p))`: one condition per
operating-system process, that a runnable process is run. The code waits for nothing
but SQLite's busy timeout, which is bounded and ends in an answer or a throw, so every step is enabled
until the last. `Kill` has no fairness: nothing relies on it. The other
specifications state no fairness and no liveness: a hook process is straight-line code that waits for
nothing, and would end by the shape of its model.

**Deadlock** is checked, except in JudgeBudget, where all judges
end, TelemetryService and PolicySeal, whose clock and commands are bounded, ShellText, where
a line ends, and TriageBot, where the day's acts are bounded. HookStore and Backup rest in an
explicit `AllDone`.

### Where the code does not do what its documents say

One run is kept as a finding, quoted in `PROJECT.json`: *GuardRetry*. The row of a
refused write makes the session the author of the file, and the retry is let through
(`pipeline.ts:79`).

Others were found with the definition named here, given to TLC as an invariant; the
modules keep the definitions, and these are the counterexamples.

* `BlocksWithinEvents` (MCHookStore, `Deliveries = {edit, retry}`, no failures). The event key names the
  canonical tool and the incident key the vendor's, so an `Edit` retried as `MultiEdit` leaves one
  event and two blocks; `metrics.ts:298` says usewarden "cannot block what it never saw", and
  `doctor` tests that.
* `IncidentSharesItsEventsTimestamp` (MCHookStore, `{edit, twin}`; `store.ts:537-539`): of two racing
  deliveries one may win the event row, the other the incident row.
* `EveryWindowIsSampled` (MCHookStore, the looks; `metrics.ts:124-126`): three calls each add to
  `event_count` before the first reads it; all read 3, and the multiple 2 is passed over.
* `CapIsHard` (JudgeBudget, two judges, cap 1): the "hard" per-session budget is overrun by
  judges that overlap. `CeilingIsHard` (TelemetryService; `server.ts:41`) likewise, by overlapping requests.
* `NeverUnverified` (Backup; `backup.ts:129-130`, "can never find"): of two backups of one second one
  renames into place what the other has only begun to write. `ReceiptNeverStale`: a second backup of one second
  that dies before its receipt stands beside the first one's for good.
* `NeverCriesWolf` (Installer; `status.ts`, "False alarms are how a security tool teaches people to ignore it"):
  `init`, a move, an `init` that dies between its write and its record, and `status` compares the
  hooks it wrote with the old place's record: `TAMPERED`.
* `OwnEditsSurvive` (Installer, a home config, no failures): a group with one hook of usewarden's is
  its own as a whole; a hook that the user put beside it is removed with it.
* `EveryStatementIsJudged` (PolicyGate; `layer1.ts:231-240`): of the statements a rule matches only the
  first is judged, so a harmless one hides another behind it.
* `WhatRunsIsAlwaysScanned`, `ReadsAreAlwaysSeen` (ShellText; `layer1.ts:598-599`, `:605`, `:496`, `:522`): below.

Policy, waivers and seal:

* `load.ts:164-181` says a repository "may ADD rules but never delete or weaken one". A
  repository that is not trusted can replace a block rule of the same id, and its empty
  `forbidden_paths:` or `protected_branches:` empties the list.
* The first rule that matches decides: a `warn` rule in front hides the block rules and
  the `.env` check behind it, and a waiver of the first rule skips the rest too.
* With the user's allowed paths empty, every allowed path of a repository is refused.
* A trusted repository sets `telemetry.enabled`.
* A seal that does not verify (a death or a failed write in the middle of its two files) is taken for none: the next status seals
  what is in force as `first-observed` (`status.ts:357`), and its report is clean of whatever was weakened
  before, where `drift.ts:102` has "reported as UNVERIFIED, never as a pass".
* The drift probes do not see allowed paths that were widened, the uncommitted-work rule
  switched off, a custom rule removed, or a forbidden path narrowed to a glob that still
  matches its probe.

Shell text (the lines that are not `plain`, or `split`):

* An unquoted here-document whose `$(...)` the shell expands is blanked when its reader
  takes data (`layer1.ts:598-599`).
* A shell behind a runner, a shell inside `"$(sh <<...)"`, and a reader on an earlier line of
  the statement are not seen as what reads the document; an opener between quotes is taken for one.
* An operator between quotes splits the `.env` segment (`layer1.ts:516`).

Shell text, on lines of any kind:

* `layer1.ts:496` "Anything not here is treated as a reader", and `:522` "Skip leading VAR=value assignments
  and `sudo`/`env` style prefixes to find the real verb". Assignments are skipped before the prefixes
  and not after them, so the segment of `env X=1 sed p .env` has no name that looks like a command and is
  passed over (`layer1.ts:524-534`); so is that of `$(cmd) .env`, and in `ls $(sed p .env)` the file is read as
  `.env)`. The regular expression of `dotenv-access` catches some of them, by the reader's name.

Adapters:

* `parseCursor` takes neither path nor command out of `tool_input` (`others.ts:117-122`), so a
  `preToolUse` edit whose path is only there reaches Layer 1 without it, against "Layer 1 is the same
  code for every agent" (`docs/HOOK-MATRIX.md:215`). `CallAssumption` leaves Cursor's edits out for this
  reason. A command that Cursor announces by two hooks has two event keys.
* Every fail-open path leaves stdout empty, which Gemini CLI counts as a failed hook.

Reports:

* The value report replays blocked rows, `usewarden replay --labels` all, so a label on a warned
  row gives two coverages. `FiguresAreOfThisRecord` speaks of blocked ones.
* An incident whose own event collapsed can recover another call's action by session
  and timestamp (`store.ts:548`, "verified rather than assumed").
* A session that is resumed after its end is still reported ended. Of two deliveries with a waiver granted
  between them both leave an incident, since the severity is in the key.

Triage bot:

* `conversation.ts:50` "Excludes the triggering comment"; `run.ts` passes all, so rule 6
  never bites on comments. On comment surfaces the bot answers the issue's text, not the comment (`run.ts:177`).
* The opener who was answered and then comments is answered again; so is, on a rerun,
  the opening of a discussion. Listings hold 100 comments, and longer threads and days
  escape guard and cap; comments on discussions are not counted.
* When labelling fails, the rerun stops at `already_commented` and the labels are lost (`run.ts:203`).
* `issue-triage.yml:59-62` says `shouldReply` refuses a bot's issue regardless; `main.ts` passes
  `actorIsBot ?? false`, and only the workflow's `if` refuses it.
* A run for a comment, a bot's and skipped, takes the place of a person's that waits.
* Two questions with the same best passage: the second is listed as unmatched though quoted
  (`answer.ts:142`). `botProseOnly` leaves the "nearest document" lines in, and a phrase in one of them
  has the whole comment refused.

Also seen while modelling:

* The deduplication window has an edge: deliveries 1 ms apart on either side are two events.
* `backupCorpus` counts the source in a later transaction than the snapshot
  (`backup.ts:143`): a hook that commits between makes a sound snapshot "lost rows". The
  second backup of one second removes the first one's snapshot before it has made its own, and
  when it fails there is none (`backup.ts:132-134`).
  A failed rename leaves the `.partial` file (`backup.ts:178`, against line 115).
* A file created under a relative path and rewritten under the absolute one counts as
  someone else's (`store.ts:457`, against `docs/GIT-AWARENESS.md:29`).
* A judge's failed or timed-out calls are neither counted nor recorded
  (`judge.ts:539-556`); a death between answer and record loses paid spend.
* A body that ends after midnight is added to the day it ends in and counted on no day
  or the other (`server.ts:188`), and a death in `fold` leaves a bucket without its rules (`db.ts:99`); `acceptedToday()` reports yesterday until the first request of a day.
* `uninstall`, unlike `init`, takes no backup before it writes a config in place (`installer.ts:508`): a write cut short
  loses the file. An old installation that is still on disk is not stale but somebody else's to `status`,
  which calls the hooks registered there `TAMPERED` after a move (`status.ts:221`).
* After a failed config write `recordIntegrity` makes whatever is there the baseline
  (`installer.ts:410-420`). `uninstall` clears the records of files it failed on, and
  a project's file is then no longer known to it. It leaves `{}` of a file that `init` created.
  A death between the config write and the container's note leaves an empty
  container after `uninstall`. A tagged record of an older version, with the tags dropped before
  the first `status`, is reported `TAMPERED`.

## 4. The theorems

Every theorem holds for all values of the constants under the assumptions named in its module.

* **HookStore** (`HookStoreProofs`): `Inductive`: `Spec => []IInv`. `IInv` is `TypeOK`; what a program
  counter says of its own row and locals (`StageInv`); counters plus the processes that owe a count, at
  most the table (`CountInv`), exactly the table if nothing fails (`OwedExactly`), without which
  `CountersNeverInflate` is not inductive; a verdict past its `INSERT` is on record (`RecordInv`). From
  it `TypeCorrect`, `NeverInflated`, `ExactAtRest`, `DenialsOnRecord`, `JudgedOnce`, `LiveFirstCatch`,
  and the refinements `EventLedgerImplemented` and `IncidentLedgerImplemented`: each statement is a step
  of the ledger or a stutter. `FirstPromptStays`, from `GoalInv`: past the two statements there is a
  goal (`GoalThere`), and a later prompt that is to be written met none, so the first one failed
  (`LaterIsNot`); assumed is `PromptsFollow`, that the later text is sent only after the first answer,
  for the same text sent before it may be the goal already. Assumed throughout: finitely many
  deliveries, `deny` exactly when `block`, the closed lists of kinds and origins. About what is seen
  from outside (`HookSurfaces`): `NoCleanReceipt`, since a process past its first `INSERT` has a session
  on record (`SessionInv`), an answer is the decision of the verdict that was reached (`AnswerInv`), and
  a refusal is on record as a row that blocked, its own or another delivery's of the same session.
  `EveryAnswerIsHeard`: in each agent's dialect an answer reads as a refusal exactly when it was one
  before a tool. `EveryAgentHears` adds the way in: each hook's payload is laid out key by key, and a
  key that stands in it once is found, one that does not is not (`OnlyKey`, `NoKey`), so by any name of
  any tool the call arrives as what it is (`CallIsUnderstood`); assumed is `CallAssumption`.
* **The reports** (`HookStoreProofs`): `EverySurfaceAgrees`. What the deliveries leave is a database
  whose rows have a session on file (`RowsInv`, `OnFile`), at every statement; the rest is about any
  such database. Sums are taken by partial sums over the subsets of a finite set, one element at a time
  (`PartialSums`), which makes a sum of receipts, of rules or of origins the size of the union it counts
  (`ReceiptsAddUp`, `RulesAddUp`, `AttemptsAddUp`); the newest rows under a limit are as many as the limit
  and no more than all (`Newest`, `WeekWithin`, `PayloadWithin`). `ValueReportIsBound`: a replay of the
  record is of the live incidents with the calls stored beside them, never of an event looked up
  (`LiveCorpus`), and each label is of a row that fires, passes or was not ruled on, and of none twice
  (`ScoreOf`, `ThreeParts`). Assumed: a demo's session is its own (`SessionAssumption`), the limits are
  numbers and time began before tick 0 (`LimitAssumption`), label files and rulings are of the shapes
  their readers check (`LabelAssumption`).
* **UncommittedGuard** (`UncommittedGuardProofs`): `FirstTouchSafe`: `Serial /\ Spec =>
  []FirstTouchProtects`, with `GuardInv`: one call at a time, and a call allowed would be allowed still.
  `Serial` is a real assumption: the guard reads the file before the agent writes it, and work saved in
  between is lost (`layer1.ts:195`). `OwnFilesWritable` needs no `Serial`, though its run has it: only
  the session itself adds to what it made, one call at a time, so what the question finds on record is
  all there is (`OwnInv`).
* **JudgeBudget** (`BudgetProofs`): `BudgetInductive`, with the judges past a check paid for in advance
  (`CapInv`, `CeilingInv`, `LedgerInv`); from it `CapOverrun`, `CeilingOverrun`, `PaidRecorded`,
  `NoRecursion`, `PendingUnpaid`. Assumed: finitely many judges, prices at most `MaxCost`.
* **TriageBot** (`BudgetProofs`, as it too counts first and acts later): `NobodyIsAnsweredTwice` and
  `DailyCapHolds`, from `BotInv`. Nobody is answered twice because a run that is past the guard has no
  answer in hand that the thread already holds (`fresh`), though it judged a snapshot: a discussion's
  snapshot is the thread but for what people wrote since, since one run of a thread is in progress at a
  time (`snapshot`), what the bot wrote to a comment stands after it (`after`), and an event is of a
  comment on its thread (`sourced`). The cap: the day's own comments and the runs about to post are
  fewer than the cap and the threads together (`CapHolds`); both theorems speak of listings that hold
  the thread, or the day. Assumed: finitely many threads, a cap above zero. `LabelsAreOfTheList`: no
  answer of the model puts a label of its own on a thread. `NoQuestionIsCrowdedOut` is about what is
  quoted: a sorted set is a list of its elements, each once (`Sorted`, from the ranks of a finite set);
  so the lists of hits come each once (`OrderOf`), the first round is no longer than there are questions
  (`OnceLength`) and no longer than there are slots (`SlotsOf`), and filling the slots leaves out no
  passage of the first candidates but for one of the same key (`Filled`). That a comment is such a
  reply, from a checkout there is, is `EveryoneComposed`, inductive with `BotInv`. Assumed: texts are of
  words, passages have places of their own, weights are natural numbers (`TextAssumption`).
* **TelemetryService** (`TelemetryServiceProofs`): `ServiceInductive`, with the requests split by the
  day they were let in: those carried over midnight and those of the day are bounded by `peak` each
  (`OverlapInv`), and the limiter remembers all that is in its window (`LimiterInv`). From it
  `CeilingOverrun`, `LimiterHolds`, `NoEarlyRefusal`. `RowsCountRequests`, from `RowInv`: a fold raises
  today's bucket by one request that was on no day, and some of its labels, all of them if it is
  answered; from it `PublishedHidesTheFew`. Assumed: finitely many requests, a clock that does not step
  back.

* **PolicyGate** (`PolicyGateProofs`): `WaiversAlwaysHeal` and `LedgerIsKeptUnlessRaced`, from `IInv`
  (what a command carries and what is in the file was granted; alone, a command carries what the ledger
  holds). About the merge and the rules, for every document, path, call and waiver: a lemma per section
  of the policy and one per rule of Layer 1 give `FileRefusalsAlwaysStand` and `BackupIsAlwaysTheUsers`.
  `RefusalsAlwaysStand` adds the commands. The rule lists are merged by a fold, one rule at a time, and
  the induction over it takes the least index at which the claim fails, as a set of numbers
  (`FoldSteps`, `FoldKeepsRules`, `EveryIdIsPut`); `MergeHolds` says what it gives: in the merged list
  each of the user's rules has its place and its id, and blocks if it did. `BlocksAlwaysStay`: so no
  repository that is not trusted drops or downgrades one, though it may put another that blocks under
  its id. Assumed: documents hold what `validatePolicy` lets through (`GateAssumption`, `DocOK`).

* **PolicySeal** (`PolicySealProofs`): `SealTypeCorrect` and `BaselineAlwaysStays`, from `IInv`: a
  process that ran alone since it started still does, the copy holds what it read once it has written it,
  and, undisturbed, both files are the person's seal but in the middle of its two writes, and what a status read
  of the metadata is what is there, so it verifies and is not replaced. Undisturbed is: no processes overlapped since, and no
  write of the two files was killed or failed on the way. `LossAlwaysReported`: a status that reports no loss found every probe it ran refused as
  before. It says so of the probes; that a probe stands for its entry (`ProbesStandForEntries`, after
  `instantiate`, `drift.ts:184-203`) is a hypothesis: the name the code tries an entry on is taken in by
  no other entry but one that takes in the whole of it. TLC evaluates it for the instance; an entry that
  singles out the probes' own names does not satisfy it.

* **Backup** (`BackupProofs`): `BackupTypeCorrect`; `SnapshotsVerified` and `ReceiptsDescribe`, from
  `OwnInv`: under a name that was not crossed at most one backup is at work (`Alone`), so what that one made
  is its own until it is done (`Own`), and what stands there when nobody is was verified by its writer while
  whole (`Placed`), also when it took the place of an earlier backup of the same second. `RetentionKeepsNewest`, from
  `KeptInv`: what a prune has listed, or what is gone, has enough newer snapshots, those counted whose name a
  backup of their second is remaking, and keeps them though others publish, remake and delete, since each deletes the oldest of
  its list. Backups may start in one second or in different ones; assumed is only that they are finitely many and that
  the clock's seconds are numbers.

* **Installer** (`InstallerProofs`): `InstallerTypeCorrect`, and all six properties of its run. The
  edits of the user and the agents are shown *tame* first (`EditsAreTame`): each is one rewrite of a
  config after which usewarden runs no more often and from no later place. Then `OnceInv` (configs,
  plans and backups alike, since what is wrong in a backup comes back) gives `NeverFiresTwice`;
  `PlanInv` and `RecordInv` give `ProtectedIsRunning`: what init records of an undisturbed file is what
  it planned, also when an init died between its writes and its records; with `Latest`, that no copy of a file runs usewarden
  of a later place than its record's unless init wrote it and has not recorded it, and `AgedInv` they give
  `NoFalseAlarmEver`, which excepts just that file while its record is of another place
  (`NeverCriesWolf` is the counterexample); `WriteInv` (what is still to be written is what was read
  and backed up) gives `OthersAlwaysStay` and `OverwrittenAlwaysBackedUp`; `ContainerInv` (a container
  has a maker on record) and `RemoveInv` give `UninstallClears`. Assumed: the user's hooks are not
  usewarden's, and the files had none of usewarden's at first, or an older version's.

Proved and in no run's list, since a run shows nothing the theorem does not: `DenialsOnRecord`,
`LiveFirstCatch`, `IncidentLedgerImplemented`, `EveryAnswerIsHeard`, `NoRecursion`, `PendingUnpaid`, `LimiterHolds`, `NoEarlyRefusal`,
`BackupIsAlwaysTheUsers`, `BlocksAlwaysStay`, `LabelsAreOfTheList`, `SealTypeCorrect`,
`BackupTypeCorrect`, `InstallerTypeCorrect`.

**Model-checked only.** Liveness (`EveryBackupEnds`), as the prover handles neither
fairness nor ENABLED. The four properties of `ShellText` (`LexAgrees`, `NothingThatRunsIsBlanked`,
`CarriedTextIsBlanked`, `DotenvReadsAreSeen`), whose lexer is recursive operators, which take the SMT
backend from every module that reaches them. Every other property of a passing run is stated by a theorem.

## 5. Not modelled

* **Characters**: YAML, globs, regular expressions, redaction, BM25 over real text, the judge's
  prompt and its parser. Models take their results as inputs. So two
  blocked commands that differ in a redacted secret only are "one key" by assumption.
* **Store migration**: once per machine and version; `ALTER`s and a backfill that share nothing with
  the modelled steps but the column `origin`.
* **Consent and transport of telemetry**, the incident wall, the status line, `scan`: reads and printing.
* **The X bot, the operations dashboard, release scripts, the command line**: text, dispatch, or
  sequential jobs run by a person.
* **Interventions**: one `git tag`, with no state that is read again.
* **A power failure** that undoes a commit, a clock that steps back, a full disk (other
  than as a throw).

## 6. The plan

Done, in the order of importance: HookStore with CallLedger and its proofs; Backup with its
proofs; UncommittedGuard; JudgeBudget; TelemetryService; Installer with its proofs; PolicyFile, Layer1 and PolicyGate with
their proofs; PolicySeal with its proof; ShellText; TriageReply and TriageBot with its proofs; Reports and Adapters, composed in
HookSurfaces. Next, in this order:

1. **StoreMigration** (`store.ts:264-330`): concurrent openers and a crash between
   `ALTER` and backfill.
2. **The consent receipt** of the telemetry client against opt-out and crash, and the
   aggregation of files into agents in `buildStatus`.
3. **The lexer** of ShellText as a recursive function of positions, so that `LexAgrees` can be
   proved for lines of any length by the least-index induction of PolicyGateProofs.

As modules come in, properties that a theorem covers make room for theirs.
