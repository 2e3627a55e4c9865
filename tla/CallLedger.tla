----------------------------- MODULE CallLedger -----------------------------
(***************************************************************************)
(* What a deduplicated table and its counter promise, whoever writes to    *)
(* them and wherever a writer stops: a key is recorded at most once and    *)
(* never forgotten, and the counter moves by one, never past the number of *)
(* keys on record.  The events table with 'events_seen' is one such        *)
(* ledger and the incidents table with 'catches' another (HookStore).      *)
(***************************************************************************)
EXTENDS Integers, FiniteSets

VARIABLES seen, counted

ledger == <<seen, counted>>

LedgerInit == seen = {} /\ counted = 0

RecordKey ==
  /\ \E k \in seen' : k \notin seen /\ seen' = seen \cup {k}
  /\ UNCHANGED counted

CountKey ==
  /\ counted < Cardinality(seen)
  /\ counted' = counted + 1
  /\ UNCHANGED seen

LedgerSpec == LedgerInit /\ [][RecordKey \/ CountKey]_ledger
=============================================================================
