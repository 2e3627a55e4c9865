------------------------ MODULE MCTelemetryService ------------------------
(* An instance of TelemetryService: two addresses, two shapes of payload.  *)
EXTENDS TelemetryService, TLC

CONSTANTS r1, r2, other

MCFrom     == [r \in Requests |-> IF r = other THEN "b" ELSE "a"]
MCBucketOf == [r \in Requests |-> "linux"]
MCLabelsOf == [r \in Requests |-> IF r = other THEN {} ELSE {"rule"}]

Symmetry == Permutations({r1, r2})
-----------------------------------------------------------------------------
\* A "HARD global ceiling on accepted submissions per UTC day"
\* (service/src/server.ts:41).
CeilingIsHard ==
  \A i \in Boots, d \in Days : Cardinality(FoldedBy(i, d)) <= Ceiling
=============================================================================
