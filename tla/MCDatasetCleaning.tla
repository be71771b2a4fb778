-------------------------- MODULE MCDatasetCleaning --------------------------
EXTENDS DatasetCleaning

CONSTANTS e1, e2, r1, r2, r3, d1, d2, d3

Both       == {e1, e2}
Runs       == {r1, r2, r3}
Decisions  == {d1, d2, d3}
Lists      == [t \in Runs |-> IF t = r2 THEN {e1} ELSE Both]
Overwrites == {r3}
Subjects   == [d \in Decisions |-> IF d = d3 THEN e2 ELSE e1]
=============================================================================
