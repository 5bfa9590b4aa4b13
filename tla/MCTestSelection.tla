--------------------------- MODULE MCTestSelection -----------------------------
(* Six tests in four suites, for TLC. *)
EXTENDS TestSelection

CONSTANTS a1, a2, a3, b, d, e, A, B, D, E    \* model values

MCSuiteOf == [t \in Tests |-> IF t \in {a1, a2, a3} THEN A ELSE
                              IF t = b THEN B ELSE IF t = d THEN D ELSE E]
(* a1 is below the two others in the source, which are on one line *)
MCLocation == [t \in Tests |-> IF t = a1 THEN 2 ELSE 1]
MCFilters == {Tests, Tests \ {a1, d}, {}}
MCEnvironments == {[total |-> -1, index |-> -1], [total |-> 2, index |-> 1],
                   [total |-> 2, index |-> 2], [total |-> -1, index |-> 0],
                   [total |-> 1, index |-> 0]}
================================================================================
