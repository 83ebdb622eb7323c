------------------------------ MODULE MCSendOne ------------------------------
(* TLC instances of SendOne: workers are alike, and so are recipients.      *)
EXTENDS SendOne, TLC

Symmetry == Permutations(Workers) \cup Permutations(Recipients)

\* Two disturbances in a run: faults, suppressions, and the operator's say.
Disturbances ==
    faults + Cardinality(suppressed)
        + IF cstatus \in {"sending", "completed"} THEN 0 ELSE 1

TwoDisturbances == Disturbances <= 2

=============================================================================
