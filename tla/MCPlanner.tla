------------------------------ MODULE MCPlanner ------------------------------
(* TLC instances of Planner: runs, contacts and workers are alike.           *)
EXTENDS Planner, TLC

Symmetry == Permutations(Runs) \cup Permutations(Contacts) \cup Permutations(Workers)

MCShifts == {-1, 0, 1}

\* A cell no day of the instance is on is never looked at.
MCGrid == {Position(d) : d \in Days} \ {<<>>}

\* Bound: one thing out of the ordinary, of a death, a run moved to another
\* date, a shifted send time and a deletion of the recurring campaign.
OneDisturbance ==
    LET moved == {r \in Runs : runs[r].moved}
        away  == IF exists THEN {} ELSE {None}
    IN faults + Cardinality(moved) + Cardinality(away) + shift <= 1

\* Bound: cells the campaign is in at a time.
OneCell == Cardinality(placed) <= 1

=============================================================================
