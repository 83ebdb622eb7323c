------------------------------ MODULE MCLists -------------------------------
(* A TLC instance of Lists: two files that share addresses.                *)
EXTENDS Lists, TLC

CONSTANTS l1, l2, ann, bob, cid

MCFileOf == (l1 :> <<ann, bob, cid>>) @@ (l2 :> <<BadRow, bob, ann, bob>>)

Symmetry == Permutations(Workers)

\* A process dies only while one of the lists is not uploaded yet.
FaultsOnOneList == faults > 0 => \E l \in Lists : list[l].status = "unused"

=============================================================================
