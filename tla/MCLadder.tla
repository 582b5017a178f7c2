------------------------------ MODULE MCLadder ------------------------------
(* Three confirmations over an allowance of two. *)
EXTENDS Ladder, TLC

CONSTANTS q1, q2, q3

MCQueries == {q1, q2, q3}
MCImprovements == {1, 2}
MCScalars == {1, 2}

Symmetry == Permutations(MCQueries)
=============================================================================
