-------------------------- MODULE MCOutlineReview --------------------------
(* Small instances of OutlineReview for TLC.                               *)
EXTENDS OutlineReview, TLC

\* The people who are not named by another constant are interchangeable.
Symmetry == Permutations((Accounts \ ({Owner} \cup ProposalTeam)))
=============================================================================
