---------------------------- MODULE MCSelection ----------------------------
(* Two proposals and two calls: one proposal may be given a level of either *)
(* call, the other only of the first. Approvals are interchangeable.        *)
EXTENDS Selection, TLC

CONSTANTS p1, p2, c1, c2, r1, r2

MCFits == p1 :> {c1, c2} @@ p2 :> {c1}
Symmetry == Permutations(Requests)
=============================================================================
