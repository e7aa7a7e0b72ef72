---------------------------- MODULE MCAppraisal ----------------------------
(* Appraisal on a small instance: sessions and outlines are interchangeable. *)
EXTENDS Appraisal, TLC

CONSTANTS m1, m2, r, s1, s2, o1, o2

MCTeam == [o \in Outlines |-> {}]
Symmetry == Permutations(Outlines) \cup Permutations(Sessions)
=============================================================================
