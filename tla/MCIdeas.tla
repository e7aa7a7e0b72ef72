------------------------------ MODULE MCIdeas ------------------------------
(* One idea in up to two sessions, two members, two requests at a time.    *)
EXTENDS Ideas, TLC

CONSTANTS i1, s1, s2, m1, m2, c1, c2

Symmetry == Permutations(Ideas) \cup Permutations(Members)
                \cup Permutations(Meetings) \cup Permutations(Clients)
=============================================================================
