-------------------------- MODULE MCPublications ---------------------------
(* Two people, one of them a woman; lists of one to three authors; one type *)
(* of result for each way the hours are counted.                           *)
EXTENDS Publications

CONSTANTS a, b, q1, q2

Symmetry == Permutations(Requests)

Entry(order, profile, name, top, corr, aff, pct) ==
    [id |-> 0, order |-> order, profile |-> profile, name |-> name,
     top |-> top, corr |-> corr, aff |-> aff, pct |-> pct]

MCLists == {
    \* a single author who is linked to nobody
    <<Entry(1, NoOne, NoOne, FALSE, FALSE, "UDN_ONLY", 0)>>,
    \* both, with roles and percentages
    <<Entry(1, a, a, TRUE, FALSE, "UDN_ONLY", 60), Entry(2, b, b, FALSE, TRUE, "MIXED", 40)>>,
    \* one person twice, once only by name, and a stranger from outside
    <<Entry(1, NoOne, a, FALSE, TRUE, "UDN_ONLY", 0), Entry(2, a, a, FALSE, FALSE, "UDN_ONLY", 0),
      Entry(3, NoOne, NoOne, TRUE, FALSE, "OUTSIDE", 0)>>,
    \* nobody is main, and one has done it all
    <<Entry(1, a, a, FALSE, FALSE, "UDN_ONLY", 100), Entry(2, b, b, FALSE, FALSE, "MIXED", 0)>> }

Kinds == [fixed |-> "FIXED", timesA |-> "MULTIPLY_A", talk |-> "MULTIPLY_A",
          points |-> "HDGSNN_POINTS_TO_HOURS", project |-> "MULTIPLY_C", book |-> "BONUS_ADD"]
MCTypes == DOMAIN Kinds
MCRule == [t \in MCTypes |->
    [kind |-> Kinds[t], hours |-> 70000, bonus |-> 30000,
     c |-> [EXCELLENT |-> 110, PASS_ON_TIME |-> 100, PASS_LATE |-> 0],
     scope |-> IF t = "talk" THEN "authors" ELSE "corresponding",
     article |-> t \notin {"project", "book"}]]
Work(t) == [type |-> t, score |-> 25, inPeriod |-> TRUE,
            grade |-> IF t = "project" THEN "PASS_LATE" ELSE NoOne]
MCWorks == {[Work(t) EXCEPT !.inPeriod = t # "fixed"] : t \in MCTypes}
=============================================================================
