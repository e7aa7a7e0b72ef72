---------------------------- MODULE MCAdjustment ----------------------------
(* A project with one milestone or none, and requests of any role in flight.*)
EXTENDS Adjustment, TLC

Ask1(end, owner, plan, budget) ==
    [end |-> end, owner |-> owner, plan |-> plan, budget |-> budget]
P(x) == [s \in Slots |-> x]

MCForms == {Ask1(2, Keep, Keep, Keep), Ask1(Keep, 2, P(2), 7)}
MCContracts ==
    {[end |-> 1, owner |-> 1, plan |-> P(x), budget |-> 5, extensions |-> 0] :
        x \in {1, Undated, None}}
MCSymmetry == Permutations(Desks) \cup Permutations(Runs)

\* Bound: either requests are in flight together, then without reports, reminders
\* and the end of the project, and after the last approval only those it
\* overtook are finished; or the investigator writes a single request, whose steps
\* come one after the other and are not lost half-way through the periods.
MCBound ==
    \/ /\ day = Start /\ phase # "evaluation" /\ contract.plan = P(1)
       /\ \A k \in Periods : report[k] = "BCTD_DRAFT"
       /\ \A j \in Runs : ~job[j].on
       /\ \A m \in DOMAIN mailed : mailed[m] = 0
       /\ Len(applied) = MaxApprovals =>
             \A d \in Desks : req[d] = Idle \/ Refreshing(d)
                              \/ (req[d].op # "lead" /\ req[d].late)
    \/ /\ next <= 2 /\ stale = {} /\ ~lost
       /\ \A d, e \in Desks : req[d] # Idle /\ req[e] # Idle => d = e
       /\ \A d \in Desks : req[d].op \in {"save", "pkh", "approve", "reject"} => ~req[d].late
=============================================================================
