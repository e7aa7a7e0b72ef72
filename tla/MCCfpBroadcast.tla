--------------------------- MODULE MCCfpBroadcast ---------------------------
(* CfpBroadcast for two addresses: queue with fallback, queue alone with an  *)
(* allowlist (a worker may die twice), no queue, and no way to send at all.  *)
EXTENDS CfpBroadcast

CONSTANTS a1, a2

Deploy(q, s, a, f) == [queue |-> q, sync |-> s, allowed |-> a, faults |-> f]
MCConfs == {Deploy(TRUE, TRUE, {a1, a2}, 1), Deploy(TRUE, FALSE, {a1}, 2),
            Deploy(FALSE, TRUE, {a1, a2}, 1), Deploy(FALSE, FALSE, {a1}, 0)}
=============================================================================
