---------------------------- MODULE MCExecution ----------------------------
(* Execution on a small instance: one advance, one payment and one       *)
(* purchase on two budget lines.                                           *)
EXTENDS Execution, TLC

CONSTANTS a, p, q, m1, m2, m3, l1, l2, f1, f2

MCLineOf == (a :> l1) @@ (p :> l1) @@ (q :> l2)
MCAmount == (a :> 1) @@ (p :> 1) @@ (q :> 2)
MCDeclarations == {(l1 :> 0) @@ (l2 :> 0), (l1 :> 1) @@ (l2 :> 2)}
=============================================================================
