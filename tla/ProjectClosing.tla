--------------------------- MODULE ProjectClosing ---------------------------
(***************************************************************************)
(* What the final evaluation promises, without its steps: a council judges *)
(* the project, its verdict stands once the project has answered it, the   *)
(* accounts are closed once, and a stopped project stays stopped.          *)
(*                                                                         *)
(* The evaluation may begin before the contract is signed. A signature     *)
(* that comes after the verdict overtakes it: the project runs again and   *)
(* is never judged again, and of what was under way only the closing of    *)
(* the accounts and the last signature still take effect.                  *)
(***************************************************************************)
CONSTANTS None, Accounts   \* the amounts accounts may be closed at

VARIABLES
    phase,      \* how far the project is
    answered,   \* an explanation or a settlement was handed in
    accounts,   \* the amounts settled; None before
    overtaken   \* the signature of the contract has overtaken a verdict

vars == <<phase, answered, accounts, overtaken>>

Verdicts == {"accepted", "repair", "failed"}

Init ==
    /\ phase = "running"
    /\ answered = FALSE
    /\ accounts = None
    /\ overtaken = FALSE

Overtake ==
    /\ phase # "running" /\ ~overtaken
    /\ phase' = "running"
    /\ overtaken' = TRUE
    /\ UNCHANGED <<answered, accounts>>

OvertakenRun == overtaken /\ phase = "running"

Judge ==
    /\ phase = "running" /\ ~overtaken
    /\ phase' \in Verdicts
    /\ UNCHANGED <<answered, accounts, overtaken>>

\* A council may meet again as long as its verdict was not answered.
JudgeAgain ==
    /\ phase \in Verdicts /\ ~answered
    /\ phase' = "running"
    /\ UNCHANGED <<answered, accounts, overtaken>>

Answer ==
    /\ phase \in {"accepted", "repair"}
    /\ answered' = TRUE
    /\ UNCHANGED <<phase, accounts, overtaken>>

Repair ==
    /\ phase = "failed"
    /\ phase' = "repair"
    /\ UNCHANGED <<answered, accounts, overtaken>>

Stop ==
    /\ phase = "failed"
    /\ phase' = "stopped"
    /\ UNCHANGED <<answered, accounts, overtaken>>

Accept ==
    /\ phase = "repair" /\ answered
    /\ phase' = "accepted"
    /\ UNCHANGED <<answered, accounts, overtaken>>

CloseAccounts ==
    /\ phase = "accepted" \/ OvertakenRun
    /\ answered /\ accounts = None
    /\ phase' = "settled"
    /\ accounts' \in Accounts
    /\ UNCHANGED <<answered, overtaken>>

Finish ==
    /\ phase = "settled" \/ OvertakenRun
    /\ accounts # None
    /\ phase' = "done"
    /\ UNCHANGED <<answered, accounts, overtaken>>

Next ==
    \/ Judge \/ JudgeAgain \/ Answer \/ Repair \/ Stop \/ Accept
    \/ CloseAccounts \/ Finish \/ Overtake

Spec == Init /\ [][Next]_vars
=============================================================================
