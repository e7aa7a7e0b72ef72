------------------------------ MODULE Execution ------------------------------
(***************************************************************************)
(* A project in execution: its contract, its money and its final case,     *)
(* which meet in execution_status and in the ledger. A step is a request   *)
(* to one of the three.                                                    *)
(***************************************************************************)
EXTENDS Contract, FinalCase

vars == <<exec, contractVars, ledgerVars, finalVars>>

\* The outline is SAN_SANG_THUC_HIEN with module 5 opened, and stays so.
Init == exec = None /\ ContractInit /\ LedgerInit /\ FinalInit

Next ==
    \/ ContractNext /\ UNCHANGED <<ledgerVars, finalVars>>
    \/ LedgerNext /\ UNCHANGED <<contractVars, finalVars>>
    \/ FinalNext /\ UNCHANGED contractVars

Spec == Init /\ [][Next]_vars

----------------------------------------------------------------------------
(* Properties.                                                             *)

\* Every column has a value of its type; in particular a settlement declares
\* an amount for every budget line.
TypeOK ==
    /\ exec \in ExecStatus \cup {None}
    /\ contract \in ContractStatus \cup {None}
    /\ {allocated, confirmed, published, agreed, overtaken} \subseteq BOOLEAN
    /\ voucher \in [Vouchers -> {None} \cup PaymentStatus \cup PurchaseStatus]
    /\ posted \in [Vouchers -> Nat]
    /\ desk \in [Officers -> {None} \cup Vouchers \cup Declarations]
    /\ {open, locked, secretaryOk, chairOk, ack, surplus} \subseteq BOOLEAN
    /\ panel \in Panels \cup {{}} /\ sheets \subseteq Members
    /\ class \in Classification \cup {None}
    /\ explanation \in ExplanationStatus \cup {None}
    /\ settlement \in SettlementStatus \cup {None}
    /\ declared \in Declarations \cup {None}
    /\ settled \in Declarations \cup {None}
    /\ compared = None \/ DOMAIN compared = Lines
    /\ liquidation \in LiquidationStatus \cup {None}

\* The ledger holds one entry for every voucher that is done and none for any
\* other, whatever way the voucher took through the offices.
PaidOnce == \A v \in Vouchers : posted[v] = IF Done(v) THEN 1 ELSE 0

\* BGH and the investigator sign the text and the budget lines that the
\* investigator confirmed: nothing is edited behind a confirmation, and a
\* returned contract is confirmed anew.
SignedAsConfirmed ==
    contract \in {"HOP_DONG_CHO_KY", "HOP_DONG_CHO_PHAT_HANH", "HOP_DONG_DA_KY"}
        => allocated /\ confirmed /\ agreed

\* Locked minutes are those of the council that is on record: each of its
\* reviewers handed in a sheet, also after the minutes were reopened and the
\* council was changed.
JudgedByItsCouncil == locked => panel # {} /\ panel \subseteq sheets

\* A project is settled, liquidated and completed only with locked minutes
\* that accept it, or with an explanation that both the secretary and the
\* chair confirmed after it was last handed in.
AcceptedProperly ==
    exec \in {"DGCK_CHO_QUYET_TOAN", "DGCK_CHO_THANH_LY", "HOAN_THANH"} =>
        /\ locked
        /\ \/ class = "DAT_YEU_CAU"
           \/ explanation = "XONG" /\ secretaryOk /\ chairOk

\* Accounts are closed at the amounts on the settlement form; where these
\* differ from the ledger as it was when the finance office compared the two,
\* the science office acknowledged that very form. What is booked after the
\* comparison is not looked at.
VarianceAcknowledged ==
    [][settled' # settled =>
        /\ settled' = declared
        /\ settled' # compared => acked = settled']_vars

\* The liquidation record that is published, signed by the investigator and
\* in force is the one BGH signed, and it prints the settled amounts.
SignedAsPrinted ==
    liquidation \in {"TL_CHO_PHAT_HANH", "TL_CHO_CNNV", "TL_HIEU_LUC"} =>
        signedRecord = record /\ record.settled = settled

(* The final case implements ProjectClosing.                               *)

PhaseOf ==
    [s \in ExecStatus \cup {None} |->
        CASE s = "DGCK_CHO_QUYET_TOAN" -> "accepted"
          [] s = "DGCK_CHINH_SUA"      -> "repair"
          [] s = "DGCK_KHONG_DAT"      -> "failed"
          [] s = "DGCK_DINH_CHI"       -> "stopped"
          [] s = "DGCK_CHO_THANH_LY"   -> "settled"
          [] s = "HOAN_THANH"          -> "done"
          [] OTHER                     -> "running"]

Closing == INSTANCE ProjectClosing WITH
    Accounts <- Declarations,
    phase    <- PhaseOf[exec],
    answered <- explanation # None \/ declared # None,
    accounts <- settled

\* Whatever requests come, the project closes as ProjectClosing says: an
\* answered verdict stands, accounts are closed once, nothing leaves the end;
\* except that the signature of the contract may overtake a verdict, once,
\* after which the project is not judged again.
ClosesAsPromised == Closing!Spec
=============================================================================
