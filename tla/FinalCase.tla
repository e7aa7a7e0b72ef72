------------------------------ MODULE FinalCase ------------------------------
(***************************************************************************)
(* The final evaluation of a project, its settlement and the liquidation   *)
(* of its contract: app/services/project_final_service.ts. The row of      *)
(* project_final_cases is spread over the variables below; one action is   *)
(* one request, except the finance office's acceptance of a settlement,    *)
(* which is read and written in two steps like that of a voucher.          *)
(***************************************************************************)
EXTENDS BudgetLedger

CONSTANTS
    Members,        \* accounts of the people who may sit in the council
    Panels,         \* the sets of reviewers that requests propose
    Declarations    \* settlements that requests declare: line -> amount

Classification == {"DAT_YEU_CAU", "CAN_BO_SUNG", "KHONG_DAT"}
ExplanationStatus == {"CHO_THU_KY", "CHO_CHU_TICH", "TRA_LAI", "XONG"}
SettlementStatus == {"QT_DRAFT", "QT_CHO_PKH", "QT_BS", "QT_CHO_TC", "QT_DONE"}
LiquidationStatus ==
    {"TL_DRAFT", "TL_CHO_BGH", "TL_CHO_PHAT_HANH", "TL_CHO_CNNV",
     "TL_HIEU_LUC"}

ASSUME FinalAssumption ==
    /\ Panels \subseteq SUBSET Members
    /\ Declarations \subseteq [Lines -> Nat]
    /\ None \notin Declarations
    /\ None \notin Classification \cup ExplanationStatus
    /\ None \notin SettlementStatus \cup LiquidationStatus
    /\ Declarations \cap Vouchers = {}

VARIABLES
    open,           \* the office gave notice, or the end date is 30 days away
    panel,          \* the PHAN_BIEN members of the council
    sheets,         \* who has handed in an evaluation sheet (BM.12a)
    locked,         \* minutes_locked
    class,          \* classification in the minutes
    explanation,    \* explanation_status
    secretaryOk, chairOk,   \* secretary_confirmed_at, chair_confirmed_at
    settlement,     \* settlement_status
    declared,       \* settlement_lines
    ack,            \* variance_ack
    acked,          \* history: the settlement_lines variance_ack was set for
    settled,        \* SETTLED entries of the ledger
    compared,       \* history: what had been spent by line when the finance
                    \* office compared the form it is accepting with it
    surplus,        \* surplus_handling is chosen
    liquidation,    \* liquidation_status
    record,         \* paid and settled totals printed in the liquidation record
    signedRecord    \* history: the record BGH signed

evaluationVars == <<open, panel, sheets, locked, class>>
explanationVars == <<explanation, secretaryOk, chairOk>>
settlementVars == <<settlement, declared, ack, acked, settled, compared>>
liquidationVars == <<surplus, liquidation, record, signedRecord>>
finalVars == <<evaluationVars, explanationVars, settlementVars, liquidationVars>>

\* What writeLiquidationFile prints: everything paid out, and the settlement.
Figures == [paid |-> Booked(Vouchers), settled |-> settled]

FinalInit ==
    /\ open = FALSE
    /\ panel = {}
    /\ sheets = {}
    /\ locked = FALSE
    /\ class = None
    /\ explanation = None
    /\ secretaryOk = FALSE
    /\ chairOk = FALSE
    /\ settlement = None
    /\ declared = None
    /\ ack = FALSE
    /\ acked = None
    /\ settled = None
    /\ compared = None
    /\ surplus = FALSE
    /\ liquidation = None
    /\ record = None
    /\ signedRecord = None

----------------------------------------------------------------------------
(* The dossier.                                                            *)

Notify ==
    /\ exec \in {"DANG_THUC_HIEN", "DGCK_DRAFT", "DGCK_BS"}
    /\ open' = TRUE
    /\ UNCHANGED <<exec, ledgerVars, panel, sheets, locked, class,
                   explanationVars, settlementVars, liquidationVars>>

\* The clock: thirty days before the end of the contract.
EndDateNears ==
    /\ ~open
    /\ open' = TRUE
    /\ UNCHANGED <<exec, ledgerVars, panel, sheets, locked, class,
                   explanationVars, settlementVars, liquidationVars>>

\* The contract need not be signed yet.
SaveDossier(submit) ==
    /\ exec \in {None, "DANG_THUC_HIEN", "DGCK_DRAFT", "DGCK_BS"}
    /\ submit => open
    /\ exec' = IF submit THEN "DGCK_CHO_PKH"
               ELSE IF exec = "DGCK_BS" THEN exec ELSE "DGCK_DRAFT"
    /\ UNCHANGED <<ledgerVars, finalVars>>

PkhDossier(accept) ==
    /\ exec = "DGCK_CHO_PKH"
    /\ exec' = IF accept THEN "DGCK_HOP_HD" ELSE "DGCK_BS"
    /\ UNCHANGED <<ledgerVars, finalVars>>

(* The council and its minutes (BM.12).                                    *)

SaveCouncil(p) ==
    /\ exec = "DGCK_HOP_HD" /\ ~locked
    /\ panel' = p
    /\ UNCHANGED <<exec, ledgerVars, open, sheets, locked, class,
                   explanationVars, settlementVars, liquidationVars>>

SaveSheet(u) ==
    /\ exec = "DGCK_HOP_HD" /\ ~locked
    /\ u \in panel
    /\ sheets' = sheets \cup {u}
    /\ UNCHANGED <<exec, ledgerVars, open, panel, locked, class,
                   explanationVars, settlementVars, liquidationVars>>

\* Where the classification sends the project.
Verdict(c) == CASE c = "DAT_YEU_CAU" -> "DGCK_CHO_QUYET_TOAN"
                [] c = "CAN_BO_SUNG" -> "DGCK_CHINH_SUA"
                [] OTHER             -> "DGCK_KHONG_DAT"

SaveMinutes(c) ==
    /\ exec = "DGCK_HOP_HD" /\ ~locked
    /\ panel # {} /\ panel \subseteq sheets
    /\ locked' = TRUE
    /\ class' = c
    /\ exec' = Verdict(c)
    /\ settlement' = IF c = "DAT_YEU_CAU" THEN "QT_DRAFT" ELSE settlement
    /\ explanation' = IF c = "CAN_BO_SUNG" THEN None ELSE explanation
    /\ UNCHANGED <<ledgerVars, open, panel, sheets, secretaryOk, chairOk,
                   declared, ack, acked, settled, compared,
                   liquidationVars>>

\* Mutant: only the settlement is looked at.
CanReopenUnsettled ==
    /\ locked
    /\ declared = None
    /\ settlement \in {None, "QT_DRAFT"}
    /\ exec \in {"DGCK_CHO_QUYET_TOAN", "DGCK_CHINH_SUA", "DGCK_KHONG_DAT"}

\* canReopenFinalMinutes
CanReopen ==
    /\ locked
    /\ declared = None
    /\ explanation = None
    /\ settlement \in {None, "QT_DRAFT"}
    /\ exec \in {"DGCK_CHO_QUYET_TOAN", "DGCK_CHINH_SUA", "DGCK_KHONG_DAT"}

ReopenMinutes ==
    /\ CanReopen
    /\ locked' = FALSE
    /\ class' = None
    /\ settlement' = None
    /\ explanation' = None
    /\ exec' = "DGCK_HOP_HD"
    /\ UNCHANGED <<ledgerVars, open, panel, sheets, secretaryOk, chairOk,
                   declared, ack, acked, settled, compared,
                   liquidationVars>>

DecideFail(retry) ==
    /\ exec = "DGCK_KHONG_DAT"
    /\ exec' = IF retry THEN "DGCK_CHINH_SUA" ELSE "DGCK_DINH_CHI"
    /\ UNCHANGED <<ledgerVars, finalVars>>

----------------------------------------------------------------------------
(* The explanation (BM.13) of a project that has to be repaired.           *)

SubmitExplanation ==
    /\ exec = "DGCK_CHINH_SUA"
    /\ explanation \in {None, "TRA_LAI"}
    /\ explanation' = "CHO_THU_KY"
    /\ secretaryOk' = FALSE
    /\ chairOk' = FALSE
    /\ UNCHANGED <<exec, ledgerVars, evaluationVars, settlementVars,
                   liquidationVars>>

SecretaryConfirms ==
    /\ exec = "DGCK_CHINH_SUA" /\ explanation = "CHO_THU_KY"
    /\ explanation' = "CHO_CHU_TICH"
    /\ secretaryOk' = TRUE
    /\ UNCHANGED <<exec, chairOk, ledgerVars, evaluationVars, settlementVars,
                   liquidationVars>>

\* Mutant: the chair need not wait for the secretary.
ChairConfirmsFirst ==
    /\ exec = "DGCK_CHINH_SUA"
    /\ explanation \in {"CHO_THU_KY", "CHO_CHU_TICH"}
    /\ explanation' = "XONG"
    /\ chairOk' = TRUE
    /\ exec' = "DGCK_CHO_QUYET_TOAN"
    /\ settlement' = IF settlement = None THEN "QT_DRAFT" ELSE settlement
    /\ UNCHANGED <<secretaryOk, ledgerVars, evaluationVars, declared, ack,
                   acked, settled, compared, liquidationVars>>

ChairConfirms ==
    /\ exec = "DGCK_CHINH_SUA" /\ explanation = "CHO_CHU_TICH"
    /\ explanation' = "XONG"
    /\ chairOk' = TRUE
    /\ exec' = "DGCK_CHO_QUYET_TOAN"
    /\ settlement' = IF settlement = None THEN "QT_DRAFT" ELSE settlement
    /\ UNCHANGED <<secretaryOk, ledgerVars, evaluationVars, declared, ack,
                   acked, settled, compared, liquidationVars>>

ReturnExplanation ==
    /\ exec = "DGCK_CHINH_SUA"
    /\ explanation \in {"CHO_THU_KY", "CHO_CHU_TICH"}
    /\ explanation' = "TRA_LAI"
    /\ secretaryOk' = FALSE
    /\ chairOk' = FALSE
    /\ UNCHANGED <<exec, ledgerVars, evaluationVars, settlementVars,
                   liquidationVars>>

----------------------------------------------------------------------------
(* The settlement.                                                         *)

\* Mutant: an acknowledgement survives a new declaration.
SaveSettlementKeepsAck(d, submit) ==
    /\ exec = "DGCK_CHO_QUYET_TOAN"
    /\ settlement \in {None, "QT_DRAFT", "QT_BS"}
    /\ declared' = d
    /\ settlement' = IF submit THEN "QT_CHO_PKH" ELSE "QT_DRAFT"
    /\ UNCHANGED <<exec, ledgerVars, evaluationVars, explanationVars, ack,
                   acked, settled, compared, liquidationVars>>

SaveSettlement(d, submit) ==
    /\ exec = "DGCK_CHO_QUYET_TOAN"
    /\ settlement \in {None, "QT_DRAFT", "QT_BS"}
    /\ declared' = d
    /\ ack' = FALSE
    /\ settlement' = IF submit THEN "QT_CHO_PKH" ELSE "QT_DRAFT"
    /\ UNCHANGED <<exec, ledgerVars, evaluationVars, explanationVars, acked,
                   settled, compared, liquidationVars>>

PkhSettlement(accept) ==
    /\ settlement = "QT_CHO_PKH"
    /\ settlement' = IF accept THEN "QT_CHO_TC" ELSE "QT_BS"
    /\ UNCHANGED <<exec, ledgerVars, evaluationVars, explanationVars, declared,
                   ack, acked, settled, compared, liquidationVars>>

AckVariance ==
    /\ settlement \in {"QT_CHO_PKH", "QT_CHO_TC"}
    /\ ack' = TRUE
    /\ acked' = declared
    /\ UNCHANGED <<exec, ledgerVars, evaluationVars, explanationVars,
                   settlement, declared, settled, compared,
                   liquidationVars>>

TcReturnsSettlement(f) ==
    /\ desk[f] = None
    /\ exec = "DGCK_CHO_QUYET_TOAN" /\ settlement = "QT_CHO_TC"
    /\ settlement' = "QT_BS"
    /\ UNCHANGED <<exec, ledgerVars, evaluationVars, explanationVars, declared,
                   ack, acked, settled, compared, liquidationVars>>

TcReadsSettlement(f) ==
    /\ desk[f] = None
    /\ exec = "DGCK_CHO_QUYET_TOAN" /\ settlement = "QT_CHO_TC"
    /\ declared # SpentByLine => ack
    /\ desk' = [desk EXCEPT ![f] = declared]
    /\ compared' = SpentByLine
    /\ UNCHANGED <<exec, voucher, posted, evaluationVars, explanationVars,
                   settlement, declared, ack, acked, settled, liquidationVars>>

TcSettles(f) ==
    /\ desk[f] \in Declarations
    /\ settled' = desk[f]
    /\ settlement' = "QT_DONE"
    /\ liquidation' = "TL_DRAFT"
    /\ exec' = "DGCK_CHO_THANH_LY"
    /\ desk' = [desk EXCEPT ![f] = None]
    /\ compared' = None
    /\ UNCHANGED <<voucher, posted, evaluationVars, explanationVars, declared,
                   ack, acked, surplus, record, signedRecord>>

----------------------------------------------------------------------------
(* The liquidation (BM.14).                                                *)

SaveLiquidation ==
    /\ exec = "DGCK_CHO_THANH_LY" /\ liquidation \in {None, "TL_DRAFT"}
    /\ surplus' = TRUE
    /\ liquidation' = "TL_DRAFT"
    /\ UNCHANGED <<exec, ledgerVars, evaluationVars, explanationVars,
                   settlementVars, record, signedRecord>>

\* submitLiquidation does not look at liquidation_status: a record that was
\* signed or published goes back to BGH.
SubmitLiquidation ==
    /\ exec = "DGCK_CHO_THANH_LY" /\ surplus
    /\ record' = Figures
    /\ liquidation' = "TL_CHO_BGH"
    /\ UNCHANGED <<exec, ledgerVars, evaluationVars, explanationVars,
                   settlementVars, surplus, signedRecord>>

BghLiquidation(accept) ==
    /\ liquidation = "TL_CHO_BGH"
    /\ liquidation' = IF accept THEN "TL_CHO_PHAT_HANH" ELSE "TL_DRAFT"
    /\ signedRecord' = IF accept THEN record ELSE signedRecord
    /\ UNCHANGED <<exec, ledgerVars, evaluationVars, explanationVars,
                   settlementVars, surplus, record>>

PublishLiquidation ==
    /\ liquidation = "TL_CHO_PHAT_HANH"
    /\ liquidation' = "TL_CHO_CNNV"
    /\ UNCHANGED <<exec, ledgerVars, evaluationVars, explanationVars,
                   settlementVars, surplus, record, signedRecord>>

CnnvLiquidation ==
    /\ liquidation = "TL_CHO_CNNV"
    /\ liquidation' = "TL_HIEU_LUC"
    /\ exec' = "HOAN_THANH"
    /\ UNCHANGED <<ledgerVars, evaluationVars, explanationVars, settlementVars,
                   surplus, record, signedRecord>>

----------------------------------------------------------------------------
EvaluationNext ==
    \/ Notify \/ EndDateNears \/ ReopenMinutes
    \/ \E yes \in BOOLEAN : SaveDossier(yes) \/ PkhDossier(yes) \/ DecideFail(yes)
    \/ \E p \in Panels : SaveCouncil(p)
    \/ \E u \in Members : SaveSheet(u)
    \/ \E c \in Classification : SaveMinutes(c)

ExplanationNext ==
    SubmitExplanation \/ SecretaryConfirms \/ ChairConfirms \/ ReturnExplanation

SettlementNext ==
    \/ AckVariance
    \/ \E yes \in BOOLEAN :
        PkhSettlement(yes) \/ \E d \in Declarations : SaveSettlement(d, yes)
    \/ \E f \in Officers :
        TcReturnsSettlement(f) \/ TcReadsSettlement(f) \/ TcSettles(f)

LiquidationNext ==
    \/ SaveLiquidation \/ SubmitLiquidation
    \/ \E yes \in BOOLEAN : BghLiquidation(yes)
    \/ PublishLiquidation \/ CnnvLiquidation

FinalNext ==
    EvaluationNext \/ ExplanationNext \/ SettlementNext \/ LiquidationNext
=============================================================================
