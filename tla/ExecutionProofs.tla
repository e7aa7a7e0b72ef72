--------------------------- MODULE ExecutionProofs ---------------------------
(***************************************************************************)
(* Proofs about Execution, for any vouchers, budget lines, amounts and     *)
(* settlement forms, and any number of officers at once. What is said of   *)
(* money assumes that no two of them work on one voucher, or on the        *)
(* settlement: with two, a voucher is paid twice.                          *)
(***************************************************************************)
EXTENDS Execution, TLAPS

\* What an officer has read and is about to accept, no other reads or returns.
OwnVoucher ==
    \A f, g \in Officers, v \in Vouchers :
        desk[f] = v /\ f # g => ~TcRead(g, v) /\ ~TcReturn(g, v)
OwnSettlement ==
    \A f, g \in Officers :
        desk[f] \in Declarations /\ f # g =>
            ~TcReadsSettlement(g) /\ ~TcReturnsSettlement(g)

\* One accepting request at a time keeps to both.
LEMMA OneOfficerSuffices ==
  ASSUME \A f, g \in Officers : f = g
  PROVE  OwnVoucher /\ OwnSettlement
  BY DEF OwnVoucher, OwnSettlement

----------------------------------------------------------------------------
(* Types.                                                                  *)

LEMMA TypeInit == Init => TypeOK
<1> SUFFICES ASSUME Init PROVE TypeOK
  OBVIOUS
<1>1. /\ exec = None
      /\ contract \in ContractStatus \cup {None}
      /\ {allocated, confirmed, published, agreed, overtaken} \subseteq BOOLEAN
  BY DEF Init, ContractInit, ContractStatus
<1>2. /\ voucher \in [Vouchers -> {None} \cup PaymentStatus \cup PurchaseStatus]
      /\ posted \in [Vouchers -> Nat]
      /\ desk \in [Officers -> {None} \cup Vouchers \cup Declarations]
  BY DEF Init, LedgerInit
<1>3. /\ {open, locked, secretaryOk, chairOk, ack, surplus} \subseteq BOOLEAN
      /\ panel \in Panels \cup {{}} /\ sheets \subseteq Members
      /\ None \in {class} \cap {explanation} \cap {settlement} \cap {declared}
                  \cap {settled} \cap {compared} \cap {liquidation}
  BY DEF Init, FinalInit
<1> QED
  BY <1>1, <1>2, <1>3 DEF TypeOK

LEMMA ContractTypes ==
  ASSUME TypeOK, ContractNext, UNCHANGED <<ledgerVars, finalVars>>
  PROVE  TypeOK'
<1> USE DEF TypeOK
<1>1. contract' \in ContractStatus \cup {None} /\ exec' \in ExecStatus \cup {None}
  BY DEF ContractNext, GenerateDraft, UpdateClauses, ReplaceLines, SubmitToCnnv,
         CnnvConfirm, ReturnToDraft, SubmitToBgh, BghSign, Publish, CnnvSign,
         ContractStatus, ExecStatus
<1>2. {allocated, confirmed, published, agreed}' \subseteq BOOLEAN
  BY DEF ContractNext, GenerateDraft, UpdateClauses, ReplaceLines, SubmitToCnnv,
         CnnvConfirm, ReturnToDraft, SubmitToBgh, BghSign, Publish, CnnvSign
<1>3. overtaken' = overtaken \/ overtaken' = (exec \in Judged)
  BY DEF ContractNext, GenerateDraft, UpdateClauses, ReplaceLines, SubmitToCnnv,
         CnnvConfirm, ReturnToDraft, SubmitToBgh, BghSign, Publish, CnnvSign
<1>5. overtaken \in BOOLEAN
  BY DEF TypeOK
<1>6. (exec \in Judged) \in BOOLEAN
  OBVIOUS
<1>4. overtaken' \in BOOLEAN
  <2>1. CASE overtaken' = overtaken
    BY <1>5, <2>1, Zenon
  <2>2. CASE overtaken' = (exec \in Judged)
    BY <1>6, <2>2, Zenon
  <2> QED
    BY <1>3, <2>1, <2>2
<1> QED
  BY <1>1, <1>2, <1>4 DEF ledgerVars, finalVars, evaluationVars, explanationVars,
                    settlementVars, liquidationVars

LEMMA LedgerTypes ==
  ASSUME TypeOK, LedgerNext, UNCHANGED <<contractVars, finalVars>>
  PROVE  TypeOK'
<1> USE DEF TypeOK
<1>1. voucher' \in [Vouchers -> {None} \cup PaymentStatus \cup PurchaseStatus]
  BY DEF LedgerNext, Move, SavePayment, PkhPayment, SavePurchase, PkhPurchase,
         CsvcPurchase, Receive, TcReturn, TcRead, TcBook, Refused, Vouchers,
         PaymentStatus, PurchaseStatus
<1>2. posted' \in [Vouchers -> Nat] /\ exec' = exec
  BY DEF LedgerNext, SavePayment, PkhPayment, SavePurchase, PkhPurchase,
         CsvcPurchase, Receive, TcReturn, TcRead, TcBook
<1>3. desk' \in [Officers -> {None} \cup Vouchers \cup Declarations]
  BY DEF LedgerNext, SavePayment, PkhPayment, SavePurchase, PkhPurchase,
         CsvcPurchase, Receive, TcReturn, TcRead, TcBook
<1> QED
  BY <1>1, <1>2, <1>3
  DEF contractVars, finalVars, evaluationVars, explanationVars, settlementVars,
      liquidationVars

LEMMA EvaluationTypes ==
  ASSUME TypeOK, EvaluationNext, UNCHANGED contractVars
  PROVE  TypeOK'
<1> USE DEF TypeOK
<1>1. UNCHANGED <<ledgerVars, secretaryOk, chairOk, declared, ack, acked, settled,
                  compared, liquidationVars>>
  BY DEF EvaluationNext, Notify, EndDateNears, ReopenMinutes, SaveDossier,
         PkhDossier, DecideFail, SaveCouncil, SaveSheet, SaveMinutes, finalVars,
         explanationVars, settlementVars
<1>2. exec' \in ExecStatus \cup {None}
  BY DEF EvaluationNext, Notify, EndDateNears, ReopenMinutes, SaveDossier,
         PkhDossier, DecideFail, SaveCouncil, SaveSheet, SaveMinutes, Verdict,
         ExecStatus
<1>3. /\ {open, locked}' \subseteq BOOLEAN
      /\ panel' \in Panels \cup {{}} /\ sheets' \subseteq Members
      /\ class' \in Classification \cup {None}
      /\ explanation' \in ExplanationStatus \cup {None}
      /\ settlement' \in SettlementStatus \cup {None}
  BY DEF EvaluationNext, Notify, EndDateNears, ReopenMinutes, SaveDossier,
         PkhDossier, DecideFail, SaveCouncil, SaveSheet, SaveMinutes, finalVars,
         evaluationVars, explanationVars, settlementVars, SettlementStatus
<1> QED
  BY <1>1, <1>2, <1>3 DEF contractVars, ledgerVars, liquidationVars

LEMMA ExplanationTypes ==
  ASSUME TypeOK, ExplanationNext, UNCHANGED contractVars
  PROVE  TypeOK'
<1> USE DEF TypeOK
<1>1. /\ exec' \in ExecStatus \cup {None}
      /\ explanation' \in ExplanationStatus \cup {None}
      /\ {secretaryOk, chairOk}' \subseteq BOOLEAN
      /\ settlement' \in SettlementStatus \cup {None}
  BY DEF ExplanationNext, SubmitExplanation, SecretaryConfirms, ChairConfirms,
         ReturnExplanation, ExecStatus, ExplanationStatus, SettlementStatus,
         settlementVars
<1>2. UNCHANGED <<ledgerVars, evaluationVars, declared, ack, acked, settled,
                  compared, liquidationVars>>
  BY DEF ExplanationNext, SubmitExplanation, SecretaryConfirms, ChairConfirms,
         ReturnExplanation, settlementVars
<1> QED
  BY <1>1, <1>2 DEF contractVars, ledgerVars, evaluationVars, liquidationVars

LEMMA SettlementTypes ==
  ASSUME TypeOK, SettlementNext, UNCHANGED contractVars
  PROVE  TypeOK'
<1> USE DEF TypeOK
<1>1. /\ exec' \in ExecStatus \cup {None}
      /\ settlement' \in SettlementStatus \cup {None}
      /\ liquidation' \in LiquidationStatus \cup {None}
  BY DEF SettlementNext, AckVariance, PkhSettlement, SaveSettlement,
         TcReturnsSettlement, TcReadsSettlement, TcSettles, ExecStatus,
         SettlementStatus, LiquidationStatus, liquidationVars, finalVars,
         settlementVars
<1>2. /\ declared' \in Declarations \cup {None}
      /\ ack' \in BOOLEAN
      /\ settled' \in Declarations \cup {None}
  BY DEF SettlementNext, AckVariance, PkhSettlement, SaveSettlement,
         TcReturnsSettlement, TcReadsSettlement, TcSettles, finalVars,
         settlementVars
<1>3. compared' = None \/ DOMAIN compared' = Lines
  BY DEF SettlementNext, AckVariance, PkhSettlement, SaveSettlement,
         TcReturnsSettlement, TcReadsSettlement, TcSettles, SpentByLine
<1>4. desk' \in [Officers -> {None} \cup Vouchers \cup Declarations]
  BY DEF SettlementNext, AckVariance, PkhSettlement, SaveSettlement,
         TcReturnsSettlement, TcReadsSettlement, TcSettles, ledgerVars
<1>5. UNCHANGED <<voucher, posted, evaluationVars, explanationVars, surplus>>
  BY DEF SettlementNext, AckVariance, PkhSettlement, SaveSettlement,
         TcReturnsSettlement, TcReadsSettlement, TcSettles, ledgerVars,
         finalVars, liquidationVars
<1> QED
  BY <1>1, <1>2, <1>3, <1>4, <1>5 DEF contractVars, evaluationVars, explanationVars

LEMMA LiquidationTypes ==
  ASSUME TypeOK, LiquidationNext, UNCHANGED contractVars
  PROVE  TypeOK'
<1> USE DEF TypeOK
<1>1. /\ exec' \in ExecStatus \cup {None}
      /\ surplus' \in BOOLEAN
      /\ liquidation' \in LiquidationStatus \cup {None}
  BY DEF LiquidationNext, SaveLiquidation, SubmitLiquidation, BghLiquidation,
         PublishLiquidation, CnnvLiquidation, ExecStatus, LiquidationStatus
<1>2. UNCHANGED <<ledgerVars, evaluationVars, explanationVars, settlementVars>>
  BY DEF LiquidationNext, SaveLiquidation, SubmitLiquidation, BghLiquidation,
         PublishLiquidation, CnnvLiquidation
<1> QED
  BY <1>1, <1>2
  DEF contractVars, ledgerVars, evaluationVars, explanationVars, settlementVars

LEMMA TypeStep == TypeOK /\ [Next]_vars => TypeOK'
<1> SUFFICES ASSUME TypeOK, [Next]_vars
             PROVE  TypeOK'
  OBVIOUS
<1>1. CASE ContractNext /\ UNCHANGED <<ledgerVars, finalVars>>
  BY <1>1, ContractTypes
<1>2. CASE LedgerNext /\ UNCHANGED <<contractVars, finalVars>>
  BY <1>2, LedgerTypes
<1>3. CASE FinalNext /\ UNCHANGED contractVars
  BY <1>3, EvaluationTypes, ExplanationTypes, SettlementTypes, LiquidationTypes
  DEF FinalNext
<1>4. CASE UNCHANGED vars
  BY <1>4 DEF TypeOK, vars, contractVars, ledgerVars, finalVars, evaluationVars,
              explanationVars, settlementVars, liquidationVars
<1> QED
  BY <1>1, <1>2, <1>3, <1>4 DEF Next

\* Every reachable state is well typed, for any vouchers and any number of
\* officers.
THEOREM TypeCorrect == Spec => []TypeOK
  BY TypeInit, TypeStep, PTL DEF Spec

----------------------------------------------------------------------------
(* The contract.                                                           *)

\* Why nothing is signed unconfirmed: lines are there before the contract
\* leaves its draft, and a confirmation is of the text as it is.
ContractInv ==
    /\ contract \in ContractStatus \ {"HOP_DONG_DRAFT"} => allocated
    /\ contract = "HOP_DONG_CHO_CNNV" /\ confirmed => agreed
    /\ SignedAsConfirmed

LEMMA ContractInvStep == ContractInv /\ [Next]_vars => ContractInv'
<1> SUFFICES ASSUME ContractInv, [Next]_vars
             PROVE  ContractInv'
  OBVIOUS
<1> USE DEF ContractInv, SignedAsConfirmed
<1>1. CASE ContractNext
  BY <1>1, ContractAssumption
  DEF ContractNext, GenerateDraft, UpdateClauses, ReplaceLines, SubmitToCnnv,
      CnnvConfirm, ReturnToDraft, SubmitToBgh, BghSign, Publish, CnnvSign,
      ContractStatus
<1>2. CASE UNCHANGED contractVars
  BY <1>2 DEF contractVars
<1> QED
  BY <1>1, <1>2 DEF Next, vars

\* What BGH and the investigator sign is what the investigator confirmed.
THEOREM NothingSignedUnconfirmed == Spec => []SignedAsConfirmed
<1>1. Init => ContractInv
  BY ContractAssumption
  DEF Init, ContractInit, ContractInv, SignedAsConfirmed, ContractStatus
<1>2. ContractInv => SignedAsConfirmed
  BY DEF ContractInv
<1> QED
  BY <1>1, <1>2, ContractInvStep, PTL DEF Spec

----------------------------------------------------------------------------
(* The evaluation.                                                         *)

LEMMA PanelStep == JudgedByItsCouncil /\ [Next]_vars => JudgedByItsCouncil'
<1> SUFFICES ASSUME JudgedByItsCouncil, [Next]_vars
             PROVE  JudgedByItsCouncil'
  OBVIOUS
<1> USE DEF JudgedByItsCouncil
<1>1. CASE EvaluationNext
  BY <1>1 DEF EvaluationNext, Notify, EndDateNears, ReopenMinutes, SaveDossier,
              PkhDossier, DecideFail, SaveCouncil, SaveSheet, SaveMinutes,
              finalVars, evaluationVars
<1>2. CASE UNCHANGED evaluationVars
  BY <1>2 DEF evaluationVars
<1> QED
  BY <1>1, <1>2
  DEF Next, vars, finalVars, FinalNext, ExplanationNext, SubmitExplanation,
      SecretaryConfirms, ChairConfirms, ReturnExplanation, SettlementNext,
      AckVariance, PkhSettlement, SaveSettlement, TcReturnsSettlement,
      TcReadsSettlement, TcSettles, LiquidationNext, SaveLiquidation,
      SubmitLiquidation, BghLiquidation, PublishLiquidation, CnnvLiquidation

\* Locked minutes stand on a sheet of every reviewer of the council on record.
THEOREM CouncilsJudgeOnSheets == Spec => []JudgedByItsCouncil
<1>1. Init => JudgedByItsCouncil
  BY DEF Init, FinalInit, JudgedByItsCouncil
<1> QED
  BY <1>1, PanelStep, PTL DEF Spec

\* The project was accepted, by its minutes or by a confirmed explanation.
Accepted ==
    /\ locked
    /\ \/ class = "DAT_YEU_CAU"
       \/ explanation = "XONG" /\ secretaryOk /\ chairOk

\* Why acceptance lasts: whoever declares, settles or liquidates does so after
\* an acceptance, and a declaration keeps the minutes from being reopened.
AcceptInv ==
    /\ AcceptedProperly
    /\ exec \in {"DGCK_CHINH_SUA", "DGCK_KHONG_DAT"} => locked
    /\ explanation # None => locked
    /\ explanation = "CHO_CHU_TICH" => secretaryOk
    /\ declared # None => Accepted
    /\ exec = "DGCK_CHO_THANH_LY" => declared # None
    /\ \A f \in Officers : desk[f] \in Declarations => declared # None
    /\ settlement \in SettlementStatus \ {"QT_DRAFT"} => declared # None
    /\ liquidation # None => declared # None

LEMMA AcceptInvInit == Init => AcceptInv
  BY NoneAssumption, FinalAssumption
  DEF Init, LedgerInit, FinalInit, AcceptInv, AcceptedProperly, ExecStatus,
      ExplanationStatus

LEMMA AcceptInvContract ==
  ASSUME AcceptInv, ContractNext, UNCHANGED <<ledgerVars, finalVars>>
  PROVE  AcceptInv'
<1>1. exec' = exec \/ exec' = "DANG_THUC_HIEN"
  BY DEF ContractNext, GenerateDraft, UpdateClauses, ReplaceLines, SubmitToCnnv,
         CnnvConfirm, ReturnToDraft, SubmitToBgh, BghSign, Publish, CnnvSign
<1> QED
  BY <1>1 DEF AcceptInv, AcceptedProperly, Accepted, ledgerVars, finalVars,
              evaluationVars, explanationVars, settlementVars, liquidationVars

LEMMA AcceptInvLedger ==
  ASSUME TypeOK, AcceptInv, LedgerNext, UNCHANGED <<contractVars, finalVars>>
  PROVE  AcceptInv'
<1>1. exec' = exec
  BY DEF LedgerNext, SavePayment, PkhPayment, SavePurchase, PkhPurchase,
         CsvcPurchase, Receive, TcReturn, TcRead, TcBook
<1>2. \A f \in Officers : desk'[f] \in Declarations => desk[f] \in Declarations
  BY FinalAssumption
  DEF TypeOK, LedgerNext, SavePayment, PkhPayment, SavePurchase, PkhPurchase,
      CsvcPurchase, Receive, TcReturn, TcRead, TcBook
<1> QED
  BY <1>1, <1>2
  DEF AcceptInv, AcceptedProperly, Accepted, finalVars, evaluationVars,
      explanationVars, settlementVars, liquidationVars

LEMMA AcceptInvEvaluation ==
  ASSUME AcceptInv, EvaluationNext
  PROVE  AcceptInv'
<1> USE DEF AcceptInv, AcceptedProperly, Accepted
<1>1. UNCHANGED <<ledgerVars, secretaryOk, chairOk, declared, liquidation>>
  BY DEF EvaluationNext, Notify, EndDateNears, ReopenMinutes, SaveDossier,
         PkhDossier, DecideFail, SaveCouncil, SaveSheet, SaveMinutes, finalVars,
         explanationVars, settlementVars, liquidationVars
<1>2. CASE ReopenMinutes
  BY <1>1, <1>2, FinalAssumption
  DEF ReopenMinutes, CanReopen, ledgerVars, SettlementStatus
<1>3. ASSUME NEW c \in Classification, SaveMinutes(c)
      PROVE  AcceptInv'
  BY <1>1, <1>3 DEF SaveMinutes, Verdict, Classification, ledgerVars,
                    SettlementStatus
<1>4. CASE /\ UNCHANGED <<locked, class, explanation, settlement>>
           /\ exec' \in {exec, "DGCK_DRAFT", "DGCK_CHO_PKH", "DGCK_HOP_HD",
                         "DGCK_BS", "DGCK_CHINH_SUA", "DGCK_DINH_CHI"}
           /\ exec' = "DGCK_CHINH_SUA" => locked
  BY <1>1, <1>4 DEF ledgerVars
<1>5. ASSUME NEW yes \in BOOLEAN,
             SaveDossier(yes) \/ PkhDossier(yes) \/ DecideFail(yes)
      PROVE  AcceptInv'
  BY <1>4, <1>5 DEF SaveDossier, PkhDossier, DecideFail, finalVars,
                    evaluationVars, explanationVars, settlementVars
<1>6. CASE \/ Notify \/ EndDateNears
           \/ \E p \in Panels : SaveCouncil(p)
           \/ \E u \in Members : SaveSheet(u)
  <2>1. UNCHANGED <<locked, class, explanation, settlement, exec>>
    BY <1>6 DEF Notify, EndDateNears, SaveCouncil, SaveSheet, explanationVars,
                settlementVars
  <2> QED
    BY <1>4, <2>1
<1> QED
  BY <1>2, <1>3, <1>5, <1>6 DEF EvaluationNext

LEMMA AcceptInvExplanation ==
  ASSUME AcceptInv, ExplanationNext
  PROVE  AcceptInv'
<1> USE FinalAssumption DEF AcceptInv, AcceptedProperly, Accepted
<1>1. UNCHANGED <<ledgerVars, evaluationVars, declared, liquidation>>
  BY DEF ExplanationNext, SubmitExplanation, SecretaryConfirms, ChairConfirms,
         ReturnExplanation, settlementVars, liquidationVars
<1>2. exec = "DGCK_CHINH_SUA" /\ locked
  BY DEF ExplanationNext, SubmitExplanation, SecretaryConfirms, ChairConfirms,
         ReturnExplanation
<1>3. settlement' = settlement \/ (settlement = None /\ settlement' = "QT_DRAFT")
  BY DEF ExplanationNext, SubmitExplanation, SecretaryConfirms, ChairConfirms,
         ReturnExplanation, settlementVars
<1>4. CASE SubmitExplanation \/ ReturnExplanation
  BY <1>1, <1>2, <1>3, <1>4
  DEF SubmitExplanation, ReturnExplanation, evaluationVars, ledgerVars,
      ExplanationStatus
<1>5. CASE SecretaryConfirms
  BY <1>1, <1>2, <1>3, <1>5
  DEF SecretaryConfirms, evaluationVars, ledgerVars, ExplanationStatus
<1>6. CASE ChairConfirms
  BY <1>1, <1>2, <1>3, <1>6
  DEF ChairConfirms, evaluationVars, ledgerVars, ExplanationStatus
<1> QED
  BY <1>4, <1>5, <1>6 DEF ExplanationNext

LEMMA AcceptInvSettlement ==
  ASSUME TypeOK, AcceptInv, SettlementNext
  PROVE  AcceptInv'
<1> USE FinalAssumption DEF AcceptInv, AcceptedProperly, Accepted
<1>1. UNCHANGED <<evaluationVars, explanationVars>>
  BY DEF SettlementNext, AckVariance, PkhSettlement, SaveSettlement,
         TcReturnsSettlement, TcReadsSettlement, TcSettles, finalVars
<1>2. declared' # None \/ (declared' = declared /\ UNCHANGED desk)
  BY DEF SettlementNext, AckVariance, PkhSettlement, SaveSettlement,
         TcReturnsSettlement, TcReadsSettlement, TcSettles, ledgerVars, finalVars,
         settlementVars, SettlementStatus
<1>3. declared' = declared \/ exec = "DGCK_CHO_QUYET_TOAN"
  BY DEF SettlementNext, AckVariance, PkhSettlement, SaveSettlement,
         TcReturnsSettlement, TcReadsSettlement, TcSettles, finalVars,
         settlementVars
<1>4. /\ exec' = exec \/ declared # None
      /\ declared' # None \/ (UNCHANGED <<liquidation, settlement>>)
  BY DEF SettlementNext, AckVariance, PkhSettlement, SaveSettlement,
         TcReturnsSettlement, TcReadsSettlement, TcSettles, finalVars,
         settlementVars, liquidationVars, SettlementStatus
<1> QED
  BY <1>1, <1>2, <1>3, <1>4 DEF evaluationVars, explanationVars

LEMMA AcceptInvLiquidation ==
  ASSUME AcceptInv, LiquidationNext
  PROVE  AcceptInv'
<1> USE FinalAssumption DEF AcceptInv, AcceptedProperly, Accepted
<1>1. UNCHANGED <<ledgerVars, evaluationVars, explanationVars, settlementVars>>
  BY DEF LiquidationNext, SaveLiquidation, SubmitLiquidation, BghLiquidation,
         PublishLiquidation, CnnvLiquidation
<1>2. (exec = "DGCK_CHO_THANH_LY" /\ exec' = exec) \/ liquidation # None
  BY DEF LiquidationNext, SaveLiquidation, SubmitLiquidation, BghLiquidation,
         PublishLiquidation, CnnvLiquidation, LiquidationStatus
<1> QED
  BY <1>1, <1>2
  DEF ledgerVars, evaluationVars, explanationVars, settlementVars

LEMMA AcceptInvStep == TypeOK /\ AcceptInv /\ [Next]_vars => AcceptInv'
<1> SUFFICES ASSUME TypeOK, AcceptInv, [Next]_vars
             PROVE  AcceptInv'
  OBVIOUS
<1>1. CASE UNCHANGED vars
  BY <1>1 DEF AcceptInv, AcceptedProperly, Accepted, vars, ledgerVars, finalVars,
              evaluationVars, explanationVars, settlementVars, liquidationVars
<1>2. CASE Next
  BY <1>2, AcceptInvContract, AcceptInvLedger, AcceptInvEvaluation,
     AcceptInvExplanation, AcceptInvSettlement, AcceptInvLiquidation
  DEF Next, FinalNext
<1> QED
  BY <1>1, <1>2

\* Only accepted projects are settled, liquidated and completed.
THEOREM OnlyAcceptedAreSettled == Spec => []AcceptedProperly
<1>1. Init => TypeOK /\ AcceptInv
  BY TypeInit, AcceptInvInit
<1>2. TypeOK /\ AcceptInv /\ [Next]_vars => (TypeOK /\ AcceptInv)'
  BY TypeStep, AcceptInvStep
<1>3. AcceptInv => AcceptedProperly
  BY DEF AcceptInv
<1> QED
  BY <1>1, <1>2, <1>3, PTL DEF Spec

----------------------------------------------------------------------------
(* The liquidation record.                                                 *)

\* The record that waits for BGH already prints the settled amounts.
RecordInv ==
    /\ liquidation = "TL_CHO_BGH" => record.settled = settled
    /\ SignedAsPrinted

LEMMA RecordInvStep == RecordInv /\ [Next]_vars => RecordInv'
<1> SUFFICES ASSUME RecordInv, [Next]_vars
             PROVE  RecordInv'
  OBVIOUS
<1> USE DEF RecordInv, SignedAsPrinted
<1>1. CASE UNCHANGED <<settled, liquidation, record, signedRecord>>
  BY <1>1
<1>2. ASSUME NEW f \in Officers, TcSettles(f)
      PROVE  RecordInv'
  BY <1>2 DEF TcSettles
<1>3. CASE SaveLiquidation \/ SubmitLiquidation
  BY <1>3 DEF SaveLiquidation, SubmitLiquidation, Figures, settlementVars
<1>4. CASE PublishLiquidation \/ CnnvLiquidation
  BY <1>4 DEF PublishLiquidation, CnnvLiquidation, settlementVars
<1>5. ASSUME NEW yes \in BOOLEAN, BghLiquidation(yes)
      PROVE  RecordInv'
  BY <1>5 DEF BghLiquidation, settlementVars
<1>6. CASE \/ ContractNext /\ UNCHANGED <<ledgerVars, finalVars>>
           \/ LedgerNext /\ UNCHANGED <<contractVars, finalVars>>
           \/ UNCHANGED vars
  BY <1>1, <1>6 DEF vars, finalVars, settlementVars, liquidationVars
<1>7. CASE EvaluationNext \/ ExplanationNext
  BY <1>1, <1>7
  DEF EvaluationNext, Notify, EndDateNears, ReopenMinutes, SaveDossier, PkhDossier,
      DecideFail, SaveCouncil, SaveSheet, SaveMinutes, finalVars, ExplanationNext,
      SubmitExplanation, SecretaryConfirms, ChairConfirms, ReturnExplanation,
      settlementVars, liquidationVars
<1>8. ASSUME SettlementNext, ~\E f \in Officers : TcSettles(f)
      PROVE  RecordInv'
  BY <1>1, <1>8
  DEF SettlementNext, AckVariance, PkhSettlement, SaveSettlement,
      TcReturnsSettlement, TcReadsSettlement, finalVars, settlementVars,
      liquidationVars
<1> QED
  BY <1>2, <1>3, <1>4, <1>5, <1>6, <1>7, <1>8 DEF Next, FinalNext, LiquidationNext

\* The record in force is the one BGH signed and prints the settled amounts.
THEOREM RecordIsTheSignedOne == Spec => []SignedAsPrinted
<1>1. Init => RecordInv
  BY FinalAssumption
  DEF Init, FinalInit, RecordInv, SignedAsPrinted, LiquidationStatus
<1>2. RecordInv => SignedAsPrinted
  BY DEF RecordInv
<1> QED
  BY <1>1, <1>2, RecordInvStep, PTL DEF Spec

----------------------------------------------------------------------------
(* Money, when no two officers work on one voucher.                        *)

\* A voucher has statuses of its own kind, the ledger follows them, and the
\* voucher on a desk is still payable and on no other desk.
MoneyInv ==
    /\ \A v \in Payments : voucher[v] \in {None} \cup PaymentStatus
    /\ \A v \in Purchases : voucher[v] \in {None} \cup PurchaseStatus
    /\ PaidOnce
    /\ \A f \in Officers : desk[f] \in Vouchers => Payable(desk[f])
    /\ \A f, g \in Officers : desk[f] \in Vouchers /\ desk[g] = desk[f] => f = g

LEMMA MoneyInvInit == Init => MoneyInv
  BY LedgerAssumption
  DEF Init, LedgerInit, MoneyInv, PaidOnce, Done, Vouchers, PaymentStatus,
      PurchaseStatus

\* Saving, accepting by the science office, supplying and receiving: the
\* voucher that moves was not payable, and is not done afterwards.
LEMMA OfficesKeepMoneyInv ==
  ASSUME TypeOK, MoneyInv, NEW v \in Vouchers, NEW to, Move(v, to),
         UNCHANGED <<posted, desk>>, ~Payable(v), ~Done(v),
         v \in Payments => to \in PaymentStatus \ {"YCKT_DONE"},
         v \in Purchases => to \in PurchaseStatus \ {"MS_DONE"}
  PROVE  MoneyInv'
<1> USE DEF MoneyInv
<1>1. voucher' = [voucher EXCEPT ![v] = to] /\ DOMAIN voucher = Vouchers
  BY DEF Move, TypeOK
<1>2. /\ \A w \in Payments : voucher'[w] \in {None} \cup PaymentStatus
      /\ \A w \in Purchases : voucher'[w] \in {None} \cup PurchaseStatus
  BY <1>1 DEF Vouchers
<1>3. PaidOnce'
  BY <1>1 DEF PaidOnce, Done, Vouchers
<1>4. ASSUME NEW f \in Officers, desk'[f] \in Vouchers
      PROVE  Payable(desk[f])'
  <2>1. desk[f] # v /\ Payable(desk[f])
    BY <1>4
  <2> QED
    BY <1>1, <1>4, <2>1 DEF Payable
<1> QED
  BY <1>2, <1>3, <1>4

LEMMA SavingKeepsMoneyInv ==
  ASSUME TypeOK, MoneyInv,
         \/ \E v \in Payments, submit \in BOOLEAN : SavePayment(v, submit)
         \/ \E v \in Purchases, submit \in BOOLEAN : SavePurchase(v, submit)
  PROVE  MoneyInv'
<1>1. ASSUME NEW v \in Payments, NEW submit \in BOOLEAN, SavePayment(v, submit)
      PROVE  MoneyInv'
  <2>1. PICK to \in PaymentStatus \ {"YCKT_DONE"} : Move(v, to)
    BY <1>1 DEF SavePayment, PaymentStatus
  <2>2. /\ v \in Vouchers /\ v \notin Purchases
        /\ voucher[v] \in {None, "YCKT_DRAFT", "YCKT_BS"}
        /\ UNCHANGED <<posted, desk>>
    BY <1>1, LedgerAssumption DEF SavePayment, Vouchers
  <2>3. ~Payable(v) /\ ~Done(v)
    BY <2>2, LedgerAssumption DEF Payable, Done, PaymentStatus
  <2> QED
    BY <2>1, <2>2, <2>3, OfficesKeepMoneyInv
<1>2. ASSUME NEW v \in Purchases, NEW submit \in BOOLEAN, SavePurchase(v, submit)
      PROVE  MoneyInv'
  <2>1. PICK to \in PurchaseStatus \ {"MS_DONE"} : Move(v, to)
    BY <1>2 DEF SavePurchase, PurchaseStatus
  <2>2. /\ v \in Vouchers /\ v \notin Payments
        /\ voucher[v] \in {None, "MS_DRAFT", "MS_BS"}
        /\ UNCHANGED <<posted, desk>>
    BY <1>2, LedgerAssumption DEF SavePurchase, Vouchers
  <2>3. ~Payable(v) /\ ~Done(v)
    BY <2>2, LedgerAssumption DEF Payable, Done, PurchaseStatus
  <2> QED
    BY <2>1, <2>2, <2>3, OfficesKeepMoneyInv
<1> QED
  BY <1>1, <1>2

LEMMA PassingOnKeepsMoneyInv ==
  ASSUME TypeOK, MoneyInv,
         \/ \E v \in Payments, to \in PaymentStatus : PkhPayment(v, to)
         \/ \E v \in Purchases, to \in PurchaseStatus :
                PkhPurchase(v, to) \/ CsvcPurchase(v, to) \/ Receive(v)
  PROVE  MoneyInv'
<1>1. ASSUME NEW v \in Payments, NEW to \in PaymentStatus, PkhPayment(v, to)
      PROVE  MoneyInv'
  <2>1. /\ v \in Vouchers /\ v \notin Purchases
        /\ to # "YCKT_DONE" /\ Move(v, to)
        /\ UNCHANGED <<posted, desk>>
        /\ ~Payable(v) /\ ~Done(v)
    BY <1>1, LedgerAssumption DEF PkhPayment, Vouchers, Payable, Done
  <2> QED
    BY <2>1, OfficesKeepMoneyInv
<1>2. ASSUME NEW v \in Purchases, NEW to \in PurchaseStatus,
             PkhPurchase(v, to) \/ CsvcPurchase(v, to) \/ Receive(v)
      PROVE  MoneyInv'
  <2>1. PICK t \in PurchaseStatus \ {"MS_DONE"} : Move(v, t)
    BY <1>2 DEF PkhPurchase, CsvcPurchase, Receive, Refused, PurchaseStatus
  <2>2. /\ v \in Vouchers /\ v \notin Payments
        /\ UNCHANGED <<posted, desk>>
        /\ ~Payable(v) /\ ~Done(v)
    BY <1>2, LedgerAssumption
    DEF PkhPurchase, CsvcPurchase, Receive, Refused, Vouchers, Payable, Done
  <2> QED
    BY <2>1, <2>2, OfficesKeepMoneyInv
<1> QED
  BY <1>1, <1>2

LEMMA FinanceKeepsMoneyInv ==
  ASSUME OwnVoucher, TypeOK, MoneyInv, NEW f \in Officers, NEW v \in Vouchers,
         TcReturn(f, v) \/ TcRead(f, v) \/ TcBook(f, v)
  PROVE  MoneyInv'
<1> USE DEF MoneyInv
<1>1. CASE TcReturn(f, v)
  <2>1. \A g \in Officers : desk'[g] = desk[g] /\ desk[g] # v
    BY <1>1, LedgerAssumption DEF TcReturn, OwnVoucher
  <2>2. /\ \A w \in Payments : voucher'[w] \in {None} \cup PaymentStatus
        /\ \A w \in Purchases : voucher'[w] \in {None} \cup PurchaseStatus
        /\ PaidOnce'
    BY <1>1, LedgerAssumption
    DEF TcReturn, Move, TypeOK, PaidOnce, Done, Payable, Vouchers, PaymentStatus,
        PurchaseStatus
  <2>3. ASSUME NEW g \in Officers, desk[g] \in Vouchers
        PROVE  Payable(desk[g])'
    BY <1>1, <2>1, <2>3 DEF TcReturn, Move, TypeOK, Payable
  <2> QED
    BY <2>1, <2>2, <2>3
<1>2. CASE TcRead(f, v)
  <2>1. \A g \in Officers \ {f} : desk'[g] = desk[g] /\ desk[g] # v
    BY <1>2 DEF TcRead, OwnVoucher, TypeOK
  <2>2. desk'[f] = v /\ Payable(v)
    BY <1>2 DEF TcRead, TypeOK
  <2> QED
    BY <1>2, <2>1, <2>2 DEF TcRead, PaidOnce, Done, Payable
<1>3. CASE TcBook(f, v)
  <2>1. Payable(v) /\ ~Done(v) /\ posted[v] = 0
    BY <1>3 DEF TcBook, Payable, Done, PaidOnce
  <2>2. /\ desk'[f] \notin Vouchers
        /\ \A g \in Officers \ {f} : desk'[g] = desk[g] /\ desk[g] # v
    BY <1>3, LedgerAssumption DEF TcBook, TypeOK
  <2>3. /\ \A w \in Payments : voucher'[w] \in {None} \cup PaymentStatus
        /\ \A w \in Purchases : voucher'[w] \in {None} \cup PurchaseStatus
    BY <1>3, LedgerAssumption
    DEF TcBook, Move, TypeOK, Vouchers, PaymentStatus, PurchaseStatus
  <2>4. ASSUME NEW w \in Vouchers
        PROVE  posted'[w] = IF Done(w)' THEN 1 ELSE 0
    <3>1. CASE w = v
      BY <1>3, <2>1, <3>1 DEF TcBook, Move, TypeOK, Done
    <3>2. CASE w # v
      BY <1>3, <3>2 DEF TcBook, Move, TypeOK, Done, PaidOnce
    <3> QED
      BY <3>1, <3>2
  <2>5. ASSUME NEW g \in Officers, desk'[g] \in Vouchers
        PROVE  Payable(desk[g])'
    <3>1. desk'[g] = desk[g] /\ desk[g] # v
      BY <2>2, <2>5
    <3> QED
      BY <1>3, <2>5, <3>1 DEF TcBook, Move, TypeOK, Payable
  <2> QED
    BY <2>2, <2>3, <2>4, <2>5 DEF PaidOnce
<1> QED
  BY <1>1, <1>2, <1>3

LEMMA FinalKeepsMoneyInv ==
  ASSUME TypeOK, MoneyInv, FinalNext
  PROVE  MoneyInv'
<1>1. UNCHANGED <<voucher, posted>>
  BY DEF FinalNext, EvaluationNext, Notify, EndDateNears, ReopenMinutes,
         SaveDossier, PkhDossier, DecideFail, SaveCouncil, SaveSheet, SaveMinutes,
         ExplanationNext, SubmitExplanation, SecretaryConfirms, ChairConfirms,
         ReturnExplanation, SettlementNext, AckVariance, PkhSettlement,
         SaveSettlement, TcReturnsSettlement, TcReadsSettlement, TcSettles,
         LiquidationNext, SaveLiquidation, SubmitLiquidation, BghLiquidation,
         PublishLiquidation, CnnvLiquidation, ledgerVars
<1>2. \A f \in Officers : desk'[f] \in Vouchers => desk'[f] = desk[f]
  <2>1. CASE UNCHANGED desk
    BY <2>1
  <2>2. ASSUME NEW f \in Officers, TcReadsSettlement(f) \/ TcSettles(f)
        PROVE  \A g \in Officers : desk'[g] \in Vouchers => desk'[g] = desk[g]
    <3>1. declared \notin Vouchers /\ None \notin Vouchers
      BY LedgerAssumption, FinalAssumption DEF TypeOK
    <3> QED
      BY <2>2, <3>1 DEF TcReadsSettlement, TcSettles, TypeOK
  <2> QED
    BY <2>1, <2>2
    DEF FinalNext, EvaluationNext, Notify, EndDateNears, ReopenMinutes,
        SaveDossier, PkhDossier, DecideFail, SaveCouncil, SaveSheet, SaveMinutes,
        ExplanationNext, SubmitExplanation, SecretaryConfirms, ChairConfirms,
        ReturnExplanation, SettlementNext, AckVariance, PkhSettlement,
        SaveSettlement, TcReturnsSettlement, LiquidationNext, SaveLiquidation,
        SubmitLiquidation, BghLiquidation, PublishLiquidation, CnnvLiquidation,
        ledgerVars
<1> QED
  BY <1>1, <1>2 DEF MoneyInv, PaidOnce, Done, Payable

LEMMA MoneyInvStep ==
  ASSUME TypeOK, MoneyInv, [Next]_vars, [OwnVoucher]_vars
  PROVE  MoneyInv'
<1>1. CASE UNCHANGED ledgerVars
  BY <1>1 DEF ledgerVars, MoneyInv, PaidOnce, Done, Payable
<1>2. CASE LedgerNext /\ ~UNCHANGED vars
  <2>1. ASSUME NEW v \in Payments, NEW submit \in BOOLEAN, SavePayment(v, submit)
        PROVE  MoneyInv'
    BY <2>1, SavingKeepsMoneyInv
  <2>2. ASSUME NEW v \in Purchases, NEW submit \in BOOLEAN, SavePurchase(v, submit)
        PROVE  MoneyInv'
    BY <2>2, SavingKeepsMoneyInv
  <2>3. ASSUME NEW v \in Payments, NEW to \in PaymentStatus, PkhPayment(v, to)
        PROVE  MoneyInv'
    BY <2>3, PassingOnKeepsMoneyInv
  <2>4. ASSUME NEW v \in Purchases, NEW to \in PurchaseStatus,
               PkhPurchase(v, to) \/ CsvcPurchase(v, to)
        PROVE  MoneyInv'
    BY <2>4, PassingOnKeepsMoneyInv
  <2>5. ASSUME NEW v \in Purchases, Receive(v)
        PROVE  MoneyInv'
    <3>1. "MS_CHO_TC" \in PurchaseStatus
      BY DEF PurchaseStatus
    <3> QED
      BY <2>5, <3>1, PassingOnKeepsMoneyInv
  <2>6. ASSUME NEW f \in Officers, NEW v \in Vouchers,
               TcReturn(f, v) \/ TcRead(f, v) \/ TcBook(f, v)
        PROVE  MoneyInv'
    BY <1>2, <2>6, FinanceKeepsMoneyInv
  <2> QED
    BY <1>2, <2>1, <2>2, <2>3, <2>4, <2>5, <2>6 DEF LedgerNext
<1>3. CASE FinalNext
  BY <1>3, FinalKeepsMoneyInv
<1> QED
  BY <1>1, <1>2, <1>3 DEF Next, vars

\* As long as what one officer is accepting is left alone by the others, every
\* voucher that is done is in the ledger once, and no other is.
THEOREM VouchersArePaidOnce == Spec /\ [][OwnVoucher]_vars => []PaidOnce
<1>1. Init => TypeOK /\ MoneyInv
  BY TypeInit, MoneyInvInit
<1>2. TypeOK /\ MoneyInv /\ [Next]_vars /\ [OwnVoucher]_vars => (TypeOK /\ MoneyInv)'
  BY TypeStep, MoneyInvStep
<1>3. MoneyInv => PaidOnce
  BY DEF MoneyInv
<1> QED
  BY <1>1, <1>2, <1>3, PTL DEF Spec

----------------------------------------------------------------------------
(* The finance office's settlement, accepted by one officer at a time.     *)

\* A settlement on the desk is the form on record, which cannot change while
\* it waits for the finance office; a variance in it was acknowledged, and an
\* acknowledgement is for the form on record. It is on one desk at most.
VarianceInv ==
    /\ ack => acked = declared
    /\ \A f, g \in Officers : {desk[f], desk[g]} \subseteq Declarations => f = g
    /\ \A f \in Officers : desk[f] \in Declarations =>
        /\ settlement = "QT_CHO_TC"
        /\ desk[f] = declared
        /\ declared # compared => ack

\* Requests that leave the form, its acknowledgement and its comparison alone.
LEMMA VarianceInvAside ==
  ASSUME VarianceInv, UNCHANGED <<ack, acked, declared, compared>>,
         settlement' = settlement \/ settlement # "QT_CHO_TC",
         \A f \in Officers : desk'[f] \in Declarations => desk'[f] = desk[f]
  PROVE  VarianceInv'
  BY DEF VarianceInv

LEMMA VarianceInvLedger ==
  ASSUME TypeOK, VarianceInv, LedgerNext, UNCHANGED finalVars
  PROVE  VarianceInv'
<1>1. UNCHANGED <<settlement, declared, ack, acked, compared>>
  BY DEF finalVars, settlementVars
<1>2. \A f \in Officers : desk'[f] \in Declarations => desk'[f] = desk[f]
  BY LedgerAssumption, FinalAssumption
  DEF LedgerNext, SavePayment, PkhPayment, SavePurchase, PkhPurchase, CsvcPurchase,
      Receive, TcReturn, TcRead, TcBook, TypeOK
<1> QED
  BY <1>1, <1>2, VarianceInvAside

LEMMA VarianceInvSettlement ==
  ASSUME OwnSettlement, TypeOK, VarianceInv, SettlementNext
  PROVE  VarianceInv'
<1> USE FinalAssumption DEF VarianceInv
<1>2. CASE AckVariance
  BY <1>2 DEF AckVariance, ledgerVars
<1>3. ASSUME NEW yes \in BOOLEAN, PkhSettlement(yes)
      PROVE  VarianceInv'
  BY <1>3 DEF PkhSettlement, ledgerVars
<1>4. ASSUME NEW yes \in BOOLEAN, NEW d \in Declarations, SaveSettlement(d, yes)
      PROVE  VarianceInv'
  BY <1>4, NoneAssumption DEF SaveSettlement, ledgerVars, SettlementStatus
<1>5. ASSUME NEW f \in Officers, TcReturnsSettlement(f)
      PROVE  VarianceInv'
  <2>1. \A g \in Officers : desk[g] \notin Declarations
    BY <1>5 DEF TcReturnsSettlement, OwnSettlement
  <2> QED
    BY <1>5, <2>1 DEF TcReturnsSettlement, ledgerVars
<1>6. ASSUME NEW f \in Officers, TcReadsSettlement(f)
      PROVE  VarianceInv'
  <2>1. \A g \in Officers \ {f} : desk'[g] = desk[g] /\ desk[g] \notin Declarations
    BY <1>6 DEF TcReadsSettlement, OwnSettlement, TypeOK
  <2>2. desk'[f] = declared
    BY <1>6 DEF TcReadsSettlement, TypeOK
  <2> QED
    BY <1>6, <2>1, <2>2 DEF TcReadsSettlement
<1>7. ASSUME NEW f \in Officers, TcSettles(f)
      PROVE  VarianceInv'
  <2>1. \A g \in Officers : desk'[g] \notin Declarations
    BY <1>7 DEF TcSettles, TypeOK
  <2> QED
    BY <1>7, <2>1 DEF TcSettles
<1> QED
  BY <1>2, <1>3, <1>4, <1>5, <1>6, <1>7 DEF SettlementNext

LEMMA VarianceInvStep ==
  ASSUME TypeOK, AcceptInv, VarianceInv, [Next]_vars, [OwnSettlement]_vars
  PROVE  VarianceInv'
<1>1. CASE UNCHANGED ledgerVars /\ UNCHANGED finalVars
  BY <1>1, VarianceInvAside DEF ledgerVars, finalVars, settlementVars
<1>2. CASE LedgerNext /\ UNCHANGED finalVars /\ ~UNCHANGED vars
  BY <1>2, VarianceInvLedger
<1>3. CASE EvaluationNext
  <2>1. ASSUME NEW c \in Classification, SaveMinutes(c), settlement = "QT_CHO_TC"
        PROVE  FALSE
    BY <2>1, FinalAssumption DEF SaveMinutes, AcceptInv, Accepted, SettlementStatus
  <2>2. settlement' = settlement \/ settlement # "QT_CHO_TC"
    BY <1>3, <2>1, FinalAssumption
    DEF EvaluationNext, Notify, EndDateNears, ReopenMinutes, CanReopen, SaveDossier,
        PkhDossier, DecideFail, SaveCouncil, SaveSheet, settlementVars, finalVars,
        SettlementStatus
  <2>3. UNCHANGED <<desk, ack, acked, declared, compared>>
    BY <1>3
    DEF EvaluationNext, Notify, EndDateNears, ReopenMinutes, SaveDossier, PkhDossier,
        DecideFail, SaveCouncil, SaveSheet, SaveMinutes, settlementVars, finalVars,
        ledgerVars
  <2> QED
    BY <2>2, <2>3, VarianceInvAside
<1>4. CASE ExplanationNext
  <2>1. settlement' = settlement \/ settlement # "QT_CHO_TC"
    BY <1>4, FinalAssumption
    DEF ExplanationNext, SubmitExplanation, SecretaryConfirms, ChairConfirms,
        ReturnExplanation, settlementVars, SettlementStatus
  <2>2. UNCHANGED <<desk, ack, acked, declared, compared>>
    BY <1>4
    DEF ExplanationNext, SubmitExplanation, SecretaryConfirms, ChairConfirms,
        ReturnExplanation, settlementVars, ledgerVars
  <2> QED
    BY <2>1, <2>2, VarianceInvAside
<1>5. CASE SettlementNext /\ ~UNCHANGED vars
  BY <1>5, VarianceInvSettlement
<1>6. CASE LiquidationNext
  BY <1>6, VarianceInvAside
  DEF LiquidationNext, SaveLiquidation, SubmitLiquidation, BghLiquidation,
      PublishLiquidation, CnnvLiquidation, ledgerVars, settlementVars
<1> QED
  BY <1>1, <1>2, <1>3, <1>4, <1>5, <1>6 DEF Next, FinalNext, vars

\* Only the finance office closes accounts.
LEMMA OnlyTcSettles ==
  ASSUME [Next]_vars, settled' # settled
  PROVE  \E f \in Officers : TcSettles(f)
  BY DEF Next, vars, FinalNext, EvaluationNext, Notify, EndDateNears, ReopenMinutes,
         SaveDossier, PkhDossier, DecideFail, SaveCouncil, SaveSheet, SaveMinutes,
         ExplanationNext, SubmitExplanation, SecretaryConfirms, ChairConfirms,
         ReturnExplanation, SettlementNext, AckVariance, PkhSettlement,
         SaveSettlement, TcReturnsSettlement, TcReadsSettlement, LiquidationNext,
         SaveLiquidation, SubmitLiquidation, BghLiquidation, PublishLiquidation,
         CnnvLiquidation, finalVars, settlementVars

\* Accounts are closed at the amounts on the form, acknowledged where they
\* differ from the ledger the finance office compared them with, whatever is
\* booked before it closes them.
THEOREM VariancesAreAcknowledged ==
  Spec /\ [][OwnSettlement]_vars => VarianceAcknowledged
<1> DEFINE Inv == TypeOK /\ AcceptInv /\ VarianceInv
           Step == [settled' # settled =>
                        /\ settled' = declared
                        /\ settled' # compared => acked = settled']_vars
<1>1. Init => Inv
  BY TypeInit, AcceptInvInit, FinalAssumption DEF Init, LedgerInit, FinalInit,
     VarianceInv
<1>2. Inv /\ [Next]_vars /\ [OwnSettlement]_vars => Inv'
  BY TypeStep, AcceptInvStep, VarianceInvStep
<1>3. Inv /\ [Next]_vars => Step
  <2> SUFFICES ASSUME VarianceInv, [Next]_vars, settled' # settled
               PROVE  /\ settled' = declared
                      /\ settled' # compared => acked = settled'
    OBVIOUS
  <2> QED
    BY OnlyTcSettles DEF TcSettles, VarianceInv
<1> QED
  BY <1>1, <1>2, <1>3, PTL DEF Spec, VarianceAcknowledged

----------------------------------------------------------------------------
(* The final case implements ProjectClosing.                               *)

ExecVerdicts == {"DGCK_CHO_QUYET_TOAN", "DGCK_CHINH_SUA", "DGCK_KHONG_DAT"}
Before == {None, "DANG_THUC_HIEN", "DGCK_DRAFT", "DGCK_CHO_PKH", "DGCK_BS",
           "DGCK_HOP_HD"}

OvertakenBefore == overtaken /\ exec \in Before

\* A settlement on the desk and a liquidation under way pin execution_status,
\* unless the signature of the contract has overtaken them; the settlement is
\* on one desk, and an overtaken project keeps its locked minutes.
ClosingInv ==
    /\ overtaken =>
        /\ contract = "HOP_DONG_DA_KY" /\ locked
        /\ exec \in Before \cup {"DGCK_CHO_THANH_LY", "HOAN_THANH"}
    /\ liquidation \in LiquidationStatus \ {"TL_HIEU_LUC"} =>
        exec = "DGCK_CHO_THANH_LY" \/ OvertakenBefore
    /\ \A f \in Officers : desk[f] \in Declarations =>
        /\ exec = "DGCK_CHO_QUYET_TOAN" \/ OvertakenBefore
        /\ settlement = "QT_CHO_TC"
    /\ \A f, g \in Officers : {desk[f], desk[g]} \subseteq Declarations => f = g
    /\ exec \in {"DGCK_CHO_THANH_LY", "HOAN_THANH"} \/ liquidation # None =>
        settled # None
    /\ settled # None => settlement = "QT_DONE" /\ declared # None
    /\ exec \in Judged => locked

LEMMA Phases ==
    /\ \A s \in Before : PhaseOf[s] = "running"
    /\ PhaseOf["DGCK_CHO_QUYET_TOAN"] = "accepted"
    /\ PhaseOf["DGCK_CHINH_SUA"] = "repair"
    /\ PhaseOf["DGCK_KHONG_DAT"] = "failed"
    /\ PhaseOf["DGCK_DINH_CHI"] = "stopped"
    /\ PhaseOf["DGCK_CHO_THANH_LY"] = "settled"
    /\ PhaseOf["HOAN_THANH"] = "done"
  BY NoneAssumption DEF PhaseOf, ExecStatus, Before

LEMMA ClosingInvInit == Init => ClosingInv
  BY NoneAssumption, FinalAssumption
  DEF Init, ContractInit, LedgerInit, FinalInit, ClosingInv, Judged,
      ExecStatus

\* Signing is all a contract does to execution_status, and it does so once.
LEMMA ContractStepCloses ==
  ASSUME TypeOK, ClosingInv, ContractNext, UNCHANGED <<ledgerVars, finalVars>>
  PROVE  ClosingInv' /\ [Closing!Next]_Closing!vars
<1> USE Phases, NoneAssumption, FinalAssumption, ContractAssumption
<1>1. UNCHANGED <<explanation, declared, settled, settlement, liquidation, desk,
                  locked>>
  BY DEF ledgerVars, finalVars, evaluationVars, explanationVars, settlementVars,
         liquidationVars
<1>2. CASE CnnvSign
  <2>1. /\ contract # "HOP_DONG_DA_KY" /\ contract' = "HOP_DONG_DA_KY"
        /\ exec' = "DANG_THUC_HIEN" /\ overtaken' = (exec \in Judged)
    BY <1>2 DEF CnnvSign
  <2>2. ~overtaken /\ (exec \in Judged => locked)
    BY <2>1 DEF ClosingInv
  <2>3. exec \in Before \cup Judged /\ exec' \in Before
    BY <2>1 DEF TypeOK, ExecStatus, Before, Judged
  <2>4. liquidation \in LiquidationStatus \ {"TL_HIEU_LUC"} => overtaken'
    BY <2>1, <2>2 DEF ClosingInv, OvertakenBefore, Judged
  <2>5. \A f \in Officers : desk[f] \in Declarations => overtaken'
    BY <2>1, <2>2 DEF ClosingInv, OvertakenBefore, Judged
  <2>6. ClosingInv'
    <3>1. exec' = "DANG_THUC_HIEN" /\ exec' \notin Judged
      BY <2>1 DEF Judged
    <3> QED
      BY <1>1, <2>1, <2>2, <2>3, <2>4, <2>5, <3>1
      DEF ClosingInv, OvertakenBefore, Judged
  <2>7. CASE exec \in Judged
    <3>1. PhaseOf[exec] # "running" /\ PhaseOf[exec'] = "running"
      BY <2>3, <2>7 DEF Judged
    <3>2. Closing!Overtake
      BY <1>1, <2>1, <2>2, <2>7, <3>1 DEF Closing!Overtake
    <3> QED
      BY <2>6, <3>2 DEF Closing!Next
  <2>8. CASE exec \notin Judged
    <3>1. PhaseOf[exec'] = PhaseOf[exec]
      BY <2>3, <2>8
    <3>2. overtaken \in BOOLEAN
      BY DEF TypeOK
    <3>3. overtaken' = overtaken
      BY <2>1, <2>2, <2>8, <3>2
    <3> QED
      BY <1>1, <2>6, <3>1, <3>3 DEF Closing!vars
  <2> QED
    BY <2>7, <2>8
<1>3. CASE ~CnnvSign
  <2>1. /\ UNCHANGED <<exec, overtaken>>
        /\ contract = "HOP_DONG_DA_KY" => contract' = contract
    BY <1>3 DEF ContractNext, GenerateDraft, UpdateClauses, ReplaceLines,
                SubmitToCnnv, CnnvConfirm, ReturnToDraft, SubmitToBgh, BghSign,
                Publish, ContractStatus
  <2>2. ClosingInv'
    BY <1>1, <2>1 DEF ClosingInv, OvertakenBefore
  <2> QED
    BY <1>1, <2>1, <2>2 DEF Closing!vars
<1> QED
  BY <1>2, <1>3

LEMMA LedgerStepCloses ==
  ASSUME TypeOK, ClosingInv, LedgerNext, UNCHANGED <<contractVars, finalVars>>
  PROVE  ClosingInv' /\ exec' = exec
<1>1. exec' = exec
  BY DEF LedgerNext, SavePayment, PkhPayment, SavePurchase, PkhPurchase,
         CsvcPurchase, Receive, TcReturn, TcRead, TcBook
<1>2. \A f \in Officers : desk'[f] \in Declarations => desk'[f] = desk[f]
  BY LedgerAssumption, FinalAssumption
  DEF LedgerNext, SavePayment, PkhPayment, SavePurchase, PkhPurchase, CsvcPurchase,
      Receive, TcReturn, TcRead, TcBook, TypeOK
<1> QED
  BY <1>1, <1>2 DEF ClosingInv, OvertakenBefore, contractVars, finalVars,
                    evaluationVars, settlementVars, liquidationVars

LEMMA EvaluationStepCloses ==
  ASSUME TypeOK, AcceptInv, ClosingInv, EvaluationNext,
         UNCHANGED contractVars
  PROVE  ClosingInv' /\ [Closing!Next]_Closing!vars
<1> USE Phases, NoneAssumption, FinalAssumption
<1>1. UNCHANGED <<contract, overtaken, liquidation, desk, settled, declared>>
  BY DEF EvaluationNext, Notify, EndDateNears, ReopenMinutes, SaveDossier,
         PkhDossier, DecideFail, SaveCouncil, SaveSheet, SaveMinutes, contractVars,
         ledgerVars, finalVars, settlementVars, liquidationVars
<1>2. CASE /\ exec' = exec \/ (exec \in Before /\ exec' \in Before)
           /\ UNCHANGED <<explanation, settlement, locked>>
  <2>1. ClosingInv'
    BY <1>1, <1>2 DEF ClosingInv, OvertakenBefore, Before, Judged
  <2>2. PhaseOf[exec'] = PhaseOf[exec]
    BY <1>2
  <2> QED
    BY <1>1, <1>2, <2>1, <2>2 DEF Closing!vars
<1>3. CASE \/ Notify \/ EndDateNears
           \/ \E p \in Panels : SaveCouncil(p)
           \/ \E u \in Members : SaveSheet(u)
           \/ \E yes \in BOOLEAN : SaveDossier(yes) \/ PkhDossier(yes)
  BY <1>2, <1>3
  DEF Notify, EndDateNears, SaveCouncil, SaveSheet, SaveDossier, PkhDossier, Before,
      ExecStatus, evaluationVars, explanationVars, settlementVars,
      finalVars
<1>4. ASSUME NEW yes \in BOOLEAN, DecideFail(yes)
      PROVE  ClosingInv' /\ [Closing!Next]_Closing!vars
  <2>1. UNCHANGED <<explanation, settlement, locked>>
    BY <1>4 DEF DecideFail, finalVars, evaluationVars, explanationVars,
                settlementVars
  <2>2. ClosingInv'
    BY <1>1, <1>4, <2>1
    DEF DecideFail, ClosingInv, OvertakenBefore, Before, Judged, ExecStatus
  <2>3. Closing!Repair \/ Closing!Stop
    BY <1>1, <1>4, <2>1 DEF DecideFail, Closing!Repair, Closing!Stop
  <2> QED
    BY <2>2, <2>3 DEF Closing!Next
<1>5. ASSUME NEW c \in Classification, SaveMinutes(c)
      PROVE  ClosingInv' /\ [Closing!Next]_Closing!vars
  <2>1. /\ explanation = None /\ declared = None /\ exec = "DGCK_HOP_HD"
        /\ ~locked
    BY <1>5 DEF SaveMinutes, AcceptInv, Accepted
  <2>2. exec' = Verdict(c) /\ explanation' = None /\ locked'
    BY <1>5, <2>1 DEF SaveMinutes
  <2>9. ~overtaken /\ settled = None
    BY <2>1 DEF ClosingInv
  <2>3. Verdict(c) \in ExecVerdicts
    BY <1>5 DEF Verdict, Classification, ExecVerdicts
  <2>4. settlement # "QT_CHO_TC"
    BY <2>1 DEF AcceptInv, SettlementStatus
  <2>5. ClosingInv'
    BY <1>1, <1>5, <2>1, <2>2, <2>3, <2>4, <2>9
    DEF ClosingInv, OvertakenBefore, ExecVerdicts, ExecStatus
  <2>6. PhaseOf[exec'] \in {"accepted", "repair", "failed"}
    BY <2>2, <2>3 DEF ExecVerdicts
  <2>7. PhaseOf[exec] = "running"
    BY <2>1 DEF Before
  <2>8. Closing!Judge
    BY <1>1, <2>1, <2>2, <2>6, <2>7, <2>9 DEF Closing!Judge, Closing!Verdicts
  <2> QED
    BY <2>5, <2>8 DEF Closing!Next
<1>6. CASE ReopenMinutes
  <2>1. /\ exec \in ExecVerdicts /\ exec' = "DGCK_HOP_HD"
        /\ explanation = None /\ explanation' = None /\ declared = None
    BY <1>6 DEF ReopenMinutes, CanReopen, ExecVerdicts
  <2>4. ~overtaken /\ settled = None
    BY <2>1 DEF ClosingInv, ExecVerdicts, Before
  <2>2. ClosingInv'
    BY <1>1, <1>6, <2>1, <2>4
    DEF ClosingInv, OvertakenBefore, AcceptInv, ExecVerdicts, Judged, ExecStatus
  <2>3. /\ PhaseOf[exec] \in {"accepted", "repair", "failed"}
        /\ PhaseOf[exec'] = "running"
    BY <2>1 DEF ExecVerdicts, Before
  <2>5. Closing!JudgeAgain
    BY <1>1, <2>1, <2>3 DEF Closing!JudgeAgain, Closing!Verdicts
  <2> QED
    BY <2>2, <2>5 DEF Closing!Next
<1> QED
  BY <1>3, <1>4, <1>5, <1>6 DEF EvaluationNext

LEMMA ExplanationStepCloses ==
  ASSUME TypeOK, AcceptInv, ClosingInv, ExplanationNext, UNCHANGED contractVars
  PROVE  ClosingInv' /\ [Closing!Next]_Closing!vars
<1> USE Phases, NoneAssumption, FinalAssumption
<1>1. /\ UNCHANGED <<contract, overtaken, liquidation, desk, settled, declared,
                     locked>>
      /\ exec = "DGCK_CHINH_SUA"
      /\ exec' = exec \/ exec' = "DGCK_CHO_QUYET_TOAN"
  BY DEF ExplanationNext, SubmitExplanation, SecretaryConfirms, ChairConfirms,
         ReturnExplanation, contractVars, ledgerVars, settlementVars,
         evaluationVars, liquidationVars
<1>6. ~overtaken /\ locked
  BY <1>1 DEF ClosingInv, Before, Judged
<1>7. settlement' = settlement \/ settlement = None
  BY DEF ExplanationNext, SubmitExplanation, SecretaryConfirms, ChairConfirms,
         ReturnExplanation, settlementVars
<1>2. ClosingInv'
  BY <1>1, <1>6, <1>7
  DEF ClosingInv, OvertakenBefore, Judged, ExecStatus, SettlementStatus
<1>3. CASE SubmitExplanation
  <2>1. Closing!Answer
    BY <1>1, <1>3 DEF SubmitExplanation, ExplanationStatus, Closing!Answer
  <2> QED
    BY <1>2, <2>1 DEF Closing!Next
<1>4. CASE SecretaryConfirms \/ ReturnExplanation
  <2>1. explanation # None /\ explanation' # None /\ exec' = exec
    BY <1>4 DEF SecretaryConfirms, ReturnExplanation, ExplanationStatus
  <2> QED
    BY <1>1, <1>2, <2>1 DEF Closing!vars
<1>5. CASE ChairConfirms
  <2>1. /\ explanation # None /\ explanation' # None
        /\ exec' = "DGCK_CHO_QUYET_TOAN"
    BY <1>5 DEF ChairConfirms, ExplanationStatus
  <2>2. Closing!Accept
    BY <1>1, <2>1 DEF Closing!Accept
  <2> QED
    BY <1>2, <2>2 DEF Closing!Next
<1> QED
  BY <1>3, <1>4, <1>5 DEF ExplanationNext

LEMMA SettlementStepCloses ==
  ASSUME OwnSettlement, TypeOK, AcceptInv, ClosingInv, SettlementNext,
         UNCHANGED contractVars
  PROVE  ClosingInv' /\ [Closing!Next]_Closing!vars
<1> USE Phases, NoneAssumption, FinalAssumption
<1>1. UNCHANGED <<contract, overtaken, explanation, locked>>
  BY DEF SettlementNext, AckVariance, PkhSettlement, SaveSettlement,
         TcReturnsSettlement, TcReadsSettlement, TcSettles, contractVars,
         evaluationVars, explanationVars, finalVars
<1>2. ASSUME NEW yes \in BOOLEAN, NEW d \in Declarations, SaveSettlement(d, yes)
      PROVE  ClosingInv' /\ [Closing!Next]_Closing!vars
  <2>1. /\ exec = "DGCK_CHO_QUYET_TOAN" /\ declared' # None
        /\ UNCHANGED <<exec, desk, settled, liquidation>>
    BY <1>2 DEF SaveSettlement, ledgerVars, liquidationVars
  <2>2. settlement \notin {"QT_CHO_TC", "QT_DONE"}
    BY <1>2 DEF SaveSettlement, SettlementStatus
  <2>3. ClosingInv'
    BY <1>1, <2>1, <2>2 DEF ClosingInv, OvertakenBefore
  <2>4. Closing!Answer
    BY <1>1, <2>1 DEF Closing!Answer
  <2> QED
    BY <2>3, <2>4 DEF Closing!Next
<1>3. CASE \/ AckVariance
           \/ \E yes \in BOOLEAN : PkhSettlement(yes)
           \/ \E f \in Officers : TcReturnsSettlement(f)
  <2>1. UNCHANGED <<exec, desk, settled, declared, liquidation>>
    BY <1>3 DEF AckVariance, PkhSettlement, TcReturnsSettlement, ledgerVars,
                liquidationVars
  <2>2. \A f \in Officers : desk[f] \in Declarations => settlement' = settlement
    BY <1>3 DEF AckVariance, PkhSettlement, TcReturnsSettlement, OwnSettlement,
                ClosingInv
  <2>4. settlement = "QT_DONE" => settlement' = settlement
    BY <1>3 DEF AckVariance, PkhSettlement, TcReturnsSettlement
  <2>3. ClosingInv'
    BY <1>1, <2>1, <2>2, <2>4 DEF ClosingInv, OvertakenBefore
  <2> QED
    BY <1>1, <2>1, <2>3 DEF Closing!vars
<1>4. ASSUME NEW f \in Officers, TcReadsSettlement(f)
      PROVE  ClosingInv' /\ [Closing!Next]_Closing!vars
  <2>1. UNCHANGED <<exec, settlement, settled, declared, liquidation>>
    BY <1>4 DEF TcReadsSettlement, liquidationVars
  <2>2. ClosingInv'
    <3>1. \A g \in Officers \ {f} : desk'[g] = desk[g] /\ desk[g] \notin Declarations
      BY <1>4 DEF TcReadsSettlement, OwnSettlement, TypeOK
    <3> QED
      BY <1>1, <1>4, <2>1, <3>1 DEF TcReadsSettlement, ClosingInv, OvertakenBefore
  <2> QED
    BY <1>1, <2>1, <2>2 DEF Closing!vars
<1>5. ASSUME NEW f \in Officers, TcSettles(f)
      PROVE  ClosingInv' /\ [Closing!Next]_Closing!vars
  <2>1. /\ exec = "DGCK_CHO_QUYET_TOAN" \/ OvertakenBefore
        /\ exec' = "DGCK_CHO_THANH_LY" /\ settlement' = "QT_DONE"
        /\ settled = None /\ settled' \in Declarations
        /\ declared # None /\ declared' = declared
        /\ desk' = [desk EXCEPT ![f] = None]
    BY <1>5 DEF TcSettles, ClosingInv, AcceptInv
  <2>5. locked
    BY <2>1 DEF ClosingInv, OvertakenBefore, Judged
  <2>2. \A g \in Officers : desk'[g] \notin Declarations
    BY <1>5, <2>1 DEF TcSettles, ClosingInv, TypeOK
  <2>3. ClosingInv'
    BY <1>1, <2>1, <2>2, <2>5 DEF ClosingInv, OvertakenBefore, ExecStatus
  <2>6. /\ PhaseOf[exec] = "accepted" \/ (overtaken /\ PhaseOf[exec] = "running")
        /\ PhaseOf[exec'] = "settled"
    BY <2>1 DEF OvertakenBefore
  <2>4. Closing!CloseAccounts
    BY <1>1, <2>1, <2>6 DEF Closing!CloseAccounts, Closing!OvertakenRun
  <2> QED
    BY <2>3, <2>4 DEF Closing!Next
<1> QED
  BY <1>2, <1>3, <1>4, <1>5 DEF SettlementNext

LEMMA LiquidationStepCloses ==
  ASSUME TypeOK, ClosingInv, LiquidationNext, UNCHANGED contractVars
  PROVE  ClosingInv' /\ [Closing!Next]_Closing!vars
<1> USE Phases, NoneAssumption, FinalAssumption
<1>1. UNCHANGED <<contract, overtaken, explanation, declared, settled, settlement,
                  desk, locked>>
  BY DEF LiquidationNext, SaveLiquidation, SubmitLiquidation, BghLiquidation,
         PublishLiquidation, CnnvLiquidation, contractVars, ledgerVars,
         evaluationVars, explanationVars, settlementVars
<1>2. CASE CnnvLiquidation
  <2>1. /\ exec = "DGCK_CHO_THANH_LY" \/ OvertakenBefore
        /\ exec' = "HOAN_THANH" /\ liquidation' = "TL_HIEU_LUC"
        /\ settled # None /\ liquidation \in LiquidationStatus
    BY <1>2 DEF CnnvLiquidation, ClosingInv, LiquidationStatus
  <2>4. locked
    BY <2>1 DEF ClosingInv, OvertakenBefore, Judged
  <2>5. \A f \in Officers : desk[f] \notin Declarations
    BY <2>1 DEF ClosingInv, SettlementStatus
  <2>2. ClosingInv'
    BY <1>1, <2>1, <2>4, <2>5 DEF ClosingInv, OvertakenBefore, ExecStatus
  <2>6. /\ PhaseOf[exec] = "settled" \/ (overtaken /\ PhaseOf[exec] = "running")
        /\ PhaseOf[exec'] = "done"
    BY <2>1 DEF OvertakenBefore
  <2>3. Closing!Finish
    BY <1>1, <2>1, <2>6 DEF Closing!Finish, Closing!OvertakenRun
  <2> QED
    BY <2>2, <2>3 DEF Closing!Next
<1>3. CASE ~CnnvLiquidation
  <2>1. /\ exec = "DGCK_CHO_THANH_LY" \/ OvertakenBefore
        /\ exec' = exec
    BY <1>3 DEF LiquidationNext, SaveLiquidation, SubmitLiquidation, BghLiquidation,
                PublishLiquidation, ClosingInv, LiquidationStatus
  <2>3. settled # None
    BY <1>3 DEF LiquidationNext, SaveLiquidation, SubmitLiquidation, BghLiquidation,
                PublishLiquidation, ClosingInv, LiquidationStatus
  <2>2. ClosingInv'
    BY <1>1, <2>1, <2>3 DEF ClosingInv, OvertakenBefore
  <2> QED
    BY <1>1, <2>1, <2>2 DEF Closing!vars
<1> QED
  BY <1>2, <1>3

LEMMA ClosingStep ==
  ASSUME TypeOK, AcceptInv, ClosingInv, [Next]_vars, [OwnSettlement]_vars
  PROVE  ClosingInv' /\ [Closing!Next]_Closing!vars
<1>1. CASE ContractNext /\ UNCHANGED <<ledgerVars, finalVars>>
  BY <1>1, ContractStepCloses
<1>2. CASE LedgerNext /\ UNCHANGED <<contractVars, finalVars>>
  BY <1>2, LedgerStepCloses
  DEF Closing!vars, contractVars, finalVars, explanationVars, settlementVars
<1>3. CASE FinalNext /\ UNCHANGED contractVars /\ ~UNCHANGED vars
  BY <1>3, EvaluationStepCloses, ExplanationStepCloses, SettlementStepCloses,
     LiquidationStepCloses DEF FinalNext
<1>4. CASE UNCHANGED vars
  BY <1>4 DEF vars, contractVars, ledgerVars, finalVars, evaluationVars,
              explanationVars, settlementVars, liquidationVars, ClosingInv,
              OvertakenBefore, Closing!vars
<1> QED
  BY <1>1, <1>2, <1>3, <1>4 DEF Next

\* The final evaluation, settlement and liquidation, with all their requests,
\* returns and reopened minutes and a contract signed at any time, implement
\* ProjectClosing.
THEOREM FinalCaseImplementsClosing ==
  Spec /\ [][OwnSettlement]_vars => ClosesAsPromised
<1> DEFINE Inv == TypeOK /\ AcceptInv /\ ClosingInv
<1>1. Init => Inv /\ Closing!Init
  <2>1. Init => Closing!Init
    BY Phases DEF Init, ContractInit, FinalInit, Closing!Init, Before
  <2> QED
    BY <2>1, TypeInit, AcceptInvInit, ClosingInvInit
<1>2. Inv /\ [Next]_vars /\ [OwnSettlement]_vars
         => Inv' /\ [Closing!Next]_Closing!vars
  BY TypeStep, AcceptInvStep, ClosingStep
<1> QED
  BY <1>1, <1>2, PTL DEF Spec, ClosesAsPromised, Closing!Spec
=============================================================================
