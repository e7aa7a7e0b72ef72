------------------------------ MODULE Contract ------------------------------
(***************************************************************************)
(* The contract (BM.06) of a published project, from its first draft to    *)
(* the principal investigator's signature, which starts the execution:     *)
(*   app/services/project_contract_flow_service.ts                         *)
(*   app/services/project_contract_service.ts       generateDraft          *)
(*   app/services/project_budget_service.ts         replaceLines           *)
(***************************************************************************)
EXTENDS ExecutionStatus

VARIABLES
    contract,   \* project_contracts.status; None before the row exists
    allocated,  \* the ten budget lines are there, summing to the approved sum
    confirmed,  \* cnnv_confirmed_at is set
    published,  \* published_at is set
    agreed,     \* history: the text and the lines are those last confirmed
    overtaken   \* history: signed when the project had already been judged

contractVars ==
    <<contract, allocated, confirmed, published, agreed, overtaken>>

ContractStatus ==
    {"HOP_DONG_DRAFT", "HOP_DONG_CHO_CNNV", "HOP_DONG_CHO_KY",
     "HOP_DONG_CHO_PHAT_HANH", "HOP_DONG_DA_KY"}

ASSUME ContractAssumption == None \notin ContractStatus

ContractInit ==
    /\ contract \in {None, "HOP_DONG_DRAFT"}
    /\ allocated = FALSE
    /\ confirmed = FALSE
    /\ published = FALSE
    /\ agreed = FALSE
    /\ overtaken = FALSE

\* The first draft, or a draft generated anew from the outline.
GenerateDraft ==
    /\ contract \in {None, "HOP_DONG_DRAFT"}
    /\ contract' = "HOP_DONG_DRAFT"
    /\ agreed' = FALSE
    /\ UNCHANGED <<exec, allocated, confirmed, published, overtaken>>

\* Mutant: the office edits the text while the investigator looks at it.
UpdateClausesLate ==
    /\ contract \in {"HOP_DONG_DRAFT", "HOP_DONG_CHO_CNNV"}
    /\ agreed' = FALSE
    /\ UNCHANGED <<exec, contract, allocated, confirmed, published, overtaken>>

UpdateClauses ==
    /\ contract = "HOP_DONG_DRAFT"
    /\ agreed' = FALSE
    /\ UNCHANGED <<exec, contract, allocated, confirmed, published, overtaken>>

ReplaceLines ==
    /\ contract = "HOP_DONG_DRAFT"
    /\ allocated' = TRUE
    /\ agreed' = FALSE
    /\ UNCHANGED <<exec, contract, confirmed, published, overtaken>>

SubmitToCnnv ==
    /\ contract = "HOP_DONG_DRAFT" /\ allocated
    /\ contract' = "HOP_DONG_CHO_CNNV"
    /\ confirmed' = FALSE
    /\ UNCHANGED <<exec, allocated, published, agreed, overtaken>>

CnnvConfirm ==
    /\ contract = "HOP_DONG_CHO_CNNV"
    /\ confirmed' = TRUE
    /\ agreed' = TRUE
    /\ UNCHANGED <<exec, contract, allocated, published, overtaken>>

\* cnnvReturn and bghReturn
ReturnToDraft ==
    /\ contract \in {"HOP_DONG_CHO_CNNV", "HOP_DONG_CHO_KY"}
    /\ contract' = "HOP_DONG_DRAFT"
    /\ confirmed' = FALSE
    /\ UNCHANGED <<exec, allocated, published, agreed, overtaken>>

SubmitToBgh ==
    /\ contract = "HOP_DONG_CHO_CNNV" /\ confirmed
    /\ contract' = "HOP_DONG_CHO_KY"
    /\ UNCHANGED <<exec, allocated, confirmed, published, agreed, overtaken>>

BghSign ==
    /\ contract = "HOP_DONG_CHO_KY"
    /\ contract' = "HOP_DONG_CHO_PHAT_HANH"
    /\ UNCHANGED <<exec, allocated, confirmed, published, agreed, overtaken>>

Publish ==
    /\ contract = "HOP_DONG_CHO_PHAT_HANH"
    /\ published' = TRUE
    /\ UNCHANGED <<exec, contract, allocated, confirmed, agreed, overtaken>>

\* The transaction of cnnvSign: the execution starts, whatever
\* execution_status was before.
CnnvSign ==
    /\ contract = "HOP_DONG_CHO_PHAT_HANH" /\ published
    /\ contract' = "HOP_DONG_DA_KY"
    /\ exec' = "DANG_THUC_HIEN"
    /\ overtaken' = (exec \in Judged)
    /\ UNCHANGED <<allocated, confirmed, published, agreed>>

ContractNext ==
    \/ GenerateDraft \/ UpdateClauses \/ ReplaceLines
    \/ SubmitToCnnv \/ CnnvConfirm \/ ReturnToDraft
    \/ SubmitToBgh \/ BghSign \/ Publish \/ CnnvSign
=============================================================================
