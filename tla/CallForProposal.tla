--------------------------- MODULE CallForProposal ---------------------------
(***************************************************************************)
(* A call for proposals, from the draft to the end of its submission       *)
(* period: one action per request of CallForProposalService. Publishing    *)
(* hands the call to the broadcast, see CfpBroadcast.                      *)
(***************************************************************************)
EXTENDS Integers, FiniteSets

CONSTANT None

VARIABLES
    status,    \* call_for_proposals.status
    agreed,    \* history: it says what BGH approved
    period     \* submission_periods.status, or None before there is a row

callVars == <<status, agreed, period>>

CfpStatus == {"DRAFT", "PENDING_TRUONG_PHONG", "PENDING_BGH", "RETURNED",
              "APPROVED", "PUBLISHED"}

CallInit == status = "DRAFT" /\ agreed = FALSE /\ period = None

Update ==
    /\ status \in {"DRAFT", "RETURNED"}
    /\ agreed' = FALSE
    /\ UNCHANGED <<status, period>>

\* The head of the office submits past its own desk.
Submit(head) ==
    /\ status \in {"DRAFT", "RETURNED"}
    /\ status' = IF head THEN "PENDING_BGH" ELSE "PENDING_TRUONG_PHONG"
    /\ UNCHANGED <<agreed, period>>

HeadApprove ==
    /\ status = "PENDING_TRUONG_PHONG"
    /\ status' = "PENDING_BGH"
    /\ UNCHANGED <<agreed, period>>

Approve ==
    /\ status = "PENDING_BGH"
    /\ status' = "APPROVED" /\ agreed' = TRUE
    /\ UNCHANGED period

ReturnToPkh ==
    /\ status \in {"PENDING_BGH", "PENDING_TRUONG_PHONG"}
    /\ status' = "RETURNED"
    /\ UNCHANGED <<agreed, period>>

\* The status and the period in one transaction; a call has one period.
Publish ==
    /\ status = "APPROVED" /\ period = None
    /\ status' = "PUBLISHED" /\ period' = "OPEN"
    /\ UNCHANGED agreed

\* The call stays PUBLISHED. An extension (extend) only moves the two
\* deadlines of an open period, which nothing here reads.
Close ==
    /\ status = "PUBLISHED" /\ period = "OPEN"
    /\ period' = "CLOSED"
    /\ UNCHANGED <<status, agreed>>

CallNext ==
    \/ Update \/ \E head \in BOOLEAN : Submit(head)
    \/ HeadApprove \/ Approve \/ ReturnToPkh \/ Close
=============================================================================
