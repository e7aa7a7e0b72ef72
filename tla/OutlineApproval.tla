--------------------------- MODULE OutlineApproval ---------------------------
(***************************************************************************)
(* From the minutes of the defence to the published assignment decision:   *)
(* the council's conclusion, the revision and its three gates (PKH,        *)
(* secretary, chair), the decision of BGH, the publication by HC.          *)
(*   app/services/project_outline_minutes_service.ts   finalize, reopen    *)
(*   app/services/project_outline_revision_service.ts  the revision        *)
(*   app/services/project_outline_final_approval_service.ts   BGH and HC   *)
(* One outline, one request at a time; a request that saves more than once *)
(* may be lost between two of its saves (left says which save is next).    *)
(***************************************************************************)
EXTENDS Naturals, Sequences

CONSTANTS
    MaxText,      \* bound: how many texts the team writes
    MaxVersions,  \* bound: rows of project_outline_versions
    MaxLost       \* bound: requests lost between two of their saves

ASSUME ApprovalAssumption ==
    MaxText \in Nat /\ MaxVersions \in Nat /\ MaxLost \in Nat

VARIABLES
    council,    \* status of the defence session
    minutes,    \* its item for the outline: conclusion and revision deadline
    outline,    \* project_outlines.status
    gate,       \* revision_gate_status
    conclusion, \* defense_conclusion, set with defense_finalized_at
    deadline,   \* revision_deadline, as the clock sees it
    reminded,   \* revision_reminder_sent_at is set
    text,       \* the text in force: form, members, budget lines, file
    versions,   \* the frozen versions, oldest first
    baseline,   \* revision_baseline_version_id, 0 for null
    submitted,  \* revision_submitted_version_id, 0 for null
    signed,     \* bgh_signed_at is set
    rejected,   \* bgh_reject_reason is set
    funded,     \* approved_budget is set
    opened,     \* module5_opened
    drafted,    \* the draft of the contract exists
    left,       \* the save the running request does next
    losses,     \* requests lost so far
    passed      \* history: the versions PKH and the chair let through last

councilVars == <<council, minutes, conclusion>>
revisionVars == <<deadline, reminded, text, versions, baseline, submitted>>
decisionVars == <<signed, rejected, funded, opened, drafted>>
approvalVars == <<councilVars, outline, gate, revisionVars, decisionVars, left,
                  losses, passed>>

Results  == {"DE_XUAT_XET", "HOAN_THIEN", "KHONG_DE_XUAT"}
Deadline == {"none", "far", "near", "past"}
Decided  == {"CHO_HC_PHAT_HANH_QD", "SAN_SANG_THUC_HIEN", "KHONG_PHE_DUYET"}
OutlineStatus ==
    {"BAOVE_PENDING", "BAOVE_KHONG_DAT", "CHINH_SUA_TM",
     "CHO_PKH_DUYET_TM", "CHO_HD_XAC_NHAN_TM", "CHO_BGH_DUYET_TM"} \cup Decided
Gate     == {"null", "CHO_PKH", "CHO_THU_KY", "CHO_CHU_TICH", "CHO_BGH"}

\* The session is published and met; the outline waits for its conclusion.
ApprovalInit ==
    /\ council = "PUBLISHED"
    /\ minutes = [result |-> "null", due |-> "none"]
    /\ outline = "BAOVE_PENDING" /\ gate = "null" /\ conclusion = "null"
    /\ deadline = "none" /\ reminded = FALSE
    /\ text = 0 /\ versions = <<>> /\ baseline = 0 /\ submitted = 0
    /\ signed = FALSE /\ rejected = FALSE /\ funded = FALSE
    /\ opened = FALSE /\ drafted = FALSE
    /\ left = "none" /\ losses = 0
    /\ passed = [pkh |-> 0, chair |-> 0]

----------------------------------------------------------------------------
(* The minutes.                                                            *)

\* The conclusion is saved with the session first.
Finalize(result, due) ==
    /\ left = "none"
    /\ council = "PUBLISHED"
    /\ council' = "FINALIZED"
    /\ minutes' = [result |-> result, due |-> due]
    /\ left' = "apply"
    /\ UNCHANGED <<conclusion, outline, gate, revisionVars, decisionVars, losses,
                   passed>>

Conclusion(result) ==
    CASE result = "DE_XUAT_XET"   -> "THONG_QUA"
      [] result = "HOAN_THIEN"    -> "THONG_QUA_DIEU_CHINH"
      [] result = "KHONG_DE_XUAT" -> "KHONG_THONG_QUA"

\* applyOutlineResult up to its first save: a passed outline keeps its status
\* until it is queued.
ApplyResult ==
    /\ left = "apply"
    /\ conclusion' = Conclusion(minutes.result)
    /\ outline' = CASE minutes.result = "DE_XUAT_XET"   -> outline
                   [] minutes.result = "HOAN_THIEN"    -> "CHINH_SUA_TM"
                   [] minutes.result = "KHONG_DE_XUAT" -> "BAOVE_KHONG_DAT"
    /\ left' = CASE minutes.result = "DE_XUAT_XET"   -> "enqueue"
                 [] minutes.result = "HOAN_THIEN"    -> "baseline"
                 [] minutes.result = "KHONG_DE_XUAT" -> "none"
    /\ UNCHANGED <<council, minutes, gate, revisionVars, decisionVars, losses,
                   passed>>

\* enqueueForBgh: what an earlier decision left is cleared.
EnqueueForBgh ==
    /\ outline' = "CHO_BGH_DUYET_TM"
    /\ gate' = "CHO_BGH"
    /\ signed' = FALSE /\ rejected' = FALSE
    /\ UNCHANGED <<funded, opened, drafted>>

Enqueue ==
    /\ left = "enqueue"
    /\ EnqueueForBgh
    /\ left' = "none"
    /\ UNCHANGED <<councilVars, revisionVars, losses, passed>>

Baselines == {i \in 1..Len(versions) : versions[i].kind = "BASELINE_AFTER_DEFENSE"}
BaselineInTable == IF Baselines = {} THEN 0 ELSE CHOOSE i \in Baselines : TRUE

Freeze(kind, parent) ==
    versions' = Append(versions, [kind |-> kind, text |-> text, parent |-> parent])

\* Mutant: every conclusion freezes a baseline of its own.
FreezeBaselineAgain ==
    /\ left = "baseline"
    /\ Len(versions) < MaxVersions
    /\ Freeze("BASELINE_AFTER_DEFENSE", 0)
    /\ left' = "revision"
    /\ UNCHANGED <<councilVars, outline, gate, deadline, reminded, text, baseline,
                   submitted, decisionVars, losses, passed>>

\* openRevisionPeriod: the text the council saw is frozen, once; then the
\* revision begins.
FreezeBaseline ==
    /\ left = "baseline"
    /\ IF Baselines # {} THEN UNCHANGED versions
       ELSE Len(versions) < MaxVersions /\ Freeze("BASELINE_AFTER_DEFENSE", 0)
    /\ left' = "revision"
    /\ UNCHANGED <<councilVars, outline, gate, deadline, reminded, text, baseline,
                   submitted, decisionVars, losses, passed>>
OpenRevision ==
    /\ left = "revision"
    /\ baseline' = BaselineInTable
    /\ deadline' = minutes.due
    /\ submitted' = 0
    /\ reminded' = FALSE
    /\ left' = "none"
    /\ UNCHANGED <<councilVars, outline, gate, text, versions, decisionVars, losses,
                   passed>>

\* Mutant: closed minutes may always be reopened.
CanReopenAny == council = "FINALIZED"

CanReopenMinutes ==
    /\ council = "FINALIZED"
    /\ ~signed
    /\ outline \notin Decided

\* reopenMinutes: the outline goes back to its defence, then the session opens.
ReopenMinutes ==
    /\ left = "none"
    /\ CanReopenMinutes
    /\ left' = "unlock"
    /\ IF \/ outline \in {"CHO_BGH_DUYET_TM", "CHINH_SUA_TM", "BAOVE_KHONG_DAT"}
          \/ conclusion # "null"
       THEN /\ outline' = "BAOVE_PENDING"
            /\ gate' = "null"
            /\ conclusion' = "null"
            /\ signed' = FALSE /\ rejected' = FALSE
       ELSE UNCHANGED <<outline, gate, conclusion, signed, rejected>>
    /\ UNCHANGED <<council, minutes, revisionVars, funded, opened, drafted, losses,
                   passed>>
UnlockSession ==
    /\ left = "unlock"
    /\ council' = "PUBLISHED"
    /\ left' = "none"
    /\ UNCHANGED <<minutes, conclusion, outline, gate, revisionVars, decisionVars,
                   losses, passed>>

----------------------------------------------------------------------------
(* The revision.                                                           *)

\* Mutant: the text may be written until the revision leaves PKH.
WriteTextUnderReview ==
    /\ left = "none"
    /\ outline \in {"CHINH_SUA_TM", "CHO_PKH_DUYET_TM"} /\ deadline # "past"
    /\ text < MaxText
    /\ text' = text + 1
    /\ UNCHANGED <<councilVars, outline, gate, deadline, reminded, versions,
                   baseline, submitted, decisionVars, left, losses, passed>>

\* update: the owner or the principal investigator saves another text.
WriteText ==
    /\ left = "none"
    /\ outline = "CHINH_SUA_TM" /\ deadline # "past"
    /\ text < MaxText
    /\ text' = text + 1
    /\ UNCHANGED <<councilVars, outline, gate, deadline, reminded, versions,
                   baseline, submitted, decisionVars, left, losses, passed>>

\* submitRevision inserts the version, then saves the outline.
SubmitRevision ==
    /\ left = "none"
    /\ outline = "CHINH_SUA_TM" /\ deadline # "past"
    /\ Len(versions) < MaxVersions
    /\ Freeze("REVISION_SUBMITTED",
              IF baseline # 0 THEN baseline ELSE BaselineInTable)
    /\ left' = "submit"
    /\ UNCHANGED <<councilVars, outline, gate, deadline, reminded, text, baseline,
                   submitted, decisionVars, losses, passed>>

HandInRevision ==
    /\ left = "submit"
    /\ submitted' = Len(versions)
    /\ baseline' = versions[Len(versions)].parent
    /\ gate' = "CHO_PKH"
    /\ outline' = "CHO_PKH_DUYET_TM"
    /\ left' = "none"
    /\ UNCHANGED <<councilVars, deadline, reminded, text, versions, decisionVars,
                   losses, passed>>

PkhAccepts ==
    /\ left = "none"
    /\ outline = "CHO_PKH_DUYET_TM" /\ gate = "CHO_PKH"
    /\ gate' = "CHO_THU_KY"
    /\ outline' = "CHO_HD_XAC_NHAN_TM"
    /\ passed' = [passed EXCEPT !.pkh = submitted]
    /\ UNCHANGED <<councilVars, revisionVars, decisionVars, left, losses>>

SecretaryConfirms ==
    /\ left = "none"
    /\ outline = "CHO_HD_XAC_NHAN_TM" /\ gate = "CHO_THU_KY"
    /\ gate' = "CHO_CHU_TICH"
    /\ UNCHANGED <<councilVars, outline, revisionVars, decisionVars, left, losses,
                   passed>>

\* The chair need not wait for the secretary.
ChairConfirms ==
    /\ left = "none"
    /\ outline = "CHO_HD_XAC_NHAN_TM" /\ gate \in {"CHO_THU_KY", "CHO_CHU_TICH"}
    /\ EnqueueForBgh
    /\ passed' = [passed EXCEPT !.chair = submitted]
    /\ UNCHANGED <<councilVars, revisionVars, left, losses>>

\* Mutant: the gate stays where the revision was returned from.
ReturnRevisionOpenGate ==
    /\ left = "none"
    /\ \/ outline = "CHO_PKH_DUYET_TM" /\ gate = "CHO_PKH"
       \/ outline = "CHO_HD_XAC_NHAN_TM" /\ gate \in {"CHO_THU_KY", "CHO_CHU_TICH"}
    /\ outline' = "CHINH_SUA_TM"
    /\ UNCHANGED <<councilVars, gate, revisionVars, decisionVars, left, losses,
                   passed>>

\* traLaiBanHoanThien, from any of the three gates.
ReturnRevision ==
    /\ left = "none"
    /\ \/ outline = "CHO_PKH_DUYET_TM" /\ gate = "CHO_PKH"
       \/ outline = "CHO_HD_XAC_NHAN_TM" /\ gate \in {"CHO_THU_KY", "CHO_CHU_TICH"}
    /\ outline' = "CHINH_SUA_TM"
    /\ gate' = "null"
    /\ UNCHANGED <<councilVars, revisionVars, decisionVars, left, losses, passed>>

\* extendDeadline. The copy of the deadline on the session is not modelled.
ExtendRevision ==
    /\ left = "none"
    /\ outline = "CHINH_SUA_TM"
    /\ deadline' = "far"
    /\ reminded' = FALSE
    /\ UNCHANGED <<councilVars, outline, gate, text, versions, baseline, submitted,
                   decisionVars, left, losses, passed>>

\* maybeSendReminder, when somebody opens the outline.
SendReminder ==
    /\ left = "none"
    /\ outline = "CHINH_SUA_TM" /\ ~reminded /\ deadline = "near"
    /\ reminded' = TRUE
    /\ UNCHANGED <<councilVars, outline, gate, deadline, text, versions, baseline,
                   submitted, decisionVars, left, losses, passed>>

\* The clock.
TimePasses ==
    /\ deadline' = CASE deadline = "far"  -> "near"
                     [] deadline = "near" -> "past"
                     [] OTHER -> deadline
    /\ deadline' # deadline
    /\ UNCHANGED <<councilVars, outline, gate, reminded, text, versions, baseline,
                   submitted, decisionVars, left, losses, passed>>

----------------------------------------------------------------------------
(* The decision and its publication.                                       *)

BghApprove ==
    /\ left = "none"
    /\ outline = "CHO_BGH_DUYET_TM"
    /\ funded' = TRUE /\ rejected' = FALSE /\ signed' = TRUE
    /\ gate' = "null"
    /\ outline' = "CHO_HC_PHAT_HANH_QD"
    /\ UNCHANGED <<councilVars, revisionVars, opened, drafted, left, losses,
                   passed>>

BghReject ==
    /\ left = "none"
    /\ outline = "CHO_BGH_DUYET_TM"
    /\ rejected' = TRUE /\ signed' = TRUE
    /\ gate' = "null"
    /\ outline' = "KHONG_PHE_DUYET"
    /\ UNCHANGED <<councilVars, revisionVars, funded, opened, drafted, left, losses,
                   passed>>

HcPublish ==
    /\ left = "none"
    /\ outline = "CHO_HC_PHAT_HANH_QD" /\ signed /\ funded
    /\ outline' = "SAN_SANG_THUC_HIEN"
    /\ opened' = TRUE
    /\ left' = "draft"
    /\ UNCHANGED <<councilVars, gate, revisionVars, signed, rejected, funded,
                   drafted, losses, passed>>

\* generateDraft at the end of hcPublish, whose failure is only logged; the
\* office may ask for it later.
DraftContract ==
    /\ left \in {"none", "draft"}
    /\ opened
    /\ \/ drafted' = TRUE
       \/ left = "draft" /\ UNCHANGED drafted
    /\ left' = "none"
    /\ UNCHANGED <<councilVars, outline, gate, revisionVars, signed, rejected,
                   funded, opened, losses, passed>>

\* The process stops, or a query fails, between two saves of a request.
LoseRequest ==
    /\ left # "none" /\ losses < MaxLost
    /\ left' = "none"
    /\ losses' = losses + 1
    /\ UNCHANGED <<councilVars, outline, gate, revisionVars, decisionVars, passed>>

----------------------------------------------------------------------------
MinutesNext ==
    \/ \E result \in Results, due \in Deadline : Finalize(result, due)
    \/ ApplyResult \/ Enqueue \/ FreezeBaseline \/ OpenRevision
    \/ ReopenMinutes \/ UnlockSession

RevisionNext ==
    \/ WriteText \/ SubmitRevision \/ HandInRevision
    \/ PkhAccepts \/ SecretaryConfirms \/ ChairConfirms \/ ReturnRevision
    \/ ExtendRevision \/ SendReminder \/ TimePasses

DecisionNext ==
    BghApprove \/ BghReject \/ HcPublish \/ DraftContract

ApprovalNext == MinutesNext \/ RevisionNext \/ DecisionNext \/ LoseRequest

ApprovalSpec == ApprovalInit /\ [][ApprovalNext]_approvalVars

----------------------------------------------------------------------------
(* Properties.                                                             *)

\* Every column has a value of its type.
ApprovalTypeOK ==
    /\ council \in {"PUBLISHED", "FINALIZED"}
    /\ minutes \in [result : Results \cup {"null"}, due : Deadline]
    /\ outline \in OutlineStatus /\ gate \in Gate
    /\ conclusion \in {"null", "THONG_QUA", "THONG_QUA_DIEU_CHINH",
                       "KHONG_THONG_QUA"}
    /\ deadline \in Deadline /\ reminded \in BOOLEAN
    /\ text \in 0..MaxText
    /\ Len(versions) <= MaxVersions
    /\ versions \in Seq([kind : {"BASELINE_AFTER_DEFENSE", "REVISION_SUBMITTED"},
                         text : 0..MaxText, parent : 0..MaxVersions])
    /\ baseline \in 0..MaxVersions /\ submitted \in 0..Len(versions)
    /\ signed \in BOOLEAN /\ rejected \in BOOLEAN /\ funded \in BOOLEAN
    /\ opened \in BOOLEAN /\ drafted \in BOOLEAN
    /\ left \in {"none", "apply", "enqueue", "baseline", "revision", "unlock",
                 "submit", "draft"}
    /\ left = "submit" => versions # <<>>
    /\ losses \in 0..MaxLost
    /\ passed \in [pkh : 0..MaxVersions, chair : 0..MaxVersions]

\* The text BGH is asked about, and decides on, after a revision is the version
\* last handed in, and PKH and the chair have let that very version through,
\* however often it was returned, written anew or the minutes were reopened.
RevisedAsConfirmed ==
    conclusion = "THONG_QUA_DIEU_CHINH"
        /\ outline \in {"CHO_BGH_DUYET_TM"} \cup Decided =>
        /\ submitted # 0 /\ text = versions[submitted].text
        /\ passed = [pkh |-> submitted, chair |-> submitted]

\* Every gate is open to somebody who may act: the two columns that PKH, the
\* council and BGH look at agree, whatever way the outline came there.
GateMatchesStatus ==
    gate \in CASE outline = "CHO_PKH_DUYET_TM"   -> {"CHO_PKH"}
               [] outline = "CHO_HD_XAC_NHAN_TM" -> {"CHO_THU_KY", "CHO_CHU_TICH"}
               [] outline = "CHO_BGH_DUYET_TM"   -> {"CHO_BGH"}
               [] OTHER -> {"null"}

\* A project starts, and gets a contract, on a signed and funded approval that
\* nothing has taken back, under closed minutes that passed it.
StartedOnApproval ==
    opened \/ drafted =>
        /\ outline = "SAN_SANG_THUC_HIEN" /\ opened
        /\ signed /\ funded /\ ~rejected
        /\ council = "FINALIZED"
        /\ conclusion \in {"THONG_QUA", "THONG_QUA_DIEU_CHINH"}

\* The text the council first sent back is frozen once: every version handed in
\* is compared with it, unless a lost request left no baseline at all.
AnswersOneBaseline ==
    /\ \A i, j \in Baselines : i = j
    /\ \A i \in 1..Len(versions) :
        versions[i].kind = "REVISION_SUBMITTED" =>
            \/ versions[i].parent \in Baselines
            \/ versions[i].parent = 0 /\ losses > 0

\* What BGH signed stands: neither the minutes nor BGH may go back on it, and
\* the text does not change any more.
DecisionStands ==
    [][signed => /\ signed' /\ rejected' = rejected /\ text' = text
                 /\ outline' \in {outline, "SAN_SANG_THUC_HIEN"}
                 /\ rejected => outline' = outline]_approvalVars
=============================================================================
