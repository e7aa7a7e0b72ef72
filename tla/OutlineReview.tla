--------------------------- MODULE OutlineReview ---------------------------
(***************************************************************************)
(* Blind review ("phan bien kin") of one outline ("thuyet minh"):          *)
(*   app/controllers/project_outlines_controller.ts          submit, ...   *)
(*   app/services/project_outline_review_service.ts          assign, ...   *)
(*   app/services/project_outline_score_service.ts           score sheets  *)
(* One action is one HTTP request, run from its first read to its last     *)
(* write; OutlineReviewRaces cuts the same handlers at their awaits.       *)
(***************************************************************************)
EXTENDS Integers, Sequences, FiniteSets, FiniteSetsExt

CONSTANTS
    Accounts,      \* people with a user account: they can score on line
    Externals,     \* reviewers known by name and e-mail only
    Owner,         \* chu nhiem de tai, users.id of project_outlines.owner_id
    ProposalTeam,  \* members of the proposal the outline was created from
    MaxRows,       \* bound: review assignments ever created for the outline
    MaxPanel,      \* bound: reviewers named in one assign request
    Totals         \* sheet totals that occur, in hundredths of a point

ASSUME PeopleAssumption ==
    /\ Owner \in Accounts
    /\ ProposalTeam \subseteq Accounts
    /\ Accounts \cap Externals = {}
ASSUME BoundsAssumption == MaxRows \in Nat /\ MaxPanel \in Nat
ASSUME TotalsAssumption == Totals \subseteq Nat

VARIABLES
    status,    \* project_outlines.status
    members,   \* project_outline_members of the outline, those with an account
    nextRow,   \* id of the next assignment row
    st,        \* review_assignments.status; "NONE" before the row exists
    reviewer,  \* review_assignments.reviewer_user_id (or the external person)
    late,      \* TRUE when the row's deadline_at is in the past
    sheet,     \* review_score_sheets.status of the row's only sheet
    total,     \* review_score_sheets.total_score
    review,    \* review_average_score, _scores_completed_at
    joined     \* history: rows whose reviewer the owner put on the team

vars == <<status, members, nextRow, st, reviewer, late, sheet, total, review,
          joined>>

Rows   == 1..MaxRows
People == Accounts \cup Externals

Status == {"THUYETMINH_DRAFT", "THUYETMINH_PENDING", "PHANBIEN_KIN",
           "BAOVE_PENDING", "CHINH_SUA_TM", "BAOVE_KHONG_DAT",
           "CHO_BGH_DUYET_TM"}
RowStatus   == {"NONE", "INVITED", "ACTIVE", "COMPLETED", "CANCELLED"}
SheetStatus == {"NONE", "DRAFT", "SUBMITTED"}
NoReview    == [done |-> FALSE, average |-> 0]

----------------------------------------------------------------------------
(* Queries the handlers make.                                              *)

\* The assignments tryAggregateAndNotify counts: every row but CANCELLED ones.
Needed == {a \in Rows : st[a] \in {"INVITED", "ACTIVE", "COMPLETED"}}

\* hasActiveReviewProcess
HasActiveReviewProcess == \E a \in Rows : st[a] \in {"INVITED", "ACTIVE"}

\* getConflictSets: owner, outline members and proposal members.
Blocked == {Owner} \cup members \cup ProposalTeam

\* Mutant: only the owner is kept off the panel, not the team.
AcceptableTeam(p, overloaded) == p # Owner /\ p \notin overloaded

\* validateReviewerCandidate; overloaded are the people with three running
\* reviews this month for whom the request gives no reason to go on.
Acceptable(p, overloaded) == p \notin Blocked /\ p \notin overloaded

\* Math.round(sum / n * 100) / 100, in hundredths: halves are rounded up.
RoundedMean(sum, n) == (2 * sum + n) \div (2 * n)

\* Mutant: the scores of replaced reviewers are averaged in.
TotalOfEveryRow(S) == SumFunctionOnSet(total', Rows)

TotalOf(S) == SumFunctionOnSet(total', S)

\* tryAggregateAndNotify, on the rows and sheets as the handler leaves them.
Aggregate(needed) ==
    IF \/ status # "PHANBIEN_KIN"
       \/ needed = {}
       \/ \E a \in needed : sheet'[a] # "SUBMITTED"
       \/ review.done
    THEN review' = review
    ELSE review' = [done |-> TRUE, average |->
                        RoundedMean(TotalOf(needed), Cardinality(needed))]

----------------------------------------------------------------------------
Init ==
    /\ status = "THUYETMINH_DRAFT"
    /\ members = {}
    /\ joined = {}
    /\ nextRow = 1
    /\ st = [a \in Rows |-> "NONE"]
    /\ reviewer = [a \in Rows |-> Owner]
    /\ late = [a \in Rows |-> FALSE]
    /\ sheet = [a \in Rows |-> "NONE"]
    /\ total = [a \in Rows |-> 0]
    /\ review = NoReview

rowVars == <<nextRow, st, reviewer, late>>
sheetVars == <<sheet, total>>

(* The project owner's requests.                                           *)

\* PUT /project-outlines/:id with a new member list (replaceMembers), before
\* the outline is filed and in a revision. Nothing keeps a reviewer off it.
Update(team) ==
    /\ status \in {"THUYETMINH_DRAFT", "CHINH_SUA_TM"}
    /\ members' = team
    /\ joined' = joined \cup {a \in Needed : reviewer[a] \in team}
    /\ UNCHANGED <<status, rowVars, sheetVars, review>>

\* POST /project-outlines/:id/submit of a complete draft.
Submit ==
    /\ status = "THUYETMINH_DRAFT"
    /\ status' = "THUYETMINH_PENDING"
    /\ UNCHANGED <<members, rowVars, sheetVars, review, joined>>

\* POST /project-outlines/:id/withdraw
Withdraw ==
    /\ status = "THUYETMINH_PENDING"
    /\ ~HasActiveReviewProcess
    /\ status' = "THUYETMINH_DRAFT"
    /\ UNCHANGED <<members, rowVars, sheetVars, review, joined>>

(* The science office's (PKH) requests.                                    *)

\* The loop of assignReviewers inserts rows until the first candidate that
\* fails validation, which ends the request with an error: the rows already
\* inserted stay, and the outline keeps its status.
AssignReviewers(picks, overloaded) ==
    /\ status = "THUYETMINH_PENDING"
    /\ ~HasActiveReviewProcess
    /\ picks # <<>>
    /\ nextRow + Len(picks) - 1 \in Rows
    /\ \E k \in 0..Len(picks) :
        /\ \A i \in 1..k : Acceptable(picks[i], overloaded)
        /\ k < Len(picks) => ~Acceptable(picks[k + 1], overloaded)
        /\ LET new == nextRow..(nextRow + k - 1) IN
            /\ st' = [a \in Rows |-> IF a \in new THEN "INVITED" ELSE st[a]]
            /\ reviewer' = [a \in Rows |-> IF a \in new
                                  THEN picks[a - nextRow + 1] ELSE reviewer[a]]
            /\ late' = [a \in Rows |-> late[a] /\ a \notin new]
        /\ nextRow' = nextRow + k
        /\ status' = IF k = Len(picks) THEN "PHANBIEN_KIN" ELSE status
    /\ UNCHANGED <<members, sheetVars, review, joined>>

\* POST /project-outlines/:id/replace-reviewer
ReplaceReviewer(a, p, overloaded) ==
    /\ status = "PHANBIEN_KIN"
    /\ st[a] \in {"INVITED", "ACTIVE"}
    /\ Acceptable(p, overloaded)
    /\ nextRow \in Rows
    /\ st' = [st EXCEPT ![a] = "CANCELLED", ![nextRow] = "INVITED"]
    /\ reviewer' = [reviewer EXCEPT ![nextRow] = p]
    /\ late' = [late EXCEPT ![nextRow] = FALSE]
    /\ nextRow' = nextRow + 1
    /\ UNCHANGED <<status, members, sheetVars, review, joined>>

\* Mutants: the average survives the reopening; the row stays completed.
ReopenKeepsAverage(a) ==
    /\ sheet[a] = "SUBMITTED"
    /\ sheet' = [sheet EXCEPT ![a] = "DRAFT"]
    /\ st' = [st EXCEPT ![a] = "ACTIVE"]
    /\ UNCHANGED <<status, members, nextRow, reviewer, late, total,
                   review, joined>>
\* POST /project-outline-review-tasks/:id/score-reopen. The outline may have
\* left PHANBIEN_KIN: its status is not read.
ReopenSheet(a) ==
    /\ sheet[a] = "SUBMITTED"
    /\ sheet' = [sheet EXCEPT ![a] = "DRAFT"]
    /\ st' = [st EXCEPT ![a] = IF @ = "COMPLETED" THEN "ACTIVE" ELSE @]
    /\ review' = NoReview
    /\ UNCHANGED <<status, members, nextRow, reviewer, late, total, joined>>

\* POST /project-outline-review-tasks/:id/extend-deadline: any date is taken.
ExtendDeadline(a) ==
    /\ st[a] # "NONE"
    /\ \E past \in BOOLEAN : late' = [late EXCEPT ![a] = past]
    /\ UNCHANGED <<status, members, nextRow, st, reviewer, sheetVars,
                   review, joined>>

(* A reviewer's requests.                                                  *)

\* The guards of getOrCreateSheet.
MayOpen(a) ==
    /\ st[a] \in {"INVITED", "ACTIVE", "COMPLETED"}
    /\ reviewer[a] \in Accounts
    /\ status = "PHANBIEN_KIN"
    /\ st[a] = "COMPLETED" => sheet[a] # "NONE"

Opened(a) == IF st[a] = "INVITED" THEN "ACTIVE" ELSE st[a]

\* GET /project-outline-review-tasks/:id, and every refused save or submit:
\* the sheet is created and the invitation accepted before the refusal.
OpenTask(a) ==
    /\ MayOpen(a)
    /\ sheet' = [sheet EXCEPT ![a] = IF @ = "NONE" THEN "DRAFT" ELSE @]
    /\ st' = [st EXCEPT ![a] = Opened(a)]
    /\ UNCHANGED <<status, members, nextRow, reviewer, late, total,
                   review, joined>>

\* PUT .../score-draft, and a submit whose sheet is not complete yet.
SaveDraft(a, t) ==
    /\ MayOpen(a)
    /\ sheet[a] \in {"NONE", "DRAFT"}
    /\ ~late[a]
    /\ sheet' = [sheet EXCEPT ![a] = "DRAFT"]
    /\ st' = [st EXCEPT ![a] = Opened(a)]
    /\ total' = [total EXCEPT ![a] = t]
    /\ UNCHANGED <<status, members, nextRow, reviewer, late, review, joined>>

\* POST .../score-submit of a complete sheet, with the aggregation it ends in.
SubmitSheet(a, t) ==
    /\ MayOpen(a)
    /\ sheet[a] \in {"NONE", "DRAFT"}
    /\ ~late[a]
    /\ sheet' = [sheet EXCEPT ![a] = "SUBMITTED"]
    /\ st' = [st EXCEPT ![a] = "COMPLETED"]
    /\ total' = [total EXCEPT ![a] = t]
    /\ Aggregate(Needed)
    /\ UNCHANGED <<status, members, nextRow, reviewer, late, joined>>

(* The clock, and what the defence component (Appraisal) does to the row.  *)

DeadlinePasses(a) ==
    /\ st[a] # "NONE" /\ ~late[a]
    /\ late' = [late EXCEPT ![a] = TRUE]
    /\ UNCHANGED <<status, members, nextRow, st, reviewer, sheetVars,
                   review, joined>>

\* publish calls every linked outline to its defence, whatever its status is,
\* and updateDraft links any outline; reopenMinutes calls a decided one back.
CallToDefence ==
    /\ status' = "BAOVE_PENDING"
    /\ UNCHANGED <<members, rowVars, sheetVars, review, joined>>

\* finalize, by the result of the council; to the review a confirmed revision
\* is no different from minutes reopened and closed with that result.
ConcludeDefence(result) ==
    /\ status = "BAOVE_PENDING"
    /\ status' = result
    /\ UNCHANGED <<members, rowVars, sheetVars, review, joined>>

\* cancelSession of the session that called the outline
ReleaseFromDefence ==
    /\ status = "BAOVE_PENDING"
    /\ status' = "PHANBIEN_KIN"
    /\ UNCHANGED <<members, rowVars, sheetVars, review, joined>>

----------------------------------------------------------------------------
Panels == UNION {[1..n -> People] : n \in 1..MaxPanel}

OwnerNext == (\E team \in SUBSET Accounts : Update(team)) \/ Submit \/ Withdraw

OfficeNext ==
    \/ \E picks \in Panels, overloaded \in SUBSET Accounts :
            AssignReviewers(picks, overloaded)
    \/ \E a \in Rows :
        \/ \E p \in People, overloaded \in SUBSET Accounts :
                ReplaceReviewer(a, p, overloaded)
        \/ ReopenSheet(a)
        \/ ExtendDeadline(a)

ReviewerNext ==
    \E a \in Rows :
        \/ OpenTask(a)
        \/ \E t \in Totals : SaveDraft(a, t) \/ SubmitSheet(a, t)

DefenceNext ==
    \/ CallToDefence \/ ReleaseFromDefence
    \/ \E result \in {"CHINH_SUA_TM", "BAOVE_KHONG_DAT", "CHO_BGH_DUYET_TM"} :
            ConcludeDefence(result)

Next ==
    \/ OwnerNext
    \/ OfficeNext
    \/ ReviewerNext
    \/ DefenceNext
    \/ \E a \in Rows : DeadlinePasses(a)

Spec == Init /\ [][Next]_vars

----------------------------------------------------------------------------
(* Properties.                                                             *)

\* Every column has a value of its type.
TypeOK ==
    /\ status \in Status
    /\ members \subseteq Accounts
    /\ nextRow \in 1..(MaxRows + 1)
    /\ st \in [Rows -> RowStatus]
    /\ reviewer \in [Rows -> People]
    /\ late \in [Rows -> BOOLEAN]
    /\ sheet \in [Rows -> SheetStatus]
    /\ total \in [Rows -> Nat]
    /\ DOMAIN review = {"done", "average"}
    /\ review.done \in BOOLEAN
    /\ joined \subseteq Rows

\* Scores stay hidden from the office until the panel is complete: once the
\* outline shows a completed review, every reviewer who was not replaced has
\* handed in a sheet (showTask and summary unmask scores on that column).
BlindUntilComplete ==
    review.done => \A a \in Needed : sheet[a] = "SUBMITTED"

\* The average on the outline is the average of the sheets now in force: no
\* reopening, replacement or late draft leaves an average of older scores.
AverageOfTheSheets ==
    review.done =>
        review.average = RoundedMean(SumFunctionOnSet(total, Needed), Cardinality(Needed))

\* While the review is running, the last sheet handed in always completes it:
\* the office is never left with a full panel and no average.
FullPanelIsAggregated ==
    status = "PHANBIEN_KIN" /\ Needed # {}
        /\ (\A a \in Needed : sheet[a] = "SUBMITTED") => review.done

\* The row and its sheet agree on whether the reviewer is done, so the guard
\* of replace-reviewer (on the row) protects submitted sheets.
RowMatchesSheet ==
    \A a \in Rows : st[a] = "COMPLETED" <=> sheet[a] = "SUBMITTED"

\* Nobody is invited to review their own project, by any assignment or
\* replacement, however often the owner edits the team, files and withdraws.
\* A reviewer in force who is on the team was put there by the owner later, in
\* a revision, which update does not refuse: reopened minutes and a cancelled
\* session then bring the outline back to that reviewer.
IndependentReviewers ==
    \A a \in Needed : reviewer[a] \in Blocked => a \in joined

=============================================================================
