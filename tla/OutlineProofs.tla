---------------------------- MODULE OutlineProofs ----------------------------
(***************************************************************************)
(* Proofs about an outline: its blind review (OutlineReview, for any       *)
(* people, bounds and score totals; OutlineReviewRaces, for any number of  *)
(* submissions at a time), then its revision and approval (OutlineApproval,*)
(* for any number of texts, versions and lost requests).                   *)
(***************************************************************************)
EXTENDS OutlineReviewRaces, OutlineApproval, TLAPS

----------------------------------------------------------------------------
(* The blind review.                                                       *)

\* What the rows look like before and after the review begins, and how a row
\* and its sheet advance together.
RowHistory ==
    /\ \A a \in Rows : a >= nextRow => st[a] = "NONE"
    /\ \A a \in Rows : st[a] = "NONE" => sheet[a] = "NONE"
    /\ status = "THUYETMINH_DRAFT" => \A a \in Rows : st[a] = "NONE"
    /\ status = "THUYETMINH_PENDING" => \A a \in Rows : st[a] \in {"NONE", "INVITED"}
    /\ status \in {"THUYETMINH_DRAFT", "THUYETMINH_PENDING"} => ~review.done

\* FullPanelIsAggregated holds in every status, not only while sheets can be
\* handed in: a cancelled defence brings the outline back to PHANBIEN_KIN.
AlwaysAggregated ==
    Needed # {} /\ (\A a \in Needed : sheet[a] = "SUBMITTED") => review.done

\* The inductive invariant.
IInv ==
    /\ TypeOK
    /\ RowHistory
    /\ RowMatchesSheet
    /\ IndependentReviewers
    /\ BlindUntilComplete
    /\ AlwaysAggregated
    /\ AverageOfTheSheets

\* A step that leaves the scores, the panel and the review leaves the average.
LEMMA SameAverage ==
  ASSUME AverageOfTheSheets, total' = total, Needed' = Needed, review' = review
  PROVE  AverageOfTheSheets'
  BY DEF AverageOfTheSheets

\* The aggregation takes the average of the panel it leaves.
LEMMA AggregateTakesAverage ==
  ASSUME Aggregate(Needed), Needed' = Needed, ~review.done
  PROVE  AverageOfTheSheets'
<1>1. CASE review' = review
  BY <1>1 DEF AverageOfTheSheets
<1>2. CASE review' # review
  BY <1>2 DEF AverageOfTheSheets, Aggregate, TotalOf
<1> QED
  BY <1>1, <1>2

LEMMA InitIInv == Init => IInv
  BY PeopleAssumption, BoundsAssumption
  DEF Init, IInv, TypeOK, RowHistory, RowMatchesSheet, IndependentReviewers,
      BlindUntilComplete, AlwaysAggregated, AverageOfTheSheets, Needed, Rows,
      People, Status, RowStatus, SheetStatus, NoReview

----------------------------------------------------------------------------
(* One lemma per request that touches rows, sheets or the average.         *)

LEMMA AssignKeepsIInv ==
  ASSUME IInv, NEW picks \in Panels, NEW overloaded \in SUBSET Accounts,
         AssignReviewers(picks, overloaded)
  PROVE  IInv'
<1> USE DEF IInv
<1>1. PICK n \in 1..MaxPanel : picks \in [1..n -> People] /\ Len(picks) = n
  BY BoundsAssumption DEF Panels
<1>2. PICK k \in 0..n :
        /\ \A i \in 1..k : Acceptable(picks[i], overloaded)
        /\ st' = [a \in Rows |-> IF a \in nextRow..(nextRow + k - 1)
                                 THEN "INVITED" ELSE st[a]]
        /\ reviewer' = [a \in Rows |-> IF a \in nextRow..(nextRow + k - 1)
                                       THEN picks[a - nextRow + 1] ELSE reviewer[a]]
        /\ late' = [a \in Rows |-> late[a] /\ a \notin nextRow..(nextRow + k - 1)]
        /\ nextRow' = nextRow + k
        /\ status' = IF k = Len(picks) THEN "PHANBIEN_KIN" ELSE status
  BY <1>1 DEF AssignReviewers
<1>3. /\ status = "THUYETMINH_PENDING" /\ nextRow + n - 1 \in Rows
      /\ \A a \in Rows : st[a] = "NONE" /\ sheet[a] = "NONE"
      /\ ~review.done
      /\ UNCHANGED <<members, sheet, total, review, joined>>
  <2>1. status = "THUYETMINH_PENDING" /\ ~HasActiveReviewProcess
        /\ nextRow + n - 1 \in Rows
        /\ UNCHANGED <<members, sheet, total, review, joined>>
    BY <1>1 DEF AssignReviewers, sheetVars
  <2> QED
    BY <2>1 DEF HasActiveReviewProcess, RowHistory
<1>4. nextRow \in Nat /\ k \in Nat /\ n \in Nat /\ MaxRows \in Nat
  BY BoundsAssumption DEF TypeOK
<1>5. TypeOK'
  <2>1. reviewer' \in [Rows -> People]
    <3>1. ASSUME NEW a \in Rows, a \in nextRow..(nextRow + k - 1)
          PROVE  picks[a - nextRow + 1] \in People
      BY <1>1, <1>4, <3>1 DEF Rows
    <3> QED
      BY <1>2, <3>1 DEF TypeOK
  <2>2. nextRow' \in 1..(MaxRows + 1)
    BY <1>2, <1>3, <1>4 DEF TypeOK, Rows
  <2> QED
    BY <1>2, <1>3, <2>1, <2>2 DEF TypeOK, Status, RowStatus
<1>6. RowHistory'
  <2>1. ASSUME NEW a \in Rows, a >= nextRow'
        PROVE  st'[a] = "NONE"
    <3>1. a \notin nextRow..(nextRow + k - 1)
      BY <1>2, <1>4, <2>1 DEF Rows
    <3> QED
      BY <1>2, <1>3, <3>1
  <2>2. \A a \in Rows : st'[a] \in {"NONE", "INVITED"} /\ sheet'[a] = "NONE"
    BY <1>2, <1>3
  <2>3. status' \in {"THUYETMINH_PENDING", "PHANBIEN_KIN"} /\ ~review'.done
    BY <1>2, <1>3
  <2> QED
    BY <2>1, <2>2, <2>3 DEF RowHistory
<1>7. RowMatchesSheet'
  BY <1>2, <1>3 DEF RowMatchesSheet
<1>8. IndependentReviewers'
  <2>1. ASSUME NEW a \in Rows, a \in nextRow..(nextRow + k - 1)
        PROVE  reviewer'[a] \notin Blocked
    <3>1. a - nextRow + 1 \in 1..k /\ reviewer'[a] = picks[a - nextRow + 1]
      BY <1>2, <1>4, <2>1 DEF Rows
    <3> QED
      BY <1>2, <3>1 DEF Acceptable
  <2>2. \A a \in Needed' : a \in Rows /\ a \in nextRow..(nextRow + k - 1)
    BY <1>2, <1>3 DEF Needed
  <2>3. Blocked' = Blocked
    BY <1>3 DEF Blocked
  <2> QED
    BY <2>1, <2>2, <2>3 DEF IndependentReviewers
<1> QED
  BY <1>2, <1>3, <1>5, <1>6, <1>7, <1>8
  DEF BlindUntilComplete, AlwaysAggregated, AverageOfTheSheets, Needed

LEMMA ReplaceKeepsIInv ==
  ASSUME IInv, NEW a \in Rows, NEW p \in People,
         NEW overloaded \in SUBSET Accounts, ReplaceReviewer(a, p, overloaded)
  PROVE  IInv'
<1> USE DEF IInv
<1>1. /\ status = "PHANBIEN_KIN" /\ st[a] \in {"INVITED", "ACTIVE"}
      /\ nextRow \in Rows /\ st[nextRow] = "NONE" /\ a # nextRow
      /\ sheet[nextRow] = "NONE" /\ sheet[a] # "SUBMITTED"
      /\ ~review.done
  BY DEF ReplaceReviewer, TypeOK, RowHistory, RowMatchesSheet,
         BlindUntilComplete, Needed
<1>2. TypeOK'
  BY <1>1, BoundsAssumption DEF TypeOK, ReplaceReviewer, sheetVars, Rows, RowStatus
<1>3. RowHistory'
  BY <1>1, BoundsAssumption DEF RowHistory, TypeOK, ReplaceReviewer, sheetVars, Rows
<1>4. RowMatchesSheet'
  BY <1>1 DEF RowMatchesSheet, TypeOK, ReplaceReviewer, sheetVars
<1>5. IndependentReviewers'
  BY <1>1 DEF IndependentReviewers, TypeOK, ReplaceReviewer, Acceptable,
              Needed, Blocked
<1>6. AlwaysAggregated'
  <2>1. nextRow \in Needed' /\ sheet'[nextRow] # "SUBMITTED"
    BY <1>1 DEF Needed, TypeOK, ReplaceReviewer, sheetVars
  <2> QED
    BY <2>1 DEF AlwaysAggregated
<1> QED
  BY <1>1, <1>2, <1>3, <1>4, <1>5, <1>6
  DEF BlindUntilComplete, AverageOfTheSheets, ReplaceReviewer

LEMMA SubmitSheetKeepsIInv ==
  ASSUME IInv, NEW a \in Rows, NEW t \in Totals, SubmitSheet(a, t)
  PROVE  IInv'
<1> USE DEF IInv
<1>1. /\ status = "PHANBIEN_KIN" /\ st[a] \in {"INVITED", "ACTIVE"}
      /\ sheet[a] # "SUBMITTED" /\ ~review.done
      /\ sheet' = [sheet EXCEPT ![a] = "SUBMITTED"]
      /\ st' = [st EXCEPT ![a] = "COMPLETED"]
      /\ total' = [total EXCEPT ![a] = t]
      /\ UNCHANGED <<status, members, nextRow, reviewer, late, joined>>
  BY DEF SubmitSheet, MayOpen, RowMatchesSheet, BlindUntilComplete, Needed, TypeOK
<1>2. Needed' = Needed
  BY <1>1 DEF Needed, TypeOK
<1>3. /\ review' = review \/ review'.done = TRUE
      /\ DOMAIN review' = {"done", "average"}
      /\ review'.done \in BOOLEAN
      /\ review'.done <=> Needed # {} /\ \A b \in Needed : sheet'[b] = "SUBMITTED"
  <2>1. Aggregate(Needed)
    BY DEF SubmitSheet
  <2>2. CASE Needed = {} \/ \E b \in Needed : sheet'[b] # "SUBMITTED"
    BY <1>1, <2>1, <2>2 DEF Aggregate, TypeOK
  <2>3. CASE Needed # {} /\ \A b \in Needed : sheet'[b] = "SUBMITTED"
    <3> DEFINE av == RoundedMean(TotalOf(Needed), Cardinality(Needed))
    <3> HIDE DEF av
    <3>1. review' = [done |-> TRUE, average |-> av]
      BY <1>1, <2>1, <2>3 DEF Aggregate, av
    <3> QED
      BY <2>3, <3>1
  <2> QED
    BY <2>2, <2>3
<1>4. TypeOK'
  BY <1>1, <1>3, TotalsAssumption DEF TypeOK, RowStatus, SheetStatus
<1>5. RowHistory'
  BY <1>1, <1>3 DEF RowHistory, TypeOK
<1>6. RowMatchesSheet'
  BY <1>1 DEF RowMatchesSheet, TypeOK
<1>7. IndependentReviewers'
  BY <1>1, <1>2 DEF IndependentReviewers, Blocked
<1>8. AverageOfTheSheets'
  BY <1>1, <1>2, AggregateTakesAverage DEF SubmitSheet
<1> QED
  BY <1>2, <1>3, <1>4, <1>5, <1>6, <1>7, <1>8
  DEF BlindUntilComplete, AlwaysAggregated

LEMMA ReopenKeepsIInv ==
  ASSUME IInv, NEW a \in Rows, ReopenSheet(a)
  PROVE  IInv'
<1> USE DEF IInv
<1>1. /\ st[a] = "COMPLETED" /\ st' = [st EXCEPT ![a] = "ACTIVE"]
      /\ sheet' = [sheet EXCEPT ![a] = "DRAFT"]
      /\ review' = NoReview
      /\ UNCHANGED <<status, members, nextRow, reviewer, late, total, joined>>
  BY DEF ReopenSheet, RowMatchesSheet
<1>2. a \in Needed' /\ sheet'[a] # "SUBMITTED"
  BY <1>1 DEF Needed, TypeOK
<1>3. TypeOK' /\ RowHistory' /\ RowMatchesSheet'
  BY <1>1 DEF TypeOK, RowHistory, RowMatchesSheet, RowStatus, SheetStatus, NoReview
<1>4. IndependentReviewers'
  BY <1>1 DEF IndependentReviewers, Needed, Blocked, TypeOK
<1> QED
  BY <1>1, <1>2, <1>3, <1>4
  DEF BlindUntilComplete, AlwaysAggregated, AverageOfTheSheets, NoReview

\* Opening a task and saving a draft: the row stays in force and its sheet
\* stays open.
LEMMA DraftKeepsIInv ==
  ASSUME IInv, NEW a \in Rows,
         OpenTask(a) \/ \E t \in Totals : SaveDraft(a, t)
  PROVE  IInv'
<1> USE DEF IInv
<1>1. /\ st[a] \in {"INVITED", "ACTIVE", "COMPLETED"}
      /\ st' = [st EXCEPT ![a] = Opened(a)]
      /\ \/ sheet' = sheet
         \/ sheet[a] # "SUBMITTED" /\ sheet' = [sheet EXCEPT ![a] = "DRAFT"]
      /\ total' \in [Rows -> Nat]
      /\ status = "PHANBIEN_KIN"
      /\ UNCHANGED <<status, members, nextRow, reviewer, late, review, joined>>
  BY TotalsAssumption DEF OpenTask, SaveDraft, MayOpen, TypeOK
<1>2. Needed' = Needed
  BY <1>1 DEF Needed, Opened, TypeOK
<1>3. \A b \in Rows : sheet'[b] = "SUBMITTED" <=> sheet[b] = "SUBMITTED"
  BY <1>1 DEF TypeOK
<1>4. TypeOK' /\ RowHistory'
  BY <1>1 DEF TypeOK, RowHistory, RowStatus, SheetStatus, Opened
<1>5. RowMatchesSheet'
  BY <1>1, <1>3 DEF RowMatchesSheet, Opened, TypeOK
<1>6. IndependentReviewers'
  BY <1>1, <1>2 DEF IndependentReviewers, Blocked
<1>7. AverageOfTheSheets'
  <2>1. CASE OpenTask(a)
    BY <2>1, <1>1, <1>2, SameAverage DEF OpenTask
  <2>2. CASE \E t \in Totals : SaveDraft(a, t)
    <3>1. a \in Needed /\ sheet[a] # "SUBMITTED"
      BY <2>2 DEF SaveDraft, MayOpen, Needed
    <3> QED
      BY <1>1, <3>1 DEF BlindUntilComplete, AverageOfTheSheets
  <2> QED
    BY <2>1, <2>2
<1> QED
  BY <1>1, <1>2, <1>3, <1>4, <1>5, <1>6, <1>7
  DEF BlindUntilComplete, AlwaysAggregated, Needed

\* The requests that leave rows and sheets alone.
LEMMA OutlineStepKeepsIInv ==
  ASSUME IInv,
         OwnerNext \/ DefenceNext
            \/ \E a \in Rows : ExtendDeadline(a) \/ DeadlinePasses(a)
  PROVE  IInv'
<1> USE DEF IInv
<1>1. /\ UNCHANGED <<nextRow, st, reviewer, sheet, total, review>>
      /\ late' \in [Rows -> BOOLEAN] /\ members' \subseteq Accounts
      /\ Needed' = Needed
  BY DEF OwnerNext, DefenceNext, Update, Submit, Withdraw, CallToDefence,
         ConcludeDefence, ReleaseFromDefence, ExtendDeadline, DeadlinePasses,
         rowVars, sheetVars, TypeOK, Needed
<1>2. TypeOK'
  <2>1. joined' \subseteq Rows
    BY DEF OwnerNext, DefenceNext, Update, Submit, Withdraw, CallToDefence,
       ConcludeDefence, ReleaseFromDefence, ExtendDeadline, DeadlinePasses,
       TypeOK, Needed
  <2>2. status' \in Status
    BY DEF OwnerNext, DefenceNext, Update, Submit, Withdraw, CallToDefence,
       ConcludeDefence, ReleaseFromDefence, ExtendDeadline, DeadlinePasses,
       TypeOK, Status
  <2> QED
    BY <1>1, <2>1, <2>2 DEF TypeOK
<1>3. RowHistory'
  BY <1>1 DEF OwnerNext, DefenceNext, Update, Submit, Withdraw, CallToDefence,
         ConcludeDefence, ReleaseFromDefence, ExtendDeadline, DeadlinePasses,
         HasActiveReviewProcess, RowHistory, TypeOK
<1>4. IndependentReviewers'
  <2>1. ASSUME NEW team \in SUBSET Accounts, Update(team)
        PROVE  IndependentReviewers'
    BY <2>1, <1>1 DEF Update, IndependentReviewers, Blocked
  <2>2. CASE UNCHANGED <<members, joined>>
    BY <2>2, <1>1 DEF IndependentReviewers, Blocked
  <2> QED
    BY <2>1, <2>2 DEF OwnerNext, DefenceNext, Submit, Withdraw, CallToDefence,
       ConcludeDefence, ReleaseFromDefence, ExtendDeadline, DeadlinePasses
<1>5. AverageOfTheSheets'
  BY <1>1, SameAverage
<1> QED
  BY <1>1, <1>2, <1>3, <1>4, <1>5
  DEF RowMatchesSheet, BlindUntilComplete, AlwaysAggregated

----------------------------------------------------------------------------
LEMMA StepKeepsIInv == IInv /\ [Next]_vars => IInv'
<1> SUFFICES ASSUME IInv, [Next]_vars PROVE IInv'
  OBVIOUS
<1>1. CASE OfficeNext
  BY <1>1, AssignKeepsIInv, ReplaceKeepsIInv, ReopenKeepsIInv,
     OutlineStepKeepsIInv DEF OfficeNext
<1>2. CASE ReviewerNext
  BY <1>2, DraftKeepsIInv, SubmitSheetKeepsIInv DEF ReviewerNext
<1>3. CASE OwnerNext \/ DefenceNext \/ \E a \in Rows : DeadlinePasses(a)
  BY <1>3, OutlineStepKeepsIInv
<1>4. CASE UNCHANGED vars
  BY <1>4, SameAverage DEF vars, IInv, TypeOK, RowHistory, RowMatchesSheet, Needed, Blocked,
     IndependentReviewers, BlindUntilComplete, AlwaysAggregated
<1> QED
  BY <1>1, <1>2, <1>3, <1>4 DEF Next

LEMMA Invariance == Spec => []IInv
  BY InitIInv, StepKeepsIInv, PTL DEF Spec

\* Type correctness: every column keeps a value of its type.
THEOREM TypeCorrect == Spec => []TypeOK
  BY Invariance, PTL DEF IInv

\* PKH sees no single score before the panel is complete, for any number of
\* reviewers, replacements and reopenings.
THEOREM BlindReview == Spec => []BlindUntilComplete
  BY Invariance, PTL DEF IInv

\* A reviewer in force is neither the owner nor on the team, unless the owner
\* put them on the team in a revision after they were invited.
THEOREM Independence == Spec => []IndependentReviewers
  BY Invariance, PTL DEF IInv

\* The row and its sheet agree, so replace-reviewer cannot reach a sheet that
\* was handed in.
THEOREM RowAndSheetAgree == Spec => []RowMatchesSheet
  BY Invariance, PTL DEF IInv

\* A full panel has its average.
THEOREM Aggregation == Spec => []FullPanelIsAggregated
<1>1. IInv => FullPanelIsAggregated
  BY DEF IInv, AlwaysAggregated, FullPanelIsAggregated
<1> QED
  BY <1>1, Invariance, PTL

\* The average stored is that of the sheets in force, for any number of
\* reviewers, replacements, drafts and reopenings.
THEOREM AverageInForce == Spec => []AverageOfTheSheets
  BY Invariance, PTL DEF IInv

----------------------------------------------------------------------------
(* Submissions in flight: OutlineReviewRaces.                              *)

InForce == {"INVITED", "ACTIVE", "COMPLETED"}

\* What the requests in flight have read, and the columns they use.
RacesTyped ==
    /\ nextRow \in Nat /\ review.done \in BOOLEAN
    /\ st = [a \in Rows |-> st[a]] /\ sheet = [a \in Rows |-> sheet[a]]
    /\ req = [s \in Slots |-> req[s]]
    /\ \A s \in Slots :
          \/ req[s] = Idle
          \/ req[s] \in [at : {"sheet", "row", "outline"}, row : Rows, t : Totals]
          \/ req[s] \in [at : {"rows"}, done : BOOLEAN]
          \/ req[s] \in [at : {"sheets"}, done : BOOLEAN, needed : SUBSET Rows]
          \/ req[s].at = "average"

\* No sheet is opened before the panel is complete, and the row of a
\* submission stays in force.
Sequence ==
    /\ status # "PHANBIEN_KIN" =>
          (\A a \in Rows : sheet[a] = "NONE") /\ \A s \in Slots : req[s] = Idle
    /\ \A s \in Slots : req[s].at \in {"sheet", "row"} => st[req[s].row] \in InForce

PanelIsIn ==
    /\ status = "PHANBIEN_KIN" /\ Needed # {}
    /\ \A a \in Needed : sheet[a] = "SUBMITTED"

\* The submission in slot s will take the average of a full panel: it has still
\* to read what it needs, or has read it and seen no average.
WillAggregate(s) ==
    \/ req[s].at \in {"row", "outline", "average"}
    \/ req[s].at = "rows" /\ ~req[s].done
    \/ req[s].at = "sheets" /\ ~req[s].done /\ req[s].needed = Needed

\* Whoever writes the last sheet is one of those.
SomebodyWillAggregate ==
    PanelIsIn /\ ~lost => review.done \/ \E s \in Slots : WillAggregate(s)

RacesInv == RacesTyped /\ Sequence /\ SomebodyWillAggregate

LEMMA InitRacesInv == RacesInit => RacesInv
  BY DEF RacesInit, Init, RacesInv, RacesTyped, Sequence, SomebodyWillAggregate,
     PanelIsIn, NoReview, Idle

LEMMA WholeKeepsRacesInv ==
  ASSUME RacesInv, Whole
  PROVE  RacesInv'
<1> USE DEF RacesInv
<1>1. UNCHANGED <<req, lost, review>>
  BY DEF Whole, Update, Submit, AssignReviewers, OpenTask
<1>2. CASE \E team \in SUBSET Accounts : Update(team) \/ Submit
  <2>1. /\ UNCHANGED <<nextRow, st, sheet>>
        /\ status # "PHANBIEN_KIN" /\ status' # "PHANBIEN_KIN"
    BY <1>2 DEF Update, Submit, rowVars, sheetVars
  <2> QED
    BY <1>1, <2>1 DEF RacesTyped, Sequence, SomebodyWillAggregate, PanelIsIn
<1>3. ASSUME NEW picks \in Panels, AssignReviewers(picks, {})
      PROVE  RacesInv'
  <2>1. PICK n \in 1..MaxPanel : Len(picks) = n
    BY BoundsAssumption DEF Panels
  <2>2. PICK k \in 0..n :
          /\ st' = [a \in Rows |-> IF a \in nextRow..(nextRow + k - 1)
                                   THEN "INVITED" ELSE st[a]]
          /\ nextRow' = nextRow + k
          /\ status' = IF k = n THEN "PHANBIEN_KIN" ELSE status
    BY <1>3, <2>1 DEF AssignReviewers
  <2>3. /\ status = "PHANBIEN_KIN" => FALSE
        /\ status' \in {status, "PHANBIEN_KIN"}
        /\ nextRow + n - 1 \in Rows /\ sheet' = sheet
    BY <1>3, <2>1, <2>2 DEF AssignReviewers, sheetVars
  <2>4. nextRow \in Nat /\ n \in Nat /\ k \in Nat
    BY <2>1, BoundsAssumption DEF RacesTyped
  <2>5. RacesTyped'
    BY <1>1, <2>2, <2>3, <2>4 DEF RacesTyped
  <2>6. Sequence'
    BY <1>1, <2>2, <2>3 DEF Sequence, Idle
  <2>7. ~PanelIsIn'
    <3>1. SUFFICES ASSUME status' = "PHANBIEN_KIN", Needed' # {}
                   PROVE  \E a \in Needed' : sheet'[a] # "SUBMITTED"
      BY DEF PanelIsIn
    <3> QED
      BY <2>3, <3>1 DEF Sequence, Needed
  <2> QED
    BY <1>1, <2>5, <2>6, <2>7 DEF SomebodyWillAggregate
<1>4. ASSUME NEW a \in Rows, OpenTask(a)
      PROVE  RacesInv'
  <2>1. /\ status = "PHANBIEN_KIN" /\ status' = status
        /\ st[a] \in InForce /\ nextRow' = nextRow
        /\ st' = [st EXCEPT ![a] = Opened(a)]
        /\ sheet' = [sheet EXCEPT ![a] = IF @ = "NONE" THEN "DRAFT" ELSE @]
    BY <1>4 DEF OpenTask, MayOpen, InForce
  <2>2. \A b \in Rows : st'[b] \in InForce <=> st[b] \in InForce
    BY <2>1 DEF RacesTyped, InForce, Opened
  <2>3. Needed' = Needed
    BY <2>2 DEF Needed, InForce
  <2>4. PanelIsIn' => PanelIsIn
    BY <2>1, <2>3 DEF PanelIsIn, RacesTyped, Needed
  <2>5. RacesTyped'
    BY <1>1, <2>1 DEF RacesTyped
  <2>6. Sequence'
    <3>1. ASSUME NEW s \in Slots, req[s].at \in {"sheet", "row"}
          PROVE  req[s].row \in Rows
      BY <3>1 DEF RacesTyped, Idle
    <3> QED
      BY <1>1, <2>1, <2>2, <3>1 DEF Sequence
  <2> QED
    BY <1>1, <2>3, <2>4, <2>5, <2>6
    DEF SomebodyWillAggregate, WillAggregate
<1> QED
  BY <1>2, <1>3, <1>4 DEF Whole

LEMMA StartKeepsRacesInv ==
  ASSUME RacesInv, NEW s \in Slots, NEW a \in Rows, NEW t \in Totals,
         StartSheet(s, a, t)
  PROVE  RacesInv'
<1> USE DEF RacesInv
<1>1. /\ UNCHANGED <<vars, lost>> /\ MayOpen(a) /\ req[s] = Idle
      /\ req' = [req EXCEPT ![s] = [at |-> "sheet", row |-> a, t |-> t]]
  BY DEF StartSheet
<1>2. RacesTyped'
  BY <1>1 DEF RacesTyped, vars
<1>3. Sequence'
  BY <1>1 DEF Sequence, RacesTyped, vars, MayOpen, InForce
<1>4. SomebodyWillAggregate'
  <2>1. \A p \in Slots : WillAggregate(p) => p # s /\ WillAggregate(p)'
    BY <1>1 DEF WillAggregate, RacesTyped, Needed, vars, Idle
  <2>2. (PanelIsIn' => PanelIsIn) /\ review' = review /\ lost' = lost
    BY <1>1 DEF PanelIsIn, Needed, vars
  <2> QED
    BY <2>1, <2>2 DEF SomebodyWillAggregate
<1> QED
  BY <1>1, <1>2, <1>3, <1>4 DEF vars

\* The three reads of tryAggregateAndNotify, and a request that is lost.
LEMMA ReadKeepsRacesInv ==
  ASSUME RacesInv, NEW s \in Slots,
         ReadOutline(s) \/ ReadRows(s) \/ ReadSheets(s) \/ Crash(s)
  PROVE  RacesInv'
<1> USE DEF RacesInv
<1>1. UNCHANGED vars /\ Needed' = Needed /\ (PanelIsIn' <=> PanelIsIn)
  BY DEF ReadOutline, ReadRows, ReadSheets, Crash, vars, Needed, PanelIsIn
<1>2. CASE ReadOutline(s)
  <2>1. /\ req[s].at = "outline" /\ req[s] # Idle /\ lost' = lost
        /\ req' = [req EXCEPT ![s] = [at |-> "rows", done |-> review.done]]
    BY <1>2 DEF ReadOutline, Sequence, Running, Idle
  <2>2. RacesTyped'
    BY <1>1, <2>1 DEF RacesTyped, vars
  <2>3. Sequence'
    BY <1>1, <2>1 DEF RacesTyped, Sequence, vars
  <2>4. SomebodyWillAggregate'
    BY <1>1, <2>1 DEF RacesTyped, SomebodyWillAggregate, WillAggregate, vars
  <2> QED
    BY <1>1, <2>2, <2>3, <2>4 DEF vars
<1>3. CASE ReadRows(s)
  <2>1. /\ req[s].at = "rows" /\ req[s] # Idle /\ lost' = lost
        /\ req' = [req EXCEPT ![s] = [at |-> "sheets", done |-> req[s].done,
                                      needed |-> Needed]]
    BY <1>3 DEF ReadRows, Running, Idle, RacesTyped
  <2>2. RacesTyped'
    BY <1>1, <2>1 DEF RacesTyped, vars, Idle, Needed
  <2>3. Sequence'
    BY <1>1, <2>1 DEF RacesTyped, Sequence, vars
  <2>4. SomebodyWillAggregate'
    BY <1>1, <2>1 DEF RacesTyped, SomebodyWillAggregate, WillAggregate, vars
  <2> QED
    BY <1>1, <2>2, <2>3, <2>4 DEF vars
<1>4. CASE ReadSheets(s)
  <2> DEFINE ends == \/ req[s].needed = {}
                     \/ \E a \in req[s].needed : sheet[a] # "SUBMITTED"
                     \/ req[s].done
         mean == RoundedMean(SumFunctionOnSet(total, req[s].needed),
                             Cardinality(req[s].needed))
  <2>1. /\ req[s].at = "sheets" /\ req[s] # Idle /\ lost' = lost
        /\ req' = [req EXCEPT ![s] = IF ends THEN Idle
                                     ELSE [at |-> "average", average |-> mean]]
    BY <1>4 DEF ReadSheets, Running, Idle, Finish
  <2> HIDE DEF mean
  <2>2. RacesTyped'
    BY <1>1, <2>1 DEF RacesTyped, vars, Idle
  <2>3. Sequence'
    BY <1>1, <2>1 DEF RacesTyped, Sequence, vars, Idle
  <2>4. SomebodyWillAggregate'
    BY <1>1, <2>1 DEF RacesTyped, SomebodyWillAggregate, WillAggregate, PanelIsIn, vars
  <2> QED
    BY <1>1, <2>2, <2>3, <2>4 DEF vars
<1>5. CASE Crash(s)
  <2>1. lost' = TRUE /\ req' = [req EXCEPT ![s] = Idle]
    BY <1>5 DEF Crash, Finish
  <2>2. RacesTyped' /\ Sequence'
    BY <1>1, <2>1 DEF RacesTyped, Sequence, vars, Idle
  <2> QED
    BY <1>1, <2>1, <2>2 DEF SomebodyWillAggregate, vars
<1> QED
  BY <1>2, <1>3, <1>4, <1>5

\* The three writes: the sheet, the row, the average.
LEMMA WriteKeepsRacesInv ==
  ASSUME RacesInv, NEW s \in Slots,
         WriteSubmitted(s) \/ WriteCompleted(s) \/ SaveAverage(s)
  PROVE  RacesInv'
<1> USE DEF RacesInv
<1>1. CASE WriteSubmitted(s)
  <2>1. /\ req[s] \in [at : {"sheet", "row", "outline"}, row : Rows, t : Totals]
        /\ req[s].at = "sheet" /\ status = "PHANBIEN_KIN"
    BY <1>1 DEF WriteSubmitted, Running, RacesTyped, Sequence, Idle
  <2>2. /\ sheet' = [sheet EXCEPT ![req[s].row] = "SUBMITTED"]
        /\ req' = [req EXCEPT ![s].at = "row"]
        /\ UNCHANGED <<status, nextRow, st, review, lost>>
    BY <1>1 DEF WriteSubmitted, Goto, rowVars
  <2>3. RacesTyped'
    BY <2>1, <2>2 DEF RacesTyped
  <2>4. Sequence'
    BY <2>1, <2>2 DEF RacesTyped, Sequence
  <2>5. WillAggregate(s)'
    BY <2>1, <2>2 DEF RacesTyped, WillAggregate
  <2> QED
    BY <2>2, <2>3, <2>4, <2>5 DEF SomebodyWillAggregate
<1>2. CASE WriteCompleted(s)
  <2>1. /\ req[s] \in [at : {"sheet", "row", "outline"}, row : Rows, t : Totals]
        /\ req[s].at = "row" /\ status = "PHANBIEN_KIN" /\ st[req[s].row] \in InForce
    BY <1>2 DEF WriteCompleted, Running, RacesTyped, Sequence, Idle
  <2>2. /\ st' = [st EXCEPT ![req[s].row] = "COMPLETED"]
        /\ req' = [req EXCEPT ![s].at = "outline"]
        /\ UNCHANGED <<status, nextRow, sheet, review, lost>>
    BY <1>2 DEF WriteCompleted, Goto, sheetVars
  <2>3. RacesTyped'
    BY <2>1, <2>2 DEF RacesTyped
  <2>4. \A a \in Rows : st'[a] \in InForce <=> st[a] \in InForce
    BY <2>1, <2>2 DEF RacesTyped, InForce
  <2>5. Needed' = Needed
    BY <2>4 DEF Needed, InForce
  <2>6. Sequence'
    <3>1. \A p \in Slots : req[p].at \in {"sheet", "row"} => req[p].row \in Rows
      BY DEF RacesTyped, Idle
    <3> QED
      BY <2>1, <2>2, <2>4, <3>1 DEF RacesTyped, Sequence
  <2>7. SomebodyWillAggregate'
    BY <2>1, <2>2, <2>5 DEF RacesTyped, SomebodyWillAggregate, WillAggregate, PanelIsIn
  <2> QED
    BY <2>2, <2>3, <2>6, <2>7
<1>3. CASE SaveAverage(s)
  <2>1. /\ review' = [done |-> TRUE, average |-> req[s].average]
        /\ req' = [req EXCEPT ![s] = Idle]
        /\ UNCHANGED <<status, nextRow, st, sheet, lost>>
    BY <1>3 DEF SaveAverage, Finish, rowVars, sheetVars
  <2>2. RacesTyped' /\ Sequence'
    BY <2>1 DEF RacesTyped, Sequence, Idle
  <2> QED
    BY <2>1, <2>2 DEF SomebodyWillAggregate
<1> QED
  BY <1>1, <1>2, <1>3

LEMMA RacesStepKeepsInv == RacesInv /\ [RacesNext]_raceVars => RacesInv'
<1> SUFFICES ASSUME RacesInv, [RacesNext]_raceVars PROVE RacesInv'
  OBVIOUS
<1>1. CASE UNCHANGED raceVars
  BY <1>1 DEF raceVars, vars, RacesInv, RacesTyped, Sequence, SomebodyWillAggregate,
     WillAggregate, PanelIsIn, Needed
<1>2. ASSUME NEW s \in Slots, Begin(s) \/ Continue(s) \/ Crash(s)
      PROVE  RacesInv'
  BY <1>2, StartKeepsRacesInv, ReadKeepsRacesInv, WriteKeepsRacesInv DEF Begin, Continue
<1> QED
  BY <1>1, <1>2, WholeKeepsRacesInv DEF RacesNext

LEMMA RacesInvariance == RacesSpec => []RacesInv
  BY InitRacesInv, RacesStepKeepsInv, PTL DEF RacesSpec

\* However many submissions interleave, on however large a panel, the last one
\* to read finds the panel complete: when all requests have ended and none was
\* lost, a full panel has its average.
THEOREM NoneForgotten == RacesSpec => []NoSubmissionForgotten
<1>1. RacesInv => NoSubmissionForgotten
  BY DEF RacesInv, NoSubmissionForgotten, FullPanelIsAggregated, Quiet, Idle,
     SomebodyWillAggregate, PanelIsIn, WillAggregate
<1> QED
  BY <1>1, RacesInvariance, PTL

----------------------------------------------------------------------------
(* The revision and the approval. The properties are not inductive: Stage  *)
(* ties the status to the session, the conclusion, the gate, the signature *)
(* and the save the running request has left, and Version ties the text to *)
(* the version that is being judged.                                       *)

\* The save that is left, and where it finds the outline.
Pending ==
    /\ left = "apply"    => outline = "BAOVE_PENDING" /\ minutes.result \in Results
    /\ left = "enqueue"  => outline = "BAOVE_PENDING" /\ conclusion = "THONG_QUA"
    /\ left = "unlock"   => outline = "BAOVE_PENDING" /\ conclusion = "null"
    /\ left \in {"baseline", "revision", "submit"} => outline = "CHINH_SUA_TM"
    /\ left = "draft"    => opened

\* What the status says about the other columns.
Stage ==
    /\ council = "PUBLISHED" =>
        outline = "BAOVE_PENDING" /\ conclusion = "null" /\ left = "none"
    /\ outline # "BAOVE_PENDING" => conclusion # "null"
    /\ outline \in {"CHINH_SUA_TM", "CHO_PKH_DUYET_TM", "CHO_HD_XAC_NHAN_TM"} =>
        conclusion = "THONG_QUA_DIEU_CHINH"
    /\ outline \in {"CHO_BGH_DUYET_TM"} \cup Decided =>
        conclusion \in {"THONG_QUA", "THONG_QUA_DIEU_CHINH"}
    /\ signed <=> outline \in Decided
    /\ outline \in {"CHO_HC_PHAT_HANH_QD", "SAN_SANG_THUC_HIEN"} =>
        funded /\ ~rejected
    /\ opened <=> outline = "SAN_SANG_THUC_HIEN"
    /\ drafted => opened
    /\ outline = "KHONG_PHE_DUYET" => rejected

Lives == ApprovalTypeOK /\ GateMatchesStatus /\ Pending /\ Stage

\* The text under review is the version handed in.
Version ==
    /\ left = "submit" => text = versions[Len(versions)].text
    /\ outline \in {"CHO_PKH_DUYET_TM", "CHO_HD_XAC_NHAN_TM"} =>
        submitted # 0 /\ text = versions[submitted].text
    /\ outline = "CHO_HD_XAC_NHAN_TM" => passed.pkh = submitted
    /\ RevisedAsConfirmed

\* There is a baseline once a revision has begun, unless its making was lost.
Base ==
    /\ AnswersOneBaseline
    /\ baseline # 0 => baseline \in Baselines
    /\ left = "submit" => versions[Len(versions)].kind = "REVISION_SUBMITTED"
    /\ losses = 0 /\ conclusion = "THONG_QUA_DIEU_CHINH" /\ left # "baseline" =>
        Baselines # {}

Row == [kind : {"BASELINE_AFTER_DEFENSE", "REVISION_SUBMITTED"},
        text : 0..MaxText, parent : 0..MaxVersions]

----------------------------------------------------------------------------
(* The operators.                                                          *)

\* A baseline that exists is one of the rows.
LEMMA BaselineIsARow ==
    BaselineInTable \in 0..Len(versions)
  <1>1. CASE Baselines = {}
    BY <1>1 DEF BaselineInTable
  <1>2. CASE Baselines # {}
    <2>1. BaselineInTable \in Baselines
      BY <1>2 DEF BaselineInTable
    <2> QED
      BY <2>1 DEF Baselines
  <1> QED
    BY <1>1, <1>2

\* A row appended is the last one, and the others stay.
LEMMA AppendedRow ==
    ASSUME ApprovalTypeOK, NEW row \in Row, versions' = Append(versions, row)
    PROVE  /\ versions' \in Seq(Row)
           /\ Len(versions') = Len(versions) + 1 /\ Len(versions) \in Nat
           /\ \A i \in 1..Len(versions) : versions'[i] = versions[i]
           /\ versions'[Len(versions')] = row
  <1>1. versions \in Seq(Row)
    BY DEF ApprovalTypeOK, Row
  <1> QED
    BY <1>1

\* The row pointers stay within the bound.
LEMMA PointersInBound ==
    ASSUME ApprovalAssumption, ApprovalTypeOK
    PROVE  /\ versions \in Seq(Row) /\ Len(versions) \in Nat
           /\ submitted \in 0..MaxVersions /\ baseline \in 0..MaxVersions
           /\ BaselineInTable \in 0..MaxVersions
           /\ left = "submit" => versions[Len(versions)] \in Row
  <1>1. versions \in Seq(Row) /\ Len(versions) \in Nat
    BY DEF ApprovalTypeOK, Row
  <1>2. left = "submit" => versions[Len(versions)] \in Row
    BY <1>1 DEF ApprovalTypeOK
  <1>3. Len(versions) <= MaxVersions /\ MaxVersions \in Nat
        /\ submitted \in 0..Len(versions) /\ baseline \in 0..MaxVersions
    BY DEF ApprovalTypeOK, ApprovalAssumption
  <1> QED
    BY <1>1, <1>2, <1>3, BaselineIsARow

----------------------------------------------------------------------------
(* Type, gate, pending save and stage are kept together.                   *)

LEMMA LivesStart == ASSUME ApprovalAssumption, ApprovalInit PROVE Lives
  <1>1. ApprovalTypeOK
    <2>1. versions \in Seq(Row) /\ Len(versions) = 0
      BY DEF ApprovalInit
    <2> QED
      <3>1. minutes \in [result : Results \cup {"null"}, due : Deadline]
        BY DEF ApprovalInit, Deadline
      <3>2. passed \in [pkh : 0..MaxVersions, chair : 0..MaxVersions]
        BY DEF ApprovalInit, ApprovalAssumption
      <3>3. /\ Len(versions) <= MaxVersions /\ text \in 0..MaxText /\ losses \in 0..MaxLost
            /\ baseline \in 0..MaxVersions /\ submitted \in 0..Len(versions)
        BY <2>1 DEF ApprovalInit, ApprovalAssumption
      <3>4. /\ signed \in BOOLEAN /\ rejected \in BOOLEAN /\ funded \in BOOLEAN
            /\ opened \in BOOLEAN /\ drafted \in BOOLEAN /\ reminded \in BOOLEAN
        BY DEF ApprovalInit
      <3> QED
        BY <2>1, <3>1, <3>2, <3>3, <3>4
           DEF ApprovalInit, ApprovalTypeOK, OutlineStatus, Gate, Deadline, Row
  <1>2. GateMatchesStatus
    BY DEF ApprovalInit, GateMatchesStatus
  <1>3. Pending /\ Stage
    BY DEF ApprovalInit, Pending, Stage, Decided
  <1> QED
    BY <1>1, <1>2, <1>3 DEF Lives

LEMMA LivesStep ==
    ASSUME ApprovalAssumption, Lives, [ApprovalNext]_approvalVars
    PROVE  Lives'
  <1> USE DEF Lives, GateMatchesStatus, Pending, Stage, OutlineStatus, Gate, Results,
              Deadline, Decided, councilVars, revisionVars, decisionVars
  <1>1. ASSUME NEW result \in Results, NEW due \in Deadline, Finalize(result, due)
        PROVE  Lives'
    BY <1>1 DEF Finalize, ApprovalTypeOK
  <1>2. CASE ApplyResult
    BY <1>2, ApprovalAssumption DEF ApplyResult, Conclusion, ApprovalTypeOK, ApprovalAssumption
  <1>3. CASE Enqueue
    BY <1>3, ApprovalAssumption DEF Enqueue, EnqueueForBgh, ApprovalTypeOK, ApprovalAssumption
  <1>4. CASE OpenRevision
    <2>1. ApprovalTypeOK'
      <3>0. /\ versions \in Seq(Row) /\ Len(versions) \in Nat
            /\ submitted \in 0..MaxVersions /\ BaselineInTable \in 0..MaxVersions
            /\ left = "submit" => versions[Len(versions)] \in Row
        BY PointersInBound, ApprovalAssumption
      <3>1. /\ versions' \in Seq(Row) /\ Len(versions') <= MaxVersions
            /\ baseline' \in 0..MaxVersions /\ submitted' \in 0..Len(versions')
            /\ left' = "submit" => versions' # <<>>
        BY <1>4, <3>0 DEF OpenRevision, ApprovalTypeOK, Row, ApprovalAssumption
      <3>2. passed' \in [pkh : 0..MaxVersions, chair : 0..MaxVersions]
        BY <1>4, <3>0 DEF OpenRevision, ApprovalTypeOK, ApprovalAssumption
      <3>3. /\ signed' \in BOOLEAN /\ rejected' \in BOOLEAN /\ funded' \in BOOLEAN
            /\ opened' \in BOOLEAN /\ drafted' \in BOOLEAN /\ reminded' \in BOOLEAN
        BY <1>4 DEF OpenRevision, ApprovalTypeOK
      <3>4. /\ council' \in {"PUBLISHED", "FINALIZED"}
            /\ minutes' \in [result : Results \cup {"null"}, due : Deadline]
            /\ deadline' \in Deadline
            /\ text' \in 0..MaxText /\ losses' \in 0..MaxLost
        BY <1>4 DEF OpenRevision, ApprovalTypeOK
      <3>5. /\ outline' \in OutlineStatus /\ gate' \in Gate
            /\ conclusion' \in {"null", "THONG_QUA", "THONG_QUA_DIEU_CHINH",
                               "KHONG_THONG_QUA"}
            /\ left' \in {"none", "apply", "enqueue", "baseline", "revision",
                         "unlock", "submit", "draft"}
        BY <1>4 DEF OpenRevision, ApprovalTypeOK
      <3> QED
        BY <3>1, <3>2, <3>3, <3>4, <3>5 DEF ApprovalTypeOK, Row
    <2>2. GateMatchesStatus'
      BY <1>4 DEF OpenRevision, ApprovalTypeOK, ApprovalAssumption
    <2>3. Pending'
      BY <1>4 DEF OpenRevision, ApprovalTypeOK, ApprovalAssumption
    <2>4. Stage'
      BY <1>4 DEF OpenRevision, ApprovalTypeOK, ApprovalAssumption
    <2> QED
      BY <2>1, <2>2, <2>3, <2>4
  <1>5. CASE ReopenMinutes
    <2>1. ApprovalTypeOK'
      <3>0. /\ versions \in Seq(Row) /\ Len(versions) \in Nat
            /\ submitted \in 0..MaxVersions /\ BaselineInTable \in 0..MaxVersions
            /\ left = "submit" => versions[Len(versions)] \in Row
        BY PointersInBound, ApprovalAssumption
      <3>1. /\ versions' \in Seq(Row) /\ Len(versions') <= MaxVersions
            /\ baseline' \in 0..MaxVersions /\ submitted' \in 0..Len(versions')
            /\ left' = "submit" => versions' # <<>>
        BY <1>5, <3>0 DEF ReopenMinutes, CanReopenMinutes, ApprovalTypeOK, Row, ApprovalAssumption
      <3>2. passed' \in [pkh : 0..MaxVersions, chair : 0..MaxVersions]
        BY <1>5, <3>0 DEF ReopenMinutes, CanReopenMinutes, ApprovalTypeOK, ApprovalAssumption
      <3>3. /\ signed' \in BOOLEAN /\ rejected' \in BOOLEAN /\ funded' \in BOOLEAN
            /\ opened' \in BOOLEAN /\ drafted' \in BOOLEAN /\ reminded' \in BOOLEAN
        BY <1>5 DEF ReopenMinutes, CanReopenMinutes, ApprovalTypeOK
      <3>4. /\ council' \in {"PUBLISHED", "FINALIZED"}
            /\ minutes' \in [result : Results \cup {"null"}, due : Deadline]
            /\ deadline' \in Deadline
            /\ text' \in 0..MaxText /\ losses' \in 0..MaxLost
        BY <1>5 DEF ReopenMinutes, CanReopenMinutes, ApprovalTypeOK
      <3>5. /\ outline' \in OutlineStatus /\ gate' \in Gate
            /\ conclusion' \in {"null", "THONG_QUA", "THONG_QUA_DIEU_CHINH",
                               "KHONG_THONG_QUA"}
            /\ left' \in {"none", "apply", "enqueue", "baseline", "revision",
                         "unlock", "submit", "draft"}
        BY <1>5 DEF ReopenMinutes, CanReopenMinutes, ApprovalTypeOK
      <3> QED
        BY <3>1, <3>2, <3>3, <3>4, <3>5 DEF ApprovalTypeOK, Row
    <2>2. GateMatchesStatus'
      BY <1>5 DEF ReopenMinutes, CanReopenMinutes, ApprovalTypeOK, ApprovalAssumption
    <2>3. Pending'
      BY <1>5 DEF ReopenMinutes, CanReopenMinutes, ApprovalTypeOK, ApprovalAssumption
    <2>4. Stage'
      BY <1>5 DEF ReopenMinutes, CanReopenMinutes, ApprovalTypeOK, ApprovalAssumption
    <2> QED
      BY <2>1, <2>2, <2>3, <2>4
  <1>6. CASE UnlockSession
    BY <1>6, ApprovalAssumption DEF UnlockSession, ApprovalTypeOK, ApprovalAssumption
  <1>7. CASE WriteText
    BY <1>7, ApprovalAssumption DEF WriteText, ApprovalTypeOK, ApprovalAssumption
  <1>8. CASE HandInRevision
    <2>1. ApprovalTypeOK'
      <3>0. /\ versions \in Seq(Row) /\ Len(versions) \in Nat
            /\ submitted \in 0..MaxVersions /\ BaselineInTable \in 0..MaxVersions
            /\ left = "submit" => versions[Len(versions)] \in Row
        BY PointersInBound, ApprovalAssumption
      <3>1. /\ versions' \in Seq(Row) /\ Len(versions') <= MaxVersions
            /\ baseline' \in 0..MaxVersions /\ submitted' \in 0..Len(versions')
            /\ left' = "submit" => versions' # <<>>
        BY <1>8, <3>0 DEF HandInRevision, ApprovalTypeOK, Row, ApprovalAssumption
      <3>2. passed' \in [pkh : 0..MaxVersions, chair : 0..MaxVersions]
        BY <1>8, <3>0 DEF HandInRevision, ApprovalTypeOK, ApprovalAssumption
      <3>3. /\ signed' \in BOOLEAN /\ rejected' \in BOOLEAN /\ funded' \in BOOLEAN
            /\ opened' \in BOOLEAN /\ drafted' \in BOOLEAN /\ reminded' \in BOOLEAN
        BY <1>8 DEF HandInRevision, ApprovalTypeOK
      <3>4. /\ council' \in {"PUBLISHED", "FINALIZED"}
            /\ minutes' \in [result : Results \cup {"null"}, due : Deadline]
            /\ deadline' \in Deadline
            /\ text' \in 0..MaxText /\ losses' \in 0..MaxLost
        BY <1>8 DEF HandInRevision, ApprovalTypeOK
      <3>5. /\ outline' \in OutlineStatus /\ gate' \in Gate
            /\ conclusion' \in {"null", "THONG_QUA", "THONG_QUA_DIEU_CHINH",
                               "KHONG_THONG_QUA"}
            /\ left' \in {"none", "apply", "enqueue", "baseline", "revision",
                         "unlock", "submit", "draft"}
        BY <1>8 DEF HandInRevision, ApprovalTypeOK
      <3> QED
        BY <3>1, <3>2, <3>3, <3>4, <3>5 DEF ApprovalTypeOK, Row
    <2>2. GateMatchesStatus'
      BY <1>8 DEF HandInRevision, ApprovalTypeOK, ApprovalAssumption
    <2>3. Pending'
      BY <1>8 DEF HandInRevision, ApprovalTypeOK, ApprovalAssumption
    <2>4. Stage'
      BY <1>8 DEF HandInRevision, ApprovalTypeOK, ApprovalAssumption
    <2> QED
      BY <2>1, <2>2, <2>3, <2>4
  <1>9. CASE PkhAccepts
    BY <1>9, ApprovalAssumption DEF PkhAccepts, ApprovalTypeOK, ApprovalAssumption
  <1>10. CASE SecretaryConfirms
    BY <1>10, ApprovalAssumption DEF SecretaryConfirms, ApprovalTypeOK, ApprovalAssumption
  <1>11. CASE ChairConfirms
    <2>1. ApprovalTypeOK'
      <3>0. /\ versions \in Seq(Row) /\ Len(versions) \in Nat
            /\ submitted \in 0..MaxVersions /\ BaselineInTable \in 0..MaxVersions
            /\ left = "submit" => versions[Len(versions)] \in Row
        BY PointersInBound, ApprovalAssumption
      <3>1. /\ versions' \in Seq(Row) /\ Len(versions') <= MaxVersions
            /\ baseline' \in 0..MaxVersions /\ submitted' \in 0..Len(versions')
            /\ left' = "submit" => versions' # <<>>
        BY <1>11, <3>0 DEF ChairConfirms, EnqueueForBgh, ApprovalTypeOK, Row, ApprovalAssumption
      <3>2. passed' \in [pkh : 0..MaxVersions, chair : 0..MaxVersions]
        BY <1>11, <3>0 DEF ChairConfirms, EnqueueForBgh, ApprovalTypeOK, ApprovalAssumption
      <3>3. /\ signed' \in BOOLEAN /\ rejected' \in BOOLEAN /\ funded' \in BOOLEAN
            /\ opened' \in BOOLEAN /\ drafted' \in BOOLEAN /\ reminded' \in BOOLEAN
        BY <1>11 DEF ChairConfirms, EnqueueForBgh, ApprovalTypeOK
      <3>4. /\ council' \in {"PUBLISHED", "FINALIZED"}
            /\ minutes' \in [result : Results \cup {"null"}, due : Deadline]
            /\ deadline' \in Deadline
            /\ text' \in 0..MaxText /\ losses' \in 0..MaxLost
        BY <1>11 DEF ChairConfirms, EnqueueForBgh, ApprovalTypeOK
      <3>5. /\ outline' \in OutlineStatus /\ gate' \in Gate
            /\ conclusion' \in {"null", "THONG_QUA", "THONG_QUA_DIEU_CHINH",
                               "KHONG_THONG_QUA"}
            /\ left' \in {"none", "apply", "enqueue", "baseline", "revision",
                         "unlock", "submit", "draft"}
        BY <1>11 DEF ChairConfirms, EnqueueForBgh, ApprovalTypeOK
      <3> QED
        BY <3>1, <3>2, <3>3, <3>4, <3>5 DEF ApprovalTypeOK, Row
    <2>2. GateMatchesStatus'
      BY <1>11 DEF ChairConfirms, EnqueueForBgh, ApprovalTypeOK, ApprovalAssumption
    <2>3. Pending'
      BY <1>11 DEF ChairConfirms, EnqueueForBgh, ApprovalTypeOK, ApprovalAssumption
    <2>4. Stage'
      BY <1>11 DEF ChairConfirms, EnqueueForBgh, ApprovalTypeOK, ApprovalAssumption
    <2> QED
      BY <2>1, <2>2, <2>3, <2>4
  <1>12. CASE ReturnRevision
    BY <1>12, ApprovalAssumption DEF ReturnRevision, ApprovalTypeOK, ApprovalAssumption
  <1>13. CASE ExtendRevision
    BY <1>13, ApprovalAssumption DEF ExtendRevision, ApprovalTypeOK, ApprovalAssumption
  <1>14. CASE SendReminder
    BY <1>14, ApprovalAssumption DEF SendReminder, ApprovalTypeOK, ApprovalAssumption
  <1>15. CASE TimePasses
    BY <1>15, ApprovalAssumption DEF TimePasses, ApprovalTypeOK, ApprovalAssumption
  <1>16. CASE BghApprove
    BY <1>16, ApprovalAssumption DEF BghApprove, ApprovalTypeOK, ApprovalAssumption
  <1>17. CASE BghReject
    BY <1>17, ApprovalAssumption DEF BghReject, ApprovalTypeOK, ApprovalAssumption
  <1>18. CASE HcPublish
    BY <1>18, ApprovalAssumption DEF HcPublish, ApprovalTypeOK, ApprovalAssumption
  <1>19. CASE DraftContract
    <2>1. ApprovalTypeOK'
      <3>0. /\ versions \in Seq(Row) /\ Len(versions) \in Nat
            /\ submitted \in 0..MaxVersions /\ BaselineInTable \in 0..MaxVersions
            /\ left = "submit" => versions[Len(versions)] \in Row
        BY PointersInBound, ApprovalAssumption
      <3>1. /\ versions' \in Seq(Row) /\ Len(versions') <= MaxVersions
            /\ baseline' \in 0..MaxVersions /\ submitted' \in 0..Len(versions')
            /\ left' = "submit" => versions' # <<>>
        BY <1>19, <3>0 DEF DraftContract, ApprovalTypeOK, Row, ApprovalAssumption
      <3>2. passed' \in [pkh : 0..MaxVersions, chair : 0..MaxVersions]
        BY <1>19, <3>0 DEF DraftContract, ApprovalTypeOK, ApprovalAssumption
      <3>3. /\ signed' \in BOOLEAN /\ rejected' \in BOOLEAN /\ funded' \in BOOLEAN
            /\ opened' \in BOOLEAN /\ drafted' \in BOOLEAN /\ reminded' \in BOOLEAN
        BY <1>19 DEF DraftContract, ApprovalTypeOK
      <3>4. /\ council' \in {"PUBLISHED", "FINALIZED"}
            /\ minutes' \in [result : Results \cup {"null"}, due : Deadline]
            /\ deadline' \in Deadline
            /\ text' \in 0..MaxText /\ losses' \in 0..MaxLost
        BY <1>19 DEF DraftContract, ApprovalTypeOK
      <3>5. /\ outline' \in OutlineStatus /\ gate' \in Gate
            /\ conclusion' \in {"null", "THONG_QUA", "THONG_QUA_DIEU_CHINH",
                               "KHONG_THONG_QUA"}
            /\ left' \in {"none", "apply", "enqueue", "baseline", "revision",
                         "unlock", "submit", "draft"}
        BY <1>19 DEF DraftContract, ApprovalTypeOK
      <3> QED
        BY <3>1, <3>2, <3>3, <3>4, <3>5 DEF ApprovalTypeOK, Row
    <2>2. GateMatchesStatus'
      BY <1>19 DEF DraftContract, ApprovalTypeOK, ApprovalAssumption
    <2>3. Pending'
      BY <1>19 DEF DraftContract, ApprovalTypeOK, ApprovalAssumption
    <2>4. Stage'
      BY <1>19 DEF DraftContract, ApprovalTypeOK, ApprovalAssumption
    <2> QED
      BY <2>1, <2>2, <2>3, <2>4
  <1>20. CASE LoseRequest
    BY <1>20, ApprovalAssumption DEF LoseRequest, ApprovalTypeOK, ApprovalAssumption
  <1>21. CASE FreezeBaseline
    <2>1. CASE Baselines # {}
      BY <1>21, <2>1 DEF FreezeBaseline, ApprovalTypeOK
    <2>2. CASE Baselines = {}
      <3> DEFINE row == [kind |-> "BASELINE_AFTER_DEFENSE", text |-> text, parent |-> 0]
      <3>1. versions' = Append(versions, row) /\ Len(versions) < MaxVersions
        BY <1>21, <2>2 DEF FreezeBaseline, Freeze
      <3>2. row \in Row
        BY DEF ApprovalTypeOK, Row, ApprovalAssumption
      <3> HIDE DEF row
      <3>3. /\ versions' \in Seq(Row) /\ Len(versions') = Len(versions) + 1
            /\ Len(versions) \in Nat
        BY <3>1, <3>2, AppendedRow
      <3>4. Len(versions') <= MaxVersions /\ versions' # <<>>
        BY <3>1, <3>3 DEF ApprovalAssumption
      <3> QED
        BY <1>21, <3>3, <3>4 DEF FreezeBaseline, ApprovalTypeOK, Row
    <2> QED
      BY <2>1, <2>2
  <1>22. CASE SubmitRevision
    <2> DEFINE parent == IF baseline # 0 THEN baseline ELSE BaselineInTable
    <2> DEFINE row == [kind |-> "REVISION_SUBMITTED", text |-> text, parent |-> parent]
    <2>1. versions' = Append(versions, row) /\ Len(versions) < MaxVersions
      BY <1>22 DEF SubmitRevision, Freeze
    <2>2. parent \in 0..MaxVersions
      BY PointersInBound, ApprovalAssumption
    <2> HIDE DEF parent
    <2>3. row \in Row
      BY <2>2 DEF ApprovalTypeOK, Row
    <2> HIDE DEF row
    <2>4. /\ versions' \in Seq(Row) /\ Len(versions') = Len(versions) + 1
          /\ Len(versions) \in Nat
      BY <2>1, <2>3, AppendedRow
    <2>5. Len(versions') <= MaxVersions /\ versions' # <<>>
      BY <2>1, <2>4 DEF ApprovalAssumption
    <2> QED
      BY <1>22, <2>4, <2>5 DEF SubmitRevision, ApprovalTypeOK, Row
  <1>23. CASE UNCHANGED approvalVars
    BY <1>23 DEF approvalVars, ApprovalTypeOK
  <1> QED
    BY <1>1, <1>2, <1>3, <1>4, <1>5, <1>6, <1>7, <1>8, <1>9, <1>10, <1>11, <1>12,
       <1>13, <1>14, <1>15, <1>16, <1>17, <1>18, <1>19, <1>20, <1>21, <1>22, <1>23
       DEF ApprovalNext, MinutesNext, RevisionNext, DecisionNext

----------------------------------------------------------------------------
(* The text under review is the version handed in.                         *)

LEMMA VersionStart == ASSUME ApprovalInit PROVE Version
  BY DEF ApprovalInit, Version, RevisedAsConfirmed, Decided

\* Rows are only added, so what submitted points at stays.
LEMMA RowsStay ==
    ASSUME ApprovalTypeOK, NEW row \in Row, versions' = Append(versions, row)
    PROVE  submitted # 0 => versions'[submitted] = versions[submitted]
  <1>1. /\ Len(versions) \in Nat
        /\ \A i \in 1..Len(versions) : versions'[i] = versions[i]
    BY AppendedRow
  <1>2. submitted \in 0..Len(versions)
    BY DEF ApprovalTypeOK
  <1> QED
    BY <1>1, <1>2

\* The rows a request inserts are rows.
LEMMA FrozenRow ==
    ASSUME ApprovalAssumption, ApprovalTypeOK,
           NEW kind \in {"BASELINE_AFTER_DEFENSE", "REVISION_SUBMITTED"},
           NEW parent \in 0..MaxVersions
    PROVE  [kind |-> kind, text |-> text, parent |-> parent] \in Row
  BY DEF ApprovalTypeOK, Row

LEMMA VersionStep ==
    ASSUME ApprovalAssumption, Lives, Version, [ApprovalNext]_approvalVars
    PROVE  Version'
  <1> USE DEF Lives, Pending, Stage, Version, RevisedAsConfirmed, Decided,
              councilVars, revisionVars, decisionVars
  <1>1. ASSUME NEW result \in Results, NEW due \in Deadline, Finalize(result, due)
        PROVE  Version'
    BY <1>1 DEF Finalize
  <1>2. CASE ApplyResult
    BY <1>2 DEF ApplyResult, Conclusion, Results
  <1>3. CASE Enqueue
    BY <1>3 DEF Enqueue, EnqueueForBgh
  <1>4. CASE OpenRevision
    BY <1>4 DEF OpenRevision
  <1>5. CASE ReopenMinutes
    BY <1>5 DEF ReopenMinutes, CanReopenMinutes
  <1>6. CASE UnlockSession
    BY <1>6 DEF UnlockSession
  <1>7. CASE WriteText
    BY <1>7 DEF WriteText
  <1>8. CASE HandInRevision
    <2>1. Len(versions) \in Nat /\ Len(versions) # 0
      BY <1>8, PointersInBound DEF HandInRevision, ApprovalTypeOK, Row
    <2> QED
      BY <1>8, <2>1 DEF HandInRevision
  <1>9. CASE PkhAccepts
    <2>1. passed.pkh \in 0..MaxVersions /\ passed = [pkh |-> passed.pkh, chair |-> passed.chair]
          /\ passed' = [passed EXCEPT !.pkh = submitted]
      BY <1>9 DEF PkhAccepts, ApprovalTypeOK
    <2> QED
      BY <1>9, <2>1 DEF PkhAccepts
  <1>10. CASE SecretaryConfirms
    BY <1>10 DEF SecretaryConfirms
  <1>11. CASE ChairConfirms
    <2>1. passed.pkh \in 0..MaxVersions /\ passed = [pkh |-> passed.pkh, chair |-> passed.chair]
          /\ passed' = [passed EXCEPT !.chair = submitted]
      BY <1>11 DEF ChairConfirms, ApprovalTypeOK
    <2> QED
      BY <1>11, <2>1 DEF ChairConfirms, EnqueueForBgh
  <1>12. CASE ReturnRevision
    BY <1>12 DEF ReturnRevision
  <1>13. CASE ExtendRevision
    BY <1>13 DEF ExtendRevision
  <1>14. CASE SendReminder
    BY <1>14 DEF SendReminder
  <1>15. CASE TimePasses
    BY <1>15 DEF TimePasses
  <1>16. CASE BghApprove
    BY <1>16 DEF BghApprove
  <1>17. CASE BghReject
    BY <1>17 DEF BghReject
  <1>18. CASE HcPublish
    BY <1>18 DEF HcPublish
  <1>19. CASE DraftContract
    BY <1>19 DEF DraftContract
  <1>20. CASE LoseRequest
    BY <1>20 DEF LoseRequest
  <1>21. CASE FreezeBaseline
    <2>1. CASE Baselines # {}
      BY <1>21, <2>1 DEF FreezeBaseline
    <2>2. CASE Baselines = {}
      <3> DEFINE row == [kind |-> "BASELINE_AFTER_DEFENSE", text |-> text, parent |-> 0]
      <3>1. versions' = Append(versions, row) /\ row \in Row
        BY <1>21, <2>2, FrozenRow DEF FreezeBaseline, Freeze, ApprovalAssumption
      <3> HIDE DEF row
      <3>2. submitted # 0 => versions'[submitted] = versions[submitted]
        BY <3>1, RowsStay
      <3> QED
        BY <1>21, <3>2 DEF FreezeBaseline
    <2> QED
      BY <2>1, <2>2
  <1>22. CASE SubmitRevision
    <2> DEFINE parent == IF baseline # 0 THEN baseline ELSE BaselineInTable
    <2> DEFINE row == [kind |-> "REVISION_SUBMITTED", text |-> text, parent |-> parent]
    <2>1. versions' = Append(versions, row) /\ row.text = text
      BY <1>22 DEF SubmitRevision, Freeze
    <2>2. row \in Row
      <3>1. parent \in 0..MaxVersions
        BY PointersInBound
      <3> HIDE DEF parent
      <3> QED
        BY <3>1, FrozenRow
    <2> HIDE DEF row
    <2>3. versions'[Len(versions')].text = text
      BY <2>1, <2>2, AppendedRow
    <2> QED
      BY <1>22, <2>3 DEF SubmitRevision
  <1>23. CASE UNCHANGED approvalVars
    BY <1>23 DEF approvalVars
  <1> QED
    BY <1>1, <1>2, <1>3, <1>4, <1>5, <1>6, <1>7, <1>8, <1>9, <1>10, <1>11, <1>12,
       <1>13, <1>14, <1>15, <1>16, <1>17, <1>18, <1>19, <1>20, <1>21, <1>22, <1>23
       DEF ApprovalNext, MinutesNext, RevisionNext, DecisionNext

----------------------------------------------------------------------------
(* One baseline.                                                           *)

\* A row added moves no baseline, and adds one only if it is one.
LEMMA BaselinesGrow ==
    ASSUME ApprovalTypeOK, NEW row \in Row, versions' = Append(versions, row)
    PROVE  Baselines' = IF row.kind = "BASELINE_AFTER_DEFENSE"
                        THEN Baselines \cup {Len(versions) + 1} ELSE Baselines
  <1>1. /\ Len(versions') = Len(versions) + 1 /\ Len(versions) \in Nat
        /\ \A i \in 1..Len(versions) : versions'[i] = versions[i]
        /\ versions'[Len(versions')] = row
    BY AppendedRow
  <1>2. \A i : i \in 1..Len(versions') <=>
               i \in 1..Len(versions) \/ i = Len(versions')
    BY <1>1
  <1>3. \A i : i \in Baselines' <=> i \in 1..Len(versions')
                                     /\ versions'[i].kind = "BASELINE_AFTER_DEFENSE"
    BY DEF Baselines
  <1>4. \A i : i \in Baselines <=> i \in 1..Len(versions)
                                    /\ versions[i].kind = "BASELINE_AFTER_DEFENSE"
    BY DEF Baselines
  <1>5. \A i : i \in Baselines' <=>
          \/ i \in Baselines
          \/ i = Len(versions) + 1 /\ row.kind = "BASELINE_AFTER_DEFENSE"
    BY <1>1, <1>2, <1>3, <1>4
  <1> QED
    BY <1>5

\* A baseline that exists is found.
LEMMA BaselineFound ==
    Baselines # {} => BaselineInTable \in Baselines
  BY DEF BaselineInTable

LEMMA BaseStart == ASSUME ApprovalInit PROVE Base
  <1>1. versions = <<>> /\ Len(versions) = 0
    BY DEF ApprovalInit
  <1>2. Baselines = {}
    BY <1>1 DEF Baselines
  <1>3. AnswersOneBaseline
    BY <1>1, <1>2 DEF AnswersOneBaseline
  <1> QED
    BY <1>2, <1>3 DEF ApprovalInit, Base

LEMMA BaseStep ==
    ASSUME ApprovalAssumption, Lives, Base, [ApprovalNext]_approvalVars
    PROVE  Base'
  <1> USE DEF councilVars, revisionVars, decisionVars
  <1>0. /\ versions \in Seq(Row) /\ Len(versions) \in Nat
        /\ baseline \in 0..MaxVersions /\ losses \in Nat
    BY PointersInBound DEF Lives, ApprovalTypeOK, ApprovalAssumption
  <1>1. ASSUME UNCHANGED versions, losses' \in {losses, losses + 1},
               baseline' \in {0, baseline} \cup Baselines,
               left' = "submit" => left = "submit",
               losses' = 0 /\ conclusion' = "THONG_QUA_DIEU_CHINH" /\ left' # "baseline" =>
                 Baselines # {}
        PROVE  Base'
    <2>1. Baselines' = Baselines
      BY <1>1 DEF Baselines
    <2>2. AnswersOneBaseline'
      BY <1>0, <1>1, <2>1 DEF Base, AnswersOneBaseline
    <2> QED
      BY <1>1, <2>1, <2>2 DEF Base
  <1>2. ASSUME NEW result \in Results, NEW due \in Deadline, Finalize(result, due)
        PROVE  Base'
    BY <1>1, <1>2 DEF Finalize, Base, Lives, Stage
  <1>3. CASE ApplyResult
    BY <1>1, <1>3 DEF ApplyResult, Conclusion, Base, Lives, Pending, Results
  <1>4. CASE Enqueue
    BY <1>1, <1>4 DEF Enqueue, EnqueueForBgh, Base
  <1>5. CASE OpenRevision
    <2>1. baseline' \in {0} \cup Baselines
      BY <1>5, BaselineFound DEF OpenRevision, BaselineInTable
    <2> QED
      BY <1>1, <1>5, <2>1 DEF OpenRevision, Base
  <1>6. CASE ReopenMinutes
    BY <1>1, <1>6 DEF ReopenMinutes, Base, Lives, Pending
  <1>7. CASE HandInRevision
    <2>1. Len(versions) \in 1..Len(versions)
      BY <1>0, <1>7 DEF HandInRevision, Lives, ApprovalTypeOK
    <2>2. versions[Len(versions)].parent \in {0} \cup Baselines
      BY <1>7, <2>1 DEF HandInRevision, Base, AnswersOneBaseline
    <2> QED
      BY <1>1, <1>7, <2>2 DEF HandInRevision, Base
  <1>8. CASE LoseRequest
    BY <1>0, <1>1, <1>8 DEF LoseRequest, Base
  <1>9. CASE FreezeBaseline
    <2>1. CASE Baselines # {}
      BY <1>1, <1>9, <2>1 DEF FreezeBaseline, Base
    <2>2. CASE Baselines = {}
      <3> DEFINE row == [kind |-> "BASELINE_AFTER_DEFENSE", text |-> text, parent |-> 0]
      <3>1. /\ versions' = Append(versions, row) /\ row \in Row
            /\ row.kind = "BASELINE_AFTER_DEFENSE"
        BY <1>9, <2>2, FrozenRow DEF FreezeBaseline, Freeze, Lives, ApprovalAssumption
      <3> HIDE DEF row
      <3>2. Baselines' = {Len(versions) + 1}
        BY <2>2, <3>1, BaselinesGrow DEF Lives
      <3>3. /\ Len(versions') = Len(versions) + 1
            /\ \A i \in 1..Len(versions) : versions'[i] = versions[i]
            /\ versions'[Len(versions')] = row
        BY <3>1, AppendedRow DEF Lives
      <3>4. \A i \in 1..Len(versions') :
              i \in 1..Len(versions) \/ i = Len(versions')
        BY <1>0, <3>3
      <3>5. losses' = losses /\ baseline' = baseline /\ left' # "submit"
        BY <1>9 DEF FreezeBaseline
      <3>6. \A i \in 1..Len(versions') :
              versions'[i].kind = "REVISION_SUBMITTED" =>
                versions'[i].parent = 0 /\ losses' > 0
        BY <2>2, <3>1, <3>3, <3>4, <3>5 DEF Base, AnswersOneBaseline
      <3>7. AnswersOneBaseline'
        BY <3>2, <3>6 DEF AnswersOneBaseline
      <3>8. baseline = 0
        BY <2>2 DEF Base
      <3> QED
        BY <3>2, <3>5, <3>7, <3>8 DEF Base
    <2> QED
      BY <2>1, <2>2
  <1>10. CASE SubmitRevision
    <2> DEFINE parent == IF baseline # 0 THEN baseline ELSE BaselineInTable
    <2> DEFINE row == [kind |-> "REVISION_SUBMITTED", text |-> text, parent |-> parent]
    <2>1. /\ versions' = Append(versions, row) /\ row.parent = parent
          /\ row.kind = "REVISION_SUBMITTED"
      BY <1>10 DEF SubmitRevision, Freeze
    <2>2. row \in Row
      <3>1. parent \in 0..MaxVersions
        BY PointersInBound DEF Lives
      <3> HIDE DEF parent
      <3> QED
        BY <3>1, FrozenRow DEF Lives
    <2>3. \/ parent \in Baselines
          \/ parent = 0 /\ losses > 0
      <3>1. conclusion = "THONG_QUA_DIEU_CHINH" /\ left # "baseline"
        BY <1>10 DEF SubmitRevision, Lives, Stage
      <3>2. losses # 0 \/ Baselines # {}
        BY <3>1 DEF Base
      <3>3. CASE baseline # 0
        BY <3>3 DEF Base
      <3>4. CASE baseline = 0 /\ Baselines # {}
        BY <3>4, BaselineFound
      <3>5. CASE baseline = 0 /\ Baselines = {}
        BY <1>0, <3>2, <3>5 DEF BaselineInTable
      <3> QED
        BY <3>3, <3>4, <3>5
    <2> HIDE DEF row, parent
    <2>4. Baselines' = Baselines
      BY <2>1, <2>2, BaselinesGrow DEF Lives
    <2>5. /\ Len(versions') = Len(versions) + 1
          /\ \A i \in 1..Len(versions) : versions'[i] = versions[i]
          /\ versions'[Len(versions')] = row
      BY <2>1, <2>2, AppendedRow DEF Lives
    <2>6. \A i \in 1..Len(versions') : i \in 1..Len(versions) \/ i = Len(versions')
      BY <1>0, <2>5
    <2>7. /\ losses' = losses /\ baseline' = baseline /\ conclusion' = conclusion
          /\ left # "baseline"
      BY <1>10 DEF SubmitRevision
    <2>8. AnswersOneBaseline'
      <3>1. \A i, j \in Baselines' : i = j
        BY <2>4 DEF Base, AnswersOneBaseline
      <3>2. \A i \in 1..Len(versions) :
              versions'[i].kind = "REVISION_SUBMITTED" =>
                \/ versions'[i].parent \in Baselines'
                \/ versions'[i].parent = 0 /\ losses' > 0
        BY <2>4, <2>5, <2>7 DEF Base, AnswersOneBaseline
      <3>3. \/ versions'[Len(versions')].parent \in Baselines'
            \/ versions'[Len(versions')].parent = 0 /\ losses' > 0
        BY <2>1, <2>3, <2>4, <2>5, <2>7
      <3> QED
        BY <2>6, <3>1, <3>2, <3>3 DEF AnswersOneBaseline
    <2> QED
      BY <2>1, <2>4, <2>5, <2>7, <2>8 DEF Base
  <1>11. CASE UnlockSession \/ WriteText \/ PkhAccepts \/ SecretaryConfirms
              \/ ReturnRevision \/ ExtendRevision \/ SendReminder \/ TimePasses
    BY <1>1, <1>11 DEF UnlockSession, WriteText, PkhAccepts, SecretaryConfirms,
       ReturnRevision, ExtendRevision, SendReminder, TimePasses, Base
  <1>12. CASE ChairConfirms \/ BghApprove \/ BghReject \/ HcPublish \/ DraftContract
              \/ UNCHANGED approvalVars
    BY <1>1, <1>12 DEF ChairConfirms, EnqueueForBgh, BghApprove, BghReject,
       HcPublish, DraftContract, approvalVars, Base
  <1> QED
    BY <1>2, <1>3, <1>4, <1>5, <1>6, <1>7, <1>8, <1>9, <1>10, <1>11, <1>12
       DEF ApprovalNext, MinutesNext, RevisionNext, DecisionNext

----------------------------------------------------------------------------
(* The theorems.                                                           *)

\* The invariant that the others are read off: columns of their types, gates
\* and stages that agree, the version under review, one baseline.
THEOREM Kept == ApprovalSpec => [](Lives /\ Version /\ Base)
  <1> USE ApprovalAssumption
  <1>1. ApprovalInit => Lives /\ Version /\ Base
    BY LivesStart, VersionStart, BaseStart
  <1>2. Lives /\ Version /\ Base /\ [ApprovalNext]_approvalVars => (Lives /\ Version /\ Base)'
    BY LivesStep, VersionStep, BaseStep
  <1> QED
    BY <1>1, <1>2, PTL DEF ApprovalSpec

\* The tables of the approval keep their types for any number of texts,
\* versions and lost requests.
THEOREM ApprovalTypeCorrect == ApprovalSpec => []ApprovalTypeOK
  <1>1. Lives => ApprovalTypeOK
    BY DEF Lives
  <1> QED
    BY <1>1, Kept, PTL

\* applyOutlineResult, the three gates, BGH and reopenMinutes never leave an
\* outline whose status and gate ask different people.
THEOREM GatesAgree == ApprovalSpec => []GateMatchesStatus
  <1>1. Lives => GateMatchesStatus
    BY DEF Lives
  <1> QED
    BY <1>1, Kept, PTL

\* What BGH decides on after a revision is the version last handed in, and PKH
\* and the chair let through that version and no older one.
THEOREM ConfirmedIsDecided == ApprovalSpec => []RevisedAsConfirmed
  <1>1. Version => RevisedAsConfirmed
    BY DEF Version
  <1> QED
    BY <1>1, Kept, PTL

\* No project starts, and no contract is drafted, without a standing approval.
THEOREM StartsOnApproval == ApprovalSpec => []StartedOnApproval
  <1>1. Lives => StartedOnApproval
    BY DEF Lives, ApprovalTypeOK, Stage, StartedOnApproval, Decided
  <1> QED
    BY <1>1, Kept, PTL

\* However many revisions and reopened minutes there are, one text is the
\* baseline, and the versions handed in answer it.
THEOREM OneBaseline == ApprovalSpec => []AnswersOneBaseline
  <1>1. Base => AnswersOneBaseline
    BY DEF Base
  <1> QED
    BY <1>1, Kept, PTL

\* After the signature of BGH no request changes the text or goes back on the
\* decision; the only way on is the publication of an approval.
THEOREM DecisionsStand == ApprovalSpec => DecisionStands
  <1>1. ASSUME Lives, [ApprovalNext]_approvalVars
        PROVE  [signed => /\ signed' /\ rejected' = rejected /\ text' = text
                          /\ outline' \in {outline, "SAN_SANG_THUC_HIEN"}
                          /\ rejected => outline' = outline]_approvalVars
    <2> SUFFICES ASSUME signed, ApprovalNext
                 PROVE  /\ signed' /\ rejected' = rejected /\ text' = text
                        /\ outline' \in {outline, "SAN_SANG_THUC_HIEN"}
                        /\ rejected => outline' = outline
      BY <1>1
    <2>1. /\ outline \in Decided
          /\ outline = "CHO_HC_PHAT_HANH_QD" => ~rejected
      BY <1>1 DEF Lives, Stage, Decided
    <2>2. left \notin {"apply", "enqueue", "unlock", "baseline", "revision", "submit"}
      BY <1>1, <2>1 DEF Lives, Pending, Decided
    <2>3. council # "PUBLISHED"
      BY <1>1, <2>1 DEF Lives, Stage, Decided
    <2> USE <2>1, <2>2, <2>3 DEF Decided, councilVars, revisionVars, decisionVars
    <2>4. ASSUME MinutesNext PROVE FALSE
      BY <2>4 DEF MinutesNext, Finalize, ApplyResult, Enqueue, FreezeBaseline,
         OpenRevision, ReopenMinutes, CanReopenMinutes, UnlockSession
    <2>5. CASE RevisionNext
      <3>1. TimePasses
        BY <2>5 DEF RevisionNext, WriteText, SubmitRevision, HandInRevision,
           PkhAccepts, SecretaryConfirms, ChairConfirms, ReturnRevision,
           ExtendRevision, SendReminder
      <3> QED
        BY <3>1 DEF TimePasses
    <2>6. CASE DecisionNext
      <3>1. HcPublish \/ DraftContract
        BY <2>6 DEF DecisionNext, BghApprove, BghReject
      <3> QED
        BY <3>1 DEF HcPublish, DraftContract
    <2>7. CASE LoseRequest
      BY <2>7 DEF LoseRequest
    <2> QED
      BY <2>4, <2>5, <2>6, <2>7 DEF ApprovalNext
  <1> QED
    BY <1>1, Kept, PTL DEF ApprovalSpec, DecisionStands
=============================================================================
