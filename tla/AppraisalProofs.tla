--------------------------- MODULE AppraisalProofs ---------------------------
(***************************************************************************)
(* Proofs about Appraisal, for any outlines, sessions and councils. Ballots *)
(* and minutes are complete for all of them; where an outline stands is    *)
(* proved for those that the office did not relink.                        *)
(***************************************************************************)
EXTENDS Appraisal, TLAPS

Decisive == {"CHO_HC_PHAT_HANH_QD", "SAN_SANG_THUC_HIEN", "KHONG_PHE_DUYET"}
Judged   == {"CHINH_SUA_TM", "BAOVE_KHONG_DAT", "CHO_BGH_DUYET_TM"} \cup Decisive

\* Ballots are cast between publication and the closing of the minutes.
NoEarlyBallots ==
    \A s \in Sessions : stage[s] \in {"NONE", "DRAFT", "PENDING_BGH", "BGH_SIGNED"}
        => ballots[s] = {}

\* A session names outlines only once it exists.
NoneInv == \A s \in Sessions : stage[s] = "NONE" => links[s] = {}

\* The outlines of a published session wait for it.
PublishedInv ==
    \A s \in Sessions, o \in Outlines \ relinked :
        o \in links[s] /\ stage[s] = "PUBLISHED"
            => status[o] = "BAOVE_PENDING" /\ active[o] = s

\* The outlines of closed minutes were judged by them, and only by them.
FinalInv ==
    \A s \in Sessions, o \in Outlines \ relinked :
        o \in links[s] /\ stage[s] = "FINALIZED"
            => status[o] \in Judged /\ active[o] = s /\ decided[o]

\* An outline at or past its defence belongs to the session that is active.
ActiveInv ==
    \A o \in Outlines \ relinked :
        status[o] \in Judged \cup {"BAOVE_PENDING"} =>
            /\ active[o] \in Sessions
            /\ o \in links[active[o]]
            /\ stage[active[o]] = IF status[o] = "BAOVE_PENDING"
                                  THEN "PUBLISHED" ELSE "FINALIZED"

\* Only outlines that BGH decided carry its signature.
SignedInv == \A o \in Outlines \ relinked : signed[o] => status[o] \in Decisive

\* The status of a judged outline is one that its conclusion leads to.
Fits(st, result) ==
    /\ st = "BAOVE_KHONG_DAT" => result = "KHONG_DE_XUAT"
    /\ st = "CHINH_SUA_TM" => result = "HOAN_THIEN"
    /\ st \in {"CHO_BGH_DUYET_TM"} \cup Decisive
        => result \in {"DE_XUAT_XET", "HOAN_THIEN"}
ResultInv ==
    \A s \in Sessions, o \in Outlines \ relinked :
        o \in links[s] /\ stage[s] = "FINALIZED"
            => Fits(status[o], minutes[s][o])

\* Inductive by itself, for relinked outlines too ...
Ballots == TypeOK /\ NoEarlyBallots /\ BallotsComplete

\* ... and, on top of it, inductive for the outlines that were not relinked.
Lives ==
    /\ NoneInv
    /\ OneLiveSession
    /\ PublishedInv
    /\ FinalInv
    /\ ActiveInv
    /\ SignedInv
    /\ ResultInv

LEMMA RecordedType ==
  ASSUME TypeOK, NEW s \in Sessions, NEW results \in Papers
  PROVE  Recorded(s, results) \in [Outlines -> Item]
<1>1. PICK o \in Outlines : results \in [{o} -> Results]
  BY DEF Papers
<1> QED
  BY <1>1 DEF Recorded, Item, TypeOK

LEMMA OutcomeType ==
  ASSUME NEW i \in Item, i # NoItem
  PROVE  /\ i \in Results
         /\ Outcome(i) \in Judged \ Decisive
         /\ Fits(Outcome(i), i)
         /\ Outcome(i) \in Status
  BY DEF Item, Results, Outcome, Judged, Decisive, Fits, Status

----------------------------------------------------------------------------
(* Types and ballots, for all outlines.                                    *)

LEMMA InitBallots == Init => Ballots
  BY AppraisalAssumption
  DEF Init, Ballots, NoEarlyBallots, TypeOK, BallotsComplete, Status, Stage, Item

LEMMA SessionKeepsBallots ==
  ASSUME Ballots, SessionNext
  PROVE  Ballots'
<1> USE DEF Ballots, outlineVars, sessionVars, Live, Groups, Status, Stage
<1>1. PICK s \in Sessions :
        \/ \E O \in Groups, d \in Days :
            \/ UpdateDraft(s, O, d)
            \/ \E C \in Councils : CreateSession(s, O, C, d)
                                   \/ UpdateCouncil(s, O, C, d)
        \/ SubmitToBgh(s) \/ BghSign(s) \/ Publish(s) \/ CancelSession(s)
        \/ \E o \in links[s], p \in council[s] : SubmitBallot(s, o, p)
        \/ OpenEarlyMeeting(s) \/ MeetingTime(s)
        \/ \E results \in Papers : SaveMinutes(s, results) \/ Finalize(s, results)
        \/ ReopenMinutes(s)
  BY DEF SessionNext
<1>2. ASSUME NEW O \in Groups, NEW C \in Councils, NEW d \in Days, CreateSession(s, O, C, d)
      PROVE  Ballots'
  <2>1. TypeOK'
    BY <1>2 DEF CreateSession, TypeOK, NoEarlyBallots
  <2>2. NoEarlyBallots'
    BY <1>2 DEF CreateSession, TypeOK, NoEarlyBallots
  <2>3. BallotsComplete'
    BY <1>2 DEF CreateSession, TypeOK, BallotsComplete, AllSubmitted
  <2> QED BY <2>1, <2>2, <2>3
<1>3. ASSUME NEW O \in Groups, NEW d \in Days, UpdateDraft(s, O, d)
      PROVE  Ballots'
  <2>1. TypeOK'
    BY <1>3 DEF UpdateDraft, Foreign, TypeOK, NoEarlyBallots
  <2>2. NoEarlyBallots'
    BY <1>3 DEF UpdateDraft, TypeOK, NoEarlyBallots
  <2>3. BallotsComplete'
    BY <1>3 DEF UpdateDraft, TypeOK, BallotsComplete, AllSubmitted
  <2> QED BY <2>1, <2>2, <2>3
<1>4. ASSUME NEW O \in Groups, NEW C \in Councils, NEW d \in Days, UpdateCouncil(s, O, C, d)
      PROVE  Ballots'
  <2>1. TypeOK'
    BY <1>4 DEF UpdateCouncil, Foreign, TypeOK, NoEarlyBallots
  <2>2. NoEarlyBallots'
    BY <1>4 DEF UpdateCouncil, TypeOK, NoEarlyBallots
  <2>3. BallotsComplete'
    BY <1>4 DEF UpdateCouncil, TypeOK, BallotsComplete, AllSubmitted
  <2> QED BY <2>1, <2>2, <2>3
<1>5. CASE SubmitToBgh(s)
  <2>1. TypeOK'
    BY <1>5 DEF SubmitToBgh, TypeOK, NoEarlyBallots
  <2>2. NoEarlyBallots'
    BY <1>5 DEF SubmitToBgh, TypeOK, NoEarlyBallots
  <2>3. BallotsComplete'
    BY <1>5 DEF SubmitToBgh, TypeOK, BallotsComplete, AllSubmitted
  <2> QED BY <2>1, <2>2, <2>3
<1>6. CASE BghSign(s)
  <2>1. TypeOK'
    BY <1>6 DEF BghSign, TypeOK, NoEarlyBallots
  <2>2. NoEarlyBallots'
    BY <1>6 DEF BghSign, TypeOK, NoEarlyBallots
  <2>3. BallotsComplete'
    BY <1>6 DEF BghSign, TypeOK, BallotsComplete, AllSubmitted
  <2> QED BY <2>1, <2>2, <2>3
<1>7. CASE Publish(s)
  <2>1. TypeOK'
    BY <1>7 DEF Publish, TypeOK, NoEarlyBallots
  <2>2. NoEarlyBallots'
    BY <1>7 DEF Publish, TypeOK, NoEarlyBallots
  <2>3. BallotsComplete'
    BY <1>7 DEF Publish, TypeOK, BallotsComplete, AllSubmitted
  <2> QED BY <2>1, <2>2, <2>3
<1>8. CASE CancelSession(s)
  <2>1. TypeOK'
    <3>1. \A t \in Sessions : ballots'[t] = ballots[t] \/ ballots'[t] = {}
      BY <1>8 DEF CancelSession, Forget, TypeOK
    <3>2. /\ minutes' \in [Sessions -> [Outlines -> Item]]
          /\ held' \in [Sessions -> BOOLEAN] /\ early' \in [Sessions -> BOOLEAN]
          /\ ballots' \in [Sessions -> SUBSET (Outlines \X UNION Councils)]
      BY <1>8 DEF CancelSession, Forget, TypeOK, Item
    <3>3. /\ status' \in [Outlines -> Status] /\ stage' \in [Sessions -> Stage]
          /\ active' \in [Outlines -> Sessions \cup {None}]
          /\ UNCHANGED <<decided, signed, reviewers, links, council, day, relinked>>
      BY <1>8 DEF CancelSession, TypeOK
    <3> QED BY <3>1, <3>2, <3>3 DEF TypeOK
  <2>2. NoEarlyBallots'
    BY <1>8 DEF CancelSession, Forget, TypeOK, NoEarlyBallots
  <2>3. BallotsComplete'
    BY <1>8 DEF CancelSession, Forget, TypeOK, BallotsComplete, AllSubmitted
  <2> QED BY <2>1, <2>2, <2>3
<1>9. ASSUME NEW o \in links[s], NEW p \in council[s], SubmitBallot(s, o, p)
      PROVE  Ballots'
  <2>1. TypeOK'
    BY <1>9 DEF SubmitBallot, TypeOK, NoEarlyBallots
  <2>2. NoEarlyBallots'
    BY <1>9 DEF SubmitBallot, TypeOK, NoEarlyBallots
  <2>3. BallotsComplete'
    BY <1>9 DEF SubmitBallot, TypeOK, BallotsComplete, AllSubmitted
  <2> QED BY <2>1, <2>2, <2>3
<1>10. CASE OpenEarlyMeeting(s)
  <2>1. TypeOK'
    BY <1>10 DEF OpenEarlyMeeting, TypeOK, NoEarlyBallots
  <2>2. NoEarlyBallots'
    BY <1>10 DEF OpenEarlyMeeting, TypeOK, NoEarlyBallots
  <2>3. BallotsComplete'
    BY <1>10 DEF OpenEarlyMeeting, TypeOK, BallotsComplete, AllSubmitted
  <2> QED BY <2>1, <2>2, <2>3
<1>11. CASE MeetingTime(s)
  <2>1. TypeOK'
    BY <1>11 DEF MeetingTime, TypeOK, NoEarlyBallots
  <2>2. NoEarlyBallots'
    BY <1>11 DEF MeetingTime, TypeOK, NoEarlyBallots
  <2>3. BallotsComplete'
    BY <1>11 DEF MeetingTime, TypeOK, BallotsComplete, AllSubmitted
  <2> QED BY <2>1, <2>2, <2>3
<1>12. ASSUME NEW results \in Papers, SaveMinutes(s, results)
      PROVE  Ballots'
  <2>1. Recorded(s, results) \in [Outlines -> Item]
    BY RecordedType
  <2>2. TypeOK'
    BY <1>12, <2>1 DEF SaveMinutes, TypeOK, NoEarlyBallots
  <2>3. NoEarlyBallots'
    BY <1>12, <2>1 DEF SaveMinutes, TypeOK, NoEarlyBallots
  <2>4. BallotsComplete'
    BY <1>12, <2>1 DEF SaveMinutes, TypeOK, BallotsComplete, AllSubmitted
  <2> QED BY <2>2, <2>3, <2>4
<1>13. ASSUME NEW results \in Papers, Finalize(s, results)
      PROVE  Ballots'
  <2>1. Recorded(s, results) \in [Outlines -> Item]
    BY RecordedType
  <2>2. \A o \in links[s] : /\ o \in Outlines
                            /\ Outcome(Recorded(s, results)[o]) \in Status
    BY <1>13, <2>1, OutcomeType DEF Finalize, TypeOK
  <2>3. TypeOK'
    BY <1>13, <2>1, <2>2 DEF Finalize, TypeOK, NoEarlyBallots
  <2>4. NoEarlyBallots'
    BY <1>13, <2>1, <2>2 DEF Finalize, TypeOK, NoEarlyBallots
  <2>5. BallotsComplete'
    BY <1>13, <2>1, <2>2 DEF Finalize, TypeOK, BallotsComplete, AllSubmitted
  <2> QED BY <2>3, <2>4, <2>5
<1>14. CASE ReopenMinutes(s)
  <2>1. TypeOK'
    BY <1>14 DEF ReopenMinutes, TypeOK, NoEarlyBallots
  <2>2. NoEarlyBallots'
    BY <1>14 DEF ReopenMinutes, TypeOK, NoEarlyBallots
  <2>3. BallotsComplete'
    BY <1>14 DEF ReopenMinutes, TypeOK, BallotsComplete, AllSubmitted
  <2> QED BY <2>1, <2>2, <2>3
<1> QED BY <1>1, <1>2, <1>3, <1>4, <1>5, <1>6, <1>7, <1>8, <1>9, <1>10, <1>11, <1>12, <1>13, <1>14

LEMMA OutlineKeepsBallots ==
  ASSUME Ballots, OutlineNext
  PROVE  Ballots'
<1> USE DEF Ballots, outlineVars, sessionVars, Live, Groups, Status, Stage, Move
<1>1. PICK o \in Outlines :
        \/ Withdraw(o) \/ Submit(o)
        \/ \E R \in SUBSET Reviewers : AssignReviewers(o, R)
        \/ ConfirmRevision(o)
        \/ \E to \in {"CHO_HC_PHAT_HANH_QD", "KHONG_PHE_DUYET"} : BghDecide(o, to)
        \/ HcPublish(o)
  BY DEF OutlineNext
<1>2. CASE Withdraw(o)
  <2>1. TypeOK'
    BY <1>2 DEF Withdraw, TypeOK, NoEarlyBallots
  <2>2. NoEarlyBallots'
    BY <1>2 DEF Withdraw, TypeOK, NoEarlyBallots
  <2>3. BallotsComplete'
    BY <1>2 DEF Withdraw, TypeOK, BallotsComplete, AllSubmitted
  <2> QED BY <2>1, <2>2, <2>3
<1>3. CASE Submit(o)
  <2>1. TypeOK'
    BY <1>3 DEF Submit, TypeOK, NoEarlyBallots
  <2>2. NoEarlyBallots'
    BY <1>3 DEF Submit, TypeOK, NoEarlyBallots
  <2>3. BallotsComplete'
    BY <1>3 DEF Submit, TypeOK, BallotsComplete, AllSubmitted
  <2> QED BY <2>1, <2>2, <2>3
<1>4. ASSUME NEW R \in SUBSET Reviewers, AssignReviewers(o, R)
      PROVE  Ballots'
  <2>1. TypeOK'
    BY <1>4 DEF AssignReviewers, TypeOK, NoEarlyBallots
  <2>2. NoEarlyBallots'
    BY <1>4 DEF AssignReviewers, TypeOK, NoEarlyBallots
  <2>3. BallotsComplete'
    BY <1>4 DEF AssignReviewers, TypeOK, BallotsComplete, AllSubmitted
  <2> QED BY <2>1, <2>2, <2>3
<1>5. CASE ConfirmRevision(o)
  <2>1. TypeOK'
    BY <1>5 DEF ConfirmRevision, TypeOK, NoEarlyBallots
  <2>2. NoEarlyBallots'
    BY <1>5 DEF ConfirmRevision, TypeOK, NoEarlyBallots
  <2>3. BallotsComplete'
    BY <1>5 DEF ConfirmRevision, TypeOK, BallotsComplete, AllSubmitted
  <2> QED BY <2>1, <2>2, <2>3
<1>6. ASSUME NEW to \in {"CHO_HC_PHAT_HANH_QD", "KHONG_PHE_DUYET"}, BghDecide(o, to)
      PROVE  Ballots'
  <2>1. TypeOK'
    BY <1>6 DEF BghDecide, TypeOK, NoEarlyBallots
  <2>2. NoEarlyBallots'
    BY <1>6 DEF BghDecide, TypeOK, NoEarlyBallots
  <2>3. BallotsComplete'
    BY <1>6 DEF BghDecide, TypeOK, BallotsComplete, AllSubmitted
  <2> QED BY <2>1, <2>2, <2>3
<1>7. CASE HcPublish(o)
  <2>1. TypeOK'
    BY <1>7 DEF HcPublish, TypeOK, NoEarlyBallots
  <2>2. NoEarlyBallots'
    BY <1>7 DEF HcPublish, TypeOK, NoEarlyBallots
  <2>3. BallotsComplete'
    BY <1>7 DEF HcPublish, TypeOK, BallotsComplete, AllSubmitted
  <2> QED BY <2>1, <2>2, <2>3
<1> QED BY <1>1, <1>2, <1>3, <1>4, <1>5, <1>6, <1>7

----------------------------------------------------------------------------
(* Where outlines and sessions stand, for outlines that were not relinked. *)

LEMMA InitLives == Init => Lives
  BY DEF Init, Lives, NoneInv, OneLiveSession, PublishedInv, FinalInv, ActiveInv,
         SignedInv, ResultInv, Judged, Decisive

LEMMA SessionKeepsLives ==
  ASSUME Ballots, Lives, SessionNext
  PROVE  Lives'
<1> USE DEF Ballots, TypeOK, Lives, outlineVars, sessionVars, Live, Groups, Judged, Decisive
<1>1. PICK s \in Sessions :
        \/ \E O \in Groups, d \in Days :
            \/ UpdateDraft(s, O, d)
            \/ \E C \in Councils : CreateSession(s, O, C, d)
                                   \/ UpdateCouncil(s, O, C, d)
        \/ SubmitToBgh(s) \/ BghSign(s) \/ Publish(s) \/ CancelSession(s)
        \/ \E o \in links[s], p \in council[s] : SubmitBallot(s, o, p)
        \/ OpenEarlyMeeting(s) \/ MeetingTime(s)
        \/ \E results \in Papers : SaveMinutes(s, results) \/ Finalize(s, results)
        \/ ReopenMinutes(s)
  BY DEF SessionNext
<1>2. ASSUME NEW O \in Groups, NEW C \in Councils, NEW d \in Days, CreateSession(s, O, C, d)
      PROVE  Lives'
  <2>1. stage[s] = "NONE" /\ links[s] = {} /\ O \subseteq Outlines
        /\ \A x \in O, t \in Sessions : x \notin links[t]
    BY <1>2 DEF CreateSession, Linked, NoneInv
  <2>2. NoneInv'
    BY <1>2, <2>1 DEF CreateSession, NoneInv
  <2>3. OneLiveSession'
    BY <1>2, <2>1 DEF CreateSession, OneLiveSession
  <2>4. PublishedInv'
    BY <1>2, <2>1 DEF CreateSession, PublishedInv
  <2>5. FinalInv'
    BY <1>2, <2>1 DEF CreateSession, FinalInv
  <2>6. ActiveInv'
    BY <1>2, <2>1 DEF CreateSession, ActiveInv
  <2>7. SignedInv'
    BY <1>2, <2>1 DEF CreateSession, SignedInv
  <2>8. ResultInv'
    BY <1>2, <2>1 DEF CreateSession, ResultInv, Fits
  <2> QED BY <2>2, <2>3, <2>4, <2>5, <2>6, <2>7, <2>8
<1>3. ASSUME NEW O \in Groups, NEW d \in Days, UpdateDraft(s, O, d)
      PROVE  Lives'
  <2>1. /\ stage[s] = "DRAFT" /\ O \subseteq Outlines /\ relinked \subseteq relinked'
        /\ \A x \in O \ (links[s] \cup relinked'), t \in Sessions :
                x \in links[t] => stage[t] = "CANCELLED"
    <3>1. /\ stage[s] = "DRAFT" /\ O \subseteq Outlines /\ relinked \subseteq relinked'
          /\ \A x \in O \ (links[s] \cup relinked') : Eligible(x)
      BY <1>3 DEF UpdateDraft, Foreign
    <3>2. ASSUME NEW x \in O \ (links[s] \cup relinked'), NEW t \in Sessions,
                 x \in links[t]
          PROVE  stage[t] = "CANCELLED"
      <4>1. x \in Outlines \ relinked /\ Eligible(x) /\ stage[t] \in Stage
        BY <3>1, <3>2
      <4>2. stage[t] \notin Live /\ status[x] \notin Judged
        BY <3>2, <4>1 DEF Eligible, Schedulable
      <4>3. stage[t] \notin {"NONE", "FINALIZED"}
        BY <3>2, <4>1, <4>2 DEF NoneInv, FinalInv
      <4> QED BY <4>1, <4>2, <4>3 DEF Stage
    <3> QED BY <3>1, <3>2
  <2>2. NoneInv'
    BY <1>3, <2>1 DEF UpdateDraft, NoneInv
  <2>3. OneLiveSession'
    BY <1>3, <2>1 DEF UpdateDraft, OneLiveSession
  <2>4. PublishedInv'
    BY <1>3, <2>1 DEF UpdateDraft, PublishedInv
  <2>5. FinalInv'
    BY <1>3, <2>1 DEF UpdateDraft, FinalInv
  <2>6. ActiveInv'
    BY <1>3, <2>1 DEF UpdateDraft, ActiveInv
  <2>7. SignedInv'
    BY <1>3, <2>1 DEF UpdateDraft, SignedInv
  <2>8. ResultInv'
    BY <1>3, <2>1 DEF UpdateDraft, ResultInv, Fits
  <2> QED BY <2>2, <2>3, <2>4, <2>5, <2>6, <2>7, <2>8
<1>4. ASSUME NEW O \in Groups, NEW C \in Councils, NEW d \in Days, UpdateCouncil(s, O, C, d)
      PROVE  Lives'
  <2>1. /\ stage[s] = "DRAFT" /\ O \subseteq Outlines /\ relinked \subseteq relinked'
        /\ \A x \in O \ (links[s] \cup relinked'), t \in Sessions :
                x \in links[t] => stage[t] = "CANCELLED"
    <3>1. /\ stage[s] = "DRAFT" /\ O \subseteq Outlines /\ relinked \subseteq relinked'
          /\ \A x \in O \ (links[s] \cup relinked') : Eligible(x)
      BY <1>4 DEF UpdateCouncil, Foreign
    <3>2. ASSUME NEW x \in O \ (links[s] \cup relinked'), NEW t \in Sessions,
                 x \in links[t]
          PROVE  stage[t] = "CANCELLED"
      <4>1. x \in Outlines \ relinked /\ Eligible(x) /\ stage[t] \in Stage
        BY <3>1, <3>2
      <4>2. stage[t] \notin Live /\ status[x] \notin Judged
        BY <3>2, <4>1 DEF Eligible, Schedulable
      <4>3. stage[t] \notin {"NONE", "FINALIZED"}
        BY <3>2, <4>1, <4>2 DEF NoneInv, FinalInv
      <4> QED BY <4>1, <4>2, <4>3 DEF Stage
    <3> QED BY <3>1, <3>2
  <2>2. NoneInv'
    BY <1>4, <2>1 DEF UpdateCouncil, NoneInv
  <2>3. OneLiveSession'
    BY <1>4, <2>1 DEF UpdateCouncil, OneLiveSession
  <2>4. PublishedInv'
    BY <1>4, <2>1 DEF UpdateCouncil, PublishedInv
  <2>5. FinalInv'
    BY <1>4, <2>1 DEF UpdateCouncil, FinalInv
  <2>6. ActiveInv'
    BY <1>4, <2>1 DEF UpdateCouncil, ActiveInv
  <2>7. SignedInv'
    BY <1>4, <2>1 DEF UpdateCouncil, SignedInv
  <2>8. ResultInv'
    BY <1>4, <2>1 DEF UpdateCouncil, ResultInv, Fits
  <2> QED BY <2>2, <2>3, <2>4, <2>5, <2>6, <2>7, <2>8
<1>5. CASE SubmitToBgh(s)
  <2>1. NoneInv'
    BY <1>5 DEF SubmitToBgh, NoneInv
  <2>2. OneLiveSession'
    BY <1>5 DEF SubmitToBgh, OneLiveSession
  <2>3. PublishedInv'
    BY <1>5 DEF SubmitToBgh, PublishedInv
  <2>4. FinalInv'
    BY <1>5 DEF SubmitToBgh, FinalInv
  <2>5. ActiveInv'
    BY <1>5 DEF SubmitToBgh, ActiveInv
  <2>6. SignedInv'
    BY <1>5 DEF SubmitToBgh, SignedInv
  <2>7. ResultInv'
    BY <1>5 DEF SubmitToBgh, ResultInv, Fits
  <2> QED BY <2>1, <2>2, <2>3, <2>4, <2>5, <2>6, <2>7
<1>6. CASE BghSign(s)
  <2>1. NoneInv'
    BY <1>6 DEF BghSign, NoneInv
  <2>2. OneLiveSession'
    BY <1>6 DEF BghSign, OneLiveSession
  <2>3. PublishedInv'
    BY <1>6 DEF BghSign, PublishedInv
  <2>4. FinalInv'
    BY <1>6 DEF BghSign, FinalInv
  <2>5. ActiveInv'
    BY <1>6 DEF BghSign, ActiveInv
  <2>6. SignedInv'
    BY <1>6 DEF BghSign, SignedInv
  <2>7. ResultInv'
    BY <1>6 DEF BghSign, ResultInv, Fits
  <2> QED BY <2>1, <2>2, <2>3, <2>4, <2>5, <2>6, <2>7
<1>7. CASE Publish(s)
  <2>1. \A x \in links[s] \ relinked, t \in Sessions :
            x \in links[t] /\ t # s => stage[t] = "CANCELLED"
    BY <1>7 DEF Publish, OneLiveSession
  <2>2. NoneInv'
    BY <1>7, <2>1 DEF Publish, NoneInv
  <2>3. OneLiveSession'
    BY <1>7, <2>1 DEF Publish, OneLiveSession
  <2>4. PublishedInv'
    BY <1>7, <2>1 DEF Publish, PublishedInv
  <2>5. FinalInv'
    BY <1>7, <2>1 DEF Publish, FinalInv
  <2>6. ActiveInv'
    BY <1>7, <2>1 DEF Publish, ActiveInv
  <2>7. SignedInv'
    BY <1>7, <2>1 DEF Publish, SignedInv, ActiveInv
  <2>8. ResultInv'
    BY <1>7, <2>1 DEF Publish, ResultInv, Fits
  <2> QED BY <2>2, <2>3, <2>4, <2>5, <2>6, <2>7, <2>8
<1>8. CASE CancelSession(s)
  <2>1. NoneInv'
    BY <1>8 DEF CancelSession, Forget, NoneInv, PublishedInv, OneLiveSession
  <2>2. OneLiveSession'
    BY <1>8 DEF CancelSession, Forget, OneLiveSession, PublishedInv, OneLiveSession
  <2>3. PublishedInv'
    BY <1>8 DEF CancelSession, Forget, PublishedInv, PublishedInv, OneLiveSession
  <2>4. FinalInv'
    BY <1>8 DEF CancelSession, Forget, FinalInv, PublishedInv, OneLiveSession
  <2>5. ActiveInv'
    BY <1>8 DEF CancelSession, Forget, ActiveInv, PublishedInv, OneLiveSession
  <2>6. SignedInv'
    BY <1>8 DEF CancelSession, Forget, SignedInv, PublishedInv, OneLiveSession
  <2>7. ResultInv'
    BY <1>8 DEF CancelSession, Forget, ResultInv, Fits, PublishedInv, OneLiveSession
  <2> QED BY <2>1, <2>2, <2>3, <2>4, <2>5, <2>6, <2>7
<1>9. ASSUME NEW o \in links[s], NEW p \in council[s], SubmitBallot(s, o, p)
      PROVE  Lives'
  <2>1. NoneInv'
    BY <1>9 DEF SubmitBallot, NoneInv
  <2>2. OneLiveSession'
    BY <1>9 DEF SubmitBallot, OneLiveSession
  <2>3. PublishedInv'
    BY <1>9 DEF SubmitBallot, PublishedInv
  <2>4. FinalInv'
    BY <1>9 DEF SubmitBallot, FinalInv
  <2>5. ActiveInv'
    BY <1>9 DEF SubmitBallot, ActiveInv
  <2>6. SignedInv'
    BY <1>9 DEF SubmitBallot, SignedInv
  <2>7. ResultInv'
    BY <1>9 DEF SubmitBallot, ResultInv, Fits
  <2> QED BY <2>1, <2>2, <2>3, <2>4, <2>5, <2>6, <2>7
<1>10. CASE OpenEarlyMeeting(s)
  <2>1. NoneInv'
    BY <1>10 DEF OpenEarlyMeeting, NoneInv
  <2>2. OneLiveSession'
    BY <1>10 DEF OpenEarlyMeeting, OneLiveSession
  <2>3. PublishedInv'
    BY <1>10 DEF OpenEarlyMeeting, PublishedInv
  <2>4. FinalInv'
    BY <1>10 DEF OpenEarlyMeeting, FinalInv
  <2>5. ActiveInv'
    BY <1>10 DEF OpenEarlyMeeting, ActiveInv
  <2>6. SignedInv'
    BY <1>10 DEF OpenEarlyMeeting, SignedInv
  <2>7. ResultInv'
    BY <1>10 DEF OpenEarlyMeeting, ResultInv, Fits
  <2> QED BY <2>1, <2>2, <2>3, <2>4, <2>5, <2>6, <2>7
<1>11. CASE MeetingTime(s)
  <2>1. NoneInv'
    BY <1>11 DEF MeetingTime, NoneInv
  <2>2. OneLiveSession'
    BY <1>11 DEF MeetingTime, OneLiveSession
  <2>3. PublishedInv'
    BY <1>11 DEF MeetingTime, PublishedInv
  <2>4. FinalInv'
    BY <1>11 DEF MeetingTime, FinalInv
  <2>5. ActiveInv'
    BY <1>11 DEF MeetingTime, ActiveInv
  <2>6. SignedInv'
    BY <1>11 DEF MeetingTime, SignedInv
  <2>7. ResultInv'
    BY <1>11 DEF MeetingTime, ResultInv, Fits
  <2> QED BY <2>1, <2>2, <2>3, <2>4, <2>5, <2>6, <2>7
<1>12. ASSUME NEW results \in Papers, SaveMinutes(s, results)
      PROVE  Lives'
  <2>1. Recorded(s, results) \in [Outlines -> Item]
    BY RecordedType
  <2>2. NoneInv'
    BY <1>12, <2>1 DEF SaveMinutes, NoneInv
  <2>3. OneLiveSession'
    BY <1>12, <2>1 DEF SaveMinutes, OneLiveSession
  <2>4. PublishedInv'
    BY <1>12, <2>1 DEF SaveMinutes, PublishedInv
  <2>5. FinalInv'
    BY <1>12, <2>1 DEF SaveMinutes, FinalInv
  <2>6. ActiveInv'
    BY <1>12, <2>1 DEF SaveMinutes, ActiveInv
  <2>7. SignedInv'
    BY <1>12, <2>1 DEF SaveMinutes, SignedInv
  <2>8. ResultInv'
    BY <1>12, <2>1 DEF SaveMinutes, ResultInv, Fits
  <2> QED BY <2>2, <2>3, <2>4, <2>5, <2>6, <2>7, <2>8
<1>13. ASSUME NEW results \in Papers, Finalize(s, results)
      PROVE  Lives'
  <2>1. Recorded(s, results) \in [Outlines -> Item]
    BY RecordedType
  <2>2. \A o \in links[s] :
            /\ o \in Outlines
            /\ status'[o] \in Judged \ Decisive
            /\ minutes'[s][o] = Recorded(s, results)[o]
            /\ Fits(status'[o], minutes'[s][o])
    BY <1>13, <2>1, OutcomeType DEF Finalize
  <2>3. /\ stage[s] = "PUBLISHED"
        /\ stage' = [stage EXCEPT ![s] = "FINALIZED"]
        /\ decided' = [o \in Outlines |-> decided[o] \/ o \in links[s]]
        /\ UNCHANGED <<active, links, relinked>>
        /\ \A o \in Outlines : o \notin links[s] => status'[o] = status[o]
        /\ \A t \in Sessions \ {s} : minutes'[t] = minutes[t]
        /\ \A o \in Outlines : signed'[o] => signed[o]
    BY <1>13 DEF Finalize
  <2>4. \A x \in links[s] \ relinked, t \in Sessions :
            x \in links[t] /\ t # s => stage[t] = "CANCELLED"
    BY <2>3 DEF OneLiveSession
  <2>5. NoneInv'
    BY <2>2, <2>3, <2>4 DEF NoneInv
  <2>6. OneLiveSession'
    BY <2>2, <2>3, <2>4 DEF OneLiveSession
  <2>7. PublishedInv'
    BY <2>2, <2>3, <2>4 DEF PublishedInv
  <2>8. FinalInv'
    <3>1. ASSUME NEW o \in Outlines \ relinked, o \in links[s]
          PROVE  active[o] = s /\ status'[o] \in Judged /\ decided'[o]
      BY <2>2, <2>3, <3>1 DEF PublishedInv
    <3>2. ASSUME NEW t \in Sessions \ {s}, NEW o \in Outlines \ relinked, o \in links[t],
                 stage[t] = "FINALIZED"
          PROVE  o \notin links[s]
      BY <2>4, <3>2
    <3> QED BY <2>3, <3>1, <3>2 DEF FinalInv
  <2>9. ActiveInv'
    <3>1. ASSUME NEW o \in Outlines \ relinked, o \in links[s]
          PROVE  active[o] = s /\ status'[o] # "BAOVE_PENDING"
      BY <2>2, <2>3, <3>1 DEF PublishedInv
    <3>2. ASSUME NEW o \in Outlines \ relinked, o \notin links[s],
                 status[o] \in Judged \cup {"BAOVE_PENDING"}
          PROVE  active[o] \in Sessions \ {s} /\ o \in links[active[o]]
      BY <3>2 DEF ActiveInv
    <3> QED BY <2>3, <3>1, <3>2 DEF ActiveInv
  <2>10. SignedInv'
    BY <2>2, <2>3, <2>4 DEF SignedInv, PublishedInv
  <2>11. ResultInv'
    BY <2>2, <2>3, <2>4 DEF ResultInv, Fits
  <2> QED BY <2>5, <2>6, <2>7, <2>8, <2>9, <2>10, <2>11
<1>14. CASE ReopenMinutes(s)
  <2>1. \A x \in links[s] \ relinked, t \in Sessions :
            x \in links[t] /\ t # s => stage[t] = "CANCELLED"
    BY <1>14 DEF ReopenMinutes, OneLiveSession
  <2>2. NoneInv'
    BY <1>14, <2>1 DEF ReopenMinutes, NoneInv, FinalInv, SignedInv, CanReopenMinutes
  <2>3. OneLiveSession'
    BY <1>14, <2>1 DEF ReopenMinutes, OneLiveSession, FinalInv, SignedInv, CanReopenMinutes
  <2>4. PublishedInv'
    BY <1>14, <2>1 DEF ReopenMinutes, PublishedInv, FinalInv, SignedInv, CanReopenMinutes
  <2>5. FinalInv'
    BY <1>14, <2>1 DEF ReopenMinutes, FinalInv, FinalInv, SignedInv, CanReopenMinutes
  <2>6. ActiveInv'
    BY <1>14, <2>1 DEF ReopenMinutes, ActiveInv, FinalInv, SignedInv, CanReopenMinutes
  <2>7. SignedInv'
    BY <1>14, <2>1 DEF ReopenMinutes, SignedInv, FinalInv, SignedInv, CanReopenMinutes
  <2>8. ResultInv'
    BY <1>14, <2>1 DEF ReopenMinutes, ResultInv, Fits, FinalInv, SignedInv, CanReopenMinutes
  <2> QED BY <2>2, <2>3, <2>4, <2>5, <2>6, <2>7, <2>8
<1> QED BY <1>1, <1>2, <1>3, <1>4, <1>5, <1>6, <1>7, <1>8, <1>9, <1>10, <1>11, <1>12, <1>13, <1>14

LEMMA OutlineKeepsLives ==
  ASSUME Ballots, Lives, OutlineNext
  PROVE  Lives'
<1> USE DEF Ballots, TypeOK, Lives, outlineVars, sessionVars, Live, Groups, Judged, Decisive, Move
<1>1. PICK o \in Outlines :
        \/ Withdraw(o) \/ Submit(o)
        \/ \E R \in SUBSET Reviewers : AssignReviewers(o, R)
        \/ ConfirmRevision(o)
        \/ \E to \in {"CHO_HC_PHAT_HANH_QD", "KHONG_PHE_DUYET"} : BghDecide(o, to)
        \/ HcPublish(o)
  BY DEF OutlineNext
<1>2. CASE Withdraw(o)
  <2>1. NoneInv'
    BY <1>2 DEF Withdraw, NoneInv
  <2>2. OneLiveSession'
    BY <1>2 DEF Withdraw, OneLiveSession
  <2>3. PublishedInv'
    BY <1>2 DEF Withdraw, PublishedInv, FinalInv, PublishedInv, ActiveInv
  <2>4. FinalInv'
    BY <1>2 DEF Withdraw, FinalInv, FinalInv, PublishedInv, ActiveInv
  <2>5. ActiveInv'
    BY <1>2 DEF Withdraw, ActiveInv, FinalInv, PublishedInv, ActiveInv
  <2>6. SignedInv'
    BY <1>2 DEF Withdraw, SignedInv, FinalInv, PublishedInv, ActiveInv
  <2>7. ResultInv'
    BY <1>2 DEF Withdraw, ResultInv, Fits, FinalInv, PublishedInv, ActiveInv
  <2> QED BY <2>1, <2>2, <2>3, <2>4, <2>5, <2>6, <2>7
<1>3. CASE Submit(o)
  <2>1. NoneInv'
    BY <1>3 DEF Submit, NoneInv
  <2>2. OneLiveSession'
    BY <1>3 DEF Submit, OneLiveSession
  <2>3. PublishedInv'
    BY <1>3 DEF Submit, PublishedInv, FinalInv, PublishedInv, ActiveInv
  <2>4. FinalInv'
    BY <1>3 DEF Submit, FinalInv, FinalInv, PublishedInv, ActiveInv
  <2>5. ActiveInv'
    BY <1>3 DEF Submit, ActiveInv, FinalInv, PublishedInv, ActiveInv
  <2>6. SignedInv'
    BY <1>3 DEF Submit, SignedInv, FinalInv, PublishedInv, ActiveInv
  <2>7. ResultInv'
    BY <1>3 DEF Submit, ResultInv, Fits, FinalInv, PublishedInv, ActiveInv
  <2> QED BY <2>1, <2>2, <2>3, <2>4, <2>5, <2>6, <2>7
<1>4. ASSUME NEW R \in SUBSET Reviewers, AssignReviewers(o, R)
      PROVE  Lives'
  <2>1. NoneInv'
    BY <1>4 DEF AssignReviewers, NoneInv
  <2>2. OneLiveSession'
    BY <1>4 DEF AssignReviewers, OneLiveSession
  <2>3. PublishedInv'
    BY <1>4 DEF AssignReviewers, PublishedInv, FinalInv, PublishedInv, ActiveInv
  <2>4. FinalInv'
    BY <1>4 DEF AssignReviewers, FinalInv, FinalInv, PublishedInv, ActiveInv
  <2>5. ActiveInv'
    BY <1>4 DEF AssignReviewers, ActiveInv, FinalInv, PublishedInv, ActiveInv
  <2>6. SignedInv'
    BY <1>4 DEF AssignReviewers, SignedInv, FinalInv, PublishedInv, ActiveInv
  <2>7. ResultInv'
    BY <1>4 DEF AssignReviewers, ResultInv, Fits, FinalInv, PublishedInv, ActiveInv
  <2> QED BY <2>1, <2>2, <2>3, <2>4, <2>5, <2>6, <2>7
<1>5. CASE ConfirmRevision(o)
  <2>1. NoneInv'
    BY <1>5 DEF ConfirmRevision, NoneInv
  <2>2. OneLiveSession'
    BY <1>5 DEF ConfirmRevision, OneLiveSession
  <2>3. PublishedInv'
    BY <1>5 DEF ConfirmRevision, PublishedInv, FinalInv, PublishedInv, ActiveInv
  <2>4. FinalInv'
    BY <1>5 DEF ConfirmRevision, FinalInv, FinalInv, PublishedInv, ActiveInv
  <2>5. ActiveInv'
    BY <1>5 DEF ConfirmRevision, ActiveInv, FinalInv, PublishedInv, ActiveInv
  <2>6. SignedInv'
    BY <1>5 DEF ConfirmRevision, SignedInv, FinalInv, PublishedInv, ActiveInv
  <2>7. ResultInv'
    BY <1>5 DEF ConfirmRevision, ResultInv, Fits, FinalInv, PublishedInv, ActiveInv
  <2> QED BY <2>1, <2>2, <2>3, <2>4, <2>5, <2>6, <2>7
<1>6. ASSUME NEW to \in {"CHO_HC_PHAT_HANH_QD", "KHONG_PHE_DUYET"}, BghDecide(o, to)
      PROVE  Lives'
  <2>1. NoneInv'
    BY <1>6 DEF BghDecide, NoneInv
  <2>2. OneLiveSession'
    BY <1>6 DEF BghDecide, OneLiveSession
  <2>3. PublishedInv'
    BY <1>6 DEF BghDecide, PublishedInv, FinalInv, PublishedInv, ActiveInv
  <2>4. FinalInv'
    BY <1>6 DEF BghDecide, FinalInv, FinalInv, PublishedInv, ActiveInv
  <2>5. ActiveInv'
    BY <1>6 DEF BghDecide, ActiveInv, FinalInv, PublishedInv, ActiveInv
  <2>6. SignedInv'
    BY <1>6 DEF BghDecide, SignedInv, FinalInv, PublishedInv, ActiveInv
  <2>7. ResultInv'
    BY <1>6 DEF BghDecide, ResultInv, Fits, FinalInv, PublishedInv, ActiveInv
  <2> QED BY <2>1, <2>2, <2>3, <2>4, <2>5, <2>6, <2>7
<1>7. CASE HcPublish(o)
  <2>1. NoneInv'
    BY <1>7 DEF HcPublish, NoneInv
  <2>2. OneLiveSession'
    BY <1>7 DEF HcPublish, OneLiveSession
  <2>3. PublishedInv'
    BY <1>7 DEF HcPublish, PublishedInv, FinalInv, PublishedInv, ActiveInv
  <2>4. FinalInv'
    BY <1>7 DEF HcPublish, FinalInv, FinalInv, PublishedInv, ActiveInv
  <2>5. ActiveInv'
    BY <1>7 DEF HcPublish, ActiveInv, FinalInv, PublishedInv, ActiveInv
  <2>6. SignedInv'
    BY <1>7 DEF HcPublish, SignedInv, FinalInv, PublishedInv, ActiveInv
  <2>7. ResultInv'
    BY <1>7 DEF HcPublish, ResultInv, Fits, FinalInv, PublishedInv, ActiveInv
  <2> QED BY <2>1, <2>2, <2>3, <2>4, <2>5, <2>6, <2>7
<1> QED BY <1>1, <1>2, <1>3, <1>4, <1>5, <1>6, <1>7

----------------------------------------------------------------------------
LEMMA StutterKeepsBallots == Ballots /\ UNCHANGED vars => Ballots'
  BY DEF Ballots, TypeOK, NoEarlyBallots, BallotsComplete, AllSubmitted, vars,
         outlineVars, sessionVars

LEMMA StutterKeepsLives == Lives /\ UNCHANGED vars => Lives'
  BY DEF Lives, NoneInv, OneLiveSession, PublishedInv, FinalInv, ActiveInv,
         SignedInv, ResultInv, vars, outlineVars, sessionVars

\* Types, and the ballots that stand under draft and closed sessions.
THEOREM BallotsInvariant == Spec => []Ballots
<1>1. Ballots /\ [Next]_vars => Ballots'
  BY SessionKeepsBallots, OutlineKeepsBallots, StutterKeepsBallots DEF Next
<1> QED BY InitBallots, <1>1, PTL DEF Spec

LEMMA StepKeepsLives == Ballots /\ Lives /\ [Next]_vars => Lives'
  BY SessionKeepsLives, OutlineKeepsLives, StutterKeepsLives DEF Next

\* The inductive argument for the outlines that were not relinked.
THEOREM LivesInvariant == Spec => [](Ballots /\ Lives)
<1>1. Ballots /\ Lives /\ [Next]_vars => Lives'
  BY StepKeepsLives
<1> QED BY BallotsInvariant, InitLives, <1>1, PTL DEF Spec

\* Types hold in every state.
THEOREM TypeCorrect == Spec => []TypeOK
<1>1. Ballots => TypeOK
  BY DEF Ballots
<1> QED BY BallotsInvariant, <1>1, PTL

\* Closed minutes stand on all ballots, whatever outlines were relinked:
\* no later edit adds an outline or a member without a ballot.
THEOREM MinutesStandOnAllBallots == Spec => []BallotsComplete
<1>1. Ballots => BallotsComplete
  BY DEF Ballots
<1> QED BY BallotsInvariant, <1>1, PTL

\* Only an outline that was relinked is ever in two sessions that are not
\* cancelled.
THEOREM SessionsAreDisjoint == Spec => []OneLiveSession
<1>1. Lives => OneLiveSession
  BY DEF Lives
<1> QED BY LivesInvariant, <1>1, PTL

\* No outline waits for a defence that cannot take place, unless it was
\* relinked.
THEOREM NoOutlineIsStranded == Spec => []DefendedHasSession
<1>1. Ballots /\ Lives => DefendedHasSession
  BY AppraisalAssumption
  DEF Ballots, TypeOK, Lives, ActiveInv, DefendedHasSession, Judged
<1> QED BY LivesInvariant, <1>1, PTL

\* An outline past its defence is where its closed minutes sent it, unless it
\* was relinked.
THEOREM ResultsFollowMinutes == Spec => []ResultMatchesMinutes
<1>1. Ballots /\ Lives => ResultMatchesMinutes
  BY AppraisalAssumption
  DEF Ballots, TypeOK, Lives, ActiveInv, FinalInv, ResultInv, Fits, Judged,
      Decisive, ResultMatchesMinutes
<1> QED BY LivesInvariant, <1>1, PTL

LEMMA SignedIsClosed ==
  ASSUME Ballots, Lives, NEW o \in Outlines \ relinked, signed[o]
  PROVE  /\ status[o] \in Decisive
         /\ active[o] \in Sessions /\ o \in links[active[o]]
         /\ stage[active[o]] = "FINALIZED"
<1>1. status[o] \in Decisive
  BY DEF Lives, SignedInv
<1> QED BY <1>1 DEF Lives, ActiveInv, Judged, Decisive

\* BGH's signature on one outline locks the minutes of its whole session.
THEOREM SignatureLocksMinutes == Spec => []SignedMinutesStayLocked
<1>1. Ballots /\ Lives => SignedMinutesStayLocked
  <2> SUFFICES ASSUME Ballots, Lives, NEW s \in Sessions, NEW o \in Outlines \ relinked,
                      o \in links[s], stage[s] # "CANCELLED", signed[o]
               PROVE  stage[s] = "FINALIZED"
    BY DEF SignedMinutesStayLocked
  <2>1. active[o] \in Sessions /\ o \in links[active[o]]
        /\ stage[active[o]] = "FINALIZED"
    BY SignedIsClosed
  <2>2. s = active[o]
    BY <2>1 DEF Lives, OneLiveSession
  <2> QED BY <2>1, <2>2
<1> QED BY LivesInvariant, <1>1, PTL

\* BGH's decision on an outline outlives every request of a session: no
\* publication, cancellation, closing or reopening takes the outline back,
\* unless the office relinked it.
THEOREM DecisionsStand == Spec => DecisionStands
<1> DEFINE Stands == \A o \in Outlines \ relinked :
                        signed[o] => signed'[o] /\ status'[o] # "BAOVE_PENDING"
<1>1. ASSUME Ballots, Lives, [Next]_vars
      PROVE  Stands
  <2> SUFFICES ASSUME NEW o \in Outlines \ relinked, signed[o]
               PROVE  signed'[o] /\ status'[o] # "BAOVE_PENDING"
    OBVIOUS
  <2> USE DEF Ballots, TypeOK, outlineVars, sessionVars
  <2>1. /\ status[o] \in Decisive
        /\ active[o] \in Sessions /\ o \in links[active[o]]
        /\ stage[active[o]] = "FINALIZED"
    BY <1>1, SignedIsClosed
  <2>2. \A s \in Sessions : o \in links[s] => stage[s] \in {"FINALIZED", "CANCELLED"}
    BY <1>1, <2>1 DEF Lives, OneLiveSession
  <2>3. ASSUME status' = status, signed' = signed
        PROVE  signed'[o] /\ status'[o] # "BAOVE_PENDING"
    BY <2>1, <2>3 DEF Decisive
  <2>4. ASSUME SessionNext
        PROVE  signed'[o] /\ status'[o] # "BAOVE_PENDING"
    <3>1. ASSUME NEW s \in Sessions, Publish(s)
          PROVE  signed'[o] /\ status'[o] # "BAOVE_PENDING"
      BY <1>1, <2>1, <2>2, <3>1 DEF Publish, Decisive
    <3>2. ASSUME NEW s \in Sessions, CancelSession(s)
          PROVE  signed'[o] /\ status'[o] # "BAOVE_PENDING"
      BY <1>1, <2>1, <3>2 DEF CancelSession, Forget, Decisive
    <3>3. ASSUME NEW s \in Sessions, NEW results \in Papers, Finalize(s, results)
          PROVE  signed'[o] /\ status'[o] # "BAOVE_PENDING"
      BY <1>1, <2>1, <2>2, <3>3 DEF Finalize, Decisive
    <3>4. ASSUME NEW s \in Sessions, ReopenMinutes(s)
          PROVE  signed'[o] /\ status'[o] # "BAOVE_PENDING"
      BY <1>1, <2>1, <3>4 DEF ReopenMinutes, CanReopenMinutes, Decisive
    <3>5. PICK s \in Sessions :
            \/ \E O \in Groups, d \in Days :
                \/ UpdateDraft(s, O, d)
                \/ \E C \in Councils : CreateSession(s, O, C, d)
                                       \/ UpdateCouncil(s, O, C, d)
            \/ SubmitToBgh(s) \/ BghSign(s) \/ Publish(s) \/ CancelSession(s)
            \/ \E q \in links[s], p \in council[s] : SubmitBallot(s, q, p)
            \/ OpenEarlyMeeting(s) \/ MeetingTime(s)
            \/ \E results \in Papers :
                  SaveMinutes(s, results) \/ Finalize(s, results)
            \/ ReopenMinutes(s)
      BY <2>4 DEF SessionNext
    <3>6. CASE \E O \in Groups, d \in Days :
                 \/ UpdateDraft(s, O, d)
                 \/ \E C \in Councils : CreateSession(s, O, C, d)
                                        \/ UpdateCouncil(s, O, C, d)
      BY <2>3, <3>6 DEF UpdateDraft, CreateSession, UpdateCouncil
    <3>7. CASE \/ SubmitToBgh(s) \/ BghSign(s)
               \/ OpenEarlyMeeting(s) \/ MeetingTime(s)
      BY <2>3, <3>7 DEF SubmitToBgh, BghSign, OpenEarlyMeeting, MeetingTime
    <3>8. CASE \E q \in links[s], p \in council[s] : SubmitBallot(s, q, p)
      BY <2>3, <3>8 DEF SubmitBallot
    <3>9. CASE \E results \in Papers : SaveMinutes(s, results)
      BY <2>3, <3>9 DEF SaveMinutes
    <3> QED
      BY <3>1, <3>2, <3>3, <3>4, <3>5, <3>6, <3>7, <3>8, <3>9
  <2>5. ASSUME OutlineNext
        PROVE  signed'[o] /\ status'[o] # "BAOVE_PENDING"
    BY <1>1, <2>1, <2>5
    DEF OutlineNext, Withdraw, Submit, AssignReviewers, ConfirmRevision,
        BghDecide, HcPublish, Move, Decisive
  <2> QED BY <1>1, <2>3, <2>4, <2>5 DEF Next, vars
<1>2. Spec => [][Stands]_vars
  BY LivesInvariant, <1>1, PTL DEF Spec
<1> QED BY <1>2 DEF DecisionStands
=============================================================================
