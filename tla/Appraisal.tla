----------------------------- MODULE Appraisal -----------------------------
(***************************************************************************)
(* Appraisal sessions ("phien tham dinh") and the minutes of their council: *)
(*   app/services/project_outline_appraisal_service.ts                     *)
(*   app/services/project_outline_minutes_service.ts                       *)
(*   app/services/project_outline_defense_service.ts      cancelSession    *)
(* A session groups outlines, is signed by the rectorate (BGH), published  *)
(* to its council, scored on BM.05a ballots and closed by minutes that     *)
(* decide every outline. One action is one whole HTTP request.             *)
(***************************************************************************)

CONSTANTS
    Outlines, Sessions,
    Councils,   \* the councils that requests propose: sets of members
    Reviewers,  \* people who may be invited to review an outline
    Team,       \* outline -> its owner and members, as accounts
    Days,       \* meeting times, too close to each other only when equal
    None

ASSUME AppraisalAssumption ==
    /\ None \notin Sessions
    /\ \A C \in Councils : C # {}
    /\ Days # {}

VARIABLES
    status,     \* project_outlines.status
    active,     \* project_outlines.active_defense_session_id
    decided,    \* project_outlines.defense_finalized_at is set
    signed,     \* project_outlines.bgh_signed_at is set
    reviewers,  \* reviewers of the outline who were not replaced
    stage,      \* defense_sessions.status; "NONE" before the row exists
    links,      \* outlines linked to the session
    council,    \* members of the session
    day,        \* meeting_at
    held,       \* meeting_at is past
    early,      \* early_meeting_opened
    ballots,    \* submitted BM.05a sheets: pairs <<outline, member>>
    minutes,    \* council_conclusion of each outline's minutes item
    relinked    \* history: outlines updateDraft put into a session though
                \* listEligible did not offer them

outlineVars == <<status, active, decided, signed, reviewers>>
sessionVars == <<stage, links, council, day, held, early, ballots, minutes, relinked>>
vars == <<outlineVars, sessionVars>>

Status == {"THUYETMINH_DRAFT", "THUYETMINH_PENDING", "PHANBIEN_KIN",
           "BAOVE_PENDING", "CHINH_SUA_TM", "BAOVE_KHONG_DAT",
           "CHO_BGH_DUYET_TM", "CHO_HC_PHAT_HANH_QD", "SAN_SANG_THUC_HIEN",
           "KHONG_PHE_DUYET"}
Stage  == {"NONE", "DRAFT", "PENDING_BGH", "BGH_SIGNED", "PUBLISHED",
           "FINALIZED", "CANCELLED"}
Live   == {"DRAFT", "PENDING_BGH", "BGH_SIGNED", "PUBLISHED"}
Results == {"DE_XUAT_XET", "HOAN_THIEN", "KHONG_DE_XUAT"}
NoItem  == "NONE"
Item    == {NoItem} \cup Results

----------------------------------------------------------------------------
(* Queries the handlers make.                                              *)

Schedulable(o) == status[o] \in {"PHANBIEN_KIN", "THUYETMINH_PENDING"}

\* listEligible: outlines offered to the office for a new session.
Eligible(o) ==
    Schedulable(o) /\ \A s \in Sessions : stage[s] \in Live => o \notin links[s]

\* createSession refuses an outline that any session row still names.
Linked(o) == \E s \in Sessions : o \in links[s]

\* assertNoConflict: owner, team, and reviewers in force.
Conflicts(o, C) == C \cap (Team[o] \cup reviewers[o]) # {}

\* assertNoScheduleConflict looks at draft sessions only.
Clashes(s, C, d) ==
    \E t \in Sessions \ {s} :
        stage[t] = "DRAFT" /\ day[t] = d /\ council[t] \cap C # {}

\* computeScoreSummary leaves no ballot missing, for any outline.
AllSubmitted(s) == \A o \in links[s], p \in council[s] : <<o, p>> \in ballots[s]

\* Mutant: one outline that BGH has not signed is enough to reopen.
CanReopenAny(s) == \E o \in links[s] : ~signed[o]

\* canReopenMinutes
CanReopenMinutes(s) ==
    /\ links[s] # {}
    /\ \A o \in links[s] :
        /\ ~signed[o]
        /\ status[o] \notin {"CHO_HC_PHAT_HANH_QD", "SAN_SANG_THUC_HIEN",
                             "KHONG_PHE_DUYET"}

----------------------------------------------------------------------------
Init ==
    /\ status = [o \in Outlines |-> "THUYETMINH_PENDING"]
    /\ active = [o \in Outlines |-> None]
    /\ decided = [o \in Outlines |-> FALSE]
    /\ signed = [o \in Outlines |-> FALSE]
    /\ reviewers = [o \in Outlines |-> {}]
    /\ stage = [s \in Sessions |-> "NONE"]
    /\ links = [s \in Sessions |-> {}]
    /\ council = [s \in Sessions |-> {}]
    /\ day = [s \in Sessions |-> CHOOSE d \in Days : TRUE]
    /\ held = [s \in Sessions |-> FALSE]
    /\ early = [s \in Sessions |-> FALSE]
    /\ ballots = [s \in Sessions |-> {}]
    /\ minutes = [s \in Sessions |-> [o \in Outlines |-> NoItem]]
    /\ relinked = {}

(* The office prepares a session.                                          *)

\* Mutant: an outline of another session is not refused.
CreateSessionTwice(s, O, C, d) ==
    /\ stage[s] = "NONE"
    /\ \A o \in O : Schedulable(o) /\ ~Conflicts(o, C)
    /\ ~Clashes(s, C, d)
    /\ stage' = [stage EXCEPT ![s] = "DRAFT"]
    /\ links' = [links EXCEPT ![s] = O]
    /\ council' = [council EXCEPT ![s] = C]
    /\ day' = [day EXCEPT ![s] = d]
    /\ UNCHANGED <<outlineVars, held, early, ballots, minutes, relinked>>

CreateSession(s, O, C, d) ==
    /\ stage[s] = "NONE"
    /\ \A o \in O : Schedulable(o) /\ ~Linked(o) /\ ~Conflicts(o, C)
    /\ ~Clashes(s, C, d)
    /\ stage' = [stage EXCEPT ![s] = "DRAFT"]
    /\ links' = [links EXCEPT ![s] = O]
    /\ council' = [council EXCEPT ![s] = C]
    /\ day' = [day EXCEPT ![s] = d]
    /\ UNCHANGED <<outlineVars, held, early, ballots, minutes, relinked>>

\* The outlines a request adds that listEligible would not have offered:
\* updateDraft checks none of them.
Foreign(s, O) == {o \in O \ links[s] : ~Eligible(o)}

\* Mutant: a session is still edited after it left its draft.
UpdateAnyTime(s, O, d) ==
    /\ stage[s] \in {"DRAFT", "PUBLISHED", "FINALIZED"}
    /\ links' = [links EXCEPT ![s] = O]
    /\ relinked' = relinked \cup Foreign(s, O)
    /\ UNCHANGED <<outlineVars, stage, council, day, held, early, ballots,
                   minutes>>

\* updateDraft without members: nothing else is checked again.
UpdateDraft(s, O, d) ==
    /\ stage[s] = "DRAFT"
    /\ links' = [links EXCEPT ![s] = O]
    /\ day' = [day EXCEPT ![s] = d]
    /\ relinked' = relinked \cup Foreign(s, O)
    /\ UNCHANGED <<outlineVars, stage, council, held, early, ballots, minutes>>

\* updateDraft with members, against the outlines and the time it leaves.
UpdateCouncil(s, O, C, d) ==
    /\ \A o \in O : ~Conflicts(o, C)
    /\ ~Clashes(s, C, d)
    /\ stage[s] = "DRAFT"
    /\ links' = [links EXCEPT ![s] = O]
    /\ council' = [council EXCEPT ![s] = C]
    /\ day' = [day EXCEPT ![s] = d]
    /\ relinked' = relinked \cup Foreign(s, O)
    /\ UNCHANGED <<outlineVars, stage, held, early, ballots, minutes>>

SubmitToBgh(s) ==
    /\ stage[s] = "DRAFT"
    /\ stage' = [stage EXCEPT ![s] = "PENDING_BGH"]
    /\ UNCHANGED <<outlineVars, links, council, day, held, early, ballots,
                   minutes, relinked>>

BghSign(s) ==
    /\ stage[s] = "PENDING_BGH"
    /\ stage' = [stage EXCEPT ![s] = "BGH_SIGNED"]
    /\ UNCHANGED <<outlineVars, links, council, day, held, early, ballots,
                   minutes, relinked>>

\* publish opens the ballots and calls every linked outline to its defence,
\* whatever has become of it since the session was drafted.
Publish(s) ==
    /\ stage[s] = "BGH_SIGNED"
    /\ stage' = [stage EXCEPT ![s] = "PUBLISHED"]
    /\ status' = [o \in Outlines |->
                    IF o \in links[s] THEN "BAOVE_PENDING" ELSE status[o]]
    /\ active' = [o \in Outlines |-> IF o \in links[s] THEN s ELSE active[o]]
    /\ UNCHANGED <<decided, signed, reviewers, links, council, day, held, early,
                   ballots, minutes, relinked>>

\* A cancelled session is not read again, but for its links: what its council
\* had collected stays in the database and is forgotten here.
Forget(s) ==
    /\ held' = [held EXCEPT ![s] = FALSE]
    /\ early' = [early EXCEPT ![s] = FALSE]
    /\ ballots' = [ballots EXCEPT ![s] = {}]
    /\ minutes' = [minutes EXCEPT ![s] = [o \in Outlines |-> NoItem]]

\* Mutant: the outlines lose their session but keep waiting for it.
CancelOnlySession(s) ==
    /\ stage[s] \in Live
    /\ stage' = [stage EXCEPT ![s] = "CANCELLED"]
    /\ active' = [o \in Outlines |-> IF active[o] = s THEN None ELSE active[o]]
    /\ Forget(s)
    /\ UNCHANGED <<status, decided, signed, reviewers, links, council, day, relinked>>

\* cancelSession frees the outlines that wait for this session; its links stay.
CancelSession(s) ==
    /\ stage[s] \in Live
    /\ stage' = [stage EXCEPT ![s] = "CANCELLED"]
    /\ LET freed == {o \in links[s] : active[o] = s} IN
        /\ active' = [o \in Outlines |->
                        IF o \in freed THEN None ELSE active[o]]
        /\ status' = [o \in Outlines |->
                        IF o \in freed /\ status[o] = "BAOVE_PENDING"
                        THEN "PHANBIEN_KIN" ELSE status[o]]
    /\ Forget(s)
    /\ UNCHANGED <<decided, signed, reviewers, links, council, day, relinked>>

(* The council scores and the secretary closes the minutes.                *)

\* saveBm05a with submit: not after the meeting time.
SubmitBallot(s, o, p) ==
    /\ stage[s] = "PUBLISHED"
    /\ o \in links[s] /\ p \in council[s]
    /\ <<o, p>> \notin ballots[s]
    /\ ~held[s]
    /\ ballots' = [ballots EXCEPT ![s] = @ \cup {<<o, p>>}]
    /\ UNCHANGED <<outlineVars, stage, links, council, day, held, early, minutes,
                   relinked>>

OpenEarlyMeeting(s) ==
    /\ stage[s] = "PUBLISHED"
    /\ ~early[s] /\ ~held[s]
    /\ early' = [early EXCEPT ![s] = TRUE]
    /\ UNCHANGED <<outlineVars, stage, links, council, day, held, ballots,
                   minutes, relinked>>

\* The minutes of the session after a save that names some of the outlines.
Recorded(s, results) ==
    [o \in Outlines |->
        IF o \in DOMAIN results THEN results[o] ELSE minutes[s][o]]

\* Mutant: closed minutes are not locked.
SaveMinutesUnlocked(s, results) ==
    /\ stage[s] \in {"PUBLISHED", "FINALIZED"}
    /\ held[s] \/ early[s]
    /\ minutes' = [minutes EXCEPT ![s] = Recorded(s, results)]
    /\ UNCHANGED <<outlineVars, stage, links, council, day, held, early, ballots,
                   relinked>>

\* saveDraft of the minutes, which need not name every outline. A finalize
\* that fails after its own saveDraft leaves the same rows behind.
SaveMinutes(s, results) ==
    /\ stage[s] = "PUBLISHED"
    /\ held[s] \/ early[s]
    /\ minutes' = [minutes EXCEPT ![s] = Recorded(s, results)]
    /\ UNCHANGED <<outlineVars, stage, links, council, day, held, early, ballots,
                   relinked>>

\* applyOutlineResult
Outcome(result) ==
    CASE result = "DE_XUAT_XET"   -> "CHO_BGH_DUYET_TM"
      [] result = "HOAN_THIEN"    -> "CHINH_SUA_TM"
      [] result = "KHONG_DE_XUAT" -> "BAOVE_KHONG_DAT"

\* finalize: every ballot is in, every linked outline has a conclusion.
Finalize(s, results) ==
    /\ stage[s] = "PUBLISHED"
    /\ AllSubmitted(s)
    /\ held[s] \/ early[s]
    /\ LET items == Recorded(s, results) IN
        /\ \A o \in links[s] : items[o] # NoItem
        /\ minutes' = [minutes EXCEPT ![s] = items]
        /\ status' = [o \in Outlines |-> IF o \in links[s]
                        THEN Outcome(items[o]) ELSE status[o]]
        /\ signed' = [o \in Outlines |-> signed[o] /\
                        ~(o \in links[s] /\ items[o] = "DE_XUAT_XET")]
    /\ decided' = [o \in Outlines |-> decided[o] \/ o \in links[s]]
    /\ stage' = [stage EXCEPT ![s] = "FINALIZED"]
    /\ UNCHANGED <<active, reviewers, links, council, day, held, early, ballots,
                   relinked>>

\* reopenMinutes takes the outlines back to their defence.
ReopenMinutes(s) ==
    /\ stage[s] = "FINALIZED"
    /\ CanReopenMinutes(s)
    /\ stage' = [stage EXCEPT ![s] = "PUBLISHED"]
    /\ LET back == {o \in links[s] : decided[o] \/ status[o] \in
                      {"CHO_BGH_DUYET_TM", "CHINH_SUA_TM", "BAOVE_KHONG_DAT"}} IN
        /\ status' = [o \in Outlines |->
                        IF o \in back THEN "BAOVE_PENDING" ELSE status[o]]
        /\ decided' = [o \in Outlines |-> decided[o] /\ o \notin back]
        /\ signed' = [o \in Outlines |-> signed[o] /\ o \notin back]
    /\ UNCHANGED <<active, reviewers, links, council, day, held, early, ballots,
                   minutes, relinked>>

\* The clock reaches meeting_at, which may be past when the session is published;
\* nobody asks before.
MeetingTime(s) ==
    /\ stage[s] = "PUBLISHED" /\ ~held[s]
    /\ held' = [held EXCEPT ![s] = TRUE]
    /\ UNCHANGED <<outlineVars, stage, links, council, day, early, ballots,
                   minutes, relinked>>

----------------------------------------------------------------------------
(* What the other components do to an outline meanwhile.                   *)

Move(o, from, to) ==
    /\ status[o] = from
    /\ status' = [status EXCEPT ![o] = to]
    /\ UNCHANGED <<active, decided, sessionVars>>

\* OutlineReview
Withdraw(o) ==
    /\ reviewers[o] = {}
    /\ Move(o, "THUYETMINH_PENDING", "THUYETMINH_DRAFT")
    /\ UNCHANGED <<signed, reviewers>>
Submit(o) ==
    /\ Move(o, "THUYETMINH_DRAFT", "THUYETMINH_PENDING")
    /\ UNCHANGED <<signed, reviewers>>
AssignReviewers(o, R) ==
    /\ R # {} /\ R \cap Team[o] = {}
    /\ Move(o, "THUYETMINH_PENDING", "PHANBIEN_KIN")
    /\ reviewers' = [reviewers EXCEPT ![o] = R]
    /\ UNCHANGED signed

\* OutlineApproval: the revision is confirmed, BGH decides, HC publishes.
ConfirmRevision(o) ==
    /\ Move(o, "CHINH_SUA_TM", "CHO_BGH_DUYET_TM")
    /\ signed' = [signed EXCEPT ![o] = FALSE]
    /\ UNCHANGED reviewers
BghDecide(o, to) ==
    /\ Move(o, "CHO_BGH_DUYET_TM", to)
    /\ signed' = [signed EXCEPT ![o] = TRUE]
    /\ UNCHANGED reviewers
HcPublish(o) ==
    /\ signed[o]
    /\ Move(o, "CHO_HC_PHAT_HANH_QD", "SAN_SANG_THUC_HIEN")
    /\ UNCHANGED <<signed, reviewers>>

----------------------------------------------------------------------------
Groups == (SUBSET Outlines) \ {{}}
\* A save that names several outlines leaves what several saves leave.
Papers == UNION {[{o} -> Results] : o \in Outlines}

SessionNext ==
    \E s \in Sessions :
        \/ \E O \in Groups, d \in Days :
            \/ UpdateDraft(s, O, d)
            \/ \E C \in Councils : CreateSession(s, O, C, d)
                                   \/ UpdateCouncil(s, O, C, d)
        \/ SubmitToBgh(s) \/ BghSign(s) \/ Publish(s) \/ CancelSession(s)
        \/ \E o \in links[s], p \in council[s] : SubmitBallot(s, o, p)
        \/ OpenEarlyMeeting(s) \/ MeetingTime(s)
        \/ \E results \in Papers : SaveMinutes(s, results) \/ Finalize(s, results)
        \/ ReopenMinutes(s)

OutlineNext ==
    \E o \in Outlines :
        \/ Withdraw(o) \/ Submit(o)
        \/ \E R \in SUBSET Reviewers : AssignReviewers(o, R)
        \/ ConfirmRevision(o)
        \/ \E to \in {"CHO_HC_PHAT_HANH_QD", "KHONG_PHE_DUYET"} : BghDecide(o, to)
        \/ HcPublish(o)

Next == SessionNext \/ OutlineNext

Spec == Init /\ [][Next]_vars

----------------------------------------------------------------------------
(* Properties.                                                             *)

\* Every column has a value of its type.
TypeOK ==
    /\ status \in [Outlines -> Status]
    /\ active \in [Outlines -> Sessions \cup {None}]
    /\ decided \in [Outlines -> BOOLEAN]
    /\ signed \in [Outlines -> BOOLEAN]
    /\ reviewers \in [Outlines -> SUBSET Reviewers]
    /\ stage \in [Sessions -> Stage]
    /\ links \in [Sessions -> SUBSET Outlines]
    /\ council \in [Sessions -> Councils \cup {{}}]
    /\ day \in [Sessions -> Days]
    /\ held \in [Sessions -> BOOLEAN]
    /\ early \in [Sessions -> BOOLEAN]
    /\ minutes \in [Sessions -> [Outlines -> Item]]
    /\ ballots \in [Sessions -> SUBSET (Outlines \X UNION Councils)]
    /\ \A s \in Sessions : ballots[s] \subseteq links[s] \X council[s]
    /\ relinked \subseteq Outlines

\* An outline is in at most one session that is not cancelled, unless the office
\* itself put it into a draft that listEligible did not offer it for: updateDraft
\* lets it, and no other request may.
OneLiveSession ==
    \A s, t \in Sessions : s # t /\ stage[s] # "CANCELLED" /\ stage[t] # "CANCELLED"
        => links[s] \cap links[t] \subseteq relinked

\* Closed minutes stand on every member's ballot for every outline.
BallotsComplete == \A s \in Sessions : stage[s] = "FINALIZED" => AllSubmitted(s)

\* An outline that waits for its defence has a published session that can
\* still decide it: none is stranded by cancelling, reopening or closing, unless
\* it was relinked, also when its session holds relinked outlines.
DefendedHasSession ==
    \A o \in Outlines \ relinked : status[o] = "BAOVE_PENDING" =>
        /\ active[o] # None
        /\ stage[active[o]] = "PUBLISHED" /\ o \in links[active[o]]

\* Past its defence, an outline is where the closed minutes of its session
\* sent it: rejected, revised or handed to BGH, and never without minutes.
ResultMatchesMinutes ==
    \A o \in Outlines \ relinked :
        LET s == active[o] IN
        status[o] \in {"CHINH_SUA_TM", "BAOVE_KHONG_DAT", "CHO_BGH_DUYET_TM",
                       "CHO_HC_PHAT_HANH_QD", "SAN_SANG_THUC_HIEN",
                       "KHONG_PHE_DUYET"} =>
            /\ s # None /\ stage[s] = "FINALIZED" /\ o \in links[s]
            /\ CASE status[o] = "BAOVE_KHONG_DAT" ->
                        minutes[s][o] = "KHONG_DE_XUAT"
                 [] status[o] = "CHINH_SUA_TM" ->
                        minutes[s][o] = "HOAN_THIEN"
                 [] OTHER -> minutes[s][o] \in {"DE_XUAT_XET", "HOAN_THIEN"}

\* Once BGH has signed one outline of a session, its minutes stay closed and
\* so do the ballots under them, for the other outlines as well.
SignedMinutesStayLocked ==
    \A s \in Sessions, o \in Outlines \ relinked :
        o \in links[s] /\ stage[s] # "CANCELLED" /\ signed[o]
            => stage[s] = "FINALIZED"

\* A decision of BGH stands: no session request takes the outline back, except
\* through a session the office relinked it to.
DecisionStands ==
    [][\A o \in Outlines \ relinked : signed[o] => signed'[o] /\ status'[o] # "BAOVE_PENDING"]_vars
=============================================================================
