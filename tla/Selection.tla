----------------------------- MODULE Selection -----------------------------
(***************************************************************************)
(* A proposal on its way into the catalogue: its owner sends it in a       *)
(* period, the unit and PKH check it, the selection session of its call    *)
(* takes it in, the council votes, BGH approves.                           *)
(*                                                                         *)
(* The approval of BGH reads the session and its results once and then     *)
(* saves proposal after proposal: it is cut at those saves, everybody else *)
(* goes on in between, other approvals of the same or the other session    *)
(* too, and it may stop there. Every other request saves one row, or rows  *)
(* nobody tells apart, and is one step.                                    *)
(***************************************************************************)
EXTENDS FiniteSets

CONSTANTS
    Proposals,
    Calls,     \* calls for proposals, each with its submission period
    NoCall,    \* call_for_proposal_id is null
    Fits,      \* Fits[p]: the calls for the levels p may be given
    Published, \* calls published before the first proposal is written
    NeedsUnit, \* calls whose proposals go through the unit
    Requests   \* approvals by BGH running at the same time

ASSUME SelectionAssumption ==
    /\ NoCall \notin Calls
    /\ Fits \in [Proposals -> SUBSET Calls]
    /\ Published \subseteq Calls /\ NeedsUnit \subseteq Calls

VARIABLES
    stage,    \* each call: in preparation, or published
    status,   \* status of each proposal, "none" before it is written
    call,     \* the call each proposal belongs to
    session,  \* the selection session of each call
    approval, \* the approvals of BGH that are running
    told,     \* the last result mailed to the owner of each proposal
    lost,     \* proposals whose approval stopped between the save and the mail
    edited,   \* proposals whose result ADMIN has corrected
    raced     \* history: decided while another approval had them to decide too,
              \* on a contrary vote

intake == <<stage, call>>
vars == <<intake, status, session, approval, told, lost, edited, raced>>

Votes    == {"DONG_Y", "KHONG_DONG_Y"}
Decided  == {"DUOC_CHON", "KHONG_CHON"}
Editable == {"DRAFT", "RETURNED", "YEU_CAU_BS"}
Statuses == Editable \cup Decided
            \cup {"none", "SUBMITTED", "CHO_PKH", "HOP_LE", "DA_LOAI"}
Steps    == {"none", "CREATED", "OPEN", "MINUTES_SAVED", "PENDING_BGH",
             "RETURNED", "LOCKED"}

RESULT_TO_STATUS == [v \in Votes |->
                        IF v = "DONG_Y" THEN "DUOC_CHON" ELSE "KHONG_CHON"]

NoVotes  == [p \in Proposals |-> "none"]
Results  == [Proposals -> Votes \cup {"none"}]
\* minutes: whether they have been written.
Sessions == [at : Steps, items : SUBSET Proposals, result : Results,
             minutes : BOOLEAN, locked : BOOLEAN]
\* A running approval: the session it is of, and the votes it has read of the
\* proposals it is still to save, and to mail.
NoApproval == [of |-> NoCall, todo |-> NoVotes, mail |-> NoVotes]
Approvals  == [of : Calls \cup {NoCall}, todo : Results, mail : Results]

TypeOK ==
    /\ stage \in [Calls -> {"DRAFT", "OPEN"}]
    /\ status \in [Proposals -> Statuses]
    /\ call \in [Proposals -> Calls \cup {NoCall}]
    /\ session \in [Calls -> Sessions]
    /\ approval \in [Requests -> Approvals]
    /\ told \in [Proposals -> Decided \cup {"none"}]
    /\ lost \subseteq Proposals
    /\ edited \subseteq Proposals
    /\ raced \subseteq Proposals

Init ==
    /\ stage = [c \in Calls |-> IF c \in Published THEN "OPEN" ELSE "DRAFT"]
    /\ status = NoVotes
    /\ call = [p \in Proposals |-> NoCall]
    /\ session = [c \in Calls |-> [at |-> "none", items |-> {}, result |-> NoVotes,
                                   minutes |-> FALSE, locked |-> FALSE]]
    /\ approval = [r \in Requests |-> NoApproval]
    /\ told = NoVotes
    /\ lost = {} /\ edited = {} /\ raced = {}

----------------------------------------------------------------------------
(* Calls.                                                                  *)

council == <<session, approval, told, lost, edited, raced>>

\* A call is published. Its period ends and may be extended again: a proposal
\* that finds it closed is only refused, which is a step not taken.
PublishCall(c) ==
    /\ stage[c] = "DRAFT"
    /\ stage' = [stage EXCEPT ![c] = "OPEN"]
    /\ UNCHANGED <<status, call, council>>

\* ganNhiemVu, goNhiemVu: a call in preparation takes proposals from wherever
\* they are, and lets them go.
Attach(p, c) ==
    /\ stage[c] = "DRAFT" /\ status[p] # "none"
    /\ call' = [call EXCEPT ![p] = c]
    /\ UNCHANGED <<stage, status, council>>

Detach(p) ==
    /\ \E c \in Calls : call[p] = c /\ stage[c] = "DRAFT"
    /\ call' = [call EXCEPT ![p] = NoCall]
    /\ UNCHANGED <<stage, status, council>>

----------------------------------------------------------------------------
(* The owner, the unit and PKH: one row each.                              *)

SetStatus(p, from, to) ==
    /\ status[p] \in from
    /\ status' = [status EXCEPT ![p] = to]

Store(p, c) ==
    /\ stage[c] = "OPEN"
    /\ SetStatus(p, {"none"}, "DRAFT")
    /\ call' = [call EXCEPT ![p] = c]
    /\ UNCHANGED <<stage, council>>

Destroy(p) ==
    /\ SetStatus(p, {"DRAFT"}, "none")
    /\ call' = [call EXCEPT ![p] = NoCall]
    /\ UNCHANGED <<stage, council>>

\* update: another level takes the proposal to the open call of that level.
Update(p, c) ==
    /\ stage[c] = "OPEN" /\ status[p] \in Editable
    /\ call' = [call EXCEPT ![p] = c]
    /\ UNCHANGED <<stage, status, council>>

\* submit, also from PKH's request for a supplement.
Submit(p, c) ==
    /\ stage[c] = "OPEN"
    /\ SetStatus(p, Editable, IF c \in NeedsUnit THEN "SUBMITTED" ELSE "CHO_PKH")
    /\ call' = [call EXCEPT ![p] = c]
    /\ UNCHANGED <<stage, council>>

Withdraw(p) ==
    /\ SetStatus(p, {"SUBMITTED"}, "DRAFT")
    /\ UNCHANGED <<intake, council>>

\* unitReview, unitReturn
UnitReview(p, approved) ==
    /\ SetStatus(p, {"SUBMITTED"}, IF approved THEN "CHO_PKH" ELSE "RETURNED")
    /\ UNCHANGED <<intake, council>>

MarkValid(p) ==
    /\ SetStatus(p, {"CHO_PKH"}, "HOP_LE")
    /\ UNCHANGED <<intake, council>>

RequestSupplement(p) ==
    /\ SetStatus(p, {"CHO_PKH"}, "YEU_CAU_BS")
    /\ UNCHANGED <<intake, council>>

ResubmitToPkh(p) ==
    /\ SetStatus(p, {"YEU_CAU_BS"}, "CHO_PKH")
    /\ UNCHANGED <<intake, council>>

\* Mutant: a proposal that is already valid may be thrown out.
RejectValid(p) ==
    /\ SetStatus(p, {"CHO_PKH", "YEU_CAU_BS", "HOP_LE"}, "DA_LOAI")
    /\ UNCHANGED <<intake, council>>

RejectByPkh(p) ==
    /\ SetStatus(p, {"CHO_PKH", "YEU_CAU_BS"}, "DA_LOAI")
    /\ UNCHANGED <<intake, council>>

----------------------------------------------------------------------------
(* The session of a call, until it is before BGH.                          *)

besides == <<intake, status, approval, told, lost, edited, raced>>

At(c) == session[c].at

\* store: one session per call, with the valid proposals of the moment.
CreateSession(c) ==
    LET valid == {p \in Proposals : call[p] = c /\ status[p] = "HOP_LE"} IN
    /\ At(c) = "none" /\ valid # {}
    /\ session' = [session EXCEPT ![c].at = "CREATED", ![c].items = valid]
    /\ UNCHANGED besides

UpdateMeta(c) ==
    /\ At(c) = "CREATED"
    /\ session' = [session EXCEPT ![c].at = "OPEN"]
    /\ UNCHANGED besides

\* upsertResults, one row of it: a later row that is refused leaves the rows
\* before it saved and the session as it was.
EnterResult(c, p, vote, last) ==
    /\ At(c) \notin {"none", "PENDING_BGH", "LOCKED"}
    /\ p \in session[c].items /\ status[p] = "HOP_LE"
    /\ session' = [session EXCEPT
            ![c].result[p] = vote,
            ![c].at = IF last /\ @ = "CREATED" THEN "OPEN" ELSE @]
    /\ UNCHANGED besides

\* saveMinutes prints the results, also while the session is before BGH.
SaveMinutes(c) ==
    /\ At(c) \notin {"none", "LOCKED"}
    /\ \A p \in session[c].items :
          session[c].result[p] # "none" /\ status[p] = "HOP_LE"
    /\ session' = [session EXCEPT ![c].at = "MINUTES_SAVED", ![c].minutes = TRUE]
    /\ UNCHANGED besides

SubmitBgh(c) ==
    /\ At(c) \in {"MINUTES_SAVED", "RETURNED"} /\ session[c].minutes
    /\ \A p \in session[c].items : session[c].result[p] # "none"
    /\ session' = [session EXCEPT ![c].at = "PENDING_BGH"]
    /\ UNCHANGED besides

----------------------------------------------------------------------------
(* BGH.                                                                    *)

BghReject(c) ==
    /\ At(c) = "PENDING_BGH"
    /\ session' = [session EXCEPT ![c].at = "RETURNED"]
    /\ UNCHANGED besides

\* Mutant: an approval takes up the proposals decided before, too.
StartOverAll(r, c) ==
    /\ At(c) = "PENDING_BGH" /\ ~session[c].locked
    /\ approval[r] = NoApproval
    /\ approval' = [approval EXCEPT ![r] =
            [of |-> c, mail |-> NoVotes, todo |-> session[c].result]]
    /\ UNCHANGED <<intake, status, session, told, lost, edited, raced>>

\* bghApprove reads the session, its results and the proposals. Nothing but the
\* status of the session keeps another approval from doing the same.
StartApproval(r, c) ==
    /\ At(c) = "PENDING_BGH" /\ ~session[c].locked
    /\ approval[r] = NoApproval
    /\ approval' = [approval EXCEPT ![r] =
            [of |-> c, mail |-> NoVotes, todo |-> [p \in Proposals |->
                IF status[p] = "HOP_LE" THEN session[c].result[p] ELSE "none"]]]
    /\ UNCHANGED <<intake, status, session, told, lost, edited, raced>>

\* Another approval has to decide p as well, on a contrary vote.
Contested(r, p) ==
    \E q \in Requests : approval[q].todo[p] \notin {"none", approval[r].todo[p]}

\* The next proposal is saved, then its owner is mailed.
DecideNext(r, p) ==
    LET vote == approval[r].todo[p] IN
    /\ approval[r].mail = NoVotes /\ vote # "none"
    /\ status' = [status EXCEPT ![p] = RESULT_TO_STATUS[vote]]
    /\ approval' = [approval EXCEPT ![r].todo[p] = "none", ![r].mail[p] = vote]
    /\ raced' = IF Contested(r, p) THEN raced \cup {p} ELSE raced
    /\ UNCHANGED <<intake, session, told, lost, edited>>

MailResult(r, p) ==
    /\ approval[r].mail[p] # "none"
    /\ told' = [told EXCEPT ![p] = RESULT_TO_STATUS[approval[r].mail[p]]]
    /\ approval' = [approval EXCEPT ![r].mail = NoVotes]
    /\ UNCHANGED <<intake, status, session, lost, edited, raced>>

\* Mutant: the session is locked before the last mail.
LockFirst(r) ==
    /\ approval[r].of # NoCall /\ approval[r].todo = NoVotes
    /\ session' = [session EXCEPT ![approval[r].of].at = "LOCKED",
                                  ![approval[r].of].locked = TRUE]
    /\ approval' = [approval EXCEPT ![r] = NoApproval]
    /\ UNCHANGED <<intake, status, told, lost, edited, raced>>

Lock(r) ==
    /\ approval[r].of # NoCall
    /\ approval[r].todo = NoVotes /\ approval[r].mail = NoVotes
    /\ session' = [session EXCEPT ![approval[r].of].at = "LOCKED",
                                  ![approval[r].of].locked = TRUE]
    /\ approval' = [approval EXCEPT ![r] = NoApproval]
    /\ UNCHANGED <<intake, status, told, lost, edited, raced>>

\* A query fails or the process stops: what was saved stays saved.
Crash(r) ==
    /\ approval[r].of # NoCall
    /\ lost' = lost \cup {p \in Proposals : approval[r].mail[p] # "none"}
    /\ approval' = [approval EXCEPT ![r] = NoApproval]
    /\ UNCHANGED <<intake, status, session, told, edited, raced>>

\* adminEditLocked, one row of it: the owner is not mailed.
AdminEdit(c, p, vote) ==
    /\ At(c) = "LOCKED" /\ p \in session[c].items
    /\ session' = [session EXCEPT ![c].result[p] = vote]
    /\ status' = [status EXCEPT ![p] = RESULT_TO_STATUS[vote]]
    /\ edited' = edited \cup {p}
    /\ UNCHANGED <<intake, approval, told, lost, raced>>

----------------------------------------------------------------------------
Propose(p) ==
    \/ \E c \in Fits[p] : Store(p, c) \/ Update(p, c) \/ Submit(p, c) \/ Attach(p, c)
    \/ Destroy(p) \/ Withdraw(p) \/ Detach(p) \/ ResubmitToPkh(p)

Check(p) ==
    \/ \E approved \in BOOLEAN : UnitReview(p, approved)
    \/ MarkValid(p) \/ RequestSupplement(p) \/ RejectByPkh(p)

Council(c) ==
    \/ CreateSession(c) \/ UpdateMeta(c) \/ SaveMinutes(c) \/ SubmitBgh(c)
    \/ \E p \in Proposals, vote \in Votes :
          AdminEdit(c, p, vote) \/ \E last \in BOOLEAN : EnterResult(c, p, vote, last)

Approve(r) ==
    \/ \E c \in Calls : StartApproval(r, c)
    \/ \E p \in Proposals : DecideNext(r, p) \/ MailResult(r, p)
    \/ Lock(r)

Next ==
    \/ \E p \in Proposals : Propose(p) \/ Check(p)
    \/ \E c \in Calls : PublishCall(c) \/ Council(c) \/ BghReject(c)
    \/ \E r \in Requests : Approve(r) \/ Crash(r)

Spec == Init /\ [][Next]_vars
----------------------------------------------------------------------------
(* Properties.                                                             *)

\* A locked session leaves none of its proposals behind, also when an approval
\* stopped half-way, the session was returned, or a proposal was moved to
\* another call and decided there.
LockedIsComplete ==
    \A c \in Calls : session[c].locked =>
        \A p \in session[c].items : status[p] \in Decided

\* The result mailed to an owner stays the result of the proposal, whatever PKH
\* does during the approval or after a half-done one, and however often BGH
\* approves. Only ADMIN's correction, which mails nobody but ADMIN, departs from
\* it, and two approvals that both found the proposal undecided and read
\* contrary votes: there the mails contradict each other.
ToldStands ==
    \A p \in Proposals \ (edited \cup raced) :
        told[p] # "none" => status[p] = told[p]

\* No owner is left without a mail by a later approval that skips what an
\* earlier one has saved, unless the earlier one stopped before that mail.
DecisionsAreTold ==
    \A p \in Proposals :
        /\ status[p] \in Decided /\ p \notin lost
        /\ \A r \in Requests : approval[r].mail[p] = "none"
        => told[p] # "none"

=============================================================================
