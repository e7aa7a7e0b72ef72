------------------------------- MODULE Ideas -------------------------------
(***************************************************************************)
(* Ideas on their way to an order: PKH receives them, council sessions     *)
(* score them, the leader approves, and the approval leaves a draft        *)
(* proposal for the author.                                                *)
(*                                                                         *)
(* The closing of a session saves idea after idea, and the session last;   *)
(* an approval saves the proposal, its link and the status in turn.        *)
(* Requests interleave at these cuts and may stop there. A request that    *)
(* saves once is one action: a member scores with one request at a time,   *)
(* and a request that prepares a session does not outlast its opening.     *)
(***************************************************************************)
EXTENDS Integers, FiniteSets, FiniteSetsExt

CONSTANTS
    Ideas,
    Meetings,     \* council sessions
    Members,      \* who may sit on a council
    Scores,       \* weighted scores of a sheet
    Threshold,    \* the mean from which an order is proposed
    MaxProposals, \* bound: draft proposals ever made of one idea
    Clients,      \* requests in flight
    None,         \* no session, no sheet
    Manual        \* a result that was entered, not computed by a closing

ASSUME IdeasAssumption ==
    /\ Scores \subseteq Nat /\ Threshold \in Nat /\ MaxProposals \in Nat
    /\ {None, Manual} \cap Meetings = {} /\ None # Manual
    /\ None \notin Scores

VARIABLES
    ideaStatus, \* of each idea
    verdict,    \* the council's result stored with the idea
    proposal,   \* the proposal that names the idea as its source, 0 if none
    link,       \* linkedProjectId of the idea
    made,       \* draft proposals made of the idea so far
    dropped,    \* ideas of which the author deleted a draft proposal
    meeting,    \* stage, ideas and members of each council session
    sheet,      \* scores by session, idea and member
    req         \* the request of each client and what it has read

ideaVars    == <<ideaStatus, verdict>>
draftVars   == <<proposal, link, made, dropped>>
councilVars == <<meeting, sheet>>
allVars     == <<ideaVars, draftVars, councilVars, req>>

IdeaStatus == {"DRAFT", "SUBMITTED", "REVIEWING", "APPROVED_INTERNAL",
               "PROPOSED_FOR_ORDER", "APPROVED_FOR_ORDER", "REJECTED"}
SessionStatus == {"none", "DRAFT", "OPEN", "CLOSED", "PUBLISHED"}
NoSheet   == [score |-> None, submitted |-> FALSE]
Sheets    == [score : Scores \cup {None}, submitted : BOOLEAN]
NoVerdict == [by |-> None, propose |-> FALSE]
Idle      == [op |-> "idle"]

IdeasTypeOK ==
    /\ ideaStatus \in [Ideas -> IdeaStatus]
    /\ verdict \in [Ideas -> [by : Meetings \cup {None, Manual}, propose : BOOLEAN]]
    /\ {proposal, link, made} \subseteq [Ideas -> 0..MaxProposals]
    /\ dropped \subseteq Ideas
    /\ meeting \in [Meetings -> [at : SessionStatus, ideas : SUBSET Ideas,
                                  members : SUBSET Members]]
    /\ sheet \in [Meetings \X Ideas \X Members -> Sheets]
    /\ \A c \in Clients :
          req[c].op \in {"idle", "draft", "approve", "close"}

IdeasInit ==
    /\ ideaStatus = [i \in Ideas |-> "DRAFT"]
    /\ verdict = [i \in Ideas |-> NoVerdict]
    /\ proposal = [i \in Ideas |-> 0] /\ link = proposal /\ made = proposal
    /\ dropped = {}
    /\ meeting = [s \in Meetings |-> [at |-> "none", ideas |-> {}, members |-> {}]]
    /\ sheet = [x \in Meetings \X Ideas \X Members |-> NoSheet]
    /\ req = [c \in Clients |-> Idle]

Begin(c, r)   == req[c] = Idle /\ req' = [req EXCEPT ![c] = r]
Go(c, at)     == req' = [req EXCEPT ![c].at = at]
Finish(c)     == req' = [req EXCEPT ![c] = Idle]
Running(c, op, at) == req[c].op = op /\ req[c].at = at

----------------------------------------------------------------------------
(* Requests that only move an idea: submit, receive, approveInternal,      *)
(* proposeOrder, reject. Nothing makes an idea REVIEWING.                  *)

Sources(to) ==
    CASE to = "SUBMITTED"          -> {"DRAFT"}
      [] to = "APPROVED_INTERNAL"  -> {"SUBMITTED", "REVIEWING"}
      [] to = "PROPOSED_FOR_ORDER" -> {"APPROVED_INTERNAL"}
      [] to = "REJECTED"           -> IdeaStatus \ {"REJECTED"}
Targets == {"SUBMITTED", "APPROVED_INTERNAL", "PROPOSED_FOR_ORDER", "REJECTED"}

Move(i, to) ==
    /\ ideaStatus[i] \in Sources(to)
    /\ ideaStatus' = [ideaStatus EXCEPT ![i] = to]
    /\ UNCHANGED <<verdict, draftVars, councilVars, req>>

\* councilResult: a result from elsewhere, whatever the status.
CouncilResult(i, propose, enough) ==
    /\ verdict' = [verdict EXCEPT ![i] = [by |-> Manual, propose |-> propose]]
    /\ ideaStatus' = [ideaStatus EXCEPT ![i] =
                         CASE propose /\ enough  -> "PROPOSED_FOR_ORDER"
                           [] propose /\ ~enough -> @
                           [] OTHER              -> "REJECTED"]
    /\ UNCHANGED <<draftVars, councilVars, req>>

----------------------------------------------------------------------------
(* The draft proposal: createDraftFromIdea, from approveOrder ("approve")  *)
(* or for an approved idea, from its list or its author ("draft").         *)

Drafting(c, at) == req[c].op \in {"draft", "approve"} /\ req[c].at = at
\* Where a request goes when the draft is there.
Drafted(c) == IF req[c].op = "approve" THEN Go(c, "status") ELSE Finish(c)

StartApprove(c, i) ==
    /\ ideaStatus[i] = "PROPOSED_FOR_ORDER"
    /\ Begin(c, [op |-> "approve", at |-> "find", idea |-> i, link |-> link[i]])
    /\ UNCHANGED <<ideaVars, draftVars, councilVars>>

StartDraft(c, i) ==
    /\ ideaStatus[i] = "APPROVED_FOR_ORDER"
    /\ Begin(c, [op |-> "draft", at |-> "find", idea |-> i, link |-> link[i]])
    /\ UNCHANGED <<ideaVars, draftVars, councilVars>>

\* Mutant: a draft that is found is taken as it is.
FindDraftOnly(c) ==
    /\ Drafting(c, "find")
    /\ IF proposal[req[c].idea] = 0 THEN Go(c, "create") ELSE Drafted(c)
    /\ UNCHANGED <<ideaVars, draftVars, councilVars>>

\* A draft that is found is linked if the idea that was read has no link.
FindDraft(c) ==
    LET i == req[c].idea IN
    /\ Drafting(c, "find")
    /\ IF proposal[i] = 0 THEN Go(c, "create") /\ UNCHANGED link
       ELSE /\ Drafted(c)
            /\ link' = [link EXCEPT ![i] = IF req[c].link = 0 THEN proposal[i] ELSE @]
    /\ UNCHANGED <<ideaVars, proposal, made, dropped, councilVars>>

\* source_idea_id is unique: who comes second fails.
CreateDraft(c) ==
    LET i == req[c].idea IN
    /\ Drafting(c, "create")
    /\ IF proposal[i] # 0 THEN Finish(c) /\ UNCHANGED draftVars
       ELSE /\ made[i] < MaxProposals
            /\ made' = [made EXCEPT ![i] = @ + 1]
            /\ proposal' = [proposal EXCEPT ![i] = made'[i]]
            /\ req' = [req EXCEPT ![c] = [@ EXCEPT !.at = "link", !.link = made'[i]]]
            /\ UNCHANGED <<link, dropped>>
    /\ UNCHANGED <<ideaVars, councilVars>>

LinkDraft(c) ==
    /\ Drafting(c, "link")
    /\ link' = [link EXCEPT ![req[c].idea] = req[c].link]
    /\ Drafted(c)
    /\ UNCHANGED <<ideaVars, proposal, made, dropped, councilVars>>

WriteApproval(c) ==
    /\ Running(c, "approve", "status")
    /\ ideaStatus' = [ideaStatus EXCEPT ![req[c].idea] = "APPROVED_FOR_ORDER"]
    /\ Finish(c)
    /\ UNCHANGED <<verdict, draftVars, councilVars>>

\* destroy of project_proposals_controller, of a draft.
DropDraft(i) ==
    /\ proposal[i] # 0
    /\ proposal' = [proposal EXCEPT ![i] = 0]
    /\ dropped' = dropped \cup {i}
    /\ UNCHANGED <<ideaVars, link, made, councilVars, req>>

----------------------------------------------------------------------------
(* Council sessions.                                                       *)

InDraft(s) == meeting[s].at = "DRAFT"

StoreSession(s) ==
    /\ meeting[s].at = "none"
    /\ meeting' = [meeting EXCEPT ![s].at = "DRAFT"]
    /\ UNCHANGED <<ideaVars, draftVars, sheet, req>>

\* An idea may be in several sessions.
AddIdea(s, i) ==
    /\ InDraft(s) /\ ideaStatus[i] = "APPROVED_INTERNAL" /\ i \notin meeting[s].ideas
    /\ meeting' = [meeting EXCEPT ![s].ideas = @ \cup {i}]
    /\ UNCHANGED <<ideaVars, draftVars, sheet, req>>

RemoveIdea(s, i) ==
    /\ InDraft(s) /\ i \in meeting[s].ideas
    /\ meeting' = [meeting EXCEPT ![s].ideas = @ \ {i}]
    /\ UNCHANGED <<ideaVars, draftVars, sheet, req>>

AddMember(s, m) ==
    /\ InDraft(s) /\ m \notin meeting[s].members
    /\ meeting' = [meeting EXCEPT ![s].members = @ \cup {m}]
    /\ UNCHANGED <<ideaVars, draftVars, sheet, req>>

RemoveMember(s, m) ==
    /\ InDraft(s) /\ m \in meeting[s].members
    /\ meeting' = [meeting EXCEPT ![s].members = @ \ {m}]
    /\ UNCHANGED <<ideaVars, draftVars, sheet, req>>

Open(s) ==
    /\ InDraft(s) /\ meeting[s].members # {} /\ meeting[s].ideas # {}
    /\ meeting' = [meeting EXCEPT ![s].at = "OPEN"]
    /\ UNCHANGED <<ideaVars, draftVars, sheet, req>>

SaveScore(s, i, m, score) ==
    /\ meeting[s].at = "OPEN" /\ i \in meeting[s].ideas /\ m \in meeting[s].members
    /\ ~sheet[s, i, m].submitted
    /\ sheet' = [sheet EXCEPT ![<<s, i, m>>].score = score]
    /\ UNCHANGED <<ideaVars, draftVars, meeting, req>>

SubmitScore(s, i, m) ==
    /\ meeting[s].at = "OPEN"
    /\ sheet[s, i, m].score # None /\ ~sheet[s, i, m].submitted
    /\ sheet' = [sheet EXCEPT ![<<s, i, m>>].submitted = TRUE]
    /\ UNCHANGED <<ideaVars, draftVars, meeting, req>>

Submitted(s, i) == {m \in Members : sheet[s, i, m].submitted}
\* The mean is compared as it is, not rounded.
Proposes(s, i) ==
    SumFunction([m \in Submitted(s, i) |-> sheet[s, i, m].score])
        >= Threshold * Cardinality(Submitted(s, i))

\* Mutant: one sheet for each idea is enough.
StartCloseEarly(c, s) ==
    /\ meeting[s].at = "OPEN"
    /\ \A i \in meeting[s].ideas : Submitted(s, i) # {}
    /\ Begin(c, [op |-> "close", at |-> "ideas", session |-> s, left |-> meeting[s].ideas,
                 propose |-> {i \in meeting[s].ideas : Proposes(s, i)}])
    /\ UNCHANGED <<ideaVars, draftVars, councilVars>>

\* close: reads every sheet, then decides idea after idea, whatever its status.
StartClose(c, s) ==
    /\ meeting[s].at = "OPEN"
    /\ \A i \in meeting[s].ideas : meeting[s].members \subseteq Submitted(s, i)
    /\ Begin(c, [op |-> "close", at |-> "ideas", session |-> s, left |-> meeting[s].ideas,
                 propose |-> {i \in meeting[s].ideas : Proposes(s, i)}])
    /\ UNCHANGED <<ideaVars, draftVars, councilVars>>

DecideIdea(c, i) ==
    /\ req[c].op = "close" /\ i \in req[c].left
    /\ LET propose == i \in req[c].propose IN
       /\ verdict' = [verdict EXCEPT ![i] = [by |-> req[c].session, propose |-> propose]]
       /\ ideaStatus' = [ideaStatus EXCEPT ![i] =
                            IF propose THEN "PROPOSED_FOR_ORDER" ELSE "REJECTED"]
    /\ req' = [req EXCEPT ![c].left = @ \ {i}]
    /\ UNCHANGED <<draftVars, councilVars>>

EndClose(c) ==
    /\ req[c].op = "close" /\ req[c].left = {}
    /\ meeting' = [meeting EXCEPT ![req[c].session].at = "CLOSED"]
    /\ Finish(c)
    /\ UNCHANGED <<ideaVars, draftVars, sheet>>

Publish(s) ==
    /\ meeting[s].at = "CLOSED"
    /\ meeting' = [meeting EXCEPT ![s].at = "PUBLISHED"]
    /\ UNCHANGED <<ideaVars, draftVars, sheet, req>>

----------------------------------------------------------------------------
\* A query fails or the process stops: what was saved stays saved.
CrashSaving(c) ==
    /\ req[c] # Idle
    /\ Finish(c)
    /\ UNCHANGED <<ideaVars, draftVars, councilVars>>

Prepare(s) ==
    \/ StoreSession(s) \/ Open(s) \/ Publish(s)
    \/ \E i \in Ideas : AddIdea(s, i) \/ RemoveIdea(s, i)
    \/ \E m \in Members : AddMember(s, m) \/ RemoveMember(s, m)

Score(s, i, m) ==
    SubmitScore(s, i, m) \/ \E score \in Scores : SaveScore(s, i, m, score)

Ask(c) ==
    \/ \E s \in Meetings : StartClose(c, s)
    \/ \E i \in Ideas : StartApprove(c, i) \/ StartDraft(c, i)

Continue(c) ==
    \/ FindDraft(c) \/ CreateDraft(c) \/ LinkDraft(c)
    \/ WriteApproval(c) \/ EndClose(c) \/ CrashSaving(c)
    \/ \E i \in Ideas : DecideIdea(c, i)

IdeasNext ==
    \/ \E s \in Meetings : Prepare(s)
    \/ \E s \in Meetings, i \in Ideas, m \in Members : Score(s, i, m)
    \/ \E c \in Clients : Ask(c) \/ Continue(c)
    \/ \E i \in Ideas : \/ DropDraft(i)
                        \/ \E to \in Targets : Move(i, to)
                        \/ \E propose, enough \in BOOLEAN : CouncilResult(i, propose, enough)

IdeasSpec == IdeasInit /\ [][IdeasNext]_allVars
----------------------------------------------------------------------------
(* Properties.                                                             *)

\* What a session has decided about an idea follows from a sheet of every
\* member, also when the closing stopped between two ideas and was repeated or
\* ran twice at once; and a closed session has left none of its ideas undecided.
VerdictFollowsSheets ==
    /\ \A i \in Ideas, s \in Meetings : verdict[i].by = s =>
          /\ meeting[s].members \subseteq Submitted(s, i)
          /\ verdict[i].propose = Proposes(s, i)
    /\ \A s \in Meetings : meeting[s].at \in {"CLOSED", "PUBLISHED"} =>
          \A i \in meeting[s].ideas : verdict[i].by # None

\* An approved idea has its draft proposal and names it, unless its author
\* deleted one: whichever approvals, lists and authors made it at once or
\* stopped between proposal, link and status.
OrderHasProposal ==
    \A i \in Ideas \ dropped : ideaStatus[i] = "APPROVED_FOR_ORDER" =>
        proposal[i] # 0 /\ link[i] = proposal[i]
=============================================================================
