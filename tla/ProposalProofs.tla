-------------------------- MODULE ProposalProofs --------------------------
(***************************************************************************)
(* What Ideas and Selection keep: an idea on its way to an order, and the  *)
(* proposal that is selected, for any ideas, proposals, calls and councils.*)
(*                                                                         *)
(* Ideas.  A request that drafts a proposal still knows the one there is,  *)
(* unless its author deleted one; the sheets that a closing has read do    *)
(* not change any more, because all of them are in.                        *)
(*                                                                         *)
(* Selection.  A proposal leaves HOP_LE only by a decision, so one that is *)
(* in a session is valid or decided; and what an approval has left to do   *)
(* is still valid, or was decided the same way by another approval, unless *)
(* the two raced on contrary votes.                                        *)
(***************************************************************************)
EXTENDS Ideas, Selection, TLAPS

----------------------------------------------------------------------------
(* Ideas: types.                                                           *)

\* What a request that drafts a proposal, and one that closes a session, has read.
DraftRequests == [op : {"draft", "approve"}, at : {"find", "create", "link", "status"},
                  idea : Ideas, link : 0..MaxProposals]
CloseRequests == [op : {"close"}, at : {"ideas"}, session : Meetings,
                  left : SUBSET Ideas, propose : SUBSET Ideas]
IdeasTyped ==
    /\ IdeasTypeOK
    /\ req \in [Clients -> {Idle} \cup DraftRequests \cup CloseRequests]

\* An idea of which no draft was deleted is linked to its proposal or to
\* nothing, and a request that goes on knows the proposal there is.
DraftOf(i) ==
    /\ link[i] \in {0, proposal[i]}
    /\ ideaStatus[i] = "APPROVED_FOR_ORDER" => proposal[i] # 0 /\ link[i] = proposal[i]
Knows(c) ==
    LET i == req[c].idea IN
    /\ req[c].at = "find" /\ req[c].link # 0 => link[i] # 0
    /\ req[c].at = "link" => proposal[i] # 0 /\ req[c].link = proposal[i]
    /\ req[c].at = "status" => proposal[i] # 0 /\ link[i] = proposal[i]
DraftsKnown ==
    /\ \A i \in Ideas \ dropped : DraftOf(i)
    /\ \A c \in Clients : req[c] \in DraftRequests /\ req[c].idea \notin dropped => Knows(c)

LEMMA InitDraftsKnown == IdeasInit => IdeasTyped /\ DraftsKnown
  BY IdeasAssumption
  DEF IdeasInit, IdeasTyped, IdeasTypeOK, DraftsKnown, DraftOf, DraftRequests, Idle,
      IdeaStatus, NoVerdict, SessionStatus, Sheets, NoSheet

LEMMA IdeaMovesTyped ==
  ASSUME IdeasTyped, NEW i \in Ideas,
         DropDraft(i) \/ (\E to \in Targets : Move(i, to))
           \/ \E propose, enough \in BOOLEAN : CouncilResult(i, propose, enough)
  PROVE  IdeasTyped'
<1>1. CASE DropDraft(i)
  BY <1>1, IdeasAssumption DEF DropDraft, IdeasTyped, IdeasTypeOK, ideaVars, councilVars
<1>2. ASSUME NEW to \in Targets, Move(i, to) PROVE IdeasTyped'
  BY <1>2 DEF Move, IdeasTyped, IdeasTypeOK, Targets, IdeaStatus, draftVars, councilVars
<1>3. ASSUME NEW propose \in BOOLEAN, NEW enough \in BOOLEAN, CouncilResult(i, propose, enough)
      PROVE IdeasTyped'
  BY <1>3 DEF CouncilResult, IdeasTyped, IdeasTypeOK, IdeaStatus, draftVars, councilVars
<1> QED
  BY <1>1, <1>2, <1>3

LEMMA PrepareTyped ==
  ASSUME IdeasTyped, NEW s \in Meetings, Prepare(s)
  PROVE  IdeasTyped'
<1>1. UNCHANGED <<ideaVars, draftVars, sheet, req>>
  BY DEF Prepare, StoreSession, Open, Publish, AddIdea, RemoveIdea, AddMember, RemoveMember
<1>2. \E r \in [at : SessionStatus, ideas : SUBSET Ideas, members : SUBSET Members] :
         meeting' = [meeting EXCEPT ![s] = r]
  <2> DEFINE old == meeting[s]
  <2>1. old \in [at : SessionStatus, ideas : SUBSET Ideas, members : SUBSET Members]
    BY DEF IdeasTyped, IdeasTypeOK
  <2>2. \/ \E at \in {"DRAFT", "OPEN", "PUBLISHED"} :
              meeting' = [meeting EXCEPT ![s] = [old EXCEPT !.at = at]]
        \/ \E S \in SUBSET Ideas : meeting' = [meeting EXCEPT ![s] = [old EXCEPT !.ideas = S]]
        \/ \E S \in SUBSET Members :
              meeting' = [meeting EXCEPT ![s] = [old EXCEPT !.members = S]]
    <3>1. CASE StoreSession(s) \/ Open(s) \/ Publish(s)
      BY <3>1 DEF StoreSession, Open, Publish
    <3>2. ASSUME NEW i \in Ideas, AddIdea(s, i) \/ RemoveIdea(s, i)
          PROVE  \E S \in SUBSET Ideas :
                    meeting' = [meeting EXCEPT ![s] = [old EXCEPT !.ideas = S]]
      <4>1. old.ideas \cup {i} \in SUBSET Ideas /\ old.ideas \ {i} \in SUBSET Ideas
        BY <2>1
      <4> QED
        BY <3>2, <4>1 DEF AddIdea, RemoveIdea
    <3>3. ASSUME NEW m \in Members, AddMember(s, m) \/ RemoveMember(s, m)
          PROVE  \E S \in SUBSET Members :
                    meeting' = [meeting EXCEPT ![s] = [old EXCEPT !.members = S]]
      <4>1. old.members \cup {m} \in SUBSET Members /\ old.members \ {m} \in SUBSET Members
        BY <2>1
      <4> QED
        BY <3>3, <4>1 DEF AddMember, RemoveMember
    <3> QED
      BY <3>1, <3>2, <3>3 DEF Prepare
  <2> HIDE DEF old
  <2> QED
    BY <2>1, <2>2 DEF SessionStatus
<1> QED
  BY <1>1, <1>2 DEF IdeasTyped, IdeasTypeOK, ideaVars, draftVars

LEMMA ScoreTyped ==
  ASSUME IdeasTyped, NEW s \in Meetings, NEW i \in Ideas, NEW m \in Members, Score(s, i, m)
  PROVE  IdeasTyped'
<1>1. sheet[s, i, m] \in Sheets
  BY DEF IdeasTyped, IdeasTypeOK
<1>2. \E x \in Sheets : sheet' = [sheet EXCEPT ![<<s, i, m>>] = x]
  <2>1. CASE SubmitScore(s, i, m)
    BY <1>1, <2>1 DEF SubmitScore, Sheets
  <2>2. ASSUME NEW score \in Scores, SaveScore(s, i, m, score)
        PROVE  \E x \in Sheets : sheet' = [sheet EXCEPT ![<<s, i, m>>] = x]
    BY <1>1, <2>2 DEF SaveScore, Sheets
  <2> QED
    BY <2>1, <2>2 DEF Score
<1>3. sheet' \in [Meetings \X Ideas \X Members -> Sheets]
  BY <1>2 DEF IdeasTyped, IdeasTypeOK
<1> QED
  BY <1>3 DEF Score, SubmitScore, SaveScore, IdeasTyped, IdeasTypeOK, ideaVars, draftVars

\* The request of one client goes on or ends.
LEMMA RequestTyped ==
  ASSUME IdeasTyped, NEW c \in Clients, NEW r \in {Idle} \cup DraftRequests \cup CloseRequests,
         req' = [req EXCEPT ![c] = r]
  PROVE  /\ req' \in [Clients -> {Idle} \cup DraftRequests \cup CloseRequests]
         /\ \A d \in Clients : req'[d].op \in {"idle", "draft", "approve", "close"}
<1>1. req' \in [Clients -> {Idle} \cup DraftRequests \cup CloseRequests]
  BY DEF IdeasTyped
<1> QED
  BY <1>1 DEF DraftRequests, CloseRequests, Idle

\* Of a request that drafts: what each step makes of it.
LEMMA DraftSteps ==
  ASSUME IdeasTyped, NEW c \in Clients,
         FindDraft(c) \/ CreateDraft(c) \/ LinkDraft(c) \/ WriteApproval(c)
  PROVE  /\ req[c] \in DraftRequests /\ req[c].idea \in Ideas
         /\ \E r \in {Idle} \cup DraftRequests : req' = [req EXCEPT ![c] = r]
<1>1. req[c] \in DraftRequests
  BY DEF FindDraft, CreateDraft, LinkDraft, WriteApproval, Drafting, Running, IdeasTyped,
         CloseRequests, Idle
<1> SUFFICES \E r \in {Idle} \cup DraftRequests : req' = [req EXCEPT ![c] = r]
  BY <1>1 DEF DraftRequests
<1>2. ASSUME NEW at \in {"create", "link", "status"}
      PROVE  /\ [req[c] EXCEPT !.at = at] \in DraftRequests
             /\ \A x \in 0..MaxProposals :
                   [[req[c] EXCEPT !.at = at] EXCEPT !.link = x] \in DraftRequests
  BY <1>1 DEF DraftRequests
<1>3. CASE FindDraft(c) \/ LinkDraft(c) \/ WriteApproval(c)
  BY <1>1, <1>2, <1>3 DEF FindDraft, LinkDraft, WriteApproval, Drafted, Go, Finish
<1>4. CASE CreateDraft(c)
  <2>1. CASE proposal[req[c].idea] # 0
    BY <1>4, <2>1 DEF CreateDraft, Finish
  <2>2. CASE proposal[req[c].idea] = 0
    <3>1. made'[req[c].idea] \in 0..MaxProposals
      BY <1>1, <1>4, <2>2, IdeasAssumption
      DEF CreateDraft, DraftRequests, IdeasTyped, IdeasTypeOK
    <3>2. req' = [req EXCEPT ![c] = [[req[c] EXCEPT !.at = "link"]
                                       EXCEPT !.link = made'[req[c].idea]]]
      BY <1>4, <2>2 DEF CreateDraft, IdeasTyped
    <3> QED
      BY <1>2, <3>1, <3>2
  <2> QED
    BY <2>1, <2>2
<1> QED
  BY <1>1, <1>3, <1>4 DEF DraftRequests

LEMMA DraftTyped ==
  ASSUME IdeasTyped, NEW c \in Clients,
         FindDraft(c) \/ CreateDraft(c) \/ LinkDraft(c) \/ WriteApproval(c)
  PROVE  IdeasTyped'
<1>1. /\ req' \in [Clients -> {Idle} \cup DraftRequests \cup CloseRequests]
      /\ \A d \in Clients : req'[d].op \in {"idle", "draft", "approve", "close"}
      /\ req[c] \in DraftRequests /\ req[c].idea \in Ideas /\ req[c].link \in 0..MaxProposals
  BY DraftSteps, RequestTyped DEF DraftRequests
<1>2. {proposal', link', made'} \subseteq [Ideas -> 0..MaxProposals]
  <2>1. CASE CreateDraft(c)
    <3> DEFINE i == req[c].idea
    <3>1. CASE proposal[i] # 0
      BY <2>1, <3>1 DEF CreateDraft, IdeasTyped, IdeasTypeOK, draftVars
    <3>2. CASE proposal[i] = 0
      <4>1. /\ made[i] < MaxProposals /\ made' = [made EXCEPT ![i] = @ + 1]
            /\ proposal' = [proposal EXCEPT ![i] = made'[i]] /\ link' = link
        BY <2>1, <3>2 DEF CreateDraft
      <4>2. made \in [Ideas -> 0..MaxProposals] /\ made[i] + 1 \in 0..MaxProposals
        BY <1>1, <4>1, IdeasAssumption DEF IdeasTyped, IdeasTypeOK
      <4>3. made' \in [Ideas -> 0..MaxProposals] /\ made'[i] \in 0..MaxProposals
        BY <1>1, <4>1, <4>2
      <4> QED
        BY <4>1, <4>3 DEF IdeasTyped, IdeasTypeOK
    <3> QED
      BY <3>1, <3>2
  <2>2. CASE FindDraft(c)
    BY <1>1, <2>2 DEF FindDraft, IdeasTyped, IdeasTypeOK
  <2>3. CASE LinkDraft(c) \/ WriteApproval(c)
    BY <1>1, <2>3 DEF LinkDraft, WriteApproval, IdeasTyped, IdeasTypeOK, draftVars
  <2> QED
    BY <2>1, <2>2, <2>3
<1>3. ideaStatus' \in [Ideas -> IdeaStatus] /\ UNCHANGED <<verdict, dropped, councilVars>>
  BY <1>1 DEF FindDraft, CreateDraft, LinkDraft, WriteApproval, IdeasTyped,
     IdeasTypeOK, draftVars, ideaVars, IdeaStatus
<1> QED
  BY <1>1, <1>2, <1>3 DEF IdeasTyped, IdeasTypeOK, councilVars

LEMMA AskTyped ==
  ASSUME IdeasTyped, NEW c \in Clients, Ask(c)
  PROVE  IdeasTyped'
<1>1. UNCHANGED <<ideaVars, draftVars, councilVars>>
  BY DEF Ask, StartClose, StartApprove, StartDraft
<1>2. req' \in [Clients -> {Idle} \cup DraftRequests \cup CloseRequests]
  BY DEF Ask, StartClose, StartApprove, StartDraft, Begin, IdeasTyped, IdeasTypeOK,
         DraftRequests, CloseRequests
<1>3. \A d \in Clients : req'[d].op \in {"idle", "draft", "approve", "close"}
  BY <1>2 DEF DraftRequests, CloseRequests, Idle
<1> QED
  BY <1>1, <1>2, <1>3 DEF IdeasTyped, IdeasTypeOK, ideaVars, draftVars, councilVars

LEMMA CloseTyped ==
  ASSUME IdeasTyped, NEW c \in Clients,
         EndClose(c) \/ CrashSaving(c) \/ \E i \in Ideas : DecideIdea(c, i)
  PROVE  IdeasTyped'
<1>1. CASE CrashSaving(c)
  BY <1>1 DEF CrashSaving, Finish, IdeasTyped, IdeasTypeOK, ideaVars, draftVars,
     councilVars, Idle
<1>2. CASE EndClose(c)
  <2>1. req[c] \in CloseRequests
    BY <1>2 DEF EndClose, IdeasTyped, DraftRequests, Idle
  <2> QED
    BY <1>2, <2>1 DEF EndClose, Finish, IdeasTyped, IdeasTypeOK, CloseRequests, ideaVars,
       draftVars, Idle, SessionStatus
<1>3. ASSUME NEW i \in Ideas, DecideIdea(c, i) PROVE IdeasTyped'
  <2>1. req[c] \in CloseRequests
    BY <1>3 DEF DecideIdea, IdeasTyped, DraftRequests, Idle
  <2>2. req' \in [Clients -> {Idle} \cup DraftRequests \cup CloseRequests]
    BY <1>3, <2>1 DEF DecideIdea, IdeasTyped, CloseRequests
  <2>3. \A d \in Clients : req'[d].op \in {"idle", "draft", "approve", "close"}
    BY <2>2 DEF DraftRequests, CloseRequests, Idle
  <2>4. verdict' \in [Ideas -> [by : Meetings \cup {None, Manual}, propose : BOOLEAN]]
    BY <1>3, <2>1 DEF DecideIdea, IdeasTyped, IdeasTypeOK, CloseRequests
  <2>5. ideaStatus' \in [Ideas -> IdeaStatus]
    BY <1>3 DEF DecideIdea, IdeasTyped, IdeasTypeOK, IdeaStatus
  <2> QED
    BY <1>3, <2>2, <2>3, <2>4, <2>5 DEF DecideIdea, IdeasTyped, IdeasTypeOK, draftVars,
       councilVars
<1> QED
  BY <1>1, <1>2, <1>3

----------------------------------------------------------------------------
(* Drafts: OrderHasProposal.                                               *)

\* A step that leaves proposals and links, and approves only what it knows.
LEMMA SameDrafts ==
  ASSUME IdeasTyped, DraftsKnown, UNCHANGED draftVars,
         \A i \in Ideas \ dropped :
            ideaStatus'[i] = "APPROVED_FOR_ORDER" =>
               \/ ideaStatus[i] = "APPROVED_FOR_ORDER"
               \/ proposal[i] # 0 /\ link[i] = proposal[i],
         \A c \in Clients : req'[c] \in DraftRequests =>
            \/ req'[c] = req[c]
            \/ req'[c].at = "find" /\ req'[c].link = link[req'[c].idea]
  PROVE  DraftsKnown'
<1>1. \A i \in Ideas \ dropped' : DraftOf(i)'
  BY DEF DraftsKnown, DraftOf, draftVars
<1>2. ASSUME NEW c \in Clients, req'[c] \in DraftRequests, req'[c].idea \notin dropped'
      PROVE  Knows(c)'
  BY <1>2 DEF DraftsKnown, Knows, draftVars
<1> QED
  BY <1>1, <1>2 DEF DraftsKnown, DraftRequests

LEMMA DraftingKeepsDrafts ==
  ASSUME IdeasTyped, DraftsKnown, NEW c \in Clients,
         FindDraft(c) \/ CreateDraft(c) \/ LinkDraft(c) \/ WriteApproval(c)
  PROVE  DraftsKnown'
<1> DEFINE i == req[c].idea
<1>1. /\ req[c] \in DraftRequests /\ i \in Ideas /\ req[c].link \in 0..MaxProposals
      /\ req \in [Clients -> {Idle} \cup DraftRequests \cup CloseRequests]
      /\ Idle \notin DraftRequests
  BY DraftSteps DEF IdeasTyped, DraftRequests, Idle
<1>2. /\ proposal \in [Ideas -> 0..MaxProposals] /\ link \in [Ideas -> 0..MaxProposals]
      /\ made \in [Ideas -> 0..MaxProposals] /\ MaxProposals \in Nat
      /\ ideaStatus \in [Ideas -> IdeaStatus]
  BY IdeasAssumption DEF IdeasTyped, IdeasTypeOK
<1>3. i \notin dropped => DraftOf(i) /\ Knows(c)
  BY <1>1 DEF DraftsKnown
<1>4. CASE FindDraft(c)
  <2>1. CASE proposal[i] = 0
    <3>1. /\ UNCHANGED <<ideaVars, draftVars>>
          /\ req' = [req EXCEPT ![c] = [req[c] EXCEPT !.at = "create"]]
      BY <1>4, <2>1 DEF FindDraft, Go, draftVars
    <3> QED
      BY <1>1, <3>1 DEF DraftsKnown, DraftOf, Knows, ideaVars, draftVars, DraftRequests
  <2>2. CASE proposal[i] # 0
    <3>1. /\ UNCHANGED <<ideaVars, proposal, made, dropped>>
          /\ link' = [link EXCEPT ![i] = IF req[c].link = 0 THEN proposal[i] ELSE @]
          /\ \/ req' = [req EXCEPT ![c] = [req[c] EXCEPT !.at = "status"]]
             \/ req' = [req EXCEPT ![c] = Idle]
      BY <1>4, <2>2 DEF FindDraft, Drafted, Go, Finish, Drafting
    <3>2. req[c].at = "find"
      BY <1>4 DEF FindDraft, Drafting
    <3>3. i \notin dropped => link'[i] = proposal[i]
      BY <1>1, <1>2, <1>3, <3>1, <3>2 DEF DraftOf, Knows
    <3>4. \A j \in Ideas \ dropped' : DraftOf(j)'
      BY <1>1, <1>2, <2>2, <3>1, <3>3 DEF DraftsKnown, DraftOf, ideaVars
    <3>5. ASSUME NEW d \in Clients, req'[d] \in DraftRequests, req'[d].idea \notin dropped'
          PROVE  Knows(d)'
      <4>1. CASE d = c
        BY <1>1, <2>2, <3>1, <3>3, <3>5, <4>1 DEF Knows, DraftRequests
      <4>2. CASE d # c
        <5>1. req'[d] = req[d] /\ req[d].idea \in Ideas /\ Knows(d)
          BY <1>1, <3>1, <3>5, <4>2 DEF DraftsKnown, DraftRequests
        <5> QED
          BY <1>1, <1>2, <2>2, <3>1, <3>3, <3>5, <5>1 DEF Knows
      <4> QED
        BY <4>1, <4>2
    <3> QED
      BY <3>4, <3>5 DEF DraftsKnown
  <2> QED
    BY <2>1, <2>2
<1>5. CASE CreateDraft(c)
  <2>1. CASE proposal[i] # 0
    <3>1. UNCHANGED <<ideaVars, draftVars>> /\ req' = [req EXCEPT ![c] = Idle]
      BY <1>5, <2>1 DEF CreateDraft, Finish
    <3> QED
      BY <1>1, <3>1, SameDrafts DEF ideaVars
  <2>2. CASE proposal[i] = 0
    <3> DEFINE new == made[i] + 1
    <3>1. /\ UNCHANGED <<ideaVars, link, dropped>> /\ new \in 1..MaxProposals
          /\ proposal' = [proposal EXCEPT ![i] = new]
          /\ req' = [req EXCEPT ![c] = [[req[c] EXCEPT !.at = "link"] EXCEPT !.link = new]]
      <4>1. /\ UNCHANGED <<ideaVars, link, dropped>> /\ made[i] < MaxProposals
            /\ made' = [made EXCEPT ![i] = @ + 1]
            /\ proposal' = [proposal EXCEPT ![i] = made'[i]]
            /\ req' = [req EXCEPT ![c] = [@ EXCEPT !.at = "link", !.link = made'[i]]]
        BY <1>5, <2>2 DEF CreateDraft
      <4>2. made'[i] = new /\ new \in 1..MaxProposals
        BY <1>1, <1>2, <4>1
      <4>3. req' = [req EXCEPT ![c] = [[req[c] EXCEPT !.at = "link"] EXCEPT !.link = made'[i]]]
        BY <1>1, <4>1
      <4> HIDE DEF new
      <4> QED
        BY <4>1, <4>2, <4>3
    <3>2. i \notin dropped => link[i] = 0
      BY <1>2, <1>3, <2>2 DEF DraftOf
    <3>3. \A j \in Ideas \ dropped' : DraftOf(j)'
      BY <1>1, <1>2, <2>2, <3>1, <3>2 DEF DraftsKnown, DraftOf, ideaVars
    <3>4. ASSUME NEW d \in Clients, req'[d] \in DraftRequests, req'[d].idea \notin dropped'
          PROVE  Knows(d)'
      <4>1. CASE d = c
        BY <1>1, <1>2, <3>1, <4>1 DEF Knows, DraftRequests
      <4>2. CASE d # c
        <5>1. req'[d] = req[d] /\ req[d].idea \in Ideas /\ Knows(d)
          BY <1>1, <3>1, <3>4, <4>2 DEF DraftsKnown, DraftRequests
        <5> QED
          BY <1>1, <1>2, <2>2, <3>1, <3>2, <3>4, <5>1 DEF Knows
      <4> QED
        BY <4>1, <4>2
    <3> QED
      BY <3>3, <3>4 DEF DraftsKnown
  <2> QED
    BY <2>1, <2>2
<1>6. CASE LinkDraft(c)
  <2>1. /\ UNCHANGED <<ideaVars, proposal, made, dropped>>
        /\ link' = [link EXCEPT ![i] = req[c].link] /\ req[c].at = "link"
        /\ \/ req' = [req EXCEPT ![c] = [req[c] EXCEPT !.at = "status"]]
           \/ req' = [req EXCEPT ![c] = Idle]
    BY <1>6 DEF LinkDraft, Drafted, Go, Finish, Drafting
  <2>2. i \notin dropped => link'[i] = proposal[i] /\ proposal[i] # 0
    BY <1>1, <1>2, <1>3, <2>1 DEF Knows
  <2>3. \A j \in Ideas \ dropped' : DraftOf(j)'
    BY <1>1, <1>2, <2>1, <2>2 DEF DraftsKnown, DraftOf, ideaVars
  <2>4. ASSUME NEW d \in Clients, req'[d] \in DraftRequests, req'[d].idea \notin dropped'
        PROVE  Knows(d)'
    <3>1. CASE d = c
      BY <1>1, <2>1, <2>2, <2>4, <3>1 DEF Knows, DraftRequests
    <3>2. CASE d # c
      <4>1. req'[d] = req[d] /\ req[d].idea \in Ideas /\ Knows(d)
        BY <1>1, <2>1, <2>4, <3>2 DEF DraftsKnown, DraftRequests
      <4> QED
        BY <1>1, <1>2, <2>1, <2>2, <2>4, <4>1 DEF Knows
    <3> QED
      BY <3>1, <3>2
  <2> QED
    BY <2>3, <2>4 DEF DraftsKnown
<1>7. CASE WriteApproval(c)
  <2>1. /\ UNCHANGED draftVars /\ req[c].at = "status" /\ req' = [req EXCEPT ![c] = Idle]
        /\ ideaStatus' = [ideaStatus EXCEPT ![i] = "APPROVED_FOR_ORDER"]
    BY <1>7 DEF WriteApproval, Finish, Running
  <2> QED
    BY <1>1, <1>2, <1>3, <2>1, SameDrafts DEF Knows
<1> QED
  BY <1>4, <1>5, <1>6, <1>7

LEMMA StepKeepsDrafts == IdeasTyped /\ DraftsKnown /\ [IdeasNext]_allVars => DraftsKnown'
<1> SUFFICES ASSUME IdeasTyped, DraftsKnown, [IdeasNext]_allVars PROVE DraftsKnown'
  OBVIOUS
<1>0. \A c \in Clients : req[c] \in {Idle} \cup DraftRequests \cup CloseRequests
  BY DEF IdeasTyped
<1>1. CASE UNCHANGED allVars
  BY <1>1, SameDrafts DEF allVars, ideaVars, draftVars
<1>2. ASSUME NEW s \in Meetings, Prepare(s) PROVE DraftsKnown'
  BY <1>2, SameDrafts DEF Prepare, StoreSession, Open, Publish, AddIdea, RemoveIdea,
     AddMember, RemoveMember, ideaVars
<1>3. ASSUME NEW s \in Meetings, NEW i \in Ideas, NEW m \in Members, Score(s, i, m)
      PROVE  DraftsKnown'
  BY <1>3, SameDrafts DEF Score, SubmitScore, SaveScore, ideaVars
<1>4. ASSUME NEW c \in Clients, Ask(c) PROVE DraftsKnown'
  <2>1. UNCHANGED <<ideaVars, draftVars>>
    BY <1>4 DEF Ask, StartClose, StartApprove, StartDraft
  <2>2. \A d \in Clients : req'[d] \in DraftRequests =>
           \/ req'[d] = req[d]
           \/ req'[d].at = "find" /\ req'[d].link = link[req'[d].idea]
    BY <1>4 DEF Ask, StartClose, StartApprove, StartDraft, Begin, IdeasTyped, DraftRequests
  <2> QED
    BY <2>1, <2>2, SameDrafts DEF ideaVars
<1>5. ASSUME NEW c \in Clients, EndClose(c) \/ CrashSaving(c) PROVE DraftsKnown'
  BY <1>5, SameDrafts DEF EndClose, CrashSaving, Finish, IdeasTyped, DraftRequests, Idle,
     ideaVars
<1>6. ASSUME NEW c \in Clients, NEW i \in Ideas, DecideIdea(c, i) PROVE DraftsKnown'
  <2>1. UNCHANGED draftVars /\ req[c].op = "close"
        /\ req' = [req EXCEPT ![c] = [req[c] EXCEPT !.left = @ \ {i}]]
    BY <1>6 DEF DecideIdea
  <2>2. \A j \in Ideas : ideaStatus'[j] = "APPROVED_FOR_ORDER"
                            => ideaStatus[j] = "APPROVED_FOR_ORDER"
    BY <1>6 DEF DecideIdea, IdeasTyped, IdeasTypeOK
  <2>3. req[c] \in CloseRequests
    BY <1>0, <2>1 DEF DraftRequests, Idle
  <2>4. req'[c] \notin DraftRequests
    BY <2>1, <2>3 DEF IdeasTyped, CloseRequests, DraftRequests
  <2> QED
    BY <2>1, <2>2, <2>4, SameDrafts DEF IdeasTyped
<1>7. ASSUME NEW i \in Ideas, DropDraft(i) PROVE DraftsKnown'
  <2>1. /\ UNCHANGED <<ideaVars, link, req>> /\ dropped' = dropped \cup {i}
        /\ proposal' = [proposal EXCEPT ![i] = 0]
    BY <1>7 DEF DropDraft
  <2>2. proposal \in [Ideas -> 0..MaxProposals]
    BY DEF IdeasTyped, IdeasTypeOK
  <2>3. \A j \in Ideas \ dropped' : DraftOf(j)'
    BY <2>1, <2>2 DEF DraftsKnown, DraftOf, ideaVars
  <2>4. ASSUME NEW d \in Clients, req'[d] \in DraftRequests, req'[d].idea \notin dropped'
        PROVE  Knows(d)'
    BY <2>1, <2>2, <2>4 DEF DraftsKnown, Knows, DraftRequests
  <2> QED
    BY <2>3, <2>4 DEF DraftsKnown
<1>8. ASSUME NEW i \in Ideas,
             (\E to \in Targets : Move(i, to))
                \/ \E propose, enough \in BOOLEAN : CouncilResult(i, propose, enough)
      PROVE  DraftsKnown'
  <2>1. UNCHANGED <<draftVars, req>>
    BY <1>8 DEF Move, CouncilResult
  <2>2. \A j \in Ideas : ideaStatus'[j] = "APPROVED_FOR_ORDER"
                            => ideaStatus[j] = "APPROVED_FOR_ORDER"
    BY <1>8 DEF Move, CouncilResult, Targets, IdeasTyped, IdeasTypeOK
  <2> QED
    BY <2>1, <2>2, SameDrafts
<1> QED
  BY <1>1, <1>2, <1>3, <1>4, <1>5, <1>6, <1>7, <1>8, DraftingKeepsDrafts
  DEF IdeasNext, Continue

----------------------------------------------------------------------------
(* Councils: VerdictFollowsSheets.                                         *)

\* The session is past its preparation: its ideas and members stay.
Settled(s) == meeting[s].at \in {"OPEN", "CLOSED", "PUBLISHED"}
AllSheetsIn(s, i) == Settled(s) /\ meeting[s].members \subseteq Submitted(s, i)

\* Only members of an open session score, and only its ideas.
SheetsOfMembers ==
    \A s \in Meetings, i \in Ideas, m \in Members : sheet[s, i, m] # NoSheet =>
        Settled(s) /\ i \in meeting[s].ideas /\ m \in meeting[s].members
\* What is stored with an idea, and what a closing will store, comes from the
\* sheets, which do not change any more; what it has left is all undecided.
VerdictsFit == \A i \in Ideas, s \in Meetings : verdict[i].by = s =>
    /\ AllSheetsIn(s, i)
    /\ verdict[i].propose <=> Proposes(s, i)
ClosingFits(r) ==
    /\ Settled(r.session)
    /\ r.left \subseteq meeting[r.session].ideas
    /\ \A i \in meeting[r.session].ideas :
          /\ AllSheetsIn(r.session, i)
          /\ i \in r.propose <=> Proposes(r.session, i)
          /\ i \notin r.left => verdict[i].by # None
ClosingsFit == \A c \in Clients : req[c] \in CloseRequests => ClosingFits(req[c])
ClosedDecided ==
    \A s \in Meetings : meeting[s].at \in {"CLOSED", "PUBLISHED"} =>
        \A i \in meeting[s].ideas : verdict[i].by # None
CouncilInv ==
    IdeasTyped /\ SheetsOfMembers /\ VerdictsFit /\ ClosingsFit /\ ClosedDecided

\* The mean of an idea is that of its own sheets.
LEMMA SameSheets ==
  ASSUME NEW s \in Meetings, NEW i \in Ideas,
         \A m \in Members : sheet'[s, i, m] = sheet[s, i, m]
  PROVE  /\ Submitted(s, i)' = Submitted(s, i)
         /\ Proposes(s, i)' <=> Proposes(s, i)
<1>1. Submitted(s, i)' = Submitted(s, i)
  BY DEF Submitted
<1>2. [m \in Submitted(s, i) |-> sheet'[s, i, m].score]
        = [m \in Submitted(s, i) |-> sheet[s, i, m].score]
  BY DEF Submitted
<1> QED
  BY <1>1, <1>2 DEF Proposes

LEMMA InitCouncil == IdeasInit => SheetsOfMembers /\ VerdictsFit /\ ClosingsFit /\ ClosedDecided
<1> SUFFICES ASSUME IdeasInit PROVE SheetsOfMembers /\ VerdictsFit /\ ClosingsFit /\ ClosedDecided
  OBVIOUS
<1>1. SheetsOfMembers
  BY DEF IdeasInit, SheetsOfMembers
<1>2. VerdictsFit
  BY IdeasAssumption DEF IdeasInit, VerdictsFit, NoVerdict
<1>3. ClosingsFit
  BY DEF IdeasInit, ClosingsFit, Idle, CloseRequests
<1>4. ClosedDecided
  BY DEF IdeasInit, ClosedDecided
<1> QED
  BY <1>1, <1>2, <1>3, <1>4

\* A step that leaves meetings and sheets: verdicts only change to fitting ones,
\* and what a closing has left shrinks with them.
LEMMA SameCouncils ==
  ASSUME CouncilInv, UNCHANGED councilVars,
         \A i \in Ideas : \/ verdict'[i] = verdict[i]
                          \/ verdict'[i].by = Manual
                          \/ /\ verdict'[i].by # None
                             /\ \A s \in Meetings : verdict'[i].by = s =>
                                   AllSheetsIn(s, i) /\ (verdict'[i].propose <=> Proposes(s, i)),
         \A c \in Clients : req'[c] \in CloseRequests =>
            \/ req'[c] = req[c]
            \/ /\ Settled(req'[c].session) /\ req'[c].left \subseteq meeting[req'[c].session].ideas
               /\ \A i \in meeting[req'[c].session].ideas :
                     /\ AllSheetsIn(req'[c].session, i)
                     /\ i \in req'[c].propose <=> Proposes(req'[c].session, i)
                     /\ i \notin req'[c].left => verdict'[i].by # None
  PROVE  (SheetsOfMembers /\ VerdictsFit /\ ClosingsFit /\ ClosedDecided)'
<1>1. \A s \in Meetings, i \in Ideas : /\ Submitted(s, i)' = Submitted(s, i)
                                       /\ Proposes(s, i)' <=> Proposes(s, i)
  BY SameSheets DEF councilVars
<1>2. /\ \A s \in Meetings : Settled(s)' <=> Settled(s)
      /\ \A s \in Meetings, i \in Ideas : AllSheetsIn(s, i)' <=> AllSheetsIn(s, i)
  BY <1>1 DEF Settled, AllSheetsIn, councilVars
<1>3. /\ Manual \notin Meetings /\ Manual # None
      /\ \A i \in Ideas : verdict[i].by # None => verdict'[i].by # None
  BY IdeasAssumption
<1>4. SheetsOfMembers'
  BY <1>2 DEF CouncilInv, SheetsOfMembers, councilVars
<1>5. VerdictsFit'
  BY <1>1, <1>2, <1>3 DEF CouncilInv, VerdictsFit
<1>6. ClosingsFit'
  <2> SUFFICES ASSUME NEW c \in Clients, req'[c] \in CloseRequests
               PROVE  ClosingFits(req[c])'
    BY DEF ClosingsFit
  <2>1. req'[c].session \in Meetings
        /\ meeting[req'[c].session].ideas \subseteq Ideas
    BY DEF CloseRequests, CouncilInv, IdeasTyped, IdeasTypeOK
  <2>2. CASE req'[c] = req[c]
    <3>1. ClosingFits(req'[c])
      BY <2>2 DEF CouncilInv, ClosingsFit
    <3> QED
      BY <2>1, <2>2, <3>1, <1>1, <1>2, <1>3 DEF ClosingFits, councilVars
  <2>3. CASE req'[c] # req[c]
    BY <2>1, <2>3, <1>1, <1>2 DEF ClosingFits, councilVars
  <2> QED
    BY <2>2, <2>3
<1>7. ClosedDecided'
  <2>1. \A s \in Meetings : meeting[s].ideas \subseteq Ideas
    BY DEF CouncilInv, IdeasTyped, IdeasTypeOK
  <2> QED
    BY <1>3, <2>1 DEF CouncilInv, ClosedDecided, councilVars
<1> QED
  BY <1>4, <1>5, <1>6, <1>7

\* A session that is prepared is not settled before it opens, and stays so after.
LEMMA PrepareKeepsCouncils ==
  ASSUME CouncilInv, NEW s \in Meetings, Prepare(s)
  PROVE  (SheetsOfMembers /\ VerdictsFit /\ ClosingsFit /\ ClosedDecided)'
<1>1. UNCHANGED <<verdict, sheet, req>>
  BY DEF Prepare, StoreSession, Open, Publish, AddIdea, RemoveIdea, AddMember, RemoveMember,
         ideaVars
<1>2. \E r \in [at : SessionStatus, ideas : SUBSET Ideas, members : SUBSET Members] :
         /\ meeting' = [meeting EXCEPT ![s] = r]
         /\ \/ ~Settled(s) /\ r.at \notin {"CLOSED", "PUBLISHED"}
            \/ /\ meeting[s].at = "CLOSED" /\ r.at = "PUBLISHED"
               /\ r.ideas = meeting[s].ideas /\ r.members = meeting[s].members
  <2> DEFINE old == meeting[s]
             Typed == [at : SessionStatus, ideas : SUBSET Ideas, members : SUBSET Members]
  <2>1. old \in Typed
    BY DEF CouncilInv, IdeasTyped, IdeasTypeOK
  <2>2. CASE StoreSession(s) \/ Open(s)
    <3>1. PICK at \in {"DRAFT", "OPEN"} : meeting' = [meeting EXCEPT ![s] = [old EXCEPT !.at = at]]
      BY <2>2 DEF StoreSession, Open
    <3>2. [old EXCEPT !.at = at] \in Typed /\ [old EXCEPT !.at = at].at = at /\ ~Settled(s)
      BY <2>1, <2>2 DEF StoreSession, Open, InDraft, Settled, SessionStatus
    <3> QED
      BY <3>1, <3>2
  <2>3. CASE Publish(s)
    <3> DEFINE r == [old EXCEPT !.at = "PUBLISHED"]
    <3>1. meeting' = [meeting EXCEPT ![s] = r] /\ old.at = "CLOSED"
      BY <2>3 DEF Publish
    <3>2. r \in Typed /\ r.at = "PUBLISHED" /\ r.ideas = old.ideas /\ r.members = old.members
      BY <2>1 DEF SessionStatus
    <3> QED
      BY <3>1, <3>2
  <2>4. ASSUME NEW S, meeting' = [meeting EXCEPT ![s] = [old EXCEPT !.ideas = S]],
               S \subseteq Ideas, InDraft(s)
        PROVE  \E r \in Typed : /\ meeting' = [meeting EXCEPT ![s] = r]
                                /\ ~Settled(s) /\ r.at \notin {"CLOSED", "PUBLISHED"}
    <3>1. [old EXCEPT !.ideas = S] \in Typed /\ [old EXCEPT !.ideas = S].at = old.at
      BY <2>1, <2>4
    <3>2. old.at = "DRAFT" /\ ~Settled(s)
      BY <2>4 DEF InDraft, Settled
    <3> QED
      BY <2>4, <3>1, <3>2
  <2>5. ASSUME NEW S, meeting' = [meeting EXCEPT ![s] = [old EXCEPT !.members = S]],
               S \subseteq Members, InDraft(s)
        PROVE  \E r \in Typed : /\ meeting' = [meeting EXCEPT ![s] = r]
                                /\ ~Settled(s) /\ r.at \notin {"CLOSED", "PUBLISHED"}
    <3>1. [old EXCEPT !.members = S] \in Typed /\ [old EXCEPT !.members = S].at = old.at
      BY <2>1, <2>5
    <3>2. old.at = "DRAFT" /\ ~Settled(s)
      BY <2>5 DEF InDraft, Settled
    <3> QED
      BY <2>5, <3>1, <3>2
  <2>6. ASSUME NEW i \in Ideas, AddIdea(s, i) \/ RemoveIdea(s, i)
        PROVE  \E S : /\ meeting' = [meeting EXCEPT ![s] = [old EXCEPT !.ideas = S]]
                      /\ S \subseteq Ideas /\ InDraft(s)
    <3>1. old.ideas \cup {i} \subseteq Ideas /\ old.ideas \ {i} \subseteq Ideas
      BY <2>1
    <3> QED
      BY <2>6, <3>1 DEF AddIdea, RemoveIdea
  <2>7. ASSUME NEW m \in Members, AddMember(s, m) \/ RemoveMember(s, m)
        PROVE  \E S : /\ meeting' = [meeting EXCEPT ![s] = [old EXCEPT !.members = S]]
                      /\ S \subseteq Members /\ InDraft(s)
    <3>1. old.members \cup {m} \subseteq Members /\ old.members \ {m} \subseteq Members
      BY <2>1
    <3> QED
      BY <2>7, <3>1 DEF AddMember, RemoveMember
  <2> HIDE DEF old, Typed
  <2>8. ASSUME NEW i \in Ideas, AddIdea(s, i) \/ RemoveIdea(s, i)
        PROVE  \E r \in Typed : /\ meeting' = [meeting EXCEPT ![s] = r]
                                /\ ~Settled(s) /\ r.at \notin {"CLOSED", "PUBLISHED"}
    BY <2>4, <2>6, <2>8
  <2>9. ASSUME NEW m \in Members, AddMember(s, m) \/ RemoveMember(s, m)
        PROVE  \E r \in Typed : /\ meeting' = [meeting EXCEPT ![s] = r]
                                /\ ~Settled(s) /\ r.at \notin {"CLOSED", "PUBLISHED"}
    BY <2>5, <2>7, <2>9
  <2> QED
    BY <2>2, <2>3, <2>8, <2>9 DEF Prepare, Typed
<1>3. /\ \A t \in Meetings : Settled(t) =>
             Settled(t)' /\ meeting'[t].ideas = meeting[t].ideas
               /\ meeting'[t].members = meeting[t].members
      /\ \A t \in Meetings : meeting'[t].at \in {"CLOSED", "PUBLISHED"} =>
             meeting[t].at \in {"CLOSED", "PUBLISHED"}
  BY <1>2 DEF Settled, CouncilInv, IdeasTyped, IdeasTypeOK
<1>4. \A t \in Meetings, i \in Ideas : /\ Submitted(t, i)' = Submitted(t, i)
                                       /\ Proposes(t, i)' <=> Proposes(t, i)
  BY <1>1, SameSheets
<1>5. \A t \in Meetings, i \in Ideas : AllSheetsIn(t, i) => AllSheetsIn(t, i)'
  BY <1>3, <1>4 DEF AllSheetsIn
<1>6. SheetsOfMembers'
  BY <1>1, <1>3 DEF CouncilInv, SheetsOfMembers
<1>7. VerdictsFit'
  BY <1>1, <1>4, <1>5 DEF CouncilInv, VerdictsFit
<1>8. ClosingsFit'
  <2> SUFFICES ASSUME NEW c \in Clients, req[c] \in CloseRequests
               PROVE  ClosingFits(req[c])'
    BY <1>1 DEF ClosingsFit
  <2>1. ClosingFits(req[c]) /\ req[c].session \in Meetings
    BY DEF CouncilInv, ClosingsFit, CloseRequests
  <2>2. meeting'[req[c].session].ideas = meeting[req[c].session].ideas
        /\ meeting[req[c].session].ideas \subseteq Ideas
    BY <1>3, <2>1 DEF ClosingFits, CouncilInv, IdeasTyped, IdeasTypeOK
  <2> QED
    BY <1>1, <1>3, <1>4, <1>5, <2>1, <2>2 DEF ClosingFits
<1>9. ClosedDecided'
  BY <1>1, <1>3 DEF CouncilInv, ClosedDecided, Settled
<1> QED
  BY <1>6, <1>7, <1>8, <1>9

\* A sheet that can still change is missing to its idea.
LEMMA ScoreKeepsCouncils ==
  ASSUME CouncilInv, NEW s \in Meetings, NEW i \in Ideas, NEW m \in Members, Score(s, i, m)
  PROVE  (SheetsOfMembers /\ VerdictsFit /\ ClosingsFit /\ ClosedDecided)'
<1>1. /\ UNCHANGED <<verdict, meeting, req>> /\ meeting[s].at = "OPEN"
      /\ ~sheet[s, i, m].submitted
  BY DEF Score, SubmitScore, SaveScore, ideaVars
<1>2. \E x \in Sheets : sheet' = [sheet EXCEPT ![<<s, i, m>>] = x]
  <2>1. sheet[s, i, m] \in Sheets
    BY DEF CouncilInv, IdeasTyped, IdeasTypeOK
  <2>2. CASE SubmitScore(s, i, m)
    BY <2>1, <2>2 DEF SubmitScore, Sheets
  <2>3. ASSUME NEW score \in Scores, SaveScore(s, i, m, score)
        PROVE  \E x \in Sheets : sheet' = [sheet EXCEPT ![<<s, i, m>>] = x]
    BY <2>1, <2>3 DEF SaveScore, Sheets
  <2> QED
    BY <2>2, <2>3 DEF Score
<1>3. i \in meeting[s].ideas /\ m \in meeting[s].members
  <2>1. CASE SubmitScore(s, i, m)
    <3>1. sheet[s, i, m] # NoSheet
      <4>1. sheet[s, i, m].score # None
        BY <2>1, Zenon DEF SubmitScore
      <4>2. NoSheet.score = None
        BY DEF NoSheet
      <4> QED
        BY <4>1, <4>2, Zenon
    <3>2. SheetsOfMembers
      BY DEF CouncilInv
    <3> QED
      BY <3>1, <3>2, Zenon DEF SheetsOfMembers
  <2>2. CASE \E score \in Scores : SaveScore(s, i, m, score)
    BY <2>2 DEF SaveScore
  <2> QED
    BY <2>1, <2>2 DEF Score
<1>4. sheet \in [Meetings \X Ideas \X Members -> Sheets]
  BY DEF CouncilInv, IdeasTyped, IdeasTypeOK
<1>5. ~AllSheetsIn(s, i)
  BY <1>1, <1>3 DEF AllSheetsIn, Submitted
<1>6. ASSUME NEW t \in Meetings, NEW j \in Ideas, AllSheetsIn(t, j)
      PROVE  AllSheetsIn(t, j)' /\ (Proposes(t, j)' <=> Proposes(t, j))
  <2>1. \A k \in Members : sheet'[t, j, k] = sheet[t, j, k]
    BY <1>2, <1>4, <1>5, <1>6
  <2> QED
    BY <1>1, <1>6, <2>1, SameSheets DEF AllSheetsIn, Settled
<1>7. SheetsOfMembers'
  <2> SUFFICES ASSUME NEW t \in Meetings, NEW j \in Ideas, NEW k \in Members,
                      sheet'[t, j, k] # NoSheet
               PROVE  Settled(t) /\ j \in meeting[t].ideas /\ k \in meeting[t].members
    BY <1>1 DEF SheetsOfMembers, Settled
  <2>1. CASE t = s /\ j = i /\ k = m
    BY <1>1, <1>3, <2>1 DEF Settled
  <2>2. CASE ~(t = s /\ j = i /\ k = m)
    <3>1. sheet'[t, j, k] = sheet[t, j, k]
      BY <1>2, <1>4, <2>2
    <3> QED
      BY <3>1 DEF CouncilInv, SheetsOfMembers
  <2> QED
    BY <2>1, <2>2
<1>8. VerdictsFit'
  BY <1>1, <1>6 DEF CouncilInv, VerdictsFit
<1>9. ClosingsFit'
  <2> SUFFICES ASSUME NEW c \in Clients, req[c] \in CloseRequests
               PROVE  ClosingFits(req[c])'
    BY <1>1 DEF ClosingsFit
  <2>1. ClosingFits(req[c]) /\ req[c].session \in Meetings
        /\ meeting[req[c].session].ideas \subseteq Ideas
    BY DEF CouncilInv, ClosingsFit, CloseRequests, IdeasTyped, IdeasTypeOK
  <2> QED
    BY <1>1, <1>6, <2>1 DEF ClosingFits, Settled
<1>10. ClosedDecided'
  BY <1>1 DEF CouncilInv, ClosedDecided
<1> QED
  BY <1>7, <1>8, <1>9, <1>10

\* A closing reads sheets that are all in, and stores what it has read.
LEMMA ClosingKeepsCouncils ==
  ASSUME CouncilInv, NEW c \in Clients,
         (\E s \in Meetings : StartClose(c, s)) \/ EndClose(c) \/ \E i \in Ideas : DecideIdea(c, i)
  PROVE  (SheetsOfMembers /\ VerdictsFit /\ ClosingsFit /\ ClosedDecided)'
<1>0. /\ req \in [Clients -> {Idle} \cup DraftRequests \cup CloseRequests]
      /\ meeting \in [Meetings -> [at : SessionStatus, ideas : SUBSET Ideas,
                                    members : SUBSET Members]]
      /\ verdict \in [Ideas -> [by : Meetings \cup {None, Manual}, propose : BOOLEAN]]
      /\ None \notin Meetings
  BY IdeasAssumption DEF CouncilInv, IdeasTyped, IdeasTypeOK
<1>1. ASSUME NEW s \in Meetings, StartClose(c, s)
      PROVE  (SheetsOfMembers /\ VerdictsFit /\ ClosingsFit /\ ClosedDecided)'
  <2> DEFINE r == [op |-> "close", at |-> "ideas", session |-> s, left |-> meeting[s].ideas,
                   propose |-> {i \in meeting[s].ideas : Proposes(s, i)}]
  <2>1. UNCHANGED <<verdict, councilVars>> /\ req' = [req EXCEPT ![c] = r]
    BY <1>1 DEF StartClose, Begin, ideaVars
  <2>2. /\ r.session = s /\ r.left = meeting[s].ideas
        /\ r.propose = {i \in meeting[s].ideas : Proposes(s, i)}
    OBVIOUS
  <2>3. /\ Settled(s)
        /\ \A i \in meeting[s].ideas : AllSheetsIn(s, i)
    BY <1>1 DEF StartClose, Settled, AllSheetsIn
  <2> HIDE DEF r
  <2>4. \A d \in Clients : req'[d] = req[d] \/ req'[d] = r
    BY <1>0, <2>1
  <2>5. /\ Settled(r.session) /\ r.left \subseteq meeting[r.session].ideas
        /\ \A i \in meeting[r.session].ideas :
              /\ AllSheetsIn(r.session, i)
              /\ i \in r.propose <=> Proposes(r.session, i)
              /\ i \notin r.left => verdict'[i].by # None
    BY <2>2, <2>3
  <2> QED
    BY <2>1, <2>4, <2>5, SameCouncils
<1>2. ASSUME NEW i \in Ideas, DecideIdea(c, i)
      PROVE  (SheetsOfMembers /\ VerdictsFit /\ ClosingsFit /\ ClosedDecided)'
  <2> DEFINE s == req[c].session
             r == [req[c] EXCEPT !.left = @ \ {i}]
             v == [by |-> s, propose |-> i \in req[c].propose]
  <2>1. /\ UNCHANGED councilVars /\ req' = [req EXCEPT ![c] = r]
        /\ verdict' = [verdict EXCEPT ![i] = v]
        /\ req[c].op = "close" /\ i \in req[c].left
    BY <1>2 DEF DecideIdea
  <2>2. req[c] \in CloseRequests
    BY <1>0, <2>1 DEF DraftRequests, Idle
  <2>3. ClosingFits(req[c])
    BY <2>2 DEF CouncilInv, ClosingsFit
  <2>4. s \in Meetings /\ r.session = s /\ r.left = req[c].left \ {i}
        /\ r.propose = req[c].propose
    BY <2>2 DEF CloseRequests
  <2>5. v.by = s /\ (v.propose <=> Proposes(s, i)) /\ AllSheetsIn(s, i)
    BY <2>1, <2>3 DEF ClosingFits
  <2>6. /\ Settled(s) /\ r.left \subseteq meeting[s].ideas /\ meeting[s].ideas \subseteq Ideas
        /\ \A j \in meeting[s].ideas :
              /\ AllSheetsIn(s, j)
              /\ j \in r.propose <=> Proposes(s, j)
              /\ j \notin r.left => j = i \/ verdict[j].by # None
    BY <1>0, <2>3, <2>4 DEF ClosingFits
  <2> HIDE DEF s, r, v
  <2>7. \A j \in Ideas : verdict'[j] = IF j = i THEN v ELSE verdict[j]
    BY <1>0, <2>1
  <2>8. \A j \in meeting[s].ideas : j \notin r.left => verdict'[j].by # None
    BY <1>0, <2>4, <2>5, <2>6, <2>7
  <2>9. \A d \in Clients : req'[d] = req[d] \/ req'[d] = r
    BY <1>0, <2>1
  <2>10. /\ Settled(r.session) /\ r.left \subseteq meeting[r.session].ideas
         /\ \A j \in meeting[r.session].ideas :
               /\ AllSheetsIn(r.session, j)
               /\ j \in r.propose <=> Proposes(r.session, j)
               /\ j \notin r.left => verdict'[j].by # None
    BY <2>4, <2>6, <2>8
  <2>11. \A j \in Ideas : \/ verdict'[j] = verdict[j]
                          \/ /\ verdict'[j].by # None
                             /\ \A t \in Meetings : verdict'[j].by = t =>
                                   AllSheetsIn(t, j) /\ (verdict'[j].propose <=> Proposes(t, j))
    BY <1>0, <2>4, <2>5, <2>7
  <2> QED
    BY <2>1, <2>9, <2>10, <2>11, SameCouncils
<1>3. CASE EndClose(c)
  <2> DEFINE s == req[c].session
  <2>1. /\ UNCHANGED <<verdict, sheet>> /\ req[c].op = "close" /\ req[c].left = {}
        /\ meeting' = [meeting EXCEPT ![s].at = "CLOSED"] /\ req' = [req EXCEPT ![c] = Idle]
    BY <1>3 DEF EndClose, Finish, ideaVars
  <2>2. req[c] \in CloseRequests
    BY <1>0, <2>1 DEF DraftRequests, Idle
  <2>3. ClosingFits(req[c]) /\ s \in Meetings
    BY <2>2 DEF CouncilInv, ClosingsFit, CloseRequests
  <2>4. Settled(s) /\ \A j \in meeting[s].ideas : verdict[j].by # None
    BY <2>1, <2>3 DEF ClosingFits
  <2> HIDE DEF s
  <2>5. \A t \in Meetings : /\ meeting'[t].ideas = meeting[t].ideas
                            /\ meeting'[t].members = meeting[t].members
                            /\ Settled(t)' <=> Settled(t)
                            /\ meeting'[t].at = IF t = s THEN "CLOSED" ELSE meeting[t].at
    BY <1>0, <2>1, <2>3, <2>4 DEF Settled
  <2>6. \A t \in Meetings, j \in Ideas : /\ Submitted(t, j)' = Submitted(t, j)
                                         /\ Proposes(t, j)' <=> Proposes(t, j)
    BY <2>1, SameSheets
  <2>7. \A t \in Meetings, j \in Ideas : AllSheetsIn(t, j)' <=> AllSheetsIn(t, j)
    BY <2>5, <2>6 DEF AllSheetsIn
  <2>8. SheetsOfMembers'
    BY <2>1, <2>5 DEF CouncilInv, SheetsOfMembers
  <2>9. VerdictsFit'
    BY <2>1, <2>6, <2>7 DEF CouncilInv, VerdictsFit
  <2>10. ClosingsFit'
    <3> SUFFICES ASSUME NEW d \in Clients, req'[d] \in CloseRequests
                 PROVE  ClosingFits(req[d])'
      BY DEF ClosingsFit
    <3>1. req'[d] = req[d]
      BY <1>0, <2>1 DEF CloseRequests, Idle
    <3>2. ClosingFits(req[d]) /\ req[d].session \in Meetings
          /\ meeting[req[d].session].ideas \subseteq Ideas
      BY <1>0, <3>1 DEF CouncilInv, ClosingsFit, CloseRequests
    <3> QED
      BY <2>1, <2>5, <2>6, <2>7, <3>1, <3>2 DEF ClosingFits
  <2>11. ClosedDecided'
    BY <2>1, <2>4, <2>5 DEF CouncilInv, ClosedDecided
  <2> QED
    BY <2>8, <2>9, <2>10, <2>11
<1> QED
  BY <1>1, <1>2, <1>3

\* Every other step leaves the sessions and their sheets alone.
LEMMA StepKeepsCouncils ==
    CouncilInv /\ [IdeasNext]_allVars
        => (SheetsOfMembers /\ VerdictsFit /\ ClosingsFit /\ ClosedDecided)'
<1> SUFFICES ASSUME CouncilInv, [IdeasNext]_allVars
             PROVE  (SheetsOfMembers /\ VerdictsFit /\ ClosingsFit /\ ClosedDecided)'
  OBVIOUS
<1>0. IdeasTyped /\ req \in [Clients -> {Idle} \cup DraftRequests \cup CloseRequests]
  BY DEF CouncilInv, IdeasTyped
<1>1. CASE UNCHANGED allVars
  BY <1>1, SameCouncils DEF allVars, ideaVars
<1>2. ASSUME NEW i \in Ideas,
             \/ DropDraft(i)
             \/ \E to \in Targets : Move(i, to)
      PROVE  (SheetsOfMembers /\ VerdictsFit /\ ClosingsFit /\ ClosedDecided)'
  BY <1>2, SameCouncils DEF DropDraft, Move, ideaVars
<1>3. ASSUME NEW i \in Ideas, NEW propose \in BOOLEAN, NEW enough \in BOOLEAN,
             CouncilResult(i, propose, enough)
      PROVE  (SheetsOfMembers /\ VerdictsFit /\ ClosingsFit /\ ClosedDecided)'
  <2>1. /\ UNCHANGED <<councilVars, req>>
        /\ verdict' = [verdict EXCEPT ![i] = [by |-> Manual, propose |-> propose]]
    BY <1>3 DEF CouncilResult
  <2>2. \A j \in Ideas : verdict'[j] = verdict[j] \/ verdict'[j].by = Manual
    BY <1>0, <2>1 DEF IdeasTyped, IdeasTypeOK
  <2> QED
    BY <2>1, <2>2, SameCouncils
<1>4. ASSUME NEW c \in Clients, NEW i \in Ideas, StartApprove(c, i) \/ StartDraft(c, i)
      PROVE  (SheetsOfMembers /\ VerdictsFit /\ ClosingsFit /\ ClosedDecided)'
  <2>1. /\ UNCHANGED <<verdict, councilVars>>
        /\ \E r \in [op : {"approve", "draft"}, at : {"find"}, idea : {i}, link : {link[i]}] :
              req' = [req EXCEPT ![c] = r]
    BY <1>4 DEF StartApprove, StartDraft, Begin, ideaVars
  <2>2. \A d \in Clients : req'[d] \in CloseRequests => req'[d] = req[d]
    BY <1>0, <2>1 DEF CloseRequests
  <2> QED
    BY <2>1, <2>2, SameCouncils
<1>5. ASSUME NEW c \in Clients,
             \/ FindDraft(c) \/ CreateDraft(c) \/ LinkDraft(c) \/ WriteApproval(c)
             \/ CrashSaving(c)
      PROVE  (SheetsOfMembers /\ VerdictsFit /\ ClosingsFit /\ ClosedDecided)'
  <2>1. UNCHANGED <<verdict, councilVars>>
    BY <1>5 DEF FindDraft, CreateDraft, LinkDraft, WriteApproval, CrashSaving, ideaVars
  <2>2. \E r \in {Idle} \cup DraftRequests : req' = [req EXCEPT ![c] = r]
    BY <1>0, <1>5, DraftSteps DEF CrashSaving, Finish
  <2>3. \A d \in Clients : req'[d] \in CloseRequests => req'[d] = req[d]
    BY <1>0, <2>2 DEF CloseRequests, DraftRequests, Idle
  <2> QED
    BY <2>1, <2>3, SameCouncils
<1> QED
  BY <1>1, <1>2, <1>3, <1>4, <1>5, PrepareKeepsCouncils, ScoreKeepsCouncils,
     ClosingKeepsCouncils DEF IdeasNext, Ask, Continue

LEMMA StepKeepsIdeasTyped == IdeasTyped /\ [IdeasNext]_allVars => IdeasTyped'
<1> SUFFICES ASSUME IdeasTyped, [IdeasNext]_allVars PROVE IdeasTyped'
  OBVIOUS
<1>1. CASE UNCHANGED allVars
  BY <1>1 DEF allVars, ideaVars, draftVars, councilVars, IdeasTyped, IdeasTypeOK
<1> QED
  BY <1>1, IdeaMovesTyped, PrepareTyped, ScoreTyped, DraftTyped, AskTyped, CloseTyped
  DEF IdeasNext, Continue

\* Every variable has its type, and every request what it has read.
THEOREM IdeasTypeCorrect == IdeasSpec => []IdeasTypeOK
<1>1. IdeasInit => IdeasTyped
  BY InitDraftsKnown
<1>2. IdeasTyped => IdeasTypeOK
  BY DEF IdeasTyped
<1> QED
  BY <1>1, <1>2, StepKeepsIdeasTyped, PTL DEF IdeasSpec

\* An approved idea has its draft proposal and names it, however the requests
\* that make it, find it and link it interleave or stop.
THEOREM OrdersHaveProposals == IdeasSpec => []OrderHasProposal
<1>1. DraftsKnown => OrderHasProposal
  BY DEF DraftsKnown, DraftOf, OrderHasProposal
<1> QED
  BY <1>1, InitDraftsKnown, StepKeepsIdeasTyped, StepKeepsDrafts, PTL DEF IdeasSpec

\* What a closing has stored follows from a sheet of every member, and a closed
\* session has left nothing undecided, also when closings overlap or stop.
THEOREM VerdictsFollowSheets == IdeasSpec => []VerdictFollowsSheets
<1>1. IdeasInit => CouncilInv
  BY InitDraftsKnown, InitCouncil DEF CouncilInv
<1>2. CouncilInv /\ [IdeasNext]_allVars => CouncilInv'
  BY StepKeepsIdeasTyped, StepKeepsCouncils DEF CouncilInv
<1>3. CouncilInv => VerdictFollowsSheets
  <2> SUFFICES ASSUME CouncilInv PROVE VerdictFollowsSheets
    OBVIOUS
  <2>1. ASSUME NEW i \in Ideas, NEW s \in Meetings, verdict[i].by = s
        PROVE  /\ meeting[s].members \subseteq Submitted(s, i)
               /\ verdict[i].propose = Proposes(s, i)
    <3>1. AllSheetsIn(s, i) /\ (verdict[i].propose <=> Proposes(s, i))
      BY <2>1 DEF CouncilInv, VerdictsFit
    <3>2. verdict[i].propose \in BOOLEAN
      BY DEF CouncilInv, IdeasTyped, IdeasTypeOK
    <3>3. Proposes(s, i) \in BOOLEAN
      BY DEF Proposes
    <3> QED
      BY <3>1, <3>2, <3>3, Zenon DEF AllSheetsIn
  <2> QED
    BY <2>1 DEF CouncilInv, ClosedDecided, VerdictFollowsSheets
<1> QED
  BY <1>1, <1>2, <1>3, PTL DEF IdeasSpec

----------------------------------------------------------------------------
(* Selection of proposals.                                                 *)

InSession(c) ==
    /\ session[c].at = "none" => session[c].items = {} /\ ~session[c].locked
    /\ \A p \in session[c].items : status[p] \in Decided \cup {"HOP_LE"}
    /\ session[c].at = "PENDING_BGH" =>
            \A p \in session[c].items : session[c].result[p] \in Votes
    /\ session[c].at = "LOCKED" => session[c].locked
    /\ session[c].locked => \A p \in session[c].items : status[p] \in Decided

InApproval(r) ==
    LET a == approval[r] IN
    /\ a.of = NoCall => a.todo = NoVotes /\ a.mail = NoVotes
    /\ a.of # NoCall =>
          /\ session[a.of].at # "none"
          /\ \A p \in session[a.of].items : a.todo[p] = "none" => status[p] \in Decided
    /\ \A p, q \in Proposals : a.mail[p] # "none" /\ a.mail[q] # "none" => p = q

\* What an approval has left to decide is undecided still, or decided as it
\* will decide it, and whom it is to mail has the result it will send: but for
\* ADMIN's corrections and the races of contrary votes.
Fresh(r) ==
    \A p \in Proposals \ (edited \cup raced) :
        /\ approval[r].todo[p] # "none" =>
              status[p] \in {"HOP_LE", RESULT_TO_STATUS[approval[r].todo[p]]}
        /\ approval[r].mail[p] # "none" =>
              status[p] = RESULT_TO_STATUS[approval[r].mail[p]]

IInv ==
    /\ TypeOK
    /\ \A c \in Calls : InSession(c)
    /\ \A r \in Requests : InApproval(r) /\ Fresh(r)
    /\ ToldStands
    /\ DecisionsAreTold

LEMMA InvGives ==
    ASSUME IInv
    PROVE  LockedIsComplete /\ ToldStands /\ DecisionsAreTold
  BY DEF IInv, InSession, LockedIsComplete

\* Selection starts with nothing read, decided or told, so nothing can be stale.
THEOREM InitInv ==
    Init => IInv
  <1> SUFFICES ASSUME Init PROVE IInv
    OBVIOUS
  <1> USE DEF Init, NoVotes, NoApproval
  <1>1. TypeOK
    <2>1. session \in [Calls -> Sessions] /\ approval \in [Requests -> Approvals]
      BY DEF Sessions, Steps, Results, Approvals
    <2>2. stage \in [Calls -> {"DRAFT", "OPEN"}]
      OBVIOUS
    <2> QED
      BY <2>1, <2>2 DEF TypeOK, Statuses
  <1>2. ASSUME NEW c \in Calls
        PROVE  InSession(c)
    BY DEF InSession
  <1>3. ASSUME NEW r \in Requests
        PROVE  InApproval(r) /\ Fresh(r)
    BY DEF InApproval, Fresh
  <1>4. ToldStands /\ DecisionsAreTold
    BY DEF ToldStands, DecisionsAreTold, Decided
  <1> QED
    BY <1>1, <1>2, <1>3, <1>4 DEF IInv

LEMMA ResultIsDecided ==
    \A v \in Votes : RESULT_TO_STATUS[v] \in Decided
  BY DEF RESULT_TO_STATUS, Votes, Decided

----------------------------------------------------------------------------
(* Types.                                                                  *)

LEMMA IntakeTypes ==
    ASSUME TypeOK, NEW p \in Proposals, Propose(p) \/ Check(p)
    PROVE  TypeOK'
  <1>1. UNCHANGED council
    BY DEF Propose, Check, Store, Update, Submit, Attach, Destroy, Withdraw,
           Detach, ResubmitToPkh, UnitReview, MarkValid, RequestSupplement,
           RejectByPkh
  <1>2. UNCHANGED stage
    BY DEF Propose, Check, Store, Update, Submit, Attach, Destroy, Withdraw,
           Detach, ResubmitToPkh, UnitReview, MarkValid, RequestSupplement,
           RejectByPkh, intake
  <1>3. status' = status \/ \E s \in Statuses : status' = [status EXCEPT ![p] = s]
    BY DEF Propose, Check, Store, Update, Submit, Attach, Destroy, Withdraw,
           Detach, ResubmitToPkh, UnitReview, MarkValid, RequestSupplement,
           RejectByPkh, SetStatus, Statuses, Editable
  <1>4. \/ call' = call
        \/ \E c \in Calls \cup {NoCall} : call' = [call EXCEPT ![p] = c]
    <2>1. Fits[p] \subseteq Calls
      BY SelectionAssumption
    <2> QED
      BY <2>1 DEF Propose, Check, Store, Update, Submit, Attach, Destroy, Withdraw,
           Detach, ResubmitToPkh, UnitReview, MarkValid, RequestSupplement,
           RejectByPkh, intake
  <1> QED
    BY <1>1, <1>2, <1>3, <1>4 DEF TypeOK, council

LEMMA SessionTypes ==
    ASSUME TypeOK, NEW c \in Calls, Council(c) \/ BghReject(c)
    PROVE  TypeOK'
  <1>1. session' \in [Calls -> Sessions]
    <2> USE DEF TypeOK, Sessions, Steps
    <2>1. CASE CreateSession(c)
      <3> DEFINE valid == {p \in Proposals : call[p] = c /\ status[p] = "HOP_LE"}
                 s == [session[c] EXCEPT !.at = "CREATED", !.items = valid]
      <3>1. s \in Sessions
        OBVIOUS
      <3> QED
        BY <2>1, <3>1 DEF CreateSession
    <2>2. CASE UpdateMeta(c)
      BY <2>2 DEF UpdateMeta
    <2>3. CASE SaveMinutes(c)
      <3>1. [session[c] EXCEPT !.at = "MINUTES_SAVED", !.minutes = TRUE] \in Sessions
        OBVIOUS
      <3> QED
        BY <2>3, <3>1 DEF SaveMinutes
    <2>4. CASE SubmitBgh(c)
      BY <2>4 DEF SubmitBgh
    <2>5. CASE BghReject(c)
      BY <2>5 DEF BghReject
    <2>6. ASSUME NEW p \in Proposals, NEW vote \in Votes, NEW last \in BOOLEAN,
                 EnterResult(c, p, vote, last)
          PROVE  session' \in [Calls -> Sessions]
      <3> DEFINE s == [session[c] EXCEPT
                        !.result[p] = vote,
                        !.at = IF last /\ @ = "CREATED" THEN "OPEN" ELSE @]
      <3>1. session[c] \in Sessions /\ session[c].result \in Results
        OBVIOUS
      <3>2. [session[c].result EXCEPT ![p] = vote] \in Results
        BY <3>1 DEF Results
      <3>3. s \in Sessions
        BY <3>1, <3>2
      <3>4. session' = [session EXCEPT ![c] = s]
        BY <2>6 DEF EnterResult
      <3> QED
        BY <3>3, <3>4
    <2>7. ASSUME NEW p \in Proposals, NEW vote \in Votes, AdminEdit(c, p, vote)
          PROVE  session' \in [Calls -> Sessions]
      <3> DEFINE s == [session[c] EXCEPT !.result[p] = vote]
      <3>1. session[c] \in Sessions /\ session[c].result \in Results
        OBVIOUS
      <3>2. [session[c].result EXCEPT ![p] = vote] \in Results
        BY <3>1 DEF Results
      <3>3. s \in Sessions
        BY <3>1, <3>2
      <3>4. session' = [session EXCEPT ![c] = s]
        BY <2>7 DEF AdminEdit
      <3> QED
        BY <3>3, <3>4
    <2> QED
      BY <2>1, <2>2, <2>3, <2>4, <2>5, <2>6, <2>7 DEF Council
  <1>2. ASSUME NEW p \in Proposals, NEW vote \in Votes, AdminEdit(c, p, vote)
        PROVE  TypeOK'
    <2>1. RESULT_TO_STATUS[vote] \in Statuses
      BY ResultIsDecided DEF Statuses
    <2> QED
      BY <1>1, <1>2, <2>1 DEF AdminEdit, TypeOK, intake
  <1>3. CASE UNCHANGED besides
    BY <1>1, <1>3 DEF besides, intake, TypeOK
  <1> QED
    BY <1>2, <1>3 DEF Council, BghReject, CreateSession, UpdateMeta, SaveMinutes,
           SubmitBgh, EnterResult

LEMMA ApprovalTypes ==
    ASSUME TypeOK, NEW r \in Requests, Approve(r) \/ Crash(r)
    PROVE  TypeOK'
  <1> DEFINE a == approval[r]
  <1> USE DEF TypeOK, intake
  <1>0. a \in Approvals /\ NoApproval \in Approvals
    BY DEF Approvals, NoApproval, NoVotes, Results
  <1>1. ASSUME NEW c \in Calls, StartApproval(r, c)
        PROVE  TypeOK'
    <2>1. session[c].result \in Results
      BY DEF Sessions
    <2>2. approval' \in [Requests -> Approvals]
      BY <1>1, <2>1 DEF StartApproval, Approvals, Results, NoVotes
    <2> QED
      BY <1>1, <2>2 DEF StartApproval
  <1>2. CASE Lock(r)
    <2>1. session' \in [Calls -> Sessions]
      <3>1. /\ a.of \in Calls
            /\ session' = [session EXCEPT
                ![a.of] = [session[a.of] EXCEPT !.at = "LOCKED", !.locked = TRUE]]
        BY <1>0, <1>2 DEF Lock, Approvals
      <3>2. session \in [Calls -> Sessions]
        OBVIOUS
      <3>3. [session[a.of] EXCEPT !.at = "LOCKED", !.locked = TRUE] \in Sessions
        BY <3>1, <3>2 DEF Sessions, Steps
      <3> QED
        BY <3>1, <3>2, <3>3
    <2>2. approval' \in [Requests -> Approvals]
      BY <1>0, <1>2 DEF Lock
    <2> QED
      BY <1>2, <2>1, <2>2 DEF Lock
  <1>3. CASE Crash(r)
    <2>1. approval' \in [Requests -> Approvals]
      BY <1>0, <1>3 DEF Crash
    <2> QED
      BY <1>3, <2>1 DEF Crash
  <1>4. ASSUME NEW p \in Proposals, DecideNext(r, p)
        PROVE  TypeOK'
    <2>1. a.todo[p] \in Votes /\ a.todo \in Results /\ a.mail \in Results
      BY <1>0, <1>4 DEF DecideNext, Approvals, Results
    <2>2. [a EXCEPT !.todo[p] = "none", !.mail[p] = a.todo[p]] \in Approvals
      BY <1>0, <2>1 DEF Approvals, Results
    <2>3. approval' \in [Requests -> Approvals]
      BY <1>4, <2>2 DEF DecideNext
    <2>4. raced' \subseteq Proposals
      BY <1>4 DEF DecideNext
    <2> QED
      BY <1>4, <2>1, <2>3, <2>4, ResultIsDecided DEF DecideNext, Statuses
  <1>5. ASSUME NEW p \in Proposals, MailResult(r, p)
        PROVE  TypeOK'
    <2>1. a.mail[p] \in Votes
      BY <1>0, <1>5 DEF MailResult, Approvals, Results
    <2>2. approval' \in [Requests -> Approvals]
      BY <1>0, <1>5 DEF MailResult, Approvals, NoVotes, Results
    <2> QED
      BY <1>5, <2>1, <2>2, ResultIsDecided DEF MailResult
  <1> QED
    BY <1>1, <1>2, <1>3, <1>4, <1>5 DEF Approve

----------------------------------------------------------------------------
(* The owner, the unit and PKH never touch a valid or decided proposal.    *)

LEMMA IntakeKeeps ==
    ASSUME IInv, NEW p \in Proposals, Propose(p) \/ Check(p)
    PROVE  IInv'
  <1>1. TypeOK'
    BY IntakeTypes DEF IInv
  <1>2. UNCHANGED <<session, approval, told, lost, edited, raced>>
    BY DEF Propose, Check, Store, Update, Submit, Attach, Destroy, Withdraw,
           Detach, ResubmitToPkh, UnitReview, MarkValid, RequestSupplement,
           RejectByPkh, council
  <1>3. /\ \A q \in Proposals : status[q] \in Decided \cup {"HOP_LE"} =>
                status'[q] = status[q]
        /\ \A q \in Proposals : status'[q] \in Decided => status'[q] = status[q]
    <2>1. \/ UNCHANGED status
          \/ /\ status[p] \notin Decided \cup {"HOP_LE"}
             /\ \E s : s \notin Decided /\ status' = [status EXCEPT ![p] = s]
      BY DEF Propose, Check, Store, Update, Submit, Attach, Destroy, Withdraw,
             Detach, ResubmitToPkh, UnitReview, MarkValid, RequestSupplement,
             RejectByPkh, SetStatus, Editable, Decided
    <2> QED
      BY <2>1 DEF IInv, TypeOK
  <1>4. ASSUME NEW c \in Calls
        PROVE  InSession(c)'
    <2>1. InSession(c) /\ session[c].items \subseteq Proposals
      BY DEF IInv, TypeOK, Sessions
    <2> QED
      BY <1>2, <1>3, <2>1 DEF InSession
  <1>5. ASSUME NEW r \in Requests
        PROVE  InApproval(r)' /\ Fresh(r)'
    <2>1. /\ InApproval(r) /\ Fresh(r) /\ approval[r] \in Approvals
          /\ \A c \in Calls : session[c].items \subseteq Proposals
      BY DEF IInv, TypeOK, Sessions
    <2>2. InApproval(r)'
      BY <1>2, <1>3, <2>1 DEF InApproval, Approvals
    <2>3. ASSUME NEW q \in Proposals \ (edited \cup raced),
                 approval[r].todo[q] # "none" \/ approval[r].mail[q] # "none"
          PROVE  status'[q] = status[q]
      BY <1>3, <2>1, <2>3, ResultIsDecided DEF Fresh, Approvals, Results
    <2> QED
      BY <1>2, <2>1, <2>2, <2>3 DEF Fresh
  <1>6. ToldStands'
    BY <1>2, <1>3 DEF IInv, TypeOK, ToldStands
  <1>7. DecisionsAreTold'
    BY <1>2, <1>3 DEF IInv, DecisionsAreTold
  <1> QED
    BY <1>1, <1>4, <1>5, <1>6, <1>7 DEF IInv

----------------------------------------------------------------------------
(* The session.                                                            *)

\* The steps of a session before BGH decides: c changes alone, and only in
\* what follows.
BeforeBgh(c) ==
    \/ CreateSession(c) \/ UpdateMeta(c) \/ SaveMinutes(c) \/ SubmitBgh(c)
    \/ \E p \in Proposals, vote \in Votes, last \in BOOLEAN :
          EnterResult(c, p, vote, last)
    \/ BghReject(c)

LEMMA SessionKeeps ==
    ASSUME IInv, NEW c \in Calls, BeforeBgh(c)
    PROVE  IInv'
  <1> DEFINE old == session[c]
             new == session'[c]
  <1>0. old \in Sessions /\ old.items \subseteq Proposals
        /\ InSession(c)
    BY DEF IInv, TypeOK, Sessions
  <1>1. TypeOK'
    BY SessionTypes DEF IInv, BeforeBgh, Council
  <1>2. \A d \in Calls \ {c} : session'[d] = session[d]
    BY DEF BeforeBgh, BghReject, CreateSession, UpdateMeta, EnterResult,
           SaveMinutes, SubmitBgh, IInv, TypeOK
  <1>3. /\ new.locked = old.locked /\ new.at \notin {"none", "LOCKED"}
        /\ new.at = "PENDING_BGH" => \A p \in new.items : new.result[p] \in Votes
        /\ \/ new.items = old.items
           \/ /\ old.at = "none"
              /\ \A p \in new.items : status[p] = "HOP_LE"
    <2> USE DEF Sessions, IInv, TypeOK
    <2>1. CASE CreateSession(c)
      <3> DEFINE valid == {p \in Proposals : call[p] = c /\ status[p] = "HOP_LE"}
      <3>1. /\ old.at = "none"
            /\ new = [old EXCEPT !.at = "CREATED", !.items = valid]
        BY <2>1 DEF CreateSession, At
      <3> QED
        BY <1>0, <3>1
    <2>2. CASE UpdateMeta(c)
      BY <1>0, <2>2 DEF UpdateMeta
    <2>3. ASSUME NEW p \in Proposals, NEW vote \in Votes, NEW last \in BOOLEAN,
                 EnterResult(c, p, vote, last)
          PROVE  new.locked = old.locked /\ new.items = old.items
                 /\ new.at \notin {"none", "LOCKED", "PENDING_BGH"}
      <3>1. old.at \notin {"none", "PENDING_BGH", "LOCKED"}
        BY <2>3 DEF EnterResult, At
      <3>2. new = [old EXCEPT
                    !.result[p] = vote,
                    !.at = IF last /\ @ = "CREATED" THEN "OPEN" ELSE @]
        BY <2>3 DEF EnterResult
      <3> QED
        BY <1>0, <3>1, <3>2
    <2>4. CASE SaveMinutes(c)
      BY <1>0, <2>4 DEF SaveMinutes
    <2>5. CASE SubmitBgh(c)
      <3>1. new = [old EXCEPT !.at = "PENDING_BGH"]
        BY <2>5 DEF SubmitBgh
      <3>2. \A p \in old.items : old.result[p] \in Votes
        BY <1>0, <2>5 DEF SubmitBgh, Results
      <3> QED
        BY <1>0, <3>1, <3>2
    <2>6. CASE BghReject(c)
      BY <1>0, <2>6 DEF BghReject
    <2> QED
      BY <2>1, <2>2, <2>3, <2>4, <2>5, <2>6 DEF BeforeBgh
  <1>4. UNCHANGED <<status, approval, told, lost, edited, raced>>
    BY DEF besides, BeforeBgh, BghReject, CreateSession, UpdateMeta, EnterResult,
           SaveMinutes, SubmitBgh
  <1>5. InSession(c)'
    BY <1>0, <1>3, <1>4 DEF InSession
  <1>6. \A d \in Calls \ {c} : InSession(d)'
    BY <1>2, <1>4 DEF IInv, InSession
  <1>7. ASSUME NEW r \in Requests
        PROVE  InApproval(r)' /\ Fresh(r)'
    <2>1. InApproval(r) /\ Fresh(r) /\ approval[r] \in Approvals
      BY DEF IInv, TypeOK
    <2>2. approval[r].of # NoCall =>
            /\ session'[approval[r].of].at # "none"
            /\ session'[approval[r].of].items = session[approval[r].of].items
      BY <1>2, <1>3, <2>1 DEF InApproval, Approvals
    <2>3. InApproval(r)'
      BY <1>4, <2>1, <2>2 DEF InApproval
    <2> QED
      BY <1>4, <2>1, <2>3 DEF Fresh
  <1>8. ToldStands' /\ DecisionsAreTold'
    BY <1>4 DEF IInv, ToldStands, DecisionsAreTold
  <1> QED
    BY <1>1, <1>5, <1>6, <1>7, <1>8 DEF IInv

\* ADMIN's correction of one result: the proposal was decided and stays so.
LEMMA AdminEditKeeps ==
    ASSUME IInv, NEW c \in Calls, NEW p \in Proposals, NEW vote \in Votes,
           AdminEdit(c, p, vote)
    PROVE  IInv'
  <1>1. TypeOK'
    BY SessionTypes DEF IInv, Council
  <1>2. /\ session[c].at = "LOCKED" /\ p \in session[c].items
        /\ status[p] \in Decided
    BY DEF AdminEdit, At, IInv, InSession
  <1>3. /\ \A d \in Calls : /\ session'[d].at = session[d].at
                            /\ session'[d].items = session[d].items
                            /\ session'[d].locked = session[d].locked
        /\ \A d \in Calls \ {c} : session'[d] = session[d]
    BY DEF AdminEdit, IInv, TypeOK, Sessions
  <1>4. /\ status'[p] \in Decided
        /\ \A q \in Proposals \ {p} : status'[q] = status[q]
        /\ edited' = edited \cup {p}
        /\ UNCHANGED <<approval, told, lost, raced>>
    BY ResultIsDecided DEF AdminEdit, IInv, TypeOK
  <1>5. ASSUME NEW d \in Calls
        PROVE  InSession(d)'
    <2>1. InSession(d) /\ session[d].items \subseteq Proposals
      BY DEF IInv, TypeOK, Sessions
    <2> QED
      BY <1>2, <1>3, <1>4, <2>1 DEF InSession
  <1>6. ASSUME NEW r \in Requests
        PROVE  InApproval(r)' /\ Fresh(r)'
    <2>1. /\ InApproval(r) /\ Fresh(r) /\ approval[r] \in Approvals
          /\ \A d \in Calls : session[d].items \subseteq Proposals
      BY DEF IInv, TypeOK, Sessions
    <2>2. InApproval(r)'
      BY <1>3, <1>4, <2>1 DEF InApproval, Approvals
    <2> QED
      BY <1>4, <2>1, <2>2 DEF Fresh
  <1>7. ToldStands' /\ DecisionsAreTold'
    BY <1>2, <1>4 DEF IInv, ToldStands, DecisionsAreTold
  <1> QED
    BY <1>1, <1>5, <1>6, <1>7 DEF IInv

----------------------------------------------------------------------------
(* The approval.                                                           *)

\* One approval moves on; the sessions stay, and so do the other approvals.
LEMMA StartKeeps ==
    ASSUME IInv, NEW r \in Requests, NEW c \in Calls, StartApproval(r, c)
    PROVE  IInv'
  <1>1. TypeOK'
    BY ApprovalTypes DEF IInv, Approve
  <1>2. UNCHANGED <<status, session, told, lost, edited, raced>>
    BY DEF StartApproval
  <1>3. /\ session[c].at = "PENDING_BGH" /\ session[c].items \subseteq Proposals
        /\ session[c].result \in Results /\ InSession(c)
        /\ approval[r] = NoApproval /\ c # NoCall
        /\ \A q \in Requests \ {r} : approval'[q] = approval[q]
        /\ approval'[r] = [of |-> c, mail |-> NoVotes, todo |-> [p \in Proposals |->
                IF status[p] = "HOP_LE" THEN session[c].result[p] ELSE "none"]]
    BY SelectionAssumption DEF StartApproval, At, IInv, TypeOK, Sessions
  <1>4. InApproval(r)'
    BY <1>2, <1>3 DEF InSession, InApproval, Votes, NoVotes
  <1>5. Fresh(r)'
    BY <1>2, <1>3 DEF Fresh, NoVotes
  <1>6. \A q \in Requests \ {r} : InApproval(q)' /\ Fresh(q)'
    BY <1>2, <1>3 DEF IInv, InApproval, Fresh
  <1>7. \A d \in Calls : InSession(d)'
    BY <1>2 DEF IInv, InSession
  <1>8. DecisionsAreTold'
    <2>1. \A q \in Requests : approval'[q].mail = approval[q].mail
      BY <1>3 DEF NoApproval
    <2> QED
      BY <1>2, <2>1 DEF IInv, DecisionsAreTold
  <1>9. ToldStands'
    BY <1>2 DEF IInv, ToldStands
  <1> QED
    BY <1>1, <1>4, <1>5, <1>6, <1>7, <1>8, <1>9 DEF IInv

LEMMA DecideKeeps ==
    ASSUME IInv, NEW r \in Requests, NEW p \in Proposals, DecideNext(r, p)
    PROVE  IInv'
  <1> DEFINE a == approval[r]
             vote == a.todo[p]
             result == RESULT_TO_STATUS[vote]
  <1>1. TypeOK'
    BY ApprovalTypes DEF IInv, Approve
  <1>0. /\ a \in Approvals /\ a.todo \in Results /\ a.mail = NoVotes
        /\ \A q \in Requests : approval[q] \in Approvals
        /\ \A c \in Calls : session[c].items \subseteq Proposals
    BY DEF DecideNext, IInv, TypeOK, Approvals, Sessions
  <1>2. vote \in Votes /\ result \in Decided /\ a.of # NoCall
    BY <1>0, ResultIsDecided DEF DecideNext, IInv, InApproval, Results, NoVotes
  <1>3. /\ status'[p] = result
        /\ \A q \in Proposals \ {p} : status'[q] = status[q]
        /\ UNCHANGED <<session, told, lost, edited>>
        /\ raced \subseteq raced' /\ raced' \subseteq raced \cup {p}
    BY DEF DecideNext, IInv, TypeOK
  <1>4. /\ approval'[r] = [a EXCEPT !.todo[p] = "none", !.mail[p] = vote]
        /\ \A q \in Requests \ {r} : approval'[q] = approval[q]
    BY DEF DecideNext, IInv, TypeOK
  <1>5. /\ approval'[r].of = a.of
        /\ approval'[r].todo = [a.todo EXCEPT ![p] = "none"]
        /\ approval'[r].mail = [NoVotes EXCEPT ![p] = vote]
    BY <1>0, <1>4 DEF Approvals
  <1>6. \A c \in Calls : InSession(c)'
    BY <1>0, <1>2, <1>3 DEF IInv, InSession
  <1>7. ASSUME NEW q \in Requests
        PROVE  InApproval(q)'
    <2>1. InApproval(q) /\ approval[q].of \in Calls \cup {NoCall}
      BY <1>0 DEF IInv, Approvals
    <2>2. CASE q = r
      <3>1. \A i \in session[a.of].items :
                approval'[r].todo[i] = "none" => status'[i] \in Decided
        BY <1>0, <1>2, <1>3, <1>5, <2>1, <2>2 DEF InApproval, Results
      <3>2. \A i, j \in Proposals : approval'[r].mail[i] # "none"
                /\ approval'[r].mail[j] # "none" => i = j
        BY <1>5 DEF NoVotes
      <3> QED
        BY <1>2, <1>3, <1>5, <2>1, <2>2, <3>1, <3>2 DEF InApproval
    <2>3. CASE q # r
      BY <1>0, <1>2, <1>3, <1>4, <2>1, <2>3 DEF InApproval
    <2> QED
      BY <2>2, <2>3
  \* Unless it races, p is decided as everybody else who has it would.
  <1>8. ASSUME p \notin edited \cup raced'
        PROVE  /\ status[p] \in {"HOP_LE", result}
               /\ ~Contested(r, p)
    <2>1. ~Contested(r, p)
      BY <1>8 DEF DecideNext
    <2>2. Fresh(r) /\ p \notin edited \cup raced
      BY <1>3, <1>8 DEF IInv
    <2> QED
      BY <1>2, <2>1, <2>2 DEF Fresh, Votes
  <1>9. ASSUME NEW q \in Requests
        PROVE  Fresh(q)'
    <2> SUFFICES ASSUME NEW i \in Proposals \ (edited \cup raced')
                 PROVE  /\ approval'[q].todo[i] # "none" =>
                            status'[i] \in {"HOP_LE",
                                            RESULT_TO_STATUS[approval'[q].todo[i]]}
                        /\ approval'[q].mail[i] # "none" =>
                            status'[i] = RESULT_TO_STATUS[approval'[q].mail[i]]
      BY <1>3 DEF Fresh
    <2>1. Fresh(q) /\ i \notin edited \cup raced
      BY <1>3 DEF IInv
    <2>2. CASE q = r /\ i = p
      <3>1. approval'[q].todo[i] = "none" /\ approval'[q].mail[i] = vote
        BY <1>0, <1>5, <2>2 DEF Results, NoVotes
      <3> QED
        BY <1>3, <2>2, <3>1
    <2>3. CASE q = r /\ i # p
      <3>1. /\ approval'[q].todo[i] = approval[q].todo[i]
            /\ approval'[q].mail[i] = approval[q].mail[i]
        BY <1>0, <1>5, <2>3 DEF Results, NoVotes
      <3> QED
        BY <1>3, <2>1, <2>3, <3>1 DEF Fresh
    <2>4. CASE q # r /\ i # p
      BY <1>3, <1>4, <2>1, <2>4 DEF Fresh
    <2>5. CASE q # r /\ i = p
      <3>1. approval'[q] = approval[q]
        BY <1>4, <2>5
      <3>2. status[p] \in {"HOP_LE", result} /\ ~Contested(r, p)
        BY <1>8, <2>5
      <3>3. approval[q].todo[p] \in {"none", vote}
        BY <3>2 DEF Contested
      <3>4. approval[q].mail[p] # "none" =>
              /\ RESULT_TO_STATUS[approval[q].mail[p]] = result
        <4>1. approval[q].mail[p] \in Votes \cup {"none"}
          BY <1>0 DEF Approvals, Results
        <4> QED
          BY <2>1, <2>5, <3>2, <4>1, ResultIsDecided DEF Fresh, Decided
      <3> QED
        BY <1>3, <2>5, <3>1, <3>3, <3>4
    <2> QED
      BY <2>2, <2>3, <2>4, <2>5
  <1>10. ToldStands'
    <2>1. p \notin edited \cup raced' /\ told[p] # "none" => told[p] = result
      BY <1>3, <1>8 DEF IInv, TypeOK, ToldStands, Decided
    <2> QED
      BY <1>3, <2>1 DEF IInv, ToldStands
  <1>11. DecisionsAreTold'
    <2>1. approval'[r].mail[p] # "none"
      BY <1>2, <1>5 DEF NoVotes, Votes
    <2>2. \A i \in Proposals \ {p} :
            (\A q \in Requests : approval'[q].mail[i] = "none")
                => \A q \in Requests : approval[q].mail[i] = "none"
      BY <1>0, <1>4 DEF NoVotes
    <2> QED
      BY <1>3, <2>1, <2>2 DEF IInv, DecisionsAreTold
  <1> QED
    BY <1>1, <1>6, <1>7, <1>9, <1>10, <1>11 DEF IInv

LEMMA MailKeeps ==
    ASSUME IInv, NEW r \in Requests, NEW p \in Proposals, MailResult(r, p)
    PROVE  IInv'
  <1> DEFINE a == approval[r]
             result == RESULT_TO_STATUS[a.mail[p]]
  <1>1. TypeOK'
    BY ApprovalTypes DEF IInv, Approve
  <1>2. /\ a \in Approvals /\ a.mail[p] # "none" /\ result \in Decided
        /\ InApproval(r) /\ Fresh(r)
    BY ResultIsDecided DEF MailResult, IInv, TypeOK, Approvals, Results
  <1>3. /\ told'[p] = result
        /\ \A q \in Proposals \ {p} : told'[q] = told[q]
        /\ UNCHANGED <<status, session, lost, edited, raced>>
    BY DEF MailResult, IInv, TypeOK
  <1>4. /\ approval'[r] = [a EXCEPT !.mail = NoVotes]
        /\ \A q \in Requests \ {r} : approval'[q] = approval[q]
    BY DEF MailResult, IInv, TypeOK
  <1>5. /\ approval'[r].of = a.of /\ approval'[r].todo = a.todo
        /\ approval'[r].mail = NoVotes
    BY <1>2, <1>4 DEF Approvals
  <1>6. InApproval(r)' /\ Fresh(r)'
    BY <1>2, <1>3, <1>5 DEF InApproval, Fresh, NoVotes
  <1>7. \A q \in Requests \ {r} : InApproval(q)' /\ Fresh(q)'
    BY <1>3, <1>4 DEF IInv, InApproval, Fresh
  <1>8. \A c \in Calls : InSession(c)'
    BY <1>3 DEF IInv, InSession
  <1>9. ToldStands'
    <2>1. p \notin edited \cup raced => status[p] = result
      BY <1>2 DEF Fresh
    <2> QED
      BY <1>3, <2>1 DEF IInv, ToldStands
  <1>10. DecisionsAreTold'
    <2>1. result # "none"
      BY <1>2 DEF Decided
    <2>2. \A i \in Proposals \ {p} :
            (\A q \in Requests : approval'[q].mail[i] = "none")
                => \A q \in Requests : approval[q].mail[i] = "none"
      BY <1>2, <1>4 DEF InApproval
    <2> QED
      BY <1>3, <2>1, <2>2 DEF IInv, DecisionsAreTold
  <1> QED
    BY <1>1, <1>6, <1>7, <1>8, <1>9, <1>10 DEF IInv

\* The end of an approval, reached or not.
LEMMA EndKeeps ==
    ASSUME IInv, NEW r \in Requests, Lock(r) \/ Crash(r)
    PROVE  IInv'
  <1> DEFINE a == approval[r]
             c == approval[r].of
             mailing == {p \in Proposals : approval[r].mail[p] # "none"}
  <1>1. TypeOK'
    BY ApprovalTypes DEF IInv, Approve
  <1>2. /\ a \in Approvals /\ c \in Calls /\ InApproval(r) /\ c # NoCall
        /\ lost' = lost \cup mailing
        /\ approval'[r] = NoApproval
        /\ \A q \in Requests \ {r} : approval'[q] = approval[q]
        /\ \A d \in Calls \ {c} : session'[d] = session[d]
        /\ UNCHANGED <<status, told, edited, raced>>
    BY SelectionAssumption DEF Lock, Crash, IInv, TypeOK, Approvals, NoVotes
  <1>3. \/ session'[c] = session[c]
        \/ /\ \A p \in session[c].items : status[p] \in Decided
           /\ session'[c].at = "LOCKED" /\ session'[c].locked
           /\ session'[c].items = session[c].items
    <2>1. CASE Crash(r)
      BY <2>1 DEF Crash
    <2>2. CASE Lock(r)
      <3>1. session[c] \in Sessions /\ session \in [Calls -> Sessions]
        BY <1>2 DEF IInv, TypeOK
      <3>2. session'[c] = [session[c] EXCEPT !.at = "LOCKED", !.locked = TRUE]
        BY <1>2, <2>2, <3>1 DEF Lock
      <3>3. \A p \in session[c].items : status[p] \in Decided
        BY <1>2, <2>2, <3>1 DEF Lock, InApproval, NoVotes, Sessions
      <3> QED
        BY <3>1, <3>2, <3>3 DEF Sessions
    <2> QED
      BY <2>1, <2>2
  <1>4. ASSUME NEW d \in Calls
        PROVE  InSession(d)'
    <2>1. InSession(d)
      BY DEF IInv
    <2> QED
      BY <1>2, <1>3, <2>1 DEF InSession
  <1>5. InApproval(r)' /\ Fresh(r)'
    BY <1>2 DEF InApproval, Fresh, NoApproval, NoVotes
  <1>6. ASSUME NEW q \in Requests \ {r}
        PROVE  InApproval(q)' /\ Fresh(q)'
    <2>1. InApproval(q) /\ Fresh(q) /\ approval[q] \in Approvals
      BY DEF IInv, TypeOK
    <2>2. approval[q].of # NoCall =>
            /\ session'[approval[q].of].at # "none"
            /\ session'[approval[q].of].items = session[approval[q].of].items
      BY <1>2, <1>3, <2>1 DEF InApproval, Approvals
    <2> QED
      BY <1>2, <2>1, <2>2 DEF InApproval, Fresh
  <1>7. ToldStands'
    BY <1>2 DEF IInv, ToldStands
  <1>8. DecisionsAreTold'
    <2>1. \A i \in Proposals \ lost' :
            (\A q \in Requests : approval'[q].mail[i] = "none")
                => \A q \in Requests : approval[q].mail[i] = "none"
      BY <1>2
    <2> QED
      BY <1>2, <2>1 DEF IInv, DecisionsAreTold
  <1> QED
    BY <1>1, <1>4, <1>5, <1>6, <1>7, <1>8 DEF IInv

----------------------------------------------------------------------------
(* The theorems.                                                           *)

LEMMA NextKeeps ==
    ASSUME IInv, [Next]_vars
    PROVE  IInv'
  <1>1. ASSUME UNCHANGED <<status, session, approval, told, lost, edited, raced>>, TypeOK'
        PROVE  IInv'
    <2>1. \A c \in Calls : InSession(c)'
      BY <1>1 DEF IInv, InSession
    <2>2. \A r \in Requests : InApproval(r)' /\ Fresh(r)'
      BY <1>1 DEF IInv, InApproval, Fresh
    <2>3. DecisionsAreTold' /\ ToldStands'
      BY <1>1 DEF IInv, ToldStands, DecisionsAreTold
    <2> QED
      BY <1>1, <2>1, <2>2, <2>3 DEF IInv
  <1>2. CASE UNCHANGED vars
    BY <1>1, <1>2 DEF vars, intake, IInv, TypeOK
  <1>3. ASSUME NEW c \in Calls, PublishCall(c)
        PROVE  IInv'
    <2>1. TypeOK' /\ UNCHANGED <<status, session, approval, told, lost, edited, raced>>
      BY <1>3 DEF PublishCall, council, IInv, TypeOK
    <2> QED
      BY <1>1, <2>1
  <1>4. ASSUME NEW p \in Proposals, Propose(p) \/ Check(p)
        PROVE  IInv'
    BY <1>4, IntakeKeeps
  <1>5. ASSUME NEW c \in Calls, Council(c) \/ BghReject(c)
        PROVE  IInv'
    BY <1>5, SessionKeeps, AdminEditKeeps DEF Council, BeforeBgh
  <1>6. ASSUME NEW r \in Requests, Approve(r) \/ Crash(r)
        PROVE  IInv'
    BY <1>6, StartKeeps, DecideKeeps, MailKeeps, EndKeeps DEF Approve
  <1> QED
    BY <1>2, <1>3, <1>4, <1>5, <1>6 DEF Next

\* The strengthened invariant holds however many approvals run at once.
THEOREM SpecInv ==
    Spec => []IInv
  <1>1. IInv /\ [Next]_vars => IInv'
    BY NextKeeps
  <1> QED
    BY InitInv, <1>1, PTL DEF Spec

\* The types of Selection.
THEOREM SpecTypeOK ==
    Spec => []TypeOK
  <1>1. IInv => TypeOK
    BY DEF IInv
  <1> QED
    BY <1>1, SpecInv, PTL

\* bghApprove decides every proposal of the session it locks, for any number of
\* proposals, calls that share them, and approvals that overlap or stopped.
THEOREM SpecLockedIsComplete ==
    Spec => []LockedIsComplete
  <1>1. IInv => LockedIsComplete
    BY InvGives
  <1> QED
    BY <1>1, SpecInv, PTL

\* Every decision reaches its owner, unless the approval stopped before the
\* mail, however approvals overlap.
THEOREM SpecDecisionsAreTold ==
    Spec => []DecisionsAreTold
  <1>1. IInv => DecisionsAreTold
    BY InvGives
  <1> QED
    BY <1>1, SpecInv, PTL

\* What an owner was mailed stays the result of the proposal, however many
\* approvals overlap, but for a correction by ADMIN and for two approvals that
\* had the same proposal to decide on contrary votes.
THEOREM SpecToldStands ==
    Spec => []ToldStands
  <1>1. IInv => ToldStands
    BY InvGives
  <1> QED
    BY <1>1, SpecInv, PTL
=============================================================================
