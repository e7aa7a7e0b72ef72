----------------------------- MODULE Adjustment -----------------------------
(***************************************************************************)
(* Requests to adjust a running project: the investigator asks, PKH and,   *)
(* from the second extension on, the head of PKH let it through, BGH       *)
(* approves, and the approval rewrites the outline and the due dates of    *)
(* the progress reports.                                                   *)
(*                                                                         *)
(* No request locks what it reads: each is cut between its reads and its   *)
(* save, and the approval also between its transaction and the refresh of  *)
(* the periods, which is outside of it. A request may be lost at each cut, *)
(* and whoever may send one may have several in flight: two clerks of PKH, *)
(* two members of BGH, an investigator in two windows.                     *)
(***************************************************************************)
EXTENDS Progress, Sequences

CONSTANTS
    MaxRows,   \* bound: requests ever written for the project
    Forms,     \* what may be asked for: end, owner, plan and budget, or Keep
    Keep,      \* a form leaves this as it is
    Contracts, \* outlines a contract may take effect with
    Desks,     \* requests that may be in flight at once, of any role
    MaxApprovals, \* bound: approvals begun
    MayCrash   \* TRUE: a request may be lost between two of its steps

Rows  == 1..MaxRows
Outlines == [end : Days, owner : Nat, plan : Plans, budget : Nat, extensions : Nat]

ASSUME AdjustmentAssumption ==
    /\ MaxRows \in Nat
    /\ Forms \subseteq [end : Days \cup {Keep}, owner : Nat \cup {Keep},
                        plan : Plans \cup {Keep}, budget : Nat \cup {Keep}]
    /\ Keep \notin Days \cup Nat \cup Plans
    /\ Contracts \subseteq {o \in Outlines : o.extensions = 0}
    /\ MaxApprovals \in Nat
    /\ MayCrash \in BOOLEAN

VARIABLES
    phase,    \* the contract is being signed, the project runs or is evaluated
    contract, \* the outline when the contract took effect
    outline,  \* the outline in force
    rows,     \* project_adjustments
    next,     \* the row written next
    applied,  \* the approvals in turn: row, outline before and after
    req,      \* the request of each desk and what it has read
    stale,    \* history: rows written by a request after another one had written
              \* them since it read them
    crowd,    \* history: rows that were open beside another
    lost      \* history: the last refresh of the periods stopped half-way, or
              \* met another approval

askVars == <<rows, next>>
planVars == <<phase, contract, outline, applied>>
pastVars == <<stale, crowd, lost>>
vars == <<progressVars, planVars, askVars, req, pastVars>>

DcStatus == {"none", "DC_DRAFT", "DC_PENDING_PKH", "DC_BS", "DC_PENDING_BGH",
             "DC_APPROVED", "DC_REJECTED"}
EDITABLE == {"DC_DRAFT", "DC_BS"}
OPEN     == {"DC_DRAFT", "DC_PENDING_PKH", "DC_BS", "DC_PENDING_BGH"}

NoForm == [end |-> Keep, owner |-> Keep, plan |-> Keep, budget |-> Keep]
Row    == [status : DcStatus, form : Forms \cup {NoForm}, lead : BOOLEAN]
Idle   == [op |-> "idle"]

Init ==
    /\ ProgressInit
    /\ phase = "signing"
    /\ contract \in Contracts /\ outline = contract
    /\ rows = [r \in Rows |-> [status |-> "none", form |-> NoForm, lead |-> FALSE]]
    /\ next = 1
    /\ applied = <<>>
    /\ req = [d \in Desks |-> Idle]
    /\ stale = {} /\ crowd = {}
    /\ lost = FALSE

----------------------------------------------------------------------------
(* The project around the requests.                                        *)

\* cnnvSign: the contract takes effect.
CnnvSign ==
    /\ phase = "signing"
    /\ phase' = "running"
    /\ EnsurePeriods(outline.plan, outline.end)
    /\ UNCHANGED <<day, report, reminderVars, contract, outline, applied, askVars, req, pastVars>>

\* The dossier of the final evaluation is handed in.
Evaluate ==
    /\ phase = "running"
    /\ phase' = "evaluation"
    /\ UNCHANGED <<progressVars, contract, outline, applied, askVars, req, pastVars>>

----------------------------------------------------------------------------
(* Requests: read, then write.                                             *)

Begin(d, r)    == req[d] = Idle /\ req' = [req EXCEPT ![d] = r]
Running(d, op) == req[d].op = op

\* The approval of a request is still being carried into the periods.
Refreshing(d) == req[d].op \in {"committed", "refresh"}

\* What e has read of row r is no longer what is saved there.
Late(e, r) ==
    IF req[e].op \in {"save", "pkh", "approve", "reject"} /\ req[e].row = r
    THEN [req[e] EXCEPT !.late = TRUE] ELSE req[e]

\* An approval went through: the outline e has read is no longer in force.
Behind(e, r) ==
    IF req[e].op = "approve" \/ Refreshing(e)
    THEN [Late(e, r) EXCEPT !.behind = TRUE] ELSE Late(e, r)

\* Row r is written by the last save of request d.
Wrote(d, r) ==
    /\ req' = [e \in Desks |-> IF e = d THEN Idle ELSE Late(e, r)]
    /\ stale' = IF req[d].late THEN stale \cup {r} ELSE stale

Crowded ==
    LET open == {r \in Rows : rows'[r].status \in OPEN} IN
    crowd' = crowd \cup {r \in open : \E q \in open : q # r}

\* save, of a new request (row 0) or of one that may be edited: none but this
\* one may be open.
StartSave(d, r, form, submit) ==
    /\ phase = "running"
    /\ IF r = 0 THEN next \in Rows ELSE rows[r].status \in EDITABLE
    /\ \A q \in Rows \ {r} : rows[q].status \notin OPEN
    /\ Begin(d, [op |-> "save", row |-> r, form |-> form, submit |-> submit, late |-> FALSE,
                 was |-> IF r = 0 THEN NoForm ELSE rows[r].form,
                 lead |-> \E q \in Rows : q = r /\ rows[q].lead])
    /\ UNCHANGED <<progressVars, planVars, askVars, pastVars>>

\* Only the columns the request changed are written: a confirmation it has not
\* seen stays, and a form another request wrote unless this one asks for more.
WriteSave(d) ==
    /\ Running(d, "save")
    /\ LET q == req[d]
           r == IF q.row = 0 THEN next ELSE q.row
           s == IF q.submit THEN "DC_PENDING_PKH"
                ELSE IF q.row = 0 THEN "DC_DRAFT" ELSE rows[r].status
       IN  /\ r \in Rows
           /\ rows' = [rows EXCEPT ![r] =
                [status |-> s, lead |-> @.lead /\ ~q.lead,
                 form |-> IF q.form = q.was THEN @.form ELSE q.form]]
           /\ next' = IF q.row = 0 THEN next + 1 ELSE next
           /\ Wrote(d, r) /\ Crowded
    /\ UNCHANGED <<progressVars, planVars, lost>>

\* Mutant: the head of PKH is asked from the third extension on.
StartPkhLate(d, r, accept) ==
    /\ rows[r].status = "DC_PENDING_PKH"
    /\ accept /\ rows[r].form.end # Keep /\ outline.extensions > 1 => rows[r].lead
    /\ Begin(d, [op |-> "pkh", row |-> r, accept |-> accept, late |-> FALSE])
    /\ UNCHANGED <<progressVars, planVars, askVars, pastVars>>

\* pkhAct: a second extension needs the head of PKH.
StartPkh(d, r, accept) ==
    /\ rows[r].status = "DC_PENDING_PKH"
    /\ accept /\ rows[r].form.end # Keep /\ outline.extensions >= 1 => rows[r].lead
    /\ Begin(d, [op |-> "pkh", row |-> r, accept |-> accept, late |-> FALSE])
    /\ UNCHANGED <<progressVars, planVars, askVars, pastVars>>

WritePkh(d) ==
    /\ Running(d, "pkh")
    /\ rows' = [rows EXCEPT ![req[d].row].status =
                    IF req[d].accept THEN "DC_PENDING_BGH" ELSE "DC_BS"]
    /\ Wrote(d, req[d].row) /\ Crowded
    /\ UNCHANGED <<progressVars, planVars, next, lost>>

\* leadConfirm
StartLead(d, r) ==
    /\ rows[r].status = "DC_PENDING_PKH"
    /\ Begin(d, [op |-> "lead", row |-> r, lead |-> rows[r].lead])
    /\ UNCHANGED <<progressVars, planVars, askVars, pastVars>>

WriteLead(d) ==
    /\ Running(d, "lead")
    /\ rows' = [rows EXCEPT ![req[d].row].lead = @ \/ ~req[d].lead]
    /\ req' = [req EXCEPT ![d] = Idle]
    /\ UNCHANGED <<progressVars, planVars, next, pastVars>>

\* Mutant: a request that was approved may be decided again.
StartBghAgain(d, r, accept) ==
    /\ rows[r].status \in {"DC_PENDING_BGH", "DC_APPROVED"}
    /\ accept => Len(applied) < MaxApprovals
    /\ Begin(d, [op |-> IF accept THEN "approve" ELSE "reject", row |-> r, late |-> FALSE,
                 form |-> rows[r].form, outline |-> outline, behind |-> FALSE])
    /\ UNCHANGED <<progressVars, planVars, askVars, pastVars>>

\* bghAct reads the request and the outline; it does not ask for the phase.
StartBgh(d, r, accept) ==
    /\ rows[r].status = "DC_PENDING_BGH"
    /\ accept => Len(applied) < MaxApprovals
    /\ Begin(d, [op |-> IF accept THEN "approve" ELSE "reject", row |-> r, late |-> FALSE,
                 form |-> rows[r].form, outline |-> outline, behind |-> FALSE])
    /\ UNCHANGED <<progressVars, planVars, askVars, pastVars>>

WriteReject(d) ==
    /\ Running(d, "reject")
    /\ rows' = [rows EXCEPT ![req[d].row].status = "DC_REJECTED"]
    /\ Wrote(d, req[d].row) /\ Crowded
    /\ UNCHANGED <<progressVars, planVars, next, lost>>

Or(asked, now) == IF asked = Keep THEN now ELSE asked

Adjusted(o, form) ==
    [end |-> Or(form.end, o.end), owner |-> Or(form.owner, o.owner),
     plan |-> Or(form.plan, o.plan), budget |-> Or(form.budget, o.budget),
     extensions |-> IF form.end = Keep THEN o.extensions ELSE o.extensions + 1]

\* The transaction: the columns that differ from what was read are written.
Approve(d) ==
    /\ Running(d, "approve")
    /\ LET q    == req[d]
           read == q.outline
           new  == Adjusted(read, q.form)
       IN  /\ outline' = [c \in DOMAIN outline |->
                              IF new[c] = read[c] THEN outline[c] ELSE new[c]]
           /\ applied' = Append(applied, [row |-> q.row, before |-> read, after |-> new,
                                          behind |-> q.behind])
           /\ rows' = [rows EXCEPT ![q.row].status = "DC_APPROVED"]
           /\ req' = [e \in Desks |->
                IF e = d THEN [op |-> "committed", outline |-> new,
                               behind |-> q.behind \/ \E f \in Desks : Refreshing(f)]
                ELSE Behind(e, q.row)]
           /\ stale' = IF q.late THEN stale \cup {q.row} ELSE stale
           /\ Crowded
    /\ UNCHANGED <<progressVars, phase, contract, next, lost>>

\* refreshAfterAdjustment: the periods are read at once ...
ReadPeriods(d) ==
    /\ Running(d, "committed")
    /\ req' = [req EXCEPT ![d] = [op |-> "refresh", outline |-> @.outline, due |-> due,
                                  left |-> Periods, behind |-> @.behind]]
    /\ UNCHANGED <<progressVars, planVars, askVars, pastVars>>

\* Mutant: a refreshed period starts its reminders anew.
RefreshForgets(d, k) ==
    /\ Running(d, "refresh") /\ k \in req[d].left
    /\ due' = [due EXCEPT ![k] = Refreshed(@, k, req[d].outline.plan, req[d].outline.end)]
    /\ reminded' = [reminded EXCEPT ![k] = {}]
    /\ req' = [req EXCEPT ![d].left = @ \ {k}]
    /\ UNCHANGED <<day, report, mailed, job, unmarked, planVars, askVars, pastVars>>

\* ... and saved one after the other, those that are due on another day.
Refresh(d, k) ==
    /\ Running(d, "refresh") /\ k \in req[d].left
    /\ LET was == req[d].due[k]
           new == Refreshed(was, k, req[d].outline.plan, req[d].outline.end)
       IN  due' = [due EXCEPT ![k] = IF new = was THEN @ ELSE new]
    /\ req' = [req EXCEPT ![d].left = @ \ {k}]
    /\ UNCHANGED <<day, report, reminderVars, planVars, askVars, pastVars>>

EndRefresh(d) ==
    /\ Running(d, "refresh") /\ req[d].left = {}
    /\ req' = [req EXCEPT ![d] = Idle]
    /\ lost' = req[d].behind
    /\ UNCHANGED <<progressVars, planVars, askVars, stale, crowd>>

\* A query fails or the process stops: what was written stays written.
Crash(d) ==
    /\ MayCrash /\ req[d] # Idle
    /\ req' = [req EXCEPT ![d] = Idle]
    /\ lost' = (lost \/ Refreshing(d))
    /\ UNCHANGED <<progressVars, planVars, askVars, stale, crowd>>

----------------------------------------------------------------------------
Ask(d) ==
    \/ \E r \in Rows \cup {0}, form \in Forms, submit \in BOOLEAN :
          StartSave(d, r, form, submit)
    \/ \E r \in Rows, accept \in BOOLEAN : StartPkh(d, r, accept) \/ StartBgh(d, r, accept)
    \/ \E r \in Rows : StartLead(d, r)

Continue(d) ==
    \/ WriteSave(d) \/ WritePkh(d) \/ WriteLead(d) \/ WriteReject(d)
    \/ Approve(d) \/ ReadPeriods(d) \/ EndRefresh(d)
    \/ \E k \in Periods : Refresh(d, k)

Report ==
    /\ \E k \in Periods : \/ phase = "running" /\ SaveReport(k)
                          \/ \E accept \in BOOLEAN : PkhAction(k, accept)
    /\ UNCHANGED <<planVars, askVars, req, pastVars>>

Reminders ==
    /\ \/ Tick
       \/ \E j \in Runs :
            \/ StartReminders(j) \/ MarkReminded(j)
            \/ MayCrash /\ StopReminders(j)
            \/ \E k \in Periods : Remind(j, k, phase = "running")
                                  \/ Skip(j, k, phase = "running")
    /\ UNCHANGED <<planVars, askVars, req, pastVars>>

Next ==
    \/ CnnvSign \/ Evaluate \/ Report \/ Reminders
    \/ \E d \in Desks : Ask(d) \/ Continue(d) \/ Crash(d)

Spec == Init /\ [][Next]_vars
----------------------------------------------------------------------------
(* Properties.                                                             *)

Extends(i) == applied[i].after.extensions > applied[i].before.extensions

\* The appendices, in the order BGH approved them, lead from the contract to the
\* outline in force: one starts from where the one before it ended, unless
\* another approval went through since it read the outline. None stands for a
\* request that was refused, changed or approved twice, unless a request was
\* saved over another (bghAct, and pkhAct and save around it).
AppendicesChain ==
    /\ applied = <<>> => outline = contract
    /\ applied # <<>> /\ ~applied[Len(applied)].behind =>
            outline = applied[Len(applied)].after
    /\ \A i \in DOMAIN applied :
        /\ ~applied[i].behind /\ (i > 1 => ~applied[i - 1].behind) =>
                applied[i].before = IF i = 1 THEN contract ELSE applied[i - 1].after
        /\ applied[i].row \notin stale =>
            /\ rows[applied[i].row].status = "DC_APPROVED"
            /\ applied[i].after = Adjusted(applied[i].before, rows[applied[i].row].form)
            /\ \A j \in DOMAIN applied : applied[j].row = applied[i].row => j = i

\* From the second extension on the head of PKH has confirmed, however returns,
\* new versions and confirmations overtake each other, unless two requests were
\* open at once or one was saved over another (pkhAct, leadConfirm).
SecondExtensionConfirmed ==
    \A i, j \in DOMAIN applied :
        i < j /\ Extends(i) /\ Extends(j) =>
            \/ rows[applied[j].row].lead
            \/ {applied[i].row, applied[j].row} \cap (stale \cup crowd) # {}

\* The periods whose report is not handed in are due as the plan and the end in
\* force say, unless the last refresh stopped half-way or met another approval:
\* the next one sets them right (refreshAfterAdjustment).
DueDatesFollowPlan ==
    phase # "signing" /\ ~lost /\ (\A d \in Desks : ~Refreshing(d)) =>
        \A k \in Periods : report[k] \in {"BCTD_DRAFT", "BCTD_BS"} /\ due[k] # None =>
            /\ k = Midpoint => due[k] = Middle(outline.end)
            /\ k \in Slots /\ outline.plan[k] \in Days => due[k] = outline.plan[k]

\* The same reminder is not mailed twice, however due dates move, unless a run
\* stopped between its mail and its mark or another run read the period before
\* the mark ("chạy lại không gửi trùng", sendReminders).
RemindedOnce ==
    \A m \in Periods \X Days \X RemindDays :
        mailed[m] > 1 => m[1] \in unmarked
=============================================================================
