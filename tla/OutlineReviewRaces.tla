------------------------- MODULE OutlineReviewRaces -------------------------
(***************************************************************************)
(* The submission of score sheets, cut at its awaits. The API runs each    *)
(* request as a chain of separate queries, without a transaction, a lock   *)
(* or a version check, so submissions in different slots interleave; a     *)
(* save writes the columns the handler changed, over whatever is there by  *)
(* then. The requests that come before a submission are the atomic actions *)
(* of OutlineReview.                                                       *)
(***************************************************************************)
EXTENDS OutlineReview

CONSTANTS
    Slots,    \* submissions in flight at the same time
    MayCrash  \* TRUE: a request may be lost between two of its queries

ASSUME RacesAssumption == MayCrash \in BOOLEAN

VARIABLES
    req,      \* the request each slot is running and what it has read
    lost      \* a request was lost between two of its queries

raceVars == <<vars, req, lost>>

Idle == [at |-> "end"]

Running(s, at) == req[s].at = at
Goto(s, at)   == req' = [req EXCEPT ![s].at = at]
Finish(s)     == req' = [req EXCEPT ![s] = Idle]

RacesInit == Init /\ req = [s \in Slots |-> Idle] /\ lost = FALSE

----------------------------------------------------------------------------
(* score-submit of a sheet that was opened before.                         *)
StartSheet(s, a, t) ==
    /\ MayOpen(a) /\ sheet[a] = "DRAFT" /\ ~late[a]
    /\ req[s] = Idle
    /\ req' = [req EXCEPT ![s] = [at |-> "sheet", row |-> a, t |-> t]]
    /\ UNCHANGED <<vars, lost>>
WriteSubmitted(s) ==
    /\ Running(s, "sheet")
    /\ sheet' = [sheet EXCEPT ![req[s].row] = "SUBMITTED"]
    /\ total' = [total EXCEPT ![req[s].row] = req[s].t]
    /\ Goto(s, "row")
    /\ UNCHANGED <<status, members, rowVars, review, lost, joined>>
\* Mutant: the submission ends without the aggregation.
WriteCompletedOnly(s) ==
    /\ Running(s, "row")
    /\ st' = [st EXCEPT ![req[s].row] = "COMPLETED"]
    /\ Finish(s)
    /\ UNCHANGED <<status, members, nextRow, reviewer, late, sheetVars,
                   review, lost, joined>>

WriteCompleted(s) ==
    /\ Running(s, "row")
    /\ st' = [st EXCEPT ![req[s].row] = "COMPLETED"]
    /\ Goto(s, "outline")
    /\ UNCHANGED <<status, members, nextRow, reviewer, late, sheetVars,
                   review, lost, joined>>

(* tryAggregateAndNotify: the outline, its rows, their sheets, the save.   *)
ReadOutline(s) ==
    /\ Running(s, "outline")
    /\ IF status # "PHANBIEN_KIN" THEN Finish(s)
       ELSE req' = [req EXCEPT ![s] = [at |-> "rows",
                                       done |-> review.done]]
    /\ UNCHANGED <<vars, lost>>
ReadRows(s) ==
    /\ Running(s, "rows")
    /\ req' = [req EXCEPT ![s] = [at |-> "sheets",
                                  done |-> @.done, needed |-> Needed]]
    /\ UNCHANGED <<vars, lost>>
ReadSheets(s) ==
    /\ Running(s, "sheets")
    /\ LET needed == req[s].needed IN
       IF \/ needed = {}
          \/ \E a \in needed : sheet[a] # "SUBMITTED"
          \/ req[s].done
       THEN Finish(s)
       ELSE req' = [req EXCEPT ![s] =
                [at |-> "average",
                 average |-> RoundedMean(SumFunctionOnSet(total, needed),
                                        Cardinality(needed))]]
    /\ UNCHANGED <<vars, lost>>
SaveAverage(s) ==
    /\ Running(s, "average")
    /\ review' = [done |-> TRUE, average |-> req[s].average]
    /\ Finish(s)
    /\ UNCHANGED <<status, members, rowVars, sheetVars, lost, joined>>

\* A query fails or the process stops: what was written stays written.
Crash(s) ==
    /\ MayCrash /\ req[s] # Idle
    /\ Finish(s)
    /\ lost' = TRUE
    /\ UNCHANGED vars

----------------------------------------------------------------------------
Begin(s) == \E a \in Rows, t \in Totals : StartSheet(s, a, t)

Continue(s) ==
    \/ WriteSubmitted(s) \/ WriteCompleted(s)
    \/ ReadOutline(s) \/ ReadRows(s) \/ ReadSheets(s) \/ SaveAverage(s)

\* The requests left whole: editing the team, filing the outline, assigning
\* reviewers, opening a task.
Whole ==
    /\ \/ \E team \in SUBSET Accounts : Update(team)
       \/ Submit
       \/ \E picks \in Panels : AssignReviewers(picks, {})
       \/ \E a \in Rows : OpenTask(a)
    /\ UNCHANGED <<req, lost>>

RacesNext == Whole \/ \E s \in Slots : Begin(s) \/ Continue(s) \/ Crash(s)

RacesSpec == RacesInit /\ [][RacesNext]_raceVars

\* The event loop comes back to every pending await: a request that was begun
\* goes on. Nothing obliges anybody to begin one.
FairRacesSpec ==
    RacesSpec /\ \A s \in Slots : WF_raceVars(Continue(s))

----------------------------------------------------------------------------
(* Properties.                                                             *)

Quiet == \A s \in Slots : req[s] = Idle

\* However the submissions of a panel interleave, none is forgotten: when all
\* requests have ended, none was lost and every sheet is in, the average has
\* been taken.
NoSubmissionForgotten == Quiet /\ ~lost => FullPanelIsAggregated

\* A request once begun never hangs, and a full panel always gets its average,
\* unless a request was lost on the way.
FullPanelEventuallyAggregated ==
    (Needed # {} /\ status = "PHANBIEN_KIN"
        /\ \A a \in Needed : sheet[a] = "SUBMITTED") ~> review.done \/ lost
=============================================================================
