------------------------------ MODULE Progress ------------------------------
(***************************************************************************)
(* The progress reports of a running project: one period for every         *)
(* milestone of its plan, or one in the middle when there is no plan; a    *)
(* report for each period; and the reminders before a period is due.       *)
(***************************************************************************)
EXTENDS Integers, FiniteSets

CONSTANTS
    Slots,      \* places of milestones in a plan
    Midpoint,   \* the period of a project without milestones
    Start,      \* the day the project starts
    LastDay,    \* bound: the last day looked at
    RemindDays, \* days before the due date on which a reminder goes out
    Runs,       \* processes that send reminders: the web server, the command
    Undated,    \* a milestone without an end date
    None        \* no such milestone, no such period

Days    == 0..LastDay
Periods == Slots \cup {Midpoint}
\* A plan gives each milestone its end date; a milestone may have none.
Plans   == [Slots -> Days \cup {Undated, None}]

ASSUME ProgressAssumption ==
    /\ Midpoint \notin Slots
    /\ LastDay \in Nat /\ Start \in Days
    /\ RemindDays \subseteq Nat
    /\ None \notin Days \cup {Undated} /\ Undated \notin Days
    /\ None \notin Periods

VARIABLES
    day,      \* today
    due,      \* the due date of each period, None when there is no such period
    report,   \* status of the report of each period
    reminded, \* remindedDays of each period
    mailed,   \* how often a reminder for a period, due date and day was sent
    job,      \* each run of sendReminders: what it has read, what it has to mark
    unmarked  \* history: periods a run had mailed and not marked when it stopped,
              \* or had before it when another run read them

periodVars == <<due, report>>
reminderVars == <<reminded, mailed, job, unmarked>>
progressVars == <<day, periodVars, reminderVars>>

\* A period without a report yet counts as one with a draft.
ReportStatus == {"BCTD_DRAFT", "BCTD_CHO_PKH", "BCTD_BS", "BCTD_DONE"}
\* Bound: a reminder is counted up to twice.
Counts == 0..2
NoJob  == [on |-> FALSE]
Jobs   == [on : {TRUE}, now : Days, due : [Periods -> Days \cup {None}],
           reminded : [Periods -> SUBSET RemindDays],
           left : SUBSET Periods, mark : Periods \cup {None}]

ProgressTypeOK ==
    /\ day \in Days
    /\ due \in [Periods -> Days \cup {None}]
    /\ report \in [Periods -> ReportStatus]
    /\ reminded \in [Periods -> SUBSET RemindDays]
    /\ mailed \in [Periods \X Days \X RemindDays -> Counts]
    /\ job \in [Runs -> Jobs \cup {NoJob}]
    /\ unmarked \subseteq Periods

ProgressInit ==
    /\ day = Start
    /\ due = [k \in Periods |-> None]
    /\ report = [k \in Periods |-> "BCTD_DRAFT"]
    /\ reminded = [k \in Periods |-> {}]
    /\ mailed = [m \in Periods \X Days \X RemindDays |-> 0]
    /\ job = [j \in Runs |-> NoJob]
    /\ unmarked = {}

----------------------------------------------------------------------------
(* Periods.                                                                *)

Middle(end) == (Start + end) \div 2

\* ensurePeriods, when the contract takes effect: an undated milestone is due
\* at the end. An outline that was submitted has both its dates
\* (validateForSubmit), so that the case without a start date does not arise.
EnsurePeriods(plan, end) ==
    due' = [k \in Periods |->
        CASE k = Midpoint /\ \A s \in Slots : plan[s] = None -> Middle(end)
          [] k \in Slots /\ plan[k] = Undated -> end
          [] k \in Slots /\ plan[k] # Undated -> plan[k]
          [] OTHER -> None]

\* Mutant: the middle stays where it was.
RefreshedMilestone(was, k, plan, end) ==
    IF was # None /\ k \in Slots /\ plan[k] \in Days THEN plan[k] ELSE was

\* refreshAfterAdjustment, one period of it that was due on the day "was": only a
\* dated milestone moves one. It does not ask whether there is a report.
Refreshed(was, k, plan, end) ==
    CASE was = None -> None
      [] was # None /\ k = Midpoint -> Middle(end)
      [] was # None /\ k \in Slots /\ plan[k] \in Days -> plan[k]
      [] OTHER -> was

----------------------------------------------------------------------------
(* Reports, while the project is running.                                  *)

\* save, when the report is handed in: a draft saved is the draft there was.
SaveReport(k) ==
    /\ due[k] # None
    /\ report[k] \in {"BCTD_DRAFT", "BCTD_BS"}
    /\ report' = [report EXCEPT ![k] = "BCTD_CHO_PKH"]
    /\ UNCHANGED <<day, due, reminderVars>>

\* pkhAction
PkhAction(k, accept) ==
    /\ report[k] = "BCTD_CHO_PKH"
    /\ report' = [report EXCEPT ![k] = IF accept THEN "BCTD_DONE" ELSE "BCTD_BS"]
    /\ UNCHANGED <<day, due, reminderVars>>

----------------------------------------------------------------------------
(* sendReminders: reads all periods, then mails and marks one by one. The  *)
(* web server and the command may both be at it.                           *)

\* What a run has before it.
Pending(j) == IF job[j].on THEN job[j].left \cup ({job[j].mark} \ {None}) ELSE {}

\* A run that finds nothing to remind of changes nothing.
StartReminders(j) ==
    /\ job[j] = NoJob
    /\ LET near == {k \in Periods : due[k] # None
                        /\ due[k] - day \in RemindDays \ reminded[k]}
       IN  /\ near # {}
           /\ job' = [job EXCEPT ![j] = [on |-> TRUE, now |-> day, due |-> due,
                                        reminded |-> reminded, left |-> near, mark |-> None]]
           /\ unmarked' = unmarked \cup {k \in near : \E i \in Runs : k \in Pending(i)}
    /\ UNCHANGED <<day, periodVars, reminded, mailed>>

DaysLeft(j, k) == job[j].due[k] - job[j].now

GoOn(j, left, mark) ==
    job' = [job EXCEPT ![j] = IF left = {} /\ mark = None THEN NoJob
                              ELSE [@ EXCEPT !.left = left, !.mark = mark]]

\* The report and the project are looked up for each period, just before the
\* mail.
Skip(j, k, running) ==
    /\ job[j].on /\ k \in job[j].left /\ job[j].mark = None
    /\ report[k] = "BCTD_DONE" \/ ~running
    /\ GoOn(j, job[j].left \ {k}, None)
    /\ UNCHANGED <<day, periodVars, reminded, mailed, unmarked>>

Remind(j, k, running) ==
    /\ job[j].on /\ k \in job[j].left /\ job[j].mark = None
    /\ report[k] # "BCTD_DONE" /\ running
    /\ LET m == <<k, job[j].due[k], DaysLeft(j, k)>> IN
       mailed[m] < 2 /\ mailed' = [mailed EXCEPT ![m] = @ + 1]
    /\ GoOn(j, job[j].left \ {k}, k)
    /\ UNCHANGED <<day, periodVars, reminded, unmarked>>

\* The day is added to the days the run has read.
MarkReminded(j) ==
    /\ job[j].on /\ job[j].mark # None
    /\ LET k == job[j].mark IN
       reminded' = [reminded EXCEPT ![k] = job[j].reminded[k] \cup {DaysLeft(j, k)}]
    /\ GoOn(j, job[j].left, None)
    /\ UNCHANGED <<day, periodVars, mailed, unmarked>>

\* The run stops; the next one starts from what was marked.
StopReminders(j) ==
    /\ job[j].on
    /\ job' = [job EXCEPT ![j] = NoJob]
    /\ unmarked' = unmarked \cup ({job[j].mark} \ {None})
    /\ UNCHANGED <<day, periodVars, reminded, mailed>>

Tick ==
    /\ day < LastDay
    /\ day' = day + 1
    /\ UNCHANGED <<periodVars, reminderVars>>
=============================================================================
