-------------------------- MODULE AdjustmentProofs --------------------------
(***************************************************************************)
(* What Adjustment keeps for any requests, plans, dates and reminders, for *)
(* any number of requests in flight and of runs that send reminders.       *)
(*                                                                         *)
(* The fact behind the adjustments: what a request has read of its row and *)
(* of the outline still holds, unless another request has written there    *)
(* since, and then the request knows it as late or behind; a row that no   *)
(* late request wrote has passed through its states as the code lays down. *)
(***************************************************************************)
EXTENDS Adjustment, TLAPS

DueDays    == [Periods -> Days \cup {None}]
SaveReqs    == [op : {"save"}, row : Rows \cup {0}, form : Forms, submit : BOOLEAN,
                late : BOOLEAN, was : Forms \cup {NoForm}, lead : BOOLEAN]
PkhReqs     == [op : {"pkh"}, row : Rows, accept : BOOLEAN, late : BOOLEAN]
LeadReqs    == [op : {"lead"}, row : Rows, lead : BOOLEAN]
BghReqs     == [op : {"approve", "reject"}, row : Rows, late : BOOLEAN,
                form : Forms \cup {NoForm}, outline : Outlines, behind : BOOLEAN]
CommitReqs  == [op : {"committed"}, outline : Outlines, behind : BOOLEAN]
RefreshReqs == [op : {"refresh"}, outline : Outlines, due : DueDays,
                left : SUBSET Periods, behind : BOOLEAN]
Requests    == SaveReqs \cup PkhReqs \cup LeadReqs \cup BghReqs \cup CommitReqs
               \cup RefreshReqs \cup {Idle}
Appendices  == [row : Rows, before : Outlines, after : Outlines, behind : BOOLEAN]

TypeOK ==
    /\ ProgressTypeOK
    /\ phase \in {"signing", "running", "evaluation"}
    /\ contract \in Outlines /\ outline \in Outlines
    /\ rows \in [Rows -> Row]
    /\ next \in Nat \ {0}
    /\ applied \in Seq(Appendices)
    /\ req \in [Desks -> Requests]
    /\ stale \subseteq Rows /\ crowd \subseteq Rows
    /\ lost \in BOOLEAN

----------------------------------------------------------------------------
(* Types.                                                                  *)

LEMMA AdjustedType ==
    ASSUME NEW o \in Outlines, NEW f \in Forms \cup {NoForm}
    PROVE  Adjusted(o, f) \in Outlines
  BY AdjustmentAssumption DEF Adjusted, Or, Outlines, NoForm

\* Writing the columns that differ from what was read gives what was meant.
LEMMA DifferingColumns ==
    ASSUME NEW o \in Outlines, NEW n \in Outlines
    PROVE  [c \in DOMAIN o |-> IF n[c] = o[c] THEN o[c] ELSE n[c]] = n
  <1>1. DOMAIN o = DOMAIN n
    BY DEF Outlines
  <1>2. n = [c \in DOMAIN n |-> n[c]]
    BY DEF Outlines
  <1> QED
    BY <1>1, <1>2

LEMMA RequestTypes ==
    ASSUME TypeOK, NEW d \in Desks
    PROVE  /\ req[d] \in Requests
           /\ req[d].op \in {"save", "pkh", "lead", "approve", "reject", "committed",
                             "refresh", "idle"}
           /\ req[d].op = "save" => req[d] \in SaveReqs
           /\ req[d].op = "pkh" => req[d] \in PkhReqs
           /\ req[d].op = "lead" => req[d] \in LeadReqs
           /\ req[d].op \in {"approve", "reject"} => req[d] \in BghReqs
           /\ req[d].op = "committed" => req[d] \in CommitReqs
           /\ req[d].op = "refresh" => req[d] \in RefreshReqs
           /\ req[d].op = "idle" => req[d] = Idle
  BY DEF TypeOK, Requests, SaveReqs, PkhReqs, LeadReqs, BghReqs, CommitReqs, RefreshReqs, Idle

\* A request about another row stays as it is, the others become late.
LEMMA LateRequest ==
    ASSUME TypeOK, NEW e \in Desks, NEW r \in Rows
    PROVE  /\ Late(e, r) \in Requests
           /\ Late(e, r).op = req[e].op
           /\ \/ /\ Late(e, r) = req[e]
                 /\ req[e].op \in {"save", "pkh", "approve", "reject"} => req[e].row # r
              \/ /\ Late(e, r).op \in {"save", "pkh", "approve", "reject"}
                 /\ Late(e, r) = [req[e] EXCEPT !.late = TRUE]
                 /\ Late(e, r).late /\ Late(e, r).row = req[e].row
                 /\ req[e].op \in {"approve", "reject"} =>
                        /\ Late(e, r).behind = req[e].behind
                        /\ Late(e, r).outline = req[e].outline
  <1>1. CASE req[e].op = "save" /\ req[e].row = r
    BY <1>1, RequestTypes DEF Late, SaveReqs, Requests
  <1>2. CASE req[e].op = "pkh" /\ req[e].row = r
    BY <1>2, RequestTypes DEF Late, PkhReqs, Requests
  <1>3. CASE req[e].op \in {"approve", "reject"} /\ req[e].row = r
    BY <1>3, RequestTypes DEF Late, BghReqs, Requests
  <1>4. CASE ~(req[e].op \in {"save", "pkh", "approve", "reject"} /\ req[e].row = r)
    BY <1>4, RequestTypes DEF Late
  <1> QED
    BY <1>1, <1>2, <1>3, <1>4

LEMMA BehindRequest ==
    ASSUME TypeOK, NEW e \in Desks, NEW r \in Rows
    PROVE  /\ Behind(e, r) \in Requests
           /\ Behind(e, r).op = req[e].op
           /\ req[e].op \in {"save", "pkh", "lead", "reject", "idle"} =>
                Behind(e, r) = Late(e, r)
           /\ req[e].op = "approve" =>
                /\ Behind(e, r).behind
                /\ Behind(e, r).late \/ (/\ req[e].row # r /\ ~req[e].late
                                         /\ Behind(e, r).row = req[e].row
                                         /\ Behind(e, r).form = req[e].form)
                /\ Behind(e, r).row = req[e].row
           /\ Refreshing(e) => Behind(e, r).behind
  <1>1. CASE req[e].op = "approve"
    <2>1. req[e] \in BghReqs
      BY <1>1, RequestTypes
    <2>2. Late(e, r) \in BghReqs /\ Late(e, r).op = "approve"
      BY <1>1, <2>1 DEF Late, BghReqs
    <2>3. Behind(e, r) = [Late(e, r) EXCEPT !.behind = TRUE]
      BY <1>1 DEF Behind
    <2>4. Late(e, r).row = req[e].row /\ Late(e, r).form = req[e].form
      BY <1>1, <2>1 DEF Late, BghReqs
    <2>5. Late(e, r).late \/ (req[e].row # r /\ ~req[e].late)
      BY <1>1, <2>1 DEF Late, BghReqs
    <2>6. /\ Behind(e, r) \in BghReqs /\ Behind(e, r).op = "approve" /\ Behind(e, r).behind
          /\ Behind(e, r).row = Late(e, r).row /\ Behind(e, r).form = Late(e, r).form
          /\ Behind(e, r).late = Late(e, r).late
      BY <2>2, <2>3 DEF BghReqs
    <2> QED
      BY <1>1, <2>4, <2>5, <2>6 DEF Requests, Refreshing
  <1>2. CASE Refreshing(e)
    <2>1. req[e] \in CommitReqs \cup RefreshReqs
      BY <1>2, RequestTypes DEF Refreshing
    <2>2. Behind(e, r) = [req[e] EXCEPT !.behind = TRUE]
      BY <1>2 DEF Behind, Late, Refreshing
    <2>3. CASE req[e] \in CommitReqs
      BY <2>2, <2>3 DEF CommitReqs, Requests
    <2>4. CASE req[e] \in RefreshReqs
      BY <2>2, <2>4 DEF RefreshReqs, Requests
    <2> QED
      BY <1>2, <2>1, <2>3, <2>4 DEF Refreshing
  <1>3. CASE req[e].op # "approve" /\ ~Refreshing(e)
    BY <1>3, LateRequest DEF Behind
  <1> QED
    BY <1>1, <1>2, <1>3

----------------------------------------------------------------------------
(* Reminders.                                                              *)

Marking(j, k, n) == job[j].on /\ job[j].mark = k /\ DaysLeft(j, k) = n

\* What a run has read of the periods before it.
JobReads(j) ==
    job[j].on =>
        /\ job[j].mark \notin job[j].left
        /\ \A k \in Pending(j) :
              /\ job[j].due[k] \in Days /\ DaysLeft(j, k) \in RemindDays
              /\ k \notin unmarked => /\ job[j].reminded[k] = reminded[k]
                                      /\ DaysLeft(j, k) \notin reminded[k]

\* A reminder that was mailed is marked, about to be, or known as unmarked; no two
\* runs have the same period before them, unless it is known as unmarked.
ReminderInv ==
    /\ ProgressTypeOK
    /\ \A j \in Runs : JobReads(j)
    /\ \A i, j \in Runs : i # j => Pending(i) \cap Pending(j) \subseteq unmarked
    /\ \A k \in Periods, x \in Days, n \in RemindDays :
          mailed[<<k, x, n>>] > 0 =>
              n \in reminded[k] \/ (\E j \in Runs : Marking(j, k, n)) \/ k \in unmarked
    /\ RemindedOnce

LEMMA JobTypes ==
    ASSUME ProgressTypeOK, NEW j \in Runs
    PROVE  /\ job[j] \in Jobs \cup {NoJob}
           /\ job[j].on => job[j] \in Jobs
           /\ ~job[j].on => Pending(j) = {}
           /\ Pending(j) \subseteq Periods
           /\ job[j].on /\ job[j].mark = None => Pending(j) = job[j].left
           /\ job[j].on /\ job[j].mark # None => Pending(j) = job[j].left \cup {job[j].mark}
  <1>1. job[j] \in Jobs \cup {NoJob}
    BY DEF ProgressTypeOK
  <1>2. job[j].on => job[j] \in Jobs
    BY <1>1 DEF NoJob
  <1>3. job[j] \in Jobs => Pending(j) \subseteq Periods
    BY DEF Jobs, Pending
  <1>4. ~job[j].on => Pending(j) = {}
    BY DEF Pending
  <1>5. job[j].on /\ job[j].mark = None => Pending(j) = job[j].left
    BY DEF Pending
  <1>6. job[j].on /\ job[j].mark # None => Pending(j) = job[j].left \cup {job[j].mark}
    BY DEF Pending
  <1> QED
    BY <1>1, <1>2, <1>3, <1>4, <1>5, <1>6

LEMMA GoOnJob ==
    ASSUME ProgressTypeOK, NEW j \in Runs, job[j] \in Jobs,
           NEW l \in SUBSET Periods, NEW m \in Periods \cup {None}, GoOn(j, l, m)
    PROVE  /\ job' \in [Runs -> Jobs \cup {NoJob}]
           /\ \A i \in Runs \ {j} : job'[i] = job[i]
           /\ job'[j].on => /\ job'[j].left = l /\ job'[j].mark = m
                            /\ job'[j].due = job[j].due /\ job'[j].now = job[j].now
                            /\ job'[j].reminded = job[j].reminded
           /\ m # None => job'[j].on
           /\ ~job'[j].on => l = {}
  <1>0. job \in [Runs -> Jobs \cup {NoJob}]
    BY DEF ProgressTypeOK
  <1>1. CASE l = {} /\ m = None
    <2>1. job' = [job EXCEPT ![j] = NoJob]
      BY <1>1 DEF GoOn
    <2> QED
      BY <1>0, <1>1, <2>1 DEF NoJob
  <1>2. CASE ~(l = {} /\ m = None)
    <2>1. job' = [job EXCEPT ![j] = [job[j] EXCEPT !.left = l, !.mark = m]]
      BY <1>2 DEF GoOn
    <2>2. [job[j] EXCEPT !.left = l, !.mark = m] \in Jobs
      BY DEF Jobs
    <2>3. job'[j] = [job[j] EXCEPT !.left = l, !.mark = m]
      BY <1>0, <2>1
    <2> QED
      BY <1>0, <2>1, <2>2, <2>3 DEF Jobs
  <1> QED
    BY <1>1, <1>2

LEMMA InitReminders ==
    ASSUME ProgressInit
    PROVE  ReminderInv
  <1>1. mailed \in [Periods \X Days \X RemindDays -> Counts]
    BY DEF ProgressInit, Counts
  <1>2. ProgressTypeOK
    BY <1>1, ProgressAssumption DEF ProgressInit, ProgressTypeOK, ReportStatus
  <1>3. \A j \in Runs : ~job[j].on
    BY DEF ProgressInit, NoJob
  <1>4. \A j \in Runs : JobReads(j) /\ Pending(j) = {}
    BY <1>3 DEF JobReads, Pending
  <1>5. RemindedOnce
    BY DEF ProgressInit, RemindedOnce
  <1>6. \A k \in Periods, x \in Days, n \in RemindDays : ~(mailed[<<k, x, n>>] > 0)
    BY DEF ProgressInit
  <1> QED
    BY <1>2, <1>4, <1>5, <1>6 DEF ReminderInv

\* Runs that are left alone, with more periods known as unmarked.
LEMMA OtherRun ==
    ASSUME ReminderInv, NEW i \in Runs, job'[i] = job[i], unmarked \subseteq unmarked',
           \A k \in Pending(i) \ unmarked' : reminded'[k] = reminded[k]
    PROVE  JobReads(i)' /\ Pending(i)' = Pending(i)
  <1>1. JobReads(i)
    BY DEF ReminderInv
  <1>2. Pending(i)' = Pending(i)
    BY DEF Pending
  <1>3. \A k : DaysLeft(i, k)' = DaysLeft(i, k)
    BY DEF DaysLeft
  <1> QED
    BY <1>1, <1>2, <1>3 DEF JobReads

LEMMA StartRemindersStep ==
    ASSUME ReminderInv, NEW j \in Runs, StartReminders(j)
    PROVE  ReminderInv'
  <1> DEFINE near == {k \in Periods : due[k] # None /\ due[k] - day \in RemindDays \ reminded[k]}
             new == [on |-> TRUE, now |-> day, due |-> due, reminded |-> reminded,
                     left |-> near, mark |-> None]
  <1>1. /\ ProgressTypeOK /\ job[j] = NoJob
        /\ job' = [job EXCEPT ![j] = new]
        /\ unmarked' = unmarked \cup {k \in near : \E i \in Runs : k \in Pending(i)}
        /\ UNCHANGED <<day, due, report, reminded, mailed>>
    BY DEF StartReminders, ReminderInv, periodVars
  <1>2. near \subseteq Periods
    OBVIOUS
  <1>3. new \in Jobs
    BY <1>1 DEF Jobs, ProgressTypeOK
  <1>4. job'[j] = new /\ \A i \in Runs \ {j} : job'[i] = job[i]
    BY <1>1 DEF ProgressTypeOK
  <1>5. ProgressTypeOK'
    BY <1>1, <1>2, <1>3 DEF ProgressTypeOK
  <1>6. \A k \in near : due[k] \in Days /\ due[k] - day \in RemindDays \ reminded[k]
    BY <1>1 DEF ProgressTypeOK
  <1>7. Pending(j)' = near
    BY <1>4 DEF Pending
  <1>8. \A k : DaysLeft(j, k)' = due[k] - day
    BY <1>4 DEF DaysLeft
  <1>9. JobReads(j)'
    <2>1. None \notin near
      BY <1>2, ProgressAssumption
    <2>2. ASSUME NEW k \in near
          PROVE  /\ job'[j].due[k] \in Days /\ DaysLeft(j, k)' \in RemindDays
                 /\ job'[j].reminded[k] = reminded'[k] /\ DaysLeft(j, k)' \notin reminded'[k]
      BY <1>1, <1>4, <1>6, <1>8
    <2> HIDE DEF near
    <2> QED
      BY <1>4, <1>7, <2>1, <2>2 DEF JobReads
  <1> HIDE DEF near, new
  <1>10. \A i \in Runs \ {j} : JobReads(i)' /\ Pending(i)' = Pending(i)
    BY <1>1, <1>4, OtherRun
  <1>11. \A i \in Runs \ {j} : Pending(i) \cap near \subseteq unmarked'
    BY <1>1
  <1>12. \A i, h \in Runs : i # h => Pending(i)' \cap Pending(h)' \subseteq unmarked'
    BY <1>1, <1>7, <1>10, <1>11 DEF ReminderInv
  <1>13. \A i \in Runs, k \in Periods, n \in RemindDays : Marking(i, k, n) => Marking(i, k, n)'
    BY <1>1, <1>4 DEF Marking, DaysLeft, NoJob
  <1>14. \A k \in Periods, x \in Days, n \in RemindDays :
            mailed[<<k, x, n>>] > 0 =>
              n \in reminded[k] \/ (\E i \in Runs : Marking(i, k, n)') \/ k \in unmarked'
    BY <1>1, <1>13 DEF ReminderInv
  <1>15. RemindedOnce'
    BY <1>1 DEF RemindedOnce, ReminderInv
  <1> QED
    BY <1>1, <1>5, <1>9, <1>10, <1>12, <1>14, <1>15 DEF ReminderInv

LEMMA SkipStep ==
    ASSUME ReminderInv, NEW j \in Runs, NEW k \in Periods, NEW running, Skip(j, k, running)
    PROVE  ReminderInv'
  <1>1. /\ ProgressTypeOK /\ job[j].on /\ k \in job[j].left /\ job[j].mark = None
        /\ GoOn(j, job[j].left \ {k}, None)
        /\ UNCHANGED <<day, due, report, reminded, mailed, unmarked>>
    BY DEF Skip, ReminderInv, periodVars
  <1>2. job[j] \in Jobs /\ Pending(j) = job[j].left /\ job[j].left \ {k} \in SUBSET Periods
    BY <1>1, JobTypes DEF Jobs
  <1>3. /\ job' \in [Runs -> Jobs \cup {NoJob}]
        /\ \A i \in Runs \ {j} : job'[i] = job[i]
        /\ job'[j].on => /\ job'[j].left = job[j].left \ {k} /\ job'[j].mark = None
                         /\ job'[j].due = job[j].due /\ job'[j].now = job[j].now
                         /\ job'[j].reminded = job[j].reminded
    BY <1>1, <1>2, GoOnJob
  <1>4. ProgressTypeOK'
    BY <1>1, <1>3 DEF ProgressTypeOK
  <1>5. Pending(j)' \subseteq Pending(j)
    BY <1>2, <1>3 DEF Pending
  <1>6. JobReads(j)'
    <2>1. JobReads(j)
      BY DEF ReminderInv
    <2>2. job'[j].on => \A p : DaysLeft(j, p)' = DaysLeft(j, p)
      BY <1>3 DEF DaysLeft
    <2>3. None \notin job[j].left
      BY <1>2, ProgressAssumption DEF Jobs
    <2> QED
      BY <1>1, <1>2, <1>3, <1>5, <2>1, <2>2, <2>3 DEF JobReads
  <1>7. \A i \in Runs \ {j} : JobReads(i)' /\ Pending(i)' = Pending(i)
    BY <1>1, <1>3, OtherRun
  <1>8. \A i, h \in Runs : i # h => Pending(i)' \cap Pending(h)' \subseteq unmarked
    BY <1>5, <1>7 DEF ReminderInv
  <1>9. \A i \in Runs, p \in Periods, n \in RemindDays : Marking(i, p, n) => Marking(i, p, n)'
    BY <1>1, <1>3, ProgressAssumption DEF Marking, DaysLeft
  <1>10. \A p \in Periods, x \in Days, n \in RemindDays :
            mailed[<<p, x, n>>] > 0 =>
              n \in reminded[p] \/ (\E i \in Runs : Marking(i, p, n)') \/ p \in unmarked
    BY <1>9 DEF ReminderInv
  <1>11. RemindedOnce'
    BY <1>1 DEF RemindedOnce, ReminderInv
  <1> QED
    BY <1>1, <1>4, <1>6, <1>7, <1>8, <1>10, <1>11 DEF ReminderInv

LEMMA RemindStep ==
    ASSUME ReminderInv, NEW j \in Runs, NEW k \in Periods, NEW running, Remind(j, k, running)
    PROVE  ReminderInv'
  <1> DEFINE n == DaysLeft(j, k)
             m == <<k, job[j].due[k], n>>
  <1>1. /\ ProgressTypeOK /\ job[j].on /\ k \in job[j].left /\ job[j].mark = None
        /\ GoOn(j, job[j].left \ {k}, k)
        /\ mailed[m] < 2 /\ mailed' = [mailed EXCEPT ![m] = @ + 1]
        /\ UNCHANGED <<day, due, report, reminded, unmarked>>
    BY DEF Remind, ReminderInv, periodVars
  <1>2. job[j] \in Jobs /\ Pending(j) = job[j].left /\ job[j].left \ {k} \in SUBSET Periods
    BY <1>1, JobTypes DEF Jobs
  <1>3. /\ job' \in [Runs -> Jobs \cup {NoJob}]
        /\ \A i \in Runs \ {j} : job'[i] = job[i]
        /\ job'[j].on
        /\ job'[j].left = job[j].left \ {k} /\ job'[j].mark = k
        /\ job'[j].due = job[j].due /\ job'[j].now = job[j].now
        /\ job'[j].reminded = job[j].reminded
    BY <1>1, <1>2, GoOnJob, ProgressAssumption
  <1>4. k \in Pending(j) /\ job[j].due[k] \in Days /\ n \in RemindDays
        /\ (k \notin unmarked => n \notin reminded[k])
    BY <1>1, <1>2 DEF ReminderInv, JobReads
  <1>5. m \in Periods \X Days \X RemindDays
    BY <1>4
  <1>6. mailed \in [Periods \X Days \X RemindDays -> Counts]
    BY <1>1 DEF ProgressTypeOK
  <1>7. mailed' \in [Periods \X Days \X RemindDays -> Counts]
    BY <1>1, <1>5, <1>6 DEF Counts
  <1>8. ProgressTypeOK'
    BY <1>1, <1>3, <1>7 DEF ProgressTypeOK
  <1>9. Pending(j)' = Pending(j)
    <2>1. Pending(j)' = (job[j].left \ {k}) \cup {k}
      BY <1>3, ProgressAssumption DEF Pending
    <2> QED
      BY <1>1, <1>2, <2>1
  <1>10. \A p : DaysLeft(j, p)' = DaysLeft(j, p)
    BY <1>3 DEF DaysLeft
  <1>11. JobReads(j)'
    <2>1. JobReads(j)
      BY DEF ReminderInv
    <2> QED
      BY <1>1, <1>3, <1>9, <1>10, <2>1 DEF JobReads
  <1>12. \A i \in Runs \ {j} : JobReads(i)' /\ Pending(i)' = Pending(i)
    BY <1>1, <1>3, OtherRun
  <1>13. \A i, h \in Runs : i # h => Pending(i)' \cap Pending(h)' \subseteq unmarked
    BY <1>9, <1>12 DEF ReminderInv
  <1>15. \A i \in Runs, p \in Periods, y \in RemindDays : Marking(i, p, y) => Marking(i, p, y)'
    BY <1>1, <1>3, ProgressAssumption DEF Marking, DaysLeft
  <1>16. ASSUME NEW p \in Periods, NEW x \in Days, NEW y \in RemindDays,
                mailed'[<<p, x, y>>] > 0
         PROVE  y \in reminded[p] \/ (\E i \in Runs : Marking(i, p, y)') \/ p \in unmarked
    <2>1. CASE <<p, x, y>> = m
      <3>1. p = k /\ y = DaysLeft(j, p)
        BY <2>1
      <3>2. DaysLeft(j, p)' = y
        BY <3>1, <1>10
      <3>3. Marking(j, p, y)'
        BY <3>1, <3>2, <1>3 DEF Marking
      <3> HIDE DEF n, m
      <3> QED
        BY <3>3
    <2>2. CASE <<p, x, y>> # m
      <3>1. <<p, x, y>> \in Periods \X Days \X RemindDays
        OBVIOUS
      <3>2. mailed'[<<p, x, y>>] = mailed[<<p, x, y>>]
        BY <2>2, <3>1, <1>1, <1>6
      <3> QED
        BY <3>2, <1>15, <1>16 DEF ReminderInv
    <2> QED
      BY <2>1, <2>2
  <1>17. mailed[m] > 0 => k \in unmarked
    <2> SUFFICES ASSUME mailed[m] > 0, k \notin unmarked
                 PROVE  FALSE
      OBVIOUS
    <2>1. PICK i \in Runs : Marking(i, k, n)
      BY <1>4 DEF ReminderInv
    <2>2. i # j
      BY <2>1, <1>1, ProgressAssumption DEF Marking
    <2>3. k \in Pending(i)
      BY <2>1, ProgressAssumption DEF Marking, Pending
    <2> QED
      BY <2>2, <2>3, <1>4 DEF ReminderInv
  <1>18. RemindedOnce'
    <2> SUFFICES ASSUME NEW q \in Periods \X Days \X RemindDays, mailed'[q] > 1
                 PROVE  q[1] \in unmarked
      BY <1>1 DEF RemindedOnce
    <2>1. CASE q = m
      <3>1. mailed'[m] = mailed[m] + 1 /\ mailed[m] \in Counts
        BY <1>1, <1>5, <1>6
      <3>2. mailed[m] > 0
        BY <2>1, <3>1 DEF Counts
      <3> QED
        BY <3>2, <2>1, <1>17
    <2>2. CASE q # m
      <3>1. mailed'[q] = mailed[q]
        BY <2>2, <1>1, <1>6
      <3> QED
        BY <3>1 DEF ReminderInv, RemindedOnce
    <2> QED
      BY <2>1, <2>2
  <1> QED
    BY <1>1, <1>8, <1>11, <1>12, <1>13, <1>16, <1>18 DEF ReminderInv

LEMMA MarkStep ==
    ASSUME ReminderInv, NEW j \in Runs, MarkReminded(j)
    PROVE  ReminderInv'
  <1> DEFINE k == job[j].mark
             n == DaysLeft(j, k)
  <1>1. /\ ProgressTypeOK /\ job[j].on /\ k # None
        /\ reminded' = [reminded EXCEPT ![k] = job[j].reminded[k] \cup {n}]
        /\ GoOn(j, job[j].left, None)
        /\ UNCHANGED <<day, due, report, mailed, unmarked>>
    BY DEF MarkReminded, ReminderInv, periodVars
  <1>2. /\ job[j] \in Jobs /\ Pending(j) = job[j].left \cup {k}
        /\ k \in Periods /\ job[j].left \in SUBSET Periods
        /\ job[j].reminded \in [Periods -> SUBSET RemindDays]
    BY <1>1, JobTypes DEF Jobs
  <1>3. /\ job' \in [Runs -> Jobs \cup {NoJob}]
        /\ \A i \in Runs \ {j} : job'[i] = job[i]
        /\ job'[j].on => /\ job'[j].left = job[j].left /\ job'[j].mark = None
                         /\ job'[j].due = job[j].due /\ job'[j].now = job[j].now
                         /\ job'[j].reminded = job[j].reminded
    BY <1>1, <1>2, GoOnJob
  <1>4. /\ n \in RemindDays /\ k \notin job[j].left
        /\ k \notin unmarked => job[j].reminded[k] = reminded[k]
    BY <1>1, <1>2 DEF ReminderInv, JobReads
  <1>5. /\ reminded \in [Periods -> SUBSET RemindDays]
        /\ reminded' \in [Periods -> SUBSET RemindDays]
    BY <1>1, <1>2, <1>4 DEF ProgressTypeOK
  <1>6. /\ reminded'[k] = job[j].reminded[k] \cup {n}
        /\ \A p \in Periods \ {k} : reminded'[p] = reminded[p]
    BY <1>1, <1>2, <1>5
  <1>7. ProgressTypeOK'
    BY <1>1, <1>3, <1>5 DEF ProgressTypeOK
  <1>8. Pending(j)' \subseteq job[j].left
    BY <1>3 DEF Pending
  <1>9. JobReads(j)'
    <2>1. JobReads(j) /\ job[j].left \subseteq Pending(j)
      BY <1>2 DEF ReminderInv
    <2>2. job'[j].on => \A p : DaysLeft(j, p)' = DaysLeft(j, p)
      BY <1>3 DEF DaysLeft
    <2>3. \A p \in job[j].left : reminded'[p] = reminded[p]
      BY <1>2, <1>4, <1>6
    <2>4. None \notin job[j].left
      BY <1>2, ProgressAssumption
    <2> HIDE DEF k, n
    <2> QED
      BY <1>1, <1>3, <1>8, <2>1, <2>2, <2>3, <2>4 DEF JobReads
  <1>10. ASSUME NEW i \in Runs \ {j}
         PROVE  JobReads(i)' /\ Pending(i)' = Pending(i)
    <2>1. Pending(i) \cap Pending(j) \subseteq unmarked /\ Pending(i) \subseteq Periods
      BY <1>1, JobTypes DEF ReminderInv
    <2>2. k \notin Pending(i) \ unmarked'
      BY <2>1, <1>1, <1>2
    <2>3. \A p \in Pending(i) \ unmarked' : reminded'[p] = reminded[p]
      BY <2>1, <2>2, <1>6
    <2> HIDE DEF k, n
    <2> QED
      BY <2>3, <1>1, <1>3, OtherRun
  <1>11. \A i, h \in Runs : i # h => Pending(i)' \cap Pending(h)' \subseteq unmarked
    BY <1>2, <1>8, <1>10 DEF ReminderInv
  <1>12. \A i \in Runs \ {j}, p \in Periods, y \in RemindDays :
            Marking(i, p, y) => Marking(i, p, y)'
    BY <1>3 DEF Marking, DaysLeft
  <1>13. ASSUME NEW p \in Periods, NEW x \in Days, NEW y \in RemindDays,
                mailed[<<p, x, y>>] > 0
         PROVE  y \in reminded'[p] \/ (\E i \in Runs : Marking(i, p, y)') \/ p \in unmarked
    <2>1. y \in reminded[p] \/ (\E i \in Runs : Marking(i, p, y)) \/ p \in unmarked
      BY <1>13 DEF ReminderInv
    <2>2. CASE y \in reminded[p] /\ p \notin unmarked
      BY <2>2, <1>4, <1>6
    <2>3. CASE \E i \in Runs : Marking(i, p, y)
      <3>1. PICK i \in Runs : Marking(i, p, y)
        BY <2>3
      <3>2. CASE i = j
        <4>1. p = k /\ y = n
          BY <3>1, <3>2 DEF Marking
        <4> QED
          BY <4>1, <1>6
      <3> QED
        BY <3>1, <3>2, <1>12
    <2> QED
      BY <2>1, <2>2, <2>3
  <1>14. RemindedOnce'
    BY <1>1 DEF RemindedOnce, ReminderInv
  <1> HIDE DEF k, n
  <1> QED
    BY <1>1, <1>7, <1>9, <1>10, <1>11, <1>13, <1>14 DEF ReminderInv

LEMMA StopStep ==
    ASSUME ReminderInv, NEW j \in Runs, StopReminders(j)
    PROVE  ReminderInv'
  <1>1. /\ ProgressTypeOK /\ job[j].on
        /\ job' = [job EXCEPT ![j] = NoJob]
        /\ unmarked' = unmarked \cup ({job[j].mark} \ {None})
        /\ UNCHANGED <<day, due, report, reminded, mailed>>
    BY DEF StopReminders, ReminderInv, periodVars
  <1>2. job[j] \in Jobs /\ job[j].mark \in Periods \cup {None}
    BY <1>1, JobTypes DEF Jobs
  <1>3. job'[j] = NoJob /\ \A i \in Runs \ {j} : job'[i] = job[i]
    BY <1>1 DEF ProgressTypeOK
  <1>4. ProgressTypeOK'
    BY <1>1, <1>2 DEF ProgressTypeOK
  <1>5. JobReads(j)' /\ Pending(j)' = {}
    BY <1>3 DEF JobReads, Pending, NoJob
  <1>6. \A i \in Runs \ {j} : JobReads(i)' /\ Pending(i)' = Pending(i)
    BY <1>1, <1>3, OtherRun
  <1>7. \A i, h \in Runs : i # h => Pending(i)' \cap Pending(h)' \subseteq unmarked'
    BY <1>1, <1>5, <1>6 DEF ReminderInv
  <1>8. \A i \in Runs \ {j}, p \in Periods, y \in RemindDays :
            Marking(i, p, y) => Marking(i, p, y)'
    BY <1>3 DEF Marking, DaysLeft
  <1>9. \A p \in Periods, y \in RemindDays : Marking(j, p, y) => p \in unmarked'
    BY <1>1, ProgressAssumption DEF Marking
  <1>10. \A p \in Periods, x \in Days, y \in RemindDays :
            mailed[<<p, x, y>>] > 0 =>
              y \in reminded[p] \/ (\E i \in Runs : Marking(i, p, y)') \/ p \in unmarked'
    BY <1>1, <1>8, <1>9 DEF ReminderInv
  <1>11. RemindedOnce'
    BY <1>1 DEF RemindedOnce, ReminderInv
  <1> QED
    BY <1>1, <1>4, <1>5, <1>6, <1>7, <1>10, <1>11 DEF ReminderInv

LEMMA RemindersUnchanged ==
    ASSUME ReminderInv, UNCHANGED reminderVars,
           day' \in Days, due' \in [Periods -> Days \cup {None}],
           report' \in [Periods -> ReportStatus]
    PROVE  ReminderInv'
  <1>1. UNCHANGED <<reminded, mailed, job, unmarked>>
    BY DEF reminderVars
  <1>2. ProgressTypeOK'
    BY <1>1 DEF ReminderInv, ProgressTypeOK
  <1>3. \A j \in Runs : JobReads(j)' /\ Pending(j)' = Pending(j)
    BY <1>1, OtherRun
  <1>4. \A j \in Runs, p \in Periods, n \in RemindDays : Marking(j, p, n) => Marking(j, p, n)'
    BY <1>1 DEF Marking, DaysLeft
  <1>5. RemindedOnce'
    BY <1>1 DEF RemindedOnce, ReminderInv
  <1> QED
    BY <1>1, <1>2, <1>3, <1>4, <1>5 DEF ReminderInv

----------------------------------------------------------------------------
(* Types.                                                                  *)

LEMMA InitTypes ==
    Init => TypeOK
  <1> SUFFICES ASSUME Init PROVE TypeOK
    OBVIOUS
  <1>1. ProgressTypeOK
    BY InitReminders DEF Init, ReminderInv
  <1>2. contract \in Outlines /\ outline \in Outlines
    BY AdjustmentAssumption DEF Init
  <1>3. rows \in [Rows -> Row]
    BY DEF Init, Row, DcStatus
  <1>4. req \in [Desks -> Requests]
    BY DEF Init, Requests
  <1>5. applied \in Seq(Appendices)
    BY DEF Init
  <1>6. stale \subseteq Rows /\ crowd \subseteq Rows /\ lost \in BOOLEAN
    BY DEF Init
  <1>7. phase = "signing" /\ next = 1
    BY DEF Init
  <1> QED
    BY <1>1, <1>2, <1>3, <1>4, <1>5, <1>6, <1>7 DEF TypeOK

LEMMA AppendixTypes ==
    ASSUME TypeOK
    PROVE  /\ DOMAIN applied = 1..Len(applied) /\ Len(applied) \in Nat
           /\ \A i \in DOMAIN applied : applied[i] \in Appendices
  <1>1. applied \in Seq(Appendices)
    BY DEF TypeOK
  <1> QED
    BY <1>1

\* The request a desk begins with.
LEMMA AskTypes ==
    ASSUME TypeOK, NEW d \in Desks, Ask(d)
    PROVE  /\ UNCHANGED <<progressVars, planVars, askVars, pastVars>>
           /\ req[d] = Idle
           /\ \E q \in SaveReqs \cup PkhReqs \cup LeadReqs \cup BghReqs :
                 req' = [req EXCEPT ![d] = q]
  <1>1. ASSUME NEW r \in Rows \cup {0}, NEW form \in Forms, NEW submit \in BOOLEAN,
               StartSave(d, r, form, submit)
        PROVE  /\ UNCHANGED <<progressVars, planVars, askVars, pastVars>>
               /\ req[d] = Idle
               /\ \E q \in SaveReqs : req' = [req EXCEPT ![d] = q]
    <2> DEFINE q == [op |-> "save", row |-> r, form |-> form, submit |-> submit,
                     late |-> FALSE, was |-> IF r = 0 THEN NoForm ELSE rows[r].form,
                     lead |-> \E s \in Rows : s = r /\ rows[s].lead]
    <2>1. (IF r = 0 THEN NoForm ELSE rows[r].form) \in Forms \cup {NoForm}
      BY DEF TypeOK, Row
    <2>2. q \in SaveReqs
      BY <2>1 DEF SaveReqs
    <2>3. req' = [req EXCEPT ![d] = q]
      BY <1>1 DEF StartSave, Begin
    <2> QED
      BY <2>2, <2>3, <1>1 DEF StartSave, Begin
  <1>2. ASSUME NEW r \in Rows, NEW accept \in BOOLEAN, StartPkh(d, r, accept)
        PROVE  /\ UNCHANGED <<progressVars, planVars, askVars, pastVars>>
               /\ req[d] = Idle
               /\ \E q \in PkhReqs : req' = [req EXCEPT ![d] = q]
    BY <1>2 DEF StartPkh, Begin, PkhReqs
  <1>3. ASSUME NEW r \in Rows, NEW accept \in BOOLEAN, StartBgh(d, r, accept)
        PROVE  /\ UNCHANGED <<progressVars, planVars, askVars, pastVars>>
               /\ req[d] = Idle
               /\ \E q \in BghReqs : req' = [req EXCEPT ![d] = q]
    <2> DEFINE q == [op |-> IF accept THEN "approve" ELSE "reject", row |-> r,
                     late |-> FALSE, form |-> rows[r].form, outline |-> outline,
                     behind |-> FALSE]
    <2>1. q \in BghReqs
      BY DEF BghReqs, TypeOK, Row
    <2>2. req' = [req EXCEPT ![d] = q]
      BY <1>3 DEF StartBgh, Begin
    <2> QED
      BY <2>1, <2>2, <1>3 DEF StartBgh, Begin
  <1>4. ASSUME NEW r \in Rows, StartLead(d, r)
        PROVE  /\ UNCHANGED <<progressVars, planVars, askVars, pastVars>>
               /\ req[d] = Idle
               /\ \E q \in LeadReqs : req' = [req EXCEPT ![d] = q]
    BY <1>4 DEF StartLead, Begin, LeadReqs, TypeOK, Row
  <1> QED
    BY <1>1, <1>2, <1>3, <1>4 DEF Ask

\* A row is saved and the request ends.
LEMMA WroteTypes ==
    ASSUME TypeOK, NEW d \in Desks, NEW r \in Rows, NEW w \in Row,
           rows' = [rows EXCEPT ![r] = w], Wrote(d, r), Crowded,
           next' \in Nat \ {0}, UNCHANGED <<progressVars, planVars, lost>>
    PROVE  TypeOK'
  <1>1. rows' \in [Rows -> Row]
    BY DEF TypeOK
  <1>2. \A e \in Desks : Late(e, r) \in Requests
    BY LateRequest
  <1>3. req' \in [Desks -> Requests]
    BY <1>2 DEF Wrote, Requests
  <1>4. stale' \subseteq Rows /\ crowd' \subseteq Rows
    BY DEF Wrote, Crowded, TypeOK
  <1> QED
    BY <1>1, <1>3, <1>4
       DEF TypeOK, ProgressTypeOK, progressVars, periodVars, reminderVars, planVars

\* What each request writes into its row.
LEMMA SaveWrites ==
    ASSUME TypeOK, NEW d \in Desks, WriteSave(d)
    PROVE  /\ req[d] \in SaveReqs /\ UNCHANGED <<progressVars, planVars, lost>>
           /\ \E r \in Rows, w \in Row :
                /\ r = (IF req[d].row = 0 THEN next ELSE req[d].row)
                /\ w.status = IF req[d].submit THEN "DC_PENDING_PKH"
                              ELSE IF req[d].row = 0 THEN "DC_DRAFT" ELSE rows[r].status
                /\ rows' = [rows EXCEPT ![r] = w] /\ Wrote(d, r) /\ Crowded
                /\ next' = IF req[d].row = 0 THEN next + 1 ELSE next
  <1> DEFINE q == req[d]
             r == IF q.row = 0 THEN next ELSE q.row
             s == IF q.submit THEN "DC_PENDING_PKH"
                  ELSE IF q.row = 0 THEN "DC_DRAFT" ELSE rows[r].status
             f == IF q.form = q.was THEN rows[r].form ELSE q.form
             w == [status |-> s, lead |-> rows[r].lead /\ ~q.lead, form |-> f]
  <1>1. q \in SaveReqs
    BY RequestTypes DEF WriteSave, Running
  <1>2. /\ r \in Rows
        /\ rows' = [rows EXCEPT ![r] = w] /\ Wrote(d, r) /\ Crowded
        /\ next' = IF q.row = 0 THEN next + 1 ELSE next
        /\ UNCHANGED <<progressVars, planVars, lost>>
    BY DEF WriteSave
  <1>3. s \in DcStatus
    BY <1>2 DEF TypeOK, Row, DcStatus
  <1>4. f \in Forms \cup {NoForm}
    BY <1>1, <1>2 DEF SaveReqs, TypeOK, Row
  <1>5. w \in Row /\ w.status = s
    <2>1. (rows[r].lead /\ ~q.lead) \in BOOLEAN
      OBVIOUS
    <2> HIDE DEF s, f
    <2> QED
      BY <1>3, <1>4, <2>1 DEF Row
  <1> QED
    BY <1>1, <1>2, <1>5

LEMMA PkhWrites ==
    ASSUME TypeOK, NEW d \in Desks, WritePkh(d)
    PROVE  /\ req[d] \in PkhReqs /\ UNCHANGED <<progressVars, planVars, next, lost>>
           /\ req[d].row \in Rows
           /\ \E w \in Row :
                /\ w.status = (IF req[d].accept THEN "DC_PENDING_BGH" ELSE "DC_BS")
                /\ w.form = rows[req[d].row].form /\ w.lead = rows[req[d].row].lead
                /\ rows' = [rows EXCEPT ![req[d].row] = w]
                /\ Wrote(d, req[d].row) /\ Crowded
  <1>1. req[d] \in PkhReqs
    BY RequestTypes DEF WritePkh, Running
  <1>2. req[d].row \in Rows /\ rows[req[d].row] \in Row
    BY <1>1 DEF PkhReqs, TypeOK
  <1> DEFINE s == IF req[d].accept THEN "DC_PENDING_BGH" ELSE "DC_BS"
             w == [rows[req[d].row] EXCEPT !.status = s]
  <1>3. s \in DcStatus
    BY DEF DcStatus
  <1>4. w \in Row /\ w.status = s /\ w.form = rows[req[d].row].form
        /\ w.lead = rows[req[d].row].lead
    <2> HIDE DEF s
    <2> QED
      BY <1>2, <1>3 DEF Row
  <1>5. rows' = [rows EXCEPT ![req[d].row] = w]
    BY DEF WritePkh
  <1>6. Wrote(d, req[d].row) /\ Crowded /\ UNCHANGED <<progressVars, planVars, next, lost>>
    BY DEF WritePkh
  <1> QED
    BY <1>1, <1>2, <1>4, <1>5, <1>6

LEMMA RejectWrites ==
    ASSUME TypeOK, NEW d \in Desks, WriteReject(d)
    PROVE  /\ req[d] \in BghReqs /\ UNCHANGED <<progressVars, planVars, next, lost>>
           /\ req[d].row \in Rows
           /\ \E w \in Row :
                /\ w.status = "DC_REJECTED"
                /\ rows' = [rows EXCEPT ![req[d].row] = w]
                /\ Wrote(d, req[d].row) /\ Crowded
  <1>1. req[d] \in BghReqs
    BY RequestTypes DEF WriteReject, Running
  <1>2. req[d].row \in Rows /\ rows[req[d].row] \in Row
    BY <1>1 DEF BghReqs, TypeOK
  <1> DEFINE w == [rows[req[d].row] EXCEPT !.status = "DC_REJECTED"]
  <1>3. w \in Row /\ w.status = "DC_REJECTED"
    BY <1>2 DEF Row, DcStatus
  <1> QED
    BY <1>1, <1>2, <1>3 DEF WriteReject

LEMMA LeadWrites ==
    ASSUME TypeOK, NEW d \in Desks, WriteLead(d)
    PROVE  /\ req[d] \in LeadReqs /\ req[d].row \in Rows
           /\ \E w \in Row :
                /\ w.status = rows[req[d].row].status /\ w.form = rows[req[d].row].form
                /\ rows[req[d].row].lead => w.lead
                /\ rows' = [rows EXCEPT ![req[d].row] = w]
           /\ req' = [req EXCEPT ![d] = Idle]
           /\ UNCHANGED <<progressVars, planVars, next, pastVars>>
           /\ TypeOK'
  <1>1. req[d] \in LeadReqs
    BY RequestTypes DEF WriteLead, Running
  <1>2. req[d].row \in Rows /\ rows[req[d].row] \in Row
    BY <1>1 DEF LeadReqs, TypeOK
  <1> DEFINE l == rows[req[d].row].lead \/ ~req[d].lead
             w == [rows[req[d].row] EXCEPT !.lead = l]
  <1>3. l \in BOOLEAN
    OBVIOUS
  <1>4. w \in Row /\ w.status = rows[req[d].row].status
        /\ w.form = rows[req[d].row].form /\ w.lead = l
    <2> HIDE DEF l
    <2> QED
      BY <1>2, <1>3 DEF Row
  <1>5. /\ rows' = [rows EXCEPT ![req[d].row] = w] /\ req' = [req EXCEPT ![d] = Idle]
        /\ UNCHANGED <<progressVars, planVars, next, pastVars>>
    BY DEF WriteLead
  <1> HIDE DEF w
  <1>6. rows' \in [Rows -> Row] /\ req' \in [Desks -> Requests]
    BY <1>2, <1>4, <1>5 DEF TypeOK, Requests
  <1>7. TypeOK'
    BY <1>5, <1>6 DEF TypeOK, ProgressTypeOK, progressVars, periodVars, reminderVars,
                      planVars, pastVars
  <1> QED
    BY <1>1, <1>2, <1>4, <1>5, <1>7

\* The transaction of an approval.
LEMMA ApproveWrites ==
    ASSUME TypeOK, NEW d \in Desks, Approve(d)
    PROVE  LET q   == req[d]
               new == Adjusted(q.outline, q.form)
           IN  /\ q \in BghReqs /\ q.op = "approve" /\ q.row \in Rows
               /\ new \in Outlines /\ q.outline \in Outlines
               /\ outline' = [c \in DOMAIN outline |->
                                 IF new[c] = q.outline[c] THEN outline[c] ELSE new[c]]
               /\ applied' = Append(applied, [row |-> q.row, before |-> q.outline,
                                              after |-> new, behind |-> q.behind])
               /\ [row |-> q.row, before |-> q.outline, after |-> new,
                   behind |-> q.behind] \in Appendices
               /\ \E w \in Row :
                    /\ w.status = "DC_APPROVED" /\ w.form = rows[q.row].form
                    /\ w.lead = rows[q.row].lead
                    /\ rows' = [rows EXCEPT ![q.row] = w]
               /\ req'[d] = [op |-> "committed", outline |-> new,
                             behind |-> q.behind \/ \E f \in Desks : Refreshing(f)]
               /\ \A e \in Desks \ {d} : req'[e] = Behind(e, q.row)
               /\ stale' = IF q.late THEN stale \cup {q.row} ELSE stale
               /\ Crowded
               /\ UNCHANGED <<progressVars, phase, contract, next, lost>>
  <1>1. req[d] \in BghReqs /\ req[d].op = "approve"
    BY RequestTypes DEF Approve, Running
  <1>2. /\ req[d].row \in Rows /\ rows[req[d].row] \in Row /\ req[d].outline \in Outlines
        /\ req[d].form \in Forms \cup {NoForm} /\ req[d].behind \in BOOLEAN
    BY <1>1 DEF BghReqs, TypeOK
  <1> DEFINE new == Adjusted(req[d].outline, req[d].form)
             w == [rows[req[d].row] EXCEPT !.status = "DC_APPROVED"]
  <1>3. new \in Outlines
    BY <1>2, AdjustedType
  <1>4. w \in Row /\ w.status = "DC_APPROVED" /\ w.form = rows[req[d].row].form
        /\ w.lead = rows[req[d].row].lead
    BY <1>2 DEF Row, DcStatus
  <1>5. /\ outline' = [c \in DOMAIN outline |->
                          IF new[c] = req[d].outline[c] THEN outline[c] ELSE new[c]]
        /\ applied' = Append(applied, [row |-> req[d].row, before |-> req[d].outline,
                                       after |-> new, behind |-> req[d].behind])
        /\ rows' = [rows EXCEPT ![req[d].row] = w]
        /\ req' = [e \in Desks |->
                IF e = d THEN [op |-> "committed", outline |-> new,
                               behind |-> req[d].behind \/ \E f \in Desks : Refreshing(f)]
                ELSE Behind(e, req[d].row)]
        /\ stale' = IF req[d].late THEN stale \cup {req[d].row} ELSE stale
        /\ Crowded
        /\ UNCHANGED <<progressVars, phase, contract, next, lost>>
    BY DEF Approve
  <1> HIDE DEF new, w
  <1>6. [row |-> req[d].row, before |-> req[d].outline, after |-> new,
         behind |-> req[d].behind] \in Appendices
    BY <1>2, <1>3 DEF Appendices
  <1>7. /\ req'[d] = [op |-> "committed", outline |-> new,
                      behind |-> req[d].behind \/ \E f \in Desks : Refreshing(f)]
        /\ \A e \in Desks \ {d} : req'[e] = Behind(e, req[d].row)
    BY <1>5
  <1> QED
    BY <1>1, <1>2, <1>3, <1>4, <1>5, <1>6, <1>7 DEF new

LEMMA ApproveTypes ==
    ASSUME TypeOK, NEW d \in Desks, Approve(d)
    PROVE  TypeOK' /\ UNCHANGED progressVars
  <1> DEFINE q == req[d]
             new == Adjusted(q.outline, q.form)
             a == [row |-> q.row, before |-> q.outline, after |-> new, behind |-> q.behind]
             b == q.behind \/ \E f \in Desks : Refreshing(f)
  <1>1. /\ q \in BghReqs /\ q.row \in Rows /\ new \in Outlines /\ q.outline \in Outlines
        /\ outline' = [c \in DOMAIN outline |->
                          IF new[c] = q.outline[c] THEN outline[c] ELSE new[c]]
        /\ applied' = Append(applied, a) /\ a \in Appendices
        /\ req'[d] = [op |-> "committed", outline |-> new, behind |-> b]
        /\ \A e \in Desks \ {d} : req'[e] = Behind(e, q.row)
        /\ stale' = IF q.late THEN stale \cup {q.row} ELSE stale
        /\ Crowded
        /\ UNCHANGED <<progressVars, phase, contract, next, lost>>
    BY ApproveWrites
  <1>2. rows' \in [Rows -> Row]
    BY ApproveWrites DEF TypeOK
  <1>3. b \in BOOLEAN
    BY <1>1 DEF BghReqs
  <1>4. DOMAIN req' = Desks
    BY DEF Approve
  <1> HIDE DEF new, a, b
  <1>5. outline' \in Outlines
    BY <1>1 DEF Outlines, TypeOK
  <1>6. req'[d] \in Requests
    BY <1>1, <1>3 DEF Requests, CommitReqs
  <1>7. \A e \in Desks \ {d} : req'[e] \in Requests
    BY <1>1, BehindRequest
  <1>8. req' \in [Desks -> Requests]
    <2>1. req' = [e \in Desks |-> req'[e]]
      BY DEF Approve
    <2> QED
      BY <2>1, <1>6, <1>7
  <1>9. applied' \in Seq(Appendices)
    BY <1>1 DEF TypeOK
  <1>10. stale' \subseteq Rows /\ crowd' \subseteq Rows
    BY <1>1 DEF Crowded, TypeOK
  <1> QED
    BY <1>1, <1>2, <1>5, <1>8, <1>9, <1>10
       DEF TypeOK, ProgressTypeOK, progressVars, periodVars, reminderVars

LEMMA DueDateTypes ==
    ASSUME NEW was \in Days \cup {None}, NEW p \in Plans, NEW e \in Days, NEW k \in Periods
    PROVE  Middle(e) \in Days /\ Refreshed(was, k, p, e) \in Days \cup {None}
  <1>1. Middle(e) \in Days
    BY ProgressAssumption DEF Middle, Days
  <1> QED
    BY <1>1 DEF Refreshed

\* One period is saved, unless it is due on the day it was.
LEMMA RefreshWrites ==
    ASSUME TypeOK, NEW d \in Desks, NEW k \in Periods, Refresh(d, k)
    PROVE  LET q == req[d]
               new == Refreshed(q.due[k], k, q.outline.plan, q.outline.end)
           IN  /\ q \in RefreshReqs /\ q.op = "refresh" /\ k \in q.left
               /\ due' = [due EXCEPT ![k] = IF new = q.due[k] THEN due[k] ELSE new]
               /\ req' = [req EXCEPT ![d] = [q EXCEPT !.left = q.left \ {k}]]
               /\ UNCHANGED <<day, report, reminderVars, planVars, askVars, pastVars>>
               /\ TypeOK'
  <1> DEFINE q == req[d]
             new == Refreshed(q.due[k], k, q.outline.plan, q.outline.end)
             u == [q EXCEPT !.left = q.left \ {k}]
  <1>1. q \in RefreshReqs /\ q.op = "refresh" /\ k \in q.left
    BY RequestTypes DEF Refresh, Running
  <1>2. /\ due' = [due EXCEPT ![k] = IF new = q.due[k] THEN due[k] ELSE new]
        /\ req' = [req EXCEPT ![d] = u]
        /\ UNCHANGED <<day, report, reminderVars, planVars, askVars, pastVars>>
    BY DEF Refresh
  <1>3. q.due[k] \in Days \cup {None} /\ q.outline.plan \in Plans /\ q.outline.end \in Days
    BY <1>1 DEF RefreshReqs, DueDays, Outlines
  <1>4. new \in Days \cup {None}
    BY <1>3, DueDateTypes
  <1>5. u \in RefreshReqs
    BY <1>1 DEF RefreshReqs
  <1> HIDE DEF new, u
  <1>6. due' \in [Periods -> Days \cup {None}] /\ req' \in [Desks -> Requests]
    BY <1>2, <1>4, <1>5 DEF TypeOK, ProgressTypeOK, Requests
  <1>7. TypeOK'
    BY <1>2, <1>6 DEF TypeOK, ProgressTypeOK, reminderVars, planVars, askVars, pastVars
  <1> QED
    BY <1>1, <1>2, <1>7 DEF new, u

LEMMA ReadPeriodsWrites ==
    ASSUME TypeOK, NEW d \in Desks, ReadPeriods(d)
    PROVE  /\ req[d] \in CommitReqs /\ req[d].op = "committed"
           /\ req' = [req EXCEPT ![d] = [op |-> "refresh", outline |-> req[d].outline,
                                         due |-> due, left |-> Periods,
                                         behind |-> req[d].behind]]
           /\ UNCHANGED <<progressVars, planVars, askVars, pastVars>>
           /\ TypeOK'
  <1> DEFINE u == [op |-> "refresh", outline |-> req[d].outline, due |-> due,
                   left |-> Periods, behind |-> req[d].behind]
  <1>1. req[d] \in CommitReqs /\ req[d].op = "committed"
    BY RequestTypes DEF ReadPeriods, Running
  <1>2. /\ req' = [req EXCEPT ![d] = u]
        /\ UNCHANGED <<progressVars, planVars, askVars, pastVars>>
    BY DEF ReadPeriods
  <1>3. u \in RefreshReqs
    BY <1>1 DEF RefreshReqs, CommitReqs, DueDays, TypeOK, ProgressTypeOK
  <1> HIDE DEF u
  <1>4. req' \in [Desks -> Requests]
    BY <1>2, <1>3 DEF TypeOK, Requests
  <1>5. TypeOK'
    BY <1>2, <1>4 DEF TypeOK, ProgressTypeOK, progressVars, periodVars, reminderVars,
                      planVars, askVars, pastVars
  <1> QED
    BY <1>1, <1>2, <1>5 DEF u

LEMMA EndTypes ==
    ASSUME TypeOK, NEW d \in Desks, EndRefresh(d) \/ Crash(d)
    PROVE  /\ TypeOK' /\ req' = [req EXCEPT ![d] = Idle] /\ req[d] # Idle
           /\ UNCHANGED <<progressVars, planVars, askVars, stale, crowd>>
  <1>1. /\ req' = [req EXCEPT ![d] = Idle] /\ req[d] # Idle
        /\ UNCHANGED <<progressVars, planVars, askVars, stale, crowd>>
    BY DEF EndRefresh, Crash, Running, Idle
  <1>2. lost' \in BOOLEAN
    <2>1. CASE EndRefresh(d)
      <3>1. req[d] \in RefreshReqs
        BY <2>1, RequestTypes DEF EndRefresh, Running
      <3> QED
        BY <2>1, <3>1 DEF EndRefresh, RefreshReqs
    <2>2. CASE Crash(d)
      <3>1. (lost \/ Refreshing(d)) \in BOOLEAN
        OBVIOUS
      <3> QED
        BY <2>2, <3>1 DEF Crash
    <2> QED
      BY <2>1, <2>2
  <1>3. req' \in [Desks -> Requests]
    BY <1>1 DEF TypeOK, Requests
  <1> QED
    BY <1>1, <1>2, <1>3
       DEF TypeOK, ProgressTypeOK, progressVars, periodVars, reminderVars, planVars, askVars

----------------------------------------------------------------------------
(* Types and reminders, step by step.                                      *)

\* Steps that move neither the reminders nor, but for their types, the dates.
LEMMA RemindersRest ==
    ASSUME ReminderInv, TypeOK', UNCHANGED reminderVars
    PROVE  ReminderInv'
  BY RemindersUnchanged DEF TypeOK, ProgressTypeOK

LEMMA EvaluateTypes ==
    ASSUME TypeOK, Evaluate
    PROVE  /\ TypeOK'
           /\ UNCHANGED <<progressVars, contract, outline, applied, askVars, req, pastVars>>
  BY DEF Evaluate, TypeOK, ProgressTypeOK, progressVars, periodVars, reminderVars, askVars,
         pastVars

LEMMA ReportTypes ==
    ASSUME TypeOK, Report
    PROVE  TypeOK' /\ UNCHANGED <<day, due, reminderVars, planVars, askVars, req, pastVars>>
  <1>1. /\ UNCHANGED <<day, due, reminderVars, planVars, askVars, req, pastVars>>
        /\ report' \in [Periods -> ReportStatus]
    BY DEF Report, SaveReport, PkhAction, TypeOK, ProgressTypeOK, ReportStatus
  <1> QED
    BY <1>1 DEF TypeOK, ProgressTypeOK, reminderVars, planVars, askVars, pastVars

LEMMA RemindersTypes ==
    ASSUME TypeOK, ReminderInv, Reminders
    PROVE  TypeOK' /\ ReminderInv' /\ UNCHANGED <<due, planVars, askVars, req, pastVars>>
  <1>1. ReminderInv'
    <2>1. CASE Tick
      <3>1. day' \in Days
        BY <2>1, ProgressAssumption DEF Tick, TypeOK, ProgressTypeOK, Days
      <3> QED
        BY <2>1, <3>1, RemindersUnchanged DEF Tick, periodVars, TypeOK, ProgressTypeOK
    <2> QED
      BY <2>1, StartRemindersStep, MarkStep, StopStep, RemindStep, SkipStep DEF Reminders
  <1>2. UNCHANGED <<due, planVars, askVars, req, pastVars>>
    BY DEF Reminders, StartReminders, MarkReminded, Tick, StopReminders, Remind, Skip, periodVars
  <1>3. TypeOK'
    BY <1>1, <1>2 DEF TypeOK, ReminderInv, planVars, askVars, pastVars
  <1> QED
    BY <1>1, <1>2, <1>3

LEMMA SignTypes ==
    ASSUME TypeOK, CnnvSign
    PROVE  TypeOK'
  <1> USE DEF CnnvSign, askVars, pastVars
  <1>1. outline.plan \in Plans /\ outline.end \in Days
    BY DEF TypeOK, Outlines
  <1>2. due' \in [Periods -> Days \cup {None}]
    <2>1. Middle(outline.end) \in Days
      BY <1>1, DueDateTypes DEF Periods
    <2> QED
      BY <1>1, <2>1 DEF EnsurePeriods, Plans
  <1> QED
    BY <1>2 DEF TypeOK, ProgressTypeOK, reminderVars

LEMMA DeskTypes ==
    ASSUME TypeOK, NEW d \in Desks, Ask(d) \/ Continue(d) \/ Crash(d)
    PROVE  TypeOK' /\ UNCHANGED reminderVars
  <1>1. CASE Ask(d)
    <2>1. req' \in [Desks -> Requests]
      BY <1>1, AskTypes DEF TypeOK, Requests
    <2>2. UNCHANGED <<progressVars, planVars, askVars, pastVars>>
      BY <1>1, AskTypes
    <2> QED
      BY <2>1, <2>2 DEF TypeOK, ProgressTypeOK, progressVars, periodVars, reminderVars,
                        planVars, askVars, pastVars
  <1>2. CASE WriteSave(d)
    <2>1. UNCHANGED progressVars
      BY <1>2 DEF WriteSave
    <2>2. TypeOK'
      BY <1>2, SaveWrites, WroteTypes DEF TypeOK
    <2> QED
      BY <2>1, <2>2 DEF progressVars
  <1>3. CASE WritePkh(d)
    <2>1. UNCHANGED progressVars
      BY <1>3 DEF WritePkh
    <2>2. TypeOK'
      BY <1>3, PkhWrites, WroteTypes DEF TypeOK
    <2> QED
      BY <2>1, <2>2 DEF progressVars
  <1>4. CASE WriteReject(d)
    <2>1. UNCHANGED progressVars
      BY <1>4 DEF WriteReject
    <2>2. TypeOK'
      BY <1>4, RejectWrites, WroteTypes DEF TypeOK
    <2> QED
      BY <2>1, <2>2 DEF progressVars
  <1>5. CASE WriteLead(d)
    BY <1>5, LeadWrites DEF progressVars
  <1>6. CASE Approve(d)
    BY <1>6, ApproveTypes DEF progressVars
  <1>7. CASE ReadPeriods(d)
    BY <1>7, ReadPeriodsWrites DEF progressVars
  <1>8. ASSUME NEW k \in Periods, Refresh(d, k)
        PROVE  TypeOK' /\ UNCHANGED reminderVars
    BY <1>8, RefreshWrites
  <1>9. CASE EndRefresh(d) \/ Crash(d)
    BY <1>9, EndTypes DEF progressVars
  <1> QED
    BY <1>1, <1>2, <1>3, <1>4, <1>5, <1>6, <1>7, <1>8, <1>9 DEF Continue

LEMMA NextTypes ==
    TypeOK /\ ReminderInv /\ [Next]_vars => TypeOK' /\ ReminderInv'
  <1> SUFFICES ASSUME TypeOK, ReminderInv, [Next]_vars
               PROVE  TypeOK' /\ ReminderInv'
    OBVIOUS
  <1>1. CASE CnnvSign
    BY <1>1, SignTypes, RemindersRest DEF CnnvSign
  <1>2. CASE Evaluate
    BY <1>2, EvaluateTypes, RemindersRest DEF progressVars
  <1>3. CASE Report
    BY <1>3, ReportTypes, RemindersRest
  <1>4. CASE Reminders
    BY <1>4, RemindersTypes
  <1>5. ASSUME NEW d \in Desks, Ask(d) \/ Continue(d) \/ Crash(d)
        PROVE  TypeOK' /\ ReminderInv'
    BY <1>5, DeskTypes, RemindersRest
  <1>6. CASE UNCHANGED vars
    <2>1. UNCHANGED <<progressVars, planVars, askVars, req, pastVars>>
      BY <1>6 DEF vars
    <2>2. TypeOK'
      BY <2>1 DEF TypeOK, ProgressTypeOK, progressVars, periodVars, reminderVars, planVars,
                  askVars, pastVars
    <2> QED
      BY <2>1, <2>2, RemindersRest DEF progressVars
  <1> QED
    BY <1>1, <1>2, <1>3, <1>4, <1>5, <1>6 DEF Next

----------------------------------------------------------------------------
(* The invariant.                                                          *)

\* No request was saved over row r, and none was open beside it.
Clean(r) == r \notin stale \cup crowd

\* An extension went through properly.
Extended == \E i \in DOMAIN applied : Clean(applied[i].row) /\ Extends(i)

\* The head of PKH has seen row r, if it asks for a second extension.
Confirmed(r) == Clean(r) /\ rows[r].form.end # Keep /\ Extended => rows[r].lead

Good(k) ==
    due[k] # None =>
        /\ k = Midpoint => due[k] = Middle(outline.end)
        /\ k \in Slots /\ outline.plan[k] \in Days => due[k] = outline.plan[k]

\* What the request of desk d has read still holds, unless it knows better.
Holds(d) ==
    LET q == req[d] IN
    /\ q.op \in {"save", "pkh", "lead", "approve", "reject"} /\ q.row # 0 => q.row < next
    /\ q.op = "save" /\ q.row # 0 /\ ~q.late => rows[q.row].status \in EDITABLE
    /\ q.op = "pkh" /\ ~q.late =>
            /\ rows[q.row].status = "DC_PENDING_PKH"
            /\ q.accept => Confirmed(q.row)
    /\ q.op \in {"approve", "reject"} /\ ~q.late =>
            rows[q.row].status = "DC_PENDING_BGH" /\ rows[q.row].form = q.form
    /\ q.op = "approve" /\ ~q.behind => q.outline = outline

\* An approval that met no other one carries the outline in force.
Carried(d) ==
    Refreshing(d) /\ ~req[d].behind =>
        /\ req[d].outline = outline
        /\ \A e \in Desks \ {d} : ~Refreshing(e)
        /\ req[d].op = "refresh" =>
              \A k \in Periods : IF k \in req[d].left THEN req[d].due[k] = due[k] ELSE Good(k)

\* Two rows open at once are known as such; the row BGH may decide is confirmed.
RowsInv ==
    /\ \A r, q \in Rows :
          r # q /\ rows[r].status \in OPEN /\ rows[q].status \in OPEN => r \in crowd
    /\ \A r \in Rows : r >= next => rows[r].status = "none"
    /\ \A r \in Rows : rows[r].status = "DC_PENDING_BGH" => Confirmed(r)

ChainInv ==
    /\ AppendicesChain /\ SecondExtensionConfirmed
    /\ \A i \in DOMAIN applied : Extends(i) => outline.extensions >= 1

DueInv ==
    /\ phase = "signing" =>
          (\A d \in Desks : req[d] = Idle) /\ (\A r \in Rows : rows[r].status = "none")
    /\ phase # "signing" /\ ~lost /\ (\A d \in Desks : ~Refreshing(d)) =>
            \A k \in Periods : Good(k)

IInv ==
    /\ TypeOK /\ ReminderInv
    /\ \A d \in Desks : Holds(d) /\ Carried(d)
    /\ RowsInv /\ ChainInv /\ DueInv

LEMMA InvGives ==
    IInv => AppendicesChain /\ SecondExtensionConfirmed /\ DueDatesFollowPlan
  BY DEF IInv, ChainInv, DueInv, DueDatesFollowPlan, Good

LEMMA InitInv ==
    Init => IInv
  <1> SUFFICES ASSUME Init PROVE IInv
    OBVIOUS
  <1>1. TypeOK /\ ReminderInv
    BY InitTypes, InitReminders DEF Init
  <1>2. \A d \in Desks : Holds(d) /\ Carried(d)
    BY DEF Init, Holds, Carried, Refreshing, Idle
  <1>3. RowsInv
    BY DEF Init, RowsInv, OPEN
  <1>4. ChainInv
    BY DEF Init, ChainInv, AppendicesChain, SecondExtensionConfirmed
  <1>5. DueInv
    BY DEF Init, DueInv
  <1> QED
    BY <1>1, <1>2, <1>3, <1>4, <1>5 DEF IInv

----------------------------------------------------------------------------
(* Around the requests.                                                    *)

\* Steps that leave the requests and what they read alone.
LEMMA AroundStep ==
    ASSUME IInv, TypeOK', ReminderInv',
           UNCHANGED <<due, contract, outline, applied, rows, next, req, stale, crowd, lost>>,
           phase' = phase \/ (phase # "signing" /\ phase' # "signing")
    PROVE  IInv'
  <1>1. \A k : Good(k) => Good(k)'
    BY DEF Good
  <1>2. \A r : Confirmed(r) => Confirmed(r)'
    BY DEF Confirmed, Clean, Extended, Extends
  <1>3. ASSUME NEW d \in Desks
        PROVE  Holds(d)' /\ Carried(d)'
    <2>1. Holds(d) /\ Carried(d)
      BY DEF IInv
    <2>2. Holds(d)'
      BY <2>1, <1>2 DEF Holds
    <2>3. Carried(d)'
      BY <2>1, <1>1 DEF Carried, Refreshing
    <2> QED
      BY <2>2, <2>3
  <1>4. RowsInv'
    BY <1>2 DEF IInv, RowsInv
  <1>5. ChainInv'
    BY DEF IInv, ChainInv, AppendicesChain, SecondExtensionConfirmed, Extends
  <1>6. DueInv'
    BY <1>1 DEF IInv, DueInv, Refreshing
  <1> QED
    BY <1>3, <1>4, <1>5, <1>6 DEF IInv

LEMMA SignStep ==
    ASSUME IInv, TypeOK', ReminderInv', CnnvSign
    PROVE  IInv'
  <1>1. /\ phase = "signing" /\ phase' = "running"
        /\ UNCHANGED <<contract, outline, applied, rows, next, req, stale, crowd, lost>>
        /\ EnsurePeriods(outline.plan, outline.end)
    BY DEF CnnvSign, askVars, pastVars
  <1>2. outline.plan \in Plans /\ outline.end \in Days
    BY DEF IInv, TypeOK, Outlines
  <1>3. ASSUME NEW k \in Periods
        PROVE  Good(k)'
    BY <1>1, <1>2, ProgressAssumption DEF Good, EnsurePeriods, Plans, Periods
  <1>4. \A d \in Desks : req[d] = Idle
    BY <1>1 DEF IInv, DueInv
  <1>5. \A d \in Desks : Holds(d)' /\ Carried(d)'
    BY <1>1, <1>4 DEF Holds, Carried, Refreshing, Idle
  <1>6. \A r : Confirmed(r) => Confirmed(r)'
    BY <1>1 DEF Confirmed, Clean, Extended, Extends
  <1>7. RowsInv'
    BY <1>1, <1>6 DEF IInv, RowsInv
  <1>8. ChainInv'
    BY <1>1 DEF IInv, ChainInv, AppendicesChain, SecondExtensionConfirmed, Extends
  <1>9. DueInv'
    BY <1>1, <1>3 DEF DueInv
  <1> QED
    BY <1>5, <1>7, <1>8, <1>9 DEF IInv

----------------------------------------------------------------------------
(* The requests.                                                           *)

\* A request is begun: what it has read holds.
LEMMA AskStep ==
    ASSUME IInv, TypeOK', ReminderInv', NEW d \in Desks, Ask(d)
    PROVE  IInv'
  <1>1. TypeOK
    BY DEF IInv
  <1>2. /\ UNCHANGED <<due, phase, contract, outline, applied, rows, next, stale, crowd, lost>>
        /\ req[d] = Idle
        /\ \E q \in SaveReqs \cup PkhReqs \cup LeadReqs \cup BghReqs :
              req' = [req EXCEPT ![d] = q]
    BY <1>1, AskTypes DEF progressVars, periodVars, planVars, askVars, pastVars
  <1>3. \A e \in Desks \ {d} : req'[e] = req[e]
    BY <1>1, <1>2 DEF TypeOK
  <1>4. ~Refreshing(d) /\ ~Refreshing(d)' /\ req'[d] # Idle
    BY <1>1, <1>2 DEF TypeOK, Refreshing, Idle, SaveReqs, PkhReqs, LeadReqs, BghReqs
  <1>5. \A e \in Desks : Refreshing(e)' = Refreshing(e)
    BY <1>3, <1>4 DEF Refreshing
  <1>6. \A k : Good(k) => Good(k)'
    BY <1>2 DEF Good
  <1>7. \A r : Confirmed(r) => Confirmed(r)'
    BY <1>2 DEF Confirmed, Clean, Extended, Extends
  <1>8. \A e \in Desks \ {d} : Holds(e)'
    BY <1>2, <1>3, <1>7 DEF IInv, Holds
  <1>9. \A e \in Desks : Carried(e)'
    <2>1. ASSUME NEW e \in Desks, Refreshing(e)
          PROVE  Carried(e)'
      <3>1. req'[e] = req[e]
        BY <2>1, <1>3, <1>4
      <3>2. Carried(e)
        BY DEF IInv
      <3> QED
        BY <2>1, <3>1, <3>2, <1>2, <1>5, <1>6 DEF Carried
    <2> QED
      BY <2>1, <1>5 DEF Carried
  <1>10. \A r \in Rows : rows[r].status # "none" => r < next /\ r # 0
    BY <1>1 DEF IInv, RowsInv, TypeOK, Rows
  <1>11. Holds(d)' /\ phase # "signing"
    <2> DEFINE q == req'[d]
    <2>1. ASSUME NEW r \in Rows \cup {0}, NEW form \in Forms, NEW submit \in BOOLEAN,
                 StartSave(d, r, form, submit)
          PROVE  Holds(d)' /\ phase # "signing"
      <3>1. /\ q.op = "save" /\ q.row = r /\ q.late = FALSE
            /\ r # 0 => rows[r].status \in EDITABLE
            /\ phase # "signing"
        BY <2>1, <1>1 DEF StartSave, Begin, TypeOK
      <3>2. r # 0 => r < next
        BY <3>1, <1>10 DEF EDITABLE
      <3> QED
        BY <3>1, <3>2, <1>2 DEF Holds
    <2>2. ASSUME NEW r \in Rows, NEW accept \in BOOLEAN, StartPkh(d, r, accept)
          PROVE  Holds(d)' /\ phase # "signing"
      <3>1. /\ q.op = "pkh" /\ q.row = r /\ q.late = FALSE /\ q.accept = accept
            /\ rows[r].status = "DC_PENDING_PKH"
            /\ accept /\ rows[r].form.end # Keep /\ outline.extensions >= 1 => rows[r].lead
        BY <2>2, <1>1 DEF StartPkh, Begin, TypeOK
      <3>2. Extended => outline.extensions >= 1
        BY DEF Extended, IInv, ChainInv
      <3>3. accept => Confirmed(r)'
        BY <3>1, <3>2, <1>2, <1>7 DEF Confirmed
      <3> QED
        BY <3>1, <3>3, <1>2, <1>10 DEF Holds, IInv, DueInv
    <2>3. ASSUME NEW r \in Rows, NEW accept \in BOOLEAN, StartBgh(d, r, accept)
          PROVE  Holds(d)' /\ phase # "signing"
      <3>1. /\ q.op = (IF accept THEN "approve" ELSE "reject")
            /\ q.row = r /\ q.late = FALSE /\ q.behind = FALSE
            /\ q.form = rows[r].form /\ q.outline = outline
            /\ rows[r].status = "DC_PENDING_BGH"
        BY <2>3, <1>1 DEF StartBgh, Begin, TypeOK
      <3> QED
        BY <3>1, <1>2, <1>10 DEF Holds, IInv, DueInv
    <2>4. ASSUME NEW r \in Rows, StartLead(d, r)
          PROVE  Holds(d)' /\ phase # "signing"
      <3>1. q.op = "lead" /\ q.row = r /\ rows[r].status = "DC_PENDING_PKH"
        BY <2>4, <1>1 DEF StartLead, Begin, TypeOK
      <3> QED
        BY <3>1, <1>2, <1>10 DEF Holds, IInv, DueInv
    <2> QED
      BY <2>1, <2>2, <2>3, <2>4 DEF Ask
  <1>12. \A e \in Desks : Holds(e)' /\ Carried(e)'
    BY <1>8, <1>9, <1>11
  <1>13. RowsInv'
    BY <1>2, <1>7 DEF IInv, RowsInv
  <1>14. ChainInv'
    BY <1>2 DEF IInv, ChainInv, AppendicesChain, SecondExtensionConfirmed, Extends
  <1>15. DueInv'
    BY <1>2, <1>5, <1>6, <1>11 DEF IInv, DueInv
  <1> QED
    BY <1>12, <1>13, <1>14, <1>15 DEF IInv

\* Requests about other rows, and those that know they are late, keep what they
\* have read when row r is written.
LEMMA OtherHolds ==
    ASSUME IInv, NEW e \in Desks, NEW r \in Rows, req'[e] = Late(e, r),
           \A q \in Rows \ {r} : rows'[q] = rows[q],
           next' >= next, next' \in Nat, outline' = outline,
           \A q \in Rows \ {r} : Confirmed(q) => Confirmed(q)'
    PROVE  Holds(e)'
  <1>1. TypeOK /\ Holds(e) /\ next \in Nat
    BY DEF IInv, TypeOK
  <1>2. Late(e, r).op = req[e].op /\ Late(e, r) \in Requests
    BY <1>1, LateRequest
  <1>3. CASE req'[e] = req[e] /\ (req[e].op \in {"save", "pkh", "approve", "reject"}
                                  => req[e].row # r)
    <2>1. req[e].op \in {"save", "pkh", "lead", "approve", "reject"} =>
            req[e].row \in Rows \cup {0}
      BY <1>1, RequestTypes DEF SaveReqs, PkhReqs, LeadReqs, BghReqs
    <2>2. req[e].op \in {"pkh", "approve", "reject"} => req[e].row \in Rows \ {r}
      BY <1>1, <1>3, RequestTypes DEF PkhReqs, BghReqs
    <2>3. req[e].op = "save" /\ req[e].row # 0 => req[e].row \in Rows \ {r}
      BY <2>1, <1>3
    <2>4. req[e].op \in {"save", "pkh", "lead", "approve", "reject"} /\ req[e].row # 0 =>
            req[e].row < next'
      BY <1>1, <2>1 DEF Holds, Rows
    <2> QED
      BY <1>1, <1>3, <2>2, <2>3, <2>4 DEF Holds
  <1>4. CASE /\ req'[e].op \in {"save", "pkh", "approve", "reject"} /\ req'[e].late
             /\ req'[e].row = req[e].row
             /\ req[e].op \in {"approve", "reject"} =>
                    req'[e].behind = req[e].behind /\ req'[e].outline = req[e].outline
    <2>1. req[e].op = req'[e].op
      BY <1>2
    <2>2. req[e].row \in Rows \cup {0}
      BY <1>1, <1>4, <2>1, RequestTypes DEF SaveReqs, PkhReqs, LeadReqs, BghReqs
    <2>3. req[e].row # 0 => req[e].row < next'
      BY <1>1, <1>4, <2>1, <2>2 DEF Holds, Rows
    <2> QED
      BY <1>1, <1>4, <2>1, <2>3 DEF Holds
  <1> QED
    BY <1>1, <1>3, <1>4, LateRequest

\* A row is saved and the request ends, as save, pkhAct and bghAct do: late, or
\* as the state of the row allows.
LEMMA RowStep ==
    ASSUME IInv, TypeOK', ReminderInv', NEW d \in Desks, NEW r \in Rows, NEW w \in Row,
           rows' = [rows EXCEPT ![r] = w], Wrote(d, r), Crowded,
           UNCHANGED <<progressVars, planVars, lost>>,
           req[d].op \in {"save", "pkh", "reject"},
           next' >= next, r < next',
           r \notin stale' => /\ rows[r].status # "DC_APPROVED"
                              /\ w.status = "DC_PENDING_BGH" /\ Clean(r) /\ Extended
                                 /\ w.form.end # Keep => w.lead
    PROVE  IInv'
  <1>1. TypeOK /\ rows \in [Rows -> Row] /\ next' \in Nat /\ next \in Nat
    BY DEF IInv, TypeOK
  <1>2. rows'[r] = w /\ \A q \in Rows \ {r} : rows'[q] = rows[q]
    BY <1>1
  <1>3. UNCHANGED <<due, phase, contract, outline, applied, lost>>
    BY DEF progressVars, periodVars, planVars
  <1>4. stale \subseteq stale' /\ crowd \subseteq crowd'
    BY DEF Wrote, Crowded
  <1>5. \A q : Clean(q)' => Clean(q) /\ q \notin stale'
    BY <1>4 DEF Clean
  <1>6. Extended' => Extended
    BY <1>3, <1>5 DEF Extended, Extends
  <1>7. \A q \in Rows \ {r} : Confirmed(q) => Confirmed(q)'
    BY <1>2, <1>5, <1>6 DEF Confirmed
  <1>8. w.status = "DC_PENDING_BGH" => Confirmed(r)'
    BY <1>2, <1>5, <1>6 DEF Confirmed
  <1>9. req'[d] = Idle /\ \A e \in Desks \ {d} : req'[e] = Late(e, r)
    BY DEF Wrote
  <1>10. \A e \in Desks : Holds(e)'
    <2>1. Holds(d)'
      BY <1>9 DEF Holds, Idle
    <2> QED
      BY <2>1, <1>1, <1>2, <1>3, <1>7, <1>9, OtherHolds
  <1>11. \A e \in Desks : Refreshing(e)' = Refreshing(e)
    <2>1. ~Refreshing(d) /\ ~Refreshing(d)'
      BY <1>9 DEF Refreshing, Idle
    <2>2. \A e \in Desks \ {d} : req'[e].op = req[e].op
      BY <1>1, <1>9, LateRequest
    <2> QED
      BY <2>1, <2>2 DEF Refreshing
  <1>12. \A k : Good(k) => Good(k)'
    BY <1>3 DEF Good
  <1>13. \A e \in Desks : Carried(e)'
    <2>1. ASSUME NEW e \in Desks, Refreshing(e)
          PROVE  Carried(e)'
      <3>1. e # d
        BY <2>1 DEF Refreshing
      <3>2. req'[e] = req[e]
        BY <2>1, <3>1, <1>9 DEF Late, Refreshing
      <3>3. Carried(e)
        BY DEF IInv
      <3> QED
        BY <2>1, <3>2, <3>3, <1>3, <1>11, <1>12 DEF Carried
    <2> QED
      BY <2>1, <1>11 DEF Carried
  <1>14. RowsInv'
    <2>1. \A p, q \in Rows :
            p # q /\ rows'[p].status \in OPEN /\ rows'[q].status \in OPEN => p \in crowd'
      BY DEF Crowded
    <2>2. \A q \in Rows : q >= next' => rows'[q].status = "none"
      BY <1>1, <1>2 DEF IInv, RowsInv, Rows
    <2>3. \A q \in Rows : rows'[q].status = "DC_PENDING_BGH" => Confirmed(q)'
      BY <1>2, <1>7, <1>8 DEF IInv, RowsInv
    <2> QED
      BY <2>1, <2>2, <2>3 DEF RowsInv
  <1>15. ChainInv'
    <2>1. ASSUME NEW i \in DOMAIN applied, applied[i].row \notin stale'
          PROVE  applied[i].row \in Rows \ {r}
      <3>1. rows[applied[i].row].status = "DC_APPROVED" /\ applied[i].row \in Rows
        BY <2>1, <1>1, <1>4, AppendixTypes DEF IInv, ChainInv, AppendicesChain, Appendices
      <3> QED
        BY <2>1, <3>1
    <2>2. AppendicesChain'
      BY <2>1, <1>2, <1>3, <1>4 DEF IInv, ChainInv, AppendicesChain
    <2>3. SecondExtensionConfirmed'
      BY <2>1, <1>2, <1>3, <1>4 DEF IInv, ChainInv, SecondExtensionConfirmed, Extends
    <2> QED
      BY <2>2, <2>3, <1>3 DEF IInv, ChainInv, Extends
  <1>16. DueInv'
    <2>1. phase # "signing"
      BY DEF IInv, DueInv, Idle
    <2> QED
      BY <2>1, <1>3, <1>11, <1>12 DEF IInv, DueInv
  <1> QED
    BY <1>10, <1>13, <1>14, <1>15, <1>16 DEF IInv

LEMMA SaveStep ==
    ASSUME IInv, TypeOK', ReminderInv', NEW d \in Desks, WriteSave(d)
    PROVE  IInv'
  <1>1. TypeOK /\ next \in Nat \ {0}
    BY DEF IInv, TypeOK
  <1>2. req[d] \in SaveReqs /\ req[d].op = "save" /\ UNCHANGED <<progressVars, planVars, lost>>
    BY <1>1, SaveWrites DEF SaveReqs
  <1>3. PICK r \in Rows, w \in Row :
            /\ r = (IF req[d].row = 0 THEN next ELSE req[d].row)
            /\ w.status = IF req[d].submit THEN "DC_PENDING_PKH"
                          ELSE IF req[d].row = 0 THEN "DC_DRAFT" ELSE rows[r].status
            /\ rows' = [rows EXCEPT ![r] = w] /\ Wrote(d, r) /\ Crowded
            /\ next' = IF req[d].row = 0 THEN next + 1 ELSE next
    BY <1>1, SaveWrites
  <1>4. Holds(d)
    BY DEF IInv
  <1>5. next' >= next /\ r < next'
    BY <1>1, <1>2, <1>3, <1>4 DEF Holds, Rows
  <1>6. r \notin stale' => rows[r].status \in EDITABLE \cup {"none"}
    <2>1. CASE req[d].row = 0
      BY <2>1, <1>1, <1>3 DEF IInv, RowsInv
    <2>2. CASE req[d].row # 0
      BY <2>2, <1>2, <1>3, <1>4 DEF Holds, Wrote
    <2> QED
      BY <2>1, <2>2
  <1>7. r \notin stale' => rows[r].status # "DC_APPROVED" /\ w.status # "DC_PENDING_BGH"
    <2>1. CASE req[d].row = 0
      BY <2>1, <1>3, <1>6 DEF EDITABLE
    <2>2. CASE req[d].row # 0
      BY <2>2, <1>2, <1>3, <1>4 DEF Holds, Wrote, EDITABLE
    <2> QED
      BY <2>1, <2>2
  <1> QED
    BY <1>2, <1>3, <1>5, <1>7, RowStep

LEMMA PkhStep ==
    ASSUME IInv, TypeOK', ReminderInv', NEW d \in Desks, WritePkh(d)
    PROVE  IInv'
  <1>1. TypeOK /\ next \in Nat \ {0} /\ Holds(d)
    BY DEF IInv, TypeOK
  <1>2. /\ req[d] \in PkhReqs /\ req[d].op = "pkh" /\ req[d].row \in Rows
        /\ UNCHANGED <<progressVars, planVars, next, lost>>
    BY <1>1, PkhWrites DEF PkhReqs
  <1>3. PICK w \in Row :
            /\ w.status = (IF req[d].accept THEN "DC_PENDING_BGH" ELSE "DC_BS")
            /\ w.form = rows[req[d].row].form /\ w.lead = rows[req[d].row].lead
            /\ rows' = [rows EXCEPT ![req[d].row] = w]
            /\ Wrote(d, req[d].row) /\ Crowded
    BY <1>1, PkhWrites
  <1>4. PICK r \in Rows : r = req[d].row
    BY <1>2
  <1>5. next' >= next /\ r < next'
    BY <1>1, <1>2, <1>4 DEF Holds, Rows
  <1>6. r \notin stale' => /\ rows[r].status # "DC_APPROVED"
                           /\ req[d].accept => Confirmed(r)
    BY <1>1, <1>2, <1>3, <1>4 DEF Holds, Wrote
  <1>7. r \notin stale' => /\ rows[r].status # "DC_APPROVED"
                           /\ w.status = "DC_PENDING_BGH" /\ Clean(r) /\ Extended
                                 /\ w.form.end # Keep => w.lead
    BY <1>3, <1>4, <1>6 DEF Confirmed
  <1> QED
    BY <1>2, <1>3, <1>4, <1>5, <1>7, RowStep

LEMMA RejectStep ==
    ASSUME IInv, TypeOK', ReminderInv', NEW d \in Desks, WriteReject(d)
    PROVE  IInv'
  <1>1. TypeOK /\ next \in Nat \ {0} /\ Holds(d)
    BY DEF IInv, TypeOK
  <1>2. /\ req[d] \in BghReqs /\ req[d].op = "reject" /\ req[d].row \in Rows
        /\ UNCHANGED <<progressVars, planVars, next, lost>>
    BY <1>1, RejectWrites DEF WriteReject, Running
  <1>3. PICK w \in Row :
            /\ w.status = "DC_REJECTED"
            /\ rows' = [rows EXCEPT ![req[d].row] = w]
            /\ Wrote(d, req[d].row) /\ Crowded
    BY <1>1, RejectWrites
  <1>4. PICK r \in Rows : r = req[d].row
    BY <1>2
  <1>5. next' >= next /\ r < next'
    BY <1>1, <1>2, <1>4 DEF Holds, Rows
  <1>6. r \notin stale' => rows[r].status # "DC_APPROVED"
    BY <1>1, <1>2, <1>3, <1>4 DEF Holds, Wrote
  <1> QED
    BY <1>2, <1>3, <1>4, <1>5, <1>6, RowStep

\* The confirmation changes neither the state nor the form, and is never withdrawn.
LEMMA LeadStep ==
    ASSUME IInv, TypeOK', ReminderInv', NEW d \in Desks, WriteLead(d)
    PROVE  IInv'
  <1>1. TypeOK
    BY DEF IInv
  <1>2. /\ req[d] \in LeadReqs /\ req[d].op = "lead" /\ req' = [req EXCEPT ![d] = Idle]
        /\ UNCHANGED <<due, phase, contract, outline, applied, next, stale, crowd, lost>>
    BY <1>1, LeadWrites DEF LeadReqs, progressVars, periodVars, planVars, pastVars
  <1>3. \A r \in Rows : /\ rows'[r].status = rows[r].status /\ rows'[r].form = rows[r].form
                        /\ rows[r].lead => rows'[r].lead
    BY <1>1, LeadWrites DEF TypeOK
  <1>4. req'[d] = Idle /\ \A e \in Desks \ {d} : req'[e] = req[e]
    BY <1>1, <1>2 DEF TypeOK
  <1>5. \A e \in Desks : Refreshing(e)' = Refreshing(e)
    BY <1>2, <1>4 DEF Refreshing, Idle
  <1>6. \A r \in Rows : Confirmed(r) => Confirmed(r)'
    BY <1>2, <1>3 DEF Confirmed, Clean, Extended, Extends
  <1>7. \A k : Good(k) => Good(k)'
    BY <1>2 DEF Good
  <1>8. ASSUME NEW e \in Desks
        PROVE  Holds(e)' /\ Carried(e)'
    <2>1. CASE e = d
      BY <2>1, <1>4 DEF Holds, Carried, Refreshing, Idle
    <2>2. CASE e # d
      <3>1. req'[e] = req[e] /\ Holds(e) /\ Carried(e)
        BY <2>2, <1>4 DEF IInv
      <3>2. req[e].op \in {"pkh", "approve", "reject"} => req[e].row \in Rows
        BY <1>1, RequestTypes DEF PkhReqs, BghReqs
      <3>3. req[e].op = "save" /\ req[e].row # 0 => req[e].row \in Rows
        BY <1>1, RequestTypes DEF SaveReqs
      <3>4. Holds(e)'
        BY <3>1, <3>2, <3>3, <1>2, <1>3, <1>6 DEF Holds
      <3>5. Carried(e)'
        BY <3>1, <1>2, <1>5, <1>7 DEF Carried
      <3> QED
        BY <3>4, <3>5
    <2> QED
      BY <2>1, <2>2
  <1>9. RowsInv'
    BY <1>2, <1>3, <1>6 DEF IInv, RowsInv
  <1>10. \A i \in DOMAIN applied : applied[i].row \in Rows
    BY <1>1, AppendixTypes DEF Appendices
  <1>11. AppendicesChain'
    BY <1>2, <1>3, <1>10 DEF IInv, ChainInv, AppendicesChain
  <1>12. SecondExtensionConfirmed'
    BY <1>2, <1>3, <1>10 DEF IInv, ChainInv, SecondExtensionConfirmed, Extends
  <1>13. ChainInv'
    BY <1>2, <1>11, <1>12 DEF IInv, ChainInv, Extends
  <1>14. DueInv'
    BY <1>2, <1>5, <1>7 DEF IInv, DueInv, Idle
  <1> QED
    BY <1>8, <1>9, <1>13, <1>14 DEF IInv

LEMMA ReadPeriodsStep ==
    ASSUME IInv, TypeOK', ReminderInv', NEW d \in Desks, ReadPeriods(d)
    PROVE  IInv'
  <1>1. TypeOK
    BY DEF IInv
  <1>2. /\ req[d].op = "committed"
        /\ req' = [req EXCEPT ![d] = [op |-> "refresh", outline |-> req[d].outline,
                                      due |-> due, left |-> Periods,
                                      behind |-> req[d].behind]]
        /\ UNCHANGED <<due, phase, contract, outline, applied, rows, next, stale, crowd, lost>>
    BY <1>1, ReadPeriodsWrites DEF progressVars, periodVars, planVars, askVars, pastVars
  <1>3. /\ req'[d].op = "refresh" /\ req'[d].outline = req[d].outline /\ req'[d].due = due
        /\ req'[d].left = Periods /\ req'[d].behind = req[d].behind
        /\ \A e \in Desks \ {d} : req'[e] = req[e]
    BY <1>1, <1>2 DEF TypeOK
  <1>4. \A e \in Desks : Refreshing(e)' = Refreshing(e)
    BY <1>2, <1>3 DEF Refreshing
  <1>5. \A k : Good(k) => Good(k)'
    BY <1>2 DEF Good
  <1>6. \A r : Confirmed(r) => Confirmed(r)'
    BY <1>2 DEF Confirmed, Clean, Extended, Extends
  <1>7. \A e \in Desks : Holds(e)'
    BY <1>2, <1>3, <1>6 DEF IInv, Holds
  <1>8. Carried(d)'
    <2>1. Refreshing(d) /\ Carried(d)
      BY <1>2 DEF Refreshing, IInv
    <2> QED
      BY <2>1, <1>2, <1>3, <1>4 DEF Carried
  <1>9. \A e \in Desks \ {d} : Carried(e)'
    BY <1>2, <1>3, <1>4, <1>5 DEF IInv, Carried
  <1>10. RowsInv'
    BY <1>2, <1>6 DEF IInv, RowsInv
  <1>11. ChainInv'
    BY <1>2 DEF IInv, ChainInv, AppendicesChain, SecondExtensionConfirmed, Extends
  <1>12. DueInv'
    BY <1>2, <1>4, <1>5 DEF IInv, DueInv, Idle
  <1> QED
    BY <1>7, <1>8, <1>9, <1>10, <1>11, <1>12 DEF IInv

LEMMA RefreshStep ==
    ASSUME IInv, TypeOK', ReminderInv', NEW d \in Desks, NEW k \in Periods, Refresh(d, k)
    PROVE  IInv'
  <1>1. TypeOK /\ Carried(d)
    BY DEF IInv
  <1> DEFINE new == Refreshed(req[d].due[k], k, req[d].outline.plan, req[d].outline.end)
  <1>2. /\ req[d] \in RefreshReqs /\ req[d].op = "refresh" /\ k \in req[d].left
        /\ due' = [due EXCEPT ![k] = IF new = req[d].due[k] THEN due[k] ELSE new]
        /\ req' = [req EXCEPT ![d] = [req[d] EXCEPT !.left = req[d].left \ {k}]]
        /\ UNCHANGED <<phase, contract, outline, applied, rows, next, stale, crowd, lost>>
    BY <1>1, RefreshWrites DEF planVars, askVars, pastVars
  <1>3. /\ req'[d].op = "refresh" /\ req'[d].outline = req[d].outline
        /\ req'[d].due = req[d].due /\ req'[d].left = req[d].left \ {k}
        /\ req'[d].behind = req[d].behind
        /\ \A e \in Desks \ {d} : req'[e] = req[e]
    BY <1>1, <1>2 DEF TypeOK, RefreshReqs
  <1>4. Refreshing(d) /\ \A e \in Desks : Refreshing(e)' = Refreshing(e)
    BY <1>2, <1>3 DEF Refreshing
  <1>5. due'[k] = (IF new = req[d].due[k] THEN due[k] ELSE new)
        /\ \A p \in Periods \ {k} : due'[p] = due[p]
    BY <1>1, <1>2 DEF TypeOK, ProgressTypeOK
  <1>6. \A p \in Periods \ {k} : Good(p) => Good(p)'
    BY <1>2, <1>5 DEF Good
  <1>7. \A r : Confirmed(r) => Confirmed(r)'
    BY <1>2 DEF Confirmed, Clean, Extended, Extends
  <1>8. \A e \in Desks : Holds(e)'
    BY <1>2, <1>3, <1>7 DEF IInv, Holds
  <1>9. Carried(d)'
    <2> SUFFICES ASSUME ~req[d].behind
                 PROVE  Carried(d)'
      BY <1>3 DEF Carried
    <2>1. /\ req[d].outline = outline /\ req[d].due[k] = due[k]
          /\ \A e \in Desks \ {d} : ~Refreshing(e)
          /\ \A p \in Periods : IF p \in req[d].left THEN req[d].due[p] = due[p] ELSE Good(p)
      BY <1>1, <1>2, <1>4 DEF Carried
    <2>2. Good(k)'
      <3>1. due'[k] = new
        BY <2>1, <1>5
      <3> QED
        BY <3>1, <2>1, <1>2, ProgressAssumption DEF Good, Refreshed
    <2>3. \A p \in Periods :
            IF p \in req'[d].left THEN req'[d].due[p] = due'[p] ELSE Good(p)'
      BY <2>1, <2>2, <1>3, <1>5, <1>6
    <2> QED
      BY <2>1, <2>3, <1>2, <1>3, <1>4 DEF Carried
  <1>10. \A e \in Desks \ {d} : Carried(e)'
    BY <1>2, <1>3, <1>4 DEF IInv, Carried
  <1>11. RowsInv'
    BY <1>2, <1>7 DEF IInv, RowsInv
  <1>12. ChainInv'
    BY <1>2 DEF IInv, ChainInv, AppendicesChain, SecondExtensionConfirmed, Extends
  <1>13. DueInv'
    BY <1>2, <1>4 DEF IInv, DueInv, Idle
  <1> QED
    BY <1>8, <1>9, <1>10, <1>11, <1>12, <1>13 DEF IInv

LEMMA EndStep ==
    ASSUME IInv, TypeOK', ReminderInv', NEW d \in Desks, EndRefresh(d) \/ Crash(d)
    PROVE  IInv'
  <1>1. TypeOK /\ Carried(d)
    BY DEF IInv
  <1>2. /\ req' = [req EXCEPT ![d] = Idle] /\ req[d] # Idle
        /\ UNCHANGED <<due, phase, contract, outline, applied, rows, next, stale, crowd>>
    BY <1>1, EndTypes DEF progressVars, periodVars, planVars, askVars
  <1>3. req'[d] = Idle /\ \A e \in Desks \ {d} : req'[e] = req[e]
    BY <1>1, <1>2 DEF TypeOK
  <1>4. ~Refreshing(d)' /\ \A e \in Desks \ {d} : Refreshing(e)' = Refreshing(e)
    BY <1>3 DEF Refreshing, Idle
  <1>5. \A k : Good(k) => Good(k)'
    BY <1>2 DEF Good
  <1>6. \A r : Confirmed(r) => Confirmed(r)'
    BY <1>2 DEF Confirmed, Clean, Extended, Extends
  <1>7. ASSUME NEW e \in Desks
        PROVE  Holds(e)' /\ Carried(e)'
    <2>1. CASE e = d
      BY <2>1, <1>3 DEF Holds, Carried, Refreshing, Idle
    <2>2. CASE e # d
      <3>1. req'[e] = req[e] /\ Holds(e) /\ Carried(e)
        BY <2>2, <1>3 DEF IInv
      <3>2. Holds(e)'
        BY <3>1, <1>2, <1>6 DEF Holds
      <3>3. \A f \in Desks : Refreshing(f)' => Refreshing(f)
        BY <1>4
      <3>4. Carried(e)'
        BY <3>1, <3>3, <1>2, <1>5 DEF Carried
      <3> QED
        BY <3>2, <3>4
    <2> QED
      BY <2>1, <2>2
  <1>8. RowsInv'
    BY <1>2, <1>6 DEF IInv, RowsInv
  <1>9. ChainInv'
    BY <1>2 DEF IInv, ChainInv, AppendicesChain, SecondExtensionConfirmed, Extends
  <1>10. DueInv'
    <2>1. phase # "signing"
      BY <1>2 DEF IInv, DueInv
    <2>2. ASSUME ~lost', \A e \in Desks : ~Refreshing(e)', NEW k \in Periods
          PROVE  Good(k)
      <3>1. CASE EndRefresh(d)
        <4>1. req[d].op = "refresh" /\ req[d].left = {} /\ ~req[d].behind
          BY <3>1, <2>2 DEF EndRefresh, Running
        <4> QED
          BY <4>1, <1>1 DEF Carried, Refreshing
      <3>2. CASE Crash(d)
        <4>1. ~lost /\ ~Refreshing(d)
          BY <3>2, <2>2 DEF Crash
        <4> QED
          BY <4>1, <2>1, <2>2, <1>4 DEF IInv, DueInv
      <3> QED
        BY <3>1, <3>2
    <2> QED
      BY <2>1, <2>2, <1>2, <1>5 DEF DueInv
  <1> QED
    BY <1>7, <1>8, <1>9, <1>10 DEF IInv

\* Adjusting changes the number of extensions by one, if it extends.
LEMMA AdjustedExtensions ==
    ASSUME NEW o \in Outlines, NEW f \in Forms \cup {NoForm}
    PROVE  /\ Adjusted(o, f).extensions = IF f.end = Keep THEN o.extensions
                                          ELSE o.extensions + 1
           /\ o.extensions \in Nat /\ Adjusted(o, f).extensions \in Nat
           /\ DOMAIN o = {"end", "owner", "plan", "budget", "extensions"}
  BY DEF Adjusted, Outlines

\* An approval that overtook no other takes its row as it was read and extends the
\* outline in force; every other approval and save knows that it is late.
LEMMA ApproveStep ==
    ASSUME IInv, TypeOK', ReminderInv', NEW d \in Desks, Approve(d)
    PROVE  IInv'
  <1> DEFINE b == req[d].behind \/ \E f \in Desks : Refreshing(f)
  <1>1. TypeOK /\ Holds(d)
    BY DEF IInv
  <1>2. PICK r \in Rows, new \in Outlines, a \in Appendices, w \in Row :
            /\ r = req[d].row /\ new = Adjusted(req[d].outline, req[d].form)
            /\ a = [row |-> r, before |-> req[d].outline, after |-> new,
                    behind |-> req[d].behind]
            /\ outline' = [c \in DOMAIN outline |->
                              IF new[c] = req[d].outline[c] THEN outline[c] ELSE new[c]]
            /\ applied' = Append(applied, a)
            /\ w.status = "DC_APPROVED" /\ w.form = rows[r].form /\ w.lead = rows[r].lead
            /\ rows' = [rows EXCEPT ![r] = w]
            /\ req'[d] = [op |-> "committed", outline |-> new, behind |-> b]
            /\ \A e \in Desks \ {d} : req'[e] = Behind(e, r)
            /\ stale' = IF req[d].late THEN stale \cup {r} ELSE stale
            /\ Crowded
            /\ UNCHANGED <<due, phase, contract, next, lost>>
    <2> DEFINE n == Adjusted(req[d].outline, req[d].form)
               p == [row |-> req[d].row, before |-> req[d].outline, after |-> n,
                     behind |-> req[d].behind]
    <2>1. p \in Appendices /\ n \in Outlines /\ req[d].row \in Rows
      BY <1>1, ApproveWrites
    <2>2. /\ outline' = [c \in DOMAIN outline |->
                            IF n[c] = req[d].outline[c] THEN outline[c] ELSE n[c]]
          /\ applied' = Append(applied, p)
          /\ req'[d] = [op |-> "committed", outline |-> n, behind |-> b]
          /\ \A e \in Desks \ {d} : req'[e] = Behind(e, req[d].row)
          /\ stale' = IF req[d].late THEN stale \cup {req[d].row} ELSE stale
          /\ Crowded
          /\ UNCHANGED <<due, phase, contract, next, lost>>
      BY <1>1, ApproveWrites DEF progressVars, periodVars
    <2>3. PICK w \in Row :
            /\ w.status = "DC_APPROVED" /\ w.form = rows[req[d].row].form
            /\ w.lead = rows[req[d].row].lead
            /\ rows' = [rows EXCEPT ![req[d].row] = w]
      BY <1>1, ApproveWrites
    <2> HIDE DEF n, p, b
    <2> QED
      BY <2>1, <2>2, <2>3 DEF n, p
  <1>3. /\ req[d] \in BghReqs /\ req[d].op = "approve" /\ ~Refreshing(d)
        /\ req[d].outline \in Outlines /\ req[d].form \in Forms \cup {NoForm}
    BY <1>1, ApproveWrites DEF BghReqs, Refreshing
  <1>4. /\ rows'[r].status = "DC_APPROVED" /\ rows'[r].form = rows[r].form
        /\ rows'[r].lead = rows[r].lead
        /\ \A q \in Rows \ {r} : rows'[q] = rows[q]
    BY <1>1, <1>2 DEF TypeOK
  <1>5. ~req[d].late => /\ rows[r].status = "DC_PENDING_BGH"
                        /\ rows[r].form = req[d].form /\ Confirmed(r)
    BY <1>1, <1>2, <1>3 DEF Holds, IInv, RowsInv
  <1>6. ~req[d].behind => req[d].outline = outline /\ outline' = new
    <2>1. ~req[d].behind => req[d].outline = outline
      BY <1>1, <1>3 DEF Holds
    <2> QED
      BY <2>1, <1>2, <1>3, DifferingColumns
  <1>7. /\ stale \subseteq stale' /\ crowd \subseteq crowd'
        /\ r \notin stale' => ~req[d].late
    BY <1>2 DEF Crowded
  <1>8. /\ DOMAIN applied = 1..Len(applied) /\ Len(applied) \in Nat
        /\ DOMAIN applied' = 1..Len(applied) + 1 /\ Len(applied') = Len(applied) + 1
        /\ applied'[Len(applied) + 1] = a
        /\ \A i \in DOMAIN applied : applied'[i] = applied[i] /\ i \in DOMAIN applied'
        /\ \A i \in DOMAIN applied' : i \in DOMAIN applied \/ i = Len(applied) + 1
    <2>1. applied \in Seq(Appendices)
      BY <1>1 DEF TypeOK
    <2> QED
      BY <1>2, <2>1
  <1>9. \A q : Clean(q)' => Clean(q) /\ q \notin stale'
    BY <1>7 DEF Clean
  <1>10. Clean(r)' => \A q \in Rows \ {r} : rows[q].status \notin OPEN
    BY <1>5, <1>7, <1>9 DEF Clean, IInv, RowsInv, OPEN
  <1>11. Extended' => Extended \/ Clean(r)'
    <2> SUFFICES ASSUME NEW i \in DOMAIN applied', applied'[i].row \notin stale' \cup crowd', Extends(i)'
                 PROVE  Extended \/ Clean(r)'
      BY DEF Extended, Clean
    <2>1. CASE i \in DOMAIN applied
      BY <2>1, <1>7, <1>8 DEF Extended, Extends, Clean
    <2>2. CASE i = Len(applied) + 1
      BY <2>2, <1>2, <1>8 DEF Clean
    <2> QED
      BY <2>1, <2>2, <1>8
  <1>12. \A q \in Rows \ {r} : rows[q].status \in OPEN /\ Confirmed(q) => Confirmed(q)'
    BY <1>4, <1>9, <1>10, <1>11 DEF Confirmed
  <1>13. \A e \in Desks \ {d} : /\ req'[e].op = req[e].op
                                /\ Refreshing(e)' = Refreshing(e)
                                /\ Refreshing(e) \/ req[e].op = "approve" => req'[e].behind
    <2>1. ASSUME NEW e \in Desks \ {d}
          PROVE  /\ req'[e].op = req[e].op
                 /\ Refreshing(e) \/ req[e].op = "approve" => req'[e].behind
      BY <1>1, <1>2, BehindRequest
    <2> QED
      BY <2>1 DEF Refreshing
  <1>14. Refreshing(d)' /\ req'[d].op = "committed" /\ req'[d].outline = new /\ req'[d].behind = b
    BY <1>2 DEF Refreshing
  <1>15. \A e \in Desks : Carried(e)'
    <2>1. Carried(d)'
      BY <1>6, <1>13, <1>14 DEF Carried
    <2> QED
      BY <2>1, <1>13 DEF Carried
  <1>16. ASSUME NEW e \in Desks \ {d}
         PROVE  Holds(e)'
    <2>1. Holds(e) /\ next \in Nat
      BY <1>1 DEF IInv, TypeOK
    <2>2. CASE req[e].op \in {"committed", "refresh"}
      BY <2>2, <1>13 DEF Holds
    <2>3. CASE req[e].op = "approve"
      <3>1. /\ req'[e].op = "approve" /\ req'[e].behind /\ req'[e].row = req[e].row
            /\ req'[e].late \/ (/\ req[e].row # r /\ ~req[e].late
                                /\ req'[e].form = req[e].form)
            /\ req[e].row \in Rows
        BY <2>3, <1>1, <1>2, BehindRequest, RequestTypes DEF BghReqs
      <3> QED
        BY <2>1, <2>3, <3>1, <1>2, <1>4 DEF Holds
    <2>4. CASE req[e].op \notin {"committed", "refresh", "approve"}
      <3>1. req'[e] = Late(e, r) /\ req'[e].op = req[e].op
        BY <2>4, <1>1, <1>2, BehindRequest, RequestTypes
      <3>2. CASE req'[e] = req[e] /\ (req[e].op \in {"save", "pkh", "approve", "reject"}
                                      => req[e].row # r)
        <4>1. req[e].op \in {"pkh", "reject"} => req[e].row \in Rows \ {r}
          BY <3>2, <1>1, RequestTypes DEF PkhReqs, BghReqs
        <4>2. req[e].op = "save" /\ req[e].row # 0 => req[e].row \in Rows \ {r}
          BY <3>2, <1>1, RequestTypes DEF SaveReqs
        <4>3. req[e].op = "pkh" /\ ~req[e].late => rows[req[e].row].status \in OPEN
          BY <2>1 DEF Holds, OPEN
        <4> QED
          BY <2>1, <2>4, <3>2, <4>1, <4>2, <4>3, <1>2, <1>4, <1>12 DEF Holds
      <3>3. CASE /\ req'[e].op \in {"save", "pkh", "approve", "reject"} /\ req'[e].late
                 /\ req'[e].row = req[e].row
        BY <2>1, <2>4, <3>1, <3>3, <1>2 DEF Holds
      <3> QED
        BY <3>1, <3>2, <3>3, <1>1, LateRequest
    <2> QED
      BY <2>2, <2>3, <2>4
  <1>17. Holds(d)'
    BY <1>14 DEF Holds
  <1>18. RowsInv'
    <2>1. \A p, q \in Rows :
            p # q /\ rows'[p].status \in OPEN /\ rows'[q].status \in OPEN => p \in crowd'
      BY <1>2 DEF Crowded
    <2>2. r < next
      BY <1>1, <1>2, <1>3 DEF Holds, Rows
    <2>3. \A q \in Rows : q >= next' => rows'[q].status = "none"
      BY <2>2, <1>1, <1>2, <1>4 DEF IInv, RowsInv, TypeOK, Rows
    <2>4. \A q \in Rows : rows'[q].status = "DC_PENDING_BGH" => Confirmed(q)'
      BY <1>4, <1>12 DEF IInv, RowsInv, OPEN
    <2> QED
      BY <2>1, <2>3, <2>4 DEF RowsInv
  <1>19. \A i \in DOMAIN applied : applied[i] \in Appendices
    BY <1>1, AppendixTypes
  <1>20. ASSUME NEW i \in DOMAIN applied, applied[i].row \notin stale'
         PROVE  applied[i].row # r \/ req[d].late
    BY <1>5, <1>7, <1>20 DEF IInv, ChainInv, AppendicesChain
  <1>21. AppendicesChain'
    <2>1. /\ applied' # <<>>
          /\ ~applied'[Len(applied')].behind => outline' = applied'[Len(applied')].after
      BY <1>2, <1>6, <1>8
    <2>2. ASSUME NEW i \in DOMAIN applied', ~applied'[i].behind,
                 i > 1 => ~applied'[i - 1].behind
          PROVE  applied'[i].before = IF i = 1 THEN contract ELSE applied'[i - 1].after
      <3>1. CASE i \in DOMAIN applied
        <4>1. i > 1 => i - 1 \in DOMAIN applied
          BY <3>1, <1>8
        <4> QED
          BY <2>2, <3>1, <4>1, <1>8 DEF IInv, ChainInv, AppendicesChain
      <3>2. CASE i = Len(applied) + 1 /\ Len(applied) = 0
        <4>1. outline = contract
          BY <3>2, <1>1 DEF IInv, ChainInv, AppendicesChain, TypeOK
        <4> QED
          BY <2>2, <3>2, <4>1, <1>2, <1>6, <1>8
      <3>3. CASE i = Len(applied) + 1 /\ Len(applied) > 0
        <4>1. applied # <<>> /\ Len(applied) \in DOMAIN applied /\ i - 1 = Len(applied)
          BY <3>3, <1>8
        <4>2. ~applied[Len(applied)].behind
          BY <2>2, <3>3, <4>1, <1>8
        <4>3. outline = applied[Len(applied)].after
          BY <4>1, <4>2 DEF IInv, ChainInv, AppendicesChain
        <4> QED
          BY <2>2, <3>3, <4>1, <4>3, <1>2, <1>6, <1>8
      <3> QED
        BY <3>1, <3>2, <3>3, <1>8
    <2>3. ASSUME NEW i \in DOMAIN applied', applied'[i].row \notin stale'
          PROVE  /\ rows'[applied'[i].row].status = "DC_APPROVED"
                 /\ applied'[i].after = Adjusted(applied'[i].before, rows'[applied'[i].row].form)
                 /\ \A j \in DOMAIN applied' : applied'[j].row = applied'[i].row => j = i
      <3>1. CASE i \in DOMAIN applied
        <4>1. applied'[i] = applied[i] /\ applied[i].row \in Rows /\ applied[i].row \notin stale
          BY <2>3, <3>1, <1>7, <1>8, <1>19 DEF Appendices
        <4>2. applied[i].row # r
          <5>1. applied[i].row = r => ~req[d].late
            BY <2>3, <4>1, <1>7
          <5> QED
            BY <2>3, <3>1, <4>1, <5>1, <1>20
        <4>3. /\ rows[applied[i].row].status = "DC_APPROVED"
              /\ applied[i].after = Adjusted(applied[i].before, rows[applied[i].row].form)
              /\ \A j \in DOMAIN applied : applied[j].row = applied[i].row => j = i
          BY <3>1, <4>1 DEF IInv, ChainInv, AppendicesChain
        <4>4. \A j \in DOMAIN applied' : applied'[j].row = applied'[i].row => j = i
          BY <4>1, <4>2, <4>3, <1>2, <1>8
        <4> QED
          BY <4>1, <4>2, <4>3, <4>4, <1>4
      <3>2. CASE i = Len(applied) + 1
        <4>1. applied'[i] = a /\ a.row = r /\ ~req[d].late
          BY <2>3, <3>2, <1>2, <1>7, <1>8
        <4>2. a.after = Adjusted(a.before, rows'[r].form)
          BY <4>1, <1>2, <1>4, <1>5
        <4>3. \A j \in DOMAIN applied : applied[j].row # r
          BY <2>3, <4>1, <1>20
        <4> QED
          BY <3>2, <4>1, <4>2, <4>3, <1>4, <1>8
      <3> QED
        BY <3>1, <3>2, <1>8
    <2> QED
      BY <2>1, <2>2, <2>3, <1>2 DEF AppendicesChain
  <1>22. SecondExtensionConfirmed'
    <2> SUFFICES ASSUME NEW i \in DOMAIN applied', NEW j \in DOMAIN applied',
                        i < j, Extends(i)', Extends(j)',
                        {applied'[i].row, applied'[j].row} \cap (stale' \cup crowd') = {}
                 PROVE  rows'[applied'[j].row].lead
      BY DEF SecondExtensionConfirmed
    <2>1. i \in DOMAIN applied /\ applied'[i] = applied[i] /\ Extends(i)
      BY <1>8 DEF Extends
    <2>2. Clean(applied[i].row) /\ Clean(applied'[j].row) /\ applied'[j].row \notin stale' \cup crowd'
      BY <2>1, <1>7 DEF Clean
    <2>3. CASE j \in DOMAIN applied
      <3>1. applied'[j] = applied[j] /\ Extends(j) /\ applied[j].row \in Rows
        BY <2>3, <1>8, <1>19 DEF Extends, Appendices
      <3>2. rows[applied[j].row].lead
        BY <2>1, <2>2, <2>3, <3>1 DEF Clean, IInv, ChainInv, SecondExtensionConfirmed
      <3> QED
        BY <3>1, <3>2, <1>4
    <2>4. CASE j = Len(applied) + 1
      <3>1. applied'[j] = a /\ a.row = r /\ a.before = req[d].outline /\ a.after = new
        BY <2>4, <1>2, <1>8
      <3>2. ~req[d].late
        BY <2>2, <3>1, <1>9, <1>7
      <3>3. req[d].form.end # Keep
        <4>1. new.extensions > req[d].outline.extensions
          BY <3>1 DEF Extends
        <4> QED
          BY <4>1, <1>2, <1>3, AdjustedExtensions
      <3>4. Extended
        BY <2>1, <2>2 DEF Extended
      <3> QED
        BY <2>2, <3>1, <3>2, <3>3, <3>4, <1>4, <1>5 DEF Confirmed
    <2> QED
      BY <2>3, <2>4, <1>8
  <1>23. ASSUME NEW i \in DOMAIN applied', Extends(i)'
         PROVE  outline'.extensions >= 1
    <2>1. outline \in Outlines /\ outline.extensions \in Nat
          /\ DOMAIN outline = {"end", "owner", "plan", "budget", "extensions"}
      BY <1>1 DEF TypeOK, Outlines
    <2>2. outline'.extensions = IF new.extensions = req[d].outline.extensions
                                THEN outline.extensions ELSE new.extensions
      BY <2>1, <1>2
    <2>3. new.extensions # req[d].outline.extensions => new.extensions >= 1
      BY <1>2, <1>3, AdjustedExtensions
    <2>4. CASE i \in DOMAIN applied
      <3>1. outline.extensions >= 1
        BY <2>4, <1>8, <1>23 DEF Extends, IInv, ChainInv
      <3> QED
        BY <2>2, <2>3, <3>1
    <2>5. CASE i = Len(applied) + 1
      <3>1. new.extensions > req[d].outline.extensions
        BY <2>5, <1>2, <1>8, <1>23 DEF Extends
      <3>2. new.extensions # req[d].outline.extensions
        BY <3>1, <1>2, <1>3, AdjustedExtensions
      <3> QED
        BY <2>2, <2>3, <3>2
    <2> QED
      BY <2>4, <2>5, <1>8
  <1>24. ChainInv'
    BY <1>21, <1>22, <1>23 DEF ChainInv
  <1>25. DueInv'
    <2>1. phase # "signing"
      BY <1>3 DEF IInv, DueInv, Idle
    <2> QED
      BY <2>1, <1>2, <1>14 DEF DueInv
  <1> QED
    BY <1>15, <1>16, <1>17, <1>18, <1>24, <1>25 DEF IInv

----------------------------------------------------------------------------
LEMMA NextInv ==
    IInv /\ [Next]_vars => IInv'
  <1> SUFFICES ASSUME IInv, [Next]_vars
               PROVE  IInv'
    OBVIOUS
  <1>1. TypeOK /\ ReminderInv /\ TypeOK' /\ ReminderInv'
    BY NextTypes DEF IInv
  <1>2. CASE CnnvSign
    BY <1>1, <1>2, SignStep
  <1>3. CASE Evaluate
    BY <1>1, <1>3, EvaluateTypes, AroundStep
       DEF Evaluate, progressVars, periodVars, askVars, pastVars
  <1>4. CASE Report
    BY <1>1, <1>4, ReportTypes, AroundStep DEF planVars, askVars, pastVars
  <1>5. CASE Reminders
    BY <1>1, <1>5, RemindersTypes, AroundStep DEF planVars, askVars, pastVars
  <1>6. ASSUME NEW d \in Desks, Ask(d) \/ Continue(d) \/ Crash(d)
        PROVE  IInv'
    BY <1>1, <1>6, AskStep, SaveStep, PkhStep, LeadStep, RejectStep, ApproveStep,
       ReadPeriodsStep, RefreshStep, EndStep DEF Continue
  <1>7. CASE UNCHANGED vars
    BY <1>1, <1>7, AroundStep
       DEF vars, progressVars, periodVars, planVars, askVars, pastVars
  <1> QED
    BY <1>2, <1>3, <1>4, <1>5, <1>6, <1>7 DEF Next

----------------------------------------------------------------------------
\* Every state of the adjustments has the types the code gives its columns.
THEOREM TypeCorrect ==
    Spec => []TypeOK
  <1>1. Init => TypeOK /\ ReminderInv
    BY InitTypes, InitReminders DEF Init
  <1> QED
    BY <1>1, NextTypes, PTL DEF Spec

\* No reminder is mailed twice, however many runs send them and however due dates
\* move, unless a run stopped before its mark or another one read the period
\* before it (sendReminders).
THEOREM OneReminder ==
    Spec => []RemindedOnce
  <1>1. Init => TypeOK /\ ReminderInv
    BY InitTypes, InitReminders DEF Init
  <1>2. ReminderInv => RemindedOnce
    BY DEF ReminderInv
  <1> QED
    BY <1>1, <1>2, NextTypes, PTL DEF Spec

\* What the next three rest on: what a request has read still holds, or it knows
\* that it is late or behind, for any number of requests in flight.
THEOREM Invariant ==
    Spec => []IInv
  <1> QED
    BY InitInv, NextInv, PTL DEF Spec

\* The appendices lead from the contract to the outline in force, in the order
\* BGH approved them, but for approvals that overtook another (bghAct).
THEOREM Chain ==
    Spec => []AppendicesChain
  <1> QED
    BY InvGives, Invariant, PTL

\* No second extension without the head of PKH, unless two requests were open at
\* once or one was saved over another (pkhAct, leadConfirm).
THEOREM Confirmation ==
    Spec => []SecondExtensionConfirmed
  <1> QED
    BY InvGives, Invariant, PTL

\* The periods not yet reported are due as the outline in force says, unless the
\* last refresh stopped half-way or met another approval (refreshAfterAdjustment).
THEOREM DueDates ==
    Spec => []DueDatesFollowPlan
  <1> QED
    BY InvGives, Invariant, PTL
=============================================================================
