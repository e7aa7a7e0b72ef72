------------------------ MODULE CfpBroadcastProofs ------------------------
(***************************************************************************)
(* Proofs about CfpBroadcast, for any addresses, deployments and workers,  *)
(* any number of resume commands, and any number of deaths and failed      *)
(* queries. They rest on two facts: nobody but a broadcast itself makes a  *)
(* row of it SENT, and what a broadcast holds in memory accounts for every *)
(* address that has no such row.                                           *)
(***************************************************************************)
EXTENDS CfpBroadcast, TLAPS

Reading == {"sweep", "next", "smtp", "save"}
Sent(a) == \E q \in Runs : log[q][a] = "SENT"

----------------------------------------------------------------------------
(* Types.                                                                  *)

LEMMA Numbers == /\ Runs \subseteq Nat /\ Jobs = Runs /\ NoRow = 0
                 /\ None \notin Jobs \cup {NoRow} \cup Addr \cup Entries
BY BroadcastAssumption DEF Runs, Jobs, NoRow, Entries

LEMMA TypeInit == BroadcastInit => TypeOK
<1> SUFFICES ASSUME BroadcastInit PROVE TypeOK
  OBVIOUS
<1>1. Free \in Entry /\ Idle \in Run /\ Idle.at = "none" /\ Idle.now = None
  BY BroadcastAssumption DEF Free, EntryOf, Idle, Broadcast, Entry, Run, NoRow
<1>2. [status |-> "NONE", clean |-> FALSE] \in Job
  BY DEF Job
<1>3. /\ entry \in [Entries -> Entry] /\ job \in [Jobs -> Job]
      /\ run \in [Runs -> Run] /\ \A r \in Runs : run[r] = Idle
  BY <1>1, <1>2 DEF BroadcastInit
<1>4. /\ log \in [Runs -> [Addr -> LogStatus]] /\ inbox \in [Addr -> SUBSET Runs]
      /\ before \in [Runs -> SUBSET Runs] /\ pushed \subseteq Runs
  BY DEF BroadcastInit, LogStatus
<1>5. /\ status \in CfpStatus /\ agreed = FALSE /\ period = None
      /\ lost = FALSE /\ conf \in Confs /\ dispatch = None
      /\ resumes = 0 /\ faults = 0
  BY DEF BroadcastInit, CallInit, CfpStatus
<1>7. /\ period \in {None, "OPEN", "CLOSED"} /\ dispatch \in Jobs \cup {NoRow, None}
      /\ {resumes, faults} \subseteq Nat
  BY <1>5
<1>8. agreed \in BOOLEAN /\ lost \in BOOLEAN
  BY <1>5
<1>6. \A r \in Runs :
         /\ run[r].at \notin {"none", "open", "over"} => run[r].job \in Jobs
         /\ run[r].at \in {"smtp", "save"} <=> run[r].now # None
         /\ run[r].at = "save" => run[r].result # None
  BY <1>1, <1>3
<1> QED
  BY <1>3, <1>4, <1>5, <1>6, <1>7, <1>8 DEF TypeOK

LEMMA OverIsRun == Over \in Run /\ Over.at = "over" /\ Over.now = None
BY BroadcastAssumption DEF Over, Broadcast, Run, NoRow

LEMMA StartedIsRun ==
  ASSUME NEW host \in Entries \cup {Api}, NEW row \in Jobs \cup {NoRow}
  PROVE  /\ Broadcast("open", host, row) \in Run
         /\ Broadcast("open", host, row).at = "open"
         /\ Broadcast("open", host, row).now = None
BY BroadcastAssumption DEF Broadcast, Run

LEMMA DoneIsEntry == Done \in Entry
BY BroadcastAssumption DEF Done, EntryOf, Entry, NoRow

\* A broadcast that ends or dies leaves well-typed rows.
LEMMA EndTypes ==
  ASSUME TypeOK, NEW r \in Runs, End(r)
  PROVE  /\ run' \in [Runs -> Run] /\ run' = [run EXCEPT ![r] = Over]
         /\ entry' \in [Entries -> Entry]
BY OverIsRun, DoneIsEntry DEF TypeOK, End

LEMMA DispatchTypes ==
  ASSUME TypeOK,
         CallStep \/ PublishCall \/ ResumeBroadcast \/ Enqueue \/ SendHere \/ GiveUp
  PROVE  TypeOK'
<1> USE DEF TypeOK
<1>1. CASE CallStep
  BY <1>1 DEF CallStep, CallNext, Update, Submit, HeadApprove, Approve,
     ReturnToPkh, Close, mailVars, CfpStatus
<1>2. CASE PublishCall
  BY <1>2 DEF PublishCall, Publish, mailVars, CfpStatus
<1>3. CASE ResumeBroadcast
  BY <1>3 DEF ResumeBroadcast, callVars, mailVars
<1>4. CASE Enqueue
  <2>1. dispatch \in Jobs \cup {NoRow}
    BY <1>4 DEF Enqueue
  <2>2. entry' \in [Entries -> Entry]
    BY <1>4, <2>1, BroadcastAssumption DEF Enqueue, Entry, EntryOf
  <2> QED
    BY <1>4, <2>2 DEF Enqueue, callVars, mailVars
<1>5. CASE SendHere
  <2>1. PICK r \in Runs :
           run' = [run EXCEPT ![r] = Broadcast("open", Api, dispatch)]
    BY <1>5 DEF SendHere, StartRun
  <2>2. dispatch \in Jobs \cup {NoRow}
    BY <1>5 DEF SendHere
  <2>3. run' \in [Runs -> Run]
    BY <2>1, <2>2, StartedIsRun
  <2>4. \A q \in Runs :
           /\ run'[q].at \notin {"none", "open", "over"} => run'[q].job \in Jobs
           /\ run'[q].at \in {"smtp", "save"} <=> run'[q].now # None
           /\ run'[q].at = "save" => run'[q].result # None
    BY <2>1, <2>2, StartedIsRun
  <2>5. faults' \in Nat
    BY <1>5 DEF SendHere, Fault
  <2> QED
    BY <1>5, <2>3, <2>4, <2>5 DEF SendHere, callVars, mailVars
<1>6. CASE GiveUp
  <2>1. job' \in [Jobs -> Job]
    BY <1>6 DEF GiveUp, Job
  <2>2. faults' \in Nat /\ lost' \in BOOLEAN
    BY <1>6 DEF GiveUp, Fault
  <2> QED
    BY <1>6, <2>1, <2>2 DEF GiveUp, callVars, mailVars
<1> QED
  BY <1>1, <1>2, <1>3, <1>4, <1>5, <1>6

LEMMA HandOutTypes ==
  ASSUME TypeOK, NEW e \in Entries, NEW again \in BOOLEAN,
         NEW stalls \in Nat, NEW tries \in Nat,
         again => stalls <= MaxStalls /\ tries < Attempts,
         HandOut(e, again, stalls, tries)
  PROVE  entry' \in [Entries -> Entry] /\ lost' \in BOOLEAN
<1>1. entry[e] \in Entry /\ entry \in [Entries -> Entry] /\ lost \in BOOLEAN
  BY DEF TypeOK
<1>2. CASE again
  <2>1. /\ stalls \in 0 .. MaxStalls /\ tries \in 0 .. Attempts - 1
        /\ entry[e].resume \in Jobs \cup {NoRow}
    BY <1>1, <1>2, BroadcastAssumption DEF Entry
  <2>2. EntryOf("waiting", entry[e].resume, stalls, tries) \in Entry
    BY <2>1 DEF Entry, EntryOf
  <2> QED
    BY <1>1, <1>2, <2>2 DEF HandOut
<1>3. CASE ~again
  BY <1>1, <1>3, DoneIsEntry DEF HandOut
<1> QED
  BY <1>2, <1>3

LEMMA EntryNumbers ==
  ASSUME TypeOK, NEW e \in Entries
  PROVE  /\ entry[e].stalls \in Nat /\ entry[e].stalls <= MaxStalls
         /\ entry[e].tries \in Nat /\ entry[e].tries < Attempts
<1>1. entry[e] \in Entry
  BY DEF TypeOK
<1> QED
  BY <1>1, BroadcastAssumption DEF Entry

LEMMA WorkerTypes ==
  ASSUME TypeOK, NEW e \in Entries, Take(e) \/ WorkerDies(e)
  PROVE  TypeOK'
<1> USE DEF TypeOK
<1>1. CASE Take(e)
  <2>1. PICK r \in Runs :
           run' = [run EXCEPT ![r] = Broadcast("open", e, entry[e].resume)]
    BY <1>1 DEF Take, StartRun
  <2>2. entry[e].resume \in Jobs \cup {NoRow}
    BY DEF Entry
  <2>3. run' \in [Runs -> Run]
    BY <2>1, <2>2, StartedIsRun
  <2>4. \A q \in Runs :
           /\ run'[q].at \notin {"none", "open", "over"} => run'[q].job \in Jobs
           /\ run'[q].at \in {"smtp", "save"} <=> run'[q].now # None
           /\ run'[q].at = "save" => run'[q].result # None
    BY <2>1, <2>2, StartedIsRun
  <2>5. entry' \in [Entries -> Entry]
    BY <1>1 DEF Take, Entry
  <2> QED
    BY <1>1, <2>3, <2>4, <2>5 DEF Take, callVars, mailVars
<1>2. CASE WorkerDies(e)
  <2>1. run' \in [Runs -> Run]
    BY <1>2, OverIsRun DEF WorkerDies
  <2>2. \A q \in Runs : run'[q] = Over \/ run'[q] = run[q]
    BY <1>2 DEF WorkerDies
  <2>3. HandOut(e, entry[e].stalls < MaxStalls, entry[e].stalls + 1, entry[e].tries)
    BY <1>2 DEF WorkerDies
  <2>4. entry' \in [Entries -> Entry] /\ lost' \in BOOLEAN
    <3>1. entry[e].stalls < MaxStalls =>
             entry[e].stalls + 1 <= MaxStalls /\ entry[e].tries < Attempts
      BY EntryNumbers, BroadcastAssumption
    <3>2. /\ entry[e].stalls + 1 \in Nat /\ entry[e].tries \in Nat
          /\ (entry[e].stalls < MaxStalls) \in BOOLEAN
      BY EntryNumbers
    <3> HIDE DEF TypeOK
    <3> QED
      BY <2>3, <3>1, <3>2, HandOutTypes
  <2>5. faults' \in Nat
    BY <1>2 DEF WorkerDies, Fault
  <2>6. \A q \in Runs :
           /\ run'[q].at \notin {"none", "open", "over"} => run'[q].job \in Jobs
           /\ run'[q].at \in {"smtp", "save"} <=> run'[q].now # None
           /\ run'[q].at = "save" => run'[q].result # None
    BY <2>2, OverIsRun
  <2> QED
    BY <1>2, <2>1, <2>4, <2>5, <2>6 DEF WorkerDies, callVars, mailVars
<1> QED
  BY <1>1, <1>2

LEMMA ApiTypes == ASSUME TypeOK, ApiDies PROVE TypeOK'
<1> USE DEF TypeOK
<1>1. run' \in [Runs -> Run]
  BY OverIsRun DEF ApiDies
<1>2. \A q \in Runs : run'[q] = Over \/ run'[q] = run[q]
  BY DEF ApiDies
<1>3. \A q \in Runs :
         /\ run'[q].at \notin {"none", "open", "over"} => run'[q].job \in Jobs
         /\ run'[q].at \in {"smtp", "save"} <=> run'[q].now # None
         /\ run'[q].at = "save" => run'[q].result # None
  BY <1>2, OverIsRun
<1>4. faults' \in Nat /\ lost' \in BOOLEAN
  BY DEF ApiDies, Fault
<1> QED
  BY <1>1, <1>3, <1>4 DEF ApiDies, callVars, mailVars

\* What a step of one broadcast may write, and that this keeps the types.
LEMMA MemoryTypes ==
  ASSUME TypeOK, NEW r \in Runs, NEW m \in Run, run' = [run EXCEPT ![r] = m],
         m.at \notin {"none", "open", "over"} => m.job \in Jobs,
         m.at \in {"smtp", "save"} <=> m.now # None,
         m.at = "save" => m.result # None
  PROVE  /\ run' \in [Runs -> Run]
         /\ \A q \in Runs :
               /\ run'[q].at \notin {"none", "open", "over"} => run'[q].job \in Jobs
               /\ run'[q].at \in {"smtp", "save"} <=> run'[q].now # None
               /\ run'[q].at = "save" => run'[q].result # None
BY DEF TypeOK

LEMMA ThrowTypes ==
  ASSUME TypeOK, NEW r \in Runs, Throw(r)
  PROVE  TypeOK'
<1>1. run' = [run EXCEPT ![r] = Over] /\ faults' \in Nat
  BY DEF TypeOK, Throw, Fault
<1>2. entry' \in [Entries -> Entry] /\ lost' \in BOOLEAN
  <2>1. CASE lost' = TRUE /\ UNCHANGED entry
    BY <2>1 DEF TypeOK
  <2>2. ASSUME NEW e \in Entries,
               HandOut(e, entry[e].tries + 1 < Attempts, entry[e].stalls,
                       entry[e].tries + 1)
        PROVE  entry' \in [Entries -> Entry] /\ lost' \in BOOLEAN
    <3>1. /\ entry[e].stalls \in Nat /\ entry[e].stalls <= MaxStalls
          /\ entry[e].tries + 1 \in Nat
          /\ (entry[e].tries + 1 < Attempts) \in BOOLEAN
      BY EntryNumbers
    <3> QED
      BY <2>2, <3>1, HandOutTypes
  <2> QED
    BY <2>1, <2>2 DEF Throw
<1> QED
  BY <1>1, <1>2, OverIsRun, MemoryTypes DEF Throw, TypeOK, callVars, mailVars

LEMMA WorkTypes ==
  ASSUME TypeOK, NEW r \in Runs, Work(r) \/ Break(r)
  PROVE  TypeOK'
<1> USE DEF TypeOK
<1>0. run[r] \in Run
  OBVIOUS
<1>1. CASE Open(r)
  <2>1. PICK j \in Jobs :
           /\ job' = [job EXCEPT ![j] = [status |-> "RUNNING", clean |-> FALSE]]
           /\ run' = [run EXCEPT ![r].job = j,
                         ![r].at = IF run[r].job = NoRow THEN "push" ELSE "read"]
    BY <1>1 DEF Open
  <2> DEFINE m == [run[r] EXCEPT !.job = j,
                      !.at = IF run[r].job = NoRow THEN "push" ELSE "read"]
  <2>2. m \in Run /\ m.job = j /\ m.at \in {"push", "read"} /\ m.now = None
    BY <1>0, <1>1 DEF Open, Run
  <2>3. run' = [run EXCEPT ![r] = m]
    BY <2>1
  <2>4. job' \in [Jobs -> Job]
    BY <2>1 DEF Job
  <2> HIDE DEF m
  <2> QED
    BY <1>1, <2>2, <2>3, <2>4, MemoryTypes DEF Open, callVars, mailVars
<1>2. CASE PushMany(r)
  <2> DEFINE m == [run[r] EXCEPT !.at = "read"]
  <2>1. m \in Run /\ m.job \in Jobs /\ m.at = "read" /\ m.now = None
    BY <1>0, <1>2 DEF PushMany, Run
  <2>2. run' = [run EXCEPT ![r] = m] /\ pushed' \subseteq Runs
    BY <1>2 DEF PushMany, Goto
  <2> HIDE DEF m
  <2> QED
    BY <1>2, <2>1, <2>2, MemoryTypes DEF PushMany, callVars
<1>3. CASE ReadSent(r)
  <2> DEFINE m == [run[r] EXCEPT !.at = "sweep", !.todo = Addr \ AlreadySent]
  <2>1. m \in Run /\ m.job \in Jobs /\ m.at = "sweep" /\ m.now = None
    BY <1>0, <1>3 DEF ReadSent, Run
  <2>2. run' = [run EXCEPT ![r] = m]
    BY <1>3 DEF ReadSent
  <2>3. before' \in [Runs -> SUBSET Runs]
    <3>1. {q \in Runs : run[q].at = "over"} \in SUBSET Runs
      OBVIOUS
    <3> QED
      BY <1>3, <3>1 DEF ReadSent
  <2>4. UNCHANGED <<status, agreed, period, conf, dispatch, resumes, entry, job,
                    log, inbox, pushed, faults, lost>>
    BY <1>3 DEF ReadSent, callVars
  <2> HIDE DEF m
  <2> QED
    BY <2>1, <2>2, <2>3, <2>4, MemoryTypes
<1>4. CASE Sweep(r)
  <2> DEFINE m == [run[r] EXCEPT !.at = "next"]
  <2>1. m \in Run /\ m.job \in Jobs /\ m.at = "next" /\ m.now = None
    BY <1>0, <1>4 DEF Sweep, Run
  <2>2. run' = [run EXCEPT ![r] = m] /\ log' \in [Runs -> [Addr -> LogStatus]]
    BY <1>4 DEF Sweep, Goto, LogStatus
  <2> HIDE DEF m
  <2> QED
    BY <1>4, <2>1, <2>2, MemoryTypes DEF Sweep, callVars
<1>5. ASSUME NEW a \in Addr, LogPending(r, a) PROVE TypeOK'
  <2> DEFINE m == [run[r] EXCEPT !.at = "smtp", !.now = a, !.todo = @ \ {a}]
             n == [run[r] EXCEPT !.failed = TRUE, !.todo = @ \ {a}]
  <2>1. m \in Run /\ m.job \in Jobs /\ m.at = "smtp" /\ m.now # None
    BY <1>0, <1>5, BroadcastAssumption, Numbers DEF LogPending, Run
  <2>2. n \in Run /\ n.job \in Jobs /\ n.at = "next" /\ n.now = None
    BY <1>0, <1>5 DEF LogPending, Run
  <2>3. run' = [run EXCEPT ![r] = m] \/ run' = [run EXCEPT ![r] = n]
    BY <1>5 DEF LogPending
  <2>4. log' \in [Runs -> [Addr -> LogStatus]]
    <3>1. log' = [log EXCEPT ![r][a] = "PENDING"] \/ log' = log
      BY <1>5 DEF LogPending
    <3>2. [log[r] EXCEPT ![a] = "PENDING"] \in [Addr -> LogStatus]
      BY DEF LogStatus
    <3>3. [log EXCEPT ![r][a] = "PENDING"] \in [Runs -> [Addr -> LogStatus]]
      BY <3>2
    <3> QED
      BY <3>1, <3>3
  <2>5. faults' \in Nat
    BY <1>5 DEF LogPending, Fault
  <2>6. lost' = lost \/ lost' = TRUE
    BY <1>5 DEF LogPending
  <2>7. lost' \in BOOLEAN
    BY <2>6
  <2> HIDE DEF m, n
  <2> QED
    BY <1>5, <2>1, <2>2, <2>3, <2>4, <2>5, <2>7, MemoryTypes DEF LogPending, callVars
<1>6. CASE Smtp(r)
  <2>1. PICK result \in {"SENT", "FAILED", "STUB"}, taken \in BOOLEAN :
           /\ inbox' = IF taken THEN [inbox EXCEPT ![run[r].now] = @ \cup {r}]
                       ELSE inbox
           /\ run' = [run EXCEPT ![r].at = "save", ![r].result = result]
    BY <1>6 DEF Smtp
  <2> DEFINE m == [run[r] EXCEPT !.at = "save", !.result = result]
  <2>2. /\ m \in Run /\ m.job \in Jobs /\ m.at = "save" /\ m.now # None
        /\ m.result = result
    BY <1>0, <1>6 DEF Smtp, Run
  <2>3. run' = [run EXCEPT ![r] = m] /\ inbox' \in [Addr -> SUBSET Runs]
    BY <2>1
  <2>4. m.result # None
    BY <2>2, BroadcastAssumption
  <2> HIDE DEF m
  <2> QED
    BY <1>6, <2>2, <2>3, <2>4, MemoryTypes DEF Smtp, callVars
<1>7. CASE SaveLog(r)
  <2> DEFINE m(f) == [run[r] EXCEPT !.at = "next", !.now = None, !.result = None,
                                    !.failed = f]
  <2>1. ASSUME NEW f \in BOOLEAN
        PROVE  m(f) \in Run /\ m(f).job \in Jobs /\ m(f).at = "next" /\ m(f).now = None
    BY <1>0, <1>7 DEF SaveLog, Run
  <2>2. \E f \in BOOLEAN : run' = [run EXCEPT ![r] = m(f)]
    <3>1. run[r].failed \in BOOLEAN
      BY <1>0 DEF Run
    <3>2. \/ run' = [run EXCEPT ![r] = m(run[r].failed \/ run[r].result # "SENT")]
          \/ run' = [run EXCEPT ![r] = m(TRUE)]
      BY <1>7 DEF SaveLog
    <3>3. (run[r].failed \/ run[r].result # "SENT") \in BOOLEAN /\ TRUE \in BOOLEAN
      OBVIOUS
    <3> QED
      BY <3>2, <3>3
  <2>3. log' \in [Runs -> [Addr -> LogStatus]]
    <3>1. {run[r].result, "FAILED"} \subseteq LogStatus
      BY <1>0, <1>7 DEF SaveLog, Run, LogStatus
    <3>2. \/ log' = log
          \/ \E st \in LogStatus : log' = [log EXCEPT ![r][run[r].now] = st]
      BY <1>7, <3>1 DEF SaveLog
    <3>3. log \in [Runs -> [Addr -> LogStatus]]
      OBVIOUS
    <3>4. ASSUME NEW st \in LogStatus, log' = [log EXCEPT ![r][run[r].now] = st]
          PROVE  log' \in [Runs -> [Addr -> LogStatus]]
      <4>1. [log[r] EXCEPT ![run[r].now] = st] \in [Addr -> LogStatus]
        BY <3>3
      <4> HIDE DEF TypeOK
      <4> QED
        BY <3>3, <3>4, <4>1
    <3> HIDE DEF TypeOK
    <3> QED
      BY <3>2, <3>3, <3>4
  <2>4. faults' \in Nat
    BY <1>7 DEF SaveLog, Fault
  <2> HIDE DEF m
  <2> QED
    <3>1. PICK f \in BOOLEAN : run' = [run EXCEPT ![r] = m(f)]
      BY <2>2
    <3>2. UNCHANGED <<status, agreed, period, conf, dispatch, resumes, entry, job,
                      inbox, pushed, before, lost>>
      BY <1>7 DEF SaveLog, callVars
    <3>3. m(f) \in Run /\ m(f).job \in Jobs /\ m(f).at = "next" /\ m(f).now = None
      BY <2>1
    <3> QED
      BY <2>3, <2>4, <3>1, <3>2, <3>3, MemoryTypes
<1>8. ASSUME Finish(r) \/ Break(r) PROVE TypeOK'
  <2>1. /\ run' \in [Runs -> Run] /\ run' = [run EXCEPT ![r] = Over]
        /\ entry' \in [Entries -> Entry]
    BY <1>8, EndTypes DEF Finish, Break
  <2>2. run[r].job \in Jobs /\ run[r].failed \in BOOLEAN
    BY <1>0, <1>8 DEF Finish, Break, Run
  <2>3. job' \in [Jobs -> Job]
    <3>1. /\ [status |-> "DONE", clean |-> ~run[r].failed] \in Job
          /\ [status |-> "FAILED", clean |-> FALSE] \in Job
      BY <2>2 DEF Job
    <3> QED
      BY <1>8, <2>2, <3>1 DEF Finish, Break
  <2>4. \A q \in Runs :
           /\ run'[q].at \notin {"none", "open", "over"} => run'[q].job \in Jobs
           /\ run'[q].at \in {"smtp", "save"} <=> run'[q].now # None
           /\ run'[q].at = "save" => run'[q].result # None
    BY <2>1, OverIsRun
  <2>5. faults' \in Nat
    BY <1>8 DEF Finish, Break, Fault
  <2>6. lost' = lost \/ lost' = TRUE
    BY <1>8 DEF Finish, Break
  <2>7. lost' \in BOOLEAN
    BY <2>6
  <2> QED
    BY <1>8, <2>1, <2>3, <2>4, <2>5, <2>7 DEF Finish, Break, callVars, mailVars
<1> QED
  BY <1>1, <1>2, <1>3, <1>4, <1>5, <1>6, <1>7, <1>8 DEF Work

LEMMA TypeStep == TypeOK /\ [Next]_vars => TypeOK'
<1> SUFFICES ASSUME TypeOK, [Next]_vars PROVE TypeOK'
  OBVIOUS
<1>1. CASE UNCHANGED vars
  BY <1>1 DEF TypeOK, vars, callVars, mailVars
<1>2. CASE Next
  BY <1>2, DispatchTypes, WorkerTypes, ApiTypes, WorkTypes, ThrowTypes DEF Next
<1> QED
  BY <1>1, <1>2

\* Every state of the call, of the queue and of the broadcasts is well typed,
\* whatever dies and fails; a broadcast always has the row it reports to.
THEOREM TypeCorrect == Spec => []TypeOK
<1>1. BroadcastInit => TypeOK
  BY TypeInit
<1>2. TypeOK /\ [Next]_vars => TypeOK'
  BY TypeStep
<1> QED
  BY <1>1, <1>2, PTL DEF Spec

----------------------------------------------------------------------------
(* The call.                                                               *)

\* Nothing of a call is edited between the approval of BGH and the end of its
\* submission period.
THEOREM CallsAreAsApproved == Spec => []PublishedAsApproved
<1>1. BroadcastInit => PublishedAsApproved
  BY DEF BroadcastInit, CallInit, PublishedAsApproved
<1>2. PublishedAsApproved /\ [Next]_vars => PublishedAsApproved'
  <2> SUFFICES ASSUME PublishedAsApproved, [Next]_vars PROVE PublishedAsApproved'
    OBVIOUS
  <2> USE DEF PublishedAsApproved
  <2>1. CASE CallStep
    BY <2>1 DEF CallStep, CallNext, Update, Submit, HeadApprove, Approve,
       ReturnToPkh, Close
  <2>2. CASE PublishCall
    BY <2>2 DEF PublishCall, Publish
  <2>3. CASE UNCHANGED callVars
    BY <2>3 DEF callVars
  <2>4. Next => CallStep \/ PublishCall \/ UNCHANGED callVars
    BY DEF Next, ResumeBroadcast, Enqueue, SendHere, GiveUp, Take, WorkerDies,
       Work, Break, Throw, ApiDies, Open, PushMany, ReadSent, Sweep, LogPending, Smtp,
       SaveLog, Finish
  <2> QED
    BY <2>1, <2>2, <2>3, <2>4 DEF vars
<1> QED
  BY <1>1, <1>2, PTL DEF Spec

----------------------------------------------------------------------------
(* What a broadcast has done and what it holds.                            *)

Fresh(r) == run[r].at \in {"none", "open", "push", "read"}

\* A row of a broadcast that has not come to it is not there; the row of the
\* address it is at is pending, or failed by the sweep of another broadcast.
OwnOf(r) ==
    /\ Fresh(r) => before[r] = {} /\ \A a \in Addr : log[r][a] = "NONE"
                                                      /\ r \notin inbox[a]
    /\ run[r].at \in Reading => \A a \in run[r].todo : log[r][a] = "NONE"
    /\ run[r].now # None => log[r][run[r].now] \in {"PENDING", "FAILED"}
    /\ run[r].at = "save" /\ run[r].result = "SENT" => r \in inbox[run[r].now]
Own == \A r \in Runs : OwnOf(r)

\* An address without a mail is still to come, unless something failed.
Accounts ==
    \A r \in Runs : run[r].at \in Reading /\ ~run[r].failed =>
        \A a \in Addr : a \in run[r].todo \/ a = run[r].now \/ Sent(a)

\* What broadcasts that were over had sent is no longer to come.
History ==
    \A r \in Runs :
       /\ \A q \in before[r] : run[q].at = "over"
       /\ run[r].at \in Reading =>
             \A a \in Addr, q \in before[r] :
                 a \in run[r].todo \/ a = run[r].now => log[q][a] # "SENT"

\* The steps that touch neither the logs nor the mail.
Aside ==
    /\ UNCHANGED <<log, inbox, before>>
    /\ \A q \in Runs :
          \/ run'[q] = run[q]
          \/ run'[q].at = "over" /\ run'[q].now = None
          \/ Fresh(q) /\ Fresh(q)' /\ run'[q].now = None

LEMMA StepKinds ==
  ASSUME TypeOK, [Next]_vars
  PROVE  \/ Aside
         \/ \E r \in Runs : ReadSent(r) \/ Sweep(r) \/ Smtp(r) \/ SaveLog(r)
                             \/ \E a \in Addr : LogPending(r, a)
<1>1. CASE \/ CallStep \/ PublishCall \/ ResumeBroadcast \/ Enqueue \/ GiveUp
           \/ UNCHANGED vars
  BY <1>1 DEF CallStep, PublishCall, ResumeBroadcast, Enqueue, GiveUp, vars,
     mailVars, Aside
<1>2. ASSUME NEW host \in Entries \cup {Api}, NEW row \in Jobs \cup {NoRow},
             StartRun(host, row), UNCHANGED mailVars
      PROVE  Aside
  <2>1. PICK r \in Runs :
           run[r] = Idle /\ run' = [run EXCEPT ![r] = Broadcast("open", host, row)]
    BY <1>2 DEF StartRun, Next1
  <2>2. Idle.at = "none"
    BY DEF Idle, Broadcast
  <2> QED
    BY <1>2, <2>1, <2>2, StartedIsRun DEF TypeOK, Aside, Fresh, mailVars
<1>3. CASE SendHere
  BY <1>2, <1>3 DEF SendHere, TypeOK
<1>4. ASSUME NEW e \in Entries, Take(e) PROVE Aside
  <2>1. entry[e].resume \in Jobs \cup {NoRow}
    BY DEF TypeOK, Entry
  <2> QED
    BY <1>2, <1>4, <2>1 DEF Take
<1>5. ASSUME NEW e \in Entries, WorkerDies(e) PROVE Aside
  BY <1>5, OverIsRun DEF WorkerDies, Aside, mailVars, TypeOK
<1>6. CASE ApiDies
  BY <1>6, OverIsRun DEF ApiDies, Aside, mailVars, TypeOK
<1>7. ASSUME NEW r \in Runs, Open(r) \/ PushMany(r) PROVE Aside
  <2>1. run[r].now = None /\ Fresh(r)
    BY <1>7 DEF Open, PushMany, TypeOK, Fresh
  <2>2. PICK m : run' = [run EXCEPT ![r] = m] /\ m.at \in {"push", "read"}
                 /\ m.now = None
    <3>1. CASE Open(r)
      <4>1. PICK j \in Jobs :
              run' = [run EXCEPT ![r].job = j,
                         ![r].at = IF run[r].job = NoRow THEN "push" ELSE "read"]
        BY <3>1 DEF Open
      <4>2. run[r] \in Run
        BY DEF TypeOK
      <4> DEFINE m == [run[r] EXCEPT !.job = j,
                         !.at = IF run[r].job = NoRow THEN "push" ELSE "read"]
      <4>3. m.at \in {"push", "read"} /\ m.now = None
        BY <2>1, <4>2 DEF Run
      <4>4. run' = [run EXCEPT ![r] = m]
        BY <4>1
      <4> QED
        BY <4>3, <4>4
    <3>2. CASE PushMany(r)
      <4>1. run[r] \in Run
        BY DEF TypeOK
      <4> DEFINE m == [run[r] EXCEPT !.at = "read"]
      <4>2. m.at = "read" /\ m.now = None /\ run' = [run EXCEPT ![r] = m]
        BY <2>1, <3>2, <4>1 DEF PushMany, Goto, Run
      <4> QED
        BY <4>2
    <3> QED
      BY <1>7, <3>1, <3>2
  <2>3. UNCHANGED <<log, inbox, before>>
    BY <1>7 DEF Open, PushMany, mailVars
  <2> QED
    BY <2>1, <2>2, <2>3 DEF Aside, Fresh, TypeOK
<1>8. ASSUME NEW r \in Runs, Finish(r) \/ Break(r) \/ Throw(r) PROVE Aside
  BY <1>8, OverIsRun DEF Finish, Break, Throw, End, Aside, mailVars, TypeOK
<1> QED
  BY <1>1, <1>3, <1>4, <1>5, <1>6, <1>7, <1>8 DEF Next, Work

\* What the five other steps do, field by field.
LEMMA ReadSentDoes ==
  ASSUME TypeOK, NEW r \in Runs, ReadSent(r)
  PROVE  /\ run[r].at = "read" /\ run[r].now = None
         /\ run'[r].at = "sweep" /\ run'[r].now = None
         /\ run'[r].todo = Addr \ AlreadySent /\ run'[r].result = run[r].result
         /\ \A q \in Runs \ {r} : run'[q] = run[q] /\ before'[q] = before[q]
         /\ before'[r] = {q \in Runs : run[q].at = "over"}
         /\ UNCHANGED <<log, inbox>>
<1>1. run[r] \in Run /\ run[r].now = None
  BY DEF TypeOK, ReadSent
<1>2. /\ run' = [run EXCEPT ![r] = [run[r] EXCEPT !.at = "sweep", !.todo = Addr \ AlreadySent]]
      /\ before' = [before EXCEPT ![r] = {q \in Runs : run[q].at = "over"}]
  BY DEF ReadSent
<1>3. run \in [Runs -> Run] /\ before \in [Runs -> SUBSET Runs]
  BY DEF TypeOK
<1> DEFINE m == [run[r] EXCEPT !.at = "sweep", !.todo = Addr \ AlreadySent]
<1>4. /\ m.at = "sweep" /\ m.now = None /\ m.todo = Addr \ AlreadySent
      /\ m.result = run[r].result
  BY <1>1 DEF Run
<1>5. run' = [run EXCEPT ![r] = m]
  BY <1>2
<1> HIDE DEF m
<1> QED
  BY <1>1, <1>2, <1>3, <1>4, <1>5 DEF ReadSent

LEMMA SweepDoes ==
  ASSUME TypeOK, NEW r \in Runs, Sweep(r)
  PROVE  /\ run[r].at = "sweep" /\ run[r].now = None
         /\ run'[r].at = "next" /\ run'[r].now = None
         /\ run'[r].todo = run[r].todo /\ run'[r].failed = run[r].failed
         /\ \A q \in Runs \ {r} : run'[q] = run[q]
         /\ \A q \in Runs, a \in Addr :
               log'[q][a] = IF log[q][a] = "PENDING" THEN "FAILED" ELSE log[q][a]
         /\ UNCHANGED <<inbox, before>>
<1>1. run[r] \in Run /\ run[r].now = None /\ run \in [Runs -> Run]
  BY DEF TypeOK, Sweep
<1> DEFINE m == [run[r] EXCEPT !.at = "next"]
<1>2. run' = [run EXCEPT ![r] = m]
  BY DEF Sweep, Goto
<1>3. m.at = "next" /\ m.now = None /\ m.todo = run[r].todo /\ m.failed = run[r].failed
  BY <1>1 DEF Run
<1> HIDE DEF m
<1> QED
  BY <1>1, <1>2, <1>3 DEF Sweep

LEMMA LogPendingDoes ==
  ASSUME TypeOK, NEW r \in Runs, NEW a \in Addr, LogPending(r, a)
  PROVE  /\ run[r].at = "next" /\ run[r].now = None /\ a \in run[r].todo
         /\ run'[r].todo = run[r].todo \ {a}
         /\ \A q \in Runs \ {r} : run'[q] = run[q] /\ log'[q] = log[q]
         /\ \A b \in Addr \ {a} : log'[r][b] = log[r][b]
         /\ \/ /\ run'[r].at = "smtp" /\ run'[r].now = a /\ log'[r][a] = "PENDING"
               /\ run'[r].failed = run[r].failed
            \/ /\ run'[r].at = "next" /\ run'[r].now = None /\ log'[r][a] = log[r][a]
               /\ run'[r].failed = TRUE
         /\ UNCHANGED <<inbox, before>>
<1>1. run[r] \in Run /\ run[r].now = None /\ run \in [Runs -> Run]
      /\ log \in [Runs -> [Addr -> LogStatus]]
  BY DEF TypeOK, LogPending
<1> DEFINE m == [run[r] EXCEPT !.at = "smtp", !.now = a, !.todo = @ \ {a}]
           n == [run[r] EXCEPT !.failed = TRUE, !.todo = @ \ {a}]
<1>2. \/ run' = [run EXCEPT ![r] = m] /\ log' = [log EXCEPT ![r][a] = "PENDING"]
      \/ run' = [run EXCEPT ![r] = n] /\ log' = log
  BY DEF LogPending
<1>3. /\ m.at = "smtp" /\ m.now = a /\ m.todo = run[r].todo \ {a}
      /\ m.failed = run[r].failed
      /\ n.at = run[r].at /\ n.now = None /\ n.todo = run[r].todo \ {a} /\ n.failed = TRUE
  BY <1>1 DEF Run
<1> HIDE DEF m, n
<1> QED
  BY <1>1, <1>2, <1>3 DEF LogPending

LEMMA SmtpDoes ==
  ASSUME TypeOK, NEW r \in Runs, Smtp(r)
  PROVE  /\ run[r].at = "smtp" /\ run[r].now \in Addr
         /\ run'[r].at = "save" /\ run'[r].now = run[r].now
         /\ run'[r].todo = run[r].todo /\ run'[r].failed = run[r].failed
         /\ run'[r].result = "SENT" => r \in inbox'[run[r].now]
         /\ \A q \in Runs \ {r} : run'[q] = run[q]
         /\ \A b \in Addr : inbox[b] \subseteq inbox'[b] /\ inbox'[b] \subseteq inbox[b] \cup {r}
         /\ \A b \in Addr \ {run[r].now} : inbox'[b] = inbox[b]
         /\ UNCHANGED <<log, before>>
<1>1. /\ run[r] \in Run /\ run[r].now \in Addr /\ run \in [Runs -> Run]
      /\ inbox \in [Addr -> SUBSET Runs]
  BY DEF TypeOK, Smtp, Run
<1>2. PICK result \in {"SENT", "FAILED", "STUB"}, taken \in BOOLEAN :
        /\ result = "SENT" => taken
        /\ inbox' = IF taken THEN [inbox EXCEPT ![run[r].now] = @ \cup {r}] ELSE inbox
        /\ run' = [run EXCEPT ![r].at = "save", ![r].result = result]
  BY DEF Smtp
<1> DEFINE m == [run[r] EXCEPT !.at = "save", !.result = result]
<1>3. /\ m.at = "save" /\ m.result = result /\ m.now = run[r].now
      /\ m.todo = run[r].todo /\ m.failed = run[r].failed
  BY <1>1 DEF Run
<1>4. run' = [run EXCEPT ![r] = m]
  BY <1>2
<1> HIDE DEF m
<1> QED
  BY <1>1, <1>2, <1>3, <1>4 DEF Smtp

LEMMA SaveLogDoes ==
  ASSUME TypeOK, NEW r \in Runs, SaveLog(r)
  PROVE  /\ run[r].at = "save" /\ run[r].now \in Addr
         /\ run'[r].at = "next" /\ run'[r].now = None /\ run'[r].todo = run[r].todo
         /\ \A q \in Runs \ {r} : run'[q] = run[q] /\ log'[q] = log[q]
         /\ \A b \in Addr \ {run[r].now} : log'[r][b] = log[r][b]
         /\ \/ /\ log'[r][run[r].now] = run[r].result
               /\ run'[r].failed = (run[r].failed \/ run[r].result # "SENT")
            \/ /\ log'[r][run[r].now] \in {log[r][run[r].now], "FAILED"}
               /\ run'[r].failed = TRUE
         /\ UNCHANGED <<inbox, before>>
<1>1. /\ run[r] \in Run /\ run[r].now \in Addr /\ run \in [Runs -> Run]
      /\ log \in [Runs -> [Addr -> LogStatus]]
  BY DEF TypeOK, SaveLog, Run
<1> DEFINE m(f) == [run[r] EXCEPT !.at = "next", !.now = None, !.result = None,
                                  !.failed = f]
<1>2. \/ /\ run' = [run EXCEPT ![r] = m(run[r].failed \/ run[r].result # "SENT")]
         /\ log' = [log EXCEPT ![r][run[r].now] = run[r].result]
      \/ /\ run' = [run EXCEPT ![r] = m(TRUE)]
         /\ \/ log' = log
            \/ log' = [log EXCEPT ![r][run[r].now] = "FAILED"]
  BY DEF SaveLog
<1>3. \A f \in BOOLEAN : /\ m(f).at = "next" /\ m(f).now = None /\ m(f).failed = f
                         /\ m(f).todo = run[r].todo
  BY <1>1 DEF Run
<1>4. run[r].failed \in BOOLEAN /\ (run[r].failed \/ run[r].result # "SENT") \in BOOLEAN
  BY <1>1 DEF Run
<1> DEFINE g == run[r].failed \/ run[r].result # "SENT"
<1>5. /\ m(g).at = "next" /\ m(g).now = None /\ m(g).todo = run[r].todo
      /\ m(g).failed = g
  BY <1>3, <1>4
<1>6. /\ m(TRUE).at = "next" /\ m(TRUE).now = None /\ m(TRUE).todo = run[r].todo
      /\ m(TRUE).failed = TRUE
  BY <1>3
<1>7. run[r].at = "save" /\ UNCHANGED <<inbox, before>>
  BY DEF SaveLog
<1> HIDE DEF m, g
<1>8. CASE run' = [run EXCEPT ![r] = m(g)]
           /\ log' = [log EXCEPT ![r][run[r].now] = run[r].result]
  <2>1. run'[r] = m(g) /\ \A q \in Runs \ {r} : run'[q] = run[q]
    BY <1>1, <1>8
  <2>2. /\ \A q \in Runs \ {r} : log'[q] = log[q]
        /\ \A b \in Addr \ {run[r].now} : log'[r][b] = log[r][b]
        /\ log'[r][run[r].now] = run[r].result
    BY <1>1, <1>8
  <2>3. run'[r].failed = (run[r].failed \/ run[r].result # "SENT")
    BY <1>5, <2>1 DEF g
  <2> QED
    BY <1>1, <1>5, <1>7, <2>1, <2>2, <2>3
<1>9. CASE /\ run' = [run EXCEPT ![r] = m(TRUE)]
           /\ log' = log \/ log' = [log EXCEPT ![r][run[r].now] = "FAILED"]
  <2>1. run'[r] = m(TRUE) /\ \A q \in Runs \ {r} : run'[q] = run[q]
    BY <1>1, <1>9
  <2>2. /\ \A q \in Runs \ {r} : log'[q] = log[q]
        /\ \A b \in Addr \ {run[r].now} : log'[r][b] = log[r][b]
        /\ log'[r][run[r].now] \in {log[r][run[r].now], "FAILED"}
    BY <1>1, <1>9
  <2> QED
    BY <1>1, <1>6, <1>7, <2>1, <2>2
<1> QED
  BY <1>2, <1>8, <1>9 DEF g

\* Such a step of a broadcast changes no other one.
LEMMA OthersStay ==
  ASSUME TypeOK, NEW p \in Runs, NEW q \in Runs, p # q,
         ReadSent(p) \/ Sweep(p) \/ Smtp(p) \/ SaveLog(p)
         \/ \E b \in Addr : LogPending(p, b)
  PROVE  run'[q] = run[q]
<1>1. ASSUME NEW b \in Addr, LogPending(p, b) PROVE run'[q] = run[q]
  <2>1. \A r \in Runs \ {p} : run'[r] = run[r]
    BY <1>1, LogPendingDoes
  <2> QED
    BY <2>1
<1> QED
  BY <1>1, ReadSentDoes, SweepDoes, SmtpDoes, SaveLogDoes

LEMMA OwnInit == BroadcastInit => Own
BY DEF BroadcastInit, Own, OwnOf, Fresh, Reading, Idle, Broadcast

\* A broadcast that the step leaves alone keeps its facts.
Kept(q) ==
    /\ run'[q] = run[q] /\ before'[q] = before[q]
    /\ \A a \in Addr : \/ log'[q][a] = log[q][a]
                       \/ log[q][a] = "PENDING" /\ log'[q][a] = "FAILED"
    /\ \A a \in Addr : q \in inbox'[a] <=> q \in inbox[a]

LEMMA OwnKept ==
  TypeOK /\ Own => \A q \in Runs : Kept(q) => OwnOf(q)'
<1> SUFFICES ASSUME TypeOK, Own, NEW q \in Runs, Kept(q) PROVE OwnOf(q)'
  OBVIOUS
<1>1. run[q] \in Run /\ run[q].todo \subseteq Addr /\ run[q].now \in Addr \cup {None}
      /\ (run[q].at = "save" => run[q].now \in Addr)
  BY DEF TypeOK, Run
<1>2. OwnOf(q)
  BY DEF Own
<1> QED
  BY <1>1, <1>2 DEF OwnOf, Fresh, Kept

LEMMA OwnStep ==
  ASSUME TypeOK, TypeOK', Own, [Next]_vars
  PROVE  Own'
<1>0. \A q \in Runs : /\ OwnOf(q) /\ run[q].todo \subseteq Addr
                      /\ run[q].now \in Addr \cup {None}
  BY DEF TypeOK, Run, Own
<1>1. CASE Aside
  <2> SUFFICES ASSUME NEW q \in Runs PROVE OwnOf(q)'
    BY DEF Own
  <2>1. CASE run'[q] = run[q]
    <3>1. Kept(q)
      BY <1>1, <2>1 DEF Aside, Kept
    <3> QED
      BY <3>1, OwnKept
  <2>2. CASE run'[q].at = "over" /\ run'[q].now = None
    BY <2>2 DEF OwnOf, Fresh, Reading
  <2>3. CASE Fresh(q) /\ Fresh(q)' /\ run'[q].now = None
    <3>1. before'[q] = {} /\ \A a \in Addr : log'[q][a] = "NONE" /\ q \notin inbox'[a]
      BY <1>0, <1>1, <2>3 DEF Aside, OwnOf
    <3> QED
      BY <2>3, <3>1 DEF OwnOf, Fresh, Reading
  <2> QED
    BY <1>1, <2>1, <2>2, <2>3 DEF Aside
<1>2. ASSUME NEW r \in Runs, ReadSent(r) PROVE Own'
  <2> SUFFICES ASSUME NEW q \in Runs PROVE OwnOf(q)'
    BY DEF Own
  <2>1. CASE q # r
    <3>1. Kept(q)
      BY <1>2, <2>1, ReadSentDoes DEF Kept
    <3> QED
      BY <3>1, OwnKept
  <2>2. CASE q = r
    <3>1. \A a \in Addr : log'[r][a] = "NONE"
      BY <1>0, <1>2, ReadSentDoes DEF OwnOf, Fresh
    <3> QED
      BY <1>2, <2>2, <3>1, ReadSentDoes DEF OwnOf, Fresh
  <2> QED
    BY <2>1, <2>2
<1>3. ASSUME NEW r \in Runs, Sweep(r) PROVE Own'
  <2> SUFFICES ASSUME NEW q \in Runs PROVE OwnOf(q)'
    BY DEF Own
  <2>1. CASE q # r
    <3>1. Kept(q)
      BY <1>3, <2>1, SweepDoes DEF Kept
    <3> QED
      BY <3>1, OwnKept
  <2>2. CASE q = r
    <3>1. \A a \in run[r].todo : log'[r][a] = "NONE"
      BY <1>0, <1>3, SweepDoes DEF OwnOf, Reading
    <3> QED
      BY <1>3, <2>2, <3>1, SweepDoes DEF OwnOf, Fresh
  <2> QED
    BY <2>1, <2>2
<1>4. ASSUME NEW r \in Runs, NEW a \in Addr, LogPending(r, a) PROVE Own'
  <2> SUFFICES ASSUME NEW q \in Runs PROVE OwnOf(q)'
    BY DEF Own
  <2>0. /\ run[r].at = "next" /\ a \in run[r].todo
        /\ run'[r].todo = run[r].todo \ {a}
        /\ \A p \in Runs \ {r} : run'[p] = run[p] /\ log'[p] = log[p]
        /\ \A b \in Addr \ {a} : log'[r][b] = log[r][b]
        /\ UNCHANGED <<inbox, before>>
    BY <1>4, LogPendingDoes
  <2>1. CASE q # r
    <3>1. Kept(q)
      BY <2>0, <2>1 DEF Kept
    <3> QED
      BY <3>1, OwnKept
  <2>2. CASE q = r
    <3>1. \A b \in run'[r].todo : log'[r][b] = "NONE"
      BY <1>0, <2>0 DEF OwnOf, Reading
    <3>2. CASE run'[r].at = "smtp" /\ run'[r].now = a /\ log'[r][a] = "PENDING"
      BY <2>2, <3>1, <3>2 DEF OwnOf, Fresh
    <3>3. CASE run'[r].at = "next" /\ run'[r].now = None
      BY <2>2, <3>1, <3>3 DEF OwnOf, Fresh
    <3> QED
      BY <1>4, <3>2, <3>3, LogPendingDoes
  <2> QED
    BY <2>1, <2>2
<1>5. ASSUME NEW r \in Runs, Smtp(r) PROVE Own'
  <2> SUFFICES ASSUME NEW q \in Runs PROVE OwnOf(q)'
    BY DEF Own
  <2>1. CASE q # r
    <3>1. \A b \in Addr : q \in inbox'[b] <=> q \in inbox[b]
      BY <1>5, <2>1, SmtpDoes
    <3> QED
      BY <1>5, <2>1, <3>1, SmtpDoes, OwnKept DEF Kept
  <2>2. CASE q = r
    <3>1. \A b \in run'[r].todo : log'[r][b] = "NONE"
      BY <1>0, <1>5, SmtpDoes DEF OwnOf, Reading
    <3>2. log'[r][run'[r].now] \in {"PENDING", "FAILED"}
      BY <1>0, <1>5, SmtpDoes, Numbers DEF OwnOf
    <3> QED
      BY <1>5, <2>2, <3>1, <3>2, SmtpDoes DEF OwnOf, Fresh
  <2> QED
    BY <2>1, <2>2
<1>6. ASSUME NEW r \in Runs, SaveLog(r) PROVE Own'
  <2> SUFFICES ASSUME NEW q \in Runs PROVE OwnOf(q)'
    BY DEF Own
  <2>1. CASE q # r
    <3>1. Kept(q)
      BY <1>6, <2>1, SaveLogDoes DEF Kept
    <3> QED
      BY <3>1, OwnKept
  <2>2. CASE q = r
    <3>0. /\ run[r].at = "save" /\ run[r].now \in Addr /\ run[r].now # None
          /\ run'[r].todo = run[r].todo /\ run[r].todo \subseteq Addr
          /\ \A b \in Addr \ {run[r].now} : log'[r][b] = log[r][b]
      BY <1>0, <1>6, SaveLogDoes, Numbers
    <3>1. run[r].now \notin run[r].todo
      BY <1>0, <3>0 DEF OwnOf, Reading
    <3>2. \A b \in run'[r].todo : log'[r][b] = "NONE"
      BY <1>0, <3>0, <3>1 DEF OwnOf, Reading
    <3> QED
      BY <1>6, <2>2, <3>2, SaveLogDoes DEF OwnOf, Fresh
  <2> QED
    BY <2>1, <2>2
<1> QED
  BY <1>1, <1>2, <1>3, <1>4, <1>5, <1>6, StepKinds

\* Only a broadcast itself makes a row of it SENT, and no row ceases to be.
LEMMA RowsOfSent ==
  ASSUME TypeOK, Own, [Next]_vars, NEW q \in Runs, NEW a \in Addr
  PROVE  /\ log[q][a] = "SENT" => log'[q][a] = "SENT"
         /\ log'[q][a] = "SENT" /\ log[q][a] # "SENT" =>
               /\ run[q].at = "save" /\ run[q].now = a /\ run[q].result = "SENT"
<1>0. OwnOf(q)
  BY DEF Own
<1>1. CASE log' = log
  BY <1>1
<1>2. ASSUME NEW r \in Runs, Sweep(r)
      PROVE  log'[q][a] = "SENT" <=> log[q][a] = "SENT"
  BY <1>2, SweepDoes
<1>3. ASSUME NEW r \in Runs, NEW b \in Addr, LogPending(r, b)
      PROVE  log'[q][a] = "SENT" <=> log[q][a] = "SENT"
  <2>1. CASE q = r /\ a = b
    <3>1. log[q][a] = "NONE"
      BY <1>0, <1>3, <2>1, LogPendingDoes DEF OwnOf, Reading
    <3> QED
      BY <1>3, <2>1, <3>1, LogPendingDoes
  <2>2. CASE q # r \/ a # b
    <3>1. /\ \A p \in Runs \ {r} : log'[p] = log[p]
          /\ \A c \in Addr \ {b} : log'[r][c] = log[r][c]
      BY <1>3, LogPendingDoes
    <3> QED
      BY <2>2, <3>1
  <2> QED
    BY <2>1, <2>2
<1>4. ASSUME NEW r \in Runs, SaveLog(r)
      PROVE  /\ log[q][a] = "SENT" => log'[q][a] = "SENT"
             /\ log'[q][a] = "SENT" /\ log[q][a] # "SENT" =>
                   /\ run[q].at = "save" /\ run[q].now = a /\ run[q].result = "SENT"
  <2>1. CASE q = r /\ a = run[r].now
    <3>1. log[q][a] \in {"PENDING", "FAILED"}
      BY <1>0, <1>4, <2>1, SaveLogDoes, Numbers DEF OwnOf
    <3> QED
      BY <1>4, <2>1, <3>1, SaveLogDoes
  <2>2. CASE q # r \/ a # run[r].now
    <3>1. /\ \A p \in Runs \ {r} : log'[p] = log[p]
          /\ \A c \in Addr \ {run[r].now} : log'[r][c] = log[r][c]
      BY <1>4, SaveLogDoes
    <3> QED
      BY <2>2, <3>1
  <2> QED
    BY <2>1, <2>2
<1> QED
  BY <1>1, <1>2, <1>3, <1>4, StepKinds, ReadSentDoes, SmtpDoes DEF Aside

LEMMA OwnAlways == Spec => [](TypeOK /\ Own)
<1>1. BroadcastInit => TypeOK /\ Own
  BY TypeInit, OwnInit
<1>2. TypeOK /\ Own /\ [Next]_vars => (TypeOK /\ Own)'
  BY TypeStep, OwnStep
<1> QED
  BY <1>1, <1>2, PTL DEF Spec

----------------------------------------------------------------------------
(* A row that says SENT stands for a mail that arrived.                    *)

LEMMA InboxGrows ==
  ASSUME TypeOK, [Next]_vars, NEW a \in Addr
  PROVE  inbox[a] \subseteq inbox'[a]
BY StepKinds, ReadSentDoes, SweepDoes, LogPendingDoes, SmtpDoes, SaveLogDoes DEF Aside

\* A row saved as SENT stands for a mail that arrived, however many broadcasts
\* of the call run beside each other.
THEOREM SentMailsArrived == Spec => []SentArrived
<1>1. BroadcastInit => SentArrived
  BY DEF BroadcastInit, SentArrived
<1>2. TypeOK /\ Own /\ SentArrived /\ [Next]_vars => SentArrived'
  <2> SUFFICES ASSUME TypeOK, Own, SentArrived, [Next]_vars,
                      NEW r \in Runs, NEW a \in Addr, log'[r][a] = "SENT"
               PROVE  r \in inbox'[a]
    BY DEF SentArrived
  <2>1. CASE log[r][a] = "SENT"
    BY <2>1, InboxGrows DEF SentArrived
  <2>2. CASE log[r][a] # "SENT"
    <3>1. r \in inbox[a]
      BY <2>2, RowsOfSent DEF Own, OwnOf
    <3> QED
      BY <3>1, InboxGrows
  <2> QED
    BY <2>1, <2>2
<1> QED
  BY <1>1, <1>2, OwnAlways, PTL DEF Spec

----------------------------------------------------------------------------
(* A job without a failure has reached every address.                      *)

LEMMA SentStays ==
  ASSUME TypeOK, Own, [Next]_vars, NEW a \in Addr, Sent(a)
  PROVE  Sent(a)'
<1>1. PICK q \in Runs : log[q][a] = "SENT"
  BY DEF Sent
<1>2. log'[q][a] = "SENT"
  BY <1>1, RowsOfSent
<1> QED
  BY <1>2 DEF Sent

LEMMA AccountsStep ==
  ASSUME TypeOK, Own, Accounts, [Next]_vars
  PROVE  Accounts'
<1> SUFFICES ASSUME NEW r \in Runs, run'[r].at \in Reading, ~run'[r].failed,
                    NEW a \in Addr, a \notin run'[r].todo, a # run'[r].now
             PROVE  Sent(a)'
  BY DEF Accounts
<1>1. ASSUME run[r].at \in Reading, ~run[r].failed, a \notin run[r].todo, a # run[r].now
      PROVE  Sent(a)'
  BY <1>1, SentStays DEF Accounts
<1>2. CASE run'[r] = run[r]
  BY <1>1, <1>2
<1>3. CASE Aside
  BY <1>2, <1>3 DEF Aside, Fresh, Reading
<1>4. CASE ReadSent(r)
  <2>1. Sent(a)
    BY <1>4, ReadSentDoes DEF Sent, AlreadySent
  <2> QED
    BY <2>1, SentStays
<1>5. CASE Sweep(r)
  BY <1>1, <1>5, SweepDoes, Numbers DEF Reading
<1>6. CASE Smtp(r)
  BY <1>1, <1>6, SmtpDoes DEF Reading
<1>7. ASSUME NEW b \in Addr, LogPending(r, b) PROVE Sent(a)'
  <2>1. /\ run[r].at = "next" /\ run[r].now = None
        /\ run'[r].todo = run[r].todo \ {b}
    BY <1>7, LogPendingDoes
  <2>2. run'[r].now = b /\ ~run[r].failed
    BY <1>7, LogPendingDoes
  <2> QED
    BY <1>1, <2>1, <2>2, Numbers DEF Reading
<1>8. CASE SaveLog(r)
  <2>0. run[r].at = "save" /\ run[r].now \in Addr /\ run'[r].todo = run[r].todo
    BY <1>8, SaveLogDoes
  <2>1. log'[r][run[r].now] = run[r].result
        /\ ~(run[r].failed \/ run[r].result # "SENT")
    BY <1>8, SaveLogDoes
  <2>2. CASE a = run[r].now
    BY <2>1, <2>2 DEF Sent
  <2> QED
    BY <1>1, <2>0, <2>1, <2>2 DEF Reading
<1>9. ASSUME NEW q \in Runs, q # r,
             ReadSent(q) \/ Sweep(q) \/ Smtp(q) \/ SaveLog(q)
             \/ \E b \in Addr : LogPending(q, b)
      PROVE  run'[r] = run[r]
  BY <1>9, OthersStay
<1> QED
  BY <1>2, <1>3, <1>4, <1>5, <1>6, <1>7, <1>8, <1>9, StepKinds

\* A row becomes DONE without a failure at the end of a broadcast only.
LEMMA CleanJobs ==
  ASSUME TypeOK, [Next]_vars, NEW j \in Jobs,
         job'[j].status = "DONE", job'[j].clean
  PROVE  \/ job[j].status = "DONE" /\ job[j].clean
         \/ \E r \in Runs : Finish(r) /\ ~run[r].failed
<1>0. job \in [Jobs -> Job]
  BY DEF TypeOK
<1>1. CASE UNCHANGED job
  BY <1>1
<1>2. CASE GiveUp
  <2>1. PICK i \in Jobs : job' = [job EXCEPT ![i].status = "FAILED"]
    BY <1>2 DEF GiveUp
  <2>2. i # j
    BY <1>0, <2>1 DEF Job
  <2> QED
    BY <1>0, <2>1, <2>2
<1>3. ASSUME NEW r \in Runs, Open(r) PROVE job[j].status = "DONE" /\ job[j].clean
  BY <1>0, <1>3 DEF Open
<1>4. ASSUME NEW r \in Runs, Break(r) PROVE job[j].status = "DONE" /\ job[j].clean
  BY <1>0, <1>4 DEF Break
<1>5. ASSUME NEW r \in Runs, Finish(r)
      PROVE  (job[j].status = "DONE" /\ job[j].clean) \/ ~run[r].failed
  BY <1>0, <1>5 DEF Finish
<1>6. \/ UNCHANGED job \/ GiveUp
      \/ \E r \in Runs : Open(r) \/ Break(r) \/ Finish(r)
  BY DEF Next, CallStep, PublishCall, ResumeBroadcast, Enqueue, SendHere, Take,
     WorkerDies, ApiDies, Work, Throw, PushMany, ReadSent, Sweep, LogPending, Smtp,
     SaveLog, vars
<1> QED
  BY <1>1, <1>2, <1>3, <1>4, <1>5, <1>6

\* A job that is DONE and reports no failure leaves no address without a mail.
THEOREM CleanJobsReachAll == Spec => []CleanJobReachedAll
<1> DEFINE Inv == Accounts /\ CleanJobReachedAll
<1>1. BroadcastInit => Inv
  BY DEF BroadcastInit, Accounts, CleanJobReachedAll, Idle, Broadcast, Reading
<1>2. TypeOK /\ Own /\ Inv /\ [Next]_vars => Inv'
  <2> SUFFICES ASSUME TypeOK, Own, Inv, [Next]_vars PROVE Inv'
    OBVIOUS
  <2>1. Accounts'
    BY AccountsStep
  <2>2. ASSUME NEW j \in Jobs, job'[j].status = "DONE", job'[j].clean,
               NEW a \in Addr
        PROVE  Sent(a)'
    <3>1. CASE job[j].status = "DONE" /\ job[j].clean
      BY <3>1, SentStays DEF CleanJobReachedAll, Sent
    <3>2. ASSUME NEW r \in Runs, Finish(r), ~run[r].failed PROVE Sent(a)'
      <4>1. run[r].at = "next" /\ run[r].todo = {} /\ run[r].now = None
        BY <3>2 DEF Finish, TypeOK
      <4>2. Sent(a)
        BY <3>2, <4>1, Numbers DEF Accounts, Reading
      <4> QED
        BY <4>2, SentStays
    <3> QED
      BY <2>2, <3>1, <3>2, CleanJobs
  <2>3. CleanJobReachedAll'
    BY <2>2 DEF CleanJobReachedAll, Sent
  <2> QED
    BY <2>1, <2>3
<1>3. Inv => CleanJobReachedAll
  OBVIOUS
<1> HIDE DEF Inv
<1> QED
  BY <1>1, <1>2, <1>3, OwnAlways, PTL DEF Spec

----------------------------------------------------------------------------
(* What an ended broadcast has sent is not sent again.                     *)

LEMMA OverStays ==
  ASSUME TypeOK, [Next]_vars, NEW q \in Runs, run[q].at = "over"
  PROVE  run'[q].at = "over"
<1>1. CASE Aside
  BY <1>1 DEF Aside, Fresh
<1>2. ASSUME NEW r \in Runs,
             ReadSent(r) \/ Sweep(r) \/ Smtp(r) \/ SaveLog(r)
             \/ \E b \in Addr : LogPending(r, b)
      PROVE  run'[q] = run[q]
  BY <1>2, ReadSentDoes, SweepDoes, LogPendingDoes, SmtpDoes, SaveLogDoes
<1> QED
  BY <1>1, <1>2, StepKinds

LEMMA HistoryStep ==
  ASSUME TypeOK, Own, History, [Next]_vars
  PROVE  History'
<1> SUFFICES ASSUME NEW r \in Runs, NEW q \in before'[r]
             PROVE  /\ run'[q].at = "over"
                    /\ run'[r].at \in Reading =>
                          \A a \in Addr : a \in run'[r].todo \/ a = run'[r].now
                              => log'[q][a] # "SENT"
  BY DEF History
<1>0. before \in [Runs -> SUBSET Runs]
  BY DEF TypeOK
<1>1. q \in Runs /\ run[q].at = "over" /\ (q \in before[r] \/ ReadSent(r))
  <2>1. CASE before'[r] = before[r]
    BY <1>0, <2>1 DEF History
  <2>2. CASE ReadSent(r)
    BY <2>2, ReadSentDoes
  <2> QED
    BY <2>1, <2>2, StepKinds, ReadSentDoes, SweepDoes, LogPendingDoes, SmtpDoes,
       SaveLogDoes DEF Aside
<1>2. run'[q].at = "over"
  BY <1>1, OverStays
<1>3. \A a \in Addr : log[q][a] # "SENT" => log'[q][a] # "SENT"
  BY <1>1, RowsOfSent
<1>4. ASSUME NEW a \in Addr, run'[r].at \in Reading,
             a \in run'[r].todo \/ a = run'[r].now
      PROVE  log[q][a] # "SENT"
  <2>1. CASE ReadSent(r)
    <3>1. a \in Addr \ AlreadySent
      BY <1>4, <2>1, ReadSentDoes, Numbers
    <3> QED
      BY <1>1, <3>1 DEF AlreadySent
  <2>2. ASSUME run[r].at \in Reading, a \in run[r].todo \/ a = run[r].now,
               ~ReadSent(r)
        PROVE  log[q][a] # "SENT"
    BY <1>1, <2>2 DEF History
  <2>3. CASE run'[r] = run[r] /\ ~ReadSent(r)
    BY <1>4, <2>2, <2>3
  <2>4. CASE Aside /\ ~ReadSent(r)
    BY <1>4, <2>3, <2>4 DEF Aside, Fresh, Reading
  <2>5. CASE Sweep(r) /\ ~ReadSent(r)
    BY <1>4, <2>2, <2>5, SweepDoes, Numbers DEF Reading
  <2>6. CASE Smtp(r) /\ ~ReadSent(r)
    BY <1>4, <2>2, <2>6, SmtpDoes DEF Reading
  <2>7. CASE SaveLog(r) /\ ~ReadSent(r)
    BY <1>4, <2>2, <2>7, SaveLogDoes, Numbers DEF Reading
  <2>8. ASSUME NEW b \in Addr, LogPending(r, b), ~ReadSent(r)
        PROVE  log[q][a] # "SENT"
    <3>1. /\ run[r].at = "next" /\ b \in run[r].todo
          /\ run'[r].todo = run[r].todo \ {b}
      BY <2>8, LogPendingDoes
    <3>2. run'[r].now \in {b, None}
      BY <2>8, LogPendingDoes
    <3> QED
      BY <1>4, <2>2, <2>8, <3>1, <3>2, Numbers DEF Reading
  <2>9. ASSUME NEW p \in Runs, p # r,
               ReadSent(p) \/ Sweep(p) \/ Smtp(p) \/ SaveLog(p)
               \/ \E b \in Addr : LogPending(p, b)
        PROVE  run'[r] = run[r]
    BY <2>9, OthersStay
  <2> QED
    BY <2>1, <2>3, <2>4, <2>5, <2>6, <2>7, <2>8, <2>9, StepKinds
<1> QED
  BY <1>2, <1>3, <1>4

\* A broadcast sends nothing again that one over before it is known to have
\* sent, whatever else runs.
THEOREM ResumedCallsSkipTheSent == Spec => []ResumeSkipsSent
<1> DEFINE Inv == History /\ ResumeSkipsSent
<1>1. BroadcastInit => Inv
  BY DEF BroadcastInit, History, ResumeSkipsSent
<1>2. TypeOK /\ Own /\ Inv /\ [Next]_vars => Inv'
  <2> SUFFICES ASSUME TypeOK, Own, Inv, [Next]_vars PROVE Inv'
    OBVIOUS
  <2>1. History'
    BY HistoryStep
  <2>2. ASSUME NEW r \in Runs, NEW a \in Addr, r \in inbox'[a], NEW q \in before'[r]
        PROVE  log'[q][a] # "SENT"
    <3>1. q \in Runs /\ run[q].at = "over"
      <4>1. CASE before'[r] = before[r]
        BY <2>2, <4>1 DEF History, TypeOK
      <4>2. CASE ReadSent(r)
        BY <2>2, <4>2, ReadSentDoes
      <4> QED
        BY <4>1, <4>2, StepKinds, ReadSentDoes, SweepDoes, LogPendingDoes,
           SmtpDoes, SaveLogDoes DEF Aside
    <3>2. log[q][a] # "SENT" => log'[q][a] # "SENT"
      BY <3>1, RowsOfSent
    <3>3. CASE ReadSent(r)
      <4>1. r \notin inbox[a] /\ UNCHANGED inbox
        BY <3>3, ReadSentDoes DEF Own, OwnOf, Fresh
      <4> QED
        BY <2>2, <4>1
    <3>4. ASSUME q \in before[r], r \in inbox[a] PROVE log[q][a] # "SENT"
      BY <3>4 DEF ResumeSkipsSent
    <3>5. CASE Smtp(r)
      <4>1. /\ before' = before /\ run[r].at = "smtp"
            /\ r \in inbox[a] \/ a = run[r].now
        BY <2>2, <3>5, SmtpDoes
      <4>2. a = run[r].now => log[q][a] # "SENT"
        BY <2>2, <4>1 DEF History, Reading
      <4> QED
        BY <2>2, <3>2, <3>4, <4>1, <4>2
    <3>6. CASE ~ReadSent(r) /\ ~Smtp(r)
      <4>1. before'[r] = before[r]
        BY <3>6, StepKinds, ReadSentDoes, SweepDoes, LogPendingDoes, SmtpDoes,
           SaveLogDoes DEF Aside
      <4>2. r \in inbox'[a] => r \in inbox[a]
        <5>1. ASSUME NEW p \in Runs, p # r, Smtp(p)
              PROVE  inbox'[a] \subseteq inbox[a] \cup {p}
          BY <5>1, SmtpDoes
        <5> QED
          BY <3>6, <5>1, StepKinds, ReadSentDoes, SweepDoes, LogPendingDoes,
             SaveLogDoes DEF Aside
      <4> QED
        BY <2>2, <3>2, <3>4, <4>1, <4>2
    <3> QED
      BY <3>3, <3>5, <3>6
  <2> QED
    BY <2>1, <2>2 DEF ResumeSkipsSent
<1>3. Inv => ResumeSkipsSent
  OBVIOUS
<1> HIDE DEF Inv
<1> QED
  BY <1>1, <1>2, <1>3, OwnAlways, PTL DEF Spec
=============================================================================
