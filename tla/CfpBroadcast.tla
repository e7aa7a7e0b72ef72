---------------------------- MODULE CfpBroadcast ----------------------------
(***************************************************************************)
(* The mail a published call is announced with. A dispatch, by the request *)
(* that publishes or by the resume command, puts an entry in the BullMQ    *)
(* queue or starts a broadcast in its own process. A broadcast (Runs)      *)
(* writes its row of cfp_email_jobs and one row of email_logs per address, *)
(* await by await, beside other broadcasts of the call. Processes die,     *)
(* queries fail and the SMTP server may take a mail it did not answer for. *)
(***************************************************************************)
EXTENDS CallForProposal

CONSTANTS
    Addr,        \* normalised addresses of the staff
    Confs,       \* deployments, and the faults each is checked under
    Workers,     \* entries the worker processes take at a time
    MaxStalls,   \* how often BullMQ delivers a stalled entry again
    Attempts,    \* how often it hands out an entry that ends with an error
    MaxResumes,  \* bound: resume commands
    MaxFaults,   \* bound: deaths and failed queries of any deployment
    Api          \* the process of the dispatch, no entry of the queue

ASSUME BroadcastAssumption ==
    /\ {MaxResumes, MaxFaults, MaxStalls} \subseteq Nat
    /\ Attempts \in Nat \ {0}
    /\ Confs \subseteq [queue : BOOLEAN, sync : BOOLEAN, allowed : SUBSET Addr,
                         faults : 0 .. MaxFaults]
    /\ Api \notin Nat /\ Api # None
    /\ None \notin Nat \cup Addr \cup {"SENT", "FAILED", "STUB"}

\* As many as the dispatches and the deliveries they can lead to.
Entries == 1 .. MaxResumes + 1
Runs    == 1 .. MaxResumes + MaxFaults + 1
Jobs    == Runs

VARIABLES
    conf,      \* the .env of the deployment
    dispatch,  \* None, or the row a dispatch under way resumes (NoRow: none)
    resumes,   \* resume commands so far
    entry,     \* BullMQ: state, payload, stalls and failed tries
    job,       \* cfp_email_jobs: status, and whether it reports no failure
    run,       \* the broadcasts and what each holds in memory
    log,       \* email_logs: log[r][a] is the status of the row of r for a
    inbox,     \* inbox[a]: the broadcasts whose mail arrived at a
    pushed,    \* broadcasts that sent the in-app notice
    before,    \* history: broadcasts that were over when r read the logs
    faults,    \* deaths and failed queries so far
    lost       \* history: one of them kept a broadcast from going on

mailVars == <<log, inbox, pushed, before>>
vars == <<callVars, conf, dispatch, resumes, entry, job, run, mailVars, faults,
          lost>>

NoRow == 0
EntryOf(at, row, stalls, tries) ==
    [at |-> at, resume |-> row, stalls |-> stalls, tries |-> tries]
Free == EntryOf("free", NoRow, 0, 0)
Done == EntryOf("done", NoRow, 0, 0)
Broadcast(at, host, row) ==
    [at |-> at, host |-> host, job |-> row, todo |-> {}, now |-> None,
     result |-> None, failed |-> FALSE]
Idle == Broadcast("none", None, NoRow)
Over == Broadcast("over", None, NoRow)
Live(r) == run[r].at \notin {"none", "over"}

\* The lowest free number: ids are handed out in order.
Next1(f, x, none) == f[x] = none /\ \A y \in DOMAIN f : f[y] = none => x <= y
NewJob(j) == Next1(job, j, [status |-> "NONE", clean |-> FALSE])
LatestRow(j) ==
    IF \A i \in Jobs : job[i].status = "NONE" THEN j = NoRow
    ELSE j \in Jobs /\ job[j].status # "NONE"
         /\ \A i \in Jobs : job[i].status # "NONE" => i <= j

BroadcastInit ==
    /\ CallInit /\ conf \in Confs
    /\ dispatch = None /\ resumes = 0 /\ faults = 0 /\ lost = FALSE
    /\ entry = [e \in Entries |-> Free]
    /\ job = [j \in Jobs |-> [status |-> "NONE", clean |-> FALSE]]
    /\ run = [r \in Runs |-> Idle]
    /\ log = [r \in Runs |-> [a \in Addr |-> "NONE"]]
    /\ inbox = [a \in Addr |-> {}] /\ pushed = {}
    /\ before = [r \in Runs |-> {}]

Fault == faults < conf.faults /\ faults' = faults + 1

----------------------------------------------------------------------------
(* Dispatch.                                                               *)

\* The answer of the request does not wait for the dispatch.
PublishCall ==
    /\ Publish
    /\ dispatch' = NoRow
    /\ UNCHANGED <<conf, resumes, entry, job, run, mailVars, faults, lost>>

\* The resume command goes on with the latest row of the call, if there is one.
ResumeBroadcast ==
    /\ status = "PUBLISHED" /\ dispatch = None /\ resumes < MaxResumes
    /\ \E j \in Jobs \cup {NoRow} : LatestRow(j) /\ dispatch' = j
    /\ resumes' = resumes + 1
    /\ UNCHANGED <<callVars, conf, entry, job, run, mailVars, faults, lost>>

\* enqueueCfpEmailBroadcast; without an answer of Redis nothing is queued.
Enqueue ==
    /\ dispatch # None /\ conf.queue
    /\ \E e \in Entries :
          /\ Next1(entry, e, Free)
          /\ entry' = [entry EXCEPT ![e] = EntryOf("waiting", dispatch, 0, 0)]
    /\ dispatch' = None
    /\ UNCHANGED <<callVars, conf, resumes, job, run, mailVars, faults, lost>>

StartRun(host, resume) ==
    \E r \in Runs :
        /\ Next1(run, r, Idle)
        /\ run' = [run EXCEPT ![r] = Broadcast("open", host, resume)]

\* The queue is off, or refuses the entry: broadcast in this process.
SendHere ==
    /\ dispatch # None /\ conf.sync
    /\ IF conf.queue THEN Fault ELSE UNCHANGED faults
    /\ StartRun(Api, dispatch)
    /\ dispatch' = None
    /\ UNCHANGED <<callVars, conf, resumes, entry, job, mailVars, lost>>

\* There is no way to send: the dispatch leaves a row that says so.
GiveUp ==
    /\ dispatch # None /\ ~conf.sync
    /\ IF conf.queue THEN Fault ELSE UNCHANGED faults
    /\ \E j \in Jobs : NewJob(j) /\ job' = [job EXCEPT ![j].status = "FAILED"]
    /\ dispatch' = None /\ lost' = TRUE
    /\ UNCHANGED <<callVars, conf, resumes, entry, run, mailVars>>

\* A worker takes an entry: the call is looked up and must be published.
Take(e) ==
    /\ entry[e].at = "waiting" /\ status = "PUBLISHED"
    /\ Cardinality({f \in Entries : entry[f].at = "active"}) < Workers
    /\ entry' = [entry EXCEPT ![e].at = "active"]
    /\ StartRun(e, entry[e].resume)
    /\ UNCHANGED <<callVars, conf, dispatch, resumes, job, mailVars, faults, lost>>

----------------------------------------------------------------------------
(* A broadcast.                                                            *)

Goto(r, at) == run' = [run EXCEPT ![r].at = at]
\* BullMQ ticks the entry off, whatever became of the broadcast.
End(r) ==
    /\ run' = [run EXCEPT ![r] = Over]
    /\ entry' = [e \in Entries |->
                    IF run[r].host = e THEN Done
                    ELSE entry[e]]

\* Only a broadcast that resumes no row sends the in-app notice.
Open(r) ==
    /\ run[r].at = "open"
    /\ \E j \in Jobs :
          /\ IF run[r].job = NoRow THEN NewJob(j) ELSE j = run[r].job
          /\ job' = [job EXCEPT ![j] = [status |-> "RUNNING", clean |-> FALSE]]
          /\ run' = [run EXCEPT ![r].job = j,
                        ![r].at = IF run[r].job = NoRow THEN "push" ELSE "read"]
    /\ UNCHANGED <<callVars, conf, dispatch, resumes, entry, mailVars, faults, lost>>

PushMany(r) ==
    /\ run[r].at = "push"
    /\ pushed' = pushed \cup {r}
    /\ Goto(r, "read")
    /\ UNCHANGED <<callVars, conf, dispatch, resumes, entry, job, log, inbox,
                   before, faults, lost>>

\* Mutant: a row that is still pending counts as sent.
AlreadyLogged == {a \in Addr : \E q \in Runs : log[q][a] \in {"SENT", "PENDING"}}

AlreadySent == {a \in Addr : \E q \in Runs : log[q][a] = "SENT"}

\* Mutant: the set of addresses seen starts empty.
ReadNothing(r) ==
    /\ run[r].at = "read"
    /\ run' = [run EXCEPT ![r].at = "sweep", ![r].todo = Addr]
    /\ before' = [before EXCEPT ![r] = {q \in Runs : run[q].at = "over"}]
    /\ UNCHANGED <<callVars, conf, dispatch, resumes, entry, job, log, inbox,
                   pushed, faults, lost>>

ReadSent(r) ==
    /\ run[r].at = "read"
    /\ run' = [run EXCEPT ![r].at = "sweep", ![r].todo = Addr \ AlreadySent]
    /\ before' = [before EXCEPT ![r] = {q \in Runs : run[q].at = "over"}]
    /\ UNCHANGED <<callVars, conf, dispatch, resumes, entry, job, log, inbox,
                   pushed, faults, lost>>

\* Rows a broken broadcast left pending, those of a running one included.
Sweep(r) ==
    /\ run[r].at = "sweep"
    /\ log' = [q \in Runs |-> [a \in Addr |->
                  IF log[q][a] = "PENDING" THEN "FAILED" ELSE log[q][a]]]
    /\ Goto(r, "next")
    /\ UNCHANGED <<callVars, conf, dispatch, resumes, entry, job, inbox, pushed,
                   before, faults, lost>>

\* The row of the next address; an address whose row fails is passed over.
LogPending(r, a) ==
    /\ run[r].at = "next" /\ a \in run[r].todo
    /\ \/ /\ log' = [log EXCEPT ![r][a] = "PENDING"]
          /\ run' = [run EXCEPT ![r].at = "smtp", ![r].now = a,
                                ![r].todo = @ \ {a}]
          /\ UNCHANGED <<faults, lost>>
       \/ /\ Fault /\ lost' = TRUE
          /\ run' = [run EXCEPT ![r].failed = TRUE, ![r].todo = @ \ {a}]
          /\ UNCHANGED log
    /\ UNCHANGED <<callVars, conf, dispatch, resumes, entry, job, inbox, pushed,
                   before>>

\* The SMTP server takes the mail, refuses it, or takes it without an answer
\* within the time MailService waits; outside the allowlist it is not asked.
Smtp(r) ==
    /\ run[r].at = "smtp"
    /\ \E result \in {"SENT", "FAILED", "STUB"}, taken \in BOOLEAN :
          /\ run[r].now \in conf.allowed <=> result # "STUB"
          /\ result = "SENT" => taken
          /\ result = "STUB" => ~taken
          /\ inbox' = IF taken THEN [inbox EXCEPT ![run[r].now] = @ \cup {r}]
                      ELSE inbox
          /\ run' = [run EXCEPT ![r].at = "save", ![r].result = result]
    /\ UNCHANGED <<callVars, conf, dispatch, resumes, entry, job, log, pushed,
                   before, faults, lost>>

\* A row that cannot be saved stays as it was and the loop goes on; a failure
\* to save SENT is taken for one of the mail, and FAILED is saved instead.
SaveLog(r) ==
    /\ run[r].at = "save"
    /\ \/ /\ log' = [log EXCEPT ![r][run[r].now] = run[r].result]
          /\ run' = [run EXCEPT ![r].at = "next", ![r].now = None,
                        ![r].result = None,
                        ![r].failed = @ \/ run[r].result # "SENT"]
          /\ UNCHANGED faults
       \/ /\ Fault
          /\ run' = [run EXCEPT ![r].at = "next", ![r].now = None,
                        ![r].result = None, ![r].failed = TRUE]
          /\ \/ UNCHANGED log
             \/ /\ run[r].result = "SENT"
                /\ log' = [log EXCEPT ![r][run[r].now] = "FAILED"]
    /\ UNCHANGED <<callVars, conf, dispatch, resumes, entry, job, inbox, pushed,
                   before, lost>>

\* Mutant: the loop ends at the first failure.
FinishEarly(r) ==
    /\ run[r].at = "next" /\ (run[r].todo = {} \/ run[r].failed)
    /\ job' = [job EXCEPT ![run[r].job] =
                  [status |-> "DONE", clean |-> ~run[r].failed]]
    /\ End(r)
    /\ UNCHANGED <<callVars, conf, dispatch, resumes, mailVars, faults, lost>>

\* The row of the broadcast reports whether any address failed.
Finish(r) ==
    /\ run[r].at = "next" /\ run[r].todo = {}
    /\ job' = [job EXCEPT ![run[r].job] =
                  [status |-> "DONE", clean |-> ~run[r].failed]]
    /\ End(r)
    /\ UNCHANGED <<callVars, conf, dispatch, resumes, mailVars, faults, lost>>

\* A query fails outside the two above: the error is caught and noted in the
\* row, so BullMQ ticks the entry off and never tries it again.
Break(r) ==
    /\ run[r].at \in {"push", "read", "sweep", "next"}
    /\ Fault /\ lost' = TRUE
    /\ job' = [job EXCEPT ![run[r].job] = [status |-> "FAILED", clean |-> FALSE]]
    /\ End(r)
    /\ UNCHANGED <<callVars, conf, dispatch, resumes, mailVars>>

\* BullMQ hands the entry out again, or it is used up.
HandOut(e, again, stalls, tries) ==
    IF again
    THEN /\ entry' = [entry EXCEPT ![e] =
                         EntryOf("waiting", entry[e].resume, stalls, tries)]
         /\ UNCHANGED lost
    ELSE /\ entry' = [entry EXCEPT ![e] = Done]
         /\ lost' = TRUE

\* The error is not caught: it struck before there was a row, or the note of
\* it failed too. In the API it ends the broadcast.
Throw(r) ==
    /\ run[r].at \in {"open", "push", "read", "sweep", "next"} /\ Fault
    /\ run' = [run EXCEPT ![r] = Over]
    /\ \/ run[r].host = Api /\ lost' = TRUE /\ UNCHANGED entry
       \/ \E e \in Entries :
             /\ run[r].host = e
             /\ HandOut(e, entry[e].tries + 1 < Attempts, entry[e].stalls,
                        entry[e].tries + 1)
    /\ UNCHANGED <<callVars, conf, dispatch, resumes, job, mailVars>>

\* The worker dies: BullMQ finds the entry stalled.
WorkerDies(e) ==
    /\ entry[e].at = "active" /\ Fault
    /\ run' = [r \in Runs |-> IF run[r].host = e THEN Over ELSE run[r]]
    /\ HandOut(e, entry[e].stalls < MaxStalls, entry[e].stalls + 1,
               entry[e].tries)
    /\ UNCHANGED <<callVars, conf, dispatch, resumes, job, mailVars>>

\* The API dies, with the dispatch and the broadcasts it was running.
ApiDies ==
    /\ dispatch # None \/ \E r \in Runs : run[r].host = Api
    /\ Fault /\ lost' = TRUE
    /\ run' = [r \in Runs |-> IF run[r].host = Api THEN Over ELSE run[r]]
    /\ dispatch' = None
    /\ UNCHANGED <<callVars, conf, resumes, entry, job, mailVars>>

Work(r) ==
    \/ Open(r) \/ PushMany(r) \/ ReadSent(r) \/ Sweep(r) \/ Smtp(r)
    \/ SaveLog(r) \/ Finish(r) \/ \E a \in Addr : LogPending(r, a)
CallStep ==
    /\ CallNext
    /\ UNCHANGED <<conf, dispatch, resumes, entry, job, run, mailVars, faults, lost>>

Next ==
    \/ CallStep \/ PublishCall \/ ResumeBroadcast \/ Enqueue \/ SendHere \/ GiveUp
    \/ \E e \in Entries : Take(e) \/ WorkerDies(e)
    \/ \E r \in Runs : Work(r) \/ Break(r) \/ Throw(r)
    \/ ApiDies

Spec == BroadcastInit /\ [][Next]_vars

\* A dispatch goes on, workers run, every await of a broadcast ends: a mail
\* has a time limit, and a query that does not return is a fault.
FairSpec ==
    /\ Spec /\ WF_vars(Enqueue \/ SendHere \/ GiveUp)
    /\ \A e \in Entries : WF_vars(Take(e))
    /\ \A r \in Runs : WF_vars(Work(r))

----------------------------------------------------------------------------
(* Properties.                                                             *)

Entry == [at : {"free", "waiting", "active", "done"}, resume : Jobs \cup {NoRow},
          stalls : 0 .. MaxStalls, tries : 0 .. Attempts - 1]
Job == [status : {"NONE", "RUNNING", "DONE", "FAILED"}, clean : BOOLEAN]
LogStatus == {"NONE", "PENDING", "SENT", "FAILED", "STUB"}
Run == [at : {"none", "open", "push", "read", "sweep", "next", "smtp", "save",
              "over"},
        host : Entries \cup {Api, None}, job : Jobs \cup {NoRow},
        todo : SUBSET Addr, now : Addr \cup {None},
        result : {"SENT", "FAILED", "STUB", None}, failed : BOOLEAN]

\* Every row and every value in memory has its type, and a broadcast beyond
\* its first query has a row.
TypeOK ==
    /\ status \in CfpStatus /\ agreed \in BOOLEAN
    /\ period \in {None, "OPEN", "CLOSED"}
    /\ conf \in Confs /\ dispatch \in Jobs \cup {NoRow, None}
    /\ {resumes, faults} \subseteq Nat /\ lost \in BOOLEAN
    /\ entry \in [Entries -> Entry] /\ job \in [Jobs -> Job]
    /\ run \in [Runs -> Run] /\ log \in [Runs -> [Addr -> LogStatus]]
    /\ inbox \in [Addr -> SUBSET Runs] /\ pushed \subseteq Runs
    /\ before \in [Runs -> SUBSET Runs]
    /\ \A r \in Runs :
          /\ run[r].at \notin {"none", "open", "over"} => run[r].job \in Jobs
          /\ run[r].at \in {"smtp", "save"} <=> run[r].now # None
          /\ run[r].at = "save" => run[r].result # None

\* A published call says what BGH approved.
PublishedAsApproved == status \in {"APPROVED", "PUBLISHED"} => agreed

\* A row that says SENT stands for a mail that arrived, through crashes,
\* timeouts and the sweep of other broadcasts.
SentArrived ==
    \A r \in Runs, a \in Addr : log[r][a] = "SENT" => r \in inbox[a]

\* A job that reports neither an interruption nor a failed address has, with
\* those before it, sent a mail to every address.
CleanJobReachedAll ==
    \A j \in Jobs : job[j].status = "DONE" /\ job[j].clean =>
        \A a \in Addr : \E r \in Runs : log[r][a] = "SENT"

\* A broadcast never sends again what a broadcast that had ended before it
\* read the logs is known to have sent ("bo qua email da SENT").
ResumeSkipsSent ==
    \A r \in Runs, a \in Addr : r \in inbox[a] =>
        \A q \in before[r] : log[q][a] # "SENT"

\* Unless a process or a query fails for good, every address is tried after
\* a publication; one death of a worker does not matter.
EveryoneIsTried ==
    status = "PUBLISHED" ~>
        (lost \/ \A a \in Addr : \E r \in Runs : log[r][a] # "NONE")
=============================================================================
