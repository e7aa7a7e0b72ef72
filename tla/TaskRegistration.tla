------------------------- MODULE TaskRegistration -------------------------
(***************************************************************************)
(* The last step of the catalogue: people register to carry out a task,    *)
(* their unit confirms, PKH accepts one registration and refuses the rest, *)
(* and the assignment opens the outline of the one accepted.               *)
(*                                                                         *)
(* A request of PKH reads the registrations once and then saves row after  *)
(* row, without a transaction or a lock. It is cut at those saves: people, *)
(* units and other clerks act in between, and it may stop there. A request *)
(* of a unit reads and saves one row, and is cut between the two as well:  *)
(* what it saves may be stale.                                             *)
(***************************************************************************)
EXTENDS FiniteSets

CONSTANTS
    Tasks,     \* proposals offered as tasks in a published call
    People,    \* accounts that may register
    Owner,     \* Owner[t]: who wrote the proposal
    Nobody,    \* no account
    Clerks,    \* requests of PKH in flight at the same time
    MayCrash   \* TRUE: a request may be lost between two of its saves

ASSUME RegistrationAssumption ==
    /\ Owner \in [Tasks -> People]
    /\ Nobody \notin People
    /\ MayCrash \in BOOLEAN

VARIABLES
    accepting, \* the call is published and its period accepts registrations
    selection, \* what the selection made of each proposal
    canWrite,  \* can_write_outline of each proposal
    catalog,   \* catalog_registration_status of each proposal
    reg,       \* status of each person's registration for each task
    assigned,  \* principal of the official assignment, or Nobody
    outline,   \* the outline of each proposal: where it is and whose it is
    told,      \* results sent: <<task, person, result>>
    req,       \* the request each clerk is running and what it has read
    lost,      \* tasks on which a request stopped half-way
    atUnit,    \* registrations that a request of the unit has read as waiting
               \* for it and is about to save
    overruled  \* history: registrations that PKH accepted or refused between
               \* the unit's read and its save, which was made over it

docs == <<selection, canWrite, outline>>
rows == <<reg, assigned, catalog, told>>
unit == <<atUnit, overruled>>
vars == <<accepting, docs, rows, req, lost, unit>>

Selections == {"HOP_LE", "DUOC_CHON", "KHONG_CHON"}
Statuses   == {"none", "DRAFT", "CHO_DON_VI", "CHO_PKH",
               "DKDT_DUOC_CHAP_THUAN", "DKDT_TU_CHOI"}
Verdicts   == {"DKDT_DUOC_CHAP_THUAN", "DKDT_TU_CHOI"}
Waiting    == {"CHO_DON_VI", "CHO_PKH"}
Results    == {"given", "refused", "closed"}
Places     == {"none", "THUYETMINH_DRAFT", "THUYETMINH_PENDING"}
Ops        == {"accept", "assign", "close"}
Points     == {"chosen", "rows", "outline", "owner", "assignment", "task", "tell"}

Idle == [op |-> "idle"]
Requests ==
    [op : Ops, at : Points, task : Tasks, who : People \cup {Nobody},
     left : SUBSET People, dirty : SUBSET People]

TypeOK ==
    /\ accepting \in BOOLEAN
    /\ selection \in [Tasks -> Selections]
    /\ canWrite \in [Tasks -> BOOLEAN]
    /\ catalog \in [Tasks -> {"none", "DA_GIAO", "DM_DONG_DANG_KY"}]
    /\ reg \in [Tasks -> [People -> Statuses]]
    /\ assigned \in [Tasks -> People \cup {Nobody}]
    /\ outline \in [Tasks -> [at : Places, owner : People \cup {Nobody}]]
    /\ told \subseteq Tasks \X People \X Results
    /\ req \in [Clerks -> Requests \cup {Idle}]
    /\ lost \subseteq Tasks
    /\ atUnit \subseteq Tasks \X People
    /\ overruled \subseteq Tasks \X People

Init ==
    /\ accepting \in BOOLEAN
    /\ selection = [t \in Tasks |-> "HOP_LE"]
    /\ canWrite = [t \in Tasks |-> FALSE]
    /\ catalog = [t \in Tasks |-> "none"]
    /\ reg = [t \in Tasks |-> [p \in People |-> "none"]]
    /\ assigned = [t \in Tasks |-> Nobody]
    /\ outline = [t \in Tasks |-> [at |-> "none", owner |-> Nobody]]
    /\ told = {}
    /\ req = [c \in Clerks |-> Idle]
    /\ lost = {} /\ atUnit = {} /\ overruled = {}

----------------------------------------------------------------------------
(* Around the registrations: the period, the selection, the outlines.      *)

\* The period ends, is closed or is extended.
MovePeriod ==
    /\ accepting' = ~accepting
    /\ UNCHANGED <<docs, rows, req, lost, unit>>

Decided(t, result) ==
    /\ selection' = [selection EXCEPT ![t] = result]
    /\ canWrite' = [canWrite EXCEPT ![t] = result = "DUOC_CHON"]
    /\ UNCHANGED <<accepting, outline, rows, req, lost, unit>>

\* BGH approves the catalogue of a selection session.
BghDecides(t, result) ==
    /\ selection[t] = "HOP_LE"
    /\ Decided(t, result)

\* ADMIN corrects a result after the session is locked.
AdminEdits(t, result) ==
    /\ selection[t] # "HOP_LE"
    /\ Decided(t, result)

Eligible(t) ==
    canWrite[t] /\ (catalog[t] = "DA_GIAO" \/ selection[t] = "DUOC_CHON")

\* userCanWriteOutline: the assigned principal, before that the proposer (or
\* the principal the proposal names, who is not told apart here).
MayWrite(t, p) == p = IF assigned[t] = Nobody THEN Owner[t] ELSE assigned[t]

OpenOutline(t, p) ==
    /\ MayWrite(t, p) /\ Eligible(t)
    /\ outline[t].at = "none"
    /\ outline' = [outline EXCEPT ![t] = [at |-> "THUYETMINH_DRAFT",
                                          owner |-> Owner[t]]]
    /\ UNCHANGED <<accepting, selection, canWrite, rows, req, lost, unit>>

FileOutline(t, p) ==
    /\ MayWrite(t, p) /\ Eligible(t)
    /\ outline[t].at = "THUYETMINH_DRAFT"
    /\ outline' = [outline EXCEPT ![t].at = "THUYETMINH_PENDING"]
    /\ UNCHANGED <<accepting, selection, canWrite, rows, req, lost, unit>>

TakeBackOutline(t, p) ==
    /\ MayWrite(t, p)
    /\ outline[t].at = "THUYETMINH_PENDING"
    /\ outline' = [outline EXCEPT ![t].at = "THUYETMINH_DRAFT"]
    /\ UNCHANGED <<accepting, selection, canWrite, rows, req, lost, unit>>

----------------------------------------------------------------------------
(* The registrants and their units: one row, saved once.                   *)

SetReg(t, p, s) == reg' = [reg EXCEPT ![t][p] = s]

\* luu: one row per person and task, locked while it is written. It asks the
\* call and its period, not the state of the task.
Save(t, p, sent) ==
    /\ accepting
    /\ reg[t][p] \in {"none", "DRAFT"}
    /\ SetReg(t, p, IF sent THEN "CHO_DON_VI" ELSE "DRAFT")
    /\ UNCHANGED <<accepting, docs, assigned, catalog, told, req, lost, unit>>

\* xacNhan and traLai read the row and check its status; other queries follow
\* before the save, and other requests may read the row in the meantime.
UnitReads(t, p) ==
    /\ reg[t][p] = "CHO_DON_VI"
    /\ atUnit' = atUnit \cup {<<t, p>>}
    /\ UNCHANGED <<accepting, docs, rows, req, lost, overruled>>

UnitSaves(t, p, s) ==
    /\ <<t, p>> \in atUnit
    /\ SetReg(t, p, s)
    /\ overruled' = IF reg[t][p] \in Verdicts THEN overruled \cup {<<t, p>>}
                    ELSE overruled
    /\ \E others \in BOOLEAN :
          atUnit' = IF others THEN atUnit ELSE atUnit \ {<<t, p>>}
    /\ UNCHANGED <<accepting, docs, assigned, catalog, told, req, lost>>

\* xacNhan
Confirm(t, p) == UnitSaves(t, p, "CHO_PKH")

\* traLai
Return(t, p) == UnitSaves(t, p, "DRAFT")

----------------------------------------------------------------------------
(* The requests of PKH.                                                    *)

Sent(t)       == {p \in People : reg[t][p] \notin {"none", "DRAFT"}}
In(t, status) == {p \in People : reg[t][p] = status}
Accepted(t)   == In(t, "DKDT_DUOC_CHAP_THUAN")
Refused(t)    == In(t, "DKDT_TU_CHOI")
Unsettled(t)  == {p \in People : reg[t][p] \in Waiting}

Start(c, r)       == req[c] = Idle /\ req' = [req EXCEPT ![c] = r]
Running(c, op, at) == req[c].op = op /\ req[c].at = at
Goto(c, at)       == req' = [req EXCEPT ![c].at = at]
Finish(c)         == req' = [req EXCEPT ![c] = Idle]

\* Mutant: another registration may be accepted while one is.
StartAcceptAnother(c, t, p) ==
    /\ catalog[t] = "none"
    /\ p \in Sent(t) /\ reg[t][p] # "CHO_DON_VI"
    /\ LET others == Sent(t) \ {p} IN
       Start(c, [op |-> "accept", task |-> t, who |-> p,
                 at |-> IF p \in Accepted(t) THEN "rows" ELSE "chosen",
                 left |-> others, dirty |-> others \ Refused(t)])
    /\ UNCHANGED <<accepting, docs, rows, lost, unit>>

\* chapThuan, up to its first save. A row that already has the value it is
\* given is not written, so only the rows that change are kept as dirty.
StartAccept(c, t, p) ==
    /\ catalog[t] = "none"
    /\ Accepted(t) \subseteq {p}
    /\ p \in Sent(t) /\ reg[t][p] # "CHO_DON_VI"
    /\ LET others == Sent(t) \ {p} IN
       Start(c, [op |-> "accept", task |-> t, who |-> p,
                 at |-> IF p \in Accepted(t) THEN "rows" ELSE "chosen",
                 left |-> others, dirty |-> others \ Refused(t)])
    /\ UNCHANGED <<accepting, docs, rows, lost, unit>>

SaveAccepted(c) ==
    /\ Running(c, "accept", "chosen")
    /\ SetReg(req[c].task, req[c].who, "DKDT_DUOC_CHAP_THUAN")
    /\ Goto(c, "rows")
    /\ UNCHANGED <<accepting, docs, assigned, catalog, told, lost, unit>>

\* Mutant: a task may be closed over an accepted registration.
StartCloseAccepted(c, t) ==
    /\ catalog[t] = "none"
    /\ Start(c, [op |-> "close", at |-> "task", task |-> t, who |-> Nobody,
                 left |-> Sent(t), dirty |-> Unsettled(t)])
    /\ UNCHANGED <<accepting, docs, rows, lost, unit>>

\* dongDangKy, up to its first save.
StartClose(c, t) ==
    /\ catalog[t] = "none"
    /\ Accepted(t) = {}
    /\ Start(c, [op |-> "close", at |-> "task", task |-> t, who |-> Nobody,
                 left |-> Sent(t), dirty |-> Unsettled(t)])
    /\ UNCHANGED <<accepting, docs, rows, lost, unit>>

SaveClosed(c) ==
    /\ Running(c, "close", "task")
    /\ catalog' = [catalog EXCEPT ![req[c].task] = "DM_DONG_DANG_KY"]
    /\ Goto(c, "rows")
    /\ UNCHANGED <<accepting, docs, reg, assigned, told, lost, unit>>

\* Mutant: a closing does not tell those who still waited for their unit.
RefuseNextQuietly(c, p) ==
    /\ req[c].op \in {"accept", "close"} /\ req[c].at = "rows"
    /\ p \in req[c].left
    /\ IF p \in req[c].dirty THEN SetReg(req[c].task, p, "DKDT_TU_CHOI")
                             ELSE UNCHANGED reg
    /\ told' = IF req[c].op = "close" /\ reg[req[c].task][p] # "CHO_DON_VI"
               THEN told \cup {<<req[c].task, p, "closed">>} ELSE told
    /\ req' = [req EXCEPT ![c].left = @ \ {p}]
    /\ UNCHANGED <<accepting, docs, assigned, catalog, lost, unit>>

\* The loop of both: refuse the rows still to be refused, tell everybody of a
\* closing as the loop goes.
RefuseNext(c, p) ==
    /\ req[c].op \in {"accept", "close"} /\ req[c].at = "rows"
    /\ p \in req[c].left
    /\ IF p \in req[c].dirty THEN SetReg(req[c].task, p, "DKDT_TU_CHOI")
                             ELSE UNCHANGED reg
    /\ told' = IF req[c].op = "close"
               THEN told \cup {<<req[c].task, p, "closed">>} ELSE told
    /\ req' = [req EXCEPT ![c].left = @ \ {p}]
    /\ UNCHANGED <<accepting, docs, assigned, catalog, lost, unit>>

EndLoop(c) ==
    /\ req[c].op # "idle" /\ req[c].at \in {"rows", "tell"}
    /\ req[c].left = {}
    /\ Finish(c)
    /\ UNCHANGED <<accepting, docs, rows, lost, unit>>

\* phanCong, up to its first save.
StartAssign(c, t) ==
    /\ catalog[t] = "none"
    /\ assigned[t] = Nobody
    /\ Unsettled(t) = {}
    /\ \E p \in People :
        /\ Accepted(t) = {p}
        /\ Start(c, [op |-> "assign", at |-> "outline", task |-> t, who |-> p,
                     left |-> Refused(t) \cup {p}, dirty |-> {}])
    /\ UNCHANGED <<accepting, docs, rows, lost, unit>>

\* moThuyetMinh finds the outline or makes one from the proposal; whatever its
\* status, the one it finds is then given to the person chosen.
FindOutline(c) ==
    /\ Running(c, "assign", "outline")
    /\ LET t == req[c].task IN
       outline' = IF outline[t].at # "none" THEN outline
                  ELSE [outline EXCEPT ![t] = [at |-> "THUYETMINH_DRAFT",
                                               owner |-> Owner[t]]]
    /\ Goto(c, "owner")
    /\ UNCHANGED <<accepting, selection, canWrite, rows, lost, unit>>

\* Mutant: only a draft changes hands.
GiveDraft(c) ==
    /\ Running(c, "assign", "owner")
    /\ outline' = IF outline[req[c].task].at = "THUYETMINH_DRAFT"
                  THEN [outline EXCEPT ![req[c].task].owner = req[c].who]
                  ELSE outline
    /\ Goto(c, "assignment")
    /\ UNCHANGED <<accepting, selection, canWrite, rows, lost, unit>>

GiveOutline(c) ==
    /\ Running(c, "assign", "owner")
    /\ outline' = [outline EXCEPT ![req[c].task].owner = req[c].who]
    /\ Goto(c, "assignment")
    /\ UNCHANGED <<accepting, selection, canWrite, rows, lost, unit>>

\* Mutant: the results go out before the task is marked, which is forgotten.
RecordAndTell(c) ==
    /\ Running(c, "assign", "assignment")
    /\ IF assigned[req[c].task] = Nobody
       THEN /\ assigned' = [assigned EXCEPT ![req[c].task] = req[c].who]
            /\ Goto(c, "tell")
       ELSE UNCHANGED assigned /\ Finish(c)
    /\ UNCHANGED <<accepting, docs, reg, catalog, told, lost, unit>>

\* official_assignments has one row per task: a second insert fails and the
\* request ends there.
RecordAssignment(c) ==
    /\ Running(c, "assign", "assignment")
    /\ IF assigned[req[c].task] = Nobody
       THEN /\ assigned' = [assigned EXCEPT ![req[c].task] = req[c].who]
            /\ Goto(c, "task")
       ELSE UNCHANGED assigned /\ Finish(c)
    /\ UNCHANGED <<accepting, docs, reg, catalog, told, lost, unit>>

MarkAssigned(c) ==
    /\ Running(c, "assign", "task")
    /\ catalog' = [catalog EXCEPT ![req[c].task] = "DA_GIAO"]
    /\ canWrite' = [canWrite EXCEPT ![req[c].task] = TRUE]
    /\ Goto(c, "tell")
    /\ UNCHANGED <<accepting, selection, outline, reg, assigned, told>>
    /\ UNCHANGED <<lost, unit>>

\* guiKetQua: the person chosen first, then the ones refused.
Tell(c, p) ==
    /\ Running(c, "assign", "tell")
    /\ p \in req[c].left
    /\ req[c].who \in req[c].left => p = req[c].who
    /\ told' = told \cup {<<req[c].task, p,
                            IF p = req[c].who THEN "given" ELSE "refused">>}
    /\ req' = [req EXCEPT ![c].left = @ \ {p}]
    /\ UNCHANGED <<accepting, docs, reg, assigned, catalog, lost, unit>>

\* A query fails or the process stops: what was saved stays saved.
Crash(c) ==
    /\ MayCrash /\ req[c] # Idle
    /\ Finish(c)
    /\ lost' = lost \cup {req[c].task}
    /\ UNCHANGED <<accepting, docs, rows, unit>>

----------------------------------------------------------------------------
Around ==
    \/ MovePeriod
    \/ \E t \in Tasks, result \in {"DUOC_CHON", "KHONG_CHON"} :
          BghDecides(t, result) \/ AdminEdits(t, result)
    \/ \E t \in Tasks, p \in People :
          \/ OpenOutline(t, p) \/ FileOutline(t, p) \/ TakeBackOutline(t, p)
          \/ \E sent \in BOOLEAN : Save(t, p, sent)
          \/ UnitReads(t, p) \/ Confirm(t, p) \/ Return(t, p)

Begin(c) ==
    \E t \in Tasks :
        \/ \E p \in People : StartAccept(c, t, p)
        \/ StartClose(c, t)
        \/ StartAssign(c, t)

Continue(c) ==
    \/ SaveAccepted(c) \/ SaveClosed(c) \/ EndLoop(c)
    \/ \E p \in People : RefuseNext(c, p) \/ Tell(c, p)
    \/ FindOutline(c) \/ GiveOutline(c) \/ RecordAssignment(c) \/ MarkAssigned(c)

Next == Around \/ \E c \in Clerks : Begin(c) \/ Continue(c) \/ Crash(c)

Spec == Init /\ [][Next]_vars

\* A request that was begun goes on; nobody is obliged to begin one.
FairSpec == Spec /\ \A c \in Clerks : WF_vars(Continue(c))
----------------------------------------------------------------------------
(* Properties.                                                             *)

Busy(t) == \E c \in Clerks : req[c] # Idle /\ req[c].task = t

\* The person the task is assigned to is the only one whose registration is
\* accepted, whatever arrives while phanCong is on its way; except that the
\* unit of that person may save over the acceptance.
AssignedIsAccepted ==
    \A t \in Tasks :
        assigned[t] # Nobody /\ <<t, assigned[t]>> \notin overruled =>
            Accepted(t) = {assigned[t]}

\* Once the task is given away the outline belongs to its principal, also when
\* the proposer had opened or filed it before.
OutlineFollowsTask ==
    \A t \in Tasks : catalog[t] = "DA_GIAO" =>
        /\ assigned[t] # Nobody
        /\ outline[t].at # "none" /\ outline[t].owner = assigned[t]

\* A result that was sent stays true: only one person is ever given a task, a
\* task said to be given or closed stays so, and nobody told of a refusal is
\* assigned the task. The row of a person told of a refusal reads so until a
\* save of the unit that read it before the refusal takes it back.
ToldStands ==
    \A t \in Tasks, p \in People :
        LET refused == reg[t][p] = "DKDT_TU_CHOI" \/ <<t, p>> \in overruled IN
        /\ <<t, p, "given">> \in told => catalog[t] = "DA_GIAO" /\ assigned[t] = p
        /\ <<t, p, "refused">> \in told =>
            catalog[t] = "DA_GIAO" /\ assigned[t] # p /\ refused
        /\ <<t, p, "closed">> \in told =>
            catalog[t] = "DM_DONG_DANG_KY" /\ refused

\* When a task is assigned or closed, and no request was lost on the way,
\* everybody accepted or refused has been told.
EveryDecisionIsTold ==
    \A t \in Tasks : catalog[t] # "none" /\ ~Busy(t) /\ t \notin lost =>
        \A p \in Accepted(t) \cup Refused(t) :
            \E result \in Results : <<t, p, result>> \in told

\* An assignment once recorded is carried through to the task, unless the
\* request is lost in between.
AssignmentCompletes ==
    \A t \in Tasks :
        assigned[t] # Nobody ~> catalog[t] = "DA_GIAO" \/ t \in lost

=============================================================================
