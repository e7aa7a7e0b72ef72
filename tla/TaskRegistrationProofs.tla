---------------------- MODULE TaskRegistrationProofs ----------------------
(***************************************************************************)
(* What TaskRegistration keeps for any tasks, people, clerks and number of *)
(* lost requests, as long as no two requests of PKH are in flight on one   *)
(* task. Two on one task break it: an acceptance and a closing that have   *)
(* both read the task in its first state overwrite each other.             *)
(*                                                                         *)
(* Any number of requests of the units run beside them.                    *)
(*                                                                         *)
(* The properties speak of the state between two requests; InFlight says   *)
(* what a request that is half-way has read that is still so, and Settled  *)
(* what is so on a task with or without one. A late save of a unit takes   *)
(* an acceptance or a refusal back: the invariant then rests on the record *)
(* of it in overruled.                                                     *)
(***************************************************************************)
EXTENDS TaskRegistration, TLAPS

\* Clerks work side by side, each on a task of their own.
OnePerTask ==
    \A c, d \in Clerks :
        req[c] # Idle /\ req[d] # Idle /\ req[c].task = req[d].task => c = d

IsAccepted(t, p) == reg[t][p] = "DKDT_DUOC_CHAP_THUAN"
IsRefused(t, p)  == reg[t][p] = "DKDT_TU_CHOI"
\* ... or was, before a late save of the unit.
WasRefused(t, p) == IsRefused(t, p) \/ <<t, p>> \in overruled
\* x is the only person accepted, nobody is when x is Nobody; x itself may have
\* been taken back by its unit.
OnlyAccepted(t, x) ==
    /\ \A p \in People : IsAccepted(t, p) => p = x
    /\ x \in People => IsAccepted(t, x) \/ <<t, x>> \in overruled
IsTold(t, p) == \E result \in Results : <<t, p, result>> \in told

Settled(t) ==
    /\ assigned[t] # Nobody =>
        /\ <<t, assigned[t]>> \notin overruled => OnlyAccepted(t, assigned[t])
        /\ outline[t].at # "none" /\ outline[t].owner = assigned[t]
    /\ catalog[t] = "DA_GIAO" => assigned[t] # Nobody
    /\ catalog[t] = "DM_DONG_DANG_KY" => OnlyAccepted(t, Nobody)

Accepting(r) ==
    /\ r.at \in {"chosen", "rows"} /\ catalog[r.task] = "none"
    /\ r.who \in People \ r.left
    /\ r.at = "chosen" => OnlyAccepted(r.task, Nobody)
    /\ r.at = "rows"   => OnlyAccepted(r.task, r.who)

Closing(r) ==
    /\ r.at \in {"task", "rows"}
    /\ OnlyAccepted(r.task, Nobody)
    /\ r.at = "task" => catalog[r.task] = "none"
    /\ r.at = "rows" => catalog[r.task] = "DM_DONG_DANG_KY"
    /\ \A p \in People : IsRefused(r.task, p) =>
            p \in r.left \/ (r.at = "rows" /\ IsTold(r.task, p))

Assigning(r) ==
    /\ r.at \in {"outline", "owner", "assignment", "task", "tell"}
    /\ r.who \in People /\ OnlyAccepted(r.task, r.who)
    /\ assigned[r.task] = IF r.at \in {"task", "tell"} THEN r.who ELSE Nobody
    /\ catalog[r.task] = IF r.at = "tell" THEN "DA_GIAO" ELSE "none"
    /\ r.at \in {"owner", "assignment"} => outline[r.task].at # "none"
    /\ r.at = "assignment" => outline[r.task].owner = r.who
    /\ \A p \in r.left : WasRefused(r.task, p) \/ p = r.who
    /\ \A p \in People : IsRefused(r.task, p) \/ p = r.who =>
            p \in r.left \/ (r.at = "tell" /\ IsTold(r.task, p))

InFlight(r) ==
    /\ r.op = "accept" => Accepting(r)
    /\ r.op = "close"  => Closing(r)
    /\ r.op = "assign" => Assigning(r)
    /\ r.op \in {"accept", "close"} =>
        \A p \in r.left \ r.dirty : WasRefused(r.task, p)

\* ToldStands and EveryDecisionIsTold, for one task.
Stands(t) ==
    \A p \in People :
        /\ <<t, p, "given">> \in told => catalog[t] = "DA_GIAO" /\ assigned[t] = p
        /\ <<t, p, "refused">> \in told =>
            catalog[t] = "DA_GIAO" /\ assigned[t] # p /\ WasRefused(t, p)
        /\ <<t, p, "closed">> \in told =>
            catalog[t] = "DM_DONG_DANG_KY" /\ WasRefused(t, p)
AllTold(t) ==
    catalog[t] # "none" /\ ~Busy(t) /\ t \notin lost =>
        \A p \in People : IsAccepted(t, p) \/ IsRefused(t, p) => IsTold(t, p)

Kept(t) == Settled(t) /\ Stands(t) /\ AllTold(t)

IInv ==
    /\ TypeOK
    /\ \A t \in Tasks : Kept(t)
    /\ \A c \in Clerks : InFlight(req[c])

----------------------------------------------------------------------------
(* What the invariant gives.                                               *)

LEMMA KeptGives ==
    ASSUME IInv
    PROVE  AssignedIsAccepted /\ OutlineFollowsTask /\ ToldStands
           /\ EveryDecisionIsTold
  <1>1. AssignedIsAccepted
    <2> SUFFICES ASSUME NEW t \in Tasks, assigned[t] # Nobody,
                        <<t, assigned[t]>> \notin overruled
                 PROVE  Accepted(t) = {assigned[t]}
      BY DEF AssignedIsAccepted
    <2>1. assigned[t] \in People /\ OnlyAccepted(t, assigned[t])
      BY DEF IInv, TypeOK, Kept, Settled
    <2> QED
      BY <2>1 DEF OnlyAccepted, IsAccepted, Accepted, In
  <1>2. OutlineFollowsTask
    BY DEF IInv, Kept, Settled, OutlineFollowsTask
  <1>3. ToldStands
    BY DEF IInv, Kept, Stands, WasRefused, IsRefused, ToldStands
  <1>4. EveryDecisionIsTold
    BY DEF IInv, Kept, AllTold, IsTold, IsAccepted, IsRefused,
           EveryDecisionIsTold, Accepted, Refused, In
  <1> QED
    BY <1>1, <1>2, <1>3, <1>4

\* The invariant holds before the first registration.
THEOREM InitInv ==
    Init => IInv
  <1> SUFFICES ASSUME Init PROVE IInv
    OBVIOUS
  <1> USE RegistrationAssumption DEF Init
  <1>1. TypeOK
    BY DEF TypeOK, Selections, Statuses, Places
  <1>2. \A t \in Tasks : Kept(t)
    BY DEF Kept, Settled, Stands, AllTold
  <1>3. \A c \in Clerks : InFlight(req[c])
    BY DEF InFlight, Idle
  <1> QED
    BY <1>1, <1>2, <1>3 DEF IInv

----------------------------------------------------------------------------
(* Types.                                                                  *)

LEMMA AroundTypes ==
    ASSUME TypeOK, Around
    PROVE  TypeOK'
  <1> USE DEF TypeOK, docs, rows, unit
  <1>1. CASE MovePeriod
    BY <1>1 DEF MovePeriod
  <1>2. ASSUME NEW t \in Tasks, NEW result \in {"DUOC_CHON", "KHONG_CHON"},
               BghDecides(t, result) \/ AdminEdits(t, result)
        PROVE  TypeOK'
    BY <1>2 DEF BghDecides, AdminEdits, Decided, Selections
  <1>3. ASSUME NEW t \in Tasks, NEW p \in People,
               OpenOutline(t, p) \/ FileOutline(t, p) \/ TakeBackOutline(t, p)
        PROVE  TypeOK'
    <2>1. outline' \in [Tasks -> [at : Places, owner : People \cup {Nobody}]]
      <3>1. CASE OpenOutline(t, p)
        BY <3>1, RegistrationAssumption DEF OpenOutline, Places
      <3>2. CASE FileOutline(t, p)
        BY <3>2 DEF FileOutline, Places
      <3>3. CASE TakeBackOutline(t, p)
        BY <3>3 DEF TakeBackOutline, Places
      <3> QED
        BY <1>3, <3>1, <3>2, <3>3
    <2> QED
      BY <1>3, <2>1 DEF OpenOutline, FileOutline, TakeBackOutline
  <1>4. ASSUME NEW t \in Tasks, NEW p \in People, NEW s \in Statuses,
               SetReg(t, p, s)
        PROVE  reg' \in [Tasks -> [People -> Statuses]]
    BY <1>4 DEF SetReg
  <1>5. ASSUME NEW t \in Tasks, NEW p \in People, NEW sent \in BOOLEAN,
               Save(t, p, sent)
        PROVE  TypeOK'
    <2>1. reg' \in [Tasks -> [People -> Statuses]]
      BY <1>4, <1>5 DEF Save, Statuses
    <2> QED
      BY <1>5, <2>1 DEF Save
  <1>6. ASSUME NEW t \in Tasks, NEW p \in People, UnitReads(t, p)
        PROVE  TypeOK'
    BY <1>6 DEF UnitReads
  <1>7. ASSUME NEW t \in Tasks, NEW p \in People,
               Confirm(t, p) \/ Return(t, p)
        PROVE  TypeOK'
    <2>1. PICK s \in {"CHO_PKH", "DRAFT"} : UnitSaves(t, p, s)
      BY <1>7 DEF Confirm, Return
    <2>2. reg' \in [Tasks -> [People -> Statuses]]
      BY <1>4, <2>1 DEF UnitSaves, Statuses
    <2>3. atUnit' \subseteq Tasks \X People /\ overruled' \subseteq Tasks \X People
      BY <2>1 DEF UnitSaves
    <2> QED
      BY <2>1, <2>2, <2>3 DEF UnitSaves
  <1> QED
    BY <1>1, <1>2, <1>3, <1>5, <1>6, <1>7 DEF Around

LEMMA BeginTypes ==
    ASSUME TypeOK, NEW c \in Clerks, Begin(c)
    PROVE  TypeOK'
  <1> USE DEF TypeOK, docs, rows, unit, Start, Requests, Ops, Points
  <1>1. ASSUME NEW t \in Tasks, NEW p \in People, StartAccept(c, t, p)
        PROVE  TypeOK'
    BY <1>1 DEF StartAccept, Sent
  <1>2. ASSUME NEW t \in Tasks, StartClose(c, t)
        PROVE  TypeOK'
    BY <1>2 DEF StartClose, Sent, Unsettled
  <1>3. ASSUME NEW t \in Tasks, StartAssign(c, t)
        PROVE  TypeOK'
    BY <1>3 DEF StartAssign, Refused, In
  <1> QED
    BY <1>1, <1>2, <1>3 DEF Begin

LEMMA ContinueTypes ==
    ASSUME TypeOK, NEW c \in Clerks, Continue(c) \/ Crash(c)
    PROVE  TypeOK'
  <1>0. req[c] \in Requests
    BY DEF TypeOK, Idle, Requests, Ops, Continue, Crash, SaveAccepted,
           SaveClosed, EndLoop, RefuseNext, Tell, FindOutline, GiveOutline,
           RecordAssignment, MarkAssigned, Running
  <1>1. ASSUME NEW at \in Points, Goto(c, at)
        PROVE  req' \in [Clerks -> Requests \cup {Idle}]
    BY <1>0, <1>1 DEF TypeOK, Goto, Requests
  <1>2. ASSUME Finish(c)
        PROVE  req' \in [Clerks -> Requests \cup {Idle}]
    BY <1>2 DEF TypeOK, Finish
  <1>3. ASSUME NEW p, req' = [req EXCEPT ![c].left = @ \ {p}]
        PROVE  req' \in [Clerks -> Requests \cup {Idle}]
    BY <1>0, <1>3 DEF TypeOK, Requests
  <1>4. req[c].task \in Tasks /\ req[c].who \in People \cup {Nobody}
    BY <1>0 DEF Requests
  <1> USE DEF TypeOK, docs, rows, unit
  <1>5. CASE SaveAccepted(c)
    <2>1. req' \in [Clerks -> Requests \cup {Idle}]
      BY <1>5, <1>1 DEF SaveAccepted, Points
    <2>2. reg' \in [Tasks -> [People -> Statuses]]
      BY <1>4, <1>5 DEF SaveAccepted, SetReg, Statuses
    <2> QED
      BY <1>5, <2>1, <2>2 DEF SaveAccepted
  <1>6. CASE SaveClosed(c)
    <2>1. req' \in [Clerks -> Requests \cup {Idle}]
      BY <1>6, <1>1 DEF SaveClosed, Points
    <2> QED
      BY <1>4, <1>6, <2>1 DEF SaveClosed
  <1>7. CASE EndLoop(c)
    BY <1>7, <1>2 DEF EndLoop
  <1>8. ASSUME NEW p \in People, RefuseNext(c, p)
        PROVE  TypeOK'
    <2>1. req' \in [Clerks -> Requests \cup {Idle}]
      BY <1>8, <1>3 DEF RefuseNext
    <2>2. reg' \in [Tasks -> [People -> Statuses]]
      <3>1. CASE p \in req[c].dirty
        <4>1. SetReg(req[c].task, p, "DKDT_TU_CHOI")
          BY <1>8, <3>1 DEF RefuseNext
        <4> QED
          BY <1>4, <4>1 DEF SetReg, Statuses
      <3>2. CASE p \notin req[c].dirty
        BY <1>8, <3>2 DEF RefuseNext
      <3> QED
        BY <3>1, <3>2
    <2>3. told' \subseteq Tasks \X People \X Results
      BY <1>4, <1>8 DEF RefuseNext, Results
    <2> QED
      BY <1>8, <2>1, <2>2, <2>3 DEF RefuseNext
  <1>9. ASSUME NEW p \in People, Tell(c, p)
        PROVE  TypeOK'
    <2>1. req' \in [Clerks -> Requests \cup {Idle}]
      BY <1>9, <1>3 DEF Tell
    <2>2. told' \subseteq Tasks \X People \X Results
      BY <1>4, <1>9 DEF Tell, Results
    <2> QED
      BY <1>9, <2>1, <2>2 DEF Tell
  <1>10. CASE FindOutline(c)
    <2>1. req' \in [Clerks -> Requests \cup {Idle}]
      BY <1>10, <1>1 DEF FindOutline, Points
    <2>2. outline' \in [Tasks -> [at : Places, owner : People \cup {Nobody}]]
      BY <1>4, <1>10, RegistrationAssumption DEF FindOutline, Places
    <2> QED
      BY <1>10, <2>1, <2>2 DEF FindOutline
  <1>11. CASE GiveOutline(c)
    <2>1. req' \in [Clerks -> Requests \cup {Idle}]
      BY <1>11, <1>1 DEF GiveOutline, Points
    <2>2. outline' \in [Tasks -> [at : Places, owner : People \cup {Nobody}]]
      BY <1>4, <1>11 DEF GiveOutline
    <2> QED
      BY <1>11, <2>1, <2>2 DEF GiveOutline
  <1>12. CASE RecordAssignment(c)
    <2>1. req' \in [Clerks -> Requests \cup {Idle}]
      BY <1>12, <1>1, <1>2 DEF RecordAssignment, Points
    <2>2. assigned' \in [Tasks -> People \cup {Nobody}]
      BY <1>4, <1>12 DEF RecordAssignment
    <2> QED
      BY <1>12, <2>1, <2>2 DEF RecordAssignment
  <1>13. CASE MarkAssigned(c)
    <2>1. req' \in [Clerks -> Requests \cup {Idle}]
      BY <1>13, <1>1 DEF MarkAssigned, Points
    <2> QED
      BY <1>4, <1>13, <2>1 DEF MarkAssigned
  <1>14. CASE Crash(c)
    BY <1>4, <1>14, <1>2 DEF Crash
  <1> QED
    BY <1>5, <1>6, <1>7, <1>8, <1>9, <1>10, <1>11, <1>12, <1>13, <1>14
       DEF Continue
----------------------------------------------------------------------------
(* Steps that accept and refuse nobody.                                    *)

\* Nothing is accepted or refused, and what is taken back is recorded.
Softened ==
    /\ overruled \subseteq overruled'
    /\ \A t \in Tasks, p \in People :
        /\ IsAccepted(t, p)' => IsAccepted(t, p)
        /\ IsRefused(t, p)' => IsRefused(t, p)
        /\ IsAccepted(t, p) => IsAccepted(t, p)' \/ <<t, p>> \in overruled'
        /\ IsRefused(t, p) => IsRefused(t, p)' \/ <<t, p>> \in overruled'

\* People, units, BGH and the owners of the outlines: none of them accepts or
\* refuses a registration nor gives an outline away, and only a late save of a
\* unit takes an acceptance or a refusal back.
LEMMA AroundKeeps ==
    ASSUME IInv, Around
    PROVE  IInv'
  <1>1. TypeOK'
    BY AroundTypes DEF IInv
  <1>2. UNCHANGED <<assigned, catalog, told, req, lost>>
    BY DEF Around, MovePeriod, BghDecides, AdminEdits, Decided, OpenOutline,
           FileOutline, TakeBackOutline, Save, UnitReads, UnitSaves, Confirm,
           Return, rows
  <1>3. Softened
    <2> USE DEF Softened
    <2>1. CASE UNCHANGED <<reg, overruled>>
      BY <2>1 DEF IsAccepted, IsRefused
    <2>2. ASSUME NEW t \in Tasks, NEW p \in People,
                 NEW s \in {"DRAFT", "CHO_DON_VI", "CHO_PKH"}, SetReg(t, p, s)
          PROVE  \A u \in Tasks, q \in People :
                    reg'[u][q] = IF u = t /\ q = p THEN s ELSE reg[u][q]
      BY <2>2 DEF IInv, TypeOK, SetReg
    <2>3. ASSUME NEW t \in Tasks, NEW p \in People, NEW sent \in BOOLEAN,
                 Save(t, p, sent)
          PROVE  Softened
      <3>1. PICK s \in {"DRAFT", "CHO_DON_VI", "CHO_PKH"} : SetReg(t, p, s)
        BY <2>3 DEF Save
      <3>2. reg[t][p] \in {"none", "DRAFT"} /\ UNCHANGED overruled
        BY <2>3 DEF Save, unit
      <3> QED
        BY <2>2, <3>1, <3>2 DEF IsAccepted, IsRefused
    <2>4. ASSUME NEW t \in Tasks, NEW p \in People,
                 NEW s \in {"DRAFT", "CHO_PKH"}, UnitSaves(t, p, s)
          PROVE  Softened
      <3>1. /\ SetReg(t, p, s)
            /\ overruled' = IF reg[t][p] \in Verdicts
                            THEN overruled \cup {<<t, p>>} ELSE overruled
        BY <2>4 DEF UnitSaves
      <3> QED
        BY <2>2, <3>1 DEF IsAccepted, IsRefused, Verdicts
    <2> QED
      BY <2>1, <2>3, <2>4 DEF Around, MovePeriod, BghDecides, AdminEdits, Decided,
             OpenOutline, FileOutline, TakeBackOutline, UnitReads, Confirm,
             Return, rows, unit
  <1>4. \A t \in Tasks : outline[t].at # "none" =>
            outline'[t].at # "none" /\ outline'[t].owner = outline[t].owner
    <2>1. CASE UNCHANGED outline
      BY <2>1
    <2>2. ASSUME NEW t \in Tasks, NEW p \in People,
                 OpenOutline(t, p) \/ FileOutline(t, p) \/ TakeBackOutline(t, p)
          PROVE  \A u \in Tasks : outline[u].at # "none" =>
                    /\ outline'[u].at # "none"
                    /\ outline'[u].owner = outline[u].owner
      <3>1. outline \in [Tasks -> [at : Places, owner : People \cup {Nobody}]]
        BY DEF IInv, TypeOK
      <3>2. CASE OpenOutline(t, p)
        BY <3>1, <3>2 DEF OpenOutline
      <3>3. CASE FileOutline(t, p)
        BY <3>1, <3>3 DEF FileOutline
      <3>4. CASE TakeBackOutline(t, p)
        BY <3>1, <3>4 DEF TakeBackOutline
      <3> QED
        BY <2>2, <3>2, <3>3, <3>4
    <2> QED
      BY <2>1, <2>2 DEF Around, MovePeriod, BghDecides, AdminEdits, Decided,
             Save, UnitReads, UnitSaves, Confirm, Return, docs
  <1>5. \A t \in Tasks : Kept(t)'
    <2> TAKE t \in Tasks
    <2>1. Kept(t)
      BY DEF IInv
    <2>2. Settled(t)'
      BY <1>2, <1>3, <1>4, <2>1, RegistrationAssumption
         DEF Softened, Kept, Settled, OnlyAccepted, IInv, TypeOK
    <2>3. Stands(t)'
      BY <1>2, <1>3, <2>1 DEF Softened, Kept, Stands, WasRefused
    <2>4. AllTold(t)'
      BY <1>2, <1>3, <2>1 DEF Softened, Kept, AllTold, Busy, IsTold
    <2> QED
      BY <2>2, <2>3, <2>4 DEF Kept
  <1>6. ASSUME NEW c \in Clerks
        PROVE  InFlight(req[c])'
    <2>1. CASE req[c].op \notin Ops
      BY <1>2, <2>1 DEF InFlight, Ops
    <2>2. CASE req[c].op \in Ops
      <3>1. req[c] \in Requests /\ InFlight(req[c])
        BY <2>2 DEF IInv, TypeOK, Idle, Ops
      <3> DEFINE r == req[c]
      <3>2. r.task \in Tasks /\ r.left \subseteq People
        BY <3>1 DEF Requests
      <3>3. r.op = "accept" => Accepting(r)'
        BY <1>2, <1>3, <3>1, <3>2 DEF Softened, InFlight, Accepting, OnlyAccepted
      <3>4. r.op = "close" => Closing(r)'
        BY <1>2, <1>3, <3>1, <3>2
           DEF Softened, InFlight, Closing, OnlyAccepted, IsTold
      <3>5. r.op = "assign" => Assigning(r)'
        BY <1>2, <1>3, <1>4, <3>1, <3>2
           DEF Softened, InFlight, Assigning, OnlyAccepted, IsTold, WasRefused
      <3>6. r.op \in {"accept", "close"} =>
                \A p \in r.left \ r.dirty : WasRefused(r.task, p)'
        BY <1>2, <1>3, <3>1, <3>2 DEF Softened, InFlight, WasRefused
      <3> QED
        BY <1>2, <3>3, <3>4, <3>5, <3>6 DEF InFlight
    <2> QED
      BY <2>1, <2>2
  <1> QED
    BY <1>1, <1>5, <1>6 DEF IInv

\* A new request writes nothing; what it has read is so while it starts.
LEMMA BeginKeeps ==
    ASSUME IInv, NEW c \in Clerks, Begin(c)
    PROVE  IInv'
  <1>1. TypeOK'
    BY BeginTypes DEF IInv
  <1>2. UNCHANGED <<reg, assigned, catalog, told, outline, lost, overruled>>
    BY DEF Begin, StartAccept, StartClose, StartAssign, docs, rows, unit
  <1>3. req[c] = Idle
    BY DEF Begin, StartAccept, StartClose, StartAssign, Start
  <1>6. \A d \in Clerks \ {c} : req'[d] = req[d]
    BY DEF Begin, StartAccept, StartClose, StartAssign, Start, IInv, TypeOK
  <1>4. \A t \in Tasks : Kept(t)'
    <2> TAKE t \in Tasks
    <2>1. Kept(t)
      BY DEF IInv
    <2>2. Busy(t) => Busy(t)'
      BY <1>3, <1>6 DEF Busy
    <2> QED
      BY <1>2, <2>1, <2>2 DEF Kept, Settled, Stands, AllTold, OnlyAccepted,
             IsAccepted, IsRefused, WasRefused, IsTold
  <1>5. InFlight(req[c])'
    <2>1. ASSUME NEW t \in Tasks, NEW p \in People, StartAccept(c, t, p)
          PROVE  InFlight(req[c])'
      <3>1. /\ req'[c] = [op |-> "accept", task |-> t, who |-> p,
                          at |-> IF p \in Accepted(t) THEN "rows" ELSE "chosen",
                          left |-> Sent(t) \ {p},
                          dirty |-> (Sent(t) \ {p}) \ Refused(t)]
            /\ catalog[t] = "none" /\ Accepted(t) \subseteq {p}
        BY <2>1 DEF StartAccept, Start, IInv, TypeOK
      <3>2. \A q \in People : q \in Accepted(t) <=> IsAccepted(t, q)
        BY DEF Accepted, In, IsAccepted
      <3>3. \A q \in Sent(t) : q \in Refused(t) => IsRefused(t, q)
        BY DEF Refused, In, IsRefused, WasRefused
      <3>4. Accepting(req[c])'
        BY <1>2, <2>1, <3>1, <3>2, RegistrationAssumption
           DEF Accepting, OnlyAccepted, IsAccepted
      <3> QED
        BY <1>2, <3>1, <3>3, <3>4 DEF InFlight, IsRefused, WasRefused
    <2>2. ASSUME NEW t \in Tasks, StartClose(c, t)
          PROVE  InFlight(req[c])'
      <3>1. /\ req'[c] = [op |-> "close", at |-> "task", task |-> t,
                          who |-> Nobody, left |-> Sent(t),
                          dirty |-> Unsettled(t)]
            /\ catalog[t] = "none" /\ Accepted(t) = {}
        BY <2>2 DEF StartClose, Start, IInv, TypeOK
      <3>2. \A p \in People : ~IsAccepted(t, p)
        BY <3>1 DEF Accepted, In, IsAccepted
      <3>4. \A p \in Sent(t) \ Unsettled(t) : IsRefused(t, p)
        BY <3>2 DEF Sent, Unsettled, Waiting, IsRefused, WasRefused, IsAccepted, IInv,
               TypeOK, Statuses
      <3>5. \A p \in People : IsRefused(t, p) => p \in Sent(t)
        BY DEF Sent, IsRefused, WasRefused
      <3> QED
        BY <1>2, <3>1, <3>2, <3>4, <3>5, RegistrationAssumption
           DEF InFlight, Closing, OnlyAccepted, IsAccepted, IsRefused, WasRefused
    <2>3. ASSUME NEW t \in Tasks, StartAssign(c, t)
          PROVE  InFlight(req[c])'
      <3>1. PICK p \in People :
              /\ Accepted(t) = {p}
              /\ req'[c] = [op |-> "assign", at |-> "outline", task |-> t,
                            who |-> p, left |-> Refused(t) \cup {p},
                            dirty |-> {}]
        BY <2>3 DEF StartAssign, Start, IInv, TypeOK
      <3>2. catalog[t] = "none" /\ assigned[t] = Nobody
        BY <2>3 DEF StartAssign
      <3>3. OnlyAccepted(t, p)
        BY <3>1 DEF Accepted, In, OnlyAccepted, IsAccepted
      <3>4. \A q \in People : q \in Refused(t) <=> IsRefused(t, q)
        BY DEF Refused, In, IsRefused, WasRefused
      <3>5. Refused(t) \subseteq People
        BY DEF Refused, In
      <3> QED
        BY <1>2, <3>1, <3>2, <3>3, <3>4, <3>5
           DEF InFlight, Assigning, OnlyAccepted, IsAccepted, IsRefused, WasRefused
    <2> QED
      BY <2>1, <2>2, <2>3 DEF Begin
  <1>7. ASSUME NEW d \in Clerks \ {c}
        PROVE  InFlight(req[d])'
    <2>1. InFlight(req[d])
      BY DEF IInv
    <2> QED
      BY <1>2, <1>6, <2>1 DEF InFlight, Accepting, Closing, Assigning, OnlyAccepted,
             IsAccepted, IsRefused, WasRefused, IsTold
  <1> QED
    BY <1>1, <1>4, <1>5, <1>7 DEF IInv

----------------------------------------------------------------------------
(* A request of PKH goes on.                                               *)

\* What a step of c leaves alone: every task but the one it is about.
OnlyAbout(t) ==
    /\ \A u \in Tasks \ {t} :
        /\ reg'[u] = reg[u] /\ assigned'[u] = assigned[u]
        /\ catalog'[u] = catalog[u] /\ outline'[u] = outline[u]
        /\ \A p \in People, result \in Results :
              <<u, p, result>> \in told' <=> <<u, p, result>> \in told
    /\ lost \subseteq lost' /\ overruled' = overruled

\* ... and every request but its own.
LEMMA OtherRequests ==
    ASSUME TypeOK, NEW c \in Clerks, Continue(c) \/ Crash(c),
           NEW d \in Clerks \ {c}
    PROVE  req'[d] = req[d]
  BY DEF TypeOK, Continue, Crash, SaveAccepted, SaveClosed, EndLoop, RefuseNext, Tell,
         FindOutline, GiveOutline, RecordAssignment, MarkAssigned, Goto, Finish

LEMMA Local ==
    ASSUME OnePerTask, IInv, NEW c \in Clerks, Continue(c) \/ Crash(c),
           NEW t \in Tasks, req[c].task = t, req[c] # Idle,
           TypeOK', OnlyAbout(t), Kept(t)', InFlight(req[c])'
    PROVE  IInv'
  <1>1. \A d \in Clerks \ {c} : req'[d] = req[d]
    BY OtherRequests DEF IInv
  <1>2. ASSUME NEW u \in Tasks \ {t}
        PROVE  Kept(u)'
    <2>1. Kept(u)
      BY <1>2 DEF IInv
    <2>2. Settled(u)'
      BY <1>2, <2>1 DEF OnlyAbout, Kept, Settled, OnlyAccepted, IsAccepted
    <2>3. Stands(u)'
      BY <1>2, <2>1 DEF OnlyAbout, Kept, Stands, IsRefused, WasRefused, Results
    <2>4. Busy(u) => Busy(u)'
      BY <1>1, <1>2 DEF Busy
    <2>5. AllTold(u)'
      BY <1>2, <2>1, <2>4
         DEF OnlyAbout, Kept, AllTold, IsAccepted, IsRefused, WasRefused, IsTold
    <2> QED
      BY <2>2, <2>3, <2>5 DEF Kept
  <1>3. ASSUME NEW d \in Clerks \ {c}, req[d] # Idle
        PROVE  InFlight(req[d])'
    <2>1. PICK r \in Requests : req[d] = r
      BY <1>3 DEF IInv, TypeOK
    <2>2. InFlight(r) /\ req'[d] = r
      BY <1>1, <2>1 DEF IInv
    <2>3. r.task \in Tasks \ {t} /\ r.left \subseteq People /\ r.op \in Ops
      BY <1>3, <2>1 DEF OnePerTask, Requests
    <2>4. \A p \in People :
            /\ IsAccepted(r.task, p)' <=> IsAccepted(r.task, p)
            /\ IsRefused(r.task, p)' <=> IsRefused(r.task, p)
            /\ IsTold(r.task, p)' <=> IsTold(r.task, p)
            /\ WasRefused(r.task, p)' <=> WasRefused(r.task, p)
      BY <2>3 DEF OnlyAbout, IsAccepted, IsRefused, WasRefused, IsTold
    <2>5. /\ assigned'[r.task] = assigned[r.task] /\ catalog'[r.task] = catalog[r.task]
          /\ outline'[r.task] = outline[r.task]
          /\ overruled' = overruled
      BY <2>3 DEF OnlyAbout
    <2>6. r.op = "accept" => Accepting(r)'
      BY <2>2, <2>3, <2>4, <2>5 DEF InFlight, Accepting, OnlyAccepted
    <2>7. r.op = "close" => Closing(r)'
      BY <2>2, <2>3, <2>4, <2>5 DEF InFlight, Closing, OnlyAccepted
    <2>8. r.op = "assign" => Assigning(r)'
      BY <2>2, <2>3, <2>4, <2>5 DEF InFlight, Assigning, OnlyAccepted
    <2>9. r.op \in {"accept", "close"} => \A p \in r.left \ r.dirty : WasRefused(r.task, p)'
      BY <2>2, <2>3, <2>4 DEF InFlight
    <2> QED
      BY <2>2, <2>6, <2>7, <2>8, <2>9 DEF InFlight, Accepting, Closing, Assigning,
             OnlyAccepted, IsAccepted, IsRefused, WasRefused, IsTold
  <1>4. \A d \in Clerks \ {c} : InFlight(req[d])'
    BY <1>1, <1>3 DEF InFlight, Idle
  <1> QED
    BY <1>2, <1>4 DEF IInv

LEMMA SaveAcceptedKeeps ==
    ASSUME OnePerTask, IInv, NEW c \in Clerks,
           NEW r \in Requests, req[c] = r, SaveAccepted(c)
    PROVE  IInv'
  <1> DEFINE t == r.task
  <1>1. r \in Requests /\ r # Idle /\ t \in Tasks
    BY DEF Idle, Requests, Ops
  <1>2. TypeOK'
    BY ContinueTypes DEF IInv, Continue
  <1>3. /\ SetReg(t, r.who, "DKDT_DUOC_CHAP_THUAN")
        /\ req'[c] = [r EXCEPT !.at = "rows"]
        /\ UNCHANGED <<assigned, catalog, outline, told, lost, overruled>>
    BY DEF SaveAccepted, Goto, IInv, TypeOK, docs, unit
  <1>4. Accepting(r) /\ r.op = "accept" /\ r.at = "chosen"
    BY DEF SaveAccepted, Running, IInv, InFlight
  <1>5. /\ r.who \in People /\ r.who # Nobody /\ catalog[t] = "none"
        /\ OnlyAccepted(t, Nobody) /\ r.left \subseteq People
    BY <1>1, <1>4, RegistrationAssumption DEF Accepting, Requests
  <1>6. \A p \in People : reg'[t][p] =
            IF p = r.who THEN "DKDT_DUOC_CHAP_THUAN" ELSE reg[t][p]
    BY <1>1, <1>3, <1>5 DEF SetReg, IInv, TypeOK
  <1>7. OnlyAbout(t)
    BY <1>1, <1>3 DEF OnlyAbout, SetReg, IInv, TypeOK
  <1>8. Kept(t)'
    <2>1. Settled(t) /\ Stands(t) /\ assigned[t] \in People \cup {Nobody}
      BY <1>1 DEF IInv, Kept, TypeOK
    <2>2. assigned[t] = Nobody \/ <<t, assigned[t]>> \in overruled
      BY <1>5, <2>1, RegistrationAssumption DEF Settled, OnlyAccepted
    <2> QED
      BY <1>3, <1>5, <2>1, <2>2 DEF Kept, Settled, Stands, AllTold
  <1>9. InFlight(req[c])'
    <2>1. OnlyAccepted(t, r.who)'
      BY <1>3, <1>5, <1>6, RegistrationAssumption DEF OnlyAccepted, IsAccepted
    <2>2. \A p \in r.left \ r.dirty : WasRefused(t, p)'
      BY <1>1, <1>3, <1>4, <1>5, <1>6
         DEF IInv, InFlight, IsRefused, WasRefused, Accepting
    <2>3. /\ req'[c].op = "accept" /\ req'[c].at = "rows"
          /\ req'[c].task = t /\ req'[c].who = r.who
          /\ req'[c].left = r.left /\ req'[c].dirty = r.dirty
      BY <1>1, <1>3, <1>4 DEF Requests
    <2>4. Accepting(req[c])'
      BY <1>3, <1>4, <1>5, <2>1, <2>3 DEF Accepting
    <2> QED
      BY <2>2, <2>3, <2>4 DEF InFlight, IsRefused, WasRefused
  <1> QED
    BY <1>1, <1>2, <1>7, <1>8, <1>9, Local DEF Continue

LEMMA SaveClosedKeeps ==
    ASSUME OnePerTask, IInv, NEW c \in Clerks,
           NEW r \in Requests, req[c] = r, SaveClosed(c)
    PROVE  IInv'
  <1> DEFINE t == r.task
  <1>1. r \in Requests /\ r # Idle /\ t \in Tasks
    BY DEF Idle, Requests, Ops
  <1>2. TypeOK'
    BY ContinueTypes DEF IInv, Continue
  <1>3. /\ catalog' = [catalog EXCEPT ![t] = "DM_DONG_DANG_KY"]
        /\ req'[c] = [r EXCEPT !.at = "rows"]
        /\ UNCHANGED <<reg, assigned, outline, told, lost, overruled>>
    BY DEF SaveClosed, Goto, IInv, TypeOK, docs, unit
  <1>4. Closing(r) /\ r.op = "close" /\ r.at = "task"
    BY DEF SaveClosed, Running, IInv, InFlight
  <1>5. /\ req'[c].op = "close" /\ req'[c].at = "rows" /\ req'[c].task = t
        /\ req'[c].left = r.left /\ req'[c].dirty = r.dirty
    BY <1>1, <1>3, <1>4 DEF Requests
  <1>6. catalog'[t] = "DM_DONG_DANG_KY"
    BY <1>1, <1>3 DEF IInv, TypeOK
  <1>7. OnlyAbout(t)
    BY <1>1, <1>3 DEF OnlyAbout, IInv, TypeOK
  <1>8. Kept(t)'
    <2>1. Settled(t)'
      BY <1>1, <1>3, <1>4, <1>6
         DEF IInv, Kept, Settled, Closing, OnlyAccepted, IsAccepted
    <2>2. Stands(t)'
      BY <1>1, <1>3, <1>4 DEF IInv, Kept, Stands, Closing
    <2>3. Busy(t)'
      BY <1>5 DEF Busy, Idle
    <2> QED
      BY <2>1, <2>2, <2>3 DEF Kept, AllTold
  <1>9. InFlight(req[c])'
    <2>1. Closing(req[c])'
      BY <1>3, <1>4, <1>5, <1>6
         DEF Closing, OnlyAccepted, IsAccepted, IsRefused, WasRefused, IsTold
    <2> QED
      BY <1>3, <1>4, <1>5, <2>1 DEF IInv, InFlight, IsRefused, WasRefused
  <1> QED
    BY <1>1, <1>2, <1>7, <1>8, <1>9, Local DEF Continue

LEMMA RefuseNextKeeps ==
    ASSUME OnePerTask, IInv, NEW c \in Clerks,
           NEW r \in Requests, req[c] = r, NEW p \in People, RefuseNext(c, p)
    PROVE  IInv'
  <1> DEFINE t == r.task
  <1>1. r \in Requests /\ r # Idle /\ t \in Tasks
    BY DEF Idle, Requests, Ops
  <1>2. TypeOK'
    BY ContinueTypes DEF IInv, Continue
  <1>3. /\ r.op \in {"accept", "close"} /\ r.at = "rows" /\ p \in r.left
        /\ told' = IF r.op = "close" THEN told \cup {<<t, p, "closed">>} ELSE told
        /\ req'[c] = [r EXCEPT !.left = r.left \ {p}]
        /\ UNCHANGED <<assigned, catalog, outline, lost, overruled>>
    BY DEF RefuseNext, IInv, TypeOK, docs, unit
  <1>4. InFlight(r)
    BY DEF IInv
  <1>5. /\ \A u \in Tasks \ {t} : reg'[u] = reg[u]
        /\ \A q \in People : reg'[t][q] =
              IF q = p /\ p \in r.dirty THEN "DKDT_TU_CHOI" ELSE reg[t][q]
    <2>1. CASE p \in r.dirty
      <3>1. SetReg(t, p, "DKDT_TU_CHOI")
        BY <2>1 DEF RefuseNext
      <3> QED
        BY <1>1, <2>1, <3>1 DEF SetReg, IInv, TypeOK
    <2>2. CASE p \notin r.dirty
      <3>1. UNCHANGED reg
        BY <2>2 DEF RefuseNext
      <3> QED
        BY <2>2, <3>1
    <2> QED
      BY <2>1, <2>2
  <1>10. /\ WasRefused(t, p)'
         /\ \A q \in People :
              /\ IsAccepted(t, q)' => IsAccepted(t, q)
              /\ q # p => (IsAccepted(t, q)' <=> IsAccepted(t, q))
              /\ q # p => (IsRefused(t, q)' <=> IsRefused(t, q))
              /\ WasRefused(t, q) => WasRefused(t, q)'
    BY <1>1, <1>3, <1>4, <1>5 DEF InFlight, WasRefused, IsRefused, IsAccepted
  <1>6. /\ req'[c].op = r.op /\ req'[c].at = "rows" /\ req'[c].task = t
        /\ req'[c].who = r.who
        /\ req'[c].left = r.left \ {p} /\ req'[c].dirty = r.dirty
    BY <1>1, <1>3 DEF Requests
  <1>7. OnlyAbout(t)
    BY <1>1, <1>3, <1>5 DEF OnlyAbout
  <1>8. ASSUME r.op = "accept"
        PROVE  Kept(t)' /\ InFlight(req[c])'
    <2>1. Accepting(r) /\ catalog[t] = "none" /\ OnlyAccepted(t, r.who) /\ p # r.who
      BY <1>3, <1>4, <1>8 DEF InFlight, Accepting
    <2>2. OnlyAccepted(t, r.who)'
      BY <1>3, <1>10, <2>1 DEF OnlyAccepted
    <2>3. Kept(t) /\ assigned[t] \in People \cup {Nobody}
      BY <1>1 DEF IInv, TypeOK
    <2>4. assigned[t] # Nobody /\ <<t, assigned[t]>> \notin overruled =>
            assigned[t] = r.who
      BY <2>1, <2>3 DEF Kept, Settled, OnlyAccepted
    <2>5. Kept(t)'
      BY <1>3, <1>8, <2>1, <2>2, <2>3, <2>4
         DEF Kept, Settled, Stands, AllTold
    <2>6. Accepting(req[c])'
      BY <1>3, <1>6, <2>1, <2>2 DEF Accepting, OnlyAccepted
    <2>7. \A q \in (r.left \ {p}) \ r.dirty : WasRefused(t, q)'
      BY <1>1, <1>4, <1>8, <1>10 DEF InFlight, Requests
    <2> QED
      BY <1>6, <1>8, <2>5, <2>6, <2>7 DEF InFlight, IsRefused, WasRefused
  <1>9. ASSUME r.op = "close"
        PROVE  Kept(t)' /\ InFlight(req[c])'
    <2>1. /\ Closing(r) /\ catalog[t] = "DM_DONG_DANG_KY"
          /\ OnlyAccepted(t, Nobody)
      BY <1>3, <1>4, <1>9 DEF InFlight, Closing
    <2>2. OnlyAccepted(t, Nobody)'
      BY <1>10, <2>1, RegistrationAssumption DEF OnlyAccepted
    <2>3. Settled(t)'
      BY <1>1, <1>3, <2>1, <2>2, RegistrationAssumption
         DEF IInv, TypeOK, Kept, Settled, OnlyAccepted
    <2>4. Stands(t)
      BY <1>1 DEF IInv, Kept
    <2>5. Stands(t)'
      BY <1>3, <1>9, <1>10, <2>1, <2>4 DEF Stands
    <2>6. Busy(t)'
      BY <1>6, <1>9 DEF Busy, Idle
    <2>7. \A q \in People : IsRefused(t, q)' => q \in r.left \ {p} \/ IsTold(t, q)'
      <3>1. IsTold(t, p)' /\ \A q \in People : IsTold(t, q) => IsTold(t, q)'
        BY <1>3, <1>9 DEF IsTold, Results
      <3> QED
        BY <1>3, <1>10, <2>1, <3>1 DEF Closing
    <2>8. Closing(req[c])'
      BY <1>3, <1>6, <2>1, <2>2, <2>7
         DEF Closing, OnlyAccepted, IsAccepted, IsRefused, WasRefused, IsTold
    <2>9. \A q \in (r.left \ {p}) \ r.dirty : WasRefused(t, q)'
      BY <1>1, <1>4, <1>9, <1>10 DEF InFlight, Requests
    <2> QED
      BY <1>3, <1>6, <1>9, <2>3, <2>5, <2>6, <2>8, <2>9
         DEF Kept, AllTold, InFlight, WasRefused, IsRefused
  <1> QED
    BY <1>1, <1>2, <1>3, <1>7, <1>8, <1>9, Local DEF Continue

\* The end of a loop: everybody there was to tell has been told.
LEMMA EndLoopKeeps ==
    ASSUME OnePerTask, IInv, NEW c \in Clerks,
           NEW r \in Requests, req[c] = r, EndLoop(c)
    PROVE  IInv'
  <1> DEFINE t == r.task
  <1>1. r # Idle /\ t \in Tasks
    BY DEF Idle, Requests, Ops
  <1>2. TypeOK'
    BY ContinueTypes DEF IInv, Continue
  <1>3. /\ r.at \in {"rows", "tell"} /\ r.left = {} /\ req'[c] = Idle
        /\ UNCHANGED <<reg, assigned, catalog, outline, told, lost, overruled>>
    BY DEF EndLoop, Finish, IInv, TypeOK, docs, rows, unit
  <1>4. InFlight(r) /\ Kept(t)
    BY <1>1 DEF IInv
  <1>5. OnlyAbout(t)
    BY <1>3 DEF OnlyAbout
  <1>6. catalog[t] # "none" =>
            \A p \in People : IsAccepted(t, p) \/ IsRefused(t, p) => IsTold(t, p)
    <2>1. CASE r.op = "accept"
      BY <1>4, <2>1 DEF InFlight, Accepting
    <2>2. CASE r.op = "close"
      BY <1>3, <1>4, <2>2, RegistrationAssumption
         DEF InFlight, Closing, OnlyAccepted
    <2>3. CASE r.op = "assign"
      BY <1>3, <1>4, <2>3 DEF InFlight, Assigning, OnlyAccepted
    <2> QED
      BY <2>1, <2>2, <2>3 DEF Requests, Ops
  <1>7. Kept(t)'
    BY <1>3, <1>4, <1>6 DEF Kept, Settled, Stands, AllTold, OnlyAccepted,
           IsAccepted, IsRefused, WasRefused, IsTold
  <1>8. InFlight(req[c])'
    BY <1>3 DEF InFlight, Idle
  <1> QED
    BY <1>1, <1>2, <1>5, <1>7, <1>8, Local DEF Continue

\* The saves of phanCong, up to the mark on the task.
LEMMA AssignKeeps ==
    ASSUME OnePerTask, IInv, NEW c \in Clerks,
           NEW r \in Requests, req[c] = r,
           \/ FindOutline(c) \/ GiveOutline(c)
           \/ RecordAssignment(c) \/ MarkAssigned(c)
    PROVE  IInv'
  <1> DEFINE t == r.task
  <1>1. r # Idle /\ t \in Tasks
    BY DEF Idle, Requests, Ops
  <1>2. TypeOK'
    BY ContinueTypes DEF IInv, Continue
  <1>3. /\ r.op = "assign" /\ r.at \in {"outline", "owner", "assignment", "task"}
        /\ UNCHANGED <<reg, told, lost, overruled>>
    BY DEF FindOutline, GiveOutline, RecordAssignment, MarkAssigned, Running,
           docs, rows, unit
  <1>4. Assigning(r) /\ Kept(t)
    BY <1>1, <1>3 DEF IInv, InFlight
  <1>5. r.who \in People /\ r.who # Nobody /\ OnlyAccepted(t, r.who)
    BY <1>4, RegistrationAssumption DEF Assigning
  <1>6. /\ OnlyAccepted(t, r.who)'
        /\ \A p \in People : IsRefused(t, p)' <=> IsRefused(t, p)
        /\ \A p \in People : IsTold(t, p)' <=> IsTold(t, p)
        /\ \A p \in People : WasRefused(t, p)' <=> WasRefused(t, p)
    BY <1>3, <1>5 DEF OnlyAccepted, IsAccepted, IsRefused, WasRefused, IsTold
  <1>7. \A p \in People : IsRefused(t, p) \/ p = r.who => p \in r.left
    BY <1>3, <1>4 DEF Assigning
  <1>8. \A p \in r.left : WasRefused(t, p) \/ p = r.who
    BY <1>4 DEF Assigning
  <1>9. r.left \subseteq People
    BY DEF Requests
  <1>10. \A at \in Points : Goto(c, at) =>
            /\ req'[c].op = "assign" /\ req'[c].at = at /\ req'[c].task = t
            /\ req'[c].who = r.who /\ req'[c].left = r.left
    BY <1>3 DEF Goto, IInv, TypeOK, Requests
  <1>11. CASE FindOutline(c)
    <2>1. /\ r.at = "outline" /\ Goto(c, "owner")
          /\ UNCHANGED <<assigned, catalog>>
          /\ outline' = IF outline[t].at # "none" THEN outline
                ELSE [outline EXCEPT ![t] = [at |-> "THUYETMINH_DRAFT",
                                             owner |-> Owner[t]]]
      BY <1>11 DEF FindOutline, Running, rows
    <2>2. /\ outline'[t].at # "none"
          /\ \A u \in Tasks \ {t} : outline'[u] = outline[u]
      BY <1>1, <2>1 DEF IInv, TypeOK
    <2>3. OnlyAbout(t)
      BY <1>3, <2>1, <2>2 DEF OnlyAbout
    <2>4. assigned[t] = Nobody /\ catalog[t] = "none"
      BY <1>4, <2>1 DEF Assigning
    <2>5. Kept(t)'
      BY <1>3, <1>4, <2>1, <2>4 DEF Kept, Settled, Stands, AllTold
    <2>6. InFlight(req[c])'
      <3>1. Assigning(req[c])'
        BY <1>3, <1>5, <1>6, <1>7, <1>8, <1>9, <1>10, <2>1, <2>2, <2>4
           DEF Assigning, Points, IsRefused, WasRefused, OnlyAccepted,
               IsAccepted
      <3> QED
        BY <1>10, <2>1, <3>1 DEF InFlight, Points
    <2> QED
      BY <1>1, <1>2, <2>3, <2>5, <2>6, Local DEF Continue
  <1>12. CASE GiveOutline(c)
    <2>1. /\ r.at = "owner" /\ Goto(c, "assignment")
          /\ UNCHANGED <<assigned, catalog>>
          /\ outline' = [outline EXCEPT ![t].owner = r.who]
      BY <1>12 DEF GiveOutline, Running, rows
    <2>2. /\ outline'[t].at = outline[t].at /\ outline'[t].owner = r.who
          /\ \A u \in Tasks \ {t} : outline'[u] = outline[u]
      BY <1>1, <2>1 DEF IInv, TypeOK
    <2>3. OnlyAbout(t)
      BY <1>3, <2>1, <2>2 DEF OnlyAbout
    <2>4. /\ assigned[t] = Nobody /\ catalog[t] = "none"
          /\ outline[t].at # "none"
      BY <1>4, <2>1 DEF Assigning
    <2>5. Kept(t)'
      BY <1>3, <1>4, <2>1, <2>4 DEF Kept, Settled, Stands, AllTold
    <2>6. InFlight(req[c])'
      <3>1. Assigning(req[c])'
        BY <1>3, <1>5, <1>6, <1>7, <1>8, <1>9, <1>10, <2>1, <2>2, <2>4
           DEF Assigning, Points, IsRefused, WasRefused, OnlyAccepted,
               IsAccepted
      <3> QED
        BY <1>10, <2>1, <3>1 DEF InFlight, Points
    <2> QED
      BY <1>1, <1>2, <2>3, <2>5, <2>6, Local DEF Continue
  <1>13. CASE RecordAssignment(c)
    <2>1. r.at = "assignment" /\ UNCHANGED <<outline, catalog>>
      BY <1>13 DEF RecordAssignment, Running, docs
    <2>2. /\ assigned[t] = Nobody /\ catalog[t] = "none"
          /\ outline[t].at # "none" /\ outline[t].owner = r.who
      BY <1>4, <2>1 DEF Assigning
    <2>3. assigned' = [assigned EXCEPT ![t] = r.who] /\ Goto(c, "task")
      BY <1>13, <2>2 DEF RecordAssignment
    <2>4. /\ assigned'[t] = r.who
          /\ \A u \in Tasks \ {t} : assigned'[u] = assigned[u]
      BY <1>1, <2>3 DEF IInv, TypeOK
    <2>5. OnlyAbout(t)
      BY <1>3, <2>1, <2>4 DEF OnlyAbout
    <2>6. Kept(t)'
      BY <1>3, <1>4, <1>6, <2>1, <2>2, <2>4
         DEF Kept, Settled, Stands, AllTold, OnlyAccepted
    <2>7. InFlight(req[c])'
      <3>1. Assigning(req[c])'
        BY <1>3, <1>5, <1>6, <1>7, <1>8, <1>9, <1>10, <2>1, <2>2, <2>3, <2>4
           DEF Assigning, Points, IsRefused, WasRefused, OnlyAccepted,
               IsAccepted
      <3> QED
        BY <1>10, <2>3, <3>1 DEF InFlight, Points
    <2> QED
      BY <1>1, <1>2, <2>5, <2>6, <2>7, Local DEF Continue
  <1>14. CASE MarkAssigned(c)
    <2>1. /\ r.at = "task" /\ Goto(c, "tell") /\ UNCHANGED <<outline, assigned>>
          /\ catalog' = [catalog EXCEPT ![t] = "DA_GIAO"]
      BY <1>14 DEF MarkAssigned, Running
    <2>2. assigned[t] = r.who /\ catalog[t] = "none"
      BY <1>4, <2>1 DEF Assigning
    <2>3. /\ catalog'[t] = "DA_GIAO"
          /\ \A u \in Tasks \ {t} : catalog'[u] = catalog[u]
      BY <1>1, <2>1 DEF IInv, TypeOK
    <2>4. OnlyAbout(t)
      BY <1>3, <2>1, <2>3 DEF OnlyAbout
    <2>5. Busy(t)'
      BY <1>10, <2>1 DEF Busy, Idle, Points
    <2>6. Kept(t)'
      BY <1>3, <1>4, <1>5, <1>6, <2>1, <2>2, <2>3, <2>5
         DEF Kept, Settled, Stands, AllTold, OnlyAccepted
    <2>7. InFlight(req[c])'
      <3>1. Assigning(req[c])'
        BY <1>3, <1>5, <1>6, <1>7, <1>8, <1>9, <1>10, <2>1, <2>2, <2>3
           DEF Assigning, Points, IsRefused, WasRefused, OnlyAccepted,
               IsAccepted
      <3> QED
        BY <1>10, <2>1, <3>1 DEF InFlight, Points
    <2> QED
      BY <1>1, <1>2, <2>4, <2>6, <2>7, Local DEF Continue
  <1> QED
    BY <1>11, <1>12, <1>13, <1>14

LEMMA TellKeeps ==
    ASSUME OnePerTask, IInv, NEW c \in Clerks,
           NEW r \in Requests, req[c] = r,
           NEW p \in People, Tell(c, p)
    PROVE  IInv'
  <1> DEFINE t == r.task
             result == IF p = r.who THEN "given" ELSE "refused"
  <1>1. r # Idle /\ t \in Tasks
    BY DEF Idle, Requests, Ops
  <1>2. TypeOK'
    BY ContinueTypes DEF IInv, Continue
  <1>3. /\ r.op = "assign" /\ r.at = "tell" /\ p \in r.left
        /\ told' = told \cup {<<t, p, result>>}
        /\ req'[c] = [r EXCEPT !.left = r.left \ {p}]
        /\ UNCHANGED <<reg, assigned, catalog, outline, lost, overruled>>
    BY DEF Tell, Running, IInv, TypeOK, docs, unit
  <1>4. Assigning(r) /\ Kept(t)
    BY <1>1, <1>3 DEF IInv, InFlight
  <1>5. /\ req'[c].op = "assign" /\ req'[c].at = "tell" /\ req'[c].task = t
        /\ req'[c].who = r.who /\ req'[c].left = r.left \ {p}
    BY <1>3 DEF Requests
  <1>6. /\ r.who \in People /\ OnlyAccepted(t, r.who)
        /\ assigned[t] = r.who /\ catalog[t] = "DA_GIAO"
        /\ WasRefused(t, p) \/ p = r.who
    BY <1>3, <1>4 DEF Assigning
  <1>7. OnlyAbout(t)
    BY <1>3 DEF OnlyAbout
  <1>8. Busy(t)'
    BY <1>5 DEF Busy, Idle
  <1>9. Stands(t)'
    BY <1>3, <1>4, <1>6 DEF Kept, Stands, IsRefused, WasRefused
  <1>10. Kept(t)'
    BY <1>3, <1>4, <1>8, <1>9
       DEF Kept, Settled, AllTold, OnlyAccepted, IsAccepted
  <1>11. IsTold(t, p)' /\ \A q \in People : IsTold(t, q) => IsTold(t, q)'
    BY <1>3 DEF IsTold, Results
  <1>12. \A q \in People : IsRefused(t, q) \/ q = r.who =>
            q \in r.left \ {p} \/ IsTold(t, q)'
    BY <1>3, <1>4, <1>11 DEF Assigning
  <1>13. InFlight(req[c])'
    <2>1. Assigning(req[c])'
      BY <1>3, <1>4, <1>5, <1>6, <1>12
         DEF Assigning, OnlyAccepted, IsAccepted, IsRefused, WasRefused, IsTold
    <2> QED
      BY <1>5, <2>1 DEF InFlight
  <1> QED
    BY <1>1, <1>2, <1>7, <1>10, <1>13, Local DEF Continue

\* A lost request leaves a task behind that holds together, and is marked.
LEMMA CrashKeeps ==
    ASSUME OnePerTask, IInv, NEW c \in Clerks,
           NEW r \in Requests, req[c] = r, Crash(c)
    PROVE  IInv'
  <1> DEFINE t == r.task
  <1>1. r # Idle /\ t \in Tasks
    BY DEF Idle, Requests, Ops
  <1>2. TypeOK'
    BY ContinueTypes DEF IInv
  <1>3. /\ req'[c] = Idle /\ lost' = lost \cup {t}
        /\ UNCHANGED <<reg, assigned, catalog, outline, told, overruled>>
    BY DEF Crash, Finish, IInv, TypeOK, docs, rows, unit
  <1>4. Kept(t)
    BY <1>1 DEF IInv
  <1>5. OnlyAbout(t)
    BY <1>3 DEF OnlyAbout
  <1>6. Kept(t)'
    BY <1>3, <1>4 DEF Kept, Settled, Stands, AllTold, OnlyAccepted,
           IsAccepted, IsRefused, WasRefused
  <1>7. InFlight(req[c])'
    BY <1>3 DEF InFlight, Idle
  <1> QED
    BY <1>1, <1>2, <1>5, <1>6, <1>7, Local DEF Continue

----------------------------------------------------------------------------
(* The theorems.                                                           *)

LEMMA NextKeeps ==
    ASSUME OnePerTask, IInv, [Next]_vars
    PROVE  IInv'
  <1>1. CASE UNCHANGED vars
    <2>1. UNCHANGED <<reg, assigned, catalog, told, outline, req, lost, overruled>>
      BY <1>1 DEF vars, docs, rows, unit
    <2>2. TypeOK'
      BY <1>1 DEF vars, docs, rows, unit, IInv, TypeOK
    <2>3. ASSUME NEW t \in Tasks
          PROVE  Kept(t)'
      <3>1. Kept(t)
        BY DEF IInv
      <3> QED
        BY <2>1, <3>1 DEF Kept, Settled, Stands, AllTold, Busy, OnlyAccepted,
               IsAccepted, IsRefused, WasRefused, IsTold
    <2>4. ASSUME NEW c \in Clerks
          PROVE  InFlight(req[c])'
      <3>1. InFlight(req[c])
        BY DEF IInv
      <3> QED
        BY <2>1, <3>1 DEF InFlight, Accepting, Closing, Assigning, OnlyAccepted,
               IsAccepted, IsRefused, WasRefused, IsTold
    <2> QED
      BY <2>2, <2>3, <2>4 DEF IInv
  <1>2. CASE Around
    BY <1>2, AroundKeeps
  <1>3. ASSUME NEW c \in Clerks, Begin(c)
        PROVE  IInv'
    BY <1>3, BeginKeeps
  <1>4. ASSUME NEW c \in Clerks, Continue(c) \/ Crash(c)
        PROVE  IInv'
    <2>1. req[c] \in Requests
      BY <1>4 DEF IInv, TypeOK, Idle, Requests, Ops, Continue, Crash, SaveAccepted,
             SaveClosed, EndLoop, RefuseNext, Tell, FindOutline, GiveOutline,
             RecordAssignment, MarkAssigned, Running
    <2>2. PICK r \in Requests : req[c] = r
      BY <2>1
    <2> QED
      BY <1>4, <2>2, SaveAcceptedKeeps, SaveClosedKeeps, RefuseNextKeeps,
         EndLoopKeeps, AssignKeeps, TellKeeps, CrashKeeps DEF Continue
  <1> QED
    BY <1>1, <1>2, <1>3, <1>4 DEF Next

\* With one request on a task at a time the strengthened invariant holds.
THEOREM SpecInv == Spec /\ []OnePerTask => []IInv
  <1>1. IInv /\ OnePerTask /\ [Next]_vars => IInv'
    BY NextKeeps
  <1> QED
    BY InitInv, <1>1, PTL DEF Spec

\* The types of TaskRegistration, for any tasks and people, whatever requests
\* are in flight at once.
THEOREM SpecTypeOK == Spec => []TypeOK
  <1>1. Init => TypeOK
    BY InitInv DEF IInv
  <1>2. TypeOK /\ [Next]_vars => TypeOK'
    <2>1. ASSUME TypeOK, UNCHANGED vars
          PROVE  TypeOK'
      BY <2>1 DEF vars, docs, rows, unit, TypeOK
    <2> QED
      BY <2>1, AroundTypes, BeginTypes, ContinueTypes DEF Next
  <1> QED
    BY <1>1, <1>2, PTL DEF Spec

\* A task is assigned to the one person accepted, whatever is lost and unless
\* the unit saved over the acceptance: phanCong and chapThuan, one request of
\* PKH on a task at a time.
THEOREM SpecAssignedIsAccepted ==
    Spec /\ []OnePerTask => []AssignedIsAccepted
  <1>1. IInv => AssignedIsAccepted
    BY KeptGives
  <1> QED
    BY <1>1, SpecInv, PTL

\* The outline of a task given away belongs to its principal.
THEOREM SpecOutlineFollowsTask ==
    Spec /\ []OnePerTask => []OutlineFollowsTask
  <1>1. IInv => OutlineFollowsTask
    BY KeptGives
  <1> QED
    BY <1>1, SpecInv, PTL

\* What guiKetQua and dongDangKy have told people stays true, the row of the
\* registration until a late save of the unit.
THEOREM SpecToldStands == Spec /\ []OnePerTask => []ToldStands
  <1>1. IInv => ToldStands
    BY KeptGives
  <1> QED
    BY <1>1, SpecInv, PTL

\* Nobody decided on is left untold, unless the request that was to tell them
\* was lost.
THEOREM SpecEveryDecisionIsTold ==
    Spec /\ []OnePerTask => []EveryDecisionIsTold
  <1>1. IInv => EveryDecisionIsTold
    BY KeptGives
  <1> QED
    BY <1>1, SpecInv, PTL
=============================================================================
