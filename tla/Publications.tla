---------------------------- MODULE Publications ----------------------------
(***************************************************************************)
(* One publication and its list of authors: somebody or the office         *)
(* declares it, the office may give it to somebody else, and owner and     *)
(* office each send the list of authors as a whole.                        *)
(*                                                                         *)
(* Sending a list deletes the rows it leaves out, one by one, and saves    *)
(* its entries in turn, without a transaction; two rows may not have the   *)
(* same place. Requests interleave at these cuts, and stop there when a    *)
(* save is refused or the process ends. What saves once is one action.     *)
(* What the publication declares (type, score, grade, dates) may change at *)
(* any moment and touches no row: it is no state here, and the properties  *)
(* are about every declaration in Works.                                   *)
(*                                                                         *)
(* Bounds: Lists are the lists sent, MaxSent of them in all; at most       *)
(* MaxRows ids are in use, and an id is used again when neither a row nor  *)
(* a request has it. An entry always sends its profile; no profile is that *)
(* of an administrator.                                                    *)
(***************************************************************************)
EXTENDS KpiHours, SequencesExt

CONSTANTS
    Works,    \* what may be declared: type, score, grade, inPeriod
    Lists,    \* lists of authors, before ids
    MaxRows,
    MaxSent,
    Requests, \* lists being saved at a time
    Office,   \* the office, which sends lists of its own
    MayCrash

Ids == 1..MaxRows
\* An entry of a list: id is that of the row it means, 0 for a new one.
Entries == [id : Ids \cup {0}, order : Nat, pct : Nat, top : BOOLEAN, corr : BOOLEAN,
            profile : Profiles \cup {NoOne}, name : Profiles \cup {NoOne},
            aff : {"UDN_ONLY", "MIXED", "OUTSIDE"}]

ASSUME PublicationsAssumption ==
    /\ Office \notin Profiles \cup {NoOne}
    /\ MaxRows \in Nat /\ MaxSent \in Nat /\ MayCrash \in BOOLEAN
    /\ Lists \subseteq Seq(Entries)
    /\ \A w \in Works : w.type \in Types /\ w.score \in Int

VARIABLES
    declared, \* there is a publication
    owner,    \* whose it is, NoOne if the office declared it so
    authors,  \* its rows
    req,      \* the list each request is saving
    settled,  \* the owner's last list was saved in full, alone
    sent      \* lists sent so far

vars == <<declared, owner, authors, req, settled, sent>>

Idle == [by |-> NoOne, gone |-> {}, left |-> <<>>, solo |-> FALSE]

TypeOK ==
    /\ declared \in BOOLEAN /\ settled \in BOOLEAN /\ sent \in 0..MaxSent
    /\ owner \in Profiles \cup {NoOne}
    /\ authors \subseteq Entries /\ \A r \in authors : r.id # 0
    /\ req \in [Requests -> [by : Profiles \cup {NoOne, Office}, gone : SUBSET Ids,
                             left : Seq(Entries), solo : BOOLEAN]]

Init ==
    /\ declared = FALSE /\ owner = NoOne /\ authors = {} /\ sent = 0
    /\ req = [q \in Requests |-> Idle] /\ settled = FALSE

----------------------------------------------------------------------------
(* The publication itself.                                                 *)

\* store, by somebody for themselves or by the office for anybody or nobody.
Declare(v) ==
    /\ ~declared
    /\ declared' = TRUE /\ owner' = v /\ authors' = {} /\ settled' = FALSE
    /\ UNCHANGED <<req, sent>>

\* update, by the office: it is somebody else's now.
GiveTo(v) ==
    /\ declared /\ v # owner
    /\ owner' = v /\ settled' = FALSE
    /\ UNCHANGED <<declared, authors, req, sent>>

\* destroy, with the rows; a list being saved can save nothing any more.
Destroy ==
    /\ declared
    /\ declared' = FALSE /\ owner' = NoOne /\ authors' = {}
    /\ req' = [q \in Requests |-> Idle] /\ settled' = FALSE
    /\ UNCHANGED sent

----------------------------------------------------------------------------
(* What the owner's list becomes before it is saved.                       *)

OwnEntry(e, v) == e.profile = v \/ (e.profile = NoOne /\ e.name = v)
Own(list, v)   == {k \in DOMAIN list : OwnEntry(list[k], v)}

\* The entry that is kept: linked before named, with an id before without,
\* then by place.
Rank(e, v)    == (IF e.profile = v THEN 2 ELSE 0) + (IF e.id # 0 THEN 1 ELSE 0)
Keeper(list, v) ==
    CHOOSE k \in Own(list, v) : \A j \in Own(list, v) :
        \/ Rank(list[k], v) > Rank(list[j], v)
        \/ Rank(list[k], v) = Rank(list[j], v) /\ list[k].order <= list[j].order

\* The list without the entries at some places.
Without(list, places) ==
    LET kept == DOMAIN list \ places
        at   == CHOOSE f \in [1..Cardinality(kept) -> kept] :
                    \A j, k \in DOMAIN f : j < k => f[j] < f[k]
    IN  [k \in DOMAIN at |-> list[at[k]]]

\* dedupeOwnerAuthorRowsForProfile: the owner's entries become one.
Dedupe(list, v) ==
    LET own  == Own(list, v)
        keep == Keeper(list, v)
        one  == [list[keep] EXCEPT !.profile = v,
                                   !.top   = \E k \in own : list[k].top,
                                   !.corr  = \E k \in own : list[k].corr,
                                   !.order = Min({list[k].order : k \in own})]
    IN  IF own = {} THEN list ELSE Without([list EXCEPT ![keep] = one], own \ {keep})

LinkedTo(list, v) == \E k \in DOMAIN list : list[k].profile = v

\* ensureOwnerProfileOnAuthorRows: a single author is the owner. A row with the
\* owner's name has been linked by Dedupe already.
Ensure(list, v) ==
    IF ~LinkedTo(list, v) /\ Len(list) = 1 /\ list[1].profile = NoOne
    THEN <<[list[1] EXCEPT !.profile = v]>> ELSE list

Prepared(list, by) == IF by = Office THEN list ELSE Ensure(Dedupe(list, by), by)

PlacesDiffer(list) == \A j, k \in DOMAIN list : list[j].order = list[k].order => j = k

\* Mutant: the owner's list is taken without the owner.
ValidForAll(list, by) == list # <<>> /\ PlacesDiffer(list) /\ \E v \in Profiles : LinkedTo(list, v)

Valid(list, by) ==
    /\ list # <<>> /\ PlacesDiffer(list)
    /\ IF by = Office THEN \E v \in Profiles : LinkedTo(list, v) ELSE LinkedTo(list, by)

----------------------------------------------------------------------------
(* Saving a list: PUT authors, by the owner and by the office.             *)

RowIds == {r.id : r \in authors}
\* The entries name no rows, or those that have their places, or those that
\* bear their names.
Same(how, r, e) == IF how = "place" THEN r.order = e.order ELSE r.name = e.name
Keeps(how, list, f) == \A k \in DOMAIN list :
    LET same == {r.id : r \in {r \in authors : Same(how, r, list[k])}} IN
    IF same = {} THEN f[k] = 0 ELSE f[k] \in same
WithIds(list) ==
    LET once(f)  == \A j, k \in DOMAIN f : f[j] = f[k] /\ f[j] # 0 => j = k
        naming   == {f \in [DOMAIN list -> RowIds \cup {0}] :
                        once(f) /\ \E how \in {"place", "name"} : Keeps(how, list, f)}
    IN  {list} \cup {[k \in DOMAIN list |-> [list[k] EXCEPT !.id = f[k]]] : f \in naming}

\* Reads the publication and its rows, and what there is to delete.
Begin(q, by, given) ==
    LET list  == Prepared(given, by)
        named == {list[k].id : k \in DOMAIN list}
        alone == \A p \in Requests : req[p] = Idle
    IN  /\ declared /\ by \in {owner, Office} \ {NoOne}
        /\ req[q] = Idle /\ Valid(list, by)
        /\ req' = [p \in Requests |->
              IF p = q THEN [by |-> by, gone |-> RowIds \ named, left |-> list, solo |-> alone]
                       ELSE [req[p] EXCEPT !.solo = FALSE]]
        /\ settled' = FALSE /\ sent' = sent + 1
        /\ UNCHANGED <<declared, owner, authors>>

Delete(q, id) ==
    /\ id \in req[q].gone
    /\ authors' = {r \in authors : r.id # id}
    /\ req' = [req EXCEPT ![q].gone = @ \ {id}]
    /\ UNCHANGED <<declared, owner, settled, sent>>

UsedIds == RowIds \cup UNION {req[q].gone \cup {e.id : e \in ToSet(req[q].left)} :
                              q \in Requests}

\* The row an entry becomes: of the owner's own row only the roles and the
\* percentage change; an entry whose row has gone becomes a new one.
Saved(e, by) ==
    LET old == {r \in authors : r.id = e.id} IN
    IF old = {} THEN [e EXCEPT !.id = Min(Ids \ UsedIds)]
    ELSE LET row == CHOOSE r \in old : TRUE IN
         IF by # Office /\ row.profile = by
         THEN [row EXCEPT !.top = e.top, !.corr = e.corr, !.pct = e.pct] ELSE e

SaveRow(q) ==
    LET e == Head(req[q].left) IN
    /\ req[q] # Idle /\ req[q].gone = {} /\ req[q].left # <<>>
    /\ e.id \in RowIds \/ Ids \ UsedIds # {}
    /\ LET row  == Saved(e, req[q].by)
           rest == {r \in authors : r.id # row.id}
       IN  IF \E r \in rest : r.order = row.order
           THEN authors' = authors /\ req' = [req EXCEPT ![q] = Idle]
           ELSE /\ authors' = rest \cup {row}
                /\ req' = [req EXCEPT ![q].left = Tail(@)]
    /\ UNCHANGED <<declared, owner, settled, sent>>

Finish(q) ==
    /\ req[q] # Idle /\ req[q].gone = {} /\ req[q].left = <<>>
    /\ settled' = (req[q].solo /\ req[q].by = owner)
    /\ req' = [req EXCEPT ![q] = Idle]
    /\ UNCHANGED <<declared, owner, authors, sent>>

\* The process ends or a query fails: what was saved stays.
Stop(q) ==
    /\ MayCrash /\ req[q] # Idle
    /\ req' = [req EXCEPT ![q] = Idle]
    /\ UNCHANGED <<declared, owner, authors, settled, sent>>

----------------------------------------------------------------------------
Next ==
    \/ \E v \in Profiles \cup {NoOne} : Declare(v)
    \/ \E v \in Profiles : GiveTo(v)
    \/ Destroy
    \/ /\ sent < MaxSent \* bound
       /\ \E given \in UNION {WithIds(list) : list \in Lists} :
             \E q \in Requests, by \in Profiles \cup {Office} : Begin(q, by, given)
    \/ \E q \in Requests : SaveRow(q) \/ Finish(q) \/ Stop(q) \/ \E id \in Ids : Delete(q, id)

Spec == Init /\ [][Next]_vars
----------------------------------------------------------------------------
(* Properties.                                                             *)

\* Once the owner has saved the list of authors in full, and alone, the owner
\* is on it, whatever rows the list came from, dropped, renamed or linked; until
\* the office or a new owner says otherwise. The hours are the owner's own.
OwnerHasOwnShare ==
    settled /\ (\A q \in Requests : req[q] = Idle) =>
        \E r \in authors : r.profile = owner

\* The owner is on no row and the row taken instead is somebody's.
Borrowed == \E r \in Candidates(owner, authors, owner) : r.profile \notin {owner, NoOne}
\* The percentages are complete and somebody has none.
Unpaid == AllPercent(authors) = 100 /\ \E r \in authors : r.pct = 0

\* The people on a publication together get no more than its hours: women a
\* fifth more of their share, each share rounded by half a hundredth at most.
\* It holds at every point of a list being saved.
HoursAreShared ==
    authors # {} /\ ~Borrowed /\ ~Unpaid => \A w \in Works :
        LET people     == Related(owner, authors)
            weighed(v) == (IF v \in Female THEN 5 ELSE 6)
                              * Max(ReportHours(w, owner, authors, v))
            shared     == IF Counted(w, authors, TRUE) THEN TwiceB(w, authors) ELSE 0
        IN  2 * SumFunction([v \in people |-> weighed(v)])
                <= 6 * shared + 6 * Cardinality(people)

\* A person's page and the reports give the same hours, and the page of the
\* publication shows them beside the person's row, up to its own roundings,
\* whoever of them looks.
PagesAgree == \A w \in Works, v \in Related(owner, authors) :
    /\ TeacherHours(w, owner, authors, v) = ReportHours(w, owner, authors, v)
    /\ \A r \in authors : r.profile \in Profiles =>
          LET given == IF Counted(w, authors, TRUE)
                       THEN RowHours(w, authors, r, r.profile, TRUE) ELSE 0
          IN  PageHours(w, owner, authors, r, v) - given \in -1..1
=============================================================================
