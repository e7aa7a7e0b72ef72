----------------------------- MODULE KpiHours ------------------------------
(***************************************************************************)
(* The hours a publication is worth to the people on it: what the engine   *)
(* gives a person, for the person's own page and for the reports, and what *)
(* the page of the publication shows beside each author.                   *)
(*                                                                         *)
(* Hours are whole hundredths, as the code rounds them; between two        *)
(* roundings a value is an exact fraction <<numerator, denominator>>, where*)
(* the code has floating point. A row is one of publication_authors: its   *)
(* id, author_order, the profile it is linked to, the person it names, its *)
(* roles top and corr, aff, and pct, 0 when there is none. The database    *)
(* returns rows in any order, so what picks "the first" is a set.          *)
(***************************************************************************)
EXTENDS Integers, FiniteSets, FiniteSetsExt

CONSTANTS
    Profiles, \* people with a scientific profile
    Female,   \* those whose gender says so
    Types,    \* leaves of the catalogue of research results
    Rule,     \* kind, hours, bonus, c by grade, scope of a, article of a type
    NoOne     \* a row linked to no profile, a name that is none of Profiles

ASSUME KpiAssumption ==
    /\ Female \subseteq Profiles /\ NoOne \notin Profiles
    \* Only articles (sections 1 to 5 of the catalogue) are counted in points.
    /\ \A t \in Types : Rule[t].kind = "HDGSNN_POINTS_TO_HOURS" => Rule[t].article
    \* Hours in hundredths; c in hundredths, of a grade.
    /\ \A t \in Types : Rule[t].hours \in Int /\ Rule[t].bonus \in Int
    /\ \A t \in Types, g \in {"EXCELLENT", "PASS_ON_TIME", "PASS_LATE"} : Rule[t].c[g] \in Int

RoundDiv(num, den) == (2 * num + den) \div (2 * den)

----------------------------------------------------------------------------
(* The work: how its hours are divided, and how many there are.            *)

\* dungChiaTheoPhanTramDongGop; the kind is known with the cache of rules.
ByPercentage(w, known) ==
    /\ ~(known /\ Rule[w.type].kind = "HDGSNN_POINTS_TO_HOURS")
    /\ ~Rule[w.type].article

Main(row) == row.top \/ row.corr
All(rows, aff) == \A r \in rows : r.aff = aff

\* Twice the factor a of section 1.1.
FactorA(w, rows) ==
    LET corr == {r \in rows : r.corr} IN
    IF Rule[w.type].scope = "authors" THEN (IF All(rows, "UDN_ONLY") THEN 4 ELSE 2)
    ELSE IF All(corr, "OUTSIDE") THEN 2 \* or nobody is corresponding
    ELSE IF All(corr, "UDN_ONLY") THEN 4 ELSE 3

DefaultC == [EXCELLENT |-> 110, PASS_ON_TIME |-> 100, PASS_LATE |-> 50]
FactorC(rule, grade) ==
    IF grade \notin DOMAIN DefaultC THEN 0
    ELSE IF rule.c[grade] > 0 THEN rule.c[grade] ELSE DefaultC[grade]

\* B0, with the points of the work in hundredths.
BaseHours(w) ==
    LET rule == Rule[w.type] IN
    CASE rule.kind \in {"FIXED", "MULTIPLY_A"}     -> rule.hours
      [] rule.kind = "HDGSNN_POINTS_TO_HOURS"      -> 600 * w.score
      [] rule.kind = "MULTIPLY_C" -> RoundDiv(rule.hours * FactorC(rule, w.grade), 100)
      [] rule.kind = "BONUS_ADD"                   -> rule.hours + rule.bonus
      [] OTHER                                     -> 0

\* Twice B, the hours of the whole work.
TwiceB(w, rows) ==
    BaseHours(w) * (IF Rule[w.type].kind = "MULTIPLY_A" THEN FactorA(w, rows) ELSE 2)

\* Mutant: only top authors are counted.
TopCount(w, rows, known) ==
    LET n == Cardinality({r \in rows : r.top}) IN
    IF n = 0 /\ (Cardinality(rows) = 1 \/ ByPercentage(w, known)) THEN 1 ELSE n

\* n: top or corresponding authors; 0 gives nobody any hours.
MainCount(w, rows, known) ==
    LET n == Cardinality({r \in rows : Main(r)}) IN
    IF n = 0 /\ (Cardinality(rows) = 1 \/ ByPercentage(w, known)) THEN 1 ELSE n

Counted(w, rows, known) == rows # {} /\ MainCount(w, rows, known) > 0 /\ BaseHours(w) > 0

----------------------------------------------------------------------------
(* The share of a row.                                                     *)

AllPercent(rows) == SumFunction([r \in rows |-> r.pct])

PercentShare(B, rows, row) ==
    IF row.pct > 0 /\ AllPercent(rows) = 100 THEN <<B * row.pct, 100>>
                                             ELSE <<B, Cardinality(rows)>>

\* Sections 1.2 and 1.3: a third to the main authors, two thirds to everybody.
RoleShare(B, n, rows, row) ==
    LET p == Cardinality(rows) IN
    IF Main(row) \/ p = 1 THEN <<B * (p + 2 * n), 3 * n * p>> ELSE <<2 * B, 3 * p>>

\* chonTacGiaChoProfile: the rows that may be taken for the row of v.
Candidates(owner, rows, v) ==
    LET linked == {r \in rows : r.profile = v}
        named  == {r \in rows : r.name = v}
        tops(s) == {r \in s : r.top}
        first(s) == IF tops(s) # {} THEN tops(s) ELSE s
    IN  IF linked # {} THEN linked
        ELSE IF v # owner THEN {}
        ELSE IF named # {} THEN first(named) ELSE first(rows)

\* What v gets for a row, rounded once at the end.
RowHours(w, rows, row, v, known) ==
    LET B     == TwiceB(w, rows)
        share == IF ByPercentage(w, known) THEN PercentShare(B, rows, row)
                 ELSE RoleShare(B, MainCount(w, rows, known), rows, row)
    IN  RoundDiv(share[1] * (IF v \in Female THEN 6 ELSE 5),
                 share[2] * 2 * (IF row.aff = "MIXED" THEN 2 ELSE 1) * 5)

\* publicationStrategyCalculate: the hours v may be given.
EngineHours(w, owner, rows, v, known) ==
    LET mine == Candidates(owner, rows, v) IN
    IF ~Counted(w, rows, known) \/ mine = {} THEN {0}
    ELSE {RowHours(w, rows, r, v, known) : r \in mine}

----------------------------------------------------------------------------
(* The three places that show hours. A period counts a work published in   *)
(* it; the page of a publication shows its hours whatever the period.      *)

Related(owner, rows) == ({owner} \cup {r.profile : r \in rows}) \cap Profiles

\* calculateTeacherKpi for the page of a person, without the cache of rules.
TeacherHours(w, owner, rows, v) ==
    IF w.inPeriod /\ (owner = v \/ \E r \in rows : r.profile = v)
    THEN EngineHours(w, owner, rows, v, FALSE) ELSE {0}

\* hoursByProfileForPeriod for the reports, with the cache.
ReportHours(w, owner, rows, v) ==
    IF w.inPeriod /\ v \in Related(owner, rows)
    THEN EngineHours(w, owner, rows, v, TRUE) ELSE {0}

\* Mutant: whoever looks decides on the fifth more.
PageHoursOfViewer(w, owner, rows, row, viewer) ==
    LET told  == Counted(w, rows, FALSE) /\ Candidates(owner, rows, viewer) # {}
        B     == IF told THEN TwiceB(w, rows) ELSE 0
        share == IF ByPercentage(w, TRUE) THEN PercentShare(B, rows, row)
                 ELSE RoleShare(B, IF told THEN MainCount(w, rows, FALSE) ELSE 1, rows, row)
        whole == RoundDiv(share[1], 2 * share[2])
        half  == IF row.aff = "MIXED" THEN RoundDiv(whole, 2) ELSE whole
    IN  IF viewer \in Female THEN RoundDiv(half * 6, 5) ELSE half

\* authorBreakdown for a viewer: each factor rounded, B as the engine told it.
PageHours(w, owner, rows, row, viewer) ==
    LET told  == Counted(w, rows, FALSE) /\ Candidates(owner, rows, viewer) # {}
        B     == IF told THEN TwiceB(w, rows) ELSE 0
        n     == IF told THEN MainCount(w, rows, FALSE) ELSE 1
        share == IF ByPercentage(w, TRUE) THEN PercentShare(B, rows, row)
                 ELSE RoleShare(B, n, rows, row)
        whole == RoundDiv(share[1], 2 * share[2])
        half  == IF row.aff = "MIXED" THEN RoundDiv(whole, 2) ELSE whole
    IN  IF row.profile \in Female THEN RoundDiv(half * 6, 5) ELSE half
=============================================================================
