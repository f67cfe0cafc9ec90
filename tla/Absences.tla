------------------------------ MODULE Absences ------------------------------
(***************************************************************************)
(* Absences and what is read off them: the report of a day and the leave   *)
(* calendar (app/routes/absences.py, app/services/availability.py,         *)
(* app/services/absence_calendar.py, and their twins in app/tk).           *)
(*                                                                         *)
(* A handler writes one row and reads none that another one writes, so     *)
(* each is one step.  Codes, reasons and notes are left out; of the times  *)
(* of day only whether there are any.                                      *)
(***************************************************************************)
EXTENDS Integers, Sequences, FiniteSetsExt

CONSTANTS
    Persons,        \* rows of persons
    LastDay,        \* the days are 1 .. LastDay
    MaxAbsences     \* bound on the rows of absences

ASSUME AbsencesAssumption == LastDay \in Nat /\ MaxAbsences \in Nat

VARIABLES
    people,         \* by person: "active" or "departed" (archived)
    absences        \* rows of absences, by id

Days == 1 .. LastDay

Absence == [person : Persons, first : Days, last : Days, partial : BOOLEAN,
            active : BOOLEAN]

AbsenceIds == DOMAIN absences

-----------------------------------------------------------------------------
(* Handlers *)

AbsencesInit ==
    /\ people = [p \in Persons |-> "active"]
    /\ absences = <<>>

\* Archiving a person (module Personnel) leaves the absences as they are.
DepartPerson(p) ==
    /\ people[p] = "active"
    /\ people' = [people EXCEPT ![p] = "departed"]
    /\ UNCHANGED absences

\* The dates a row may have.
Span(first, last) == first <= last

\* An absence of several hours has a time of day at either end.
NewAbsence(p, first, last, partial) ==
    [person |-> p, first |-> first, last |-> last, partial |-> partial, active |-> TRUE]

\* Nothing keeps two absences of a person from overlapping.
CreateAbsence(p, first, last, partial) ==
    /\ Len(absences) < MaxAbsences
    /\ Span(first, last)
    /\ absences' = Append(absences, NewAbsence(p, first, last, partial))
    /\ UNCHANGED people

\* Everything but the person is written anew; an archived row stays archived.
EditedAbsence(a, first, last, partial) ==
    [person |-> a.person, first |-> first, last |-> last, partial |-> partial,
     active |-> a.active]

UpdateAbsence(i, first, last, partial) ==
    /\ Span(first, last)
    /\ absences' = [absences EXCEPT ![i] = EditedAbsence(absences[i], first, last, partial)]
    /\ UNCHANGED people

ArchivedAbsence(a) ==
    [person |-> a.person, first |-> a.first, last |-> a.last, partial |-> a.partial,
     active |-> FALSE]

ArchiveAbsence(i) ==
    /\ absences' = [absences EXCEPT ![i] = ArchivedAbsence(absences[i])]
    /\ UNCHANGED people

AbsencesNext ==
    \/ \E p \in Persons : DepartPerson(p)
    \/ \E p \in Persons, first, last \in Days, partial \in BOOLEAN :
          CreateAbsence(p, first, last, partial)
    \/ \E i \in AbsenceIds, first, last \in Days, partial \in BOOLEAN :
          UpdateAbsence(i, first, last, partial)
    \/ \E i \in AbsenceIds : ArchiveAbsence(i)

-----------------------------------------------------------------------------
(* Views.  A query without an ORDER BY returns its rows in any order: a view   *)
(* takes the rows it works on as a sequence of ids.                            *)

Roll == {p \in Persons : people[p] = "active"}

\* The rows both views select for a range of days.
Between(from, to) ==
    {i \in AbsenceIds : /\ absences[i].active
                        /\ absences[i].first <= to
                        /\ absences[i].last >= from}

\* What a row says of its person: away for a part of the day, or out.
Says(i) == IF absences[i].partial THEN "partial" ELSE "out"

\* get_day_report, over rows of Between(d, d): the last row of a person stands.
Reported(p, rows) ==
    LET mine == {k \in DOMAIN rows : absences[rows[k]].person = p}
    IN  IF mine = {} THEN "present" ELSE Says(rows[Max(mine)])

Covers(i, d) == absences[i].first <= d /\ d <= absences[i].last

\* Mutant: the last day of an absence is not part of it.
CellEndingEarly(p, d, rows) ==
    LET hits == {k \in DOMAIN rows : LET a == absences[rows[k]] IN
                                        a.person = p /\ a.first <= d /\ d < a.last}
    IN  IF hits = {} THEN "present" ELSE Says(rows[Min(hits)])

\* build_calendar, over rows of a longer range: the first row that covers the day.
CalendarCell(p, d, rows) ==
    LET hits == {k \in DOMAIN rows : absences[rows[k]].person = p /\ Covers(rows[k], d)}
    IN  IF hits = {} THEN "present" ELSE Says(rows[Min(hits)])

LeaveCalendar(from, to, rows) ==
    [p \in Roll |-> [d \in from .. to |-> CalendarCell(p, d, rows)]]

=============================================================================
