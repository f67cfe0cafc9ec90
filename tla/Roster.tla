------------------------------- MODULE Roster -------------------------------
(***************************************************************************)
(* Who can do a task: qualifications and absences, and the suggestions     *)
(* that are made from both (app/services/assignment_helper.py).            *)
(***************************************************************************)
EXTENDS Quals

vars == <<people, absences, catalog, held, form>>

Init == AbsencesInit /\ QualsInit

Next ==
    \/ AbsencesNext /\ UNCHANGED qualVars
    \/ QualsNext /\ UNCHANGED <<people, absences>>

Spec == Init /\ [][Next]_vars

-----------------------------------------------------------------------------
(* Suggestions *)

\* The tasks there can be: the qualifications the template asks for, the day the
\* task is scheduled for (0: none), and the people it is not for: assigned to it
\* already, or without the licence or the duty section the template asks for.
Task == [quals : SUBSET Catalog, day : Days \cup {0}, barred : SUBSET Persons]

\* Without a day everybody is there.
Availability(p, task, rows) == IF task.day = 0 THEN "present" ELSE Reported(p, rows)

\* Mutant: a qualification counts from the day it is assigned.
CandidatesWithAnyRow(task, rows) ==
    {p \in Roll \ task.barred :
        /\ \A q \in task.quals : Cell(p, q) # "-"
        /\ Availability(p, task, rows) # "out"}

\* candidates_for without include_unavailable.
Candidates(task, rows) ==
    {p \in Roll \ task.barred :
        /\ \A q \in task.quals : Cell(p, q) = "qualified"
        /\ Availability(p, task, rows) # "out"}

-----------------------------------------------------------------------------
(* Properties *)

\* Tables and forms have their types; an open edit form names a row.
TypeOK ==
    /\ people \in [Persons -> {"active", "departed"}]
    /\ absences \in Seq(Absence)
    /\ \A i \in AbsenceIds : absences[i].first <= absences[i].last
    /\ catalog \in [Catalog -> {"none", "active", "archived"}]
    /\ held \in Seq(PersonQual)
    /\ form \in [Forms -> Form]
    /\ \A f \in Forms : form[f].op = "update" => form[f].id \in HeldIds

\* Of the rows that a person has of a qualification the last one written is open and
\* no other: the matrix and the lookups rest on it, and nothing that was ever given
\* is lost (new_person_qual_form, update_person_qual).
OneCurrent ==
    \A i \in HeldIds :
        held[i].open <=>
            ~\E j \in HeldIds : /\ i < j
                               /\ held[j].person = held[i].person
                               /\ held[j].qual = held[i].qual

\* "Otherwise the deadline is carried": a pending qualification can be without a
\* deadline only if the web form has touched it, or it was settled before and
\* reopened without one (update_person_qual in Tk).
DeadlineCarried ==
    \A i \in HeldIds :
        /\ held[i].open
        /\ held[i].status \notin Settled
        /\ ~held[i].due
        => \E j \in HeldIds : /\ held[j].via = "web" \/ held[j].status \in Settled
                              /\ held[j].person = held[i].person
                              /\ held[j].qual = held[i].qual

\* The gap that the overview shows is the one that can be counted in the matrix,
\* and the catalog page counts the people who have left on top (build_qual_overview).
RollupsAgree ==
    \A q \in Catalog :
        /\ Gap(q) <=> Cardinality({p \in Roll : Cell(p, q) = "qualified"}) < Threshold
        /\ \A status \in Statuses :
              CatalogCount(q, status) - OverviewCount(q, status) =
                  Cardinality({p \in Persons \ Roll : Cell(p, q) = status})

\* Two absences of one person that are in force on one day.
Overlap(p, d) ==
    \E i, j \in AbsenceIds :
        /\ i # j
        /\ \A k \in {i, j} : /\ absences[k].active
                             /\ absences[k].person = p
                             /\ Covers(k, d)

\* Whatever order the rows come in, the report of a day and the calendar of any
\* range with that day say the same of everybody whose absences do not overlap
\* (get_day_report, build_calendar).
ReportsAgree ==
    \A from, to, d \in Days :
        from <= d /\ d <= to =>
            \A ofDay \in SetToSeqs(Between(d, d)), ofRange \in SetToSeqs(Between(from, to)) :
                \A p \in Roll :
                    ~Overlap(p, d) =>
                        Reported(p, ofDay) = LeaveCalendar(from, to, ofRange)[p][d]

AwayAllDay(p, d) ==
    \E i \in AbsenceIds : /\ absences[i].active
                          /\ absences[i].person = p
                          /\ ~absences[i].partial
                          /\ Covers(i, d)

\* Those and only those are suggested who are here, not barred, qualified by what
\* they hold now, and not away all day; only of a person whose absences overlap
\* this cannot be said (candidates_for).
SuggestionsFit ==
    \A task \in Task :
        \A rows \in IF task.day = 0 THEN {<<>>} ELSE SetToSeqs(Between(task.day, task.day)) :
            \A p \in Persons :
                task.day = 0 \/ ~Overlap(p, task.day) =>
                    (p \in Candidates(task, rows) <=>
                        /\ people[p] = "active"
                        /\ p \notin task.barred
                        /\ \A q \in task.quals :
                              \E i \in Open(p, q) : held[i].status = "qualified"
                        /\ task.day # 0 => ~AwayAllDay(p, task.day))

=============================================================================
