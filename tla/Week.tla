-------------------------------- MODULE Week --------------------------------
(***************************************************************************)
(* One recurring task through a week and the week after: its template, the *)
(* instances that are generated from it, carried over, amended and changed *)
(* by hand, and the pages that show them (app/routes/templates.py,         *)
(* app/services/task_generator.py, app/services/carry_over.py,             *)
(* app/routes/today.py, app/services/worklist_view.py, app/tk/queries.py). *)
(*                                                                         *)
(* Handlers are single steps: how they interleave is the subject of        *)
(* Worklists, and who leads a task that of TaskLead.                       *)
(***************************************************************************)
EXTENDS Recurrence

CONSTANTS
    Forms,          \* what the recurrence form may hold
    Mondays,        \* the first week begins on one of these
    FormDays(_),    \* for that Monday, the days (or None) a task form may send
    People,
    Visitors,       \* people from outside, without a row of their own
    MaxLists,       \* bound on the worklists, all versions of both weeks
    MaxEdits        \* bound on what is changed by hand

ASSUME WeekAssumption ==
    /\ Forms \subseteq Form
    /\ Mondays \subseteq Calendar
    /\ \A m \in Mondays : /\ Weekday(m) = 0
                          /\ m .. m + 13 \subseteq Calendar
                          /\ FormDays(m) \subseteq Calendar \cup {None}
    /\ MaxLists \in Nat /\ MaxEdits \in Nat

VARIABLES
    monday,         \* the first day of the first week
    template,       \* the row of task_templates, or None
    lists,          \* rows of worklists, by id
    tasks,          \* rows of task_instances, by id
    edits           \* how much has been changed by hand

vars == <<monday, template, lists, tasks, edits>>

Weeks == {monday, monday + 7}
Days(l) == lists[l].week .. lists[l].week + 6

Rules == {Parsed(f) : f \in Forms}
Template == [active : BOOLEAN, rule : Rules]

\* base: not the amendment of another one.
Worklist == [week : Calendar, base : BOOLEAN, locked : BOOLEAN, active : BOOLEAN]

\* recurring: made from the template; pending: open or in progress.
Instance == [list : Nat, day : Calendar \cup {None}, recurring : BOOLEAN,
             pending : BOOLEAN, active : BOOLEAN, who : SUBSET (People \cup Visitors)]

TaskIds == DOMAIN tasks

Edit == edits < MaxEdits /\ edits' = edits + 1

-----------------------------------------------------------------------------
(* The template *)

NewTemplate(f) == [active |-> TRUE, rule |-> Parsed(f)]

CreateTemplate(f) ==
    /\ template = None
    /\ template' = NewTemplate(f)
    /\ UNCHANGED <<monday, lists, tasks, edits>>

\* Everything is written anew; an archived template stays archived.
EditedTemplate(t, f) == [active |-> t.active, rule |-> Parsed(f)]

UpdateTemplate(f) ==
    /\ template # None
    /\ template' = EditedTemplate(template, f)
    /\ Edit
    /\ UNCHANGED <<monday, lists, tasks>>

ArchiveTemplate ==
    /\ template # None
    /\ template' = [active |-> FALSE, rule |-> template.rule]
    /\ Edit
    /\ UNCHANGED <<monday, lists, tasks>>

-----------------------------------------------------------------------------
(* Worklists and their tasks *)

Repeats == template # None /\ template.active /\ template.rule # None

NewWorklist(w) == [week |-> w, base |-> TRUE, locked |-> FALSE, active |-> TRUE]

NewTask(l, d, recurring, who) ==
    [list |-> l, day |-> d, recurring |-> recurring, pending |-> TRUE, active |-> TRUE,
     who |-> who]

Present(l, d) ==
    \E i \in TaskIds : /\ tasks[i].list = l
                       /\ tasks[i].active
                       /\ tasks[i].recurring
                       /\ tasks[i].day = d

\* Mutant: the generator looks five days ahead.
MissingWeekdays(l, worklist) ==
    IF Repeats /\ ~worklist.locked
    THEN {d \in DatesInWindow(template.rule, worklist.week, 5) : ~Present(l, d)} ELSE {}

\* The days that the worklist, with id l, has no active instance for: none of a locked
\* one.
Missing(l, worklist) ==
    IF Repeats /\ ~worklist.locked
    THEN {d \in DatesInWindow(template.rule, worklist.week, 7) : ~Present(l, d)} ELSE {}

\* The member of S that k - 1 others are before.
Nth(S, k) == CHOOSE i \in S : Cardinality({j \in S : j < i}) = k - 1

\* What generate_for_worklist adds to it.
Generated(l, worklist) ==
    LET days == Missing(l, worklist)
    IN  [k \in 1 .. Cardinality(days) |-> NewTask(l, Nth(days, k), TRUE, {})]

\* For a week that has an active base, that one is opened.
CreateWorklist(w) ==
    /\ ~\E l \in DOMAIN lists : lists[l].week = w /\ lists[l].base /\ lists[l].active
    /\ Len(lists) < MaxLists
    /\ lists' = Append(lists, NewWorklist(w))
    /\ tasks' = tasks \o Generated(Len(lists) + 1, NewWorklist(w))
    /\ UNCHANGED <<monday, template, edits>>

Generate(l) ==
    /\ ~lists[l].locked
    /\ tasks' = tasks \o Generated(l, lists[l])
    /\ UNCHANGED <<monday, template, lists, edits>>

Lock(l) ==
    /\ ~lists[l].locked
    /\ lists' = [lists EXCEPT ![l].locked = TRUE]
    /\ UNCHANGED <<monday, template, tasks, edits>>

\* The instances of an archived worklist stay as they are.
ArchiveWorklist(l) ==
    /\ lists' = [lists EXCEPT ![l].active = FALSE]
    /\ Edit
    /\ UNCHANGED <<monday, template, tasks>>

\* The instances are copied; those of the locked version stay active.
Amend(l) ==
    /\ lists[l].locked
    /\ Len(lists) < MaxLists
    /\ lists' = Append(lists, [NewWorklist(lists[l].week) EXCEPT !.base = FALSE])
    /\ LET mine == {i \in TaskIds : tasks[i].list = l /\ tasks[i].active}
       IN  tasks' = tasks \o [k \in 1 .. Cardinality(mine) |->
                                 [tasks[Nth(mine, k)] EXCEPT !.list = Len(lists) + 1]]
    /\ UNCHANGED <<monday, template, edits>>

\* The day may be one of another week, or none.
CreateTask(l, d) ==
    /\ ~lists[l].locked
    /\ tasks' = Append(tasks, NewTask(l, d, FALSE, {}))
    /\ Edit
    /\ UNCHANGED <<monday, template, lists>>

\* A task that was archived can still be written to.
ChangeTask(i, task) ==
    /\ task # tasks[i]
    /\ ~lists[tasks[i].list].locked
    /\ tasks' = [tasks EXCEPT ![i] = task]
    /\ Edit
    /\ UNCHANGED <<monday, template, lists>>

UpdateTask(i, d, pending) == ChangeTask(i, [tasks[i] EXCEPT !.day = d, !.pending = pending])
ArchiveTask(i) == ChangeTask(i, [tasks[i] EXCEPT !.active = FALSE])
AddAssignment(i, a) == ChangeTask(i, [tasks[i] EXCEPT !.who = @ \cup {a}])
DeleteAssignment(i, a) == ChangeTask(i, [tasks[i] EXCEPT !.who = @ \ {a}])

\* A task that worklist l is offered from an earlier week, locked or archived though
\* that one may be.
Carriable(i, l) ==
    /\ ~lists[l].locked
    /\ tasks[i].active /\ tasks[i].pending
    /\ lists[tasks[i].list].week < lists[l].week

\* Completed or discarded where it is.
Settle(i, l) ==
    /\ Carriable(i, l)
    /\ tasks' = [tasks EXCEPT ![i].pending = FALSE]
    /\ Edit
    /\ UNCHANGED <<monday, template, lists>>

\* Carried with the same assignees, or reassigned to others, to the Monday.
CarryOver(i, l, who) ==
    /\ Carriable(i, l)
    /\ tasks' = Append([tasks EXCEPT ![i].pending = FALSE],
                       NewTask(l, lists[l].week, tasks[i].recurring, who))
    /\ Edit
    /\ UNCHANGED <<monday, template, lists>>

Init ==
    /\ monday \in Mondays
    /\ template = None
    /\ lists = <<>>
    /\ tasks = <<>>
    /\ edits = 0

Next ==
    \/ \E f \in Forms : CreateTemplate(f) \/ UpdateTemplate(f)
    \/ ArchiveTemplate
    \/ \E w \in Weeks : CreateWorklist(w)
    \/ \E l \in DOMAIN lists :
          \/ Generate(l) \/ Lock(l) \/ Amend(l) \/ ArchiveWorklist(l)
          \/ \E d \in FormDays(monday) : CreateTask(l, d)
    \/ \E i \in TaskIds :
          \/ \E d \in FormDays(monday), p \in BOOLEAN : UpdateTask(i, d, p)
          \/ ArchiveTask(i)
          \/ \E a \in People \cup Visitors : AddAssignment(i, a) \/ DeleteAssignment(i, a)
    \/ \E i \in TaskIds, l \in DOMAIN lists :
          \/ Settle(i, l)
          \/ \E who \in {tasks[i].who} \cup SUBSET People : CarryOver(i, l, who)

Spec == Init /\ [][Next]_vars

-----------------------------------------------------------------------------
(* Pages *)

\* The day page lists the active instances of its date, of every worklist: of either
\* week, of any version, archived or not ...
Scheduled(d) == {i \in TaskIds : tasks[i].active /\ tasks[i].day = d}

\* ... and announces the template, if it fires on that day and none of them is its.
Recurring(d) ==
    /\ Repeats
    /\ ~\E i \in Scheduled(d) : tasks[i].recurring
    /\ DatesInWindow(template.rule, d, 1) # {}

\* The page of a day.
DayView(d) == [scheduled |-> Scheduled(d), recurring |-> Recurring(d)]

\* A task has a line for each of its assignees, or one among the unassigned.
Lines(i) == IF tasks[i].who = {} THEN {<<i, "unassigned">>} ELSE {i} \X tasks[i].who

OfList(l) == {i \in TaskIds : tasks[i].list = l /\ tasks[i].active}

\* The week view: a task without a day, or of another week, is not in it.
ViewDay(l, d) == UNION {Lines(i) : i \in {j \in OfList(l) : tasks[j].day = d}}

\* The pages of the days of the week, one below the other.
WeekView(l) == [d \in Days(l) |-> ViewDay(l, d)]

\* Mutant: a task without a day is left out of the grid too.
PlacedByDay(l, d) == {i \in OfList(l) : tasks[i].day = d}

\* In the grid, what has no day is put on the first one.
Placed(l, d) ==
    {i \in OfList(l) : tasks[i].day = d \/ (tasks[i].day = None /\ d = lists[l].week)}

GridDay(l, d) == UNION {Lines(i) : i \in Placed(l, d)}

\* The page that is printed has the first five days.
Workdays(l) == lists[l].week .. lists[l].week + 4
Printed(l) == UNION {GridDay(l, d) : d \in Workdays(l)}

-----------------------------------------------------------------------------
(* Properties *)

\* The rows have their types: a worklist is of one of the two weeks, and every task
\* is of a worklist there is.
TypeOK ==
    /\ monday \in Mondays
    /\ template \in Template \cup {None}
    /\ lists \in Seq(Worklist)
    /\ \A l \in DOMAIN lists : lists[l].week \in Weeks
    /\ tasks \in Seq(Instance)
    /\ \A i \in TaskIds : tasks[i].list \in DOMAIN lists
    /\ edits \in 0 .. MaxEdits

\* Looked at before there is a worklist.  In a window of a day or of a week, whenever
\* it begins, a rule yields the days that it means, so that the generator and the day
\* page cannot disagree.  Nothing is said of a rule every n weeks that has no anchor
\* (dates_in_window).
WindowsAgree ==
    lists = <<>> /\ template # None /\ Anchored(template.rule) =>
        \A start \in Calendar, days \in {1, 7} :
            start + days - 1 \in Calendar =>
                DatesInWindow(template.rule, start, days) =
                    {d \in start .. start + days - 1 : Meant(template.rule, d)}

\* The step generates the recurring tasks of worklist l, an old one or a new one.
Generates(l) ==
    IF l \in DOMAIN lists THEN Generate(l) ELSE \E w \in Weeks : CreateWorklist(w)

Added(l, d) ==
    {i \in DOMAIN tasks' \ TaskIds :
        tasks'[i].list = l /\ tasks'[i].recurring /\ tasks'[i].day = d}

\* The day page foretells the generator.  When the recurring tasks of a worklist are
\* generated, each day of its week on which one was announced gets just one; a day
\* gets one unannounced only if an instance in some other worklist had silenced the
\* page; and of no day of the week is one announced any more
\* (_day_view, generate_for_worklist).
Foretold ==
    [][\A l \in DOMAIN lists' : Generates(l) =>
          \A d \in Days(l)' :
             /\ DayView(d).recurring => Cardinality(Added(l, d)) = 1
             /\ Added(l, d) # {} =>
                   \/ DayView(d).recurring
                   \/ \E i \in DayView(d).scheduled :
                         tasks[i].recurring /\ tasks[i].list # l
             /\ ~DayView(d).recurring']_vars

\* No task is lost to sight, in whichever worklist, locked, amended or archived: each
\* line of it is printed with its week or, when its day is not one of the first five,
\* the task is on the page of that day; and what the week view shows of these five
\* days is what is printed (build_week_grid, build_week_view).
NothingHidden ==
    \A l \in DOMAIN lists :
        /\ \A i \in OfList(l) :
              \/ Lines(i) \subseteq Printed(l)
              \/ \E d \in Calendar \ Workdays(l) : i \in DayView(d).scheduled
        /\ LET week == WeekView(l)
           IN  \A d \in Workdays(l) :
                  week[d] = {x \in GridDay(l, d) : tasks[x[1]].day # None}

=============================================================================
