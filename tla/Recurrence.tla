----------------------------- MODULE Recurrence -----------------------------
(***************************************************************************)
(* Recurrence rules: what a form makes of its fields, and the days of a    *)
(* window on which a rule fires (app/services/recurrence.py,               *)
(* app/routes/templates.py, _build_recurrence in app/tk/commands.py).      *)
(*                                                                         *)
(* Days are numbered from 0, a Monday and the first of a month.            *)
(***************************************************************************)
EXTENDS Integers, Sequences, FiniteSets

CONSTANTS
    MonthLengths,   \* the lengths of the months the calendar has
    None            \* a field left empty, JSON null

ASSUME CalendarAssumption == MonthLengths \in Seq(28 .. 31) /\ MonthLengths # <<>>

-----------------------------------------------------------------------------
(* The calendar (Python's date and monthrange) *)

MonthStart[m \in 1 .. Len(MonthLengths) + 1] ==
    IF m = 1 THEN 0 ELSE MonthStart[m - 1] + MonthLengths[m - 1]

Calendar == 0 .. MonthStart[Len(MonthLengths) + 1] - 1

MonthOf(d) == CHOOSE m \in 1 .. Len(MonthLengths) : MonthStart[m] <= d /\ d < MonthStart[m + 1]
FirstOfMonth(d) == MonthStart[MonthOf(d)]
LastOfMonth(d) == MonthStart[MonthOf(d) + 1] - 1
DayOfMonth(d) == d - FirstOfMonth(d) + 1
Weekday(d) == d % 7
Monday(d) == d - Weekday(d)

Smaller(a, b) == IF a < b THEN a ELSE b

-----------------------------------------------------------------------------
(* Rules *)

\* A form with its fields as numbers and days, or empty; an anchor that is no date
\* counts as empty.
Form == [kind : STRING, weekdays : SUBSET (0 .. 6), n : Int \cup {None},
         weekday : (0 .. 6) \cup {None}, day : Int \cup {None},
         anchor : Calendar \cup {None}]

\* What is stored of it.
Rule == [kind : {"daily"}]
            \cup [kind : {"weekdays"}, weekdays : SUBSET (0 .. 6)]
            \cup [kind : {"every_n_weeks"}, n : Int, weekday : 0 .. 6,
                  anchor : Calendar \cup {None}]
            \cup [kind : {"monthly_date"}, day : Int]
            \cup [kind : {"monthly_nth_weekday"}, n : Int, weekday : 0 .. 6]

ASSUME NoneAssumption == None \notin Int \cup Rule

Or(field, default) == IF field = None THEN default ELSE field

\* A form field that is left empty gets a default; an anchor does not.  (A kind the
\* form does not know, or "none": no rule.)
Parsed(f) ==
    CASE f.kind = "daily"        -> [kind |-> "daily"]
      [] f.kind = "weekdays"     -> [kind |-> "weekdays", weekdays |-> f.weekdays]
      [] f.kind = "every_n_weeks" ->
            [kind |-> "every_n_weeks", n |-> Or(f.n, 2), weekday |-> Or(f.weekday, 0),
             anchor |-> f.anchor]
      [] f.kind = "monthly_date" -> [kind |-> "monthly_date", day |-> Or(f.day, 1)]
      [] f.kind = "monthly_nth_weekday" ->
            [kind |-> "monthly_nth_weekday", n |-> Or(f.n, 1), weekday |-> Or(f.weekday, 0)]
      [] OTHER -> None

-----------------------------------------------------------------------------
(* The evaluator, branch by branch *)

\* Without an anchor the weeks are counted from the window itself.
InNthWeek(rule, d, start) ==
    LET n == IF rule.n < 1 THEN 1 ELSE rule.n
        anchor == Or(rule.anchor, start)
        apart == (Monday(d) - Monday(anchor)) \div 7
    IN  Weekday(d) = rule.weekday /\ apart % n = 0 /\ apart >= 0

\* Mutant: a day the month does not have is skipped.
OnDateUnclamped(rule, d) == DayOfMonth(d) = rule.day

\* The 31st is the last day of a shorter month.
OnDate(rule, d) == DayOfMonth(d) = Smaller(rule.day, DayOfMonth(LastOfMonth(d)))

\* n = -1: the last one of the month.
OnNthWeekday(rule, d) ==
    /\ Weekday(d) = rule.weekday
    /\ d = IF rule.n = -1
           THEN LastOfMonth(d) - ((Weekday(LastOfMonth(d)) - rule.weekday) % 7)
           ELSE FirstOfMonth(d) + ((rule.weekday - Weekday(FirstOfMonth(d))) % 7) + 7 * (rule.n - 1)

Matches(rule, d, start) ==
    /\ rule # None
    /\ CASE rule.kind = "daily"    -> TRUE
         [] rule.kind = "weekdays" -> Weekday(d) \in rule.weekdays
         [] rule.kind = "every_n_weeks" -> InNthWeek(rule, d, start)
         [] rule.kind = "monthly_date" -> OnDate(rule, d)
         [] rule.kind = "monthly_nth_weekday" -> OnNthWeekday(rule, d)

DatesInWindow(rule, start, days) ==
    {d \in start .. start + days - 1 : Matches(rule, d, start)}

-----------------------------------------------------------------------------
(* What the rules mean, without a window *)

\* A rule every n weeks says which weeks it means only if it has an anchor to count
\* them from.
Anchored(rule) == rule # None /\ rule.kind = "every_n_weeks" => rule.anchor # None

SameMonth(d) == {e \in Calendar : MonthOf(e) = MonthOf(d)}

\* Of a rule that is Anchored.
Meant(rule, d) ==
    /\ rule # None
    /\ CASE rule.kind = "daily"    -> TRUE
         [] rule.kind = "weekdays" -> \E w \in rule.weekdays : (d - w) % 7 = 0
         [] rule.kind = "every_n_weeks" ->
               LET n == IF rule.n < 1 THEN 1 ELSE rule.n
               IN  \E k \in 0 .. d : d = Monday(rule.anchor) + rule.weekday + 7 * n * k
         [] rule.kind = "monthly_date" ->
               LET passed == Cardinality({e \in SameMonth(d) : e <= d})
               IN  passed = rule.day \/ (passed < rule.day /\ \A e \in SameMonth(d) : e <= d)
         [] rule.kind = "monthly_nth_weekday" ->
               LET same == {e \in SameMonth(d) : (e - rule.weekday) % 7 = 0}
               IN  /\ d \in same
                   /\ IF rule.n = -1 THEN \A e \in same : e <= d
                      ELSE Cardinality({e \in same : e <= d}) = rule.n

=============================================================================
