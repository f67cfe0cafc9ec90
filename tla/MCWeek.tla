------------------------------- MODULE MCWeek -------------------------------
(* Instances of Week for TLC: January to March of 2024, a leap year that began   *)
(* on a Monday.                                                                  *)
EXTENDS Week

LeapYear == <<31, 29, 31>>

\* The week in which February ends and the one after.
LeapWeek == {56}

Blank == [kind |-> "none", weekdays |-> {}, n |-> None, weekday |-> None, day |-> None,
          anchor |-> None]

\* Each kind of rule but the daily one, which puts seven tasks in every worklist.
SomeForms ==
    {Blank,
     [Blank EXCEPT !.kind = "weekdays", !.weekdays = {0, 5}],
     [Blank EXCEPT !.kind = "every_n_weeks", !.weekday = 2, !.anchor = 3],
     [Blank EXCEPT !.kind = "every_n_weeks", !.weekday = 2, !.n = 3],
     [Blank EXCEPT !.kind = "every_n_weeks", !.n = 0, !.anchor = 30],
     [Blank EXCEPT !.kind = "monthly_date"],
     [Blank EXCEPT !.kind = "monthly_date", !.day = 31],
     [Blank EXCEPT !.kind = "monthly_nth_weekday", !.weekday = 3, !.n = 5],
     [Blank EXCEPT !.kind = "monthly_nth_weekday", !.weekday = 6, !.n = -1]}

\* No day, the Saturday, and the Monday after.
SomeDays(m) == {None, m + 5, m + 7}

=============================================================================
