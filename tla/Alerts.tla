------------------------------- MODULE Alerts -------------------------------
(***************************************************************************)
(* The alert queue: recompute derives the alerts that hold now from the    *)
(* departure dates, the pending qualifications and the tasks waiting to be *)
(* carried over; operators dismiss, resolve or snooze them, or act on them *)
(* by moving the departure date or archiving the person                    *)
(* (app/services/alerts.py, app/routes/alerts.py, app/tk/commands.py).  It *)
(* composes with Personnel, whose rows it reads and, when an operator acts *)
(* on an alert, writes.                                                    *)
(*                                                                         *)
(* recompute runs when a page with alerts is opened: it reads what holds   *)
(* and what is open (Begin...), then inserts and resolves (Commit...).     *)
(* Writes of one row by its key that rest on nothing read are one action.  *)
(* Two inputs change by themselves: the deadlines of pending               *)
(* qualifications, and the backlog each worklist could carry over, which   *)
(* is PendingCarryOvers of module Worklists.                               *)
(***************************************************************************)
EXTENDS Personnel, FiniteSets, SequencesExt

CONSTANTS
    Lists,          \* worklists
    Deadlines,      \* the dates a deadline may be given
    SnoozeDays,     \* the dates an alert may be snoozed until
    MaxBacklog,     \* bound on the tasks a worklist has to carry over
    MaxAlerts,      \* bound on the rows of alerts
    WeekAhead, MonthAhead, TwoMonthsAhead, YearAhead    \* 7, 30, 60, 365

ASSUME AttributesHavePrd == "prd" \in Attributes /\ Values["prd"] \subseteq Int
ASSUME ListsAssumption == IsFiniteSet(Lists)
ASSUME DeadlinesAssumption == Deadlines \cup SnoozeDays \subseteq Days
ASSUME WindowsAssumption ==
    /\ {WeekAhead, MonthAhead, TwoMonthsAhead, YearAhead} \subseteq Nat
    /\ WeekAhead < MonthAhead
    /\ MonthAhead < TwoMonthsAhead
    /\ TwoMonthsAhead < YearAhead
ASSUME AlertsBoundsAssumption == MaxBacklog \in Nat /\ MaxAlerts \in Nat

VARIABLES
    deadlines,      \* <<person, date>>: a pending qualification falls due
    backlog,        \* what each open worklist has to carry over
    alerts          \* rows of alerts, by id

avars == <<vars, deadlines, backlog, alerts>>

PrdTypes == {"prd_passed", "prd_weekly_in_month", "prd_1mo", "prd_2mo",
             "prd_orders_window"}
Types == PrdTypes \cup {"qual_overdue", "qual_due_soon",
                        "worklist_carry_over_pending"}

AlertIds == DOMAIN alerts
OpenAlerts == {i \in AlertIds : alerts[i].state = "open"}
Identity(i) == [type |-> alerts[i].type, key |-> alerts[i].key]

\* The alerts about a person have the person first in their key.
AboutPerson == {i \in AlertIds : alerts[i].type # "worklist_carry_over_pending"}
PersonOf(i) == alerts[i].key[1]

-----------------------------------------------------------------------------
(* What holds: the conditions recompute walks through *)

PrdType(days) ==
    CASE days < 0                                    -> "prd_passed"
      [] days \in 0 .. WeekAhead                     -> "prd_weekly_in_month"
      [] days \in (WeekAhead + 1) .. MonthAhead      -> "prd_1mo"
      [] days \in (MonthAhead + 1) .. TwoMonthsAhead -> "prd_2mo"
      [] OTHER                                       -> "prd_orders_window"

\* _current_prd: the first open row.
CurrentPrds(h) == {h[i].value : i \in {j \in Open(h) : \A k \in Open(h) : j <= k}}

\* Of active persons, up to a year ahead.
PrdConditions(act, hs, day) ==
    {[type |-> PrdType(c[2] - day), key |-> c] :
        c \in {k \in (DOMAIN act) \X Values["prd"] :
                /\ act[k[1]]
                /\ k[2] \in CurrentPrds(hs[k[1]]["prd"])
                /\ k[2] - day <= YearAhead}}

\* Deadlines of archived persons count too.
QualConditions(day) ==
    {[type |-> IF c[2] < day THEN "qual_overdue" ELSE "qual_due_soon",
      key  |-> c] : c \in {d \in deadlines : d[2] - day <= MonthAhead}}

CarryConditions ==
    {[type |-> "worklist_carry_over_pending", key |-> <<w, backlog[w]>>] :
        w \in {x \in Lists : backlog[x] > 0}}

Conditions(act, hs, day) ==
    PrdConditions(act, hs, day) \cup QualConditions(day) \cup CarryConditions

-----------------------------------------------------------------------------
(* Reading: what a recompute will do *)

\* Mutant: _ensure_alert does not look.
MissingIgnoresOpen(conditions, acted) == conditions

\* _ensure_alert: the conditions no open alert stands for.  acted is the alert
\* the request itself resolves first.
MissingAlerts(conditions, acted) ==
    conditions \ {Identity(i) : i \in OpenAlerts \ acted}

\* _resolve_stale
StaleAlerts(conditions, acted) ==
    {i \in OpenAlerts \ acted : Identity(i) \notin conditions}

NoPlan == [a \in Attributes |-> Unchanged]

\* Mutant: recompute runs before the request's own changes are flushed.
RecomputingBeforeFlush(r, op, acted, p, plan) ==
    LET conditions == Conditions(active, hist, today) IN
    /\ req[r] = Idle
    /\ req' = [req EXCEPT ![r] =
                [op |-> op, person |-> p, eff |-> today, plan |-> plan,
                 resolves |-> acted \cup StaleAlerts(conditions, acted),
                 inserts |-> MissingAlerts(conditions, acted)]]
    /\ UNCHANGED <<active, hist, today, deadlines, backlog, alerts>>

\* A request that carries plan out for the person p (0: for nobody), resolves
\* the alerts acted, and recomputes.
BeginRecomputing(r, op, acted, p, plan) ==
    LET hs == IF p = 0 THEN hist
              ELSE [hist EXCEPT ![p] =
                      [a \in Attributes |-> Applied(hist[p][a], plan[a], today)]]
        act == IF op = "depart" THEN [active EXCEPT ![p] = FALSE] ELSE active
        conditions == Conditions(act, hs, today) IN
    /\ req[r] = Idle
    /\ req' = [req EXCEPT ![r] =
                [op |-> op, person |-> p, eff |-> today, plan |-> plan,
                 resolves |-> acted \cup StaleAlerts(conditions, acted),
                 inserts |-> MissingAlerts(conditions, acted)]]
    /\ UNCHANGED <<active, hist, today, deadlines, backlog, alerts>>

\* Opening the home page or the alerts page.
BeginRecompute(r) == BeginRecomputing(r, "recompute", {}, 0, NoPlan)

\* extend_prd and archive_person_from_alert take any alert about a person; the
\* page may be an old one.
BeginExtendPrd(r, i, date) == LET h == hist[PersonOf(i)]["prd"] IN
    \E cur \in 0 .. MaxRows :
        /\ IF CurrentRows(h) = {} THEN cur = 0 ELSE cur \in CurrentRows(h)
        /\ BeginRecomputing(r, "extend", {i}, PersonOf(i),
                [NoPlan EXCEPT !["prd"] = SetNewValue(h, cur, date)])

BeginArchiveFromAlert(r, i) == LET h == hist[PersonOf(i)]["roster"] IN
    \E cur \in CurrentRows(h) :
        BeginRecomputing(r, "depart", {i}, PersonOf(i),
            [NoPlan EXCEPT !["roster"] = SetNewValue(h, cur, Departed)])

-----------------------------------------------------------------------------
(* Writing *)

\* state is what the history page shows: a dismissed alert that is resolved as
\* well is "dismissed".  snoozed is only kept while it is open.
NewAlert(c) == [type |-> c.type, key |-> c.key, state |-> "open", snoozed |-> None]

Closed(i, state) == [type |-> alerts[i].type, key |-> alerts[i].key,
                     state |-> state, snoozed |-> None]

Resolved(i) ==
    Closed(i, IF alerts[i].state = "dismissed" THEN "dismissed" ELSE "resolved")

CommitRecompute(r) == LET q == req[r] IN
    /\ q.op \in {"recompute", "extend", "depart"}
    /\ Len(alerts) + Cardinality(q.inserts) <= MaxAlerts
    /\ alerts' = [i \in AlertIds |->
                    IF i \in q.resolves THEN Resolved(i) ELSE alerts[i]]
                 \o SetToSeq({NewAlert(c) : c \in q.inserts})
    /\ IF q.person = 0 THEN UNCHANGED <<active, hist>>
       ELSE /\ \A a \in Attributes : q.plan[a] # Unchanged =>
                    Len(hist[q.person][a]) < MaxRows
            /\ hist' = [hist EXCEPT ![q.person] =
                    [a \in Attributes |-> Applied(hist[q.person][a], q.plan[a], q.eff)]]
            /\ active' = IF q.op = "depart"
                         THEN [active EXCEPT ![q.person] = FALSE] ELSE active
    /\ req' = [req EXCEPT ![r] = Idle]
    /\ UNCHANGED <<today, deadlines, backlog>>

\* A row of the alert i is written by its key.
WriteAlert(r, i, row) ==
    /\ req[r] = Idle
    /\ alerts' = [alerts EXCEPT ![i] = row]
    /\ UNCHANGED <<vars, deadlines, backlog>>

DismissAlert(r, i) == WriteAlert(r, i, Closed(i, "dismissed"))
ResolveAlert(r, i) == WriteAlert(r, i, Resolved(i))

\* Mutant: a closed alert that is snoozed comes back.
SnoozeReopens(r, i, until) ==
    WriteAlert(r, i, [alerts[i] EXCEPT !.snoozed = until, !.state = "open"])

SnoozeAlert(r, i, until) ==
    WriteAlert(r, i, IF i \in OpenAlerts THEN [alerts[i] EXCEPT !.snoozed = until]
                     ELSE alerts[i])

\* A qualification is assigned, achieved, waived, or its deadline moved.
QualsChange(r, p, due) ==
    /\ req[r] = Idle
    /\ deadlines' = IF <<p, due>> \in deadlines THEN deadlines \ {<<p, due>>}
                    ELSE deadlines \cup {<<p, due>>}
    /\ UNCHANGED <<vars, backlog, alerts>>

\* Worklists are created, locked and carried over (module Worklists).
WorklistsChange(r, w, n) ==
    /\ req[r] = Idle
    /\ backlog' = [backlog EXCEPT ![w] = n]
    /\ UNCHANGED <<vars, deadlines, alerts>>

AlertRequest(r) ==
    \/ BeginRecompute(r)
    \/ \E i \in AboutPerson, date \in FormValues["prd"] : BeginExtendPrd(r, i, date)
    \/ \E i \in AboutPerson : BeginArchiveFromAlert(r, i)
    \/ CommitRecompute(r)
    \/ \E i \in AlertIds : DismissAlert(r, i) \/ ResolveAlert(r, i)
    \/ \E i \in AlertIds, until \in SnoozeDays : SnoozeAlert(r, i, until)

AlertsInit ==
    /\ Init
    /\ deadlines = {}
    /\ backlog = [w \in Lists |-> 0]
    /\ alerts = <<>>

AlertsNext ==
    \/ \E r \in Requests :
        \/ PersonnelRequest(r) /\ UNCHANGED <<deadlines, backlog, alerts>>
        \/ Rollback(r) /\ UNCHANGED <<deadlines, backlog, alerts>>
        \/ AlertRequest(r)
        \/ \E p \in Persons, due \in Deadlines : QualsChange(r, p, due)
        \/ \E w \in Lists, n \in 0 .. MaxBacklog : WorklistsChange(r, w, n)
    \/ NextDay /\ UNCHANGED <<deadlines, backlog, alerts>>

AlertsSpec == AlertsInit /\ [][AlertsNext]_avars

-----------------------------------------------------------------------------
(* Properties, with one request at a time *)

\* "Deduplicated by (alert_type, person_id, payload-key)": two open alerts never
\* stand for the same thing, whatever is dismissed, acted on or redated; and a
\* departure date is announced once: as it draws near, or is moved, the old alert
\* makes way for the new one (_ensure_alert, _resolve_stale).
OneOpenPerCondition ==
    \A i, j \in OpenAlerts :
        \/ Identity(i) = Identity(j)
        \/ /\ {alerts[i].type, alerts[j].type} \subseteq PrdTypes
           /\ PersonOf(i) = PersonOf(j)
        => i = j

\* When a request has recomputed, the queue shows what holds of the data as that
\* same request leaves it, no more and no less, except what is snoozed: a snooze
\* outlives the recomputing, and ends when its alert is acted on.
Visible(i) == i \in OpenAlerts /\ (alerts[i].snoozed = None \/ alerts[i].snoozed <= today)
QueueIsCurrent ==
    [][\A r \in Requests : LET q == req[r] IN
        q.op \in {"recompute", "extend", "depart"} /\ alerts' # alerts =>
            {Identity(i) : i \in {j \in AlertIds : Visible(j)}}'
                = Conditions(active', hist', q.eff)
                  \ {Identity(i) : i \in {j \in OpenAlerts \ q.resolves : ~Visible(j)}}]_avars

\* "Resolved ones ... stay in history": a closed alert never opens again, and
\* what it was about never changes.
ClosedStaysClosed ==
    [][\A i \in AlertIds :
        /\ i \in AlertIds'
        /\ Identity(i)' = Identity(i)
        /\ i \notin OpenAlerts => i \notin OpenAlerts']_avars

=============================================================================
