----------------------------- MODULE Personnel -----------------------------
(***************************************************************************)
(* Persons and their effective-dated attributes: rate, duty section,       *)
(* planned departure date (PRD), roster status, driver's licence           *)
(* (app/services/effective.py; app/routes/personnel.py and the same        *)
(* handlers in app/tk/commands.py).                                        *)
(*                                                                         *)
(* An attribute is never overwritten: set_new_value closes the current row *)
(* at the effective date, which the edit form may put in the past or the   *)
(* future, and inserts a new one with no valid_to.  No index says that one *)
(* row of a history is open: only the order of reading and writing does.   *)
(* The five tables are one function here, hist, from persons and           *)
(* attributes to the rows in the order they were inserted.                 *)
(*                                                                         *)
(* As in Worklists, Begin... reads and Commit writes.  Names, notes and    *)
(* the arrival checklist, plain columns of the person, are left out.       *)
(***************************************************************************)
EXTENDS Integers, Sequences

CONSTANTS
    Requests,       \* slots for requests being served at the same time
    Attributes,     \* the attributes modelled
    Values,         \* the values of each attribute
    Active, Incoming, Departed,     \* roster statuses
    Days,           \* dates, as numbers
    FormValues,     \* the values of each attribute a form may send
    FormDays,       \* the effective dates a form may send
    MaxPersons,     \* bound on the persons
    MaxRows,        \* bound on the rows of one history
    None            \* SQL NULL; an empty form field

AllAttributes == {"rate", "duty", "prd", "roster", "licence"}

ASSUME AttributesAssumption ==
    /\ Attributes \subseteq AllAttributes
    /\ "roster" \in Attributes
ASSUME ValuesAssumption ==
    /\ DOMAIN Values = Attributes
    /\ {Active, Incoming, Departed} \subseteq Values["roster"]
    /\ \A a \in Attributes : None \notin Values[a]
ASSUME FormsAssumption ==
    /\ DOMAIN FormValues = Attributes
    /\ \A a \in Attributes : FormValues[a] \subseteq Values[a]
    /\ FormDays \subseteq Days
ASSUME DaysAssumption == Days \subseteq Nat /\ 0 \in Days /\ None \notin Days
ASSUME PersonnelBoundsAssumption == MaxPersons \in Nat /\ MaxRows \in Nat

VARIABLES
    active,         \* active[p]: the person p, not archived
    hist,           \* hist[p][a]: the rows of attribute a of person p
    today,          \* the date
    req             \* what each request slot has read so far

vars == <<active, hist, today, req>>

Persons == DOMAIN active

\* The edit form sends a status and a licence every time; the other fields may
\* be left empty, which leaves the attribute alone.
Always == {"roster", "licence"} \cap Attributes

AnyValue == UNION {Values[a] : a \in Attributes}
Row == [value : AnyValue, from : Days, to : Days \cup {None}]

\* What set_new_value decided for an attribute: nothing, or to close the row it
\* read as current (0 when there was none) and insert one with the value.
Unchanged == [close |-> 0, value |-> None]
Plan == {Unchanged} \cup [close : Nat, value : AnyValue]

Idle == [op |-> "idle"]
Request == {Idle} \cup
    [op : {"create", "edit", "archive"}, person : Nat, eff : Days,
     plan : [Attributes -> Plan]]

\* A form: a value for each attribute, or None.
Forms == {f \in [Attributes -> AnyValue \cup {None}] :
            \A a \in Attributes : \/ f[a] \in FormValues[a]
                                  \/ f[a] = None /\ a \notin Always}

\* The form that only sets the roster status.
RosterOnly(status) ==
    [a \in Attributes |-> IF a = "roster" THEN status ELSE None]

-----------------------------------------------------------------------------
(* services/effective.py *)

\* The rows current_row may return: open, the latest valid_from first.
CurrentRows(h) ==
    {i \in DOMAIN h : /\ h[i].to = None
                      /\ \A j \in DOMAIN h : h[j].to = None => h[j].from <= h[i].from}

\* Mutant: an edit form that is submitted unchanged adds a row.
SetNewValueAlways(h, cur, v) == [close |-> cur, value |-> v]

\* What set_new_value(v) decides, having read the row cur: no-op if that is the
\* value already.
SetNewValue(h, cur, v) ==
    IF cur \in DOMAIN h /\ h[cur].value = v THEN Unchanged
    ELSE [close |-> cur, value |-> v]

\* Mutant: the current row takes the new value.
AppliedInPlace(h, plan, eff) ==
    CASE plan = Unchanged -> h
      [] plan # Unchanged /\ plan.close \in DOMAIN h ->
            [h EXCEPT ![plan.close].value = plan.value]
      [] OTHER -> Append(h, [value |-> plan.value, from |-> eff, to |-> None])

\* Mutant: the new row starts closed when it is dated before the old one.
AppliedInDateOrder(h, plan, eff) ==
    IF plan = Unchanged THEN h
    ELSE [i \in DOMAIN h |->
            IF i = plan.close THEN [h[i] EXCEPT !.to = eff] ELSE h[i]]
         \o <<[value |-> plan.value, from |-> eff,
               to |-> IF plan.close \in DOMAIN h /\ h[plan.close].from > eff
                      THEN h[plan.close].from ELSE None]>>

\* Mutant: the current row is closed on the day it began.
AppliedClosingAtStart(h, plan, eff) ==
    IF plan = Unchanged THEN h
    ELSE [i \in DOMAIN h |->
            IF i = plan.close THEN [h[i] EXCEPT !.to = h[i].from] ELSE h[i]]
         \o <<[value |-> plan.value, from |-> eff, to |-> None]>>

\* The history h once the plan is carried out.
Applied(h, plan, eff) ==
    IF plan = Unchanged THEN h
    ELSE [i \in DOMAIN h |->
            IF i = plan.close THEN [h[i] EXCEPT !.to = eff] ELSE h[i]]
         \o <<[value |-> plan.value, from |-> eff, to |-> None]>>

-----------------------------------------------------------------------------
(* Requests *)

Init ==
    /\ active = <<>>
    /\ hist = <<>>
    /\ today = 0
    /\ req = [r \in Requests |-> Idle]

Begin(r, q) ==
    /\ req[r] = Idle
    /\ req' = [req EXCEPT ![r] = q]
    /\ UNCHANGED <<active, hist, today>>

\* create_person inserts what the form gives.
BeginCreatePerson(r, form) ==
    Begin(r, [op |-> "create", person |-> 0, eff |-> today,
              plan |-> [a \in Attributes |-> [close |-> 0, value |-> form[a]]]])

\* create_incoming: a rate if given, and the status Incoming.
BeginCreateIncoming(r, form) ==
    BeginCreatePerson(r, [a \in Attributes |->
        CASE a = "roster" -> Incoming [] a = "rate" -> form[a] [] OTHER -> None])

\* set_new_value for each attribute the form gives.
BeginEdit(r, op, p, form, eff) ==
    \E cur \in [Attributes -> 0 .. MaxRows] :
        /\ \A a \in Attributes :
              IF form[a] = None \/ CurrentRows(hist[p][a]) = {}
              THEN cur[a] = 0
              ELSE cur[a] \in CurrentRows(hist[p][a])
        /\ Begin(r, [op |-> op, person |-> p, eff |-> eff,
                     plan |-> [a \in Attributes |->
                        IF form[a] = None THEN Unchanged
                        ELSE SetNewValue(hist[p][a], cur[a], form[a])]])

\* The date of the edit is the operator's choice.
BeginUpdatePerson(r, p, form, eff) == BeginEdit(r, "edit", p, form, eff)

\* Neither asks whether the person is archived.
BeginMarkArrived(r, p) == BeginEdit(r, "edit", p, RosterOnly(Active), today)
BeginArchivePerson(r, p) == BeginEdit(r, "archive", p, RosterOnly(Departed), today)

CommitCreate(r) == LET q == req[r] IN
    /\ q.op = "create"
    /\ Len(active) < MaxPersons
    /\ active' = Append(active, TRUE)
    /\ hist' = Append(hist, [a \in Attributes |-> Applied(<<>>, q.plan[a], q.eff)])
    /\ req' = [req EXCEPT ![r] = Idle]
    /\ UNCHANGED today

CommitEdit(r) == LET q == req[r] IN
    /\ q.op \in {"edit", "archive"}
    /\ \A a \in Attributes : q.plan[a] # Unchanged => Len(hist[q.person][a]) < MaxRows
    /\ active' = IF q.op = "archive" THEN [active EXCEPT ![q.person] = FALSE] ELSE active
    /\ hist' = [hist EXCEPT ![q.person] =
                    [a \in Attributes |-> Applied(hist[q.person][a], q.plan[a], q.eff)]]
    /\ req' = [req EXCEPT ![r] = Idle]
    /\ UNCHANGED today

\* The request dies, and its session is rolled back.
Rollback(r) ==
    /\ req[r] # Idle
    /\ req' = [req EXCEPT ![r] = Idle]
    /\ UNCHANGED <<active, hist, today>>

\* The calendar moves on.
NextDay ==
    /\ today + 1 \in Days
    /\ today' = today + 1
    /\ UNCHANGED <<active, hist, req>>

PersonnelRequest(r) ==
    \/ \E form \in Forms : BeginCreatePerson(r, form)
    \/ \E form \in Forms : BeginCreateIncoming(r, form)
    \/ \E p \in Persons, form \in Forms, eff \in FormDays : BeginUpdatePerson(r, p, form, eff)
    \/ \E p \in Persons : BeginMarkArrived(r, p)
    \/ \E p \in Persons : BeginArchivePerson(r, p)
    \/ CommitCreate(r)
    \/ CommitEdit(r)

Next ==
    \/ \E r \in Requests : PersonnelRequest(r) \/ Rollback(r)
    \/ NextDay

Spec == Init /\ [][Next]_vars

-----------------------------------------------------------------------------
(* Properties *)

TypeOK ==
    /\ active \in Seq(BOOLEAN)
    /\ hist \in Seq([Attributes -> Seq(Row)])
    /\ today \in Days
    /\ req \in [Requests -> Request]
    /\ Len(hist) = Len(active)

Open(h) == {i \in DOMAIN h : h[i].to = None}

\* However requests interleave and whatever dates they carry, an attribute once
\* set is never left without a value: closing a row always brings a new one.
AlwaysCurrent ==
    \A p \in Persons, a \in Attributes : hist[p][a] # <<>> => Open(hist[p][a]) # {}

\* "We never silently mutate prior values": rows are only added, their value
\* and valid_from stay, and a closed row never opens again.
PriorValuesKept ==
    [][\A p \in Persons, a \in Attributes :
        /\ Len(hist[p][a]) <= Len(hist'[p][a])
        /\ \A i \in DOMAIN hist[p][a] : LET old == hist[p][a][i]
                                            new == hist'[p][a][i] IN
            /\ new.value = old.value
            /\ new.from = old.from
            /\ old.to # None => new.to # None]_vars

\* "The currently active row has valid_to = NULL": there is one such row.  With
\* two requests interleaved, both may close the row they read and insert one.
OneCurrent ==
    \A p \in Persons, a \in Attributes :
        \A i, j \in Open(hist[p][a]) : i = j

\* With one request at a time a history is a chain: each row ends on the very
\* date its successor starts, even when edits are dated out of order, and the
\* last row is the open one.
Chained ==
    \A p \in Persons, a \in Attributes : LET h == hist[p][a] IN
        \A i \in DOMAIN h : h[i].to = IF i = Len(h) THEN None ELSE h[i + 1].from

EntriesOf(h) == [i \in DOMAIN h |-> [value |-> h[i].value, from |-> h[i].from]]

CurrentValue(h) ==
    IF CurrentRows(h) = {} THEN None ELSE h[CHOOSE i \in CurrentRows(h) : TRUE].value

\* What was set, in the order it was set, and the values that pages show.
Entries == [p \in Persons |-> [a \in Attributes |-> EntriesOf(hist[p][a])]]
Shown == [p \in Persons |-> [a \in Attributes |-> CurrentValue(hist[p][a])]]

Journaled == INSTANCE Journal WITH
    Values <- AnyValue, log <- Entries, current <- Shown

\* With one request at a time, histories are a journal: a step notes what is said of
\* one person, after what was noted before, and only if it is new; and what is shown
\* is what was noted last, whatever date it was given (set_new_value, current_row).
KeepsJournal == Journaled!Spec

=============================================================================
