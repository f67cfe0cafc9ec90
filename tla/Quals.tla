------------------------------- MODULE Quals -------------------------------
(***************************************************************************)
(* Qualifications, who has them, and the pages that count them             *)
(* (app/routes/quals.py, app/services/qual_overview.py, and the commands   *)
(* and queries of app/tk for the same).                                    *)
(*                                                                         *)
(* A row of person_quals is open until the next one closes it.  A slot is  *)
(* a form that somebody has before him: Begin... is the last thing that    *)
(* is read for it, Commit... what is written when it is sent.  Effective   *)
(* dates (module Personnel), expiry, names and notes are left out; of a    *)
(* deadline, only whether there is one.  No handler archives a row of      *)
(* person_quals.                                                           *)
(***************************************************************************)
EXTENDS Absences, SequencesExt

CONSTANTS
    Forms,          \* slots: forms open at the same time
    Catalog,        \* ids a qualification may get
    Statuses,       \* "qualified", "waived" and those that are pending
    Threshold,      \* this many qualified people are enough
    MaxRows         \* bound on the rows of person_quals

ASSUME QualsAssumption ==
    /\ "qualified" \in Statuses /\ "-" \notin Statuses
    /\ IsFiniteSet(Catalog)
    /\ Threshold \in Nat /\ MaxRows \in Nat

VARIABLES
    catalog,        \* by id: "none", "active" or "archived"
    held,           \* rows of person_quals, by id
    form            \* what each slot has before it

qualVars == <<catalog, held, form>>

\* via: the program that wrote the row.
PersonQual == [person : Persons, qual : Catalog, status : Statuses, due : BOOLEAN,
               open : BOOLEAN, via : {"web", "tk"}]

Blank == [op |-> "none"]

Form == {Blank} \cup [op : {"assign"}, person : Persons, choices : SUBSET Catalog]
                \cup [op : {"update"}, id : Nat]

HeldIds == DOMAIN held
Settled == {"qualified", "waived"}

-----------------------------------------------------------------------------
(* The catalog *)

QualsInit ==
    /\ catalog = [q \in Catalog |-> "none"]
    /\ held = <<>>
    /\ form = [f \in Forms |-> Blank]

CreateQual(q) ==
    /\ catalog[q] = "none"
    /\ catalog' = [catalog EXCEPT ![q] = "active"]
    /\ UNCHANGED <<held, form>>

\* The rows of those who have it stay.
ArchiveQual(q) ==
    /\ catalog[q] = "active"
    /\ catalog' = [catalog EXCEPT ![q] = "archived"]
    /\ UNCHANGED <<held, form>>

ActiveQuals == {q \in Catalog : catalog[q] = "active"}

-----------------------------------------------------------------------------
(* Who has what *)

Open(p, q) == {i \in HeldIds : held[i].open /\ held[i].person = p /\ held[i].qual = q}

\* The form offers what the person does not have.
Offered(p) == {q \in ActiveQuals : Open(p, q) = {}}

\* Mutant: the form offers every qualification there is.
AssignOfferingAll(f, p) ==
    /\ form[f] = Blank
    /\ ActiveQuals # {}
    /\ form' = [form EXCEPT ![f] = [op |-> "assign", person |-> p, choices |-> ActiveQuals]]
    /\ UNCHANGED <<catalog, held>>

\* (One that offers nothing cannot be sent.)
BeginAssign(f, p) ==
    /\ form[f] = Blank
    /\ Offered(p) # {}
    /\ form' = [form EXCEPT ![f] = [op |-> "assign", person |-> p, choices |-> Offered(p)]]
    /\ UNCHANGED <<catalog, held>>

Row(p, q, status, due, via) ==
    [person |-> p, qual |-> q, status |-> status, due |-> due, open |-> TRUE, via |-> via]

\* The web form has no deadline; what is sent is not compared with what the person
\* has got meanwhile.
CommitAssignWeb(f, Q, status) ==
    /\ form[f].op = "assign"
    /\ Q # {} /\ Q \subseteq form[f].choices
    /\ Len(held) + Cardinality(Q) <= MaxRows
    /\ held' = held \o [i \in 1 .. Cardinality(Q) |->
                           Row(form[f].person, SetToSeq(Q)[i], status, FALSE, "web")]
    /\ form' = [form EXCEPT ![f] = Blank]
    /\ UNCHANGED catalog

\* In Tk a qualification that is pending must have one.
CommitAssignTk(f, Q, status) ==
    /\ form[f].op = "assign"
    /\ Q # {} /\ Q \subseteq form[f].choices
    /\ Len(held) + Cardinality(Q) <= MaxRows
    /\ held' = held \o [i \in 1 .. Cardinality(Q) |->
                           Row(form[f].person, SetToSeq(Q)[i], status,
                               status \notin Settled, "tk")]
    /\ form' = [form EXCEPT ![f] = Blank]
    /\ UNCHANGED catalog

\* A row that is closed is not edited.
BeginUpdate(f, i) ==
    /\ form[f] = Blank
    /\ held[i].open
    /\ form' = [form EXCEPT ![f] = [op |-> "update", id |-> i]]
    /\ UNCHANGED <<catalog, held>>

Closed(row) ==
    [person |-> row.person, qual |-> row.qual, status |-> row.status, due |-> row.due,
     open |-> FALSE, via |-> row.via]

Replace(f, i, status, due, via) ==
    /\ Len(held) < MaxRows
    /\ held' = Append([held EXCEPT ![i] = Closed(held[i])],
                      Row(held[i].person, held[i].qual, status, due, via))
    /\ form' = [form EXCEPT ![f] = Blank]
    /\ UNCHANGED catalog

\* The new row of the web form has no deadline, whatever the old one had.
CommitUpdateWeb(f, status) ==
    /\ form[f].op = "update"
    /\ Replace(f, form[f].id, status, FALSE, "web")

\* Mutant: a deadline that is not entered again is gone.
UpdateTkAsEntered(f, status, due) ==
    /\ form[f].op = "update"
    /\ Replace(f, form[f].id, status, due /\ status \notin Settled, "tk")

\* Tk carries the deadline forward, and clears it when there is nothing left to do.
CommitUpdateTk(f, status, due) ==
    /\ form[f].op = "update"
    /\ Replace(f, form[f].id, status,
               (due \/ held[form[f].id].due) /\ status \notin Settled, "tk")

CloseForm(f) ==
    /\ form[f] # Blank
    /\ form' = [form EXCEPT ![f] = Blank]
    /\ UNCHANGED <<catalog, held>>

QualsNext ==
    \/ \E q \in Catalog : CreateQual(q) \/ ArchiveQual(q)
    \/ \E f \in Forms :
          \/ \E p \in Persons : BeginAssign(f, p)
          \/ \E Q \in SUBSET Catalog, status \in Statuses :
                CommitAssignWeb(f, Q, status) \/ CommitAssignTk(f, Q, status)
          \/ \E i \in HeldIds : BeginUpdate(f, i)
          \/ \E status \in Statuses :
                \/ CommitUpdateWeb(f, status)
                \/ \E due \in BOOLEAN : CommitUpdateTk(f, status, due)
          \/ CloseForm(f)

-----------------------------------------------------------------------------
(* Pages *)

\* The matrix, and the lookup of the suggestions: of several open rows the one
\* that is read last stands.
Cell(p, q) ==
    LET S == Open(p, q)
    IN  IF S = {} THEN "-" ELSE held[CHOOSE i \in S : \A j \in S : j <= i].status

Counted(q, status, whose) ==
    Cardinality({i \in HeldIds : /\ held[i].open
                                 /\ held[i].qual = q
                                 /\ held[i].status = status
                                 /\ held[i].person \in whose})

\* The catalog page counts rows, those of people who have left included.
CatalogCount(q, status) == Counted(q, status, Persons)

\* Mutant: the overview forgets to look at whose row it is.
OverviewOfAll(q, status) == Counted(q, status, Persons)

\* The overview counts the rows of people who are here.
OverviewCount(q, status) == Counted(q, status, Roll)

Gap(q) == OverviewCount(q, "qualified") < Threshold

=============================================================================
