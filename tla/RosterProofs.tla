----------------------------- MODULE RosterProofs -----------------------------
(***************************************************************************)
(* Qualifications and absences.  For any number of forms open at the same  *)
(* time: the tables keep their shape, a deadline is lost only where the    *)
(* web form or a settled row lets it be, and report and calendar agree on  *)
(* whoever has no absences that overlap.  With one form at a time: of      *)
(* every qualification a person has one current row, the pages count       *)
(* alike, and who is suggested for a task fits.                            *)
(***************************************************************************)
EXTENDS Roster, FiniteSetTheorems, TLAPS

-----------------------------------------------------------------------------
(* Tables as sequences *)

LEMMA RowType ==
    ASSUME NEW T, NEW s \in Seq(T), NEW i \in DOMAIN s
    PROVE  s[i] \in T
OBVIOUS

LEMMA Overwritten ==
    ASSUME NEW T, NEW s \in Seq(T), NEW i \in DOMAIN s, NEW x \in T
    PROVE  LET t == [s EXCEPT ![i] = x]
           IN  /\ t \in Seq(T)
               /\ DOMAIN t = DOMAIN s
               /\ Len(t) = Len(s)
               /\ t[i] = x
               /\ \A j \in DOMAIN s \ {i} : t[j] = s[j]
OBVIOUS

LEMMA Appended ==
    ASSUME NEW T, NEW s \in Seq(T), NEW x \in T
    PROVE  /\ Append(s, x) \in Seq(T)
           /\ Len(s) + 1 \in Nat
           /\ \A i \in DOMAIN s : i \in Nat /\ i < Len(s) + 1
           /\ DOMAIN Append(s, x) = DOMAIN s \cup {Len(s) + 1}
           /\ Append(s, x)[Len(s) + 1] = x
           /\ \A i \in DOMAIN s : Append(s, x)[i] = s[i]
<1>1. DOMAIN s = 1 .. Len(s) /\ Len(s) \in Nat
  OBVIOUS
<1>2. Append(s, x) \in Seq(T) /\ DOMAIN Append(s, x) = 1 .. Len(s) + 1
  OBVIOUS
<1>3. 1 .. Len(s) + 1 = (1 .. Len(s)) \cup {Len(s) + 1}
  BY <1>1
<1> QED
  BY <1>1, <1>2, <1>3

LEMMA Joined ==
    ASSUME NEW T, NEW s \in Seq(T), NEW n \in Nat, NEW t \in [1 .. n -> T]
    PROVE  /\ s \o t \in Seq(T)
           /\ Len(s) \in Nat
           /\ DOMAIN s = 1 .. Len(s)
           /\ DOMAIN (s \o t) = 1 .. Len(s) + n
           /\ \A i \in DOMAIN s : (s \o t)[i] = s[i]
           /\ \A i \in 1 .. n : (s \o t)[Len(s) + i] = t[i]
<1>1. t \in Seq(T) /\ Len(t) = n
  OBVIOUS
<1> QED
  BY <1>1

\* The qualifications that were ticked, one after the other.
LEMMA Listed ==
    ASSUME NEW Q \in SUBSET Catalog
    PROVE  /\ Cardinality(Q) \in Nat
           /\ SetToSeq(Q) \in [1 .. Cardinality(Q) -> Q]
           /\ \A i, j \in 1 .. Cardinality(Q) : SetToSeq(Q)[i] = SetToSeq(Q)[j] => i = j
<1>1. IsFiniteSet(Q)
  BY QualsAssumption, FS_Subset
<1>2. Cardinality(Q) \in Nat /\ ExistsBijection(1 .. Cardinality(Q), Q)
  BY <1>1, FS_CardinalityType
<1>3. \E f \in [1 .. Cardinality(Q) -> Q] : IsInjective(f)
  BY <1>2 DEF ExistsBijection, Bijection, Injection
<1>4. SetToSeq(Q) \in [1 .. Cardinality(Q) -> Q] /\ IsInjective(SetToSeq(Q))
  BY <1>3 DEF SetToSeq
<1> QED
  BY <1>2, <1>4 DEF IsInjective

-----------------------------------------------------------------------------
(* What the handlers write *)

\* A form in which qualifications are ticked.
LEMMA AssignForm ==
    ASSUME TypeOK, NEW f \in Forms, form[f].op = "assign"
    PROVE  form[f].person \in Persons /\ form[f].choices \in SUBSET Catalog
BY DEF TypeOK, Form, Blank

\* The rows an assignment adds, with status and deadline as they may be.
LEMMA Assigned ==
    ASSUME TypeOK, NEW f \in Forms, form[f].op = "assign",
           NEW Q \in SUBSET Catalog, NEW status \in Statuses,
           NEW due \in BOOLEAN, NEW via \in {"web", "tk"},
           held' = held \o [i \in 1 .. Cardinality(Q) |->
                               Row(form[f].person, SetToSeq(Q)[i], status, due, via)]
    PROVE  LET n == Len(held)
               m == Cardinality(Q)
           IN  /\ n \in Nat /\ m \in Nat
               /\ HeldIds = 1 .. n /\ HeldIds' = 1 .. n + m
               /\ held' \in Seq(PersonQual)
               /\ \A i \in HeldIds : held'[i] = held[i]
               /\ \A i \in 1 .. m :
                     held'[n + i] = Row(form[f].person, SetToSeq(Q)[i], status, due, via)
<1> DEFINE m == Cardinality(Q)
           t == [i \in 1 .. m |-> Row(form[f].person, SetToSeq(Q)[i], status, due, via)]
<1>1. m \in Nat /\ \A i \in 1 .. m : SetToSeq(Q)[i] \in Catalog
  BY Listed
<1>2. form[f].person \in Persons
  BY AssignForm
<1>3. \A i \in 1 .. m :
          Row(form[f].person, SetToSeq(Q)[i], status, due, via) \in PersonQual
  BY <1>1, <1>2 DEF Row, PersonQual
<1>4. t \in [1 .. m -> PersonQual]
  BY <1>3
<1>5. held \in Seq(PersonQual)
  BY DEF TypeOK
<1>6. PICK n \in Nat, rows \in [1 .. m -> PersonQual] : n = m /\ rows = t
  BY <1>1, <1>4
<1>7. rows \in [1 .. n -> PersonQual]
  BY <1>6
<1>8. held' = held \o rows
  BY <1>6
<1> HIDE DEF m, t
<1>9. /\ held \o rows \in Seq(PersonQual)
      /\ Len(held) \in Nat
      /\ DOMAIN held = 1 .. Len(held)
      /\ DOMAIN (held \o rows) = 1 .. Len(held) + n
      /\ \A i \in DOMAIN held : (held \o rows)[i] = held[i]
      /\ \A i \in 1 .. n : (held \o rows)[Len(held) + i] = rows[i]
  BY <1>5, <1>7, Joined
<1>10. \A i \in 1 .. n :
          rows[i] = Row(form[f].person, SetToSeq(Q)[i], status, due, via)
  BY <1>6 DEF t
<1> QED
  BY <1>6, <1>8, <1>9, <1>10 DEF HeldIds, m

\* An update closes the row of the form and adds its successor.
LEMMA Updated ==
    ASSUME TypeOK, NEW f \in Forms, form[f].op = "update",
           NEW status \in Statuses, NEW due \in BOOLEAN, NEW via \in {"web", "tk"},
           Replace(f, form[f].id, status, due, via)
    PROVE  LET i == form[f].id
               new == Len(held) + 1
           IN  /\ i \in HeldIds
               /\ new \in Nat /\ \A j \in HeldIds : j \in Nat /\ j < new
               /\ HeldIds' = HeldIds \cup {new}
               /\ held' \in Seq(PersonQual)
               /\ held'[i] = Closed(held[i])
               /\ \A j \in HeldIds \ {i} : held'[j] = held[j]
               /\ held'[new] = Row(held[i].person, held[i].qual, status, due, via)
<1> DEFINE i == form[f].id
           new == Len(held) + 1
           t == [held EXCEPT ![i] = Closed(held[i])]
           x == Row(held[i].person, held[i].qual, status, due, via)
<1>1. i \in HeldIds /\ held \in Seq(PersonQual)
  BY DEF TypeOK
<1>2. held[i] \in PersonQual
  BY <1>1, RowType DEF HeldIds
<1>3. /\ held[i].person \in Persons
      /\ held[i].qual \in Catalog
      /\ held[i].status \in Statuses
      /\ held[i].due \in BOOLEAN
      /\ held[i].via \in {"web", "tk"}
  BY <1>2 DEF PersonQual
<1>4. Closed(held[i]) \in PersonQual
  BY <1>3 DEF Closed, PersonQual
<1>5. x \in PersonQual
  BY <1>3 DEF Row, PersonQual
<1>6. /\ t \in Seq(PersonQual)
      /\ DOMAIN t = HeldIds
      /\ Len(t) = Len(held)
      /\ t[i] = Closed(held[i])
      /\ \A j \in HeldIds \ {i} : t[j] = held[j]
  BY <1>1, <1>4, Overwritten DEF HeldIds
<1>7. held' = Append(t, x)
  BY DEF Replace
<1> HIDE DEF t, x
<1>8. /\ held' \in Seq(PersonQual)
      /\ new \in Nat
      /\ \A j \in HeldIds : j \in Nat /\ j < new
      /\ DOMAIN held' = HeldIds \cup {new}
      /\ held'[new] = x
      /\ \A j \in HeldIds : held'[j] = t[j]
  BY <1>5, <1>6, <1>7, Appended
<1> QED
  BY <1>1, <1>6, <1>8 DEF HeldIds, x

-----------------------------------------------------------------------------
(* For any number of forms *)

\* A deadline that is missing has a reason among the rows of the same person and
\* qualification, whether the row is still open or not.
Excused(i) ==
    \E j \in HeldIds : /\ held[j].via = "web" \/ held[j].status \in Settled
                       /\ held[j].person = held[i].person
                       /\ held[j].qual = held[i].qual

DeadlinesExcused ==
    \A i \in HeldIds : held[i].status \notin Settled /\ ~held[i].due => Excused(i)

IInv == TypeOK /\ DeadlinesExcused

LEMMA InitKeeps == Init => IInv
<1> SUFFICES ASSUME Init PROVE IInv
  OBVIOUS
<1>1. held = <<>> /\ absences = <<>> /\ HeldIds = {} /\ AbsenceIds = {}
  BY DEF Init, QualsInit, AbsencesInit, HeldIds, AbsenceIds
<1>2. \A f \in Forms : form[f].op # "update"
  BY DEF Init, QualsInit, Blank
<1>3. TypeOK
  BY <1>1, <1>2 DEF Init, QualsInit, AbsencesInit, TypeOK, Form
<1> QED
  BY <1>1, <1>3 DEF IInv, DeadlinesExcused

\* Absences and people.
LEMMA AbsencesKeep ==
    ASSUME IInv, AbsencesNext, UNCHANGED qualVars
    PROVE  IInv'
<1>1. DeadlinesExcused'
  BY DEF IInv, DeadlinesExcused, Excused, HeldIds, qualVars
<1>2. \A first, last \in Days : Span(first, last) => first <= last
  BY DEF Span
<1>3. absences \in Seq(Absence) /\ \A i \in AbsenceIds : absences[i].first <= absences[i].last
  BY DEF IInv, TypeOK
<1> DEFINE Good == /\ people' \in [Persons -> {"active", "departed"}]
                   /\ absences' \in Seq(Absence)
                   /\ \A i \in AbsenceIds' : absences'[i].first <= absences'[i].last
<1>4. ASSUME NEW p \in Persons, DepartPerson(p) PROVE Good
  BY <1>3, <1>4 DEF DepartPerson, AbsenceIds, IInv, TypeOK
<1>5. ASSUME NEW p \in Persons, NEW first \in Days, NEW last \in Days, NEW partial \in BOOLEAN,
             CreateAbsence(p, first, last, partial)
      PROVE  Good
  <2> DEFINE x == NewAbsence(p, first, last, partial)
  <2>1. x \in Absence /\ x.first <= x.last
    BY <1>2, <1>5 DEF NewAbsence, Absence, CreateAbsence
  <2>2. absences' = Append(absences, x) /\ people' = people
    BY <1>5 DEF CreateAbsence
  <2> HIDE DEF x
  <2>3. /\ absences' \in Seq(Absence)
        /\ DOMAIN absences' = DOMAIN absences \cup {Len(absences) + 1}
        /\ absences'[Len(absences) + 1] = x
        /\ \A i \in DOMAIN absences : absences'[i] = absences[i]
    BY <1>3, <2>1, <2>2, Appended
  <2> QED
    BY <1>3, <2>1, <2>2, <2>3 DEF AbsenceIds, IInv, TypeOK
<1>6. ASSUME NEW i \in AbsenceIds, NEW x \in Absence, x.first <= x.last,
             absences' = [absences EXCEPT ![i] = x], people' = people
      PROVE  Good
  <2>1. /\ absences' \in Seq(Absence)
        /\ DOMAIN absences' = DOMAIN absences
        /\ absences'[i] = x
        /\ \A j \in DOMAIN absences \ {i} : absences'[j] = absences[j]
    BY <1>3, <1>6, Overwritten DEF AbsenceIds
  <2> QED
    BY <1>3, <1>6, <2>1 DEF AbsenceIds, IInv, TypeOK
<1>7. ASSUME NEW i \in AbsenceIds, NEW first \in Days, NEW last \in Days, NEW partial \in BOOLEAN,
             UpdateAbsence(i, first, last, partial)
      PROVE  Good
  <2> DEFINE x == EditedAbsence(absences[i], first, last, partial)
  <2>1. absences[i] \in Absence
    BY <1>3, RowType DEF AbsenceIds
  <2>2. absences[i].person \in Persons /\ absences[i].active \in BOOLEAN
    BY <2>1 DEF Absence
  <2>3. x \in Absence /\ x.first <= x.last
    BY <1>2, <1>7, <2>2 DEF EditedAbsence, Absence, UpdateAbsence
  <2> QED
    BY <1>6, <1>7, <2>3 DEF UpdateAbsence
<1>8. ASSUME NEW i \in AbsenceIds, ArchiveAbsence(i) PROVE Good
  <2> DEFINE x == ArchivedAbsence(absences[i])
  <2>1. absences[i] \in Absence
    BY <1>3, RowType DEF AbsenceIds
  <2>2. /\ absences[i].person \in Persons
        /\ absences[i].first \in Days
        /\ absences[i].last \in Days
        /\ absences[i].partial \in BOOLEAN
    BY <2>1 DEF Absence
  <2>3. x \in Absence /\ x.first <= x.last
    BY <1>3, <2>2 DEF ArchivedAbsence, Absence
  <2> QED
    BY <1>6, <1>8, <2>3 DEF ArchiveAbsence
<1> HIDE DEF Good
<1>9. Good
  BY <1>4, <1>5, <1>7, <1>8 DEF AbsencesNext
<1>10. UNCHANGED <<catalog, held, form>>
  BY DEF qualVars
<1>11. TypeOK'
  BY <1>9, <1>10 DEF Good, IInv, TypeOK, HeldIds
<1> QED
  BY <1>1, <1>11 DEF IInv

\* A step that leaves the rows as they are, and opens or closes a form.
LEMMA FormsKeep ==
    ASSUME IInv, UNCHANGED <<people, absences, held>>,
           catalog' \in [Catalog -> {"none", "active", "archived"}],
           form' \in [Forms -> Form],
           \A f \in Forms : form'[f].op = "update" => form'[f].id \in HeldIds
    PROVE  IInv'
BY DEF IInv, TypeOK, DeadlinesExcused, Excused, HeldIds, AbsenceIds

\* A step that sends a form.
LEMMA SendKeeps ==
    ASSUME IInv, UNCHANGED <<people, absences, catalog>>,
           NEW f \in Forms, form' = [form EXCEPT ![f] = Blank],
           held' \in Seq(PersonQual), HeldIds \subseteq HeldIds',
           DeadlinesExcused'
    PROVE  IInv'
<1>1. form' \in [Forms -> Form]
  BY DEF IInv, TypeOK, Form
<1>2. \A g \in Forms : form'[g].op = "update" => form'[g].id \in HeldIds'
  BY DEF IInv, TypeOK, Blank
<1> QED
  BY <1>1, <1>2 DEF IInv, TypeOK, AbsenceIds

LEMMA AssignKeeps ==
    ASSUME IInv, UNCHANGED <<people, absences>>, NEW f \in Forms,
           NEW Q \in SUBSET Catalog, NEW status \in Statuses,
           CommitAssignWeb(f, Q, status) \/ CommitAssignTk(f, Q, status)
    PROVE  IInv'
<1> DEFINE n == Len(held)
           m == Cardinality(Q)
<1>1. PICK due \in BOOLEAN, via \in {"web", "tk"} :
          /\ held' = held \o [i \in 1 .. m |->
                        Row(form[f].person, SetToSeq(Q)[i], status, due, via)]
          /\ via = "web" \/ (due <=> status \notin Settled)
  <2>1. CASE CommitAssignWeb(f, Q, status)
    BY <2>1 DEF CommitAssignWeb
  <2>2. CASE CommitAssignTk(f, Q, status)
    BY <2>2 DEF CommitAssignTk
  <2> QED
    BY <2>1, <2>2
<1>2. /\ form[f].op = "assign"
      /\ form' = [form EXCEPT ![f] = Blank]
      /\ UNCHANGED catalog
  BY DEF CommitAssignWeb, CommitAssignTk
<1>3. /\ n \in Nat /\ m \in Nat
      /\ HeldIds = 1 .. n /\ HeldIds' = 1 .. n + m
      /\ held' \in Seq(PersonQual)
      /\ \A i \in HeldIds : held'[i] = held[i]
      /\ \A i \in 1 .. m : held'[n + i] = Row(form[f].person, SetToSeq(Q)[i], status, due, via)
  BY <1>1, <1>2, Assigned DEF IInv
<1> HIDE DEF n, m
<1>4. ASSUME NEW i \in HeldIds', held'[i].status \notin Settled, ~held'[i].due
      PROVE  Excused(i)'
  <2>1. CASE i \in HeldIds
    <3>1. PICK j \in HeldIds : /\ held[j].via = "web" \/ held[j].status \in Settled
                               /\ held[j].person = held[i].person
                               /\ held[j].qual = held[i].qual
      BY <1>3, <1>4, <2>1 DEF IInv, DeadlinesExcused, Excused
    <3>2. j \in HeldIds' /\ held'[j] = held[j] /\ held'[i] = held[i]
      BY <1>3, <2>1
    <3> QED
      BY <3>1, <3>2 DEF Excused
  <2>2. CASE i \notin HeldIds
    <3>1. i - n \in 1 .. m /\ i = n + (i - n)
      BY <1>3, <2>2
    <3>2. held'[i] = Row(form[f].person, SetToSeq(Q)[i - n], status, due, via)
      BY <1>3, <3>1
    <3>3. held'[i].status = status /\ held'[i].due = due /\ held'[i].via = via
      BY <3>2 DEF Row
    <3>4. held'[i].via = "web"
      BY <1>1, <1>4, <3>3, Zenon
    <3> QED
      BY <3>4 DEF Excused
  <2> QED
    BY <2>1, <2>2
<1>5. DeadlinesExcused'
  BY <1>4 DEF DeadlinesExcused
<1>6. HeldIds \subseteq HeldIds'
  BY <1>3
<1> QED
  BY <1>2, <1>3, <1>5, <1>6, SendKeeps

LEMMA UpdateKeeps ==
    ASSUME IInv, UNCHANGED <<people, absences>>, NEW f \in Forms, form[f].op = "update",
           NEW status \in Statuses, NEW due \in BOOLEAN, NEW via \in {"web", "tk"},
           Replace(f, form[f].id, status, due, via),
           via = "web" \/ (held[form[f].id].due /\ status \notin Settled => due)
    PROVE  IInv'
<1>0. PICK i \in HeldIds : form[f].id = i
  BY DEF IInv, TypeOK
<1> DEFINE new == Len(held) + 1
<1>1. /\ new \in Nat /\ \A j \in HeldIds : j \in Nat /\ j < new
      /\ HeldIds' = HeldIds \cup {new}
      /\ held' \in Seq(PersonQual)
      /\ held'[i] = Closed(held[i])
      /\ \A j \in HeldIds \ {i} : held'[j] = held[j]
      /\ held'[new] = Row(held[i].person, held[i].qual, status, due, via)
  BY <1>0, Updated DEF IInv
<1>2. form' = [form EXCEPT ![f] = Blank] /\ UNCHANGED catalog
  BY DEF Replace
<1> HIDE DEF new
<1>3. \A j \in HeldIds : /\ held'[j].person = held[j].person
                         /\ held'[j].qual = held[j].qual
                         /\ held'[j].status = held[j].status
                         /\ held'[j].due = held[j].due
                         /\ held'[j].via = held[j].via
  BY <1>1 DEF Closed
<1>4. ASSUME NEW j \in HeldIds, Excused(j)
      PROVE  Excused(j)'
  <2>1. PICK k \in HeldIds : /\ held[k].via = "web" \/ held[k].status \in Settled
                             /\ held[k].person = held[j].person
                             /\ held[k].qual = held[j].qual
    BY <1>4 DEF Excused
  <2>2. k \in HeldIds'
    BY <1>1
  <2> QED
    BY <1>3, <2>1, <2>2 DEF Excused
<1>5. ASSUME NEW j \in HeldIds', held'[j].status \notin Settled, ~held'[j].due
      PROVE  Excused(j)'
  <2>1. CASE j \in HeldIds
    <3>1. held[j].status \notin Settled /\ ~held[j].due
      BY <1>3, <1>5, <2>1
    <3> QED
      BY <1>4, <2>1, <3>1 DEF IInv, DeadlinesExcused
  <2>2. CASE j = new
    <3>1. /\ held'[j].person = held'[i].person
          /\ held'[j].qual = held'[i].qual
          /\ held'[j].status = status
          /\ held'[j].due = due
          /\ held'[j].via = via
      BY <1>1, <1>3, <2>2 DEF Row
    <3>2. CASE via = "web"
      BY <3>1, <3>2 DEF Excused
    <3>3. CASE held[i].status \in Settled
      <4>1. i \in HeldIds' /\ held'[i].status \in Settled
        BY <1>1, <1>3, <3>3
      <4> QED
        BY <3>1, <4>1 DEF Excused
    <3>4. CASE via # "web" /\ held[i].status \notin Settled
      <4>1. ~held[i].due
        BY <1>0, <1>5, <3>1, <3>4, Zenon
      <4>2. Excused(i)
        BY <3>4, <4>1, Zenon DEF IInv, DeadlinesExcused
      <4>3. Excused(i)'
        BY <1>4, <4>2
      <4> QED
        BY <3>1, <4>3 DEF Excused
    <3> QED
      BY <3>2, <3>3, <3>4
  <2> QED
    BY <1>1, <2>1, <2>2
<1>6. DeadlinesExcused'
  BY <1>5 DEF DeadlinesExcused
<1> QED
  BY <1>1, <1>2, <1>6, SendKeeps

LEMMA QualsKeep ==
    ASSUME IInv, QualsNext, UNCHANGED <<people, absences>>
    PROVE  IInv'
<1>1. /\ catalog \in [Catalog -> {"none", "active", "archived"}]
      /\ held \in Seq(PersonQual)
      /\ form \in [Forms -> Form]
      /\ \A f \in Forms : form[f].op = "update" => form[f].id \in HeldIds
  BY DEF IInv, TypeOK
<1>2. ASSUME NEW q \in Catalog, CreateQual(q) \/ ArchiveQual(q) PROVE IInv'
  <2>1. catalog' \in [Catalog -> {"none", "active", "archived"}] /\ UNCHANGED <<held, form>>
    BY <1>1, <1>2 DEF CreateQual, ArchiveQual
  <2> QED
    BY <1>1, <2>1, FormsKeep
<1>3. ASSUME NEW f \in Forms, NEW x \in Form, form' = [form EXCEPT ![f] = x],
             x.op = "update" => x.id \in HeldIds, UNCHANGED <<catalog, held>>
      PROVE  IInv'
  <2>1. form' \in [Forms -> Form]
    BY <1>1, <1>3
  <2>2. \A g \in Forms : form'[g].op = "update" => form'[g].id \in HeldIds
    BY <1>1, <1>3
  <2> QED
    BY <1>1, <1>3, <2>1, <2>2, FormsKeep
<1>4. ASSUME NEW f \in Forms, NEW p \in Persons, BeginAssign(f, p) PROVE IInv'
  <2> DEFINE x == [op |-> "assign", person |-> p, choices |-> Offered(p)]
  <2>1. Offered(p) \in SUBSET Catalog
    BY DEF Offered, ActiveQuals
  <2>2. x \in Form /\ x.op # "update"
    BY <2>1 DEF Form
  <2> QED
    BY <1>3, <1>4, <2>2 DEF BeginAssign
<1>5. ASSUME NEW f \in Forms, NEW i \in HeldIds, BeginUpdate(f, i) PROVE IInv'
  <2> DEFINE x == [op |-> "update", id |-> i]
  <2>1. x \in Form /\ x.id \in HeldIds
    BY <1>1 DEF Form, HeldIds
  <2> QED
    BY <1>3, <1>5, <2>1 DEF BeginUpdate
<1>6. ASSUME NEW f \in Forms, CloseForm(f) PROVE IInv'
  <2>1. Blank \in Form /\ Blank.op # "update"
    BY DEF Form, Blank
  <2> QED
    BY <1>3, <1>6, <2>1 DEF CloseForm
<1>7. ASSUME NEW f \in Forms, NEW status \in Statuses, CommitUpdateWeb(f, status) PROVE IInv'
  BY <1>7, UpdateKeeps DEF CommitUpdateWeb
<1>8. ASSUME NEW f \in Forms, NEW status \in Statuses, NEW due \in BOOLEAN,
             CommitUpdateTk(f, status, due)
      PROVE  IInv'
  <2> DEFINE d == (due \/ held[form[f].id].due) /\ status \notin Settled
  <2>1. d \in BOOLEAN /\ (held[form[f].id].due /\ status \notin Settled => d)
    OBVIOUS
  <2>2. form[f].op = "update" /\ Replace(f, form[f].id, status, d, "tk")
    BY <1>8 DEF CommitUpdateTk
  <2> HIDE DEF d
  <2> QED
    BY <2>1, <2>2, UpdateKeeps
<1> QED
  BY <1>2, <1>4, <1>5, <1>6, <1>7, <1>8, AssignKeeps DEF QualsNext

LEMMA StepKeeps == IInv /\ [Next]_vars => IInv'
<1> SUFFICES ASSUME IInv, [Next]_vars PROVE IInv'
  OBVIOUS
<1>1. CASE UNCHANGED vars
  BY <1>1 DEF vars, IInv, TypeOK, DeadlinesExcused, Excused, HeldIds, AbsenceIds
<1> QED
  BY <1>1, AbsencesKeep, QualsKeep DEF Next

\* However many forms are open, the tables keep their shape, an absence does not end
\* before it begins, and a form that edits a row names one there is.
THEOREM TypeCorrect == Spec => []TypeOK
<1>1. IInv => TypeOK
  BY DEF IInv
<1> QED
  BY <1>1, InitKeeps, StepKeeps, PTL DEF Spec

\* However many forms are open, a pending qualification is without a deadline only
\* if the web form has touched it or it was settled before; closing a row does not
\* take the reason away.
THEOREM DeadlinesCarried == Spec => []DeadlineCarried
<1>1. IInv => DeadlineCarried
  BY DEF IInv, DeadlinesExcused, Excused, DeadlineCarried
<1> QED
  BY <1>1, InitKeeps, StepKeeps, PTL DEF Spec

-----------------------------------------------------------------------------
(* With one form at a time *)

OneAtATime == \A f, g \in Forms : f = g

\* The rows of the same person and qualification.
Same(i, j) == held[j].person = held[i].person /\ held[j].qual = held[i].qual

\* What a form was opened on still stands: what it offers nobody has given, what it
\* edits nobody has closed.
Fresh ==
    \A f \in Forms :
        /\ form[f].op = "assign" =>
              \A q \in form[f].choices, i \in HeldIds :
                  ~(/\ held[i].open
                    /\ held[i].person = form[f].person
                    /\ held[i].qual = q)
        /\ form[f].op = "update" => held[form[f].id].open

SInv == IInv /\ OneCurrent /\ Fresh

LEMMA InitSerial == Init => SInv
<1> SUFFICES ASSUME Init PROVE SInv
  OBVIOUS
<1>1. HeldIds = {} /\ \A f \in Forms : form[f].op = "none"
  BY DEF Init, QualsInit, HeldIds, Blank
<1> QED
  BY <1>1, InitKeeps DEF SInv, OneCurrent, Fresh

\* A form that is sent leaves no other.
LEMMA FormsGone ==
    ASSUME OneAtATime, TypeOK, NEW f \in Forms, form' = [form EXCEPT ![f] = Blank]
    PROVE  Fresh'
<1>1. \A g \in Forms : form'[g].op = "none"
  BY DEF OneAtATime, TypeOK, Blank
<1> QED
  BY <1>1 DEF Fresh

LEMMA AssignSerial ==
    ASSUME OneAtATime, SInv, NEW f \in Forms,
           NEW Q \in SUBSET Catalog, NEW status \in Statuses,
           CommitAssignWeb(f, Q, status) \/ CommitAssignTk(f, Q, status)
    PROVE  OneCurrent' /\ Fresh'
<1> DEFINE n == Len(held)
           m == Cardinality(Q)
<1>1. PICK due \in BOOLEAN, via \in {"web", "tk"} :
          held' = held \o [i \in 1 .. m |->
                        Row(form[f].person, SetToSeq(Q)[i], status, due, via)]
  <2>1. CASE CommitAssignWeb(f, Q, status)
    BY <2>1 DEF CommitAssignWeb
  <2>2. CASE CommitAssignTk(f, Q, status)
    BY <2>2 DEF CommitAssignTk
  <2> QED
    BY <2>1, <2>2
<1>2. /\ form[f].op = "assign"
      /\ form' = [form EXCEPT ![f] = Blank]
      /\ Q \subseteq form[f].choices
  BY DEF CommitAssignWeb, CommitAssignTk
<1>3. /\ n \in Nat /\ m \in Nat
      /\ HeldIds = 1 .. n /\ HeldIds' = 1 .. n + m
      /\ \A i \in HeldIds : held'[i] = held[i]
      /\ \A i \in 1 .. m : held'[n + i] = Row(form[f].person, SetToSeq(Q)[i], status, due, via)
  BY <1>1, <1>2, Assigned DEF SInv, IInv
<1>4. /\ \A i \in 1 .. m : SetToSeq(Q)[i] \in Q
      /\ \A i, j \in 1 .. m : SetToSeq(Q)[i] = SetToSeq(Q)[j] => i = j
  BY Listed
<1> HIDE DEF n, m
<1>5. \A i \in 1 .. m : /\ held'[n + i].open
                        /\ held'[n + i].person = form[f].person
                        /\ held'[n + i].qual = SetToSeq(Q)[i]
  <2>1. ASSUME NEW i \in 1 .. m
        PROVE  /\ held'[n + i].open
               /\ held'[n + i].person = form[f].person
               /\ held'[n + i].qual = SetToSeq(Q)[i]
    <3>1. held'[n + i] = Row(form[f].person, SetToSeq(Q)[i], status, due, via)
      BY <1>3
    <3> QED
      BY <3>1 DEF Row
  <2> QED
    BY <2>1
<1>6. ASSUME NEW i \in HeldIds'
      PROVE  held'[i].open <=>
                 ~\E j \in HeldIds' : /\ i < j
                                     /\ held'[j].person = held'[i].person
                                     /\ held'[j].qual = held'[i].qual
  <2>1. CASE i \in HeldIds
    <3>1. held'[i] = held[i] /\ i \in Nat /\ i <= n
      BY <1>3, <2>1
    <3>2. held[i].open <=> ~\E j \in HeldIds : i < j /\ Same(i, j)
      BY <2>1 DEF SInv, OneCurrent, Same
    <3>3. ASSUME NEW k \in 1 .. m, held'[n + k].person = held[i].person,
                 held'[n + k].qual = held[i].qual
          PROVE  ~held[i].open
      BY <1>2, <1>4, <1>5, <2>1, <3>3 DEF SInv, Fresh
    <3>4. ASSUME NEW j \in HeldIds', j \notin HeldIds
          PROVE  j - n \in 1 .. m /\ j = n + (j - n)
      BY <1>3, <3>4
    <3>5. ASSUME held[i].open, NEW j \in HeldIds', i < j,
                 held'[j].person = held[i].person, held'[j].qual = held[i].qual
          PROVE  FALSE
      <4>1. CASE j \in HeldIds
        BY <1>3, <3>2, <3>5, <4>1 DEF Same
      <4>2. CASE j \notin HeldIds
        BY <3>3, <3>4, <3>5, <4>2
      <4> QED
        BY <4>1, <4>2
    <3>6. ASSUME ~held[i].open
          PROVE  \E j \in HeldIds' : /\ i < j
                                     /\ held'[j].person = held[i].person
                                     /\ held'[j].qual = held[i].qual
      <4>1. PICK j \in HeldIds : i < j /\ Same(i, j)
        BY <3>2, <3>6
      <4>2. j \in HeldIds' /\ held'[j] = held[j]
        BY <1>3
      <4> QED
        BY <4>1, <4>2 DEF Same
    <3> QED
      BY <3>1, <3>5, <3>6
  <2>2. CASE i \notin HeldIds
    <3>1. i - n \in 1 .. m /\ i = n + (i - n)
      BY <1>3, <2>2
    <3>2. held'[i].open /\ held'[i].qual = SetToSeq(Q)[i - n]
      BY <1>5, <3>1
    <3>3. ASSUME NEW j \in HeldIds', i < j, held'[j].qual = held'[i].qual
          PROVE  FALSE
      <4>1. j - n \in 1 .. m /\ j = n + (j - n) /\ j - n # i - n
        BY <1>3, <3>1, <3>3
      <4>2. held'[j].qual = SetToSeq(Q)[j - n]
        BY <1>5, <4>1
      <4> QED
        BY <1>4, <3>1, <3>2, <3>3, <4>1, <4>2
    <3> QED
      BY <3>2, <3>3
  <2> QED
    BY <2>1, <2>2
<1>7. OneCurrent'
  BY <1>6 DEF OneCurrent
<1> QED
  BY <1>2, <1>7, FormsGone DEF SInv, IInv

LEMMA UpdateSerial ==
    ASSUME OneAtATime, SInv, NEW f \in Forms, form[f].op = "update",
           NEW status \in Statuses, NEW due \in BOOLEAN, NEW via \in {"web", "tk"},
           Replace(f, form[f].id, status, due, via)
    PROVE  OneCurrent' /\ Fresh'
<1>0. PICK i \in HeldIds : form[f].id = i
  BY DEF SInv, IInv, TypeOK
<1> DEFINE new == Len(held) + 1
<1>1. /\ new \in Nat /\ \A j \in HeldIds : j \in Nat /\ j < new
      /\ HeldIds' = HeldIds \cup {new}
      /\ held'[i] = Closed(held[i])
      /\ \A j \in HeldIds \ {i} : held'[j] = held[j]
      /\ held'[new] = Row(held[i].person, held[i].qual, status, due, via)
  BY <1>0, Updated DEF SInv, IInv
<1>2. form' = [form EXCEPT ![f] = Blank]
  BY DEF Replace
<1> HIDE DEF new
<1>3. /\ \A j \in HeldIds : /\ held'[j].person = held[j].person
                            /\ held'[j].qual = held[j].qual
      /\ held'[new].person = held[i].person
      /\ held'[new].qual = held[i].qual
      /\ held'[new].open
      /\ ~held'[i].open
  BY <1>1 DEF Closed, Row
<1>4. held[i].open
  BY <1>0 DEF SInv, Fresh
<1>5. \A j \in HeldIds : held[j].open <=> ~\E k \in HeldIds : j < k /\ Same(j, k)
  BY DEF SInv, OneCurrent, Same
<1>6. ASSUME NEW j \in HeldIds', NEW k \in HeldIds', j < k,
             held'[k].person = held'[j].person, held'[k].qual = held'[j].qual
      PROVE  ~held'[j].open
  <2>1. j \in HeldIds
    BY <1>1, <1>6
  <2>2. CASE j = i
    BY <1>3, <2>2
  <2>3. CASE j # i /\ k \in HeldIds
    <3>1. Same(j, k)
      BY <1>3, <1>6, <2>1, <2>3 DEF Same
    <3> QED
      BY <1>1, <1>5, <1>6, <2>1, <2>3, <3>1
  <2>4. CASE j # i /\ k = new
    <3>1. Same(i, j) /\ Same(j, i)
      BY <1>3, <1>6, <2>1, <2>4 DEF Same
    <3>2. ~(i < j)
      BY <1>4, <1>5, <2>1, <3>1
    <3>3. j < i
      <4>1. i \in Nat /\ j \in Nat /\ j # i
        BY <1>1, <2>1, <2>4
      <4> QED
        BY <3>2, <4>1
    <3> QED
      BY <1>1, <1>5, <2>1, <2>4, <3>1, <3>3
  <2> QED
    BY <1>1, <1>6, <2>2, <2>3, <2>4
<1>7. ASSUME NEW j \in HeldIds', ~held'[j].open
      PROVE  \E k \in HeldIds' : /\ j < k
                                 /\ held'[k].person = held'[j].person
                                 /\ held'[k].qual = held'[j].qual
  <2>1. CASE j = i
    BY <1>1, <1>3, <2>1
  <2>2. CASE j # i
    <3>1. j \in HeldIds /\ ~held[j].open
      BY <1>1, <1>3, <1>7, <2>2
    <3>2. PICK k \in HeldIds : j < k /\ Same(j, k)
      BY <1>5, <3>1
    <3> QED
      BY <1>1, <1>3, <3>1, <3>2 DEF Same
  <2> QED
    BY <2>1, <2>2
<1>8. ASSUME NEW j \in HeldIds'
      PROVE  held'[j].open \in BOOLEAN
  <2>1. held' \in Seq(PersonQual)
    BY <1>0, Updated DEF SInv, IInv
  <2>2. held'[j] \in PersonQual
    BY <2>1, RowType DEF HeldIds
  <2> QED
    BY <2>2 DEF PersonQual
<1>9. OneCurrent'
  BY <1>6, <1>7, <1>8, Zenon DEF OneCurrent
<1> QED
  BY <1>2, <1>9, FormsGone DEF SInv, IInv

LEMMA QualsSerial ==
    ASSUME OneAtATime, SInv, QualsNext
    PROVE  OneCurrent' /\ Fresh'
<1>1. form \in [Forms -> Form]
  BY DEF SInv, IInv, TypeOK
<1>2. ASSUME UNCHANGED held PROVE OneCurrent'
  BY <1>2 DEF SInv, OneCurrent, HeldIds
<1>3. ASSUME NEW q \in Catalog, CreateQual(q) \/ ArchiveQual(q)
      PROVE  OneCurrent' /\ Fresh'
  <2>1. UNCHANGED <<held, form>>
    BY <1>3 DEF CreateQual, ArchiveQual
  <2> QED
    BY <1>2, <2>1 DEF SInv, Fresh, HeldIds
<1>4. ASSUME NEW f \in Forms, NEW p \in Persons, BeginAssign(f, p)
      PROVE  OneCurrent' /\ Fresh'
  <2> DEFINE x == [op |-> "assign", person |-> p, choices |-> Offered(p)]
  <2>1. form' = [form EXCEPT ![f] = x] /\ UNCHANGED held
    BY <1>4 DEF BeginAssign
  <2>2. \A g \in Forms : g = f /\ form'[g] = x
    BY <1>1, <2>1 DEF OneAtATime
  <2>3. \A q \in Offered(p), i \in HeldIds :
            ~(held[i].open /\ held[i].person = p /\ held[i].qual = q)
    BY DEF Offered, Open
  <2> QED
    BY <1>2, <2>1, <2>2, <2>3 DEF Fresh, HeldIds
<1>5. ASSUME NEW f \in Forms, NEW i \in HeldIds, BeginUpdate(f, i)
      PROVE  OneCurrent' /\ Fresh'
  <2> DEFINE x == [op |-> "update", id |-> i]
  <2>1. form' = [form EXCEPT ![f] = x] /\ UNCHANGED held /\ held[i].open
    BY <1>5 DEF BeginUpdate
  <2>2. \A g \in Forms : g = f /\ form'[g] = x
    BY <1>1, <2>1 DEF OneAtATime
  <2> QED
    BY <1>2, <2>1, <2>2 DEF Fresh
<1>6. ASSUME NEW f \in Forms, CloseForm(f)
      PROVE  OneCurrent' /\ Fresh'
  BY <1>2, <1>6, FormsGone DEF CloseForm, SInv, IInv
<1>7. ASSUME NEW f \in Forms, NEW status \in Statuses, CommitUpdateWeb(f, status)
      PROVE  OneCurrent' /\ Fresh'
  BY <1>7, UpdateSerial DEF CommitUpdateWeb
<1>8. ASSUME NEW f \in Forms, NEW status \in Statuses, NEW due \in BOOLEAN,
             CommitUpdateTk(f, status, due)
      PROVE  OneCurrent' /\ Fresh'
  <2> DEFINE d == (due \/ held[form[f].id].due) /\ status \notin Settled
  <2>1. d \in BOOLEAN
    OBVIOUS
  <2>2. form[f].op = "update" /\ Replace(f, form[f].id, status, d, "tk")
    BY <1>8 DEF CommitUpdateTk
  <2> HIDE DEF d
  <2> QED
    BY <2>1, <2>2, UpdateSerial
<1> QED
  BY <1>3, <1>4, <1>5, <1>6, <1>7, <1>8, AssignSerial DEF QualsNext

LEMMA SerialStep ==
    ASSUME OneAtATime
    PROVE  SInv /\ [Next]_vars => SInv'
<1> SUFFICES ASSUME SInv, [Next]_vars PROVE SInv'
  OBVIOUS
<1>1. IInv'
  BY StepKeeps DEF SInv
<1>2. CASE UNCHANGED qualVars
  BY <1>1, <1>2 DEF qualVars, SInv, OneCurrent, Fresh, HeldIds
<1>3. CASE QualsNext
  BY <1>1, <1>3, QualsSerial DEF SInv
<1> QED
  BY <1>2, <1>3 DEF Next, vars, qualVars

\* With one form at a time, however many people and qualifications there are and
\* whichever program the form is sent from: of the rows that a person has of a
\* qualification the last one written is open and no other.
THEOREM OneRowCurrent == ASSUME OneAtATime PROVE Spec => []OneCurrent
<1>1. SInv => OneCurrent
  BY DEF SInv
<1> QED
  BY <1>1, InitSerial, SerialStep, PTL DEF Spec

-----------------------------------------------------------------------------
(* What the views of absences say *)

\* The absences of a person that are in force on a day.
On(p, d) == {i \in AbsenceIds : /\ absences[i].active
                                /\ absences[i].person = p
                                /\ Covers(i, d)}

LEMMA AbsenceTypes ==
    ASSUME TypeOK
    PROVE  /\ IsFiniteSet(AbsenceIds)
           /\ \A i \in AbsenceIds : /\ absences[i].first \in Int
                                    /\ absences[i].last \in Int
                                    /\ absences[i].partial \in BOOLEAN
<1>1. absences \in Seq(Absence)
  BY DEF TypeOK
<1>2. AbsenceIds = 1 .. Len(absences) /\ Len(absences) \in Nat
  BY <1>1 DEF AbsenceIds
<1>3. IsFiniteSet(AbsenceIds)
  BY <1>2, FS_Interval
<1>4. ASSUME NEW i \in AbsenceIds
      PROVE  /\ absences[i].first \in Int
             /\ absences[i].last \in Int
             /\ absences[i].partial \in BOOLEAN
  <2>1. absences[i] \in Absence
    BY <1>1, RowType DEF AbsenceIds
  <2> QED
    BY <2>1, AbsencesAssumption DEF Absence, Days
<1> QED
  BY <1>3, <1>4

\* Rows in some order: each once, and none but these.
LEMMA Ordered ==
    ASSUME NEW S, IsFiniteSet(S), NEW rows \in SetToSeqs(S)
    PROVE  /\ DOMAIN rows \subseteq Nat
           /\ \A k \in DOMAIN rows : rows[k] \in S
           /\ \A i \in S : \E k \in DOMAIN rows : rows[k] = i
           /\ \A j, k \in DOMAIN rows : rows[j] = rows[k] => j = k
<1> DEFINE n == Cardinality(S)
<1>1. n \in Nat
  BY FS_CardinalityType
<1>2. /\ rows \in [1 .. n -> S]
      /\ \A j, k \in 1 .. n : j # k => rows[j] # rows[k]
  BY DEF SetToSeqs
<1>3. rows \in Injection(1 .. n, S)
  BY <1>2 DEF Injection, IsInjective
<1>4. Cardinality(1 .. n) = n
  BY <1>1, FS_Interval
<1>5. rows \in Surjection(1 .. n, S)
  BY <1>3, <1>4, FS_Injection
<1> QED
  BY <1>1, <1>2, <1>5 DEF Surjection

LEMMA Single ==
    ASSUME NEW k \in Nat
    PROVE  Max({k}) = k /\ Min({k}) = k
<1>1. \A y \in {k} : k >= y /\ k <= y
  OBVIOUS
<1> QED
  BY <1>1 DEF Max, Min

\* If only one row of those in order is asked for, it is found, first and last.
LEMMA Found ==
    ASSUME NEW S, IsFiniteSet(S), NEW rows \in SetToSeqs(S), NEW i \in S,
           NEW K, K = {k \in DOMAIN rows : rows[k] = i}
    PROVE  K # {} /\ rows[Max(K)] = i /\ rows[Min(K)] = i
<1>1. PICK k \in DOMAIN rows : rows[k] = i
  BY Ordered
<1>2. k \in Nat /\ K = {k}
  BY <1>1, Ordered
<1> QED
  BY <1>1, <1>2, Single

\* A report, given the absences of the person do not overlap.
LEMMA ReportSays ==
    ASSUME TypeOK, NEW p \in Persons, NEW d \in Days, ~Overlap(p, d),
           NEW rows \in SetToSeqs(Between(d, d))
    PROVE  /\ On(p, d) = {} => Reported(p, rows) = "present"
           /\ \A i \in On(p, d) : Reported(p, rows) = Says(i)
<1> DEFINE K == {k \in DOMAIN rows : absences[rows[k]].person = p}
<1>1. d \in Int
  BY AbsencesAssumption DEF Days
<1>2. IsFiniteSet(Between(d, d))
  BY AbsenceTypes, FS_Subset DEF Between
<1>3. \A k \in DOMAIN rows : rows[k] \in Between(d, d)
  BY <1>2, Ordered
<1>4. \A i : i \in Between(d, d) /\ absences[i].person = p <=> i \in On(p, d)
  BY <1>1, AbsenceTypes DEF Between, On, Covers
<1>5. ASSUME On(p, d) = {}
      PROVE  K = {}
  BY <1>3, <1>4, <1>5
<1>6. ASSUME NEW i \in On(p, d)
      PROVE  K # {} /\ rows[Max(K)] = i
  <2>1. \A j \in On(p, d) : j = i
    BY <1>6 DEF Overlap, On
  <2>2. K = {k \in DOMAIN rows : rows[k] = i}
    BY <1>3, <1>4, <2>1
  <2>3. i \in Between(d, d)
    BY <1>4
  <2> HIDE DEF K
  <2> QED
    BY <1>2, <2>2, <2>3, Found
<1>7. Reported(p, rows) = IF K = {} THEN "present" ELSE Says(rows[Max(K)])
  BY DEF Reported
<1> HIDE DEF K
<1> QED
  BY <1>5, <1>6, <1>7

\* A cell of the calendar, likewise.
LEMMA CalendarSays ==
    ASSUME TypeOK, NEW p \in Persons, NEW d \in Days, ~Overlap(p, d),
           NEW from \in Days, NEW to \in Days, from <= d, d <= to,
           NEW rows \in SetToSeqs(Between(from, to))
    PROVE  /\ On(p, d) = {} => CalendarCell(p, d, rows) = "present"
           /\ \A i \in On(p, d) : CalendarCell(p, d, rows) = Says(i)
<1> DEFINE K == {k \in DOMAIN rows : absences[rows[k]].person = p /\ Covers(rows[k], d)}
<1>1. d \in Int /\ from \in Int /\ to \in Int
  BY AbsencesAssumption DEF Days
<1>2. IsFiniteSet(Between(from, to))
  BY AbsenceTypes, FS_Subset DEF Between
<1>3. \A k \in DOMAIN rows : rows[k] \in Between(from, to)
  BY <1>2, Ordered
<1>4. \A i : i \in Between(from, to) /\ absences[i].person = p /\ Covers(i, d)
                <=> i \in On(p, d)
  BY <1>1, AbsenceTypes DEF Between, On, Covers
<1>5. ASSUME On(p, d) = {}
      PROVE  K = {}
  BY <1>3, <1>4, <1>5
<1>6. ASSUME NEW i \in On(p, d)
      PROVE  K # {} /\ rows[Min(K)] = i
  <2>1. \A j \in On(p, d) : j = i
    BY <1>6 DEF Overlap, On
  <2>2. K = {k \in DOMAIN rows : rows[k] = i}
    BY <1>3, <1>4, <2>1
  <2>3. i \in Between(from, to)
    BY <1>4
  <2> HIDE DEF K
  <2> QED
    BY <1>2, <2>2, <2>3, Found
<1>7. CalendarCell(p, d, rows) = IF K = {} THEN "present" ELSE Says(rows[Min(K)])
  BY DEF CalendarCell
<1> HIDE DEF K
<1> QED
  BY <1>5, <1>6, <1>7

\* However the absences came about and in whatever order a query returns them: the
\* report of a day and the calendar of a range with that day say the same of
\* everybody whose absences do not overlap on it.
THEOREM ViewsAgree == Spec => []ReportsAgree
<1>1. TypeOK => ReportsAgree
  <2> SUFFICES ASSUME TypeOK,
                      NEW from \in Days, NEW to \in Days, NEW d \in Days,
                      from <= d /\ d <= to,
                      NEW ofDay \in SetToSeqs(Between(d, d)),
                      NEW ofRange \in SetToSeqs(Between(from, to)),
                      NEW p \in Roll, ~Overlap(p, d)
               PROVE  Reported(p, ofDay) = LeaveCalendar(from, to, ofRange)[p][d]
    BY DEF ReportsAgree
  <2>1. p \in Persons
    BY DEF Roll
  <2>2. LeaveCalendar(from, to, ofRange)[p][d] = CalendarCell(p, d, ofRange)
    <3>1. d \in from .. to
      BY AbsencesAssumption DEF Days
    <3> QED
      BY <3>1 DEF LeaveCalendar
  <2>3. CASE On(p, d) = {}
    BY <2>1, <2>2, <2>3, ReportSays, CalendarSays
  <2>4. CASE On(p, d) # {}
    <3>1. PICK i : i \in On(p, d)
      BY <2>4
    <3> QED
      BY <2>1, <2>2, <3>1, ReportSays, CalendarSays
  <2> QED
    BY <2>3, <2>4
<1> QED
  BY <1>1, TypeCorrect, PTL

-----------------------------------------------------------------------------
(* What the pages of qualifications count *)

LEMMA HeldTypes ==
    ASSUME TypeOK
    PROVE  IsFiniteSet(HeldIds) /\ HeldIds \subseteq Nat
<1>1. HeldIds = 1 .. Len(held) /\ Len(held) \in Nat
  BY DEF TypeOK, HeldIds
<1> QED
  BY <1>1, FS_Interval

LEMMA OpenOnce ==
    ASSUME SInv, NEW p, NEW q, NEW i \in Open(p, q), NEW j \in Open(p, q)
    PROVE  i = j
<1>1. i \in HeldIds /\ j \in HeldIds /\ i \in Nat /\ j \in Nat
  BY HeldTypes DEF SInv, IInv, Open
<1>2. ~(i < j) /\ ~(j < i)
  BY <1>1 DEF SInv, OneCurrent, Open
<1> QED
  BY <1>1, <1>2

\* A cell of the matrix shows the one row that is open.
LEMMA CellShows ==
    ASSUME SInv, NEW p, NEW q, NEW status, status # "-"
    PROVE  Cell(p, q) = status <=> \E i \in Open(p, q) : held[i].status = status
<1>1. CASE Open(p, q) = {}
  BY <1>1 DEF Cell
<1>2. ASSUME NEW i \in Open(p, q)
      PROVE  Cell(p, q) = held[i].status
  <2>1. i \in Nat
    BY HeldTypes DEF SInv, IInv, Open
  <2>2. Open(p, q) = {i}
    BY OpenOnce
  <2>3. (CHOOSE k \in {i} : \A j \in {i} : j <= k) = i
    BY <2>1
  <2> QED
    BY <2>2, <2>3 DEF Cell
<1>3. CASE Open(p, q) # {}
  BY <1>2, <1>3, OpenOnce
<1> QED
  BY <1>1, <1>3

\* Counting rows is counting people.
LEMMA CountedOnce ==
    ASSUME SInv, NEW q \in Catalog, NEW status \in Statuses, NEW whose \in SUBSET Persons
    PROVE  /\ IsFiniteSet({p \in whose : Cell(p, q) = status})
           /\ Counted(q, status, whose) = Cardinality({p \in whose : Cell(p, q) = status})
<1>2. \A p : Cell(p, q) = status <=> \E i \in Open(p, q) : held[i].status = status
  <2>1. status # "-"
    BY QualsAssumption
  <2> QED
    BY <2>1, CellShows
<1> DEFINE I == {i \in HeldIds : /\ held[i].open
                                 /\ held[i].qual = q
                                 /\ held[i].status = status
                                 /\ held[i].person \in whose}
           P == {p \in whose : Cell(p, q) = status}
           f == [i \in I |-> held[i].person]
<1>1. IsFiniteSet(I)
  BY HeldTypes, FS_Subset DEF SInv, IInv
<1>3. ASSUME NEW i \in I
      PROVE  held[i].person \in P /\ i \in Open(held[i].person, q)
  <2>1. i \in Open(held[i].person, q)
    BY DEF Open
  <2>2. Cell(held[i].person, q) = status
    BY <1>2, <2>1
  <2> QED
    BY <2>1, <2>2
<1>4. ASSUME NEW p \in P
      PROVE  \E i \in I : held[i].person = p
  <2>1. PICK i \in Open(p, q) : held[i].status = status
    BY <1>2
  <2> QED
    BY <2>1 DEF Open
<1>5. ASSUME NEW i \in I, NEW j \in I, held[i].person = held[j].person
      PROVE  i = j
  BY <1>3, <1>5, OpenOnce
<1> HIDE DEF I, P
<1>6. f \in Bijection(I, P)
  <2>1. f \in [I -> P]
    BY <1>3
  <2>2. \A p \in P : \E i \in I : f[i] = p
    BY <1>4
  <2>3. \A i, j \in I : f[i] = f[j] => i = j
    BY <1>5
  <2> QED
    BY <2>1, <2>2, <2>3 DEF Bijection, Injection, Surjection, IsInjective
<1>7. IsFiniteSet(P) /\ Cardinality(P) = Cardinality(I)
  BY <1>1, <1>6, FS_Bijection DEF ExistsBijection
<1> QED
  BY <1>7 DEF Counted, I, P

\* With one form at a time, for any number of people, qualifications and statuses:
\* the gap in the overview is the one in the matrix, and what the catalog page
\* counts beyond the overview are the people who have left.
THEOREM PagesAgree == ASSUME OneAtATime PROVE Spec => []RollupsAgree
<1>1. SInv => RollupsAgree
  <2> SUFFICES ASSUME SInv, NEW q \in Catalog
               PROVE  /\ Gap(q) <=> Cardinality({p \in Roll : Cell(p, q) = "qualified"}) < Threshold
                      /\ \A status \in Statuses :
                            CatalogCount(q, status) - OverviewCount(q, status) =
                                Cardinality({p \in Persons \ Roll : Cell(p, q) = status})
    BY DEF RollupsAgree
  <2>1. Roll \subseteq Persons /\ Persons \ Roll \subseteq Persons
    BY DEF Roll
  <2>2. Gap(q) <=> Cardinality({p \in Roll : Cell(p, q) = "qualified"}) < Threshold
    BY <2>1, QualsAssumption, CountedOnce DEF Gap, OverviewCount
  <2>3. ASSUME NEW status \in Statuses
        PROVE  CatalogCount(q, status) - OverviewCount(q, status) =
                   Cardinality({p \in Persons \ Roll : Cell(p, q) = status})
    <3> DEFINE A == {p \in Roll : Cell(p, q) = status}
               B == {p \in Persons \ Roll : Cell(p, q) = status}
               C == {p \in Persons : Cell(p, q) = status}
    <3>1. IsFiniteSet(A) /\ OverviewCount(q, status) = Cardinality(A)
      BY <2>1, CountedOnce DEF OverviewCount
    <3>2. IsFiniteSet(B)
      BY <2>1, CountedOnce
    <3>3. CatalogCount(q, status) = Cardinality(C)
      BY CountedOnce DEF CatalogCount
    <3>4. C = A \cup B /\ A \cap B = {}
      BY <2>1
    <3> HIDE DEF A, B, C
    <3>5. Cardinality(C) = Cardinality(A) + Cardinality(B) - Cardinality(A \cap B)
      BY <3>1, <3>2, <3>4, FS_Union
    <3>6. Cardinality(A \cap B) = 0 /\ Cardinality(A) \in Nat /\ Cardinality(B) \in Nat
      BY <3>1, <3>2, <3>4, FS_EmptySet, FS_CardinalityType
    <3> QED
      BY <3>1, <3>3, <3>5, <3>6 DEF B
  <2> QED
    BY <2>2, <2>3
<1> QED
  BY <1>1, InitSerial, SerialStep, PTL DEF Spec

\* With one form at a time, for any roster, catalog and calendar: those and only
\* those are suggested who are here, not barred, qualified now and not away all day.
THEOREM SuggestedRightly == ASSUME OneAtATime PROVE Spec => []SuggestionsFit
<1>1. SInv => SuggestionsFit
  <2> SUFFICES ASSUME SInv, NEW task \in Task,
                      NEW rows \in IF task.day = 0 THEN {<<>>}
                                   ELSE SetToSeqs(Between(task.day, task.day)),
                      NEW p \in Persons,
                      task.day = 0 \/ ~Overlap(p, task.day)
               PROVE  p \in Candidates(task, rows) <=>
                        /\ people[p] = "active"
                        /\ p \notin task.barred
                        /\ \A q \in task.quals :
                              \E i \in Open(p, q) : held[i].status = "qualified"
                        /\ task.day # 0 => ~AwayAllDay(p, task.day)
    BY DEF SuggestionsFit
  <2>1. \A q : Cell(p, q) = "qualified" <=>
                    \E i \in Open(p, q) : held[i].status = "qualified"
    BY CellShows
  <2>2. Availability(p, task, rows) # "out" <=> (task.day # 0 => ~AwayAllDay(p, task.day))
    <3>1. CASE task.day = 0
      BY <3>1 DEF Availability
    <3>2. CASE task.day # 0
      <4> DEFINE d == task.day
      <4>1. d \in Days /\ ~Overlap(p, d) /\ rows \in SetToSeqs(Between(d, d)) /\ TypeOK
        BY <3>2 DEF Task, SInv, IInv
      <4>2. Availability(p, task, rows) = Reported(p, rows)
        BY <3>2 DEF Availability
      <4> HIDE DEF d
      <4>3. AwayAllDay(p, d) <=> \E i \in On(p, d) : ~absences[i].partial
        BY DEF AwayAllDay, On
      <4>4. CASE On(p, d) = {}
        BY <4>1, <4>2, <4>3, <4>4, ReportSays DEF d
      <4>5. ASSUME NEW i \in On(p, d)
            PROVE  Reported(p, rows) # "out" <=> ~AwayAllDay(p, d)
        <5>1. \A j \in On(p, d) : j = i
          BY <4>1 DEF Overlap, On
        <5>2. Reported(p, rows) = Says(i) /\ absences[i].partial \in BOOLEAN
          BY <4>1, ReportSays, AbsenceTypes DEF On
        <5> QED
          BY <4>3, <5>1, <5>2 DEF Says
      <4> QED
        BY <3>2, <4>2, <4>4, <4>5 DEF d
    <3> QED
      BY <3>1, <3>2
  <2> QED
    BY <2>1, <2>2 DEF Candidates, Roll
<1> QED
  BY <1>1, InitSerial, SerialStep, PTL DEF Spec

=============================================================================
