---------------------------- MODULE AlertsProofs ----------------------------
(***************************************************************************)
(* Histories, and the alerts derived from them: theorems about module      *)
(* Personnel first, then about module Alerts, for any persons, attributes, *)
(* dates, deadlines and worklists.                                         *)
(*                                                                         *)
(* Of the histories, for any number of requests at once: an attribute once *)
(* set always has a value, and prior values are never changed. With one    *)
(* request at a time: a history is a chain with one current row, its last, *)
(* and the histories implement Journal.                                    *)
(*                                                                         *)
(* Of the alerts, for any number of requests at once: a closed alert stays *)
(* closed and what it was about stays.  With one request at a time: no two *)
(* open alerts stand for one condition, and the queue a recompute leaves   *)
(* is what then holds.                                                     *)
(*                                                                         *)
(* Alerts has the variables of Personnel and its own, so what both need of *)
(* histories is stated of the tables alone.                                *)
(***************************************************************************)
EXTENDS Alerts, FiniteSetTheorems, TLAPS

-----------------------------------------------------------------------------
(* Carrying out a plan *)

\* What Applied does to a history: nothing, or one row closed and one added.
LEMMA AppliedFacts ==
    ASSUME NEW h \in Seq(Row), NEW plan \in Plan, NEW eff \in Days
    PROVE  LET g == Applied(h, plan, eff) IN
           /\ g \in Seq(Row)
           /\ plan = Unchanged => g = h
           /\ plan # Unchanged =>
                /\ Len(g) = Len(h) + 1
                /\ g[Len(h) + 1] = [value |-> plan.value, from |-> eff, to |-> None]
                /\ \A i \in 1 .. Len(h) :
                      g[i] = IF i = plan.close THEN [h[i] EXCEPT !.to = eff] ELSE h[i]
<1>1. CASE plan = Unchanged
  BY <1>1 DEF Applied
<1>2. CASE plan # Unchanged
  <2> DEFINE new == [value |-> plan.value, from |-> eff, to |-> None]
             closed == [i \in DOMAIN h |->
                          IF i = plan.close THEN [h[i] EXCEPT !.to = eff] ELSE h[i]]
  <2>1. new \in Row
    BY <1>2 DEF Plan, Row
  <2>2. DOMAIN h = 1 .. Len(h) /\ Len(h) \in Nat
    OBVIOUS
  <2>3. \A i \in 1 .. Len(h) : h[i] \in Row
    BY <2>2
  <2>4. \A i \in 1 .. Len(h) : [h[i] EXCEPT !.to = eff] \in Row
    BY <2>3 DEF Row
  <2>5. closed \in Seq(Row) /\ Len(closed) = Len(h)
    <3>1. closed \in [1 .. Len(h) -> Row]
      BY <2>2, <2>3, <2>4
    <3> HIDE DEF closed
    <3> QED
      BY <2>2, <3>1
  <2>6. Applied(h, plan, eff) = closed \o <<new>>
    BY <1>2 DEF Applied
  <2>7. \A i \in 1 .. Len(h) :
          closed[i] = IF i = plan.close THEN [h[i] EXCEPT !.to = eff] ELSE h[i]
    BY <2>2
  <2> HIDE DEF new, closed
  <2>8. \A s \in Seq(Row), x \in Row :
          /\ s \o <<x>> \in Seq(Row)
          /\ Len(s \o <<x>>) = Len(s) + 1
          /\ (s \o <<x>>)[Len(s) + 1] = x
          /\ \A i \in 1 .. Len(s) : (s \o <<x>>)[i] = s[i]
    OBVIOUS
  <2>9. /\ closed \o <<new>> \in Seq(Row)
        /\ Len(closed \o <<new>>) = Len(h) + 1
        /\ (closed \o <<new>>)[Len(h) + 1] = new
        /\ \A i \in 1 .. Len(h) : (closed \o <<new>>)[i] = closed[i]
    BY <2>1, <2>5, <2>8
  <2> QED
    BY <1>2, <2>6, <2>7, <2>9 DEF new
<1> QED
  BY <1>1, <1>2

\* A row and its fields.
LEMMA RowFields ==
    ASSUME NEW row \in Row
    PROVE  /\ row.value \in AnyValue
           /\ row.from \in Days
           /\ row.to \in Days \cup {None}
BY DEF Row

\* A history carries on: it keeps the values it had.
Continues(h, g) ==
    /\ Len(h) <= Len(g)
    /\ \A i \in 1 .. Len(h) :
          /\ g[i].value = h[i].value
          /\ g[i].from = h[i].from
          /\ h[i].to # None => g[i].to # None

LEMMA AppliedContinues ==
    ASSUME NEW h \in Seq(Row), NEW plan \in Plan, NEW eff \in Days
    PROVE  Continues(h, Applied(h, plan, eff))
<1> DEFINE g == Applied(h, plan, eff)
<1>1. CASE plan = Unchanged
  <2>1. Applied(h, plan, eff) = h
    BY <1>1 DEF Applied
  <2>2. Len(h) \in Nat
    OBVIOUS
  <2> QED
    BY <2>1, <2>2 DEF Continues
<1>2. CASE plan # Unchanged
  <2>1. /\ Len(g) = Len(h) + 1
        /\ \A i \in 1 .. Len(h) :
              g[i] = IF i = plan.close THEN [h[i] EXCEPT !.to = eff] ELSE h[i]
    BY <1>2, AppliedFacts
  <2> HIDE DEF g
  <2>2. ASSUME NEW i \in 1 .. Len(h)
        PROVE  /\ g[i].value = h[i].value
               /\ g[i].from = h[i].from
               /\ h[i].to # None => g[i].to # None
    <3>1. PICK row \in Row : row = h[i]
      OBVIOUS
    <3>2. g[i] = IF i = plan.close THEN [row EXCEPT !.to = eff] ELSE row
      BY <2>1, <3>1
    <3>3. [row EXCEPT !.to = eff] = [value |-> row.value, from |-> row.from, to |-> eff]
      BY DEF Row
    <3>4. eff # None
      BY DaysAssumption
    <3> QED
      BY <3>1, <3>2, <3>3, <3>4
  <2>3. Len(h) <= Len(g)
    BY <2>1
  <2> QED
    BY <2>2, <2>3 DEF Continues, g
<1> QED
  BY <1>1, <1>2

\* A plan leaves no history without an open row.
LEMMA AppliedOpen ==
    ASSUME NEW h \in Seq(Row), NEW plan \in Plan, NEW eff \in Days,
           h # <<>> => Open(h) # {}
    PROVE  LET g == Applied(h, plan, eff) IN g # <<>> => Open(g) # {}
<1> DEFINE g == Applied(h, plan, eff)
<1>1. CASE plan = Unchanged
  BY <1>1 DEF Applied
<1>2. CASE plan # Unchanged
  <2>1. /\ g \in Seq(Row)
        /\ Len(g) = Len(h) + 1
        /\ g[Len(h) + 1] = [value |-> plan.value, from |-> eff, to |-> None]
    BY <1>2, AppliedFacts
  <2> HIDE DEF g
  <2>2. Len(h) + 1 \in DOMAIN g /\ g[Len(h) + 1].to = None
    BY <2>1
  <2> QED
    BY <2>2 DEF Open, g
<1> QED
  BY <1>1, <1>2

\* A chain, by history.
IsChain(h) ==
    \A i \in DOMAIN h : h[i].to = IF i = Len(h) THEN None ELSE h[i + 1].from

\* What follows an index that is not the last.
LEMMA NotLast ==
    ASSUME NEW n \in Nat
    PROVE  /\ \A i \in 1 .. n : /\ i # n + 1
                               /\ i # n => i + 1 \in 1 .. n
           /\ \A i \in 1 .. n + 1 : i # n + 1 => i \in 1 .. n
OBVIOUS

\* A plan that closes the last row makes a chain longer.
LEMMA AppliedChained ==
    ASSUME NEW h \in Seq(Row), NEW plan \in Plan, NEW eff \in Days, IsChain(h),
           plan # Unchanged => plan.close = Len(h)
    PROVE  IsChain(Applied(h, plan, eff))
<1> DEFINE g == Applied(h, plan, eff)
<1>1. CASE plan = Unchanged
  BY <1>1 DEF Applied
<1>2. CASE plan # Unchanged
  <2>1. /\ g \in Seq(Row)
        /\ Len(g) = Len(h) + 1
        /\ g[Len(h) + 1] = [value |-> plan.value, from |-> eff, to |-> None]
        /\ \A i \in 1 .. Len(h) :
              g[i] = IF i = Len(h) THEN [h[i] EXCEPT !.to = eff] ELSE h[i]
    BY <1>2, AppliedFacts
  <2>2. Len(h) \in Nat /\ DOMAIN h = 1 .. Len(h) /\ \A i \in 1 .. Len(h) : h[i] \in Row
    OBVIOUS
  <2> HIDE DEF g
  <2>3. \A row \in Row : /\ [row EXCEPT !.to = eff].from = row.from
                         /\ [row EXCEPT !.to = eff].to = eff
    BY DEF Row
  <2>4. DOMAIN g = 1 .. Len(h) + 1
    BY <2>1
  <2>5. ASSUME NEW i \in 1 .. Len(h) + 1
        PROVE  g[i].to = IF i = Len(g) THEN None ELSE g[i + 1].from
    <3>1. CASE i = Len(h) + 1
      BY <2>1, <3>1
    <3>2. CASE i = Len(h) /\ i # Len(h) + 1
      <4>1. i \in 1 .. Len(h) /\ i # Len(g)
        BY <2>1, <2>2, <3>2, NotLast
      <4>2. g[i] = [h[i] EXCEPT !.to = eff] /\ h[i] \in Row
        BY <2>1, <2>2, <3>2, <4>1
      <4>3. g[i + 1].from = eff
        BY <2>1, <3>2
      <4> QED
        BY <2>3, <4>1, <4>2, <4>3
    <3>3. CASE i # Len(h) /\ i # Len(h) + 1
      <4>1. i \in 1 .. Len(h) /\ i + 1 \in 1 .. Len(h) /\ i # Len(g)
        BY <2>1, <2>2, <3>3, NotLast
      <4>2. g[i].to = h[i].to /\ h[i].to = h[i + 1].from
        BY <2>1, <2>2, <3>3, <4>1 DEF IsChain
      <4>3. g[i + 1].from = h[i + 1].from
        BY <2>1, <2>2, <2>3, <4>1
      <4> QED
        BY <2>1, <3>3, <4>2, <4>3
    <3> QED
      BY <3>1, <3>2, <3>3
  <2> QED
    BY <2>4, <2>5 DEF IsChain, g
<1> QED
  BY <1>1, <1>2

\* In a chain current_row finds the last row, or nothing in an empty one.
LEMMA ChainCurrent ==
    ASSUME NEW h \in Seq(Row), IsChain(h)
    PROVE  /\ Open(h) \subseteq {Len(h)}
           /\ CurrentRows(h) = IF h = <<>> THEN {} ELSE {Len(h)}
<1>1. Len(h) \in Nat /\ DOMAIN h = 1 .. Len(h) /\ \A i \in 1 .. Len(h) : h[i] \in Row
  OBVIOUS
<1>2. ASSUME NEW i \in 1 .. Len(h), i # Len(h)
      PROVE  h[i].to # None
  <2>1. i + 1 \in 1 .. Len(h)
    <3>1. PICK n \in Nat : n = Len(h)
      BY <1>1
    <3> QED
      BY <1>2, <3>1, NotLast
  <2>2. h[i + 1] \in Row /\ h[i].to = h[i + 1].from
    BY <1>1, <1>2, <2>1 DEF IsChain
  <2> QED
    BY <2>2, RowFields, DaysAssumption
<1>3. h # <<>> => Len(h) \in 1 .. Len(h) /\ h[Len(h)].to = None
  BY <1>1 DEF IsChain
<1>4. h # <<>> => h[Len(h)].from \in Nat
  BY <1>1, <1>3, RowFields, DaysAssumption
<1>5. h = <<>> => 1 .. Len(h) = {}
  OBVIOUS
<1> QED
  BY <1>1, <1>2, <1>3, <1>4, <1>5 DEF Open, CurrentRows

-----------------------------------------------------------------------------
(* The invariant, for any number of requests *)

\* The tables alone: what TypeOK says, but for the requests.
Tables ==
    /\ active \in Seq(BOOLEAN)
    /\ hist \in Seq([Attributes -> Seq(Row)])
    /\ today \in Days
    /\ Len(hist) = Len(active)

LEMMA TablesTyped == TypeOK <=> Tables /\ req \in [Requests -> Request]
BY DEF TypeOK, Tables

\* An edit is of a person there is.
Ready(q) == q.op \in {"edit", "archive"} => q.person \in Persons

IInv == TypeOK /\ AlwaysCurrent /\ \A r \in Requests : Ready(req[r])

\* The plan closes the last row of the history, and brings another value.
Telling(h, plan) ==
    plan # Unchanged => /\ plan.close = Len(h)
                        /\ h # <<>> => h[Len(h)].value # plan.value

\* With one request at a time, an edit closes the last row of each history, for
\* another value, and a creation closes none.
Fresh(q) ==
    /\ q.op \in {"edit", "archive"} => \A a \in Attributes : Telling(hist[q.person][a], q.plan[a])
    /\ q.op = "create" => \A a \in Attributes : q.plan[a].close = 0

SInv == Chained /\ \A r \in Requests : Fresh(req[r])

\* A person's histories.
LEMMA HistType ==
    ASSUME Tables, NEW p \in Persons
    PROVE  /\ p \in 1 .. Len(hist)
           /\ hist[p] \in [Attributes -> Seq(Row)]
BY DEF Tables, Persons

\* The parts of a request that has begun.
LEMMA RequestParts ==
    ASSUME NEW q \in Request, q # Idle
    PROVE  /\ q.op \in {"create", "edit", "archive"}
           /\ q.person \in Nat
           /\ q.eff \in Days
           /\ q.plan \in [Attributes -> Plan]
BY DEF Request

\* The plan an edit decides on is well formed; on chains, it closes last rows.
LEMMA EditBegins ==
    ASSUME Tables, NEW r \in Requests, NEW op \in {"edit", "archive"},
           NEW p \in Persons, NEW eff \in Days,
           NEW form \in [Attributes -> AnyValue \cup {None}],
           BeginEdit(r, op, p, form, eff)
    PROVE  \E q \in Request \ {Idle} : /\ Ready(q)
                                       /\ Chained => Fresh(q)
                                       /\ Begin(r, q)
<1>1. hist[p] \in [Attributes -> Seq(Row)] /\ p \in Nat
  BY HistType
<1>2. PICK cur \in [Attributes -> 0 .. MaxRows] :
        /\ \A a \in Attributes :
              IF form[a] = None \/ CurrentRows(hist[p][a]) = {}
              THEN cur[a] = 0
              ELSE cur[a] \in CurrentRows(hist[p][a])
        /\ Begin(r, [op |-> op, person |-> p, eff |-> eff,
                     plan |-> [a \in Attributes |->
                        IF form[a] = None THEN Unchanged
                        ELSE SetNewValue(hist[p][a], cur[a], form[a])]])
  BY DEF BeginEdit
<1> DEFINE plan == [a \in Attributes |->
                        IF form[a] = None THEN Unchanged
                        ELSE SetNewValue(hist[p][a], cur[a], form[a])]
           q == [op |-> op, person |-> p, eff |-> eff, plan |-> plan]
<1>3. \A a \in Attributes : cur[a] \in Nat /\ form[a] \in AnyValue \cup {None}
  BY PersonnelBoundsAssumption
<1>4. \A a \in Attributes : plan[a] \in Plan
  BY <1>3 DEF Plan, SetNewValue
<1>5. plan \in [Attributes -> Plan]
  <2> HIDE DEF plan
  <2> QED
    BY <1>4 DEF plan
<1>6. q \in Request
  <2> HIDE DEF plan
  <2> QED
    BY <1>1, <1>5 DEF Request
<1>7. Ready(q)
  BY DEF Ready
<1>8. ASSUME Chained, NEW a \in Attributes, plan[a] # Unchanged
      PROVE  /\ plan[a].close = Len(hist[p][a])
             /\ hist[p][a] # <<>> => hist[p][a][Len(hist[p][a])].value # plan[a].value
  <2>1. form[a] # None /\ plan[a] = SetNewValue(hist[p][a], cur[a], form[a])
    BY <1>8
  <2>2. plan[a].close = cur[a]
    BY <1>8, <2>1 DEF SetNewValue
  <2>3. hist[p][a] \in Seq(Row) /\ IsChain(hist[p][a])
    BY <1>1, <1>8 DEF Chained, IsChain
  <2>4. CurrentRows(hist[p][a]) = IF hist[p][a] = <<>> THEN {} ELSE {Len(hist[p][a])}
    BY <2>3, ChainCurrent
  <2>5. hist[p][a] = <<>> => Len(hist[p][a]) = 0
    OBVIOUS
  <2>6. plan[a].close = Len(hist[p][a])
    BY <1>2, <2>1, <2>2, <2>4, <2>5
  <2>7. plan[a].value = form[a]
        /\ ~(cur[a] \in DOMAIN hist[p][a] /\ hist[p][a][cur[a]].value = form[a])
    BY <1>8, <2>1 DEF SetNewValue
  <2>8. hist[p][a] # <<>> => Len(hist[p][a]) \in DOMAIN hist[p][a]
    BY <2>3
  <2> QED
    BY <2>2, <2>6, <2>7, <2>8
<1>9. Chained => Fresh(q)
  <2> HIDE DEF plan
  <2> QED
    BY <1>8 DEF Fresh, Telling
<1>10. q # Idle
  BY DEF Idle
<1>11. Begin(r, q)
  BY <1>2
<1> HIDE DEF q
<1> QED
  BY <1>6, <1>7, <1>9, <1>10, <1>11

\* The actions that begin a request.
BeginStep(r) ==
    \/ \E form \in Forms : BeginCreatePerson(r, form)
    \/ \E form \in Forms : BeginCreateIncoming(r, form)
    \/ \E p \in Persons, form \in Forms, eff \in FormDays : BeginUpdatePerson(r, p, form, eff)
    \/ \E p \in Persons : BeginMarkArrived(r, p)
    \/ \E p \in Persons : BeginArchivePerson(r, p)

\* A form that sets the roster status alone.
LEMMA RosterOnlyType ==
    ASSUME NEW status \in Values["roster"]
    PROVE  RosterOnly(status) \in [Attributes -> AnyValue \cup {None}]
<1>1. status \in AnyValue
  BY AttributesAssumption DEF AnyValue
<1> QED
  BY <1>1 DEF RosterOnly

\* A creation is well formed.
LEMMA CreateBegins ==
    ASSUME Tables, NEW r \in Requests,
           NEW form \in [Attributes -> AnyValue \cup {None}],
           BeginCreatePerson(r, form)
    PROVE  \E q \in Request \ {Idle} : /\ Ready(q)
                                       /\ Chained => Fresh(q)
                                       /\ Begin(r, q)
<1> DEFINE plan == [a \in Attributes |-> [close |-> 0, value |-> form[a]]]
           q == [op |-> "create", person |-> 0, eff |-> today, plan |-> plan]
<1>1. \A a \in Attributes : [close |-> 0, value |-> form[a]] \in Plan
  BY DEF Plan, Unchanged
<1>2. plan \in [Attributes -> Plan]
  BY <1>1
<1>3. Begin(r, q)
  BY DEF BeginCreatePerson
<1>6. \A a \in Attributes : plan[a].close = 0
  OBVIOUS
<1> HIDE DEF plan
<1>4. q \in Request \ {Idle}
  BY <1>2 DEF Request, Idle, Tables
<1>5. Ready(q) /\ Fresh(q)
  BY <1>6 DEF Ready, Fresh
<1> QED
  BY <1>3, <1>4, <1>5

\* Every request that begins is well formed; on chains, it is fresh.
LEMMA EveryRequestBegins ==
    ASSUME Tables, NEW r \in Requests, BeginStep(r)
    PROVE  \E q \in Request \ {Idle} : /\ Ready(q)
                                       /\ Chained => Fresh(q)
                                       /\ Begin(r, q)
<1>1. Forms \subseteq [Attributes -> AnyValue \cup {None}]
  BY DEF Forms
<1>2. \A form \in Forms : "rate" \in Attributes => form["rate"] \in AnyValue \cup {None}
  BY <1>1
<1>3. {Active, Incoming, Departed} \subseteq AnyValue
  BY AttributesAssumption, ValuesAssumption DEF AnyValue
<1>4. today \in Days
  BY DEF Tables
<1>5. CASE \E form \in Forms : BeginCreatePerson(r, form)
  BY <1>1, <1>5, CreateBegins
<1>6. CASE \E form \in Forms : BeginCreateIncoming(r, form)
  <2>1. PICK form \in Forms : BeginCreateIncoming(r, form)
    BY <1>6
  <2> DEFINE given == [a \in Attributes |->
        CASE a = "roster" -> Incoming [] a = "rate" -> form[a] [] OTHER -> None]
  <2>2. \A a \in Attributes : given[a] \in AnyValue \cup {None}
    BY <1>2, <1>3
  <2>3. given \in [Attributes -> AnyValue \cup {None}]
    <3> DEFINE val(a) == CASE a = "roster" -> Incoming
                           [] a = "rate" -> form[a] [] OTHER -> None
    <3>1. \A a \in Attributes : val(a) \in AnyValue \cup {None}
      BY <1>2, <1>3
    <3> HIDE DEF val
    <3>2. [a \in Attributes |-> val(a)] \in [Attributes -> AnyValue \cup {None}]
      BY <3>1
    <3> QED
      BY <3>2 DEF val
  <2>4. BeginCreatePerson(r, given)
    BY <2>1 DEF BeginCreateIncoming
  <2> HIDE DEF given
  <2> QED
    BY <2>3, <2>4, CreateBegins
<1>7. CASE \E p \in Persons, form \in Forms, eff \in FormDays :
              BeginUpdatePerson(r, p, form, eff)
  BY <1>1, <1>7, EditBegins, FormsAssumption DEF BeginUpdatePerson
<1>8. CASE \E p \in Persons : BeginMarkArrived(r, p)
  BY <1>4, <1>8, EditBegins, RosterOnlyType, ValuesAssumption DEF BeginMarkArrived
<1>9. CASE \E p \in Persons : BeginArchivePerson(r, p)
  BY <1>4, <1>9, EditBegins, RosterOnlyType, ValuesAssumption DEF BeginArchivePerson
<1> QED
  BY <1>5, <1>6, <1>7, <1>8, <1>9 DEF BeginStep

LEMMA NextCases ==
    Next <=> \/ \E r \in Requests :
                    BeginStep(r) \/ CommitCreate(r) \/ CommitEdit(r) \/ Rollback(r)
             \/ NextDay
BY DEF Next, PersonnelRequest, BeginStep

-----------------------------------------------------------------------------
(* Each step keeps the invariant *)

\* A step that leaves the persons and histories alone and puts requests that are
\* well formed keeps the invariant.
LEMMA QuietStep ==
    ASSUME IInv, UNCHANGED <<active, hist>>, today' \in Days,
           req' \in [Requests -> Request],
           \A r \in Requests : Ready(req'[r])
    PROVE  IInv'
<1>1. TypeOK'
  BY DEF IInv, TypeOK
<1>2. AlwaysCurrent'
  BY DEF IInv, AlwaysCurrent, Persons, Open
<1>3. \A r \in Requests : Ready(req[r])'
  BY DEF Ready, Persons
<1> QED
  BY <1>1, <1>2, <1>3 DEF IInv

LEMMA BeginKeeps ==
    ASSUME IInv, NEW r \in Requests, BeginStep(r)
    PROVE  IInv'
<1>1. PICK q \in Request \ {Idle} : Ready(q) /\ Begin(r, q)
  BY EveryRequestBegins, TablesTyped DEF IInv
<1>2. UNCHANGED <<active, hist, today>> /\ req' = [req EXCEPT ![r] = q]
  BY <1>1 DEF Begin
<1>3. req' \in [Requests -> Request]
  BY <1>1, <1>2 DEF IInv, TypeOK
<1>4. \A u \in Requests : Ready(req'[u])
  <2>1. ASSUME NEW u \in Requests PROVE Ready(req'[u])
    <3>1. req'[u] = IF u = r THEN q ELSE req[u]
      BY <1>2 DEF IInv, TypeOK
    <3> QED
      BY <1>1, <3>1 DEF IInv
  <2> QED
    BY <2>1
<1> QED
  BY <1>2, <1>3, <1>4, QuietStep DEF IInv, TypeOK

\* A slot that becomes idle.
LEMMA SlotFreed ==
    ASSUME IInv, NEW r \in Requests, req' = [req EXCEPT ![r] = Idle]
    PROVE  /\ req' \in [Requests -> Request]
           /\ \A u \in Requests : req'[u] = IF u = r THEN Idle ELSE req[u]
           /\ \A u \in Requests : Ready(req'[u])
<1>1. Idle \in Request
  BY DEF Request
<1>2. req \in [Requests -> Request]
  BY DEF IInv, TypeOK
<1>3. \A u \in Requests : req'[u] = IF u = r THEN Idle ELSE req[u]
  BY <1>2
<1>4. Ready(Idle)
  BY DEF Ready, Idle
<1> QED
  BY <1>1, <1>2, <1>3, <1>4 DEF IInv

\* What a creation writes.
LEMMA CreateWrites ==
    ASSUME Tables, NEW r \in Requests, req[r] \in Request, CommitCreate(r)
    PROVE  LET new == [a \in Attributes |-> Applied(<<>>, req[r].plan[a], req[r].eff)] IN
           /\ hist' = Append(hist, new)
           /\ new \in [Attributes -> Seq(Row)]
           /\ \A a \in Attributes : /\ new[a] # <<>> => Open(new[a]) # {}
                                    /\ req[r].plan[a].close = 0 => IsChain(new[a])
           /\ active' = Append(active, TRUE)
           /\ Persons' = Persons \cup {Len(hist) + 1}
           /\ \A p \in Persons : hist'[p] = hist[p]
           /\ hist'[Len(hist) + 1] = new
           /\ hist' \in Seq([Attributes -> Seq(Row)])
           /\ active' \in Seq(BOOLEAN)
           /\ Len(hist') = Len(active')
<1> DEFINE new == [a \in Attributes |-> Applied(<<>>, req[r].plan[a], req[r].eff)]
<1>1. req[r].eff \in Days /\ \A a \in Attributes : req[r].plan[a] \in Plan
  <2>1. PICK q \in Request : q = req[r]
    OBVIOUS
  <2>2. q # Idle
    BY <2>1 DEF CommitCreate, Idle
  <2> QED
    BY <2>1, <2>2, RequestParts
<1>2. <<>> \in Seq(Row) /\ IsChain(<<>>) /\ Len(<<>>) = 0
  BY DEF IsChain
<1>3. \A a \in Attributes : new[a] = Applied(<<>>, req[r].plan[a], req[r].eff)
  OBVIOUS
<1>4. \A a \in Attributes : new[a] \in Seq(Row)
  BY <1>1, <1>2, AppliedFacts
<1>5. new \in [Attributes -> Seq(Row)]
  <2>1. new = [a \in Attributes |-> new[a]]
    OBVIOUS
  <2> HIDE DEF new
  <2> QED
    BY <1>4, <2>1
<1>6. \A a \in Attributes : new[a] # <<>> => Open(new[a]) # {}
  BY <1>1, <1>2, <1>3, AppliedOpen
<1>7. \A a \in Attributes : req[r].plan[a].close = 0 => IsChain(new[a])
  BY <1>1, <1>2, <1>3, AppliedChained
<1>8. hist' = Append(hist, new) /\ active' = Append(active, TRUE)
  BY DEF CommitCreate
<1> HIDE DEF new
<1>9. /\ hist \in Seq([Attributes -> Seq(Row)])
      /\ active \in Seq(BOOLEAN)
      /\ Len(hist) = Len(active)
  BY DEF Tables
<1>10. /\ hist' \in Seq([Attributes -> Seq(Row)])
       /\ Len(hist') = Len(hist) + 1
       /\ \A p \in 1 .. Len(hist) : hist'[p] = hist[p]
       /\ hist'[Len(hist) + 1] = new
  BY <1>5, <1>8, <1>9
<1>11. /\ active' \in Seq(BOOLEAN)
       /\ Len(active') = Len(active) + 1
  BY <1>8, <1>9
<1>12. Persons = 1 .. Len(hist) /\ Persons' = 1 .. Len(hist) + 1
  BY <1>9, <1>11 DEF Persons
<1>13. 1 .. Len(hist) + 1 = 1 .. Len(hist) \cup {Len(hist) + 1}
  BY <1>9
<1> QED
  BY <1>5, <1>6, <1>7, <1>8, <1>9, <1>10, <1>11, <1>12, <1>13 DEF new

\* Clearing one flag of a sequence of flags.
LEMMA FlagCleared ==
    ASSUME NEW s \in Seq(BOOLEAN), NEW i \in DOMAIN s
    PROVE  /\ [s EXCEPT ![i] = FALSE] \in Seq(BOOLEAN)
           /\ Len([s EXCEPT ![i] = FALSE]) = Len(s)
<1>1. s \in [1 .. Len(s) -> BOOLEAN] /\ Len(s) \in Nat
  OBVIOUS
<1>2. [s EXCEPT ![i] = FALSE] \in [1 .. Len(s) -> BOOLEAN]
  BY <1>1
<1> QED
  BY <1>1, <1>2

\* What it writes to carry out the plan for a person, who may be archived by it.
LEMMA HistoriesWritten ==
    ASSUME Tables, NEW p \in Persons, NEW eff \in Days,
           NEW plan, \A a \in Attributes : plan[a] \in Plan,
           hist' = [hist EXCEPT ![p] =
                        [a \in Attributes |-> Applied(hist[p][a], plan[a], eff)]],
           active' = active \/ active' = [active EXCEPT ![p] = FALSE]
    PROVE  LET new == [a \in Attributes |-> Applied(hist[p][a], plan[a], eff)] IN
           /\ new \in [Attributes -> Seq(Row)]
           /\ Persons' = Persons
           /\ \A u \in Persons : hist'[u] = IF u = p THEN new ELSE hist[u]
           /\ hist' \in Seq([Attributes -> Seq(Row)])
           /\ active' \in Seq(BOOLEAN)
           /\ Len(hist') = Len(active')
<1> DEFINE new == [a \in Attributes |-> Applied(hist[p][a], plan[a], eff)]
<1>1. hist[p] \in [Attributes -> Seq(Row)] /\ p \in 1 .. Len(hist)
  BY HistType
<1>2. \A a \in Attributes : new[a] = Applied(hist[p][a], plan[a], eff)
  OBVIOUS
<1>3. \A a \in Attributes : new[a] \in Seq(Row)
  <2> HIDE DEF new
  <2>1. ASSUME NEW a \in Attributes PROVE new[a] \in Seq(Row)
    <3>1. hist[p][a] \in Seq(Row) /\ plan[a] \in Plan
      BY <1>1
    <3>2. Applied(hist[p][a], plan[a], eff) \in Seq(Row)
      BY <3>1, AppliedFacts
    <3> QED
      BY <1>2, <3>2
  <2> QED
    BY <2>1
<1>4. new \in [Attributes -> Seq(Row)]
  <2>1. new = [a \in Attributes |-> new[a]]
    OBVIOUS
  <2> HIDE DEF new
  <2> QED
    BY <1>3, <2>1
<1>5. hist' = [hist EXCEPT ![p] = new]
  OBVIOUS
<1>6. p \in DOMAIN active
  BY DEF Persons
<1> HIDE DEF new
<1>7. /\ hist \in Seq([Attributes -> Seq(Row)])
      /\ active \in Seq(BOOLEAN)
      /\ Len(hist) = Len(active)
  BY DEF Tables
<1>8. /\ hist' \in Seq([Attributes -> Seq(Row)])
      /\ Len(hist') = Len(hist)
      /\ \A u \in 1 .. Len(hist) : hist'[u] = IF u = p THEN new ELSE hist[u]
  BY <1>1, <1>4, <1>5, <1>7
<1>9. /\ active' \in Seq(BOOLEAN)
      /\ Len(active') = Len(active)
  BY <1>6, <1>7, FlagCleared
<1>10. Persons = 1 .. Len(hist) /\ Persons' = 1 .. Len(hist)
  BY <1>7, <1>9 DEF Persons
<1> QED
  BY <1>4, <1>7, <1>8, <1>9, <1>10 DEF new

\* What an edit writes.
LEMMA EditWrites ==
    ASSUME Tables, NEW r \in Requests, req[r] \in Request, Ready(req[r]), CommitEdit(r)
    PROVE  LET q == req[r]
               new == [a \in Attributes |-> Applied(hist[q.person][a], q.plan[a], q.eff)] IN
           /\ q.person \in Persons
           /\ q.eff \in Days
           /\ \A a \in Attributes : q.plan[a] \in Plan
           /\ new \in [Attributes -> Seq(Row)]
           /\ Persons' = Persons
           /\ \A p \in Persons : hist'[p] = IF p = q.person THEN new ELSE hist[p]
           /\ hist' \in Seq([Attributes -> Seq(Row)])
           /\ active' \in Seq(BOOLEAN)
           /\ Len(hist') = Len(active')
<1>1. PICK q \in Request : q = req[r]
  OBVIOUS
<1>2. q # Idle /\ q.op \in {"edit", "archive"}
  BY <1>1 DEF CommitEdit, Idle
<1>3. q.person \in Persons
  BY <1>1, <1>2 DEF Ready
<1>4. q.eff \in Days /\ \A a \in Attributes : q.plan[a] \in Plan
  BY <1>2, RequestParts
<1>5. /\ hist' = [hist EXCEPT ![q.person] =
                [a \in Attributes |-> Applied(hist[q.person][a], q.plan[a], q.eff)]]
      /\ active' = active \/ active' = [active EXCEPT ![q.person] = FALSE]
  BY <1>1 DEF CommitEdit
<1> DEFINE new == [a \in Attributes |-> Applied(hist[q.person][a], q.plan[a], q.eff)]
<1>6. /\ new \in [Attributes -> Seq(Row)]
      /\ Persons' = Persons
      /\ \A p \in Persons : hist'[p] = IF p = q.person THEN new ELSE hist[p]
      /\ hist' \in Seq([Attributes -> Seq(Row)])
      /\ active' \in Seq(BOOLEAN)
      /\ Len(hist') = Len(active')
  <2>1. PICK p \in Persons, eff \in Days, plan \in {q.plan} : p = q.person /\ eff = q.eff
    BY <1>3, <1>4
  <2> QED
    BY <1>4, <1>5, <2>1, HistoriesWritten
<1> QED
  BY <1>1, <1>3, <1>4, <1>6

\* In a state of the invariant.
LEMMA RequestReady ==
    ASSUME IInv, NEW r \in Requests
    PROVE  Tables /\ req[r] \in Request /\ Ready(req[r])
BY TablesTyped DEF IInv

LEMMA CreateKeeps ==
    ASSUME IInv, NEW r \in Requests, CommitCreate(r)
    PROVE  IInv'
<1>1. req' = [req EXCEPT ![r] = Idle] /\ today' = today
  BY DEF CommitCreate
<1>2. TypeOK'
  BY <1>1, CreateWrites, RequestReady, SlotFreed DEF IInv, TypeOK
<1>3. AlwaysCurrent'
  <2>1. ASSUME NEW p \in Persons', NEW a \in Attributes, hist'[p][a] # <<>>
        PROVE  Open(hist'[p][a]) # {}
    <3>1. CASE p \in Persons
      BY <2>1, <3>1, CreateWrites, RequestReady DEF IInv, AlwaysCurrent
    <3>2. CASE p \notin Persons
      BY <2>1, <3>2, CreateWrites, RequestReady
    <3> QED
      BY <3>1, <3>2
  <2> QED
    BY <2>1 DEF AlwaysCurrent, Open
<1>4. \A u \in Requests : Ready(req[u])'
  BY <1>1, CreateWrites, RequestReady, SlotFreed DEF Ready
<1> QED
  BY <1>2, <1>3, <1>4 DEF IInv

LEMMA EditKeeps ==
    ASSUME IInv, NEW r \in Requests, CommitEdit(r)
    PROVE  IInv'
<1>1. req' = [req EXCEPT ![r] = Idle] /\ today' = today
  BY DEF CommitEdit
<1>2. TypeOK'
  BY <1>1, EditWrites, RequestReady, SlotFreed DEF IInv, TypeOK
<1>3. AlwaysCurrent'
  <2>1. ASSUME NEW p \in Persons, NEW a \in Attributes, hist'[p][a] # <<>>
        PROVE  Open(hist'[p][a]) # {}
    <3>1. CASE p # req[r].person
      BY <2>1, <3>1, EditWrites, RequestReady DEF IInv, AlwaysCurrent
    <3>2. CASE p = req[r].person
      <4>1. hist'[p][a] = Applied(hist[p][a], req[r].plan[a], req[r].eff)
        BY <3>2, EditWrites, RequestReady
      <4>2. hist[p][a] \in Seq(Row)
        BY HistType, TablesTyped DEF IInv
      <4>3. hist[p][a] # <<>> => Open(hist[p][a]) # {}
        BY DEF IInv, AlwaysCurrent
      <4> QED
        BY <2>1, <4>1, <4>2, <4>3, EditWrites, RequestReady, AppliedOpen
    <3> QED
      BY <3>1, <3>2
  <2> QED
    BY <2>1, EditWrites, RequestReady DEF AlwaysCurrent, Open
<1>4. \A u \in Requests : Ready(req[u])'
  BY <1>1, EditWrites, RequestReady, SlotFreed DEF Ready
<1> QED
  BY <1>2, <1>3, <1>4 DEF IInv

LEMMA StepKeeps == IInv /\ [Next]_vars => IInv'
<1> SUFFICES ASSUME IInv, [Next]_vars
             PROVE  IInv'
  OBVIOUS
<1>1. TypeOK
  BY DEF IInv
<1>2. CASE UNCHANGED vars
  BY <1>1, <1>2, QuietStep DEF vars, IInv, TypeOK
<1>3. CASE NextDay
  BY <1>1, <1>3, QuietStep DEF NextDay, IInv, TypeOK
<1>4. ASSUME NEW r \in Requests, BeginStep(r) PROVE IInv'
  BY <1>4, BeginKeeps
<1>5. ASSUME NEW r \in Requests, CommitCreate(r) PROVE IInv'
  BY <1>5, CreateKeeps
<1>6. ASSUME NEW r \in Requests, CommitEdit(r) PROVE IInv'
  BY <1>6, EditKeeps
<1>7. ASSUME NEW r \in Requests, Rollback(r) PROVE IInv'
  BY <1>1, <1>7, SlotFreed, QuietStep DEF Rollback, TypeOK
<1> QED
  BY <1>2, <1>3, <1>4, <1>5, <1>6, <1>7, NextCases

LEMMA InitKeeps == Init => IInv
<1> SUFFICES ASSUME Init PROVE IInv
  OBVIOUS
<1>1. Persons = {}
  BY DEF Init, Persons
<1>2. TypeOK
  <2>1. active \in Seq(BOOLEAN) /\ hist \in Seq([Attributes -> Seq(Row)])
    BY DEF Init
  <2>2. req \in [Requests -> Request]
    BY DEF Init, Request
  <2> QED
    BY <2>1, <2>2, DaysAssumption DEF Init, TypeOK
<1>3. \A r \in Requests : Ready(req[r])
  BY DEF Init, Ready, Idle
<1> QED
  BY <1>1, <1>2, <1>3 DEF IInv, AlwaysCurrent

LEMMA Invariance == Spec => []IInv
BY InitKeeps, StepKeeps, PTL DEF Spec

\* Persons, histories and pending requests keep their shape.
THEOREM TypeCorrect == Spec => []TypeOK
<1>1. IInv => TypeOK
  BY DEF IInv
<1> QED
  BY <1>1, Invariance, PTL

\* However many requests interleave, an attribute once set has an open row:
\* closing one row and adding the next are never torn apart.
THEOREM CurrentAlways == Spec => []AlwaysCurrent
<1>1. IInv => AlwaysCurrent
  BY DEF IInv
<1> QED
  BY <1>1, Invariance, PTL

-----------------------------------------------------------------------------
(* Prior values *)

\* A step carries every history on.
LEMMA StepContinues ==
    ASSUME IInv, [Next]_vars, NEW p \in Persons, NEW a \in Attributes
    PROVE  Continues(hist[p][a], hist'[p][a])
<1>1. hist[p][a] \in Seq(Row)
  BY HistType, TablesTyped DEF IInv
<1>2. hist'[p][a] = hist[p][a] => Continues(hist[p][a], hist'[p][a])
  <2>1. Len(hist[p][a]) <= Len(hist[p][a])
    BY <1>1
  <2> QED
    BY <2>1 DEF Continues
<1>3. CASE UNCHANGED hist
  BY <1>2, <1>3
<1>4. ASSUME NEW r \in Requests, BeginStep(r) PROVE UNCHANGED hist
  BY <1>4, EveryRequestBegins, RequestReady DEF Begin
<1>5. ASSUME NEW r \in Requests, CommitCreate(r)
      PROVE  Continues(hist[p][a], hist'[p][a])
  BY <1>2, <1>5, CreateWrites, RequestReady
<1>6. ASSUME NEW r \in Requests, CommitEdit(r)
      PROVE  Continues(hist[p][a], hist'[p][a])
  <2>1. CASE p # req[r].person
    BY <1>2, <1>6, <2>1, EditWrites, RequestReady
  <2>2. CASE p = req[r].person
    <3>1. hist'[p][a] = Applied(hist[p][a], req[r].plan[a], req[r].eff)
      BY <1>6, <2>2, EditWrites, RequestReady
    <3> QED
      BY <1>1, <1>6, <3>1, EditWrites, RequestReady, AppliedContinues
  <2> QED
    BY <2>1, <2>2
<1>7. ASSUME NEW r \in Requests, Rollback(r) PROVE UNCHANGED hist
  BY <1>7 DEF Rollback
<1> QED
  BY <1>3, <1>4, <1>5, <1>6, <1>7, NextCases DEF vars, NextDay

\* "We never silently mutate prior values": no step, however requests are
\* interleaved and dated, changes the value or the start of a row, opens a closed
\* one, or drops one.
THEOREM PriorValues == Spec => PriorValuesKept
<1> DEFINE Kept == \A p \in Persons, a \in Attributes :
        /\ Len(hist[p][a]) <= Len(hist'[p][a])
        /\ \A i \in DOMAIN hist[p][a] : LET old == hist[p][a][i]
                                            new == hist'[p][a][i] IN
            /\ new.value = old.value
            /\ new.from = old.from
            /\ old.to # None => new.to # None
<1>1. IInv /\ [Next]_vars => [Kept]_vars
  <2> SUFFICES ASSUME IInv, [Next]_vars PROVE Kept
    OBVIOUS
  <2>1. \A p \in Persons, a \in Attributes :
          DOMAIN hist[p][a] = 1 .. Len(hist[p][a])
    BY HistType, TablesTyped DEF IInv
  <2> QED
    BY <2>1, StepContinues DEF Continues
<1> QED
  BY <1>1, Invariance, PTL DEF Spec, PriorValuesKept

-----------------------------------------------------------------------------
(* With one request at a time *)

OneAtATime == \A r1, r2 \in Requests : r1 = r2

LEMMA IdleFresh == Fresh(Idle) /\ Fresh(Idle)'
BY DEF Fresh, Idle

LEMMA SerialBegins ==
    ASSUME IInv, SInv, OneAtATime, NEW r \in Requests, BeginStep(r)
    PROVE  SInv'
<1>1. PICK q \in Request \ {Idle} : Fresh(q) /\ Begin(r, q)
  BY EveryRequestBegins, RequestReady DEF SInv
<1>2. UNCHANGED <<active, hist>> /\ req' = [req EXCEPT ![r] = q]
  BY <1>1 DEF Begin
<1>3. Chained'
  BY <1>2 DEF SInv, Chained, Persons
<1>4. ASSUME NEW u \in Requests PROVE Fresh(req[u])'
  <2>1. req'[u] = q
    BY <1>2 DEF OneAtATime, IInv, TypeOK
  <2> QED
    BY <1>1, <1>2, <2>1 DEF Fresh
<1> QED
  BY <1>3, <1>4 DEF SInv

LEMMA SerialFrees ==
    ASSUME IInv, OneAtATime, NEW r \in Requests, req' = [req EXCEPT ![r] = Idle]
    PROVE  \A u \in Requests : Fresh(req[u])'
<1>1. ASSUME NEW u \in Requests PROVE Fresh(req[u])'
  <2>1. req'[u] = Idle
    BY SlotFreed DEF OneAtATime
  <2> QED
    BY <2>1, IdleFresh DEF Fresh
<1> QED
  BY <1>1

LEMMA CreateChains ==
    ASSUME Tables, Chained, NEW r \in Requests, req[r] \in Request, Fresh(req[r]),
           CommitCreate(r)
    PROVE  Chained'
<1>1. \A a \in Attributes : req[r].plan[a].close = 0
  BY DEF Fresh, CommitCreate
<1>2. ASSUME NEW p \in Persons', NEW a \in Attributes
      PROVE  IsChain(hist'[p][a])
  <2>1. CASE p \in Persons
    <3>1. hist'[p] = hist[p]
      BY <2>1, CreateWrites
    <3>2. IsChain(hist[p][a])
      BY <2>1 DEF Chained, IsChain
    <3> QED
      BY <3>1, <3>2
  <2>2. CASE p \notin Persons
    <3> DEFINE new == [b \in Attributes |-> Applied(<<>>, req[r].plan[b], req[r].eff)]
    <3>1. p = Len(hist) + 1 /\ hist'[p] = new
      BY <1>2, <2>2, CreateWrites
    <3>2. IsChain(new[a])
      BY <1>1, CreateWrites
    <3> HIDE DEF new
    <3> QED
      BY <3>1, <3>2
  <2> QED
    BY <2>1, <2>2
<1> QED
  BY <1>2 DEF Chained, IsChain

LEMMA EditChains ==
    ASSUME Tables, Chained, NEW r \in Requests, req[r] \in Request, Ready(req[r]),
           Fresh(req[r]), CommitEdit(r)
    PROVE  Chained'
<1>1. \A a \in Attributes : req[r].plan[a] # Unchanged =>
        req[r].plan[a].close = Len(hist[req[r].person][a])
  BY DEF Fresh, Telling, CommitEdit
<1>2. ASSUME NEW p \in Persons, NEW a \in Attributes
      PROVE  IsChain(hist'[p][a])
  <2>1. hist[p][a] \in Seq(Row) /\ IsChain(hist[p][a])
    BY HistType DEF Chained, IsChain
  <2>2. CASE p # req[r].person
    BY <2>1, <2>2, EditWrites
  <2>3. CASE p = req[r].person
    <3>1. hist'[p][a] = Applied(hist[p][a], req[r].plan[a], req[r].eff)
      BY <2>3, EditWrites
    <3> QED
      BY <1>1, <2>1, <2>3, <3>1, EditWrites, AppliedChained
  <2> QED
    BY <2>2, <2>3
<1> QED
  BY <1>2, EditWrites DEF Chained, IsChain

LEMMA SerialWrites ==
    ASSUME IInv, SInv, OneAtATime, NEW r \in Requests, CommitCreate(r) \/ CommitEdit(r)
    PROVE  SInv'
<1>1. /\ Tables /\ req[r] \in Request /\ Ready(req[r])
      /\ Chained /\ Fresh(req[r])
  BY RequestReady DEF SInv
<1>2. Chained'
  BY <1>1, CreateChains, EditChains
<1> QED
  BY <1>2, SerialFrees DEF SInv, CommitCreate, CommitEdit

LEMMA SerialKeeps ==
    ASSUME OneAtATime
    PROVE  IInv /\ SInv /\ [Next]_vars => SInv'
<1> SUFFICES ASSUME IInv, SInv, [Next]_vars
             PROVE  SInv'
  OBVIOUS
<1>1. CASE UNCHANGED vars
  BY <1>1 DEF vars, SInv, Chained, Fresh, Persons
<1>2. CASE NextDay
  BY <1>2 DEF NextDay, SInv, Chained, Fresh, Persons
<1>3. ASSUME NEW r \in Requests, BeginStep(r) PROVE SInv'
  BY <1>3, SerialBegins
<1>4. ASSUME NEW r \in Requests, CommitCreate(r) PROVE SInv'
  BY <1>4, SerialWrites
<1>5. ASSUME NEW r \in Requests, CommitEdit(r) PROVE SInv'
  BY <1>5, SerialWrites
<1>6. ASSUME NEW r \in Requests, Rollback(r) PROVE SInv'
  <2>1. Chained'
    BY <1>6 DEF Rollback, SInv, Chained, Persons
  <2> QED
    BY <1>6, <2>1, SerialFrees DEF Rollback, SInv
<1> QED
  BY <1>1, <1>2, <1>3, <1>4, <1>5, <1>6, NextCases

LEMMA ChainedCurrent == Tables /\ Chained => OneCurrent
<1> SUFFICES ASSUME Tables, Chained, NEW p \in Persons, NEW a \in Attributes
             PROVE  \A i, j \in Open(hist[p][a]) : i = j
  BY DEF OneCurrent
<1>1. hist[p][a] \in Seq(Row) /\ IsChain(hist[p][a])
  BY HistType DEF Chained, IsChain
<1> QED
  BY <1>1, ChainCurrent

\* With one request at a time a history is a chain, however its edits are
\* dated: each row ends on the date its successor starts.
THEOREM Chains ==
    ASSUME OneAtATime
    PROVE  Spec => []Chained
<1>1. Init => SInv
  BY IdleFresh DEF Init, SInv, Chained, Persons
<1>2. IInv /\ SInv /\ [Next]_vars => SInv'
  BY SerialKeeps
<1>3. SInv => Chained
  BY DEF SInv
<1> QED
  BY <1>1, <1>2, <1>3, Invariance, PTL DEF Spec

\* And so it has at most one current row: "the currently active row has
\* valid_to = NULL".
THEOREM OneCurrentRow ==
    ASSUME OneAtATime
    PROVE  Spec => []OneCurrent
<1>1. IInv /\ Chained => OneCurrent
  BY ChainedCurrent, TablesTyped DEF IInv
<1> QED
  BY <1>1, Chains, Invariance, PTL

-----------------------------------------------------------------------------
(* Finite sets and listings *)

LEMMA FiniteImage ==
    ASSUME NEW S, IsFiniteSet(S), NEW T, NEW f \in [S -> T], T = {f[x] : x \in S}
    PROVE  IsFiniteSet(T)
<1>1. f \in Surjection(S, T)
  BY DEF Surjection
<1> QED
  BY <1>1, FS_Surjection

\* A finite set, laid out.
LEMMA Listing ==
    ASSUME NEW S, IsFiniteSet(S)
    PROVE  /\ Cardinality(S) \in Nat
           /\ SetToSeq(S) \in [1 .. Cardinality(S) -> S]
           /\ \A i, j \in 1 .. Cardinality(S) : SetToSeq(S)[i] = SetToSeq(S)[j] => i = j
           /\ \A x \in S : \E i \in 1 .. Cardinality(S) : SetToSeq(S)[i] = x
<1> DEFINE n == Cardinality(S)
           f == SetToSeq(S)
<1>1. n \in Nat /\ ExistsBijection(1 .. n, S)
  BY FS_CardinalityType
<1>2. \E g \in [1 .. n -> S] : IsInjective(g)
  BY <1>1 DEF ExistsBijection, Bijection, Injection
<1>3. f \in [1 .. n -> S] /\ IsInjective(f)
  BY <1>2 DEF SetToSeq
<1> HIDE DEF f
<1>4. f \in Injection(1 .. n, S)
  BY <1>3 DEF Injection
<1>5. Cardinality(1 .. n) = n /\ IsFiniteSet(1 .. n)
  <2>1. 1 \in Int /\ n \in Int
    BY <1>1
  <2>2. IsFiniteSet(1 .. n) /\ Cardinality(1 .. n) = IF 1 > n THEN 0 ELSE n - 1 + 1
    BY <2>1, FS_Interval
  <2> QED
    BY <1>1, <2>2
<1>6. f \in Surjection(1 .. n, S)
  BY <1>4, <1>5, FS_Injection
<1> QED
  BY <1>1, <1>3, <1>6 DEF Surjection, IsInjective, f

-----------------------------------------------------------------------------
(* Conditions *)

QualTypes == {"qual_overdue", "qual_due_soon"}
CarryType == "worklist_carry_over_pending"

\* What there can be an alert about.
KnownConditions ==
    [type : PrdTypes \cup QualTypes, key : Persons \X Int]
    \cup [type : {CarryType}, key : Lists \X Nat]

\* A person has one departure date to be announced.
OnePrdEach(C) ==
    \A c, d \in C : /\ {c.type, d.type} \subseteq PrdTypes
                    /\ c.key[1] = d.key[1]
                    => c = d

\* The tables alerts are derived from.
Sources ==
    /\ Tables
    /\ deadlines \in SUBSET (Persons \X Deadlines)
    /\ IsFiniteSet(deadlines)
    /\ backlog \in [Lists -> Nat]

\* _current_prd finds one row at most.
LEMMA OneCurrentPrd ==
    ASSUME NEW h \in Seq(Row), NEW d \in CurrentPrds(h), NEW e \in CurrentPrds(h)
    PROVE  d = e
<1>1. Open(h) \subseteq Nat
  BY DEF Open
<1> QED
  BY <1>1 DEF CurrentPrds

LEMMA PrdTypeType == \A n : PrdType(n) \in PrdTypes
BY DEF PrdType, PrdTypes

\* The departure dates that are announced.
PrdKeys(act, hs, day) ==
    {k \in (DOMAIN act) \X Values["prd"] :
        /\ act[k[1]]
        /\ k[2] \in CurrentPrds(hs[k[1]]["prd"])
        /\ k[2] - day <= YearAhead}

LEMMA PrdConditionsFacts ==
    ASSUME Sources, NEW act, DOMAIN act = Persons,
           NEW hs, \A p \in Persons : hs[p]["prd"] \in Seq(Row), NEW day \in Days
    PROVE  /\ PrdConditions(act, hs, day)
                \subseteq [type : PrdTypes \cup QualTypes, key : Persons \X Int]
           /\ IsFiniteSet(PrdConditions(act, hs, day))
           /\ OnePrdEach(PrdConditions(act, hs, day))
           /\ \A c \in PrdConditions(act, hs, day) : c.type \in PrdTypes
<1> DEFINE K == PrdKeys(act, hs, day)
           f == [c \in K |-> [type |-> PrdType(c[2] - day), key |-> c]]
<1>1. PrdConditions(act, hs, day) = {f[c] : c \in K}
  BY DEF PrdConditions, PrdKeys
<1>2. \A c \in K : /\ c \in Persons \X Int
                   /\ c[2] \in CurrentPrds(hs[c[1]]["prd"])
                   /\ c[1] \in Persons
  BY AttributesHavePrd DEF PrdKeys
<1>3. ASSUME NEW c \in K, NEW d \in K, c[1] = d[1]
      PROVE  c = d
  <2>1. c[2] = d[2]
    BY <1>2, <1>3, OneCurrentPrd
  <2>2. c \in Persons \X Int /\ d \in Persons \X Int
    BY <1>2
  <2>3. \A x, y \in Persons \X Int : x[1] = y[1] /\ x[2] = y[2] => x = y
    OBVIOUS
  <2> QED
    BY <1>3, <2>1, <2>2, <2>3
<1> HIDE DEF K
<1>4. IsFiniteSet(K)
  <2> DEFINE g == [c \in K |-> c[1]]
  <2>1. g \in Injection(K, Persons)
    BY <1>2, <1>3 DEF Injection, IsInjective
  <2>2. IsFiniteSet(Persons)
    <3>1. Persons = 1 .. Len(active) /\ Len(active) \in Int
      BY DEF Sources, Tables, Persons
    <3> QED
      BY <3>1, FS_Interval
  <2> HIDE DEF g
  <2> QED
    BY <2>1, <2>2, FS_Injection
<1>5. IsFiniteSet({f[c] : c \in K})
  <2>1. f \in [K -> {f[c] : c \in K}]
    OBVIOUS
  <2> HIDE DEF f
  <2> QED
    BY <1>4, <2>1, FiniteImage
<1>6. \A c \in K : f[c] = [type |-> PrdType(c[2] - day), key |-> c]
  OBVIOUS
<1>7. \A c \in K : f[c].type \in PrdTypes /\ f[c].key = c
  BY <1>6, PrdTypeType
<1>8. \A c \in K : f[c] \in [type : PrdTypes \cup QualTypes, key : Persons \X Int]
  BY <1>2, <1>6, PrdTypeType
<1> HIDE DEF f
<1>9. OnePrdEach({f[c] : c \in K})
  BY <1>3, <1>7 DEF OnePrdEach
<1> QED
  BY <1>1, <1>5, <1>7, <1>8, <1>9

LEMMA QualConditionsFacts ==
    ASSUME Sources, NEW day \in Days
    PROVE  /\ QualConditions(day) \subseteq [type : PrdTypes \cup QualTypes, key : Persons \X Int]
           /\ IsFiniteSet(QualConditions(day))
           /\ \A c \in QualConditions(day) : c.type \in QualTypes
<1> DEFINE K == {d \in deadlines : d[2] - day <= MonthAhead}
           f == [c \in K |->
                  [type |-> IF c[2] < day THEN "qual_overdue" ELSE "qual_due_soon",
                   key  |-> c]]
<1>1. QualConditions(day) = {f[c] : c \in K}
  BY DEF QualConditions
<1>2. \A c \in K : c \in Persons \X Int
  BY DeadlinesAssumption, DaysAssumption DEF Sources
<1>3. IsFiniteSet(K)
  BY FS_Subset DEF Sources
<1>4. \A c \in K : /\ f[c].type \in QualTypes
                   /\ f[c] \in [type : PrdTypes \cup QualTypes, key : Persons \X Int]
  BY <1>2 DEF QualTypes
<1>5. f \in [K -> {f[c] : c \in K}]
  OBVIOUS
<1> HIDE DEF f, K
<1> QED
  BY <1>1, <1>3, <1>4, <1>5, FiniteImage

LEMMA CarryConditionsFacts ==
    ASSUME Sources
    PROVE  /\ CarryConditions \subseteq [type : {CarryType}, key : Lists \X Nat]
           /\ IsFiniteSet(CarryConditions)
<1> DEFINE K == {x \in Lists : backlog[x] > 0}
           f == [w \in K |-> [type |-> "worklist_carry_over_pending",
                              key |-> <<w, backlog[w]>>]]
<1>1. CarryConditions = {f[w] : w \in K}
  BY DEF CarryConditions
<1>2. IsFiniteSet(K)
  BY ListsAssumption, FS_Subset
<1>3. \A w \in K : f[w] \in [type : {CarryType}, key : Lists \X Nat]
  BY DEF Sources, CarryType
<1>4. f \in [K -> {f[w] : w \in K}]
  OBVIOUS
<1> HIDE DEF f, K
<1> QED
  BY <1>1, <1>2, <1>3, <1>4, FiniteImage

\* What holds is a finite set of conditions, with one departure date each.
LEMMA ConditionsFacts ==
    ASSUME Sources, NEW act, DOMAIN act = Persons,
           NEW hs, \A p \in Persons : hs[p]["prd"] \in Seq(Row), NEW day \in Days
    PROVE  /\ Conditions(act, hs, day) \subseteq KnownConditions
           /\ IsFiniteSet(Conditions(act, hs, day))
           /\ OnePrdEach(Conditions(act, hs, day))
<1> DEFINE A == PrdConditions(act, hs, day)
           B == QualConditions(day)
<1>1. /\ A \subseteq [type : PrdTypes \cup QualTypes, key : Persons \X Int]
      /\ IsFiniteSet(A)
      /\ OnePrdEach(A)
  BY PrdConditionsFacts
<1>2. /\ B \subseteq [type : PrdTypes \cup QualTypes, key : Persons \X Int]
      /\ IsFiniteSet(B)
      /\ \A c \in B : c.type \in QualTypes
  BY QualConditionsFacts
<1>3. /\ CarryConditions \subseteq [type : {CarryType}, key : Lists \X Nat]
      /\ IsFiniteSet(CarryConditions)
  BY CarryConditionsFacts
<1>4. Conditions(act, hs, day) = A \cup B \cup CarryConditions
  BY DEF Conditions
<1> HIDE DEF A, B
<1>5. IsFiniteSet(A \cup B)
  BY <1>1, <1>2, FS_Union
<1>6. IsFiniteSet((A \cup B) \cup CarryConditions)
  BY <1>3, <1>5, FS_Union
<1>7. PrdTypes \cap QualTypes = {} /\ CarryType \notin PrdTypes
  BY DEF PrdTypes, QualTypes, CarryType
<1>8. \A c \in CarryConditions : c.type = CarryType
  BY <1>3
<1>9. OnePrdEach(A \cup B \cup CarryConditions)
  BY <1>1, <1>2, <1>7, <1>8 DEF OnePrdEach
<1> QED
  BY <1>1, <1>2, <1>3, <1>4, <1>6, <1>9 DEF KnownConditions

-----------------------------------------------------------------------------
(* The invariant, for any number of requests *)

Alert == [type : Types, key : (Nat \X Int) \cup (Lists \X Nat),
          state : {"open", "dismissed", "resolved"}, snoozed : SnoozeDays \cup {None}]

RecomputingOps == {"recompute", "extend", "depart"}

Recomputing == [op : RecomputingOps, person : Nat, eff : Days,
                plan : [Attributes -> Plan], resolves : SUBSET AlertIds,
                inserts : SUBSET KnownConditions]

\* What a pending request will do can be done.
Sound(q) ==
    \/ q \in Request /\ Ready(q)
    \/ /\ q \in Recomputing
       /\ q.person \in Persons \cup {0}
       /\ IsFiniteSet(q.inserts)

Queue ==
    /\ alerts \in Seq(Alert)
    /\ \A i \in AlertIds : Identity(i) \in KnownConditions

AInv ==
    /\ Sources
    /\ Queue
    /\ DOMAIN req = Requests
    /\ req = [r \in Requests |-> req[r]]
    /\ \A r \in Requests : Sound(req[r])

\* Persons and alerts are never removed.
LEMMA SoundStays ==
    ASSUME NEW q, Sound(q), Persons \subseteq Persons', AlertIds \subseteq AlertIds'
    PROVE  Sound(q)'
<1>1. KnownConditions \subseteq KnownConditions'
  BY DEF KnownConditions
<1>2. q \in Recomputing => q \in Recomputing'
  BY <1>1 DEF Recomputing
<1> QED
  BY <1>2 DEF Sound, Ready

LEMMA KnownStays ==
    ASSUME Persons \subseteq Persons'
    PROVE  KnownConditions \subseteq KnownConditions'
BY DEF KnownConditions

\* A step keeps the invariant when its requests are sound already.
LEMMA InvariantKept ==
    ASSUME AInv, Sources', Queue', Persons \subseteq Persons',
           AlertIds \subseteq AlertIds',
           NEW r \in Requests, NEW q, Sound(q),
           req' = req \/ req' = [req EXCEPT ![r] = q]
    PROVE  AInv'
<1>1. /\ DOMAIN req' = Requests
      /\ req' = [u \in Requests |-> req'[u]]
      /\ \A u \in Requests : req'[u] = req[u] \/ req'[u] = q
  BY DEF AInv
<1>2. \A u \in Requests : Sound(req'[u])
  BY <1>1 DEF AInv
<1>3. ASSUME NEW u \in Requests PROVE Sound(req[u])'
  <2>1. PICK x : x = req'[u] /\ Sound(x)
    BY <1>2
  <2>2. Sound(x)'
    BY <2>1, SoundStays
  <2> QED
    BY <2>1, <2>2
<1> QED
  BY <1>1, <1>3 DEF AInv

\* A step that leaves the persons, the histories and the alerts alone.
LEMMA InvariantKeptQuietly ==
    ASSUME AInv, UNCHANGED <<active, hist, deadlines, backlog, alerts>>, today' \in Days,
           NEW r \in Requests, NEW q, Sound(q),
           req' = req \/ req' = [req EXCEPT ![r] = q]
    PROVE  AInv'
<1>1. Sources'
  BY DEF AInv, Sources, Tables, Persons
<1>2. Queue'
  BY DEF AInv, Queue, AlertIds, Identity, KnownConditions, Persons
<1>3. Persons' = Persons /\ AlertIds' = AlertIds
  BY DEF Persons, AlertIds
<1> QED
  BY <1>1, <1>2, <1>3, InvariantKept

LEMMA IdleSound == Sound(Idle)
BY DEF Sound, Request, Ready, Idle

-----------------------------------------------------------------------------
(* A request that recomputes *)

\* The tables as a request will leave them.
HistAfter(q) ==
    IF q.person = 0 THEN hist
    ELSE [hist EXCEPT ![q.person] =
            [a \in Attributes |-> Applied(hist[q.person][a], q.plan[a], q.eff)]]
ActiveAfter(q) == IF q.op = "depart" THEN [active EXCEPT ![q.person] = FALSE] ELSE active

\* What will hold then.
Outcome(q) == Conditions(ActiveAfter(q), HistAfter(q), q.eff)

\* The request was derived from the alerts and the tables as they are.
Derived(q) ==
    \E acted \in SUBSET AlertIds :
        /\ q.resolves = acted \cup StaleAlerts(Outcome(q), acted)
        /\ q.inserts = MissingAlerts(Outcome(q), acted)

LEMMA OutcomeFacts ==
    ASSUME AInv, NEW q, q.person \in Persons \cup {0}, q.eff \in Days,
           \A a \in Attributes : q.plan[a] \in Plan
    PROVE  /\ Outcome(q) \subseteq KnownConditions
           /\ IsFiniteSet(Outcome(q))
           /\ OnePrdEach(Outcome(q))
<1>1. Sources /\ Tables
  BY DEF AInv, Sources
<1>2. DOMAIN ActiveAfter(q) = Persons
  BY DEF ActiveAfter, Persons
<1>3. \A p \in Persons : HistAfter(q)[p]["prd"] \in Seq(Row)
  <2> SUFFICES ASSUME NEW p \in Persons PROVE HistAfter(q)[p]["prd"] \in Seq(Row)
    OBVIOUS
  <2>1. hist[p]["prd"] \in Seq(Row) /\ p \in DOMAIN hist
    BY <1>1, HistType, AttributesHavePrd DEF Tables
  <2>2. CASE q.person = 0 \/ p # q.person
    <3>1. HistAfter(q)[p] = hist[p]
      BY <2>1, <2>2 DEF HistAfter
    <3> QED
      BY <2>1, <3>1
  <2>3. CASE q.person # 0 /\ p = q.person
    <3>1. HistAfter(q)[p]["prd"] = Applied(hist[p]["prd"], q.plan["prd"], q.eff)
      BY <2>1, <2>3, AttributesHavePrd DEF HistAfter
    <3>2. q.plan["prd"] \in Plan
      BY AttributesHavePrd
    <3>3. Applied(hist[p]["prd"], q.plan["prd"], q.eff) \in Seq(Row)
      BY <2>1, <3>2, AppliedFacts
    <3> QED
      BY <3>1, <3>3
  <2> QED
    BY <2>2, <2>3
<1> QED
  BY <1>1, <1>2, <1>3, ConditionsFacts DEF Outcome

LEMMA RecomputingBegins ==
    ASSUME AInv, NEW r \in Requests, NEW op \in RecomputingOps,
           NEW acted \in SUBSET AlertIds, NEW p \in Persons \cup {0},
           NEW plan \in [Attributes -> Plan], BeginRecomputing(r, op, acted, p, plan)
    PROVE  \E q \in Recomputing :
                /\ q.op = op /\ q.person = p /\ q.eff = today /\ q.plan = plan
                /\ Sound(q)
                /\ Derived(q)
                /\ req[r] = Idle
                /\ req' = [req EXCEPT ![r] = q]
                /\ UNCHANGED <<active, hist, today, deadlines, backlog, alerts>>
<1> DEFINE hs == IF p = 0 THEN hist
                 ELSE [hist EXCEPT ![p] =
                         [a \in Attributes |-> Applied(hist[p][a], plan[a], today)]]
           act == IF op = "depart" THEN [active EXCEPT ![p] = FALSE] ELSE active
           C == Conditions(act, hs, today)
           q == [op |-> op, person |-> p, eff |-> today, plan |-> plan,
                 resolves |-> acted \cup StaleAlerts(C, acted),
                 inserts |-> MissingAlerts(C, acted)]
<1>1. req' = [req EXCEPT ![r] = q] /\ req[r] = Idle
      /\ UNCHANGED <<active, hist, today, deadlines, backlog, alerts>>
  BY DEF BeginRecomputing
<1>2. C = Outcome(q)
  BY DEF Outcome, HistAfter, ActiveAfter
<1> HIDE DEF C, hs, act
<1>3. q.op = op /\ q.person = p /\ q.eff = today /\ q.plan = plan
  OBVIOUS
<1>4. today \in Days
  BY DEF AInv, Sources, Tables
<1>5. C \subseteq KnownConditions /\ IsFiniteSet(C)
  <2> HIDE DEF q
  <2> QED
    BY <1>2, <1>3, <1>4, OutcomeFacts
<1>6. /\ q.resolves \subseteq AlertIds
      /\ q.inserts \subseteq KnownConditions
      /\ IsFiniteSet(q.inserts)
  <2>1. MissingAlerts(C, acted) \subseteq C
    BY DEF MissingAlerts
  <2>2. IsFiniteSet(MissingAlerts(C, acted))
    BY <1>5, <2>1, FS_Subset
  <2>3. StaleAlerts(C, acted) \subseteq AlertIds
    BY DEF StaleAlerts, OpenAlerts
  <2> QED
    BY <1>5, <2>1, <2>2, <2>3
<1>7. p \in Nat
  BY DEF Persons, AInv, Sources, Tables
<1>8. q \in Recomputing
  BY <1>4, <1>6, <1>7 DEF Recomputing
<1>9. Sound(q)
  BY <1>6, <1>8 DEF Sound
<1>10. Derived(q)
  BY <1>2 DEF Derived
<1> HIDE DEF q
<1> QED
  BY <1>1, <1>3, <1>8, <1>9, <1>10

\* An alert about a person is about a person there is.
LEMMA PersonThere ==
    ASSUME AInv, NEW i \in AboutPerson
    PROVE  PersonOf(i) \in Persons
<1>1. Identity(i) \in KnownConditions /\ i \in AlertIds
  BY DEF AInv, Queue, AboutPerson
<1>2. alerts[i].type # CarryType
  BY DEF AboutPerson, CarryType
<1>3. alerts[i].key \in Persons \X Int
  BY <1>1, <1>2 DEF Identity, KnownConditions
<1> QED
  BY <1>3 DEF PersonOf

LEMMA ChangeOneType ==
    ASSUME NEW b \in Attributes, NEW x \in Plan
    PROVE  [NoPlan EXCEPT ![b] = x] \in [Attributes -> Plan]
<1>1. NoPlan \in [Attributes -> Plan]
  BY DEF NoPlan, Plan
<1> QED
  BY <1>1

LEMMA SetNewValueType ==
    ASSUME NEW h, NEW cur \in Nat, NEW v \in AnyValue
    PROVE  SetNewValue(h, cur, v) \in Plan
BY DEF SetNewValue, Plan

\* The requests that recompute.
BeginAlertStep(r) ==
    \/ BeginRecompute(r)
    \/ \E i \in AboutPerson, date \in FormValues["prd"] : BeginExtendPrd(r, i, date)
    \/ \E i \in AboutPerson : BeginArchiveFromAlert(r, i)

\* A plan of an alert request closes a current row of the attribute it sets, for
\* another value.
ClosesCurrent(q) ==
    \A a \in Attributes : q.plan[a] # Unchanged =>
        /\ q.person \in Persons
        /\ LET h == hist[q.person][a]
           IN  /\ IF CurrentRows(h) = {} THEN q.plan[a].close = 0
                  ELSE q.plan[a].close \in CurrentRows(h)
               /\ q.plan[a].close \in DOMAIN h => h[q.plan[a].close].value # q.plan[a].value

LEMMA AlertRequestBegins ==
    ASSUME AInv, NEW r \in Requests, BeginAlertStep(r)
    PROVE  \E q \in Recomputing :
                /\ Sound(q)
                /\ Derived(q)
                /\ ClosesCurrent(q)
                /\ req[r] = Idle
                /\ req' = [req EXCEPT ![r] = q]
                /\ UNCHANGED <<active, hist, today, deadlines, backlog, alerts>>
<1>1. CASE BeginRecompute(r)
  <2>1. BeginRecomputing(r, "recompute", {}, 0, NoPlan)
    BY <1>1 DEF BeginRecompute
  <2>2. NoPlan \in [Attributes -> Plan]
    BY DEF NoPlan, Plan
  <2>3. {} \in SUBSET AlertIds /\ 0 \in Persons \cup {0} /\ "recompute" \in RecomputingOps
    BY DEF RecomputingOps
  <2>4. PICK q \in Recomputing :
                /\ q.plan = NoPlan
                /\ Sound(q)
                /\ Derived(q)
                /\ req[r] = Idle
                /\ req' = [req EXCEPT ![r] = q]
                /\ UNCHANGED <<active, hist, today, deadlines, backlog, alerts>>
    BY <2>1, <2>2, <2>3, RecomputingBegins
  <2>5. ClosesCurrent(q)
    BY <2>4 DEF ClosesCurrent, NoPlan
  <2> QED
    BY <2>4, <2>5
<1>2. ASSUME NEW i \in AboutPerson, NEW b \in Attributes, NEW op \in RecomputingOps,
             NEW v \in AnyValue, NEW cur \in Nat,
             IF CurrentRows(hist[PersonOf(i)][b]) = {} THEN cur = 0
             ELSE cur \in CurrentRows(hist[PersonOf(i)][b]),
             BeginRecomputing(r, op, {i}, PersonOf(i),
                [NoPlan EXCEPT ![b] = SetNewValue(hist[PersonOf(i)][b], cur, v)])
      PROVE  \E q \in Recomputing :
                /\ Sound(q)
                /\ Derived(q)
                /\ ClosesCurrent(q)
                /\ req[r] = Idle
                /\ req' = [req EXCEPT ![r] = q]
                /\ UNCHANGED <<active, hist, today, deadlines, backlog, alerts>>
  <2> DEFINE x == SetNewValue(hist[PersonOf(i)][b], cur, v)
             plan == [NoPlan EXCEPT ![b] = x]
  <2>1. PersonOf(i) \in Persons
    BY PersonThere
  <2>2. x \in Plan
    BY SetNewValueType
  <2>3. plan \in [Attributes -> Plan]
    BY <2>2, ChangeOneType
  <2>4. {i} \in SUBSET AlertIds
    BY DEF AboutPerson
  <2> HIDE DEF plan
  <2>5. BeginRecomputing(r, op, {i}, PersonOf(i), plan)
    BY <1>2 DEF plan
  <2>6. PICK q \in Recomputing :
                /\ q.person = PersonOf(i)
                /\ q.plan = plan
                /\ Sound(q)
                /\ Derived(q)
                /\ req[r] = Idle
                /\ req' = [req EXCEPT ![r] = q]
                /\ UNCHANGED <<active, hist, today, deadlines, backlog, alerts>>
    BY <2>1, <2>3, <2>4, <2>5, RecomputingBegins
  <2>7. ASSUME NEW a \in Attributes, plan[a] # Unchanged
        PROVE  /\ a = b /\ plan[a].close = cur /\ plan[a].value = v
               /\ ~(cur \in DOMAIN hist[PersonOf(i)][b] /\ hist[PersonOf(i)][b][cur].value = v)
    BY <2>7 DEF plan, NoPlan, SetNewValue
  <2>8. ClosesCurrent(q)
    BY <1>2, <2>1, <2>6, <2>7 DEF ClosesCurrent
  <2> QED
    BY <2>6, <2>8
<1>3. ASSUME NEW i \in AboutPerson, NEW date \in FormValues["prd"], BeginExtendPrd(r, i, date)
      PROVE  \E b \in Attributes, op \in RecomputingOps, v \in AnyValue, cur \in Nat :
                /\ IF CurrentRows(hist[PersonOf(i)][b]) = {} THEN cur = 0
                   ELSE cur \in CurrentRows(hist[PersonOf(i)][b])
                /\ BeginRecomputing(r, op, {i}, PersonOf(i),
                      [NoPlan EXCEPT ![b] = SetNewValue(hist[PersonOf(i)][b], cur, v)])
  <2>1. date \in AnyValue
    BY AttributesHavePrd, FormsAssumption DEF AnyValue
  <2>2. 0 .. MaxRows \subseteq Nat
    OBVIOUS
  <2> QED
    BY <1>3, <2>1, <2>2, AttributesHavePrd DEF BeginExtendPrd, RecomputingOps
<1>4. ASSUME NEW i \in AboutPerson, BeginArchiveFromAlert(r, i)
      PROVE  \E b \in Attributes, op \in RecomputingOps, v \in AnyValue, cur \in Nat :
                /\ IF CurrentRows(hist[PersonOf(i)][b]) = {} THEN cur = 0
                   ELSE cur \in CurrentRows(hist[PersonOf(i)][b])
                /\ BeginRecomputing(r, op, {i}, PersonOf(i),
                      [NoPlan EXCEPT ![b] = SetNewValue(hist[PersonOf(i)][b], cur, v)])
  <2>1. Departed \in AnyValue
    BY AttributesAssumption, ValuesAssumption DEF AnyValue
  <2>2. hist[PersonOf(i)]["roster"] \in Seq(Row)
    BY PersonThere, HistType, AttributesAssumption DEF AInv, Sources
  <2>3. CurrentRows(hist[PersonOf(i)]["roster"]) \subseteq Nat
    BY <2>2 DEF CurrentRows
  <2> QED
    BY <1>4, <2>1, <2>3, AttributesAssumption DEF BeginArchiveFromAlert, RecomputingOps
<1> QED
  BY <1>1, <1>2, <1>3, <1>4 DEF BeginAlertStep

-----------------------------------------------------------------------------
(* What a recompute writes *)

Added == AlertIds' \ AlertIds

\* The queue after a recompute: rows it resolves, and a row for each insert.
Recomputed(q) ==
    /\ alerts' \in Seq(Alert)
    /\ AlertIds \subseteq AlertIds'
    /\ \A i \in AlertIds : alerts'[i] = IF i \in q.resolves THEN Resolved(i) ELSE alerts[i]
    /\ \A i \in Added : \E c \in q.inserts : alerts'[i] = NewAlert(c)
    /\ \A c \in q.inserts : \E i \in Added : alerts'[i] = NewAlert(c)
    /\ \A i, j \in Added : alerts'[i] = alerts'[j] => i = j

LEMMA RowsBehind ==
    ASSUME NEW T, NEW s \in Seq(T), NEW t \in Seq(T), NEW u, u = s \o t
    PROVE  /\ u \in Seq(T)
           /\ DOMAIN s = 1 .. Len(s)
           /\ Len(s) \in Nat
           /\ DOMAIN u = 1 .. Len(s) + Len(t)
           /\ \A i \in DOMAIN s : i \in DOMAIN u /\ u[i] = s[i]
           /\ \A i \in DOMAIN u \ DOMAIN s : i - Len(s) \in 1 .. Len(t) /\ u[i] = t[i - Len(s)]
           /\ \A k \in 1 .. Len(t) : Len(s) + k \in DOMAIN u \ DOMAIN s /\ u[Len(s) + k] = t[k]
           /\ \A i, j \in DOMAIN u : i - Len(s) = j - Len(s) => i = j
OBVIOUS

\* A resolved row is a row, and so is a new one.
LEMMA AlertRows ==
    /\ \A i \in AlertIds : alerts[i] \in Alert =>
            /\ Resolved(i) \in Alert
            /\ Resolved(i).type = alerts[i].type
            /\ Resolved(i).key = alerts[i].key
            /\ Resolved(i).state # "open"
            /\ Resolved(i).snoozed = None
    /\ \A c \in KnownConditions : Persons \subseteq Nat => NewAlert(c) \in Alert
<1>1. ASSUME NEW i \in AlertIds, alerts[i] \in Alert
      PROVE  /\ Resolved(i) \in Alert
             /\ Resolved(i).type = alerts[i].type
             /\ Resolved(i).key = alerts[i].key
             /\ Resolved(i).state # "open"
             /\ Resolved(i).snoozed = None
  <2>1. PICK state \in {"dismissed", "resolved"} : Resolved(i) = Closed(i, state)
    BY DEF Resolved
  <2>2. /\ alerts[i].type \in Types
        /\ alerts[i].key \in (Nat \X Int) \cup (Lists \X Nat)
    BY <1>1 DEF Alert
  <2> QED
    BY <2>1, <2>2 DEF Closed, Alert
<1>2. ASSUME NEW c \in KnownConditions, Persons \subseteq Nat
      PROVE  NewAlert(c) \in Alert
  <2>1. c.type \in Types /\ c.key \in (Nat \X Int) \cup (Lists \X Nat)
    BY <1>2 DEF KnownConditions, Types, QualTypes, CarryType
  <2> QED
    BY <2>1 DEF NewAlert, Alert
<1> QED
  BY <1>1, <1>2

LEMMA PersonsType == AInv => Persons \subseteq Nat /\ Persons = 1 .. Len(active)
BY DEF AInv, Sources, Tables, Persons

LEMMA CommitRecomputes ==
    ASSUME AInv, NEW r \in Requests, CommitRecompute(r)
    PROVE  /\ req[r] \in Recomputing
           /\ Sound(req[r])
           /\ Recomputed(req[r])
<1>1. PICK q : q = req[r] /\ Sound(q)
  BY DEF AInv
<1>2. q \in Recomputing /\ IsFiniteSet(q.inserts) /\ q.inserts \subseteq KnownConditions
  <2>1. q.op \in RecomputingOps
    BY <1>1 DEF CommitRecompute, RecomputingOps
  <2>2. q \notin Request
    BY <2>1 DEF Request, RecomputingOps, Idle
  <2> QED
    BY <1>1, <2>2 DEF Sound, Recomputing
<1> DEFINE S == {NewAlert(c) : c \in q.inserts}
           n == Cardinality(S)
           base == [i \in AlertIds |-> IF i \in q.resolves THEN Resolved(i) ELSE alerts[i]]
<1>3. IsFiniteSet(S)
  <2> DEFINE f == [c \in q.inserts |-> NewAlert(c)]
  <2>1. f \in [q.inserts -> S] /\ S = {f[c] : c \in q.inserts}
    OBVIOUS
  <2> HIDE DEF f, S
  <2> QED
    BY <1>2, <2>1, FiniteImage
<1>4. S \subseteq Alert
  BY <1>2, AlertRows, PersonsType
<1>5. alerts' = base \o SetToSeq(S)
  BY <1>1 DEF CommitRecompute
<1>6. alerts \in Seq(Alert)
  BY DEF AInv, Queue
<1>7. base \in Seq(Alert) /\ DOMAIN base = AlertIds
  <2>1. \A i \in AlertIds : alerts[i] \in Alert
    BY <1>6 DEF AlertIds
  <2>2. AlertIds = 1 .. Len(alerts) /\ Len(alerts) \in Nat
    BY <1>6 DEF AlertIds
  <2>3. \A i \in AlertIds : base[i] \in Alert
    BY <2>1, AlertRows
  <2>4. base \in [1 .. Len(alerts) -> Alert]
    BY <2>2, <2>3
  <2> HIDE DEF base
  <2> QED
    BY <2>2, <2>4
<1> HIDE DEF S
<1>8. /\ n \in Nat
      /\ SetToSeq(S) \in [1 .. n -> S]
      /\ \A i, j \in 1 .. n : SetToSeq(S)[i] = SetToSeq(S)[j] => i = j
      /\ \A x \in S : \E i \in 1 .. n : SetToSeq(S)[i] = x
  BY <1>3, Listing
<1>9. PICK t \in Seq(Alert) : t = SetToSeq(S) /\ Len(t) = n
  BY <1>4, <1>8
<1>10. \A i \in AlertIds : base[i] = IF i \in q.resolves THEN Resolved(i) ELSE alerts[i]
  OBVIOUS
<1> HIDE DEF base
<1>11. PICK m \in Nat : m = Len(base)
  BY <1>7
<1>12. /\ alerts' \in Seq(Alert)
       /\ \A i \in DOMAIN base : i \in DOMAIN alerts' /\ alerts'[i] = base[i]
       /\ \A i \in DOMAIN alerts' \ DOMAIN base :
              i - m \in 1 .. n /\ alerts'[i] = t[i - m]
       /\ \A k \in 1 .. n : m + k \in DOMAIN alerts' \ DOMAIN base /\ alerts'[m + k] = t[k]
       /\ \A i, j \in DOMAIN alerts' : i - m = j - m => i = j
  BY <1>5, <1>7, <1>9, <1>11, RowsBehind
<1>13. Added = DOMAIN alerts' \ DOMAIN base
  BY <1>7 DEF Added, AlertIds
<1>14. ASSUME NEW i \in Added PROVE \E c \in q.inserts : alerts'[i] = NewAlert(c)
  <2>1. alerts'[i] \in S
    BY <1>8, <1>9, <1>12, <1>13
  <2> QED
    BY <2>1 DEF S
<1>15. ASSUME NEW c \in q.inserts PROVE \E i \in Added : alerts'[i] = NewAlert(c)
  <2>1. NewAlert(c) \in S
    BY DEF S
  <2>2. PICK k \in 1 .. n : t[k] = NewAlert(c)
    BY <1>8, <1>9, <2>1
  <2> QED
    BY <1>12, <1>13, <2>2
<1>16. ASSUME NEW i \in Added, NEW j \in Added, alerts'[i] = alerts'[j]
       PROVE  i = j
  <2>1. i - m \in 1 .. n /\ j - m \in 1 .. n /\ t[i - m] = t[j - m]
    BY <1>12, <1>13, <1>16
  <2>2. i - m = j - m
    BY <1>8, <1>9, <2>1
  <2> QED
    BY <1>12, <1>13, <2>2
<1>17. AlertIds \subseteq AlertIds'
  BY <1>7, <1>12 DEF AlertIds
<1>18. \A i \in AlertIds : alerts'[i] = IF i \in q.resolves THEN Resolved(i) ELSE alerts[i]
  BY <1>7, <1>10, <1>12
<1> QED
  BY <1>1, <1>2, <1>12, <1>14, <1>15, <1>16, <1>17, <1>18 DEF Recomputed

\* Its effect on persons and histories.
LEMMA CommitTables ==
    ASSUME AInv, NEW r \in Requests, CommitRecompute(r)
    PROVE  /\ Tables'
           /\ Persons' = Persons
           /\ req[r].person \in Persons \cup {0}
           /\ hist' = HistAfter(req[r])
           /\ active' = IF req[r].person = 0 THEN active ELSE ActiveAfter(req[r])
           /\ req' = [req EXCEPT ![r] = Idle]
           /\ UNCHANGED <<today, deadlines, backlog>>
<1>1. req[r] \in Recomputing /\ Sound(req[r])
  BY CommitRecomputes
<1>2. PICK q \in Recomputing : q = req[r] /\ q.person \in Persons \cup {0}
  <2>1. req[r] \notin Request
    BY <1>1 DEF Request, Recomputing, RecomputingOps, Idle
  <2> QED
    BY <1>1, <2>1 DEF Sound
<1>3. q.eff \in Days /\ \A a \in Attributes : q.plan[a] \in Plan
  BY DEF Recomputing
<1>4. Tables
  BY DEF AInv, Sources
<1>5. CASE q.person = 0
  BY <1>2, <1>4, <1>5 DEF CommitRecompute, HistAfter, Tables, Persons
<1>6. CASE q.person # 0
  <2>1. q.person \in Persons
    BY <1>2, <1>6
  <2>2. /\ hist' = [hist EXCEPT ![q.person] =
                [a \in Attributes |-> Applied(hist[q.person][a], q.plan[a], q.eff)]]
        /\ active' = IF q.op = "depart" THEN [active EXCEPT ![q.person] = FALSE] ELSE active
        /\ req' = [req EXCEPT ![r] = Idle]
        /\ UNCHANGED <<today, deadlines, backlog>>
    BY <1>2, <1>6 DEF CommitRecompute
  <2>3. PICK p \in Persons, eff \in Days, plan \in {q.plan} : p = q.person /\ eff = q.eff
    BY <1>3, <2>1
  <2>4. /\ Persons' = Persons
        /\ hist' \in Seq([Attributes -> Seq(Row)])
        /\ active' \in Seq(BOOLEAN)
        /\ Len(hist') = Len(active')
    BY <1>3, <1>4, <2>2, <2>3, HistoriesWritten
  <2> QED
    BY <1>2, <1>4, <1>6, <2>2, <2>4 DEF Tables, HistAfter, ActiveAfter
<1> QED
  BY <1>5, <1>6

-----------------------------------------------------------------------------
(* Each step keeps the invariant *)

LEMMA OpOfRequest ==
    ASSUME NEW q, Sound(q)
    PROVE  /\ q \in Request \/ q \in Recomputing
           /\ q.op \in RecomputingOps => q \in Recomputing
           /\ q.op \notin RecomputingOps => q \in Request /\ Ready(q)
BY DEF Sound, Request, Recomputing, RecomputingOps, Idle

LEMMA TablesKept ==
    ASSUME AInv, UNCHANGED <<active, hist>>, today' \in Days
    PROVE  Tables'
BY DEF AInv, Sources, Tables

LEMMA PersonnelStepKeeps ==
    ASSUME AInv, NEW r \in Requests, PersonnelRequest(r) \/ Rollback(r),
           UNCHANGED <<deadlines, backlog, alerts>>
    PROVE  AInv'
<1>1. Tables /\ today \in Days
  BY DEF AInv, Sources, Tables
<1>2. ASSUME BeginStep(r) PROVE AInv'
  <2>1. PICK q \in Request \ {Idle} : Ready(q) /\ Begin(r, q)
    BY <1>1, <1>2, EveryRequestBegins
  <2>2. Sound(q)
    BY <2>1 DEF Sound
  <2> QED
    BY <1>1, <2>1, <2>2, InvariantKeptQuietly DEF Begin
<1>3. ASSUME Tables', Persons \subseteq Persons', req' = [req EXCEPT ![r] = Idle]
      PROVE  AInv'
  <2>1. Sources'
    <3>1. deadlines' \in SUBSET (Persons' \X Deadlines)
      BY <1>3 DEF AInv, Sources
    <3> QED
      BY <1>3, <3>1 DEF AInv, Sources
  <2>2. Queue'
    <3>1. KnownConditions \subseteq KnownConditions'
      BY <1>3, KnownStays
    <3> QED
      BY <3>1 DEF AInv, Queue, AlertIds, Identity
  <2>3. AlertIds' = AlertIds
    BY DEF AlertIds
  <2> QED
    BY <1>3, <2>1, <2>2, <2>3, InvariantKept, IdleSound
<1>4. ASSUME CommitCreate(r) PROVE AInv'
  <2>1. req[r] \in Request
    BY <1>4, OpOfRequest DEF AInv, CommitCreate, RecomputingOps
  <2>2. Tables' /\ Persons \subseteq Persons'
    BY <1>1, <1>4, <2>1, CreateWrites DEF Tables, CommitCreate
  <2> QED
    BY <1>3, <1>4, <2>2 DEF CommitCreate
<1>5. ASSUME CommitEdit(r) PROVE AInv'
  <2>1. req[r] \in Request /\ Ready(req[r])
    BY <1>5, OpOfRequest DEF AInv, CommitEdit, RecomputingOps
  <2>2. Tables' /\ Persons \subseteq Persons'
    BY <1>1, <1>5, <2>1, EditWrites DEF Tables, CommitEdit
  <2> QED
    BY <1>3, <1>5, <2>2 DEF CommitEdit
<1>6. ASSUME Rollback(r) PROVE AInv'
  BY <1>1, <1>6, IdleSound, InvariantKeptQuietly DEF Rollback
<1> QED
  BY <1>2, <1>4, <1>5, <1>6 DEF PersonnelRequest, BeginStep

\* What a request does to the queue: rows stay, keep what they are about, and do
\* not open again.
Keeps ==
    /\ alerts' \in Seq(Alert)
    /\ AlertIds \subseteq AlertIds'
    /\ \A i \in AlertIds : /\ alerts'[i].type = alerts[i].type
                           /\ alerts'[i].key = alerts[i].key
                           /\ alerts'[i].state = "open" => alerts[i].state = "open"

LEMMA CommitKeepsQueue ==
    ASSUME AInv, NEW r \in Requests, CommitRecompute(r)
    PROVE  Keeps
<1>1. \A i \in AlertIds : alerts[i] \in Alert
  BY DEF AInv, Queue, AlertIds
<1> QED
  BY <1>1, CommitRecomputes, AlertRows DEF Recomputed, Keeps

LEMMA CommitKeeps ==
    ASSUME AInv, NEW r \in Requests, CommitRecompute(r)
    PROVE  AInv'
<1>1. PICK q \in Recomputing : q = req[r] /\ Recomputed(q)
  BY CommitRecomputes
<1>2. q.inserts \subseteq KnownConditions
  BY DEF Recomputing
<1>3. Tables' /\ Persons' = Persons /\ UNCHANGED <<deadlines, backlog>>
  BY CommitTables
<1>4. Sources'
  BY <1>3 DEF AInv, Sources
<1>5. KnownConditions' = KnownConditions
  BY <1>3 DEF KnownConditions
<1>6. ASSUME NEW i \in AlertIds' PROVE Identity(i)' \in KnownConditions
  <2>1. CASE i \in AlertIds
    BY <2>1, CommitKeepsQueue DEF Keeps, AInv, Queue, Identity
  <2>2. CASE i \notin AlertIds
    <3>1. PICK c \in q.inserts : alerts'[i] = NewAlert(c)
      BY <1>1, <2>2 DEF Recomputed, Added
    <3>2. c \in KnownConditions /\ c = [type |-> c.type, key |-> c.key]
      BY <1>2 DEF KnownConditions
    <3> QED
      BY <3>1, <3>2 DEF NewAlert, Identity
  <2> QED
    BY <2>1, <2>2
<1>7. Queue'
  BY <1>1, <1>5, <1>6 DEF Queue, Recomputed
<1> QED
  BY <1>1, <1>3, <1>4, <1>7, CommitTables, InvariantKept, IdleSound DEF Recomputed

\* Writing the row of one alert.
WriteStep(r) ==
    \/ \E i \in AlertIds : DismissAlert(r, i) \/ ResolveAlert(r, i)
    \/ \E i \in AlertIds, until \in SnoozeDays : SnoozeAlert(r, i, until)

LEMMA WriteKeepsQueue ==
    ASSUME AInv, NEW r \in Requests, WriteStep(r)
    PROVE  /\ Keeps
           /\ AlertIds' = AlertIds
           /\ UNCHANGED <<vars, deadlines, backlog>>
           /\ req[r] = Idle
<1>1. alerts \in Seq(Alert)
  BY DEF AInv, Queue
<1>2. ASSUME NEW i \in AlertIds, NEW row \in Alert, WriteAlert(r, i, row),
             row.type = alerts[i].type, row.key = alerts[i].key,
             row.state = "open" => alerts[i].state = "open"
      PROVE  /\ Keeps
             /\ AlertIds' = AlertIds
             /\ UNCHANGED <<vars, deadlines, backlog>>
             /\ req[r] = Idle
  <2>1. alerts' = [alerts EXCEPT ![i] = row]
    BY <1>2 DEF WriteAlert
  <2>2. alerts' \in Seq(Alert) /\ DOMAIN alerts' = DOMAIN alerts
    BY <1>1, <2>1 DEF AlertIds
  <2>3. \A j \in AlertIds : alerts'[j] = IF j = i THEN row ELSE alerts[j]
    BY <1>1, <2>1 DEF AlertIds
  <2> QED
    BY <1>2, <2>2, <2>3 DEF WriteAlert, Keeps, AlertIds
<1>3. \A i \in AlertIds : alerts[i] \in Alert
  BY <1>1 DEF AlertIds
<1>4. ASSUME NEW i \in AlertIds
      PROVE  /\ Closed(i, "dismissed") \in Alert
             /\ Closed(i, "dismissed").type = alerts[i].type
             /\ Closed(i, "dismissed").key = alerts[i].key
             /\ Closed(i, "dismissed").state # "open"
  BY <1>3 DEF Closed, Alert
<1>5. ASSUME NEW i \in AlertIds, NEW until \in SnoozeDays
      PROVE  /\ [alerts[i] EXCEPT !.snoozed = until] \in Alert
             /\ [alerts[i] EXCEPT !.snoozed = until].type = alerts[i].type
             /\ [alerts[i] EXCEPT !.snoozed = until].key = alerts[i].key
             /\ [alerts[i] EXCEPT !.snoozed = until].state = alerts[i].state
  BY <1>3 DEF Alert
<1>6. ASSUME NEW i \in AlertIds, DismissAlert(r, i)
      PROVE  Keeps /\ AlertIds' = AlertIds /\ UNCHANGED <<vars, deadlines, backlog>> /\ req[r] = Idle
  BY <1>2, <1>4, <1>6 DEF DismissAlert
<1>7. ASSUME NEW i \in AlertIds, ResolveAlert(r, i)
      PROVE  Keeps /\ AlertIds' = AlertIds /\ UNCHANGED <<vars, deadlines, backlog>> /\ req[r] = Idle
  BY <1>2, <1>3, <1>7, AlertRows DEF ResolveAlert
<1>8. ASSUME NEW i \in AlertIds, NEW until \in SnoozeDays, SnoozeAlert(r, i, until)
      PROVE  Keeps /\ AlertIds' = AlertIds /\ UNCHANGED <<vars, deadlines, backlog>> /\ req[r] = Idle
  <2>1. CASE i \in OpenAlerts
    BY <1>2, <1>5, <1>8, <2>1 DEF SnoozeAlert
  <2>2. CASE i \notin OpenAlerts
    BY <1>2, <1>3, <1>8, <2>2 DEF SnoozeAlert
  <2> QED
    BY <2>1, <2>2
<1> QED
  BY <1>6, <1>7, <1>8 DEF WriteStep

LEMMA WriteKeeps ==
    ASSUME AInv, NEW r \in Requests, WriteStep(r)
    PROVE  AInv'
<1>1. Keeps /\ AlertIds' = AlertIds /\ UNCHANGED <<active, hist, today, req, deadlines, backlog>>
  BY WriteKeepsQueue DEF vars
<1>2. Sources'
  BY <1>1 DEF AInv, Sources, Tables, Persons
<1>3. Queue'
  BY <1>1 DEF AInv, Queue, Keeps, Identity, KnownConditions, Persons
<1>4. Persons' = Persons
  BY <1>1 DEF Persons
<1> QED
  BY <1>1, <1>2, <1>3, <1>4, InvariantKept, IdleSound

\* The inputs that change by themselves.
LEMMA InputsKeep ==
    ASSUME AInv,
           \/ \E r \in Requests, p \in Persons, due \in Deadlines : QualsChange(r, p, due)
           \/ \E r \in Requests, w \in Lists, n \in 0 .. MaxBacklog : WorklistsChange(r, w, n)
    PROVE  AInv' /\ UNCHANGED <<vars, alerts>>
<1>1. UNCHANGED <<active, hist, today, req, alerts>>
  BY DEF QualsChange, WorklistsChange, vars
<1>2. Tables' /\ Persons' = Persons /\ AlertIds' = AlertIds
  BY <1>1 DEF AInv, Sources, Tables, Persons, AlertIds
<1>3. deadlines' \in SUBSET (Persons \X Deadlines) /\ IsFiniteSet(deadlines')
  <2>1. deadlines \in SUBSET (Persons \X Deadlines) /\ IsFiniteSet(deadlines)
    BY DEF AInv, Sources
  <2>2. ASSUME NEW r \in Requests, NEW p \in Persons, NEW due \in Deadlines, QualsChange(r, p, due)
        PROVE  deadlines' \in SUBSET (Persons \X Deadlines) /\ IsFiniteSet(deadlines')
    <3>1. deadlines' = deadlines \ {<<p, due>>} \/ deadlines' = deadlines \cup {<<p, due>>}
      BY <2>2 DEF QualsChange
    <3>2. /\ IsFiniteSet(deadlines \ {<<p, due>>})
          /\ IsFiniteSet(deadlines \cup {<<p, due>>})
      BY <2>1, FS_AddElement, FS_RemoveElement
    <3>3. <<p, due>> \in Persons \X Deadlines
      OBVIOUS
    <3> QED
      BY <2>1, <3>1, <3>2, <3>3
  <2> QED
    BY <2>1, <2>2 DEF WorklistsChange
<1>4. backlog' \in [Lists -> Nat]
  <2>1. backlog \in [Lists -> Nat]
    BY DEF AInv, Sources
  <2>2. ASSUME NEW r \in Requests, NEW w \in Lists, NEW n \in 0 .. MaxBacklog,
               WorklistsChange(r, w, n)
        PROVE  backlog' \in [Lists -> Nat]
    <3>1. n \in Nat
      BY AlertsBoundsAssumption
    <3> QED
      BY <2>1, <2>2, <3>1 DEF WorklistsChange
  <2>3. (\E r \in Requests, p \in Persons, due \in Deadlines : QualsChange(r, p, due))
          => backlog' \in [Lists -> Nat]
    BY <2>1 DEF QualsChange
  <2> QED
    BY <2>2, <2>3
<1>5. Sources'
  BY <1>2, <1>3, <1>4 DEF Sources
<1>6. Queue'
  BY <1>1, <1>2 DEF AInv, Queue, Identity, KnownConditions, AlertIds
<1>7. \A r \in Requests : Sound(req[r])'
  <2>1. ASSUME NEW r \in Requests PROVE Sound(req[r])'
    <3>1. PICK x : x = req[r] /\ Sound(x)
      BY DEF AInv
    <3>2. Sound(x)'
      BY <1>2, <3>1, SoundStays
    <3> QED
      BY <1>1, <3>1, <3>2
  <2> QED
    BY <2>1
<1>8. DOMAIN req' = Requests /\ req' = [r \in Requests |-> req'[r]]
  BY <1>1 DEF AInv
<1> QED
  BY <1>1, <1>5, <1>6, <1>7, <1>8 DEF AInv, vars

\* The actions of the specification, by what they do.
LEMMA AlertsCases ==
    AlertsNext <=>
        \/ \E r \in Requests : /\ PersonnelRequest(r) \/ Rollback(r)
                               /\ UNCHANGED <<deadlines, backlog, alerts>>
        \/ \E r \in Requests : BeginAlertStep(r) \/ CommitRecompute(r) \/ WriteStep(r)
        \/ \E r \in Requests, p \in Persons, due \in Deadlines : QualsChange(r, p, due)
        \/ \E r \in Requests, w \in Lists, n \in 0 .. MaxBacklog : WorklistsChange(r, w, n)
        \/ NextDay /\ UNCHANGED <<deadlines, backlog, alerts>>
BY DEF AlertsNext, AlertRequest, BeginAlertStep, WriteStep

LEMMA BeginAlertKeeps ==
    ASSUME AInv, NEW r \in Requests, BeginAlertStep(r)
    PROVE  AInv' /\ UNCHANGED alerts
<1>1. PICK q \in Recomputing :
        /\ Sound(q)
        /\ req' = [req EXCEPT ![r] = q]
        /\ UNCHANGED <<active, hist, today, deadlines, backlog, alerts>>
  BY AlertRequestBegins
<1>2. today' \in Days
  BY <1>1 DEF AInv, Sources, Tables
<1> QED
  BY <1>1, <1>2, InvariantKeptQuietly

LEMMA SameInvariant == AInv /\ UNCHANGED avars => AInv'
<1> SUFFICES ASSUME AInv, UNCHANGED avars PROVE AInv'
  OBVIOUS
<1>1. UNCHANGED <<active, hist, today, req, deadlines, backlog, alerts>>
  BY DEF avars, vars
<1>2. \A r \in Requests : Sound(req[r])'
  <2>1. ASSUME NEW q, Sound(q) PROVE Sound(q)'
    <3>1. Persons' = Persons /\ AlertIds' = AlertIds
      BY <1>1 DEF Persons, AlertIds
    <3> QED
      BY <2>1, <3>1, SoundStays
  <2>2. ASSUME NEW r \in Requests PROVE Sound(req[r])'
    <3>1. PICK x : x = req[r] /\ Sound(x)
      BY DEF AInv
    <3> QED
      BY <1>1, <2>1, <3>1
  <2> QED
    BY <2>2
<1> QED
  BY <1>1, <1>2
  DEF AInv, Sources, Tables, Queue, Persons, AlertIds, Identity, KnownConditions

LEMMA AlertsStepKeeps == AInv /\ [AlertsNext]_avars => AInv'
<1> SUFFICES ASSUME AInv, AlertsNext PROVE AInv'
  BY SameInvariant
<1>1. ASSUME NextDay, UNCHANGED <<deadlines, backlog, alerts>> PROVE AInv'
  <2>1. UNCHANGED <<active, hist, deadlines, backlog, alerts, req>> /\ today' \in Days
    BY <1>1 DEF NextDay
  <2>2. Tables'
    BY <2>1 DEF AInv, Sources, Tables
  <2>3. Persons' = Persons /\ AlertIds' = AlertIds
    BY <2>1 DEF Persons, AlertIds
  <2>4. \A r \in Requests : Sound(req[r])'
    <3>1. ASSUME NEW r \in Requests PROVE Sound(req[r])'
      <4>1. PICK x : x = req[r] /\ Sound(x)
        BY DEF AInv
      <4>2. Sound(x)'
        BY <2>3, <4>1, SoundStays
      <4> QED
        BY <2>1, <4>1, <4>2
    <3> QED
      BY <3>1
  <2> QED
    BY <2>1, <2>2, <2>3, <2>4
    DEF AInv, Sources, Queue, AlertIds, Identity, KnownConditions
<1> QED
  BY <1>1, AlertsCases, PersonnelStepKeeps, BeginAlertKeeps, CommitKeeps, WriteKeeps, InputsKeep

LEMMA AlertsInitInvariant == AlertsInit => AInv
<1> SUFFICES ASSUME AlertsInit PROVE AInv
  OBVIOUS
<1>1. Tables
  BY DaysAssumption DEF AlertsInit, Init, Tables
<1>2. Sources
  BY <1>1, FS_EmptySet DEF AlertsInit, Sources
<1>3. Queue
  BY DEF AlertsInit, Queue, AlertIds
<1>4. \A r \in Requests : Sound(req[r])
  BY IdleSound DEF AlertsInit, Init
<1>5. DOMAIN req = Requests /\ req = [r \in Requests |-> req[r]]
  BY DEF AlertsInit, Init
<1> QED
  BY <1>2, <1>3, <1>4, <1>5 DEF AInv

LEMMA AlertsInvariance == AlertsSpec => []AInv
BY AlertsInitInvariant, AlertsStepKeeps, PTL DEF AlertsSpec

LEMMA QueueKeeps == AInv /\ [AlertsNext]_avars => [Keeps]_avars
<1> SUFFICES ASSUME AInv, AlertsNext PROVE Keeps
  OBVIOUS
<1>1. ASSUME UNCHANGED alerts PROVE Keeps
  BY <1>1 DEF Keeps, AInv, Queue, AlertIds
<1> QED
  BY <1>1, AlertsCases, BeginAlertKeeps, CommitKeepsQueue, WriteKeepsQueue, InputsKeep

\* However requests interleave, a closed alert never opens again, and no alert is
\* removed or comes to stand for something else.
THEOREM AlertsStayClosed == AlertsSpec => ClosedStaysClosed
<1> DEFINE Stays == \A i \in AlertIds :
        /\ i \in AlertIds'
        /\ Identity(i)' = Identity(i)
        /\ i \notin OpenAlerts => i \notin OpenAlerts'
<1>1. AInv /\ [AlertsNext]_avars => [Stays]_avars
  <2>1. Keeps => Stays
    BY DEF Keeps, Identity, OpenAlerts
  <2> QED
    BY <2>1, QueueKeeps
<1> QED
  BY <1>1, AlertsInvariance, PTL DEF AlertsSpec, ClosedStaysClosed

-----------------------------------------------------------------------------
(* With one request at a time *)

\* Nothing a pending recompute has read changes before it commits.
StillDerived == \A r \in Requests : req[r].op \in RecomputingOps => Derived(req[r])

AlertsSerial == AInv /\ OneOpenPerCondition /\ StillDerived

LEMMA DerivedStays ==
    ASSUME NEW q, Derived(q), UNCHANGED <<active, hist, deadlines, backlog, alerts>>
    PROVE  Derived(q)'
<1>1. Outcome(q)' = Outcome(q)
  BY DEF Outcome, ActiveAfter, HistAfter, Conditions, PrdConditions, QualConditions,
         CarryConditions
<1>2. OpenAlerts' = OpenAlerts /\ AlertIds' = AlertIds
  BY DEF OpenAlerts, AlertIds
<1>3. \A i \in AlertIds : Identity(i)' = Identity(i)
  BY DEF Identity
<1>4. PICK acted \in SUBSET AlertIds :
        /\ q.resolves = acted \cup StaleAlerts(Outcome(q), acted)
        /\ q.inserts = MissingAlerts(Outcome(q), acted)
  BY DEF Derived
<1>5. /\ StaleAlerts(Outcome(q), acted)' = StaleAlerts(Outcome(q), acted)
      /\ MissingAlerts(Outcome(q), acted)' = MissingAlerts(Outcome(q), acted)
  BY <1>1, <1>2, <1>3 DEF StaleAlerts, MissingAlerts, OpenAlerts, AlertIds, Identity
<1> QED
  BY <1>1, <1>2, <1>4, <1>5 DEF Derived

\* A step whose slot becomes idle, or takes a request that recomputes nothing.
LEMMA NothingDerived ==
    ASSUME OneAtATime, AInv, NEW r \in Requests, NEW q, q.op \notin RecomputingOps,
           req' = [req EXCEPT ![r] = q]
    PROVE  StillDerived'
<1>1. \A u \in Requests : req'[u] = q
  BY DEF OneAtATime, AInv
<1> QED
  BY <1>1 DEF StillDerived

LEMMA IdleOp == Idle.op \notin RecomputingOps
BY DEF Idle, RecomputingOps

\* Nothing is pending when a request with nothing read writes.
LEMMA AllIdle ==
    ASSUME OneAtATime, NEW r \in Requests, req[r] = Idle, UNCHANGED req
    PROVE  StillDerived'
<1>1. \A u \in Requests : req'[u].op \notin RecomputingOps
  BY IdleOp DEF OneAtATime
<1> QED
  BY <1>1 DEF StillDerived

LEMMA FewerOpen ==
    ASSUME AInv, Keeps, AlertIds' = AlertIds, OneOpenPerCondition
    PROVE  OneOpenPerCondition'
BY DEF Keeps, OneOpenPerCondition, OpenAlerts, Identity, PersonOf

LEMMA SameQueue ==
    ASSUME OneOpenPerCondition, UNCHANGED alerts
    PROVE  OneOpenPerCondition'
BY DEF OneOpenPerCondition, OpenAlerts, AlertIds, Identity, PersonOf

\* The open alerts after a recompute are those it leaves open, each of a condition
\* that holds, and one for each other condition that holds.
Settles(q) ==
    /\ OpenAlerts' = (OpenAlerts \ q.resolves) \cup Added
    /\ OpenAlerts \cap Added = {}
    /\ \A i \in OpenAlerts \ q.resolves : /\ alerts'[i] = alerts[i]
                                          /\ Identity(i) \in Outcome(q)
    /\ \A i \in Added : /\ Identity(i)' \in Outcome(q)
                        /\ \A j \in OpenAlerts \ q.resolves : Identity(j) # Identity(i)'
                        /\ alerts'[i].snoozed = None
    /\ \A i, j \in Added : Identity(i)' = Identity(j)' => i = j
    /\ \A c \in Outcome(q) : \/ \E i \in OpenAlerts \ q.resolves : Identity(i) = c
                             \/ \E i \in Added : Identity(i)' = c

LEMMA CommitSettles ==
    ASSUME AInv, StillDerived, NEW r \in Requests, CommitRecompute(r)
    PROVE  Settles(req[r])
<1>1. PICK q \in Recomputing : q = req[r] /\ Recomputed(q)
  BY CommitRecomputes
<1>2. Derived(q) /\ q.inserts \subseteq KnownConditions
  BY <1>1 DEF StillDerived, Recomputing
<1>3. PICK acted \in SUBSET AlertIds :
        /\ q.resolves = acted \cup StaleAlerts(Outcome(q), acted)
        /\ q.inserts = MissingAlerts(Outcome(q), acted)
  BY <1>2 DEF Derived
<1> DEFINE left == OpenAlerts \ q.resolves
<1>4. left = {i \in OpenAlerts \ acted : Identity(i) \in Outcome(q)}
  BY <1>3 DEF StaleAlerts
<1>5. q.inserts = Outcome(q) \ {Identity(i) : i \in left}
  BY <1>3, <1>4 DEF MissingAlerts
<1>6. \A c \in q.inserts : c = [type |-> c.type, key |-> c.key]
  BY <1>2 DEF KnownConditions
<1>7. ASSUME NEW i \in Added
      PROVE  /\ Identity(i)' \in q.inserts
             /\ alerts'[i] = NewAlert(Identity(i)')
             /\ alerts'[i].state = "open"
             /\ alerts'[i].snoozed = None
             /\ i \in AlertIds'
  <2>1. PICK c \in q.inserts : alerts'[i] = NewAlert(c)
    BY <1>1 DEF Recomputed
  <2>2. Identity(i)' = c
    BY <1>6, <2>1 DEF Identity, NewAlert
  <2> QED
    BY <2>1, <2>2 DEF NewAlert, Added
<1>8. \A i \in AlertIds : alerts[i] \in Alert
  BY DEF AInv, Queue, AlertIds
<1>9. ASSUME NEW i \in AlertIds
      PROVE  /\ i \in left => alerts'[i] = alerts[i]
             /\ i \in OpenAlerts' <=> i \in left
  <2>1. alerts'[i] = IF i \in q.resolves THEN Resolved(i) ELSE alerts[i]
    BY <1>1 DEF Recomputed
  <2>2. Resolved(i).state # "open"
    BY <1>8, AlertRows
  <2>3. i \in AlertIds'
    BY <1>1 DEF Recomputed
  <2> QED
    BY <2>1, <2>2, <2>3 DEF OpenAlerts
<1>10. OpenAlerts' \subseteq AlertIds' /\ OpenAlerts \subseteq AlertIds
  BY DEF OpenAlerts
<1>11. AlertIds' = AlertIds \cup Added /\ AlertIds \cap Added = {}
  BY <1>1 DEF Recomputed, Added
<1>12. \A i \in Added : i \in OpenAlerts'
  BY <1>7 DEF OpenAlerts
<1>13. OpenAlerts' = left \cup Added
  BY <1>9, <1>10, <1>11, <1>12
<1>14. ASSUME NEW i \in Added, NEW j \in Added, Identity(i)' = Identity(j)'
       PROVE  i = j
  <2>1. alerts'[i] = alerts'[j]
    BY <1>7, <1>14
  <2> QED
    BY <1>1, <2>1 DEF Recomputed
<1>15. ASSUME NEW c \in Outcome(q)
       PROVE  \/ \E i \in left : Identity(i) = c
              \/ \E i \in Added : Identity(i)' = c
  <2>1. CASE c \in q.inserts
    <3>1. PICK i \in Added : alerts'[i] = NewAlert(c)
      BY <1>1, <2>1 DEF Recomputed
    <3>2. Identity(i)' = c
      BY <1>6, <2>1, <3>1 DEF Identity, NewAlert
    <3> QED
      BY <3>2
  <2> QED
    BY <1>5, <2>1
<1>16. ASSUME NEW i \in Added
       PROVE  /\ Identity(i)' \in Outcome(q)
              /\ \A j \in left : Identity(j) # Identity(i)'
              /\ alerts'[i].snoozed = None
  BY <1>5, <1>7
<1>17. \A i \in left : alerts'[i] = alerts[i] /\ Identity(i) \in Outcome(q)
  BY <1>4, <1>9, <1>10
<1>18. OpenAlerts \cap Added = {}
  BY <1>10, <1>11
<1> QED
  BY <1>1, <1>13, <1>14, <1>15, <1>16, <1>17, <1>18 DEF Settles

LEMMA CommitOneOpen ==
    ASSUME AInv, OneOpenPerCondition, StillDerived, NEW r \in Requests, CommitRecompute(r)
    PROVE  OneOpenPerCondition'
<1>1. PICK q \in Recomputing : q = req[r] /\ Settles(q) /\ q.person \in Persons \cup {0}
  BY CommitRecomputes, CommitSettles, CommitTables
<1>2. OnePrdEach(Outcome(q))
  BY OutcomeFacts, <1>1 DEF Recomputing
<1>3. ASSUME NEW i \in OpenAlerts'
      PROVE  /\ Identity(i)' \in Outcome(q)
             /\ i \in OpenAlerts \ q.resolves \/ i \in Added
             /\ i \in OpenAlerts \ q.resolves => Identity(i)' = Identity(i)
  BY <1>1 DEF Settles, Identity
<1> SUFFICES ASSUME NEW i \in OpenAlerts', NEW j \in OpenAlerts',
                    \/ Identity(i)' = Identity(j)'
                    \/ /\ {alerts'[i].type, alerts'[j].type} \subseteq PrdTypes
                       /\ alerts'[i].key[1] = alerts'[j].key[1]
             PROVE  i = j
  BY DEF OneOpenPerCondition, PersonOf
<1>4. Identity(i)' = Identity(j)'
  <2>1. /\ Identity(i)'.type = alerts'[i].type /\ Identity(i)'.key = alerts'[i].key
        /\ Identity(j)'.type = alerts'[j].type /\ Identity(j)'.key = alerts'[j].key
    BY DEF Identity
  <2> QED
    BY <1>2, <1>3, <2>1 DEF OnePrdEach
<1>5. CASE i \in Added /\ j \in Added
  BY <1>1, <1>4, <1>5 DEF Settles
<1>6. CASE i \in OpenAlerts \ q.resolves /\ j \in OpenAlerts \ q.resolves
  BY <1>3, <1>4, <1>6 DEF OneOpenPerCondition
<1>7. CASE i \in Added /\ j \in OpenAlerts \ q.resolves
  BY <1>1, <1>3, <1>4, <1>7 DEF Settles
<1>8. CASE j \in Added /\ i \in OpenAlerts \ q.resolves
  BY <1>1, <1>3, <1>4, <1>8 DEF Settles
<1> QED
  BY <1>3, <1>5, <1>6, <1>7, <1>8

LEMMA SerialStep ==
    ASSUME OneAtATime
    PROVE  AlertsSerial /\ [AlertsNext]_avars => AlertsSerial'
<1> SUFFICES ASSUME AlertsSerial, [AlertsNext]_avars PROVE AlertsSerial'
  OBVIOUS
<1> USE DEF AlertsSerial
<1>1. AInv'
  BY AlertsStepKeeps
<1>2. ASSUME UNCHANGED <<active, hist, deadlines, backlog, alerts, req>>
      PROVE  AlertsSerial'
  BY <1>1, <1>2, DerivedStays, SameQueue DEF StillDerived
<1>3. ASSUME NEW r \in Requests, PersonnelRequest(r) \/ Rollback(r),
             UNCHANGED <<deadlines, backlog, alerts>>
      PROVE  AlertsSerial'
  <2>1. ASSUME BeginStep(r) PROVE StillDerived'
    <3>1. PICK q \in Request \ {Idle} : req' = [req EXCEPT ![r] = q]
      BY <2>1, EveryRequestBegins DEF AInv, Sources, Begin
    <3>2. q.op \notin RecomputingOps
      BY RequestParts DEF RecomputingOps
    <3> QED
      BY <3>1, <3>2, NothingDerived
  <2>2. ASSUME req' = [req EXCEPT ![r] = Idle] PROVE StillDerived'
    BY <2>2, NothingDerived, IdleOp
  <2>3. StillDerived'
    BY <1>3, <2>1, <2>2 DEF PersonnelRequest, BeginStep, CommitCreate, CommitEdit, Rollback
  <2> QED
    BY <1>1, <1>3, <2>3, SameQueue
<1>4. ASSUME NEW r \in Requests, BeginAlertStep(r) PROVE AlertsSerial'
  <2>1. PICK q \in Recomputing :
          /\ Derived(q)
          /\ req' = [req EXCEPT ![r] = q]
          /\ UNCHANGED <<active, hist, today, deadlines, backlog, alerts>>
    BY <1>4, AlertRequestBegins
  <2>2. Derived(q)'
    BY <2>1, DerivedStays
  <2>3. \A u \in Requests : req'[u] = q
    BY <2>1 DEF OneAtATime, AInv
  <2> QED
    BY <1>1, <2>1, <2>2, <2>3, SameQueue DEF StillDerived
<1>5. ASSUME NEW r \in Requests, CommitRecompute(r) PROVE AlertsSerial'
  <2>1. req' = [req EXCEPT ![r] = Idle]
    BY <1>5, CommitTables
  <2> QED
    BY <1>1, <1>5, <2>1, NothingDerived, IdleOp, CommitOneOpen
<1>6. ASSUME NEW r \in Requests, WriteStep(r) PROVE AlertsSerial'
  <2>1. Keeps /\ AlertIds' = AlertIds /\ UNCHANGED req /\ req[r] = Idle
    BY <1>6, WriteKeepsQueue DEF vars
  <2> QED
    BY <1>1, <2>1, FewerOpen, AllIdle
<1>7. ASSUME \/ \E r \in Requests, p \in Persons, due \in Deadlines : QualsChange(r, p, due)
             \/ \E r \in Requests, w \in Lists, n \in 0 .. MaxBacklog : WorklistsChange(r, w, n)
      PROVE  AlertsSerial'
  <2>1. UNCHANGED <<vars, alerts>>
    BY <1>7, InputsKeep
  <2>2. \E r \in Requests : req[r] = Idle
    BY <1>7 DEF QualsChange, WorklistsChange
  <2> QED
    BY <1>1, <2>1, <2>2, AllIdle, SameQueue DEF vars
<1> QED
  BY <1>2, <1>3, <1>4, <1>5, <1>6, <1>7, AlertsCases DEF avars, vars, NextDay

LEMMA SerialInvariance ==
    ASSUME OneAtATime
    PROVE  AlertsSpec => []AlertsSerial
<1>1. AlertsInit => AlertsSerial
  <2>1. AlertsInit => OneOpenPerCondition
    BY DEF AlertsInit, OneOpenPerCondition, OpenAlerts, AlertIds
  <2>2. AlertsInit => StillDerived
    BY IdleOp DEF AlertsInit, Init, StillDerived
  <2> QED
    BY <2>1, <2>2, AlertsInitInvariant DEF AlertsSerial
<1> QED
  BY <1>1, SerialStep, PTL DEF AlertsSpec

\* With one request at a time two open alerts never stand for the same thing, and
\* a departure date is announced once.
THEOREM OneOpenAlert ==
    ASSUME OneAtATime
    PROVE  AlertsSpec => []OneOpenPerCondition
<1>1. AlertsSerial => OneOpenPerCondition
  BY DEF AlertsSerial
<1> QED
  BY <1>1, SerialInvariance, PTL

\* What a request that recomputes shows, as QueueIsCurrent has it.
Shows(q) ==
    {Identity(i) : i \in {j \in AlertIds : Visible(j)}}'
        = Conditions(active', hist', q.eff)
          \ {Identity(i) : i \in {j \in OpenAlerts \ q.resolves : ~Visible(j)}}

LEMMA CommitShows ==
    ASSUME AInv, OneOpenPerCondition, StillDerived, NEW r \in Requests, CommitRecompute(r)
    PROVE  Shows(req[r])
<1>1. PICK q \in Recomputing : q = req[r] /\ Settles(q)
  BY CommitRecomputes, CommitSettles
<1>2. /\ hist' = HistAfter(q)
      /\ active' = IF q.person = 0 THEN active ELSE ActiveAfter(q)
      /\ today' = today
  BY <1>1, CommitTables
<1>3. active' = ActiveAfter(q)
  <2>1. active = [p \in DOMAIN active |-> active[p]] /\ 0 \notin DOMAIN active
    BY DEF AInv, Sources, Tables
  <2> QED
    BY <1>2, <2>1 DEF ActiveAfter
<1>4. Conditions(active', hist', q.eff) = Outcome(q)
  BY <1>2, <1>3 DEF Outcome
<1> DEFINE left   == OpenAlerts \ q.resolves
           hidden == {Identity(i) : i \in {j \in left : ~Visible(j)}}
           shown  == {i \in AlertIds' : Visible(i)'}
<1>5. {Identity(i) : i \in {j \in AlertIds : Visible(j)}}' = {Identity(i)' : i \in shown}
  OBVIOUS
<1>6. \A i \in left : i \in AlertIds' /\ Identity(i)' = Identity(i) /\ (Visible(i)' <=> Visible(i))
  BY <1>1, <1>2 DEF Settles, Identity, Visible, OpenAlerts
<1>7. \A i \in Added : i \in AlertIds' /\ Visible(i)'
  BY <1>1 DEF Settles, Visible, OpenAlerts
<1>8. ASSUME NEW i \in shown PROVE Identity(i)' \in Outcome(q) \ hidden
  <2>1. i \in left \cup Added
    BY <1>1, <1>8 DEF Settles, Visible
  <2>2. CASE i \in Added
    BY <1>1, <2>2 DEF Settles
  <2>3. CASE i \in left
    <3>1. Identity(i)' = Identity(i) /\ Identity(i) \in Outcome(q) /\ Visible(i)
      BY <1>1, <1>6, <1>8, <2>3 DEF Settles
    <3>2. ASSUME NEW j \in left, ~Visible(j) PROVE Identity(j) # Identity(i)
      BY <2>3, <3>1, <3>2 DEF OneOpenPerCondition
    <3> QED
      BY <3>1, <3>2
  <2> QED
    BY <2>1, <2>2, <2>3
<1>9. ASSUME NEW c \in Outcome(q) \ hidden PROVE \E i \in shown : Identity(i)' = c
  <2>1. CASE \E i \in left : Identity(i) = c
    <3>1. PICK i \in left : Identity(i) = c
      BY <2>1
    <3>2. Visible(i)
      BY <1>9, <3>1
    <3> QED
      BY <1>6, <3>1, <3>2
  <2>2. CASE \E i \in Added : Identity(i)' = c
    BY <1>7, <2>2
  <2> QED
    BY <1>1, <1>9, <2>1, <2>2 DEF Settles
<1>10. {Identity(i)' : i \in shown} = Outcome(q) \ hidden
  BY <1>8, <1>9
<1> QED
  BY <1>1, <1>4, <1>5, <1>10 DEF Shows

\* With one request at a time, when a request has recomputed the queue shows what
\* holds of the data that request leaves behind, except what is snoozed.
THEOREM QueueCurrent ==
    ASSUME OneAtATime
    PROVE  AlertsSpec => QueueIsCurrent
<1> DEFINE Settled == \A r \in Requests :
        req[r].op \in RecomputingOps /\ alerts' # alerts => Shows(req[r])
<1>1. AlertsSerial /\ [AlertsNext]_avars => [Settled]_avars
  <2> SUFFICES ASSUME AlertsSerial, AlertsNext, NEW r \in Requests,
                      req[r].op \in RecomputingOps, alerts' # alerts
               PROVE  Shows(req[r])
    OBVIOUS
  <2>1. \A u \in Requests : req[u] # Idle /\ u = r
    BY IdleOp DEF OneAtATime
  <2>2. ASSUME NEW u \in Requests, WriteStep(u) PROVE FALSE
    BY <2>1, <2>2, WriteKeepsQueue DEF AlertsSerial
  <2>3. ASSUME NEW u \in Requests, CommitRecompute(u) PROVE Shows(req[r])
    BY <2>1, <2>3, CommitShows DEF AlertsSerial
  <2>4. ASSUME NEW u \in Requests, BeginAlertStep(u) PROVE FALSE
    BY <2>4, AlertRequestBegins DEF AlertsSerial
  <2>5. ASSUME \/ \E u \in Requests, p \in Persons, due \in Deadlines :
                      QualsChange(u, p, due)
               \/ \E u \in Requests, w \in Lists, n \in 0 .. MaxBacklog :
                      WorklistsChange(u, w, n)
        PROVE  FALSE
    BY <2>5, InputsKeep DEF AlertsSerial
  <2> QED
    BY <2>2, <2>3, <2>4, <2>5, AlertsCases
<1>2. Settled => \A r \in Requests : LET q == req[r] IN
        q.op \in {"recompute", "extend", "depart"} /\ alerts' # alerts =>
            {Identity(i) : i \in {j \in AlertIds : Visible(j)}}'
                = Conditions(active', hist', q.eff)
                  \ {Identity(i) : i \in {j \in OpenAlerts \ q.resolves : ~Visible(j)}}
  BY DEF RecomputingOps, Shows
<1> QED
  BY <1>1, <1>2, SerialInvariance, PTL DEF AlertsSpec, QueueIsCurrent

-----------------------------------------------------------------------------
(* Histories, whether the personnel forms or the alerts write them *)

\* With one request at a time, a request still closes the last row of each history
\* it adds to.
FreshPlan(q) ==
    IF q.op \in RecomputingOps
    THEN \A a \in Attributes : q.plan[a] # Unchanged =>
            /\ q.person \in Persons
            /\ Telling(hist[q.person][a], q.plan[a])
    ELSE Fresh(q)

HistoriesSerial == AInv /\ Chained /\ \A r \in Requests : FreshPlan(req[r])

\* A request starts, and finds the histories chained.
LEMMA PlanBegins ==
    ASSUME OneAtATime, HistoriesSerial, NEW r \in Requests, NEW q, FreshPlan(q),
           req' = [req EXCEPT ![r] = q], UNCHANGED <<active, hist>>
    PROVE  Chained' /\ \A u \in Requests : FreshPlan(req[u])'
<1>1. Chained'
  BY DEF HistoriesSerial, Chained, Persons
<1>2. \A u \in Requests : req'[u] = q
  BY DEF OneAtATime, HistoriesSerial, AInv
<1>3. FreshPlan(q)'
  BY DEF FreshPlan, Fresh, Persons
<1>4. ASSUME NEW u \in Requests PROVE FreshPlan(req[u])'
  BY <1>2, <1>3 DEF FreshPlan, Fresh
<1> QED
  BY <1>1, <1>4

\* A request ends.
LEMMA PlanEnds ==
    ASSUME OneAtATime, HistoriesSerial, NEW r \in Requests, req' = [req EXCEPT ![r] = Idle]
    PROVE  \A u \in Requests : FreshPlan(req[u])'
<1>1. \A u \in Requests : req'[u] = Idle
  BY DEF OneAtATime, HistoriesSerial, AInv
<1>2. ASSUME NEW u \in Requests PROVE FreshPlan(req[u])'
  BY <1>1, IdleOp, IdleFresh DEF FreshPlan, Fresh
<1> QED
  BY <1>2

LEMMA CommitChains ==
    ASSUME HistoriesSerial, NEW r \in Requests, CommitRecompute(r)
    PROVE  Chained'
<1>1. PICK q \in Recomputing : q = req[r] /\ FreshPlan(q)
  BY CommitRecomputes DEF HistoriesSerial
<1>2. Tables /\ Persons' = Persons /\ hist' = HistAfter(q)
  BY <1>1, CommitTables DEF HistoriesSerial, AInv, Sources
<1>3. /\ q.eff \in Days
      /\ \A a \in Attributes : q.plan[a] \in Plan
      /\ \A a \in Attributes : q.plan[a] # Unchanged =>
            q.plan[a].close = Len(hist[q.person][a])
  BY <1>1 DEF Recomputing, FreshPlan, Telling
<1>4. ASSUME NEW p \in Persons, NEW a \in Attributes
      PROVE  IsChain(hist'[p][a])
  <2>1. hist[p][a] \in Seq(Row) /\ IsChain(hist[p][a]) /\ p \in DOMAIN hist
    BY <1>2, HistType DEF HistoriesSerial, Chained, IsChain, Tables
  <2>2. CASE q.person = 0 \/ p # q.person
    <3>1. hist'[p] = hist[p]
      BY <1>2, <2>1, <2>2 DEF HistAfter
    <3> QED
      BY <2>1, <3>1
  <2>3. CASE q.person # 0 /\ p = q.person
    <3>1. hist'[p][a] = Applied(hist[p][a], q.plan[a], q.eff)
      BY <1>2, <2>1, <2>3 DEF HistAfter
    <3>2. IsChain(Applied(hist[p][a], q.plan[a], q.eff))
      BY <1>3, <2>1, <2>3, AppliedChained
    <3> QED
      BY <3>1, <3>2
  <2> QED
    BY <2>2, <2>3
<1> QED
  BY <1>2, <1>4 DEF Chained, IsChain

LEMMA HistoriesStep ==
    ASSUME OneAtATime
    PROVE  HistoriesSerial /\ [AlertsNext]_avars => HistoriesSerial'
<1> SUFFICES ASSUME HistoriesSerial, [AlertsNext]_avars
             PROVE  Chained' /\ \A r \in Requests : FreshPlan(req[r])'
  BY AlertsStepKeeps DEF HistoriesSerial
<1>1. ASSUME UNCHANGED <<active, hist, req>>
      PROVE  Chained' /\ \A r \in Requests : FreshPlan(req[r])'
  BY <1>1 DEF HistoriesSerial, Chained, FreshPlan, Fresh, Persons
<1>2. Tables
  BY DEF HistoriesSerial, AInv, Sources
<1>3. ASSUME NEW r \in Requests, PersonnelRequest(r) \/ Rollback(r)
      PROVE  Chained' /\ \A u \in Requests : FreshPlan(req[u])'
  <2>1. ASSUME BeginStep(r)
        PROVE  Chained' /\ \A u \in Requests : FreshPlan(req[u])'
    <3>1. PICK q \in Request \ {Idle} : Fresh(q) /\ Begin(r, q)
      BY <1>2, <2>1, EveryRequestBegins DEF HistoriesSerial
    <3>2. q.op \notin RecomputingOps
      BY RequestParts DEF RecomputingOps
    <3>3. FreshPlan(q) /\ req' = [req EXCEPT ![r] = q] /\ UNCHANGED <<active, hist>>
      BY <3>1, <3>2 DEF FreshPlan, Begin
    <3> QED
      BY <3>3, PlanBegins
  <2>2. ASSUME CommitCreate(r) \/ CommitEdit(r) PROVE Chained'
    <3>1. req[r].op \notin RecomputingOps
      BY <2>2 DEF CommitCreate, CommitEdit, RecomputingOps
    <3>2. Sound(req[r]) /\ FreshPlan(req[r]) /\ Chained
      BY DEF HistoriesSerial, AInv
    <3>3. req[r] \in Request /\ Ready(req[r]) /\ Fresh(req[r])
      BY <3>1, <3>2 DEF Sound, Recomputing, FreshPlan
    <3> QED
      BY <1>2, <2>2, <3>2, <3>3, CreateChains, EditChains
  <2>3. ASSUME Rollback(r) PROVE Chained'
    BY <2>3 DEF Rollback, HistoriesSerial, Chained, Persons
  <2>4. ASSUME req' = [req EXCEPT ![r] = Idle] PROVE \A u \in Requests : FreshPlan(req[u])'
    BY <2>4, PlanEnds
  <2> QED
    BY <1>3, <2>1, <2>2, <2>3, <2>4
    DEF PersonnelRequest, BeginStep, CommitCreate, CommitEdit, Rollback
<1>4. ASSUME NEW r \in Requests, BeginAlertStep(r)
      PROVE  Chained' /\ \A u \in Requests : FreshPlan(req[u])'
  <2>1. PICK q \in Recomputing :
          /\ ClosesCurrent(q)
          /\ req' = [req EXCEPT ![r] = q]
          /\ UNCHANGED <<active, hist>>
    BY <1>4, AlertRequestBegins DEF HistoriesSerial
  <2>2. ASSUME NEW a \in Attributes, q.plan[a] # Unchanged
        PROVE  q.person \in Persons /\ Telling(hist[q.person][a], q.plan[a])
    <3>1. q.person \in Persons
      BY <2>1, <2>2 DEF ClosesCurrent
    <3>2. PICK h \in Seq(Row) : h = hist[q.person][a] /\ IsChain(h)
      BY <1>2, <3>1, HistType DEF HistoriesSerial, Chained, IsChain
    <3>3. CurrentRows(h) = IF h = <<>> THEN {} ELSE {Len(h)}
      BY <3>2, ChainCurrent
    <3>4. h # <<>> => Len(h) \in DOMAIN h
      BY <3>2
    <3>5. h = <<>> => Len(h) = 0
      OBVIOUS
    <3> QED
      BY <2>1, <2>2, <3>1, <3>2, <3>3, <3>4, <3>5 DEF ClosesCurrent, Telling
  <2>3. FreshPlan(q)
    BY <2>2 DEF FreshPlan, Recomputing
  <2> QED
    BY <2>1, <2>3, PlanBegins
<1>5. ASSUME NEW r \in Requests, CommitRecompute(r)
      PROVE  Chained' /\ \A u \in Requests : FreshPlan(req[u])'
  <2>1. req' = [req EXCEPT ![r] = Idle]
    BY <1>5, CommitTables DEF HistoriesSerial
  <2> QED
    BY <1>5, <2>1, CommitChains, PlanEnds
<1>6. ASSUME NEW r \in Requests, WriteStep(r) PROVE UNCHANGED <<active, hist, req>>
  BY <1>6, WriteKeepsQueue DEF vars, HistoriesSerial
<1>7. ASSUME \/ \E r \in Requests, p \in Persons, due \in Deadlines : QualsChange(r, p, due)
             \/ \E r \in Requests, w \in Lists, n \in 0 .. MaxBacklog : WorklistsChange(r, w, n)
      PROVE  UNCHANGED <<active, hist, req>>
  BY <1>7, InputsKeep DEF vars, HistoriesSerial
<1> QED
  BY <1>1, <1>3, <1>4, <1>5, <1>6, <1>7, AlertsCases DEF avars, vars, NextDay

LEMMA HistoriesInvariance ==
    ASSUME OneAtATime
    PROVE  AlertsSpec => []HistoriesSerial
<1>1. AlertsInit => HistoriesSerial
  <2>1. AlertsInit => Chained /\ \A r \in Requests : FreshPlan(req[r])
    BY IdleFresh, IdleOp DEF AlertsInit, Init, Chained, FreshPlan, Persons
  <2> QED
    BY <2>1, AlertsInitInvariant DEF HistoriesSerial
<1> QED
  BY <1>1, HistoriesStep, PTL DEF AlertsSpec

\* Moving a departure date or archiving a person from the queue keeps a history a
\* chain, as the personnel forms do.
THEOREM AlertsChain ==
    ASSUME OneAtATime
    PROVE  AlertsSpec => []Chained
<1>1. HistoriesSerial => Chained
  BY DEF HistoriesSerial
<1> QED
  BY <1>1, HistoriesInvariance, PTL

\* And so one row of each attribute is current.
THEOREM AlertsOneCurrent ==
    ASSUME OneAtATime
    PROVE  AlertsSpec => []OneCurrent
<1>1. HistoriesSerial => OneCurrent
  BY ChainedCurrent DEF HistoriesSerial, AInv, Sources
<1> QED
  BY <1>1, HistoriesInvariance, PTL

-----------------------------------------------------------------------------
(* Histories are a journal *)

\* The value that was set last.
LastValue(h) == IF h = <<>> THEN None ELSE h[Len(h)].value

LEMMA ChainShows ==
    ASSUME NEW h \in Seq(Row), IsChain(h)
    PROVE  CurrentValue(h) = LastValue(h)
<1>1. CurrentRows(h) = IF h = <<>> THEN {} ELSE {Len(h)}
  BY ChainCurrent
<1> QED
  BY <1>1 DEF CurrentValue, LastValue

EntryRow == [value : AnyValue, from : Days]

LEMMA EntriesOfType ==
    ASSUME NEW h \in Seq(Row)
    PROVE  EntriesOf(h) \in Seq(EntryRow) /\ Len(EntriesOf(h)) = Len(h)
<1>1. \A i \in 1 .. Len(h) : [value |-> h[i].value, from |-> h[i].from] \in EntryRow
  <2>1. \A i \in 1 .. Len(h) : h[i] \in Row
    OBVIOUS
  <2> QED
    BY <2>1, RowFields DEF EntryRow
<1>2. EntriesOf(h) \in [1 .. Len(h) -> EntryRow]
  BY <1>1 DEF EntriesOf
<1> QED
  BY <1>2

\* Carrying out a plan notes its value, if it brings one.
LEMMA AppliedNotes ==
    ASSUME NEW h \in Seq(Row), NEW plan \in Plan, NEW eff \in Days
    PROVE  EntriesOf(Applied(h, plan, eff)) = Journaled!Noted(EntriesOf(h), plan.value, eff)
<1> DEFINE g == Applied(h, plan, eff)
<1>1. CASE plan = Unchanged
  <2>1. g = h /\ plan.value = None
    BY <1>1 DEF Applied, Unchanged
  <2> QED
    BY <2>1 DEF Journaled!Noted
<1>2. CASE plan # Unchanged
  <2>1. plan.value # None
    BY <1>2, ValuesAssumption DEF Plan, AnyValue
  <2>2. /\ g \in Seq(Row)
        /\ Len(g) = Len(h) + 1
        /\ g[Len(h) + 1] = [value |-> plan.value, from |-> eff, to |-> None]
    BY <1>2, AppliedFacts
  <2>3. \A i \in 1 .. Len(h) : g[i].value = h[i].value /\ g[i].from = h[i].from
    BY AppliedContinues DEF Continues
  <2> DEFINE entry == [value |-> plan.value, from |-> eff]
  <2>4. Append(EntriesOf(h), entry) \in Seq(EntryRow)
    <3>1. entry \in EntryRow
      BY <1>2 DEF Plan, EntryRow
    <3> QED
      BY <3>1, EntriesOfType
  <2>5. Append(EntriesOf(h), entry) = [i \in 1 .. Len(h) + 1 |->
            IF i = Len(h) + 1 THEN entry ELSE EntriesOf(h)[i]]
    BY EntriesOfType
  <2> HIDE DEF g
  <2>6. EntriesOf(g) = [i \in 1 .. Len(h) + 1 |-> [value |-> g[i].value, from |-> g[i].from]]
    BY <2>2 DEF EntriesOf
  <2>7. ASSUME NEW i \in 1 .. Len(h) + 1
        PROVE  [value |-> g[i].value, from |-> g[i].from] =
                  IF i = Len(h) + 1 THEN entry ELSE EntriesOf(h)[i]
    <3>1. CASE i = Len(h) + 1
      BY <2>2, <3>1
    <3>2. CASE i # Len(h) + 1
      <4>1. i \in 1 .. Len(h) /\ i \in DOMAIN h
        BY <3>2
      <4> QED
        BY <2>3, <3>2, <4>1 DEF EntriesOf
    <3> QED
      BY <3>1, <3>2
  <2>8. EntriesOf(g) = Append(EntriesOf(h), entry)
    BY <2>5, <2>6, <2>7
  <2> QED
    BY <2>1, <2>8 DEF Journaled!Noted, g
<1> QED
  BY <1>1, <1>2

\* It is new, and it is what is shown then.
LEMMA AppliedShows ==
    ASSUME NEW h \in Seq(Row), NEW plan \in Plan, NEW eff \in Days, IsChain(h),
           Telling(h, plan)
    PROVE  /\ plan.value # None => plan.value # CurrentValue(h)
           /\ CurrentValue(Applied(h, plan, eff)) =
                IF plan.value = None THEN CurrentValue(h) ELSE plan.value
<1> DEFINE g == Applied(h, plan, eff)
<1>1. CASE plan = Unchanged
  <2>1. g = h /\ plan.value = None
    BY <1>1 DEF Applied, Unchanged
  <2> QED
    BY <2>1
<1>2. CASE plan # Unchanged
  <2>1. plan.value # None
    BY <1>2, ValuesAssumption DEF Plan, AnyValue
  <2>2. /\ g \in Seq(Row)
        /\ Len(g) = Len(h) + 1
        /\ g[Len(h) + 1] = [value |-> plan.value, from |-> eff, to |-> None]
    BY <1>2, AppliedFacts
  <2>3. IsChain(g)
    BY <1>2, AppliedChained DEF Telling
  <2> HIDE DEF g
  <2>4. CurrentValue(g) = plan.value
    <3>1. g # <<>>
      BY <2>2
    <3> QED
      BY <2>2, <2>3, <3>1, ChainShows DEF LastValue
  <2>5. plan.value # LastValue(h)
    BY <1>2, <2>1 DEF Telling, LastValue
  <2> QED
    BY <2>1, <2>4, <2>5, ChainShows DEF g
<1> QED
  BY <1>1, <1>2

\* A plan that is carried out for one person is a note.
LEMMA EditNotes ==
    ASSUME Tables, Chained, NEW p \in Persons, NEW plan \in [Attributes -> Plan],
           NEW eff \in Days, \A a \in Attributes : Telling(hist[p][a], plan[a]),
           Persons' = Persons,
           hist' = [hist EXCEPT ![p] =
                      [a \in Attributes |-> Applied(hist[p][a], plan[a], eff)]]
    PROVE  [Journaled!Next]_(Journaled!vars)
<1> DEFINE notes == [a \in Attributes |-> plan[a].value]
<1>1. \A x \in Persons, a \in Attributes : hist[x][a] \in Seq(Row) /\ IsChain(hist[x][a])
  BY HistType DEF Chained, IsChain
<1>2. notes \in Journaled!Notes
  <2>1. \A a \in Attributes : plan[a].value \in AnyValue \cup {None}
    <3>1. \A a \in Attributes : plan[a] \in Plan
      OBVIOUS
    <3> QED
      BY <3>1 DEF Plan, Unchanged
  <2> QED
    BY <2>1 DEF Journaled!Notes
<1>3. p \in DOMAIN hist /\ \A x \in Persons : x # p => hist'[x] = hist[x]
  BY HistType DEF Tables
<1>4. \A a \in Attributes : hist'[p][a] = Applied(hist[p][a], plan[a], eff)
  BY <1>3
<1>5. \A a \in Attributes :
        /\ EntriesOf(hist'[p][a]) = Journaled!Noted(EntriesOf(hist[p][a]), notes[a], eff)
        /\ notes[a] # None => notes[a] # CurrentValue(hist[p][a])
        /\ CurrentValue(hist'[p][a]) =
              IF notes[a] = None THEN CurrentValue(hist[p][a]) ELSE notes[a]
  <2> TAKE a \in Attributes
  <2>1. hist[p][a] \in Seq(Row) /\ IsChain(hist[p][a]) /\ plan[a] \in Plan
    BY <1>1
  <2> QED
    BY <1>4, <2>1, AppliedNotes, AppliedShows
<1> HIDE DEF notes
<1>6. Entries' = [Entries EXCEPT ![p] =
        [a \in Attributes |-> Journaled!Noted(Entries[p][a], notes[a], eff)]]
  <2>1. ASSUME NEW x \in Persons
        PROVE  [a \in Attributes |-> EntriesOf(hist'[x][a])] =
                 IF x = p THEN [a \in Attributes |-> Journaled!Noted(Entries[p][a], notes[a], eff)]
                 ELSE Entries[x]
    <3>1. CASE x = p
      BY <1>5, <3>1 DEF Entries
    <3>2. CASE x # p
      BY <1>3, <3>2 DEF Entries
    <3> QED
      BY <3>1, <3>2
  <2> QED
    BY <2>1 DEF Entries
<1>7. Shown' = [Shown EXCEPT ![p] = [a \in Attributes |->
                  IF notes[a] = None THEN Shown[p][a] ELSE notes[a]]]
  <2>1. ASSUME NEW x \in Persons
        PROVE  [a \in Attributes |-> CurrentValue(hist'[x][a])] =
                 IF x = p THEN [a \in Attributes |->
                                  IF notes[a] = None THEN Shown[p][a] ELSE notes[a]]
                 ELSE Shown[x]
    <3>1. CASE x = p
      BY <1>5, <3>1 DEF Shown
    <3>2. CASE x # p
      BY <1>3, <3>2 DEF Shown
    <3> QED
      BY <3>1, <3>2
  <2> QED
    BY <2>1 DEF Shown
<1>8. \A a \in Attributes : notes[a] # None => notes[a] # Shown[p][a]
  BY <1>5 DEF Shown
<1>9. Journaled!Note(p, notes, eff)
  BY <1>6, <1>7, <1>8 DEF Journaled!Note
<1>10. p \in DOMAIN Entries
  BY DEF Entries
<1>11. CASE Entries' = Entries
  <2>1. ASSUME NEW a \in Attributes PROVE notes[a] = None
    <3>1. EntriesOf(hist[p][a]) = Journaled!Noted(EntriesOf(hist[p][a]), notes[a], eff)
      <4>1. Entries'[p][a] = Entries[p][a]
        BY <1>11
      <4>2. Entries'[p][a] = EntriesOf(hist'[p][a]) /\ Entries[p][a] = EntriesOf(hist[p][a])
        BY DEF Entries
      <4> QED
        BY <1>5, <4>1, <4>2
    <3>2. PICK e \in Seq(EntryRow) : e = EntriesOf(hist[p][a])
      BY <1>1, EntriesOfType
    <3>3. \A y : e # Append(e, y)
      <4>1. \A y : DOMAIN Append(e, y) = 1 .. Len(e) + 1 /\ DOMAIN e = 1 .. Len(e) /\ Len(e) \in Nat
        OBVIOUS
      <4>2. Len(e) + 1 \notin 1 .. Len(e) /\ Len(e) + 1 \in 1 .. Len(e) + 1
        BY <4>1
      <4> QED
        BY <4>1, <4>2
    <3> QED
      BY <3>1, <3>2, <3>3 DEF Journaled!Noted
  <2>2. Shown' = Shown
    <3>1. Shown' = [Shown EXCEPT ![p] = [a \in Attributes |-> Shown[p][a]]]
      BY <1>7, <2>1
    <3> QED
      BY <3>1 DEF Shown
  <2> QED
    BY <1>11, <2>2 DEF Journaled!vars
<1>12. CASE Entries' # Entries
  BY <1>2, <1>9, <1>10, <1>12 DEF Journaled!Next
<1> QED
  BY <1>11, <1>12

\* A person who is created is entered.
LEMMA CreateNotes ==
    ASSUME Tables, NEW r \in Requests, req[r] \in Request, Fresh(req[r]), CommitCreate(r)
    PROVE  Journaled!Next
<1> DEFINE notes == [a \in Attributes |-> req[r].plan[a].value]
           new == [a \in Attributes |-> Applied(<<>>, req[r].plan[a], req[r].eff)]
           n == Len(hist)
<1>1. /\ hist \in Seq([Attributes -> Seq(Row)]) /\ n \in Nat
      /\ Persons = 1 .. n /\ Persons' = 1 .. n + 1
      /\ \A x \in 1 .. n : hist'[x] = hist[x]
      /\ hist'[n + 1] = new
  <2>1. hist \in Seq([Attributes -> Seq(Row)]) /\ n \in Nat /\ Persons = 1 .. n
    BY DEF Tables, Persons
  <2>2. Persons' = Persons \cup {n + 1} /\ hist'[n + 1] = new
        /\ \A x \in Persons : hist'[x] = hist[x]
    BY CreateWrites
  <2> HIDE DEF n, new
  <2> QED
    BY <2>1, <2>2
<1>2. req[r].eff \in Days /\ \A a \in Attributes : req[r].plan[a] \in Plan
  <2>1. PICK q \in Request : q = req[r]
    OBVIOUS
  <2>2. q # Idle
    BY <2>1 DEF CommitCreate, Idle
  <2> QED
    BY <2>1, <2>2, RequestParts
<1>3. \A a \in Attributes : notes[a] \in AnyValue \cup {None}
  BY <1>2 DEF Plan, Unchanged
<1>4. notes \in Journaled!Notes
  BY <1>3 DEF Journaled!Notes
<1>5. \A a \in Attributes :
        /\ EntriesOf(new[a]) = Journaled!Noted(<<>>, notes[a], req[r].eff)
        /\ CurrentValue(new[a]) = notes[a]
  <2> TAKE a \in Attributes
  <2>1. <<>> \in Seq(Row) /\ IsChain(<<>>) /\ Len(<<>>) = 0
    BY DEF IsChain
  <2>2. Telling(<<>>, req[r].plan[a])
    BY <2>1 DEF Fresh, Telling, CommitCreate
  <2>3. EntriesOf(<<>>) = <<>> /\ CurrentValue(<<>>) = None
    <3>1. EntriesOf(<<>>) \in Seq(EntryRow) /\ Len(EntriesOf(<<>>)) = 0
      BY <2>1, EntriesOfType
    <3> QED
      BY <2>1, <3>1, ChainShows DEF LastValue
  <2>4. new[a] = Applied(<<>>, req[r].plan[a], req[r].eff) /\ notes[a] = req[r].plan[a].value
    OBVIOUS
  <2> HIDE DEF new, notes
  <2> QED
    BY <1>2, <2>1, <2>2, <2>3, <2>4, AppliedNotes, AppliedShows
<1> HIDE DEF new, n
<1>6. Entries' = Append(Entries, [a \in Attributes |-> Journaled!Noted(<<>>, notes[a], req[r].eff)])
  <2> DEFINE row == [a \in Attributes |-> Journaled!Noted(<<>>, notes[a], req[r].eff)]
  <2>1. Entries = [x \in 1 .. n |-> Entries[x]] /\ Len(Entries) = n
    BY <1>1 DEF Entries
  <2>2. Append(Entries, row) = [x \in 1 .. n + 1 |-> IF x = n + 1 THEN row ELSE Entries[x]]
    <3> HIDE DEF row
    <3> QED
      BY <1>1, <2>1
  <2>3. ASSUME NEW x \in 1 .. n + 1
        PROVE  [a \in Attributes |-> EntriesOf(hist'[x][a])] = IF x = n + 1 THEN row ELSE Entries[x]
    <3>1. CASE x = n + 1
      BY <1>1, <1>5, <3>1
    <3>2. CASE x # n + 1
      <4>1. x \in 1 .. n
        BY <1>1, <3>2
      <4> QED
        BY <1>1, <3>2, <4>1 DEF Entries
    <3> QED
      BY <3>1, <3>2
  <2>4. Entries' = [x \in 1 .. n + 1 |-> [a \in Attributes |-> EntriesOf(hist'[x][a])]]
    BY <1>1 DEF Entries
  <2> HIDE DEF row
  <2>5. Entries' = Append(Entries, row)
    BY <2>2, <2>3, <2>4
  <2> QED
    BY <2>5 DEF row
<1>7. Shown' = Append(Shown, notes)
  <2>1. Shown = [x \in 1 .. n |-> Shown[x]] /\ Len(Shown) = n
    BY <1>1 DEF Shown
  <2>2. notes = [a \in Attributes |-> notes[a]]
    OBVIOUS
  <2> HIDE DEF notes
  <2>3. Append(Shown, notes) = [x \in 1 .. n + 1 |-> IF x = n + 1 THEN notes ELSE Shown[x]]
    BY <1>1, <2>1
  <2>4. ASSUME NEW x \in 1 .. n + 1
        PROVE  [a \in Attributes |-> CurrentValue(hist'[x][a])] =
                  IF x = n + 1 THEN notes ELSE Shown[x]
    <3>1. CASE x = n + 1
      BY <1>1, <1>5, <2>2, <3>1
    <3>2. CASE x # n + 1
      <4>1. x \in 1 .. n
        BY <1>1, <3>2
      <4> QED
        BY <1>1, <3>2, <4>1 DEF Shown
    <3> QED
      BY <3>1, <3>2
  <2>5. Shown' = [x \in 1 .. n + 1 |-> [a \in Attributes |-> CurrentValue(hist'[x][a])]]
    BY <1>1 DEF Shown
  <2> QED
    BY <2>3, <2>4, <2>5
<1>8. Entries' # Entries
  <2>1. n + 1 \in Persons' /\ n + 1 \notin Persons
    BY <1>1
  <2>2. DOMAIN Entries' = Persons' /\ DOMAIN Entries = Persons
    BY DEF Entries
  <2> QED
    BY <2>1, <2>2
<1>9. Journaled!Enter(notes, req[r].eff)
  BY <1>6, <1>7 DEF Journaled!Enter
<1> HIDE DEF notes
<1> QED
  BY <1>2, <1>4, <1>8, <1>9 DEF Journaled!Next

\* What leaves the persons and their histories alone notes nothing.
LEMMA QuietNotes ==
    ASSUME UNCHANGED <<active, hist>>
    PROVE  [Journaled!Next]_(Journaled!vars)
BY DEF Entries, Shown, Persons, Journaled!vars

LEMMA InitNotes == active = <<>> /\ hist = <<>> => Journaled!Init
BY DEF Journaled!Init, Entries, Shown, Persons

\* The commits of the personnel forms.
LEMMA FormsNote ==
    ASSUME Tables, Chained, NEW r \in Requests, req[r] \in Request, Ready(req[r]),
           Fresh(req[r]), CommitCreate(r) \/ CommitEdit(r)
    PROVE  [Journaled!Next]_(Journaled!vars)
<1>1. CASE CommitCreate(r)
  BY <1>1, CreateNotes
<1>2. CASE CommitEdit(r)
  <2>1. PICK q \in Request \ {Idle} : q = req[r] /\ q.op \in {"edit", "archive"}
    BY <1>2 DEF CommitEdit, Idle
  <2>2. q.person \in Persons /\ \A a \in Attributes : Telling(hist[q.person][a], q.plan[a])
    BY <2>1 DEF Ready, Fresh
  <2>3. q.eff \in Days /\ q.plan \in [Attributes -> Plan]
    BY <2>1, RequestParts
  <2>4. /\ Persons' = Persons
        /\ hist' = [hist EXCEPT ![q.person] =
              [a \in Attributes |-> Applied(hist[q.person][a], q.plan[a], q.eff)]]
    BY <1>2, <2>1, EditWrites DEF CommitEdit
  <2> QED
    BY <2>2, <2>3, <2>4, EditNotes
<1> QED
  BY <1>1, <1>2

\* With one request at a time, histories are a journal: what set_new_value was called
\* for is noted once, after what was noted before, and is what current_row then finds,
\* whatever date it was given; and an edit form that is submitted unchanged leaves
\* nothing.
THEOREM JournalKept ==
    ASSUME OneAtATime
    PROVE  Spec => KeepsJournal
<1>1. Init => Journaled!Init
  BY InitNotes DEF Init
<1>2. IInv /\ SInv /\ [Next]_vars => [Journaled!Next]_(Journaled!vars)
  <2> SUFFICES ASSUME IInv, SInv, [Next]_vars
               PROVE  [Journaled!Next]_(Journaled!vars)
    OBVIOUS
  <2>1. ASSUME NEW r \in Requests, BeginStep(r) PROVE UNCHANGED <<active, hist>>
    BY <2>1, EveryRequestBegins, TablesTyped DEF IInv, Begin
  <2>2. ASSUME NEW r \in Requests, CommitCreate(r) \/ CommitEdit(r)
        PROVE  [Journaled!Next]_(Journaled!vars)
    BY <2>2, FormsNote, TablesTyped DEF IInv, SInv, TypeOK
  <2>3. CASE UNCHANGED <<active, hist>>
    BY <2>3, QuietNotes
  <2> QED
    BY <2>1, <2>2, <2>3, NextCases DEF Rollback, NextDay, vars
<1>3. Init => SInv
  BY IdleFresh DEF Init, SInv, Chained, Persons
<1>4. IInv /\ SInv /\ [Next]_vars => SInv'
  BY SerialKeeps
<1> QED
  BY <1>1, <1>2, <1>3, <1>4, Invariance, PTL DEF Spec, KeepsJournal, Journaled!Spec

\* The same of the histories that are written from the queue as well: moving a
\* departure date or archiving a person from an alert notes it as a form does.
THEOREM AlertsKeepJournal ==
    ASSUME OneAtATime
    PROVE  AlertsSpec => KeepsJournal
<1>1. AlertsInit => Journaled!Init
  BY InitNotes DEF AlertsInit, Init
<1>2. HistoriesSerial /\ [AlertsNext]_avars => [Journaled!Next]_(Journaled!vars)
  <2> SUFFICES ASSUME HistoriesSerial, [AlertsNext]_avars
               PROVE  [Journaled!Next]_(Journaled!vars)
    OBVIOUS
  <2>1. Tables /\ AInv /\ Chained
    BY DEF HistoriesSerial, AInv, Sources
  <2>2. ASSUME UNCHANGED <<active, hist>> PROVE [Journaled!Next]_(Journaled!vars)
    BY <2>2, QuietNotes
  <2>3. ASSUME NEW r \in Requests, PersonnelRequest(r) \/ Rollback(r)
        PROVE  [Journaled!Next]_(Journaled!vars)
    <3>1. ASSUME BeginStep(r) PROVE UNCHANGED <<active, hist>>
      BY <2>1, <3>1, EveryRequestBegins DEF Begin
    <3>2. ASSUME CommitCreate(r) \/ CommitEdit(r)
          PROVE  [Journaled!Next]_(Journaled!vars)
      <4>1. req[r].op \notin RecomputingOps
        BY <3>2 DEF CommitCreate, CommitEdit, RecomputingOps
      <4>2. Sound(req[r]) /\ FreshPlan(req[r])
        BY DEF HistoriesSerial, AInv
      <4>3. req[r] \in Request /\ Ready(req[r]) /\ Fresh(req[r])
        BY <4>1, <4>2 DEF Sound, Recomputing, FreshPlan
      <4> QED
        BY <2>1, <3>2, <4>3, FormsNote
    <3>3. CASE Rollback(r)
      BY <2>2, <3>3 DEF Rollback
    <3> QED
      BY <2>2, <2>3, <3>1, <3>2, <3>3 DEF PersonnelRequest, BeginStep
  <2>4. ASSUME NEW r \in Requests, BeginAlertStep(r) PROVE UNCHANGED <<active, hist>>
    BY <2>1, <2>4, AlertRequestBegins
  <2>5. ASSUME NEW r \in Requests, CommitRecompute(r)
        PROVE  [Journaled!Next]_(Journaled!vars)
    <3>1. PICK q \in Recomputing : q = req[r] /\ FreshPlan(q)
      BY <2>1, <2>5, CommitRecomputes DEF HistoriesSerial
    <3>2. Persons' = Persons /\ hist' = HistAfter(q) /\ q.person \in Persons \cup {0}
      BY <2>1, <2>5, <3>1, CommitTables
    <3>3. /\ q.eff \in Days /\ q.plan \in [Attributes -> Plan]
          /\ \A a \in Attributes : q.plan[a] # Unchanged =>
                q.person \in Persons /\ Telling(hist[q.person][a], q.plan[a])
      BY <3>1 DEF Recomputing, FreshPlan
    <3>4. CASE q.person = 0
      BY <3>2, <3>4 DEF HistAfter, Entries, Shown, Journaled!vars
    <3>5. CASE q.person # 0
      <4>1. /\ q.person \in Persons
            /\ hist' = [hist EXCEPT ![q.person] =
                 [a \in Attributes |-> Applied(hist[q.person][a], q.plan[a], q.eff)]]
        BY <3>2, <3>5 DEF HistAfter
      <4>2. \A a \in Attributes : Telling(hist[q.person][a], q.plan[a])
        BY <3>3 DEF Telling
      <4> QED
        BY <2>1, <3>2, <3>3, <4>1, <4>2, EditNotes
    <3> QED
      BY <3>4, <3>5
  <2>6. ASSUME NEW r \in Requests, WriteStep(r) PROVE UNCHANGED <<active, hist>>
    BY <2>1, <2>6, WriteKeepsQueue DEF vars
  <2>7. ASSUME \/ \E r \in Requests, p \in Persons, due \in Deadlines : QualsChange(r, p, due)
               \/ \E r \in Requests, w \in Lists, n \in 0 .. MaxBacklog : WorklistsChange(r, w, n)
        PROVE  UNCHANGED <<active, hist>>
    BY <2>1, <2>7, InputsKeep DEF vars
  <2> QED
    BY <2>2, <2>3, <2>4, <2>5, <2>6, <2>7, AlertsCases DEF avars, vars, NextDay
<1> QED
  BY <1>1, <1>2, HistoriesInvariance, PTL DEF AlertsSpec, KeepsJournal, Journaled!Spec
=============================================================================
