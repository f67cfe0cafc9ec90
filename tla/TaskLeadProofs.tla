--------------------------- MODULE TaskLeadProofs ---------------------------
(***************************************************************************)
(* A task has at most one lead, for any number of requests served at once, *)
(* any roster, and either form of the index.  The argument is the index's: *)
(* whatever a request read, a flush that would leave two leads is refused. *)
(*                                                                         *)
(* For the same requests: handing the lead on never loses it, and with the *)
(* partial index the reasons are known for which a request can be refused  *)
(* by the rows it was decided on.                                          *)
(***************************************************************************)
EXTENDS TaskLead, FiniteSetTheorems, TLAPS

NewRow == [who : People \cup {External}, poic : BOOLEAN]

\* Every row belongs to a task there is.
RowsHaveTasks == \A i \in RowIds : rows[i].task \in Tasks

\* What the index keeps: among the rows of a task, archived or not, at most one
\* leads; without the WHERE clause, there is at most one row.
IndexHolds ==
    \A i, j \in RowIds :
        /\ rows[i].task = rows[j].task
        /\ PartialIndex => rows[i].poic /\ rows[j].poic
        => i = j

\* A request is for a task there is (or for a new one), and either promotes one
\* row of that task or inserts rows.
Sound(q) ==
    q # Idle =>
        /\ q.task \in 0 .. ntasks
        /\ q.promoted \subseteq RowIds
        /\ q.promoted # {} => q.new = <<>>
        /\ \A a, b \in q.promoted : a = b

IInv == TypeOK /\ RowsHaveTasks /\ IndexHolds /\ \A r \in Requests : Sound(req[r])

\* What a request that is pending will change: rows of its own task, none if the
\* task is still to be made.  It stands a lead down only for another that it adds
\* or promotes, or because it was told to.
Shaped(q) ==
    q # Idle =>
        /\ q.op \in {"create", "reassign", "copy"} => q.task = 0
        /\ q.op # "delete" => q.removed = {}
        /\ q.op # "update" => q.promoted = {}
        /\ q.op \notin {"add", "update"} => q.demoted = {}
        /\ \A i \in q.demoted \cup q.promoted \cup q.removed :
                i \in RowIds /\ rows[i].task = q.task
        /\ q.promoted \cap q.demoted = {}
        /\ q.op = "add" /\ q.demoted # {} => \E k \in DOMAIN q.new : q.new[k].poic

\* When the index, the partial one, may refuse a request by the rows it read.
Refusable(q) ==
    \/ q.op = "create" /\ \E i, j \in DOMAIN q.new : i # j /\ q.new[i].poic /\ q.new[j].poic
    \/ q.op = "update" /\ \E a \in q.promoted, i \in q.demoted : a < i
    \/ q.op \in {"add", "update"} /\ Leads(q.task) \ ActiveRows(q.task) # {}

\* A request begins, and is such a one.
Begins(r) ==
    \E q \in Write :
        /\ Sound(q)
        /\ Shaped(q)
        /\ PartialIndex /\ Clashes(q) => Refusable(q)
        /\ Begin(r, q)

\* A request that begins keeps the types.
LEMMA BeginKeeps ==
    ASSUME IInv, NEW r \in Requests, NEW q \in Write, Sound(q), Begin(r, q)
    PROVE  IInv'
<1>1. UNCHANGED <<rows, ntasks>> /\ req' = [req EXCEPT ![r] = q]
  BY DEF Begin
<1>2. TypeOK'
  BY <1>1 DEF IInv, TypeOK
<1>3. RowsHaveTasks' /\ IndexHolds'
  BY <1>1 DEF IInv, RowsHaveTasks, IndexHolds, RowIds, Tasks
<1>4. ASSUME NEW u \in Requests
      PROVE  Sound(req[u])'
  <2>1. PICK x \in Write \cup {Idle} : x = req'[u] /\ Sound(x)
    BY <1>1 DEF IInv, TypeOK
  <2>2. Sound(x)'
    BY <1>1, <2>1 DEF Sound, RowIds
  <2> QED
    BY <2>1, <2>2 DEF Sound
<1> QED
  BY <1>2, <1>3, <1>4 DEF IInv

\* A request that writes nothing yet is well formed.
LEMMA NoWriteType ==
    ASSUME NEW op \in {"create", "reassign", "copy", "add", "update", "delete"},
           NEW t \in Nat
    PROVE  NoWrite(op, t) \in Write
BY DEF NoWrite, Write

\* The rows for people of the roster are well formed.
LEMMA RowsForType ==
    ASSUME NEW people \in Seq(People), NEW lead
    PROVE  RowsFor(people, lead) \in Seq(NewRow)
<1>1. people \in [1 .. Len(people) -> People] /\ Len(people) \in Nat
  OBVIOUS
<1>2. \A i \in 1 .. Len(people) : (people[i] = lead) \in BOOLEAN
  OBVIOUS
<1>3. \A i \in 1 .. Len(people) :
        [who |-> people[i], poic |-> people[i] = lead] \in NewRow
  BY <1>1, <1>2 DEF NewRow
<1>4. RowsFor(people, lead) \in [1 .. Len(people) -> NewRow]
  BY <1>1, <1>3 DEF RowsFor
<1> QED
  BY <1>1, <1>4

\* The form sends at most two people of the roster.
LEMMA People2Type == People2 \subseteq Seq(People)
BY DEF People2

\* The copy of an assignment is well formed, given the assignment is.
LEMMA CopyType ==
    ASSUME TypeOK, NEW i \in RowIds
    PROVE  CopyOf(i) \in NewRow
<1>1. rows[i] \in Assignment
  BY DEF TypeOK, RowIds
<1> QED
  BY <1>1 DEF CopyOf, NewRow, Assignment

\* Every request begins well, and clashes for a reason.
LEMMA BeginStep ==
    ASSUME IInv, NEW r \in Requests,
           \/ \E people \in People2, pick \in People \cup {Nobody}, ext \in BOOLEAN :
                BeginCreateTask(r, people, pick, ext)
           \/ \E people \in People2, pick \in People \cup {Nobody} :
                BeginReassign(r, people, pick)
           \/ \E t \in Tasks : BeginCopyTask(r, t)
           \/ \E t \in Tasks, who \in People \cup {External}, poic \in BOOLEAN :
                BeginAddAssignment(r, t, who, poic)
           \/ \E a \in RowIds, poic \in BOOLEAN : BeginUpdateAssignment(r, a, poic)
           \/ \E a \in RowIds : BeginDeleteAssignment(r, a)
    PROVE  Begins(r)
<1> USE DEF IInv
<1>0. ntasks \in Nat /\ RowIds \subseteq Nat /\ Tasks \subseteq Nat
  BY DEF TypeOK, RowIds, Tasks
<1>00. Leads(0) = {}
  <2>1. 0 \notin Tasks
    BY <1>0 DEF Tasks
  <2>2. \A i \in RowIds : rows[i].task # 0
    BY <2>1 DEF RowsHaveTasks
  <2> QED
    BY <2>2 DEF Leads
<1>1. ASSUME NEW people \in People2, NEW pick, NEW ext \in BOOLEAN,
             BeginCreateTask(r, people, pick, ext)
      PROVE  Begins(r)
  <2> DEFINE led == RowsFor(people, DefaultLead(people, pick, ext))
             extra == IF ext THEN <<[who |-> External, poic |-> TRUE]>> ELSE <<>>
             q == [NoWrite("create", 0) EXCEPT !.new = led \o extra]
  <2>1. led \in Seq(NewRow)
    BY People2Type, RowsForType
  <2>2. extra \in Seq(NewRow)
    <3>1. [who |-> External, poic |-> TRUE] \in NewRow
      BY DEF NewRow
    <3> QED
      BY <3>1
  <2> HIDE DEF led, extra
  <2>3. led \o extra \in Seq(NewRow)
    BY <2>1, <2>2
  <2>4. /\ q \in Write /\ q.op = "create" /\ q.task = 0
        /\ q.promoted = {} /\ q.demoted = {} /\ q.removed = {}
    BY <2>3, NoWriteType DEF Write, NewRow, NoWrite
  <2>5. Begin(r, q)
    BY <1>1 DEF BeginCreateTask, led, extra
  <2> HIDE DEF q
  <2>6. Sound(q) /\ Shaped(q)
    BY <1>0, <2>4 DEF Sound, Shaped
  <2>7. PartialIndex /\ Clashes(q) => Refusable(q)
    BY <1>00, <2>4 DEF Clashes, PromotionClashes, InsertionClashes, Refusable
  <2> QED
    BY <2>4, <2>5, <2>6, <2>7 DEF Begins
<1>2. ASSUME NEW people \in People2, NEW pick, BeginReassign(r, people, pick)
      PROVE  Begins(r)
  <2> DEFINE led == RowsFor(people, pick)
             q == [NoWrite("reassign", 0) EXCEPT !.new = led]
  <2>1. led \in Seq(NewRow)
    BY People2Type, RowsForType
  <2>2. \A i, j \in DOMAIN led : led[i].poic /\ led[j].poic => i = j
    BY DEF RowsFor, People2
  <2> HIDE DEF led
  <2>3. /\ q \in Write /\ q.op = "reassign" /\ q.task = 0 /\ q.new = led
        /\ q.promoted = {} /\ q.demoted = {} /\ q.removed = {}
    BY <2>1, NoWriteType DEF Write, NewRow, NoWrite
  <2>4. Begin(r, q)
    BY <1>2 DEF BeginReassign, led
  <2> HIDE DEF q
  <2>5. Sound(q) /\ Shaped(q)
    BY <1>0, <2>3 DEF Sound, Shaped
  <2>6. PartialIndex => ~Clashes(q)
    BY <1>00, <2>2, <2>3 DEF Clashes, PromotionClashes, InsertionClashes
  <2> QED
    BY <2>3, <2>4, <2>5, <2>6 DEF Begins
<1>3. ASSUME NEW t \in Tasks, BeginCopyTask(r, t)
      PROVE  Begins(r)
  <2>1. PICK order \in [1 .. Cardinality(ActiveRows(t)) -> ActiveRows(t)] :
          /\ \A i, j \in DOMAIN order : i < j => order[i] < order[j]
          /\ Begin(r, [NoWrite("copy", 0) EXCEPT
                         !.src = t,
                         !.new = [i \in DOMAIN order |-> CopyOf(order[i])]])
    BY <1>3 DEF BeginCopyTask
  <2> DEFINE copies == [i \in DOMAIN order |-> CopyOf(order[i])]
             q == [NoWrite("copy", 0) EXCEPT !.src = t, !.new = copies]
  <2>2. copies \in Seq(NewRow)
    <3>1. ActiveRows(t) \subseteq RowIds /\ IsFiniteSet(ActiveRows(t))
      <4>1. IsFiniteSet(RowIds)
        BY FS_Interval DEF RowIds, TypeOK
      <4> QED
        BY <4>1, FS_Subset DEF ActiveRows
    <3>2. Cardinality(ActiveRows(t)) \in Nat
      BY <3>1, FS_CardinalityType
    <3>3. \A i \in 1 .. Cardinality(ActiveRows(t)) : CopyOf(order[i]) \in NewRow
      BY <3>1, CopyType
    <3>4. copies \in [1 .. Cardinality(ActiveRows(t)) -> NewRow]
      BY <3>3
    <3> QED
      BY <3>2, <3>4
  <2>3. ASSUME NEW i \in DOMAIN copies, NEW j \in DOMAIN copies,
               PartialIndex, copies[i].poic, copies[j].poic
        PROVE  i = j
    <3>1. order[i] \in ActiveRows(t) /\ order[j] \in ActiveRows(t)
      OBVIOUS
    <3>2. rows[order[i]].poic /\ rows[order[j]].poic
      BY <2>3 DEF CopyOf
    <3>3. order[i] = order[j] /\ order[i] \in Nat
      BY <1>0, <2>3, <3>1, <3>2 DEF IndexHolds, ActiveRows
    <3>4. i \in Int /\ j \in Int
      OBVIOUS
    <3> QED
      BY <2>1, <3>3, <3>4
  <2> HIDE DEF copies
  <2>4. /\ q \in Write /\ q.op = "copy" /\ q.task = 0 /\ q.new = copies
        /\ q.promoted = {} /\ q.demoted = {} /\ q.removed = {}
    BY <1>0, <2>2, NoWriteType DEF Write, NewRow, NoWrite
  <2>5. Begin(r, q)
    BY <2>1 DEF copies
  <2> HIDE DEF q
  <2>6. Sound(q) /\ Shaped(q)
    BY <1>0, <2>4 DEF Sound, Shaped
  <2>7. PartialIndex => ~Clashes(q)
    BY <1>00, <2>3, <2>4 DEF Clashes, PromotionClashes, InsertionClashes
  <2> QED
    BY <2>4, <2>5, <2>6, <2>7 DEF Begins
<1>4. ASSUME NEW t \in Tasks, NEW who \in People \cup {External},
             NEW poic \in BOOLEAN, BeginAddAssignment(r, t, who, poic)
      PROVE  Begins(r)
  <2> DEFINE demoted == IF poic THEN PriorLeads(t) ELSE {}
             new == <<[who |-> who, poic |-> poic]>>
             q == [NoWrite("add", t) EXCEPT !.demoted = demoted, !.new = new]
  <2>1. /\ demoted \subseteq Nat
        /\ \A i \in demoted : i \in RowIds /\ rows[i].task = t
        /\ demoted # {} => poic
        /\ poic => demoted = PriorLeads(t)
    BY <1>0 DEF PriorLeads, Leads
  <2>2. new \in Seq(NewRow) /\ DOMAIN new = {1} /\ new[1].poic = poic
    BY DEF NewRow
  <2> HIDE DEF demoted, new
  <2>3. /\ q \in Write /\ q.op = "add" /\ q.task = t /\ q.new = new
        /\ q.promoted = {} /\ q.demoted = demoted /\ q.removed = {}
    BY <1>0, <2>1, <2>2, NoWriteType DEF Write, NewRow, NoWrite
  <2>4. Begin(r, q)
    BY <1>4 DEF BeginAddAssignment, demoted, new
  <2> HIDE DEF q
  <2>5. Sound(q) /\ Shaped(q)
    <3>1. t \in 0 .. ntasks
      BY <1>0 DEF Tasks
    <3>2. q.demoted # {} => q.new[1].poic /\ 1 \in DOMAIN q.new
      BY <2>1, <2>2, <2>3
    <3> QED
      BY <2>1, <2>3, <3>1, <3>2 DEF Sound, Shaped
  <2>6. PartialIndex /\ Clashes(q) => Refusable(q)
    <3> SUFFICES ASSUME PartialIndex, Clashes(q)
                 PROVE  Leads(t) \ ActiveRows(t) # {}
      BY <2>3 DEF Refusable
    <3>1. InsertionClashes(q)
      BY <2>3 DEF Clashes, PromotionClashes
    <3>2. poic /\ Leads(t) \ demoted # {}
      BY <2>2, <2>3, <3>1 DEF InsertionClashes
    <3> QED
      BY <2>1, <3>2 DEF PriorLeads
  <2> QED
    BY <2>3, <2>4, <2>5, <2>6 DEF Begins
<1>5. ASSUME NEW a \in RowIds, NEW poic \in BOOLEAN, BeginUpdateAssignment(r, a, poic)
      PROVE  Begins(r)
  <2> DEFINE t == rows[a].task
             q0 == NoWrite("update", t)
             q1 == [q0 EXCEPT !.promoted = {a}, !.demoted = PriorLeads(t)]
             q2 == [q0 EXCEPT !.demoted = {a}]
  <2>1. t \in Nat /\ t \in 0 .. ntasks /\ PriorLeads(t) \subseteq Nat
    <3>1. t \in Nat /\ t \in 0 .. ntasks
      BY <1>0 DEF RowsHaveTasks, Tasks
    <3>2. PriorLeads(t) \subseteq RowIds
      BY DEF PriorLeads, Leads
    <3> QED
      BY <1>0, <3>1, <3>2
  <2> HIDE DEF t
  <2>2. /\ q0 \in Write /\ q0.op = "update" /\ q0.task = t /\ q0.new = <<>>
        /\ q0.promoted = {} /\ q0.demoted = {} /\ q0.removed = {}
    BY <2>1, NoWriteType DEF NoWrite
  <2>3. /\ q1 \in Write /\ q1.op = "update" /\ q1.task = t /\ q1.new = <<>>
        /\ q1.promoted = {a} /\ q1.demoted = PriorLeads(t) /\ q1.removed = {}
    BY <1>0, <2>1, <2>2 DEF Write, NoWrite
  <2>4. /\ q2 \in Write /\ q2.op = "update" /\ q2.task = t /\ q2.new = <<>>
        /\ q2.promoted = {} /\ q2.demoted = {a} /\ q2.removed = {}
    BY <1>0, <2>1, <2>2 DEF Write, NoWrite
  <2>5. /\ Begin(r, q0) \/ Begin(r, q1) \/ Begin(r, q2)
        /\ Begin(r, q1) /\ ~Begin(r, q0) /\ ~Begin(r, q2) => ~rows[a].poic
    <3>1. CASE poic /\ ~rows[a].poic
      BY <1>5, <3>1 DEF BeginUpdateAssignment, t
    <3>2. CASE ~poic /\ rows[a].poic
      BY <1>5, <3>2 DEF BeginUpdateAssignment, t
    <3>3. CASE ~(poic /\ ~rows[a].poic) /\ ~(~poic /\ rows[a].poic)
      BY <1>5, <3>3 DEF BeginUpdateAssignment, t
    <3> QED
      BY <3>1, <3>2, <3>3
  <2> HIDE DEF q0, q1, q2
  <2>6. rows[a].task = t
    BY DEF t
  <2>7. \A i \in PriorLeads(t) : i \in RowIds /\ rows[i].task = t /\ rows[i].poic
    BY DEF PriorLeads, Leads
  <2>8. ASSUME Begin(r, q0) \/ Begin(r, q2)
        PROVE  Begins(r)
    <3>1. Sound(q0) /\ Shaped(q0) /\ ~(PartialIndex /\ Clashes(q0))
      BY <2>1, <2>2 DEF Sound, Shaped, Clashes, PromotionClashes, InsertionClashes
    <3>2. Sound(q2) /\ Shaped(q2) /\ ~(PartialIndex /\ Clashes(q2))
      BY <2>1, <2>4, <2>6 DEF Sound, Shaped, Clashes, PromotionClashes, InsertionClashes
    <3> QED
      BY <2>2, <2>4, <2>8, <3>1, <3>2 DEF Begins
  <2>9. ASSUME Begin(r, q1), ~rows[a].poic
        PROVE  Begins(r)
    <3>1. Sound(q1)
      BY <2>1, <2>3 DEF Sound
    <3>2. Shaped(q1)
      BY <2>3, <2>6, <2>7, <2>9 DEF Shaped
    <3>3. PartialIndex /\ Clashes(q1) => Refusable(q1)
      <4> SUFFICES ASSUME PartialIndex, Clashes(q1) PROVE Refusable(q1)
        OBVIOUS
      <4>1. PromotionClashes(q1)
        BY <2>3 DEF Clashes, InsertionClashes
      <4>2. PICK i \in Leads(t) \ {a} : ~(i \in PriorLeads(t) /\ i < a)
        BY <2>3, <2>6, <4>1 DEF PromotionClashes
      <4>3. CASE i \notin PriorLeads(t)
        BY <2>3, <4>2, <4>3 DEF Refusable, PriorLeads
      <4>4. CASE i \in PriorLeads(t)
        <5>1. i \in Nat /\ a \in Nat
          BY <1>0, <2>7, <4>4
        <5>2. a < i
          BY <4>2, <4>4, <5>1
        <5> QED
          BY <2>3, <4>4, <5>2 DEF Refusable
      <4> QED
        BY <4>3, <4>4
    <3> QED
      BY <2>3, <2>9, <3>1, <3>2, <3>3 DEF Begins
  <2> QED
    BY <2>5, <2>8, <2>9
<1>6. ASSUME NEW a \in RowIds, BeginDeleteAssignment(r, a)
      PROVE  Begins(r)
  <2> DEFINE t == rows[a].task
             q == [NoWrite("delete", t) EXCEPT !.removed = {a}]
  <2>1. t \in Nat /\ t \in 0 .. ntasks
    BY <1>0 DEF RowsHaveTasks, Tasks
  <2>2. rows[a].task = t
    OBVIOUS
  <2> HIDE DEF t
  <2>3. /\ q \in Write /\ q.op = "delete" /\ q.task = t /\ q.new = <<>>
        /\ q.promoted = {} /\ q.demoted = {} /\ q.removed = {a}
    BY <1>0, <2>1, NoWriteType DEF Write, NoWrite
  <2>4. Begin(r, q)
    BY <1>6 DEF BeginDeleteAssignment, t
  <2> HIDE DEF q
  <2>5. Sound(q) /\ Shaped(q)
    BY <2>1, <2>2, <2>3 DEF Sound, Shaped
  <2>6. ~(PartialIndex /\ Clashes(q))
    BY <2>3 DEF Clashes, PromotionClashes, InsertionClashes
  <2> QED
    BY <2>3, <2>4, <2>5, <2>6 DEF Begins
<1> QED
  BY <1>1, <1>2, <1>3, <1>4, <1>5, <1>6

\* Rows laid out after others.
LEMMA Appended ==
    ASSUME NEW Kind, NEW f \in Seq(Kind), NEW g \in Seq(Kind)
    PROVE  /\ f \o g \in Seq(Kind)
           /\ Len(f \o g) = Len(f) + Len(g)
           /\ \A i \in 1 .. Len(f) : (f \o g)[i] = f[i]
           /\ \A i \in Len(f) + 1 .. Len(f) + Len(g) : (f \o g)[i] = g[i - Len(f)]
OBVIOUS

\* A function over an initial segment of the naturals is a sequence.
LEMMA IsSequence ==
    ASSUME NEW Kind, NEW m \in Nat, NEW f \in [1 .. m -> Kind]
    PROVE  f \in Seq(Kind) /\ Len(f) = m
OBVIOUS

\* A commit keeps the invariant: this is where the index is needed.
LEMMA CommitStep ==
    ASSUME IInv, NEW r \in Requests, Commit(r)
    PROVE  IInv'
<1> USE DEF IInv
<1> DEFINE q == req[r]
           t == IF q.task = 0 THEN ntasks + 1 ELSE q.task
           kept == [i \in RowIds |-> Updated(i, q)]
           added == [i \in DOMAIN q.new |->
                        [task |-> t, who |-> q.new[i].who, poic |-> q.new[i].poic,
                         active |-> TRUE]]
<1>1. /\ q # Idle /\ q \in Write /\ Sound(q)
      /\ ~Clashes(q)
      /\ rows' = kept \o added
      /\ ntasks' = IF q.task = 0 THEN t ELSE ntasks
      /\ req' = [req EXCEPT ![r] = Idle]
  BY DEF Commit, Finish, TypeOK
<1>2. /\ q.task \in 0 .. ntasks
      /\ q.new \in Seq(NewRow)
      /\ q.promoted \subseteq RowIds
      /\ q.promoted # {} => q.new = <<>>
      /\ \A a, b \in q.promoted : a = b
  BY <1>1 DEF Sound, Write, NewRow
<1>3. /\ ntasks \in Nat /\ ntasks' \in Nat /\ ntasks <= ntasks'
      /\ t \in 1 .. ntasks'
      /\ q.task = 0 => t = ntasks + 1
      /\ q.task # 0 => t = q.task
  BY <1>1, <1>2 DEF TypeOK
<1>4. ASSUME NEW i \in RowIds
      PROVE  /\ kept[i] \in Assignment
             /\ kept[i].task = rows[i].task
             /\ kept[i].poic => (rows[i].poic \/ i \in q.promoted) /\ i \notin q.demoted
  <2>1. rows[i] \in Assignment
    BY DEF TypeOK, RowIds
  <2>2. kept[i] = Updated(i, q)
    OBVIOUS
  <2>3. /\ ((rows[i].poic \/ i \in q.promoted) /\ i \notin q.demoted) \in BOOLEAN
        /\ (rows[i].active /\ i \notin q.removed) \in BOOLEAN
    BY <2>1 DEF Assignment
  <2> HIDE DEF kept
  <2> QED
    BY <2>1, <2>2, <2>3 DEF Updated, Assignment
<1> DEFINE n == Len(q.new)
<1>5. ASSUME NEW i \in 1 .. n
      PROVE  /\ added[i] \in Assignment
             /\ added[i].task = t
             /\ added[i].poic = q.new[i].poic
  <2>1. q.new[i] \in NewRow /\ i \in DOMAIN q.new
    BY <1>2
  <2>2. added[i] = [task |-> t, who |-> q.new[i].who, poic |-> q.new[i].poic,
                    active |-> TRUE]
    BY <2>1
  <2>3. t \in Nat
    BY <1>3
  <2> HIDE DEF added, t
  <2> QED
    BY <2>1, <2>2, <2>3 DEF NewRow, Assignment
<1>6. /\ kept \in [1 .. Len(rows) -> Assignment] /\ Len(rows) \in Nat
      /\ added \in [1 .. n -> Assignment] /\ n \in Nat
  <2>1. Len(rows) \in Nat /\ RowIds = 1 .. Len(rows)
    BY DEF RowIds, TypeOK
  <2>2. n \in Nat /\ DOMAIN q.new = 1 .. n
    BY <1>2
  <2> QED
    BY <1>4, <1>5, <2>1, <2>2
<1> HIDE DEF kept, added, n
<1>7. /\ rows' \in Seq(Assignment)
      /\ Len(rows') = Len(rows) + n
      /\ \A i \in RowIds : rows'[i] = kept[i]
      /\ \A i \in Len(rows) + 1 .. Len(rows) + n : rows'[i] = added[i - Len(rows)]
  <2>1. /\ kept \in Seq(Assignment) /\ Len(kept) = Len(rows)
        /\ added \in Seq(Assignment) /\ Len(added) = n
    BY <1>6, IsSequence, Zenon
  <2>2. /\ kept \o added \in Seq(Assignment)
        /\ Len(kept \o added) = Len(kept) + Len(added)
        /\ \A i \in 1 .. Len(kept) : (kept \o added)[i] = kept[i]
        /\ \A i \in Len(kept) + 1 .. Len(kept) + Len(added) :
                (kept \o added)[i] = added[i - Len(kept)]
    BY <2>1, Appended, Zenon
  <2> QED
    BY <1>1, <2>1, <2>2, Zenon DEF RowIds
<1> HIDE DEF t, q
<1>8. ASSUME NEW i \in RowIds'
      PROVE  \/ i \in RowIds /\ rows'[i] = kept[i]
             \/ \E k \in 1 .. n : i = Len(rows) + k /\ rows'[i] = added[k]
  <2>1. CASE i \in RowIds
    BY <1>7, <2>1
  <2>2. CASE i \notin RowIds
    <3>1. i \in Len(rows) + 1 .. Len(rows) + n
      BY <1>6, <1>7, <2>2 DEF RowIds
    <3>2. i - Len(rows) \in 1 .. n /\ i = Len(rows) + (i - Len(rows))
      BY <1>6, <3>1
    <3> QED
      BY <1>7, <3>1, <3>2
  <2> QED
    BY <2>1, <2>2
<1>9. TypeOK'
  <2>1. req' \in [Requests -> {Idle} \cup Write]
    BY <1>1 DEF TypeOK
  <2> QED
    BY <1>3, <1>7, <2>1 DEF TypeOK
<1>10. RowsHaveTasks'
  <2> SUFFICES ASSUME NEW i \in RowIds'
               PROVE  rows'[i].task \in 1 .. ntasks'
    BY DEF RowsHaveTasks, Tasks
  <2>1. CASE i \in RowIds /\ rows'[i] = kept[i]
    <3>1. rows'[i].task = rows[i].task
      BY <1>4, <2>1
    <3> QED
      BY <1>3, <2>1, <3>1 DEF RowsHaveTasks, Tasks
  <2>2. CASE \E k \in 1 .. n : i = Len(rows) + k /\ rows'[i] = added[k]
    BY <1>3, <1>5, <2>2
  <2> QED
    BY <1>8, <2>1, <2>2
<1>11. ASSUME NEW i \in RowIds, rows[i].task = t
       PROVE  q.task = t
  BY <1>3, <1>11 DEF RowsHaveTasks, Tasks
<1>12. IndexHolds'
  <2> SUFFICES ASSUME NEW i \in RowIds', NEW j \in RowIds',
                      rows'[i].task = rows'[j].task,
                      PartialIndex => rows'[i].poic /\ rows'[j].poic
               PROVE  i = j
    BY DEF IndexHolds
  <2>1. ASSUME NEW a \in RowIds, NEW k \in 1 .. n,
               rows'[a] = kept[a], added[k].task = rows'[a].task,
               PartialIndex => kept[a].poic /\ added[k].poic
        PROVE  FALSE
    <3>1. q.task = t /\ rows[a].task = q.task
      BY <1>4, <1>5, <1>11, <2>1
    <3>2. q.new # <<>> /\ k \in DOMAIN q.new
      BY <1>2 DEF n
    <3>3. CASE PartialIndex
      <4>1. a \in Leads(q.task) \ q.demoted
        BY <1>2, <1>4, <2>1, <3>1, <3>2, <3>3 DEF Leads
      <4>2. q.new[k].poic
        BY <1>5, <2>1, <3>3
      <4> QED
        BY <1>1, <3>2, <3>3, <4>1, <4>2 DEF Clashes, InsertionClashes
    <3>4. CASE ~PartialIndex
      BY <1>1, <3>1, <3>2, <3>4 DEF Clashes
    <3> QED
      BY <3>3, <3>4
  <2>2. CASE i \in RowIds /\ rows'[i] = kept[i] /\ j \in RowIds /\ rows'[j] = kept[j]
    <3>1. rows[i].task = rows[j].task
      BY <1>4, <2>2
    <3>2. CASE PartialIndex
      <4>1. /\ rows[i].poic \/ i \in q.promoted
            /\ rows[j].poic \/ j \in q.promoted
            /\ i \notin q.demoted /\ j \notin q.demoted
        BY <1>4, <2>2, <3>2
      <4>2. ASSUME NEW a \in q.promoted, NEW l \in RowIds, l \notin q.demoted,
                   rows[l].task = rows[a].task, rows[l].poic
            PROVE  l = a
        BY <1>1, <3>2, <4>2 DEF Clashes, PromotionClashes, Leads
      <4> QED
        BY <1>2, <2>2, <3>1, <3>2, <4>1, <4>2 DEF IndexHolds
    <3>3. CASE ~PartialIndex
      BY <2>2, <3>1, <3>3 DEF IndexHolds
    <3> QED
      BY <3>2, <3>3
  <2>3. CASE /\ \E k \in 1 .. n : i = Len(rows) + k /\ rows'[i] = added[k]
             /\ \E k \in 1 .. n : j = Len(rows) + k /\ rows'[j] = added[k]
    <3>1. PICK k \in 1 .. n : i = Len(rows) + k /\ rows'[i] = added[k]
      BY <2>3
    <3>2. PICK l \in 1 .. n : j = Len(rows) + l /\ rows'[j] = added[l]
      BY <2>3
    <3>3. k = l
      <4>1. k \in DOMAIN q.new /\ l \in DOMAIN q.new /\ (k # l => n > 1)
        BY <1>2 DEF n
      <4>2. CASE PartialIndex
        <5>1. q.new[k].poic /\ q.new[l].poic
          BY <1>5, <3>1, <3>2, <4>2
        <5> QED
          BY <1>1, <4>1, <4>2, <5>1 DEF Clashes, InsertionClashes
      <4>3. CASE ~PartialIndex
        <5>1. q.new # <<>>
          BY <4>1
        <5> QED
          BY <1>1, <4>1, <4>3, <5>1 DEF Clashes, n
      <4> QED
        BY <4>2, <4>3
    <3> QED
      BY <3>1, <3>2, <3>3
  <2> QED
    BY <1>8, <2>1, <2>2, <2>3
<1>13. \A u \in Requests : Sound(req[u])'
  <2> SUFFICES ASSUME NEW u \in Requests
               PROVE  Sound(req[u])'
    OBVIOUS
  <2>1. PICK x \in {Idle} \cup Write : x = req'[u] /\ Sound(x)
    <3>1. Sound(Idle)
      BY DEF Sound
    <3> QED
      BY <1>1, <3>1 DEF TypeOK
  <2>2. RowIds \subseteq RowIds' /\ 0 .. ntasks \subseteq 0 .. ntasks'
    BY <1>3, <1>6, <1>7 DEF RowIds
  <2>3. Sound(x)'
    BY <2>1, <2>2 DEF Sound
  <2> QED
    BY <2>1, <2>3 DEF Sound
<1> QED
  BY <1>9, <1>10, <1>12, <1>13

LEMMA RollbackStep ==
    ASSUME IInv, NEW r \in Requests, Rollback(r)
    PROVE  IInv'
<1>1. UNCHANGED <<rows, ntasks>> /\ req' = [req EXCEPT ![r] = Idle]
  BY DEF Rollback, Finish
<1>2. TypeOK' /\ RowsHaveTasks' /\ IndexHolds'
  BY <1>1 DEF IInv, TypeOK, RowsHaveTasks, IndexHolds, RowIds, Tasks
<1>3. ASSUME NEW u \in Requests
      PROVE  Sound(req[u])'
  <2>1. PICK x \in Write \cup {Idle} : x = req'[u] /\ Sound(x)
    <3>1. Sound(Idle)
      BY DEF Sound
    <3> QED
      BY <1>1, <3>1 DEF IInv, TypeOK
  <2>2. Sound(x)'
    BY <1>1, <2>1 DEF Sound, RowIds
  <2> QED
    BY <2>1, <2>2 DEF Sound
<1> QED
  BY <1>2, <1>3 DEF IInv

LEMMA IInvInit == Init => IInv
BY DEF Init, IInv, TypeOK, RowsHaveTasks, IndexHolds, Sound, RowIds, Tasks

LEMMA IInvStep == IInv /\ [Next]_vars => IInv'
<1> SUFFICES ASSUME IInv, [Next]_vars
             PROVE  IInv'
  OBVIOUS
<1>1. CASE UNCHANGED vars
  BY <1>1 DEF vars, IInv, TypeOK, RowsHaveTasks, IndexHolds, Sound, RowIds, Tasks
<1>2. CASE Next
  <2>1. ASSUME NEW r \in Requests, Begins(r) PROVE IInv'
    <3>1. PICK q \in Write : Sound(q) /\ Begin(r, q)
      BY <2>1 DEF Begins
    <3> QED
      BY <3>1, BeginKeeps
  <2>2. \E r \in Requests : Begins(r) \/ Commit(r) \/ Rollback(r)
    BY <1>2, BeginStep DEF Next
  <2> QED
    BY <2>1, <2>2, CommitStep, RollbackStep
<1> QED
  BY <1>1, <1>2

LEMMA Invariance == Spec => []IInv
BY IInvInit, IInvStep, PTL DEF Spec

\* Rows and pending writes keep their shape.
THEOREM TypeCorrect == Spec => []TypeOK
<1>1. IInv => TypeOK
  BY DEF IInv
<1> QED
  BY <1>1, Invariance, PTL

\* However requests interleave, no task has two active leads.
THEOREM AtMostOneLead == Spec => []OneLead
<1>1. IInv => OneLead
  <2> SUFFICES ASSUME IInv, NEW t \in Tasks,
                      NEW i \in PriorLeads(t), NEW j \in PriorLeads(t)
               PROVE  i = j
    BY DEF OneLead
  <2> QED
    BY DEF IInv, IndexHolds, PriorLeads, Leads
<1> QED
  BY <1>1, Invariance, PTL

-----------------------------------------------------------------------------
(* When a request is refused, and when a task is left without a lead.      *)

\* Every step is one of these.
LEMMA Steps ==
    ASSUME IInv, [Next]_vars
    PROVE  \/ UNCHANGED vars
           \/ \E r \in Requests : Begins(r)
           \/ \E r \in Requests : Commit(r)
           \/ \E r \in Requests : Rollback(r)
<1>1. CASE Next
  BY <1>1, BeginStep DEF Next
<1> QED
  BY <1>1

LEMMA RefusedStep ==
    ASSUME PartialIndex, IInv, [Next]_vars, NEW r \in Requests,
           req[r] = Idle, req'[r] # Idle, Clashes(req'[r])
    PROVE  Refusable(req'[r])
<1>1. req \in [Requests -> {Idle} \cup Write]
  BY DEF IInv, TypeOK
<1>2. ~UNCHANGED vars
  BY DEF vars
<1>3. ASSUME NEW u \in Requests, Commit(u) \/ Rollback(u)
      PROVE  FALSE
  <2>1. req' = [req EXCEPT ![u] = Idle]
    BY <1>3 DEF Commit, Rollback, Finish
  <2> QED
    BY <1>1, <2>1
<1>4. PICK u \in Requests : Begins(u)
  BY <1>2, <1>3, Steps
<1>5. PICK q \in Write :
        /\ Clashes(q) => Refusable(q)
        /\ Begin(u, q)
  BY <1>4 DEF Begins
<1>6. req'[r] = q
  BY <1>1, <1>5 DEF Begin
<1> QED
  BY <1>5, <1>6

\* With the partial index, a request that the rows it was decided on would have
\* refused brings two leads, promotes a row above the lead it demotes, or meets
\* a lead that was removed.
THEOREM RefusedForAReason ==
    ASSUME PartialIndex
    PROVE  Spec => RefusedOnlyWhen
<1>1. IInv /\ [Next]_vars =>
        [\A r \in Requests : LET q == req'[r] IN
            req[r] = Idle /\ q # Idle /\ Clashes(q) =>
            \/ q.op = "create" /\ \E i, j \in DOMAIN q.new :
                                        i # j /\ q.new[i].poic /\ q.new[j].poic
            \/ q.op = "update" /\ \E a \in q.promoted, i \in q.demoted : a < i
            \/ q.op \in {"add", "update"} /\ Leads(q.task) \ ActiveRows(q.task) # {}]_vars
  BY RefusedStep DEF Refusable
<1> QED
  BY <1>1, Invariance, PTL DEF Spec, RefusedOnlyWhen

\* The requests served are shaped by what their handlers decide.
LInv == IInv /\ \A r \in Requests : Shaped(req[r])

\* What a commit does to the rows there are, and what it adds.
Rewritten(q) ==
    /\ RowIds \subseteq RowIds'
    /\ \A i \in RowIds :
        /\ rows'[i].task = rows[i].task
        /\ (rows[i].poic \/ i \in q.promoted) /\ i \notin q.demoted => rows'[i].poic
        /\ rows[i].active /\ i \notin q.removed => rows'[i].active

Inserted(q, t) ==
    \A k \in DOMAIN q.new : \E i \in RowIds' :
        rows'[i].task = t /\ rows'[i].active /\ (q.new[k].poic => rows'[i].poic)

LEMMA CommitRows ==
    ASSUME IInv, NEW r \in Requests, Commit(r)
    PROVE  /\ Rewritten(req[r])
           /\ req[r].task # 0 => Inserted(req[r], req[r].task)
<1> USE DEF IInv
<1> DEFINE q == req[r]
           t == IF q.task = 0 THEN ntasks + 1 ELSE q.task
           kept == [i \in RowIds |-> Updated(i, q)]
           added == [i \in DOMAIN q.new |->
                        [task |-> t, who |-> q.new[i].who, poic |-> q.new[i].poic,
                         active |-> TRUE]]
           n == Len(q.new)
<1>1. /\ q \in Write
      /\ rows' = kept \o added
      /\ q.task # 0 => t = q.task
  BY DEF Commit, TypeOK
<1>2. q.new \in Seq(NewRow) /\ n \in Nat /\ DOMAIN q.new = 1 .. n
  BY <1>1 DEF Write, NewRow
<1>3. /\ Len(rows) \in Nat /\ RowIds = 1 .. Len(rows)
      /\ \A i \in RowIds : rows[i] \in Assignment
  BY DEF RowIds, TypeOK
<1>4. /\ kept \in Seq({kept[i] : i \in RowIds}) /\ Len(kept) = Len(rows)
  <2>1. kept \in [1 .. Len(rows) -> {kept[i] : i \in RowIds}]
    BY <1>3
  <2> HIDE DEF kept
  <2> QED
    BY <1>3, <2>1, IsSequence
<1>5. added \in Seq({added[i] : i \in DOMAIN q.new}) /\ Len(added) = n
  <2>1. added \in [1 .. n -> {added[i] : i \in DOMAIN q.new}]
    BY <1>2
  <2> HIDE DEF added, n
  <2> QED
    BY <1>2, <2>1, IsSequence
<1>6. ASSUME NEW i \in RowIds
      PROVE  /\ kept[i].task = rows[i].task
             /\ (rows[i].poic \/ i \in q.promoted) /\ i \notin q.demoted => kept[i].poic
             /\ rows[i].active /\ i \notin q.removed => kept[i].active
  <2>1. kept[i] = Updated(i, q) /\ rows[i] \in Assignment
    BY <1>3
  <2> HIDE DEF kept
  <2> QED
    BY <2>1 DEF Updated, Assignment
<1>7. ASSUME NEW k \in 1 .. n
      PROVE  added[k].task = t /\ added[k].active /\ (q.new[k].poic => added[k].poic)
  <2>1. added[k] = [task |-> t, who |-> q.new[k].who, poic |-> q.new[k].poic,
                    active |-> TRUE]
    BY <1>2
  <2> HIDE DEF added, t
  <2> QED
    BY <2>1
<1> DEFINE Both == {kept[i] : i \in RowIds} \cup {added[i] : i \in DOMAIN q.new}
<1>8. kept \in Seq(Both) /\ added \in Seq(Both)
  <2> DEFINE K == {kept[i] : i \in RowIds}
             A == {added[i] : i \in DOMAIN q.new}
  <2>1. kept \in Seq(K) /\ added \in Seq(A) /\ Both = K \cup A
    BY <1>4, <1>5
  <2> HIDE DEF K, A, kept, added, Both
  <2> QED
    BY <2>1
<1> HIDE DEF kept, added, n, Both
<1>9. /\ Len(rows') = Len(rows) + n
      /\ \A i \in 1 .. Len(rows) : rows'[i] = kept[i]
      /\ \A i \in Len(rows) + 1 .. Len(rows) + n : rows'[i] = added[i - Len(rows)]
  <2>1. /\ Len(kept \o added) = Len(kept) + Len(added)
        /\ \A i \in 1 .. Len(kept) : (kept \o added)[i] = kept[i]
        /\ \A i \in Len(kept) + 1 .. Len(kept) + Len(added) :
                (kept \o added)[i] = added[i - Len(kept)]
    BY <1>8, Appended, Zenon
  <2> QED
    BY <1>1, <1>4, <1>5, <2>1, Zenon
<1>10. RowIds' = 1 .. Len(rows) + n
  BY <1>9 DEF RowIds
<1>11. Rewritten(q)
  <2>1. RowIds \subseteq RowIds'
    BY <1>2, <1>3, <1>10
  <2>2. \A i \in RowIds : rows'[i] = kept[i]
    BY <1>3, <1>9
  <2> QED
    BY <1>6, <2>1, <2>2 DEF Rewritten
<1>12. ASSUME q.task # 0
       PROVE  Inserted(q, q.task)
  <2> SUFFICES ASSUME NEW k \in DOMAIN q.new
               PROVE  \E i \in RowIds' :
                        /\ rows'[i].task = q.task /\ rows'[i].active
                        /\ q.new[k].poic => rows'[i].poic
    BY DEF Inserted
  <2>1. k \in 1 .. n /\ k \in Nat
    BY <1>2
  <2>2. /\ Len(rows) + k \in RowIds'
        /\ Len(rows) + k \in Len(rows) + 1 .. Len(rows) + n
        /\ (Len(rows) + k) - Len(rows) = k
    BY <1>2, <1>3, <1>10, <2>1
  <2>3. rows'[Len(rows) + k] = added[k]
    BY <1>9, <2>2
  <2> QED
    BY <1>1, <1>7, <1>12, <2>1, <2>2, <2>3
<1> QED
  BY <1>11, <1>12

\* A shape stands as long as the rows keep their tasks.
LEMMA ShapedStands ==
    ASSUME NEW q, Shaped(q), RowIds \subseteq RowIds',
           \A i \in RowIds : rows'[i].task = rows[i].task
    PROVE  Shaped(q)'
BY DEF Shaped

LEMMA LInvStep == LInv /\ [Next]_vars => LInv'
<1> SUFFICES ASSUME LInv, [Next]_vars
             PROVE  LInv'
  OBVIOUS
<1>0. /\ IInv /\ IInv'
      /\ \A u \in Requests : Shaped(req[u])
      /\ req \in [Requests -> {Idle} \cup Write]
      /\ Shaped(Idle)
  BY IInvStep DEF LInv, IInv, TypeOK, Shaped
<1>1. /\ RowIds \subseteq RowIds'
      /\ \A i \in RowIds : rows'[i].task = rows[i].task
  <2>1. ASSUME UNCHANGED rows
        PROVE  <1>1
    BY <2>1 DEF RowIds
  <2>2. ASSUME NEW r \in Requests, Commit(r)
        PROVE  <1>1
    BY <1>0, <2>2, CommitRows DEF Rewritten
  <2>3. ASSUME NEW r \in Requests, Begins(r) \/ Rollback(r)
        PROVE  UNCHANGED rows
    BY <2>3 DEF Begins, Begin, Rollback
  <2> QED
    BY <1>0, <2>1, <2>2, <2>3, Steps DEF vars
<1>2. ASSUME NEW u \in Requests
      PROVE  \E x \in Write \cup {Idle} : x = req'[u] /\ Shaped(x)
  <2>1. CASE UNCHANGED vars
    BY <1>0, <2>1 DEF vars
  <2>2. ASSUME NEW r \in Requests, Begins(r)
        PROVE  <1>2!2
    <3>1. PICK q \in Write : Shaped(q) /\ Begin(r, q)
      BY <2>2 DEF Begins
    <3>2. req' = [req EXCEPT ![r] = q]
      BY <3>1 DEF Begin
    <3> QED
      BY <1>0, <3>1, <3>2
  <2>3. ASSUME NEW r \in Requests, Commit(r) \/ Rollback(r)
        PROVE  <1>2!2
    <3>1. req' = [req EXCEPT ![r] = Idle]
      BY <2>3 DEF Commit, Rollback, Finish
    <3> QED
      BY <1>0, <3>1
  <2> QED
    BY <1>0, <2>1, <2>2, <2>3, Steps
<1>3. ASSUME NEW u \in Requests
      PROVE  Shaped(req[u])'
  <2>1. PICK x \in Write \cup {Idle} : x = req'[u] /\ Shaped(x)
    BY <1>2
  <2>2. Shaped(x)'
    BY <1>1, <2>1, ShapedStands
  <2> QED
    BY <2>1, <2>2 DEF Shaped
<1> QED
  BY <1>0, <1>3 DEF LInv

LEMMA LInvariance == Spec => []LInv
<1>1. Init => LInv
  BY IInvInit DEF Init, LInv, Shaped
<1> QED
  BY <1>1, LInvStep, PTL DEF Spec

\* Only a commit takes a task's last lead away, and why.
LEMMA HandedStep ==
    ASSUME LInv, NEW r \in Requests, Commit(r), NEW t \in Tasks,
           PriorLeads(t) # {}, PriorLeads(t)' = {}
    PROVE  /\ req[r].task = t
           /\ \/ req[r].op = "delete" /\ req[r].removed \cap PriorLeads(t) # {}
              \/ req[r].op = "update" /\ req[r].promoted = {}
              \/ req[r].op = "update" /\ \E a \in req[r].promoted : ~rows[a].active
<1> DEFINE q == req[r]
<1>1. /\ q # Idle /\ q \in Write /\ Shaped(q) /\ Rewritten(q)
      /\ q.task # 0 => Inserted(q, q.task)
  BY CommitRows DEF LInv, IInv, TypeOK, Commit
<1> HIDE DEF q
<1>2. PICK i \in RowIds : rows[i].task = t /\ rows[i].poic /\ rows[i].active
  BY DEF PriorLeads, Leads, ActiveRows
<1>3. \A k \in RowIds' : ~(rows'[k].task = t /\ rows'[k].poic /\ rows'[k].active)
  BY DEF PriorLeads, Leads, ActiveRows
<1>4. i \in q.demoted \/ i \in q.removed
  BY <1>1, <1>2, <1>3 DEF Rewritten
<1>5. q.task = t
  BY <1>1, <1>2, <1>4 DEF Shaped
<1>6. t # 0
  BY DEF Tasks, LInv, IInv, TypeOK
<1>7. CASE q.op = "delete"
  <2>1. i \in q.removed
    BY <1>1, <1>4, <1>7 DEF Shaped
  <2>2. i \in PriorLeads(t)
    BY <1>2 DEF PriorLeads, Leads, ActiveRows
  <2> QED
    BY <1>5, <1>7, <2>1, <2>2 DEF q
<1>8. CASE q.op = "add"
  <2>1. PICK k \in DOMAIN q.new : q.new[k].poic
    BY <1>1, <1>4, <1>8 DEF Shaped
  <2> QED
    BY <1>1, <1>3, <1>5, <1>6, <2>1 DEF Inserted
<1>9. CASE q.op = "update"
  <2>1. ASSUME NEW a \in q.promoted, rows[a].active
        PROVE  FALSE
    <3>1. /\ a \in RowIds /\ rows[a].task = t
          /\ a \notin q.demoted /\ a \notin q.removed
      BY <1>1, <1>5, <1>9, <2>1 DEF Shaped
    <3> QED
      BY <1>1, <1>3, <2>1, <3>1 DEF Rewritten
  <2> QED
    BY <1>5, <1>9, <2>1 DEF q
<1>10. q.op \in {"delete", "add", "update"}
  BY <1>1, <1>4 DEF Shaped
<1> QED
  BY <1>7, <1>8, <1>9, <1>10

\* However requests interleave, the lead of a task is not lost in handing it over.
THEOREM LeadNotLost == Spec => LeadHandedOver
<1> DEFINE A ==
        \A t \in Tasks : PriorLeads(t) # {} /\ PriorLeads(t)' = {} =>
            \E r \in Requests : LET q == req[r] IN
                /\ req'[r] # q
                /\ q.task = t
                /\ \/ q.op = "delete" /\ q.removed \cap PriorLeads(t) # {}
                   \/ q.op = "update" /\ q.promoted = {}
                   \/ q.op = "update" /\ \E a \in q.promoted : ~rows[a].active
<1>1. LInv /\ [Next]_vars => [A]_vars
  <2> SUFFICES ASSUME LInv, [Next]_vars, NEW t \in Tasks,
                      PriorLeads(t) # {}, PriorLeads(t)' = {}
               PROVE  \E r \in Requests :
                /\ req'[r] # req[r]
                /\ req[r].task = t
                /\ \/ req[r].op = "delete" /\ req[r].removed \cap PriorLeads(t) # {}
                   \/ req[r].op = "update" /\ req[r].promoted = {}
                   \/ req[r].op = "update" /\ \E a \in req[r].promoted : ~rows[a].active
    OBVIOUS
  <2>1. ~UNCHANGED rows
    BY DEF PriorLeads, Leads, ActiveRows, RowIds
  <2>2. ASSUME NEW r \in Requests, Begins(r) \/ Rollback(r)
        PROVE  UNCHANGED rows
    BY <2>2 DEF Begins, Begin, Rollback
  <2>3. PICK r \in Requests : Commit(r)
    BY <2>1, <2>2, Steps DEF vars, LInv
  <2>4. req'[r] # req[r]
    BY <2>3 DEF Commit, Finish, LInv, IInv, TypeOK
  <2> QED
    BY <2>3, <2>4, HandedStep
<1> QED
  BY <1>1, LInvariance, PTL DEF Spec, LeadHandedOver

=============================================================================
