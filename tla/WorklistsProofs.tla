-------------------------- MODULE WorklistsProofs --------------------------
(***************************************************************************)
(* Theorems about module Worklists, for any weeks, templates and bounds.   *)
(*                                                                         *)
(* For any number of requests served at once, the inductive invariant IInv *)
(* is the conjunction of type correctness, of ReferencesResolve (what a    *)
(* pending request relies on stays true) and of the two statements about   *)
(* history that follow from it, CarriesForward and AmendsLockedSnapshot.   *)
(*                                                                         *)
(* In Tk nothing changes between a handler's reads and its writes, since   *)
(* one command ends before the next begins.  Fresh says so for each        *)
(* handler.  The second inductive invariant, TInv, says that in Tk SInv    *)
(* holds: IInv, one pending request at most, Fresh of it, and the three    *)
(* statements that hold only then, OneBasePerWeek, VersionsDistinct and    *)
(* CompletedIffDone.                                                       *)
(***************************************************************************)
EXTENDS Worklists, TLAPS

USE WeeksAssumption, DaysAssumption, FormDaysAssumption, NamesAssumption,
    FormStatusesAssumption

\* What is due in a week are occurrences.
LEMMA DueType ==
    ASSUME NEW week \in Weeks
    PROVE  Due[week] \in SUBSET Occurrences
BY DueAssumption

-----------------------------------------------------------------------------
(* Rows a transaction writes *)

\* A new task instance is well formed if its parts are.
LEMMA NewTaskType ==
    ASSUME NEW w \in Nat, NEW tpl \in Templates \cup {None},
           NEW day \in Days \cup {None}, NEW from \in Nat
    PROVE  NewTask(w, tpl, day, from) \in TaskInstance
BY DEF NewTask, TaskInstance, Statuses

\* So is a new worklist.
LEMMA NewWorklistType ==
    ASSUME NEW week \in Weeks, NEW version \in Nat, NEW parent \in Nat,
           NEW name \in Names
    PROVE  NewWorklist(week, version, parent, name) \in Worklist
BY DEF NewWorklist, Worklist

\* A table with rows put behind it.
Joined(rows, base, n, f) ==
    /\ Len(rows) = Len(base) + n
    /\ \A i \in 1 .. Len(base) : rows[i] = base[i]
    /\ \A i \in Len(base) + 1 .. Len(base) + n : rows[i] = f[i - Len(base)]

\* Rows appended to a table leave the rows it had where they were.
LEMMA AppendRows ==
    ASSUME NEW Row, NEW base \in Seq(Row), NEW n \in Nat, NEW f \in [1 .. n -> Row]
    PROVE  base \o f \in Seq(Row) /\ Joined(base \o f, base, n, f)
<1>1. f \in Seq(Row) /\ Len(f) = n
  OBVIOUS
<1>2. base \o f \in Seq(Row)
  BY <1>1
<1>3. Joined(base \o f, base, n, f)
  BY <1>1 DEF Joined
<1> QED
  BY <1>2, <1>3

\* A row written in place is the only one that changes.
LEMMA WriteRow ==
    ASSUME NEW Row, NEW s \in Seq(Row), NEW i \in 1 .. Len(s), NEW row \in Row
    PROVE  /\ [s EXCEPT ![i] = row] \in Seq(Row)
           /\ Len([s EXCEPT ![i] = row]) = Len(s)
           /\ [s EXCEPT ![i] = row][i] = row
           /\ \A j \in 1 .. Len(s) : j # i => [s EXCEPT ![i] = row][j] = s[j]
OBVIOUS

-----------------------------------------------------------------------------
(* Type correctness *)

\* A step that only stores what a request has read keeps the types.
LEMMA HoldType ==
    ASSUME TypeOK, NEW r \in Requests, NEW request \in Request,
           Hold(r, request)
    PROVE  TypeOK'
BY DEF TypeOK, Hold

LEMMA BeginType ==
    ASSUME TypeOK, NEW r \in Requests, NEW request \in Request,
           Begin(r, request)
    PROVE  TypeOK'
BY HoldType DEF Begin

\* A step that answers a request keeps the types if the rows it writes do.
LEMMA FinishType ==
    ASSUME TypeOK, NEW r \in Requests, Finish(r),
           worklists' \in Seq(Worklist), tasks' \in Seq(TaskInstance)
    PROVE  TypeOK'
<1>1. Idle \in Request
  BY DEF Request
<1> QED
  BY <1>1 DEF TypeOK, Finish

\* Each shape of request, and what it carries.
LEMMA RequestShapes ==
    ASSUME NEW q \in Request
    PROVE  /\ q.op = "create" => q.week \in Weeks
           /\ q.op = "generate" => q.wl \in Nat /\ q.missing \subseteq Occurrences
           /\ q.op = "lock" => q.wl \in Nat
           /\ q.op = "rename" => q.wl \in Nat /\ q.name \in Names
           /\ q.op = "amend" => q.wl \in Nat /\ q.version \in Nat
           /\ q.op = "copy" => /\ q.wl \in Nat
                               /\ q.version \in Nat
                               /\ q.copies \in Seq(TaskInstance)
           /\ q.op = "createTask" => q.wl \in Nat /\ q.day \in FormDays
           /\ q.op = "updateTask" => /\ q.task \in Nat
                                     /\ q.read \in TaskInstance
                                     /\ q.status \in FormStatuses
                                     /\ q.day \in FormDays
           /\ q.op = "archiveTask" => q.task \in Nat
           /\ q.op = "carryOver" => q.wl \in Nat /\ q.decisions \in Decisions
BY DEF Request, Idle

\* The instances a generation inserts.
LEMMA InsertOccurrencesType ==
    ASSUME TypeOK, NEW w \in Nat, NEW S \in SUBSET Occurrences, InsertOccurrences(w, S)
    PROVE  tasks' \in Seq(TaskInstance)
<1>a. PICK n \in TaskRoom : \E occ \in Listings(S, n) :
        tasks' = tasks \o [i \in 1 .. n |-> NewTask(w, occ[i][1], occ[i][2], 0)]
  BY DEF InsertOccurrences
<1>1. PICK occ \in Listings(S, n) :
        tasks' = tasks \o [i \in 1 .. n |-> NewTask(w, occ[i][1], occ[i][2], 0)]
  BY <1>a
<1>2. n \in Nat
  BY DEF TaskRoom, TypeOK
<1>3. \A i \in 1 .. n : occ[i] \in Templates \X Days
  BY DEF Listings, Occurrences
<1>4. \A i \in 1 .. n : NewTask(w, occ[i][1], occ[i][2], 0) \in TaskInstance
  BY <1>3, NewTaskType
<1>5. [i \in 1 .. n |-> NewTask(w, occ[i][1], occ[i][2], 0)] \in [1 .. n -> TaskInstance]
  BY <1>4
<1> QED
  BY <1>1, <1>2, <1>5, AppendRows DEF TypeOK

\* What the generator finds missing are occurrences.
LEMMA MissingType ==
    ASSUME TypeOK, NEW w \in WorklistIds
    PROVE  Missing(w) \subseteq Occurrences
<1>1. worklists[w].week \in Weeks
  <2>1. worklists[w] \in Worklist
    BY DEF WorklistIds, TypeOK
  <2> QED
    BY <2>1 DEF Worklist
<1> QED
  BY <1>1, DueType DEF Missing

\* What create_worklist generates from.
LEMMA CreatedType ==
    ASSUME TypeOK, NEW r \in Requests, CommitCreateWorklist(r)
    PROVE  /\ Len(worklists) + 1 \in Nat
           /\ Len(worklists) + 1 \notin WorklistIds
           /\ req[r].week \in Weeks
           /\ Due[req[r].week] \in SUBSET Occurrences
<1>1. Len(worklists) + 1 \in Nat /\ Len(worklists) + 1 \notin WorklistIds
  BY DEF TypeOK, WorklistIds
<1>2. req[r].week \in Weeks
  BY RequestShapes DEF CommitCreateWorklist, TypeOK
<1> QED
  BY <1>1, <1>2, DueType

\* The copy that is made of a task.
LEMMA CopyType ==
    ASSUME TypeOK, NEW t \in TaskIds
    PROVE  /\ CopyOf(t) \in TaskInstance
           /\ CopyOf(t).from = t
           /\ CopyOf(t).status = tasks[t].status
           /\ CopyOf(t).done = tasks[t].done
<1>1. tasks[t] \in TaskInstance /\ t \in Nat
  BY DEF TypeOK, TaskIds
<1> QED
  BY <1>1 DEF CopyOf, TaskInstance

\* What amend_worklist reads of the tasks it copies.
LEMMA CopiesRead ==
    ASSUME TypeOK, NEW w, NEW n \in Nat, NEW src \in InIdOrder(ActiveTasks(w), n)
    PROVE  /\ [i \in 1 .. n |-> CopyOf(src[i])] \in Seq(TaskInstance)
           /\ DOMAIN [i \in 1 .. n |-> CopyOf(src[i])] = 1 .. n
           /\ \A i \in 1 .. n : src[i] \in TaskIds /\ tasks[src[i]].wl = w
<1>1. \A i \in 1 .. n : src[i] \in TaskIds /\ tasks[src[i]].wl = w
  BY DEF InIdOrder, Listings, ActiveTasks
<1>2. \A i \in 1 .. n : CopyOf(src[i]) \in TaskInstance
  BY <1>1, CopyType
<1> QED
  BY <1>1, <1>2

\* A copy that is put into another worklist.
LEMMA CloneType ==
    ASSUME NEW c \in TaskInstance, NEW w \in Nat
    PROVE  /\ [c EXCEPT !.wl = w] \in TaskInstance
           /\ [c EXCEPT !.wl = w].wl = w
           /\ [c EXCEPT !.wl = w].from = c.from
           /\ [c EXCEPT !.wl = w].status = c.status
           /\ [c EXCEPT !.wl = w].done = c.done
BY DEF TaskInstance

\* The instances an amendment is given.
LEMMA ClonesType ==
    ASSUME NEW copies \in Seq(TaskInstance), NEW clone \in Nat
    PROVE  /\ Len(copies) \in Nat
           /\ [i \in 1 .. Len(copies) |-> [copies[i] EXCEPT !.wl = clone]]
                 \in [1 .. Len(copies) -> TaskInstance]
           /\ \A i \in 1 .. Len(copies) :
                LET c == [copies[i] EXCEPT !.wl = clone]
                IN  c.wl = clone /\ c.from = copies[i].from
<1>1. Len(copies) \in Nat /\ \A i \in 1 .. Len(copies) : copies[i] \in TaskInstance
  OBVIOUS
<1> QED
  BY <1>1, CloneType

\* The originals a carry-over leaves behind, and the clones it inserts.
LEMMA CarryOverType ==
    ASSUME TypeOK, NEW d \in Decisions, NEW w \in Nat, d.carry \subseteq TaskIds,
           NEW n \in Nat, NEW src \in [1 .. n -> d.carry]
    PROVE  /\ Settled(d) \in Seq(TaskInstance)
           /\ Len(Settled(d)) = Len(tasks)
           /\ [i \in 1 .. n |-> Carried(src[i], w)] \in [1 .. n -> TaskInstance]
<1>1. ASSUME NEW t \in TaskIds
      PROVE  Settled(d)[t] \in TaskInstance
  <2>1. tasks[t] \in TaskInstance
    BY DEF TypeOK, TaskIds
  <2>2. /\ AsCarried(tasks[t]) \in TaskInstance
        /\ AsCompleted(tasks[t]) \in TaskInstance
        /\ AsDiscarded(tasks[t]) \in TaskInstance
    BY <2>1 DEF AsCarried, AsCompleted, AsDiscarded, TaskInstance, Statuses
  <2>3. Settled(d)[t] \in {tasks[t], AsCarried(tasks[t]), AsCompleted(tasks[t]),
                           AsDiscarded(tasks[t])}
    BY DEF Settled
  <2> QED
    BY <2>1, <2>2, <2>3
<1>2. Settled(d) \in [1 .. Len(tasks) -> TaskInstance] /\ Len(tasks) \in Nat
  BY <1>1 DEF Settled, TaskIds, TypeOK
<1>3. ASSUME NEW i \in 1 .. n
      PROVE  Carried(src[i], w) \in TaskInstance
  <2>1. src[i] \in TaskIds /\ src[i] \in Nat
    BY DEF TaskIds, TypeOK
  <2>2. tasks[src[i]] \in TaskInstance
    BY <2>1 DEF TypeOK, TaskIds
  <2>3. tasks[src[i]].tpl \in Templates \cup {None}
    BY <2>2 DEF TaskInstance
  <2> QED
    BY <2>1, <2>3, NewTaskType DEF Carried
<1> QED
  BY <1>2, <1>3

\* A task as an edit leaves it.
LEMMA EditedType ==
    ASSUME NEW q \in Request, q.op = "updateTask", NEW task \in TaskInstance
    PROVE  Edited(task, q) \in TaskInstance
<1>1. /\ q.read \in TaskInstance
      /\ q.status \in Statuses
      /\ q.day \in Days \cup {None}
  BY RequestShapes
<1>2. /\ Written(task.status, q.read.status, q.status) \in Statuses
      /\ Written(task.day, q.read.day, q.day) \in Days \cup {None}
  BY <1>1 DEF Written, TaskInstance
<1>3. (q.status = "done") \in BOOLEAN
  OBVIOUS
<1>4. task.done \in BOOLEAN
  BY DEF TaskInstance
<1>5. Written(task.done, q.read.done, q.status = "done") \in BOOLEAN
  BY <1>3, <1>4, Zenon DEF Written
<1> QED
  BY <1>2, <1>5 DEF Edited, TaskInstance

LEMMA TypeInit == Init => TypeOK
BY DEF Init, TypeOK, Request

\* Every step keeps the types; the foreign keys of pending requests are needed
\* for the rows the commits write.
LEMMA TypeStep == TypeOK /\ ReferencesResolve /\ [Next]_vars => TypeOK'
<1> SUFFICES ASSUME TypeOK, ReferencesResolve, [Next]_vars
             PROVE  TypeOK'
  OBVIOUS
<1>1. CASE UNCHANGED vars
  BY <1>1 DEF vars, TypeOK
<1>2. ASSUME NEW r \in Requests, Abort(r)
      PROVE  TypeOK'
  BY <1>2, FinishType DEF Abort, TypeOK
<1>3. ASSUME NEW r \in Requests, WorklistStep(r)
      PROVE  TypeOK'
  <2>1. ASSUME NEW week \in Weeks, BeginCreateWorklist(r, week)
        PROVE  TypeOK'
    <3>1. [op |-> "create", week |-> week] \in Request
      BY DEF Request
    <3> QED
      BY <2>1, <3>1, BeginType DEF BeginCreateWorklist
  <2>2. ASSUME CommitCreateWorklist(r)
        PROVE  TypeOK'
    <3>1. req[r] \in Request /\ req[r].week \in Weeks
      BY <2>2, RequestShapes DEF CommitCreateWorklist, TypeOK
    <3>2. NewWorklist(req[r].week, 1, 0, DefaultName) \in Worklist
      BY <3>1, NewWorklistType
    <3>3. worklists' \in Seq(Worklist)
      BY <2>2, <3>2 DEF CommitCreateWorklist, TypeOK
    <3>5. tasks' \in Seq(TaskInstance)
      BY <2>2, CreatedType, InsertOccurrencesType DEF CommitCreateWorklist
    <3> QED
      BY <2>2, <3>3, <3>5, FinishType DEF CommitCreateWorklist
  <2>3. ASSUME NEW w \in WorklistIds, BeginGenerate(r, w)
        PROVE  TypeOK'
    <3>1. Missing(w) \subseteq Occurrences
      BY MissingType
    <3>2. [op |-> "generate", wl |-> w, missing |-> Missing(w)] \in Request
      BY <3>1 DEF Request, WorklistIds, TypeOK
    <3> QED
      BY <2>3, <3>2, BeginType DEF BeginGenerate
  <2>4. ASSUME CommitGenerate(r)
        PROVE  TypeOK'
    <3>1. req[r].wl \in Nat /\ req[r].missing \subseteq Occurrences
      BY <2>4, RequestShapes DEF CommitGenerate, TypeOK
    <3>2. tasks' \in Seq(TaskInstance)
      BY <2>4, <3>1, InsertOccurrencesType DEF CommitGenerate
    <3> QED
      BY <2>4, <3>2, FinishType DEF CommitGenerate, TypeOK
  <2>5. ASSUME NEW w \in WorklistIds, BeginLock(r, w)
        PROVE  TypeOK'
    <3>1. [op |-> "lock", wl |-> w] \in Request
      BY DEF Request, WorklistIds, TypeOK
    <3> QED
      BY <2>5, <3>1, BeginType DEF BeginLock
  <2>6. ASSUME CommitLock(r)
        PROVE  TypeOK'
    <3>1. req[r].wl \in WorklistIds
      BY <2>6 DEF CommitLock, ReferencesResolve, ReliedOn
    <3>2. worklists[req[r].wl] \in Worklist
      BY <3>1 DEF WorklistIds, TypeOK
    <3>3. [worklists[req[r].wl] EXCEPT !.locked = TRUE] \in Worklist
      BY <3>2 DEF Worklist
    <3>4. worklists' \in Seq(Worklist)
      BY <2>6, <3>1, <3>3, WriteRow DEF CommitLock, WorklistIds, TypeOK
    <3> QED
      BY <2>6, <3>4, FinishType DEF CommitLock, TypeOK
  <2>7. ASSUME NEW w \in WorklistIds, NEW name \in Names, BeginUpdateWorklist(r, w, name)
        PROVE  TypeOK'
    <3>1. [op |-> "rename", wl |-> w, name |-> name] \in Request
      BY DEF Request, WorklistIds, TypeOK
    <3> QED
      BY <2>7, <3>1, BeginType DEF BeginUpdateWorklist
  <2>8. ASSUME CommitUpdateWorklist(r)
        PROVE  TypeOK'
    <3>1. req[r].name \in Names
      BY <2>8, RequestShapes DEF CommitUpdateWorklist, TypeOK
    <3>2. req[r].wl \in WorklistIds
      BY <2>8 DEF CommitUpdateWorklist, ReferencesResolve, ReliedOn
    <3>3. worklists[req[r].wl] \in Worklist
      BY <3>2 DEF WorklistIds, TypeOK
    <3>4. [worklists[req[r].wl] EXCEPT !.name = req[r].name] \in Worklist
      BY <3>1, <3>3 DEF Worklist
    <3>5. worklists' \in Seq(Worklist)
      BY <2>8, <3>2, <3>4, WriteRow DEF CommitUpdateWorklist, WorklistIds, TypeOK
    <3> QED
      BY <2>8, <3>5, FinishType DEF CommitUpdateWorklist, TypeOK
  <2>9. ASSUME NEW w \in WorklistIds, BeginAmend(r, w)
        PROVE  TypeOK'
    <3>1. PICK v \in FamilyVersions(w) :
            Begin(r, [op |-> "amend", wl |-> w, version |-> v + 1])
      BY <2>9 DEF BeginAmend
    <3>2. v \in Nat
      <4>1. PICK x \in WorklistIds : v = worklists[x].version
        BY DEF FamilyVersions
      <4>2. worklists[x] \in Worklist
        BY DEF TypeOK, WorklistIds
      <4> QED
        BY <4>1, <4>2 DEF Worklist
    <3>3. [op |-> "amend", wl |-> w, version |-> v + 1] \in Request
      BY <3>2 DEF Request, WorklistIds, TypeOK
    <3> QED
      BY <3>1, <3>3, BeginType
  <2>10. ASSUME CommitAmend(r)
         PROVE  TypeOK'
    <3> DEFINE parent == req[r].wl
               clone == Len(worklists) + 1
               clones == [i \in 1 .. Len(req[r].copies) |->
                            [req[r].copies[i] EXCEPT !.wl = clone]]
    <3>1. /\ req[r].version \in Nat /\ parent \in Nat
          /\ req[r].copies \in Seq(TaskInstance)
      BY <2>10, RequestShapes DEF CommitAmend, TypeOK
    <3>2. parent \in WorklistIds
      BY <2>10 DEF CommitAmend, ReferencesResolve, ReliedOn
    <3>3. worklists[parent] \in Worklist /\ clone \in Nat
      BY <3>2 DEF TypeOK, WorklistIds
    <3>4. NewWorklist(worklists[parent].week, req[r].version, parent,
                      worklists[parent].name) \in Worklist
      BY <3>1, <3>3, NewWorklistType DEF Worklist
    <3>5. worklists' \in Seq(Worklist)
      BY <2>10, <3>4 DEF CommitAmend, TypeOK
    <3>6. /\ Len(req[r].copies) \in Nat
          /\ clones \in [1 .. Len(req[r].copies) -> TaskInstance]
      BY <3>1, <3>3, ClonesType
    <3>7. tasks' = tasks \o clones
      BY <2>10 DEF CommitAmend
    <3>8. tasks' \in Seq(TaskInstance)
      <4> HIDE DEF clones
      <4> QED
        BY <3>6, <3>7, AppendRows DEF TypeOK
    <3> QED
      BY <2>10, <3>5, <3>8, FinishType DEF CommitAmend
  <2>12. ASSUME ReadAmended(r)
         PROVE  TypeOK'
    <3> DEFINE q == req[r]
    <3>1. q.wl \in Nat /\ q.version \in Nat
      BY <2>12, RequestShapes DEF ReadAmended, TypeOK
    <3>2. PICK n \in 0 .. Len(tasks) : \E src \in InIdOrder(ActiveTasks(q.wl), n) :
            Hold(r, [op |-> "copy", wl |-> q.wl, version |-> q.version,
                     copies |-> [i \in 1 .. n |-> CopyOf(src[i])]])
      BY <2>12 DEF ReadAmended
    <3>3. PICK src \in InIdOrder(ActiveTasks(q.wl), n) :
            Hold(r, [op |-> "copy", wl |-> q.wl, version |-> q.version,
                     copies |-> [i \in 1 .. n |-> CopyOf(src[i])]])
      BY <3>2
    <3> DEFINE copies == [i \in 1 .. n |-> CopyOf(src[i])]
    <3>4. copies \in Seq(TaskInstance)
      <4>1. n \in Nat
        BY DEF TypeOK
      <4> HIDE DEF q
      <4>2. [i \in 1 .. n |-> CopyOf(src[i])] \in Seq(TaskInstance)
        BY <4>1, CopiesRead
      <4> QED
        BY <4>2
    <3> HIDE DEF copies
    <3>5. [op |-> "copy", wl |-> q.wl, version |-> q.version, copies |-> copies] \in Request
      BY <3>1, <3>4 DEF Request
    <3> QED
      BY <3>3, <3>5, HoldType DEF copies
  <2>11. ASSUME NEW w \in WorklistIds, ArchiveWorklist(r, w)
         PROVE  TypeOK'
    <3>1. worklists[w] \in Worklist
      BY DEF WorklistIds, TypeOK
    <3>2. [worklists[w] EXCEPT !.active = FALSE] \in Worklist
      BY <3>1 DEF Worklist
    <3>3. worklists' \in Seq(Worklist)
      BY <2>11, <3>2, WriteRow DEF ArchiveWorklist, WorklistIds, TypeOK
    <3> QED
      BY <2>11, <3>3 DEF ArchiveWorklist, TypeOK
  <2> QED
    BY <1>3, <2>1, <2>2, <2>3, <2>4, <2>5, <2>6, <2>7, <2>8, <2>9, <2>10, <2>11, <2>12
    DEF WorklistStep
<1>4. ASSUME NEW r \in Requests, TaskStep(r)
      PROVE  TypeOK'
  <2>1. ASSUME NEW w \in WorklistIds, NEW day \in FormDays, BeginCreateTask(r, w, day)
        PROVE  TypeOK'
    <3>1. [op |-> "createTask", wl |-> w, day |-> day] \in Request
      BY DEF Request, WorklistIds, TypeOK
    <3> QED
      BY <2>1, <3>1, BeginType DEF BeginCreateTask
  <2>2. ASSUME CommitCreateTask(r)
        PROVE  TypeOK'
    <3>1. req[r].wl \in Nat /\ req[r].day \in Days \cup {None}
      BY <2>2, RequestShapes DEF CommitCreateTask, TypeOK
    <3>2. NewTask(req[r].wl, None, req[r].day, 0) \in TaskInstance
      BY <3>1, NewTaskType
    <3>3. tasks' \in Seq(TaskInstance)
      BY <2>2, <3>2 DEF CommitCreateTask, TypeOK
    <3> QED
      BY <2>2, <3>3, FinishType DEF CommitCreateTask, TypeOK
  <2>3. ASSUME NEW t \in TaskIds, NEW status \in FormStatuses, NEW day \in FormDays,
               BeginUpdateTask(r, t, status, day)
        PROVE  TypeOK'
    <3>1. tasks[t] \in TaskInstance /\ t \in Nat
      BY DEF TypeOK, TaskIds
    <3>2. [op |-> "updateTask", task |-> t, read |-> tasks[t],
           status |-> status, day |-> day] \in Request
      BY <3>1 DEF Request
    <3> QED
      BY <2>3, <3>2, BeginType DEF BeginUpdateTask
  <2>4. ASSUME CommitUpdateTask(r)
        PROVE  TypeOK'
    <3> DEFINE q == req[r]
    <3>2. q.task \in TaskIds
      BY <2>4 DEF CommitUpdateTask, ReferencesResolve, ReliedOn
    <3>3. tasks[q.task] \in TaskInstance
      BY <3>2 DEF TypeOK, TaskIds
    <3>4. Edited(tasks[q.task], q) \in TaskInstance
      BY <2>4, <3>3, EditedType DEF CommitUpdateTask, TypeOK
    <3>5. tasks' \in Seq(TaskInstance)
      BY <2>4, <3>2, <3>4, WriteRow DEF CommitUpdateTask, TaskIds, TypeOK
    <3> QED
      BY <2>4, <3>5, FinishType DEF CommitUpdateTask, TypeOK
  <2>5. ASSUME NEW t \in TaskIds, BeginArchiveTask(r, t)
        PROVE  TypeOK'
    <3>1. [op |-> "archiveTask", task |-> t] \in Request
      BY DEF Request, TaskIds, TypeOK
    <3> QED
      BY <2>5, <3>1, BeginType DEF BeginArchiveTask
  <2>6. ASSUME CommitArchiveTask(r)
        PROVE  TypeOK'
    <3>1. req[r].task \in TaskIds
      BY <2>6 DEF CommitArchiveTask, ReferencesResolve, ReliedOn
    <3>2. tasks[req[r].task] \in TaskInstance
      BY <3>1 DEF TaskIds, TypeOK
    <3>3. [tasks[req[r].task] EXCEPT !.active = FALSE] \in TaskInstance
      BY <3>2 DEF TaskInstance
    <3>4. tasks' \in Seq(TaskInstance)
      BY <2>6, <3>1, <3>3, WriteRow DEF CommitArchiveTask, TaskIds, TypeOK
    <3> QED
      BY <2>6, <3>4, FinishType DEF CommitArchiveTask, TypeOK
  <2> QED
    BY <1>4, <2>1, <2>2, <2>3, <2>4, <2>5, <2>6 DEF TaskStep
<1>5. ASSUME NEW r \in Requests, CarryStep(r)
      PROVE  TypeOK'
  <2>1. ASSUME NEW w \in WorklistIds, NEW carry \in SUBSET PendingCarryOvers(w),
               NEW complete \in SUBSET PendingCarryOvers(w),
               NEW discard \in SUBSET PendingCarryOvers(w),
               BeginCarryOver(r, w, carry, complete, discard)
        PROVE  TypeOK'
    <3>1. PendingCarryOvers(w) \subseteq Nat /\ w \in Nat
      BY DEF PendingCarryOvers, TaskIds, WorklistIds, TypeOK
    <3>2. [op |-> "carryOver", wl |-> w,
           decisions |-> [carry |-> carry, complete |-> complete,
                          discard |-> discard]] \in Request
      BY <3>1 DEF Request, Decisions
    <3> QED
      BY <2>1, <3>2, BeginType DEF BeginCarryOver
  <2>2. ASSUME CommitCarryOver(r)
        PROVE  TypeOK'
    <3> DEFINE q == req[r]
    <3>1. q.wl \in Nat /\ q.decisions \in Decisions
      BY <2>2, RequestShapes DEF CommitCarryOver, TypeOK
    <3>2. q.decisions.carry \subseteq TaskIds
      BY <2>2, <3>1 DEF CommitCarryOver, ReferencesResolve, ReliedOn, Decisions
    <3>3. PICK n \in TaskRoom : \E src \in Listings(q.decisions.carry, n) :
            tasks' = Settled(q.decisions) \o [i \in 1 .. n |-> Carried(src[i], q.wl)]
      BY <2>2 DEF CommitCarryOver
    <3>4. PICK src \in Listings(q.decisions.carry, n) :
            tasks' = Settled(q.decisions) \o [i \in 1 .. n |-> Carried(src[i], q.wl)]
      BY <3>3
    <3>5. n \in Nat /\ src \in [1 .. n -> q.decisions.carry]
      BY DEF TaskRoom, TypeOK, Listings
    <3> DEFINE clones == [i \in 1 .. n |-> Carried(src[i], q.wl)]
    <3>6. Settled(q.decisions) \in Seq(TaskInstance) /\ clones \in [1 .. n -> TaskInstance]
      BY <3>1, <3>2, <3>5, CarryOverType
    <3>7. tasks' \in Seq(TaskInstance)
      <4>1. tasks' = Settled(q.decisions) \o clones
        BY <3>4
      <4> HIDE DEF clones
      <4> QED
        BY <3>5, <3>6, <4>1, AppendRows
    <3> QED
      BY <2>2, <3>7, FinishType DEF CommitCarryOver, TypeOK
  <2> QED
    BY <1>5, <2>1, <2>2 DEF CarryStep
<1> QED
  BY <1>1, <1>2, <1>3, <1>4, <1>5 DEF Next

-----------------------------------------------------------------------------
(* History *)

IInv == TypeOK /\ ReferencesResolve /\ CarriesForward /\ AmendsLockedSnapshot

NewWorklists == (Len(worklists) + 1) .. Len(worklists')

\* What every step does to the state, as far as IInv needs to know: it keeps
\* the history, the rows it adds point where they should, and a request it
\* begins relies on nothing that is not so.
GoodTasks ==
    \A t \in Added : LET f == tasks'[t].from IN
        /\ tasks'[t].wl \in 1 .. Len(worklists')
        /\ f # 0 => /\ f \in TaskIds
                    /\ \/ Week(f) < worklists'[tasks'[t].wl].week
                       \/ worklists'[tasks'[t].wl].parent = tasks[f].wl

GoodWorklists ==
    \A w \in NewWorklists : LET p == worklists'[w].parent IN
        p # 0 => /\ p \in WorklistIds
                 /\ worklists[p].locked
                 /\ worklists[p].week = worklists'[w].week
                 /\ worklists[p].version < worklists'[w].version

GoodRequests ==
    \A r \in Requests : ReliedOn(req'[r])

Effect == KeepsHistory /\ GoodTasks /\ GoodWorklists /\ GoodRequests

\* What a request relies on is stable under any step that keeps the history.
LEMMA ReliedOnIsStable ==
    ASSUME TypeOK, ReferencesResolve, KeepsHistory,
           NEW q \in Request, ReliedOn(q)
    PROVE  ReliedOn(q)'
<1>1. /\ WorklistIds \subseteq WorklistIds'
      /\ TaskIds \subseteq TaskIds'
  BY DEF KeepsHistory, WorklistIds, TaskIds, TypeOK
<1>2. \A t \in TaskIds : Week(t)' = Week(t)
  BY DEF KeepsHistory, Week, ReferencesResolve
<1> QED
  BY <1>1, <1>2 DEF ReliedOn, KeepsHistory

\* A step with that effect keeps the invariant.
LEMMA EffectKeepsInvariant ==
    ASSUME IInv, TypeOK', Effect
    PROVE  ReferencesResolve' /\ CarriesForward' /\ AmendsLockedSnapshot'
<1> USE DEF IInv, Effect
<1>1. /\ WorklistIds \subseteq WorklistIds'
      /\ TaskIds \subseteq TaskIds'
      /\ \A t \in TaskIds' : t \in TaskIds \/ t \in Added
      /\ \A w \in WorklistIds' : w \in WorklistIds \/ w \in NewWorklists
  BY DEF KeepsHistory, WorklistIds, TaskIds, Added, NewWorklists, TypeOK
<1>2. \A t \in TaskIds : Week(t)' = Week(t)
  BY DEF KeepsHistory, Week, ReferencesResolve
<1>3. ReferencesResolve'
  <2>1. \A t \in TaskIds' : tasks'[t].wl \in WorklistIds'
    BY <1>1 DEF KeepsHistory, ReferencesResolve, GoodTasks, WorklistIds
  <2>2. \A r \in Requests : ReliedOn(req[r])'
    <3> SUFFICES ASSUME NEW r \in Requests
                 PROVE  ReliedOn(req[r])'
      OBVIOUS
    <3>1. PICK q \in Request : q = req'[r]
      BY DEF TypeOK
    <3>2. ReliedOn(q)
      BY <3>1 DEF GoodRequests
    <3>3. ReliedOn(q)'
      BY <3>2, ReliedOnIsStable
    <3> QED
      BY <3>1, <3>3 DEF ReliedOn
  <2> QED
    BY <2>1, <2>2 DEF ReferencesResolve
<1>4. CarriesForward'
  <2> SUFFICES ASSUME NEW t \in TaskIds', tasks'[t].from # 0
               PROVE  LET f == tasks'[t].from IN
                        /\ f < t
                        /\ \/ worklists'[tasks'[f].wl].week
                                  < worklists'[tasks'[t].wl].week
                           \/ worklists'[tasks'[t].wl].parent = tasks'[f].wl
    BY DEF CarriesForward, Week
  <2> DEFINE f == tasks'[t].from
  <2>1. CASE t \in TaskIds
    <3>1. f = tasks[t].from
      BY <2>1 DEF KeepsHistory
    <3>5. f < t
      BY <2>1, <3>1 DEF CarriesForward
    <3>2. tasks[t] \in TaskInstance
      BY <2>1 DEF TypeOK, TaskIds
    <3>3. f \in TaskIds
      <4>1. f \in Nat /\ f # 0
        BY <3>1, <3>2 DEF TaskInstance
      <4>2. t \in 1 .. Len(tasks) /\ Len(tasks) \in Nat
        BY <2>1 DEF TaskIds, TypeOK
      <4> HIDE DEF f
      <4> QED
        BY <3>5, <4>1, <4>2 DEF TaskIds
    <3>4. tasks[t].wl \in WorklistIds /\ tasks[f].wl \in WorklistIds
      BY <2>1, <3>3 DEF ReferencesResolve
    <3>6. \/ Week(f) < Week(t)
          \/ worklists[tasks[t].wl].parent = tasks[f].wl
      BY <2>1, <3>1 DEF CarriesForward
    <3> QED
      BY <2>1, <3>3, <3>4, <3>5, <3>6 DEF KeepsHistory, Week
  <2>2. CASE t \in Added
    <3>1. /\ f \in TaskIds
          /\ \/ Week(f) < worklists'[tasks'[t].wl].week
             \/ worklists'[tasks'[t].wl].parent = tasks[f].wl
      BY <2>2 DEF GoodTasks
    <3>2. f < t
      BY <2>2, <3>1 DEF TaskIds, Added, TypeOK
    <3>3. /\ tasks'[f].wl = tasks[f].wl
          /\ worklists'[tasks[f].wl].week = Week(f)
      BY <3>1 DEF KeepsHistory, ReferencesResolve, Week
    <3> QED
      BY <3>1, <3>2, <3>3 DEF Week
  <2> QED
    BY <1>1, <2>1, <2>2
<1>5. AmendsLockedSnapshot'
  <2> SUFFICES ASSUME NEW w \in WorklistIds', worklists'[w].parent # 0
               PROVE  LET p == worklists'[w].parent IN
                        /\ p < w
                        /\ worklists'[p].locked
                        /\ worklists'[p].week = worklists'[w].week
                        /\ worklists'[p].version < worklists'[w].version
    BY DEF AmendsLockedSnapshot
  <2> DEFINE p == worklists'[w].parent
  <2>1. CASE w \in WorklistIds
    <3>1. p = worklists[w].parent /\ p < w
      BY <2>1 DEF KeepsHistory, AmendsLockedSnapshot
    <3>2. worklists[w] \in Worklist
      BY <2>1 DEF TypeOK, WorklistIds
    <3>3. p \in WorklistIds
      <4>1. p \in Nat /\ p # 0
        BY <3>1, <3>2 DEF Worklist
      <4>2. w \in 1 .. Len(worklists) /\ Len(worklists) \in Nat
        BY <2>1 DEF WorklistIds, TypeOK
      <4> HIDE DEF p
      <4> QED
        BY <3>1, <4>1, <4>2 DEF WorklistIds
    <3> QED
      BY <2>1, <3>1, <3>3 DEF AmendsLockedSnapshot, KeepsHistory
  <2>2. CASE w \in NewWorklists
    <3>1. /\ p \in WorklistIds
          /\ worklists[p].locked
          /\ worklists[p].week = worklists'[w].week
          /\ worklists[p].version < worklists'[w].version
      BY <2>2 DEF GoodWorklists
    <3>2. p < w
      BY <2>2, <3>1 DEF WorklistIds, NewWorklists, TypeOK
    <3> QED
      BY <3>1, <3>2 DEF KeepsHistory
  <2> QED
    BY <1>1, <2>1, <2>2
<1> QED
  BY <1>3, <1>4, <1>5

KeepsWorklists ==
    /\ Len(worklists) <= Len(worklists')
    /\ \A w \in WorklistIds :
        /\ worklists'[w].week = worklists[w].week
        /\ worklists'[w].version = worklists[w].version
        /\ worklists'[w].parent = worklists[w].parent
        /\ worklists[w].locked => worklists'[w].locked

KeepsTasks ==
    /\ Len(tasks) <= Len(tasks')
    /\ \A t \in TaskIds : /\ tasks'[t].wl = tasks[t].wl
                          /\ tasks'[t].from = tasks[t].from

\* Storing a request has a good effect if the request relies on what is so.
LEMMA HoldEffect ==
    ASSUME TypeOK, ReferencesResolve, NEW r \in Requests, NEW request \in Request,
           ReliedOn(request), Hold(r, request)
    PROVE  Effect
<1>1. KeepsHistory /\ Added = {} /\ NewWorklists = {}
  BY DEF Hold, KeepsHistory, Added, NewWorklists, TypeOK
<1>2. GoodRequests
  BY DEF Hold, GoodRequests, ReferencesResolve, TypeOK
<1> QED
  BY <1>1, <1>2 DEF Effect, GoodTasks, GoodWorklists

\* So has beginning one.
LEMMA BeginEffect ==
    ASSUME TypeOK, ReferencesResolve, NEW r \in Requests, NEW request \in Request,
           ReliedOn(request), Begin(r, request)
    PROVE  Effect
BY HoldEffect DEF Begin

\* Answering a request leaves the others as they are.
LEMMA FinishRequests ==
    ASSUME TypeOK, ReferencesResolve, NEW r \in Requests, Finish(r)
    PROVE  GoodRequests
<1>1. ReliedOn(Idle)
  BY DEF ReliedOn, Idle
<1> QED
  BY <1>1 DEF Finish, GoodRequests, ReferencesResolve, TypeOK

LEMMA WorklistsUnchanged ==
    ASSUME TypeOK, UNCHANGED worklists
    PROVE  KeepsWorklists /\ NewWorklists = {} /\ Len(worklists') = Len(worklists)
BY DEF KeepsWorklists, NewWorklists, TypeOK

LEMMA WorklistAppended ==
    ASSUME TypeOK, NEW row \in Worklist, worklists' = Append(worklists, row)
    PROVE  /\ KeepsWorklists
           /\ NewWorklists = {Len(worklists) + 1}
           /\ worklists'[Len(worklists) + 1] = row
           /\ Len(worklists') = Len(worklists) + 1
BY DEF KeepsWorklists, NewWorklists, WorklistIds, TypeOK

LEMMA WorklistWritten ==
    ASSUME TypeOK, NEW w \in WorklistIds, NEW row \in Worklist,
           row.week = worklists[w].week, row.version = worklists[w].version,
           row.parent = worklists[w].parent, worklists[w].locked => row.locked,
           worklists' = [worklists EXCEPT ![w] = row]
    PROVE  KeepsWorklists /\ NewWorklists = {} /\ Len(worklists') = Len(worklists)
<1>1. worklists \in Seq(Worklist) /\ w \in 1 .. Len(worklists)
  BY DEF TypeOK, WorklistIds
<1>2. /\ Len(worklists') = Len(worklists)
      /\ worklists'[w] = row
      /\ \A v \in WorklistIds : v # w => worklists'[v] = worklists[v]
  BY <1>1, WriteRow DEF WorklistIds
<1> QED
  BY <1>1, <1>2 DEF KeepsWorklists, NewWorklists, WorklistIds

LEMMA TasksUnchanged ==
    ASSUME TypeOK, UNCHANGED tasks
    PROVE  KeepsTasks /\ Added = {}
BY DEF KeepsTasks, Added, TypeOK

LEMMA TasksAppended ==
    ASSUME TypeOK, NEW base \in Seq(TaskInstance), Len(base) = Len(tasks),
           \A t \in TaskIds : /\ base[t].wl = tasks[t].wl
                              /\ base[t].from = tasks[t].from,
           NEW n \in Nat, NEW f, f \in [1 .. n -> TaskInstance],
           NEW rows, rows = base \o f, tasks' = rows
    PROVE  /\ KeepsTasks
           /\ \A t \in Added : t - Len(tasks) \in 1 .. n /\ tasks'[t] = f[t - Len(tasks)]
<1>1. /\ Len(rows) = Len(base) + n
      /\ \A i \in 1 .. Len(base) : rows[i] = base[i]
      /\ \A i \in Len(base) + 1 .. Len(base) + n : rows[i] = f[i - Len(base)]
  <2>1. Joined(rows, base, n, f)
    BY AppendRows
  <2> QED
    BY <2>1 DEF Joined
<1>2. Len(tasks) \in Nat /\ Len(tasks') = Len(tasks) + n
  BY <1>1 DEF TypeOK
<1>3. KeepsTasks
  BY <1>1, <1>2 DEF KeepsTasks, TaskIds
<1>4. ASSUME NEW t \in Added
      PROVE  t - Len(tasks) \in 1 .. n /\ tasks'[t] = f[t - Len(tasks)]
  <2>1. t \in Len(tasks) + 1 .. Len(tasks) + n
    BY <1>2 DEF Added
  <2> QED
    BY <1>1, <1>2, <2>1
<1> QED
  BY <1>3, <1>4

LEMMA TaskWritten ==
    ASSUME TypeOK, NEW t \in TaskIds, NEW row \in TaskInstance,
           row.wl = tasks[t].wl, row.from = tasks[t].from,
           tasks' = [tasks EXCEPT ![t] = row]
    PROVE  KeepsTasks /\ Added = {}
<1>1. tasks \in Seq(TaskInstance) /\ t \in 1 .. Len(tasks)
  BY DEF TypeOK, TaskIds
<1>2. /\ Len(tasks') = Len(tasks)
      /\ tasks'[t] = row
      /\ \A u \in TaskIds : u # t => tasks'[u] = tasks[u]
  BY <1>1, WriteRow DEF TaskIds
<1> QED
  BY <1>1, <1>2 DEF KeepsTasks, Added, TaskIds

LEMMA OccurrencesEffect ==
    ASSUME TypeOK, NEW w \in Nat, w \in 1 .. Len(worklists'), NEW S \in SUBSET Occurrences,
           InsertOccurrences(w, S)
    PROVE  KeepsTasks /\ GoodTasks
<1>a. PICK n \in TaskRoom : \E occ \in Listings(S, n) :
        tasks' = tasks \o [i \in 1 .. n |-> NewTask(w, occ[i][1], occ[i][2], 0)]
  BY DEF InsertOccurrences
<1>1. PICK occ \in Listings(S, n) :
        tasks' = tasks \o [i \in 1 .. n |-> NewTask(w, occ[i][1], occ[i][2], 0)]
  BY <1>a
<1> DEFINE f == [i \in 1 .. n |-> NewTask(w, occ[i][1], occ[i][2], 0)]
<1>2. n \in Nat /\ tasks \in Seq(TaskInstance)
  BY DEF TaskRoom, TypeOK
<1>3. \A i \in 1 .. n : occ[i] \in Templates \X Days
  BY DEF Listings, Occurrences
<1>4. f \in [1 .. n -> TaskInstance]
  BY <1>3, NewTaskType
<1>5. /\ KeepsTasks
      /\ \A t \in Added : t - Len(tasks) \in 1 .. n /\ tasks'[t] = f[t - Len(tasks)]
  <2> HIDE DEF f
  <2>1. tasks' = tasks \o f
    BY <1>1 DEF f
  <2> QED
    BY <1>2, <1>4, <2>1, TasksAppended
<1>6. ASSUME NEW t \in Added
      PROVE  tasks'[t].wl = w /\ tasks'[t].from = 0
  <2>1. PICK i \in 1 .. n : tasks'[t] = f[i]
    BY <1>5
  <2>2. tasks'[t] = NewTask(w, occ[i][1], occ[i][2], 0)
    BY <2>1
  <2> QED
    BY <2>2 DEF NewTask
<1> HIDE DEF f
<1> QED
  BY <1>5, <1>6 DEF GoodTasks

\* A step with no new task adds no bad one; the same for worklists.
LEMMA NothingAdded ==
    /\ Added = {} => GoodTasks
    /\ NewWorklists = {} => GoodWorklists
BY DEF GoodTasks, GoodWorklists

LEMMA EffectParts ==
    ASSUME KeepsWorklists, KeepsTasks, GoodTasks, GoodWorklists, GoodRequests
    PROVE  Effect
BY DEF Effect, KeepsHistory, KeepsWorklists, KeepsTasks

\* The handlers of worklists have a good effect.
LEMMA WorklistEffect ==
    ASSUME IInv, NEW r \in Requests, WorklistStep(r)
    PROVE  Effect
<1> USE DEF IInv
<1>1. ASSUME NEW week \in Weeks, BeginCreateWorklist(r, week)
      PROVE  Effect
  <2>1. [op |-> "create", week |-> week] \in Request
    BY DEF Request
  <2>2. ReliedOn([op |-> "create", week |-> week])
    BY DEF ReliedOn
  <2> QED
    BY <1>1, <2>1, <2>2, BeginEffect DEF BeginCreateWorklist
<1>2. ASSUME CommitCreateWorklist(r)
      PROVE  Effect
  <2> DEFINE row == NewWorklist(req[r].week, 1, 0, DefaultName)
  <2>1. req[r] \in Request /\ req[r].week \in Weeks
    BY <1>2, RequestShapes DEF CommitCreateWorklist, TypeOK
  <2>2. row \in Worklist
    BY <2>1, NewWorklistType
  <2>3. row.parent = 0
    BY DEF NewWorklist
  <2>4. worklists' = Append(worklists, row)
    BY <1>2 DEF CommitCreateWorklist
  <2> HIDE DEF row
  <2>5. /\ KeepsWorklists
        /\ NewWorklists = {Len(worklists) + 1}
        /\ worklists'[Len(worklists) + 1] = row
        /\ Len(worklists') = Len(worklists) + 1
    BY <2>2, <2>4, WorklistAppended
  <2>6. GoodWorklists
    BY <2>3, <2>5 DEF GoodWorklists
  <2>7. /\ Len(worklists) + 1 \in Nat
        /\ Len(worklists) + 1 \in 1 .. Len(worklists')
    BY <2>5 DEF TypeOK
  <2>8. KeepsTasks /\ GoodTasks
    BY <1>2, <2>7, CreatedType, OccurrencesEffect DEF CommitCreateWorklist
  <2>9. GoodRequests
    BY <1>2, FinishRequests DEF CommitCreateWorklist
  <2> QED
    BY <2>5, <2>6, <2>8, <2>9, EffectParts
<1>3. ASSUME NEW w \in WorklistIds, BeginGenerate(r, w)
      PROVE  Effect
  <2> DEFINE q == [op |-> "generate", wl |-> w, missing |-> Missing(w)]
  <2>1. q \in Request
    <3>1. Missing(w) \subseteq Occurrences
      BY MissingType
    <3> QED
      BY <3>1 DEF Request, WorklistIds, TypeOK
  <2>2. ReliedOn(q)
    BY DEF ReliedOn
  <2> QED
    BY <1>3, <2>1, <2>2, BeginEffect DEF BeginGenerate
<1>4. ASSUME CommitGenerate(r)
      PROVE  Effect
  <2>1. req[r].wl \in Nat /\ req[r].missing \subseteq Occurrences
    BY <1>4, RequestShapes DEF CommitGenerate, TypeOK
  <2>2. req[r].wl \in 1 .. Len(worklists)
    BY <1>4 DEF CommitGenerate, ReferencesResolve, ReliedOn, WorklistIds
  <2>3. KeepsWorklists /\ NewWorklists = {} /\ Len(worklists') = Len(worklists)
    BY <1>4, WorklistsUnchanged DEF CommitGenerate
  <2>4. KeepsTasks /\ GoodTasks
    BY <1>4, <2>1, <2>2, <2>3, OccurrencesEffect DEF CommitGenerate
  <2>5. GoodRequests
    BY <1>4, FinishRequests DEF CommitGenerate
  <2> QED
    BY <2>3, <2>4, <2>5, NothingAdded, EffectParts
<1>5. ASSUME NEW w \in WorklistIds, BeginLock(r, w)
      PROVE  Effect
  <2> DEFINE q == [op |-> "lock", wl |-> w]
  <2>1. q \in Request
    BY DEF Request, WorklistIds, TypeOK
  <2>2. ReliedOn(q)
    BY DEF ReliedOn
  <2> QED
    BY <1>5, <2>1, <2>2, BeginEffect DEF BeginLock
<1>6. ASSUME CommitLock(r)
      PROVE  Effect
  <2> DEFINE row == [worklists[req[r].wl] EXCEPT !.locked = TRUE]
  <2>1. req[r].wl \in WorklistIds
    BY <1>6 DEF CommitLock, ReferencesResolve, ReliedOn
  <2>2. worklists[req[r].wl] \in Worklist
    BY <2>1 DEF WorklistIds, TypeOK
  <2>3. row \in Worklist
    BY <2>2 DEF Worklist
  <2>4. /\ row.week = worklists[req[r].wl].week
        /\ row.version = worklists[req[r].wl].version
        /\ row.parent = worklists[req[r].wl].parent
        /\ row.locked
    BY <2>2 DEF Worklist
  <2>5. worklists' = [worklists EXCEPT ![req[r].wl] = row]
    BY <1>6 DEF CommitLock
  <2> HIDE DEF row
  <2>6. KeepsWorklists /\ NewWorklists = {}
    BY <2>1, <2>3, <2>4, <2>5, WorklistWritten
  <2>7. KeepsTasks /\ Added = {}
    BY <1>6, TasksUnchanged DEF CommitLock
  <2>8. GoodRequests
    BY <1>6, FinishRequests DEF CommitLock
  <2> QED
    BY <2>6, <2>7, <2>8, NothingAdded, EffectParts
<1>7. ASSUME NEW w \in WorklistIds, NEW name \in Names, BeginUpdateWorklist(r, w, name)
      PROVE  Effect
  <2> DEFINE q == [op |-> "rename", wl |-> w, name |-> name]
  <2>1. q \in Request
    BY DEF Request, WorklistIds, TypeOK
  <2>2. ReliedOn(q)
    BY DEF ReliedOn
  <2> QED
    BY <1>7, <2>1, <2>2, BeginEffect DEF BeginUpdateWorklist
<1>8. ASSUME CommitUpdateWorklist(r)
      PROVE  Effect
  <2> DEFINE row == [worklists[req[r].wl] EXCEPT !.name = req[r].name]
  <2>0. req[r].name \in Names
    BY <1>8, RequestShapes DEF CommitUpdateWorklist, TypeOK
  <2>1. req[r].wl \in WorklistIds
    BY <1>8 DEF CommitUpdateWorklist, ReferencesResolve, ReliedOn
  <2>2. worklists[req[r].wl] \in Worklist
    BY <2>1 DEF WorklistIds, TypeOK
  <2>3. row \in Worklist
    BY <2>0, <2>2 DEF Worklist
  <2>4. /\ row.week = worklists[req[r].wl].week
        /\ row.version = worklists[req[r].wl].version
        /\ row.parent = worklists[req[r].wl].parent
        /\ worklists[req[r].wl].locked => row.locked
    BY <2>2 DEF Worklist
  <2>5. worklists' = [worklists EXCEPT ![req[r].wl] = row]
    BY <1>8 DEF CommitUpdateWorklist
  <2> HIDE DEF row
  <2>6. KeepsWorklists /\ NewWorklists = {}
    BY <2>1, <2>3, <2>4, <2>5, WorklistWritten
  <2>7. KeepsTasks /\ Added = {}
    BY <1>8, TasksUnchanged DEF CommitUpdateWorklist
  <2>8. GoodRequests
    BY <1>8, FinishRequests DEF CommitUpdateWorklist
  <2> QED
    BY <2>6, <2>7, <2>8, NothingAdded, EffectParts
<1>9. ASSUME NEW w \in WorklistIds, BeginAmend(r, w)
      PROVE  Effect
  <2>1. PICK v \in FamilyVersions(w) :
          /\ \A u \in FamilyVersions(w) : u <= v
          /\ Begin(r, [op |-> "amend", wl |-> w, version |-> v + 1])
    BY <1>9 DEF BeginAmend
  <2> DEFINE q == [op |-> "amend", wl |-> w, version |-> v + 1]
  <2>2. v \in Nat
    <3>1. PICK x \in WorklistIds : v = worklists[x].version
      BY DEF FamilyVersions
    <3>2. worklists[x] \in Worklist
      BY DEF TypeOK, WorklistIds
    <3> QED
      BY <3>1, <3>2 DEF Worklist
  <2>3. worklists[w] \in Worklist
    BY DEF TypeOK, WorklistIds
  <2>4. worklists[w].version <= v /\ worklists[w].version \in Nat
    BY <2>1, <2>3 DEF FamilyVersions, Worklist
  <2>5. q \in Request
    BY <2>2 DEF Request, WorklistIds, TypeOK
  <2>6. ReliedOn(q)
    BY <1>9, <2>2, <2>4 DEF ReliedOn, BeginAmend
  <2> QED
    BY <2>1, <2>5, <2>6, BeginEffect
<1>10. ASSUME CommitAmend(r)
       PROVE  Effect
  <2> DEFINE parent == req[r].wl
             clone == Len(worklists) + 1
             row == NewWorklist(worklists[parent].week, req[r].version, parent,
                                worklists[parent].name)
             copies == req[r].copies
             n == Len(copies)
             clones == [i \in 1 .. n |-> [copies[i] EXCEPT !.wl = clone]]
  <2>1. req[r].version \in Nat /\ parent \in Nat /\ copies \in Seq(TaskInstance)
    BY <1>10, RequestShapes DEF CommitAmend, TypeOK
  <2>2. /\ parent \in WorklistIds
        /\ worklists[parent].locked
        /\ worklists[parent].version < req[r].version
        /\ \A i \in 1 .. n : copies[i].from \in TaskIds /\ tasks[copies[i].from].wl = parent
    <3>1. ReliedOn(req[r]) /\ req[r].op = "copy" /\ DOMAIN copies = 1 .. n
      BY <1>10, <2>1 DEF CommitAmend, ReferencesResolve
    <3> QED
      BY <3>1 DEF ReliedOn
  <2>3. worklists[parent] \in Worklist /\ clone \in Nat
    BY <2>2 DEF TypeOK, WorklistIds
  <2>4. row \in Worklist
    BY <2>1, <2>3, NewWorklistType DEF Worklist
  <2>5. row.week = worklists[parent].week /\ row.version = req[r].version /\ row.parent = parent
    BY DEF NewWorklist
  <2>6. worklists' = Append(worklists, row)
    BY <1>10 DEF CommitAmend
  <2>7. tasks' = tasks \o clones
    BY <1>10 DEF CommitAmend
  <2>8. /\ n \in Nat
        /\ clones \in [1 .. n -> TaskInstance]
        /\ \A i \in 1 .. n : clones[i].wl = clone /\ clones[i].from = copies[i].from
    BY <2>1, <2>3, ClonesType
  <2> HIDE DEF row, clones, n, copies
  <2>10. /\ KeepsWorklists
         /\ NewWorklists = {clone}
         /\ worklists'[clone] = row
         /\ Len(worklists') = clone
    BY <2>4, <2>6, WorklistAppended
  <2>11. GoodWorklists
    BY <2>2, <2>5, <2>10 DEF GoodWorklists
  <2>13. /\ KeepsTasks
         /\ \A t \in Added : t - Len(tasks) \in 1 .. n /\ tasks'[t] = clones[t - Len(tasks)]
    <3>2. tasks \in Seq(TaskInstance)
      BY DEF TypeOK
    <3> QED
      BY <2>7, <2>8, <3>2, TasksAppended
  <2>14. ASSUME NEW t \in Added
         PROVE  /\ tasks'[t].wl = clone
                /\ tasks'[t].from \in TaskIds
                /\ tasks[tasks'[t].from].wl = parent
    <3>1. PICK i \in 1 .. n : tasks'[t] = clones[i]
      BY <2>13
    <3> QED
      BY <2>2, <2>8, <3>1
  <2>15. GoodTasks
    <3>1. clone \in 1 .. Len(worklists')
      BY <2>3, <2>10
    <3> HIDE DEF clone
    <3> QED
      BY <2>5, <2>10, <2>14, <3>1 DEF GoodTasks
  <2>16. GoodRequests
    BY <1>10, FinishRequests DEF CommitAmend
  <2> QED
    BY <2>10, <2>11, <2>13, <2>15, <2>16, EffectParts
<1>12. ASSUME ReadAmended(r)
       PROVE  Effect
  <2> DEFINE q == req[r]
  <2>1. q.wl \in Nat /\ q.version \in Nat
    BY <1>12, RequestShapes DEF ReadAmended, TypeOK
  <2>2. PICK n \in 0 .. Len(tasks) : \E src \in InIdOrder(ActiveTasks(q.wl), n) :
          Hold(r, [op |-> "copy", wl |-> q.wl, version |-> q.version,
                   copies |-> [i \in 1 .. n |-> CopyOf(src[i])]])
    BY <1>12 DEF ReadAmended
  <2>3. PICK src \in InIdOrder(ActiveTasks(q.wl), n) :
          Hold(r, [op |-> "copy", wl |-> q.wl, version |-> q.version,
                   copies |-> [i \in 1 .. n |-> CopyOf(src[i])]])
    BY <2>2
  <2> DEFINE copies == [i \in 1 .. n |-> CopyOf(src[i])]
             copying == [op |-> "copy", wl |-> q.wl, version |-> q.version,
                         copies |-> copies]
  <2>4. /\ copies \in Seq(TaskInstance)
        /\ DOMAIN copies = 1 .. n
        /\ \A i \in 1 .. n : src[i] \in TaskIds /\ tasks[src[i]].wl = q.wl
    BY CopiesRead
  <2>5. \A i \in 1 .. n : copies[i].from = src[i]
    BY <2>4, CopyType
  <2> HIDE DEF copies
  <2>6. copying \in Request
    BY <2>1, <2>4 DEF Request
  <2>7. /\ q.wl \in WorklistIds
        /\ worklists[q.wl].locked
        /\ worklists[q.wl].version < q.version
    BY <1>12 DEF ReadAmended, ReferencesResolve, ReliedOn
  <2>8. ReliedOn(copying)
    BY <2>4, <2>5, <2>7 DEF ReliedOn
  <2>9. Hold(r, copying)
    BY <2>3 DEF copies
  <2> QED
    BY <2>6, <2>8, <2>9, HoldEffect
<1>11. ASSUME NEW w \in WorklistIds, ArchiveWorklist(r, w)
       PROVE  Effect
  <2> DEFINE row == [worklists[w] EXCEPT !.active = FALSE]
  <2>1. worklists[w] \in Worklist
    BY DEF WorklistIds, TypeOK
  <2>2. row \in Worklist
    BY <2>1 DEF Worklist
  <2>3. /\ row.week = worklists[w].week
        /\ row.version = worklists[w].version
        /\ row.parent = worklists[w].parent
        /\ worklists[w].locked => row.locked
    BY <2>1 DEF Worklist
  <2>4. worklists' = [worklists EXCEPT ![w] = row]
    BY <1>11 DEF ArchiveWorklist
  <2> HIDE DEF row
  <2>5. KeepsWorklists /\ NewWorklists = {}
    BY <2>2, <2>3, <2>4, WorklistWritten
  <2>6. KeepsTasks /\ Added = {}
    BY <1>11, TasksUnchanged DEF ArchiveWorklist
  <2>7. GoodRequests
    BY <1>11 DEF ArchiveWorklist, GoodRequests, ReferencesResolve
  <2> QED
    BY <2>5, <2>6, <2>7, NothingAdded, EffectParts
<1> QED
  BY <1>1, <1>2, <1>3, <1>4, <1>5, <1>6, <1>7, <1>8, <1>9, <1>10, <1>11, <1>12
  DEF WorklistStep

\* So have the handlers of tasks.
LEMMA TaskEffect ==
    ASSUME IInv, NEW r \in Requests, TaskStep(r)
    PROVE  Effect
<1> USE DEF IInv
<1>1. ASSUME NEW w \in WorklistIds, NEW day \in FormDays, BeginCreateTask(r, w, day)
      PROVE  Effect
  <2> DEFINE q == [op |-> "createTask", wl |-> w, day |-> day]
  <2>1. q \in Request
    BY DEF Request, WorklistIds, TypeOK
  <2>2. ReliedOn(q)
    BY DEF ReliedOn
  <2> QED
    BY <1>1, <2>1, <2>2, BeginEffect DEF BeginCreateTask
<1>2. ASSUME CommitCreateTask(r)
      PROVE  Effect
  <2> DEFINE row == NewTask(req[r].wl, None, req[r].day, 0)
  <2>1. req[r].wl \in Nat /\ req[r].day \in Days \cup {None}
    BY <1>2, RequestShapes DEF CommitCreateTask, TypeOK
  <2>2. req[r].wl \in 1 .. Len(worklists)
    BY <1>2 DEF CommitCreateTask, ReferencesResolve, ReliedOn, WorklistIds
  <2>3. row \in TaskInstance /\ row.wl = req[r].wl /\ row.from = 0
    BY <2>1, NewTaskType DEF NewTask
  <2>4. tasks' = Append(tasks, row)
    BY <1>2 DEF CommitCreateTask
  <2> HIDE DEF row
  <2>5. KeepsTasks /\ Added = {Len(tasks) + 1} /\ tasks'[Len(tasks) + 1] = row
    BY <2>3, <2>4 DEF KeepsTasks, Added, TaskIds, TypeOK
  <2>6. \A t \in Added : tasks'[t].wl = req[r].wl /\ tasks'[t].from = 0
    BY <2>3, <2>5
  <2>7. KeepsWorklists /\ NewWorklists = {} /\ Len(worklists') = Len(worklists)
    BY <1>2, WorklistsUnchanged DEF CommitCreateTask
  <2>8. GoodTasks
    BY <2>2, <2>6, <2>7 DEF GoodTasks
  <2>9. GoodRequests
    BY <1>2, FinishRequests DEF CommitCreateTask
  <2> QED
    BY <2>5, <2>7, <2>8, <2>9, NothingAdded, EffectParts
<1>3. ASSUME NEW t \in TaskIds, NEW status \in FormStatuses, NEW day \in FormDays,
             BeginUpdateTask(r, t, status, day)
      PROVE  Effect
  <2> DEFINE q == [op |-> "updateTask", task |-> t, read |-> tasks[t],
                   status |-> status, day |-> day]
  <2>1. tasks[t] \in TaskInstance /\ t \in Nat
    BY DEF TypeOK, TaskIds
  <2>2. q \in Request
    BY <2>1 DEF Request
  <2>3. ReliedOn(q)
    BY DEF ReliedOn
  <2> QED
    BY <1>3, <2>2, <2>3, BeginEffect DEF BeginUpdateTask
<1>4. ASSUME CommitUpdateTask(r)
      PROVE  Effect
  <2> DEFINE q == req[r]
             row == Edited(tasks[q.task], q)
  <2>1. q \in Request
    BY DEF TypeOK
  <2>2. q.task \in TaskIds
    BY <1>4 DEF CommitUpdateTask, ReferencesResolve, ReliedOn
  <2>3. tasks[q.task] \in TaskInstance
    BY <2>2 DEF TypeOK, TaskIds
  <2>4. row \in TaskInstance
    BY <1>4, <2>1, <2>3, EditedType DEF CommitUpdateTask
  <2>5. row.wl = tasks[q.task].wl /\ row.from = tasks[q.task].from
    BY <2>3 DEF Edited, TaskInstance
  <2>6. tasks' = [tasks EXCEPT ![q.task] = row]
    BY <1>4 DEF CommitUpdateTask
  <2> HIDE DEF row
  <2>7. KeepsTasks /\ Added = {}
    BY <2>2, <2>4, <2>5, <2>6, TaskWritten
  <2>8. KeepsWorklists /\ NewWorklists = {}
    BY <1>4, WorklistsUnchanged DEF CommitUpdateTask
  <2>9. GoodRequests
    BY <1>4, FinishRequests DEF CommitUpdateTask
  <2> QED
    BY <2>7, <2>8, <2>9, NothingAdded, EffectParts
<1>5. ASSUME NEW t \in TaskIds, BeginArchiveTask(r, t)
      PROVE  Effect
  <2> DEFINE q == [op |-> "archiveTask", task |-> t]
  <2>1. q \in Request
    BY DEF Request, TaskIds, TypeOK
  <2>2. ReliedOn(q)
    BY DEF ReliedOn
  <2> QED
    BY <1>5, <2>1, <2>2, BeginEffect DEF BeginArchiveTask
<1>6. ASSUME CommitArchiveTask(r)
      PROVE  Effect
  <2> DEFINE row == [tasks[req[r].task] EXCEPT !.active = FALSE]
  <2>1. req[r].task \in TaskIds
    BY <1>6 DEF CommitArchiveTask, ReferencesResolve, ReliedOn
  <2>2. tasks[req[r].task] \in TaskInstance
    BY <2>1 DEF TaskIds, TypeOK
  <2>3. row \in TaskInstance
    BY <2>2 DEF TaskInstance
  <2>4. row.wl = tasks[req[r].task].wl /\ row.from = tasks[req[r].task].from
    BY <2>2 DEF TaskInstance
  <2>5. tasks' = [tasks EXCEPT ![req[r].task] = row]
    BY <1>6 DEF CommitArchiveTask
  <2> HIDE DEF row
  <2>6. KeepsTasks /\ Added = {}
    BY <2>1, <2>3, <2>4, <2>5, TaskWritten
  <2>7. KeepsWorklists /\ NewWorklists = {}
    BY <1>6, WorklistsUnchanged DEF CommitArchiveTask
  <2>8. GoodRequests
    BY <1>6, FinishRequests DEF CommitArchiveTask
  <2> QED
    BY <2>6, <2>7, <2>8, NothingAdded, EffectParts
<1> QED
  BY <1>1, <1>2, <1>3, <1>4, <1>5, <1>6 DEF TaskStep

\* And so has carrying over: the tasks carried are of earlier weeks.
LEMMA CarryEffect ==
    ASSUME IInv, NEW r \in Requests, CarryStep(r)
    PROVE  Effect
<1> USE DEF IInv
<1>1. ASSUME NEW w \in WorklistIds, NEW carry \in SUBSET PendingCarryOvers(w),
             NEW complete \in SUBSET PendingCarryOvers(w),
             NEW discard \in SUBSET PendingCarryOvers(w),
             BeginCarryOver(r, w, carry, complete, discard)
      PROVE  Effect
  <2> DEFINE d == [carry |-> carry, complete |-> complete, discard |-> discard]
             q == [op |-> "carryOver", wl |-> w, decisions |-> d]
  <2>1. PendingCarryOvers(w) \subseteq Nat /\ w \in Nat
    BY DEF PendingCarryOvers, TaskIds, WorklistIds, TypeOK
  <2>2. q \in Request
    BY <2>1 DEF Request, Decisions
  <2>3. ReliedOn(q)
    BY DEF ReliedOn, PendingCarryOvers
  <2> QED
    BY <1>1, <2>2, <2>3, BeginEffect DEF BeginCarryOver
<1>2. ASSUME CommitCarryOver(r)
      PROVE  Effect
  <2> DEFINE q == req[r]
  <2>1. q.wl \in Nat /\ q.decisions \in Decisions
    BY <1>2, RequestShapes DEF CommitCarryOver, TypeOK
  <2>2. /\ q.wl \in WorklistIds
        /\ \A t \in q.decisions.carry : t \in TaskIds /\ Week(t) < worklists[q.wl].week
    BY <1>2, <2>1 DEF CommitCarryOver, ReferencesResolve, ReliedOn, Decisions
  <2>3. PICK n \in TaskRoom : \E src \in Listings(q.decisions.carry, n) :
          tasks' = Settled(q.decisions) \o [i \in 1 .. n |-> Carried(src[i], q.wl)]
    BY <1>2 DEF CommitCarryOver
  <2>4. PICK src \in Listings(q.decisions.carry, n) :
          tasks' = Settled(q.decisions) \o [i \in 1 .. n |-> Carried(src[i], q.wl)]
    BY <2>3
  <2>5. n \in Nat /\ src \in [1 .. n -> q.decisions.carry]
    BY DEF TaskRoom, TypeOK, Listings
  <2> DEFINE clones == [i \in 1 .. n |-> Carried(src[i], q.wl)]
  <2>6. /\ Settled(q.decisions) \in Seq(TaskInstance)
        /\ Len(Settled(q.decisions)) = Len(tasks)
        /\ clones \in [1 .. n -> TaskInstance]
    BY <2>1, <2>2, <2>5, CarryOverType
  <2>7. ASSUME NEW t \in TaskIds
        PROVE  /\ Settled(q.decisions)[t].wl = tasks[t].wl
               /\ Settled(q.decisions)[t].from = tasks[t].from
    <3>1. tasks[t] \in TaskInstance
      BY DEF TypeOK, TaskIds
    <3>2. Settled(q.decisions)[t] \in {tasks[t], AsCarried(tasks[t]),
                                       AsCompleted(tasks[t]), AsDiscarded(tasks[t])}
      BY DEF Settled
    <3> QED
      BY <3>1, <3>2 DEF AsCarried, AsCompleted, AsDiscarded, TaskInstance
  <2>8. /\ KeepsTasks
        /\ \A t \in Added : t - Len(tasks) \in 1 .. n /\ tasks'[t] = clones[t - Len(tasks)]
    <3>1. tasks' = Settled(q.decisions) \o clones
      BY <2>4
    <3> HIDE DEF clones
    <3> QED
      BY <2>5, <2>6, <2>7, <3>1, TasksAppended
  <2>9. ASSUME NEW t \in Added
        PROVE  /\ tasks'[t].wl = q.wl
               /\ tasks'[t].from \in q.decisions.carry
    <3>1. PICK i \in 1 .. n : tasks'[t] = clones[i]
      BY <2>8
    <3>2. tasks'[t] = Carried(src[i], q.wl) /\ src[i] \in q.decisions.carry
      BY <2>5, <3>1
    <3> QED
      BY <3>2 DEF Carried, NewTask
  <2>10. KeepsWorklists /\ NewWorklists = {} /\ worklists' = worklists
    BY <1>2, WorklistsUnchanged DEF CommitCarryOver
  <2>11. GoodTasks
    <3> HIDE DEF clones
    <3> QED
      BY <2>2, <2>9, <2>10 DEF GoodTasks, WorklistIds
  <2>12. GoodRequests
    BY <1>2, FinishRequests DEF CommitCarryOver
  <2> QED
    BY <2>8, <2>10, <2>11, <2>12, NothingAdded, EffectParts
<1> QED
  BY <1>1, <1>2 DEF CarryStep

\* Every step has a good effect.
LEMMA EffectStep == IInv /\ [Next]_vars => Effect
<1> SUFFICES ASSUME IInv, [Next]_vars
             PROVE  Effect
  OBVIOUS
<1>1. CASE UNCHANGED vars
  <2>1. KeepsWorklists /\ NewWorklists = {} /\ KeepsTasks /\ Added = {}
    BY <1>1, WorklistsUnchanged, TasksUnchanged DEF vars, IInv
  <2>2. GoodRequests
    BY <1>1 DEF vars, IInv, GoodRequests, ReferencesResolve
  <2> QED
    BY <2>1, <2>2, NothingAdded, EffectParts
<1>2. ASSUME NEW r \in Requests, Abort(r)
      PROVE  Effect
  <2>1. KeepsWorklists /\ NewWorklists = {} /\ KeepsTasks /\ Added = {}
    BY <1>2, WorklistsUnchanged, TasksUnchanged DEF Abort, IInv
  <2>2. GoodRequests
    BY <1>2, FinishRequests DEF Abort, IInv
  <2> QED
    BY <2>1, <2>2, NothingAdded, EffectParts
<1> QED
  BY <1>1, <1>2, WorklistEffect, TaskEffect, CarryEffect DEF Next

-----------------------------------------------------------------------------
(* Theorems *)

LEMMA IInvInit == Init => IInv
<1> SUFFICES ASSUME Init PROVE IInv
  OBVIOUS
<1>1. WorklistIds = {} /\ TaskIds = {}
  BY DEF Init, WorklistIds, TaskIds
<1>2. \A r \in Requests : ReliedOn(req[r])
  BY DEF Init, ReliedOn, Idle
<1> QED
  BY <1>1, <1>2, TypeInit
  DEF IInv, ReferencesResolve, CarriesForward, AmendsLockedSnapshot

LEMMA IInvStep == IInv /\ [Next]_vars => IInv'
<1> SUFFICES ASSUME IInv, [Next]_vars
             PROVE  IInv'
  OBVIOUS
<1>1. TypeOK'
  BY TypeStep DEF IInv
<1>2. Effect
  BY EffectStep
<1> QED
  BY <1>1, <1>2, EffectKeepsInvariant DEF IInv

LEMMA Invariance == Spec => []IInv
BY IInvInit, IInvStep, PTL DEF Spec

\* Tables and pending requests keep their shape, whoever interleaves.
THEOREM TypeCorrect == Spec => []TypeOK
<1>1. IInv => TypeOK
  BY DEF IInv
<1> QED
  BY <1>1, Invariance, PTL

\* What a handler read before its transaction and relies on in it (the rows are
\* there, the amended worklist is locked and below the version to be given, the
\* tasks to be carried are of earlier weeks) still holds when it commits.
THEOREM StableReads == Spec => []ReferencesResolve
<1>1. IInv => ReferencesResolve
  BY DEF IInv
<1> QED
  BY <1>1, Invariance, PTL

\* Chains of carried and amended tasks never loop or run backwards in time.
THEOREM ForwardChains == Spec => []CarriesForward
<1>1. IInv => CarriesForward
  BY DEF IInv
<1> QED
  BY <1>1, Invariance, PTL

\* The original of an amendment is locked, of its week and of a lower version.
THEOREM FrozenOriginals == Spec => []AmendsLockedSnapshot
<1>1. IInv => AmendsLockedSnapshot
  BY DEF IInv
<1> QED
  BY <1>1, Invariance, PTL

\* No step of any handler deletes a row, moves it in the history, or lifts a
\* lock.
THEOREM HistoryKept == Spec => HistoryIsKept
<1>1. IInv /\ [Next]_vars => [KeepsHistory]_vars
  BY EffectStep DEF Effect
<1> QED
  BY <1>1, Invariance, PTL DEF Spec, HistoryIsKept

-----------------------------------------------------------------------------
(* What a commit writes *)

\* Of the tasks after a step, the first ones are base, and f is what is added.
Behind(base, n, f) ==
    /\ TaskIds \cap Added = {}
    /\ TaskIds' = TaskIds \cup Added
    /\ \A t \in TaskIds : tasks'[t] = base[t]
    /\ \A t \in Added : t - Len(tasks) \in 1 .. n /\ tasks'[t] = f[t - Len(tasks)]
    /\ \A i \in 1 .. n : Len(tasks) + i \in Added /\ tasks'[Len(tasks) + i] = f[i]
    /\ \A t, u \in Added : t - Len(tasks) = u - Len(tasks) => t = u

LEMMA RowsBehind ==
    ASSUME TypeOK, NEW base \in Seq(TaskInstance), Len(base) = Len(tasks),
           NEW n \in Nat, NEW f, f \in [1 .. n -> TaskInstance],
           NEW rows, rows = base \o f, tasks' = rows
    PROVE  Behind(base, n, f)
<1>1. /\ Len(rows) = Len(base) + n
      /\ \A i \in 1 .. Len(base) : rows[i] = base[i]
      /\ \A i \in Len(base) + 1 .. Len(base) + n : rows[i] = f[i - Len(base)]
  <2>1. Joined(rows, base, n, f)
    BY AppendRows
  <2> QED
    BY <2>1 DEF Joined
<1>2. Len(tasks) \in Nat /\ Len(tasks') = Len(tasks) + n
  BY <1>1 DEF TypeOK
<1>3. \A t \in Added : t - Len(tasks) \in 1 .. n /\ tasks'[t] = f[t - Len(tasks)]
  <2>1. Added = Len(tasks) + 1 .. Len(tasks) + n
    BY <1>2 DEF Added
  <2> QED
    BY <1>1, <1>2, <2>1
<1>4. ASSUME NEW i \in 1 .. n
      PROVE  Len(tasks) + i \in Added /\ tasks'[Len(tasks) + i] = f[i]
  <2>1. Len(tasks) + i \in Added /\ (Len(tasks) + i) - Len(tasks) = i
    BY <1>2 DEF Added
  <2> QED
    BY <1>3, <2>1
<1>5. TaskIds \cap Added = {} /\ TaskIds' = TaskIds \cup Added
  BY <1>2 DEF Added, TaskIds
<1>6. \A t \in TaskIds : tasks'[t] = base[t]
  BY <1>1, <1>2 DEF TaskIds
<1>7. \A t, u \in Added : t - Len(tasks) = u - Len(tasks) => t = u
  BY <1>2 DEF Added
<1> QED
  BY <1>3, <1>4, <1>5, <1>6, <1>7 DEF Behind

KeepsRows == \A t \in TaskIds : tasks'[t] = tasks[t]

\* A generation adds one open instance of each occurrence.
LEMMA OccurrenceRows ==
    ASSUME TypeOK, NEW w \in Nat, NEW S \in SUBSET Occurrences, InsertOccurrences(w, S)
    PROVE  /\ TaskIds' = TaskIds \cup Added
           /\ KeepsRows
           /\ \A t \in Added : \E d \in S : tasks'[t] = NewTask(w, d[1], d[2], 0)
           /\ \A t, u \in Added : /\ tasks'[t].tpl = tasks'[u].tpl
                                  /\ tasks'[t].day = tasks'[u].day
                                  => t = u
<1>a. PICK n \in TaskRoom : \E occ \in Listings(S, n) :
        tasks' = tasks \o [i \in 1 .. n |-> NewTask(w, occ[i][1], occ[i][2], 0)]
  BY DEF InsertOccurrences
<1>1. PICK occ \in Listings(S, n) :
        tasks' = tasks \o [i \in 1 .. n |-> NewTask(w, occ[i][1], occ[i][2], 0)]
  BY <1>a
<1> DEFINE f == [i \in 1 .. n |-> NewTask(w, occ[i][1], occ[i][2], 0)]
<1>2. n \in Nat /\ tasks \in Seq(TaskInstance)
  BY DEF TaskRoom, TypeOK
<1>3. \A i \in 1 .. n : occ[i] \in S /\ occ[i] \in Templates \X Days
  <2>1. occ \in [1 .. n -> S]
    BY DEF Listings
  <2>2. S \subseteq Templates \X Days
    BY DEF Occurrences
  <2> QED
    BY <2>1, <2>2
<1>4. f \in [1 .. n -> TaskInstance]
  BY <1>3, NewTaskType
<1>5. /\ TaskIds' = TaskIds \cup Added
      /\ \A t \in TaskIds : tasks'[t] = tasks[t]
      /\ \A t \in Added : t - Len(tasks) \in 1 .. n /\ tasks'[t] = f[t - Len(tasks)]
      /\ \A t, u \in Added : t - Len(tasks) = u - Len(tasks) => t = u
  <2> HIDE DEF f
  <2>1. tasks' = tasks \o f
    BY <1>1 DEF f
  <2>2. Behind(tasks, n, f)
    BY <1>2, <1>4, <2>1, RowsBehind
  <2> QED
    BY <2>2 DEF Behind
<1>6. ASSUME NEW t \in Added
      PROVE  /\ occ[t - Len(tasks)] \in S
             /\ tasks'[t] = NewTask(w, occ[t - Len(tasks)][1], occ[t - Len(tasks)][2], 0)
  BY <1>3, <1>5
<1>7. ASSUME NEW t \in Added, NEW u \in Added,
             tasks'[t].tpl = tasks'[u].tpl, tasks'[t].day = tasks'[u].day
      PROVE  t = u
  <2>1. PICK i \in 1 .. n : i = t - Len(tasks) /\ tasks'[t] = NewTask(w, occ[i][1], occ[i][2], 0)
    BY <1>5, <1>6
  <2>2. PICK j \in 1 .. n : j = u - Len(tasks) /\ tasks'[u] = NewTask(w, occ[j][1], occ[j][2], 0)
    BY <1>5, <1>6
  <2>3. occ[i][1] = occ[j][1] /\ occ[i][2] = occ[j][2]
    BY <1>7, <2>1, <2>2 DEF NewTask
  <2>4. occ[i] = occ[j]
    <3>1. occ[i] \in Templates \X Days /\ occ[j] \in Templates \X Days
      BY <1>3
    <3>2. ASSUME NEW a \in Templates \X Days, NEW b \in Templates \X Days,
                 a[1] = b[1], a[2] = b[2]
          PROVE  a = b
      BY <3>2
    <3> QED
      BY <2>3, <3>1, <3>2
  <2>5. i = j
    BY <2>4 DEF Listings
  <2> QED
    BY <1>5, <2>1, <2>2, <2>5
<1> HIDE DEF f
<1> QED
  BY <1>5, <1>6, <1>7 DEF KeepsRows

\* An amendment adds the copies that were read, which are of its original's tasks.
LEMMA AmendRows ==
    ASSUME IInv, NEW r \in Requests, CommitAmend(r)
    PROVE  LET parent == req[r].wl
               clone == Len(worklists) + 1
               copies == req[r].copies
           IN  /\ parent \in WorklistIds
               /\ worklists' = Append(worklists,
                     NewWorklist(worklists[parent].week, req[r].version, parent,
                                 worklists[parent].name))
               /\ TaskIds' = TaskIds \cup Added
               /\ KeepsRows
               /\ \A t \in Added : /\ tasks'[t].wl = clone
                                   /\ tasks'[t].from \in TaskIds
                                   /\ tasks[tasks'[t].from].wl = parent
               /\ \A t \in Added : \E i \in DOMAIN copies :
                     /\ tasks'[t].from = copies[i].from
                     /\ tasks'[t].status = copies[i].status
                     /\ tasks'[t].done = copies[i].done
<1> USE DEF IInv
<1> DEFINE parent == req[r].wl
           clone == Len(worklists) + 1
           copies == req[r].copies
           f == [i \in 1 .. Len(copies) |-> [copies[i] EXCEPT !.wl = clone]]
<1>1. /\ parent \in WorklistIds
      /\ clone \in Nat
      /\ \A i \in DOMAIN copies : /\ copies[i].from \in TaskIds
                                  /\ tasks[copies[i].from].wl = parent
  BY DEF CommitAmend, ReferencesResolve, ReliedOn, TypeOK
<1>2. copies \in Seq(TaskInstance)
  BY RequestShapes DEF CommitAmend, TypeOK
<1>3. DOMAIN copies = 1 .. Len(copies)
  BY <1>2
<1>4. /\ tasks' = tasks \o f
      /\ worklists' = Append(worklists,
            NewWorklist(worklists[parent].week, req[r].version, parent,
                        worklists[parent].name))
  BY DEF CommitAmend
<1> HIDE DEF clone, copies, parent
<1>5. /\ Len(copies) \in Nat
      /\ f \in [1 .. Len(copies) -> TaskInstance]
      /\ \A i \in 1 .. Len(copies) : /\ f[i].wl = clone
                                     /\ f[i].from = copies[i].from
                                     /\ f[i].status = copies[i].status
                                     /\ f[i].done = copies[i].done
  <2>1. Len(copies) \in Nat /\ \A i \in 1 .. Len(copies) : copies[i] \in TaskInstance
    BY <1>2
  <2>2. \A i \in 1 .. Len(copies) :
          LET c == [copies[i] EXCEPT !.wl = clone]
          IN  /\ c \in TaskInstance
              /\ c.wl = clone
              /\ c.from = copies[i].from
              /\ c.status = copies[i].status
              /\ c.done = copies[i].done
    BY <1>1, <2>1, CloneType
  <2> QED
    BY <2>1, <2>2
<1> HIDE DEF f
<1>6. Behind(tasks, Len(copies), f)
  <2>1. tasks \in Seq(TaskInstance)
    BY DEF TypeOK
  <2> QED
    BY <1>4, <1>5, <2>1, RowsBehind
<1>7. /\ TaskIds' = TaskIds \cup Added
      /\ KeepsRows
      /\ \A t \in Added : \E i \in DOMAIN copies : tasks'[t] = f[i]
  BY <1>3, <1>6 DEF Behind, KeepsRows
<1>8. ASSUME NEW t \in Added
      PROVE  \E i \in DOMAIN copies : /\ tasks'[t].wl = clone
                                      /\ copies[i].from \in TaskIds
                                      /\ tasks[copies[i].from].wl = parent
                                      /\ tasks'[t].from = copies[i].from
                                      /\ tasks'[t].status = copies[i].status
                                      /\ tasks'[t].done = copies[i].done
  <2>1. PICK i \in DOMAIN copies : tasks'[t] = f[i]
    BY <1>7
  <2> QED
    BY <1>1, <1>3, <1>5, <2>1
<1>9. ASSUME NEW t \in Added
      PROVE  /\ tasks'[t].wl = clone
             /\ tasks'[t].from \in TaskIds
             /\ tasks[tasks'[t].from].wl = parent
  BY <1>8
<1> QED
  BY <1>1, <1>4, <1>7, <1>8, <1>9 DEF parent, clone, copies

\* A carry-over settles the originals and adds a task for each that is carried.
LEMMA CarryRows ==
    ASSUME IInv, NEW r \in Requests, CommitCarryOver(r)
    PROVE  LET d == req[r].decisions
           IN  /\ TaskIds' = TaskIds \cup Added
               /\ \A t \in TaskIds : tasks'[t] = Settled(d)[t]
               /\ \A t \in Added : \E f \in d.carry : tasks'[t] = Carried(f, req[r].wl)
               /\ \A f \in d.carry : \E t \in Added : tasks'[t] = Carried(f, req[r].wl)
               /\ \A t, u \in Added : tasks'[t].from = tasks'[u].from => t = u
<1> USE DEF IInv
<1> DEFINE q == req[r]
<1>1. q.wl \in Nat /\ q.decisions \in Decisions
  BY RequestShapes DEF CommitCarryOver, TypeOK
<1>2. q.decisions.carry \subseteq TaskIds
  BY <1>1 DEF CommitCarryOver, ReferencesResolve, ReliedOn, Decisions
<1>3. PICK n \in TaskRoom : \E src \in Listings(q.decisions.carry, n) :
        tasks' = Settled(q.decisions) \o [i \in 1 .. n |-> Carried(src[i], q.wl)]
  BY DEF CommitCarryOver
<1>4. PICK src \in Listings(q.decisions.carry, n) :
        tasks' = Settled(q.decisions) \o [i \in 1 .. n |-> Carried(src[i], q.wl)]
  BY <1>3
<1>5. /\ n \in Nat
      /\ src \in [1 .. n -> q.decisions.carry]
      /\ \A i, j \in 1 .. n : src[i] = src[j] => i = j
      /\ \A x \in q.decisions.carry : \E i \in 1 .. n : src[i] = x
  BY DEF TaskRoom, TypeOK, Listings
<1> DEFINE f == [i \in 1 .. n |-> Carried(src[i], q.wl)]
<1>6. /\ Settled(q.decisions) \in Seq(TaskInstance)
      /\ Len(Settled(q.decisions)) = Len(tasks)
      /\ f \in [1 .. n -> TaskInstance]
  BY <1>1, <1>2, <1>5, CarryOverType
<1>7. /\ TaskIds' = TaskIds \cup Added
      /\ \A t \in TaskIds : tasks'[t] = Settled(q.decisions)[t]
      /\ \A t \in Added : t - Len(tasks) \in 1 .. n /\ tasks'[t] = f[t - Len(tasks)]
      /\ \A i \in 1 .. n : Len(tasks) + i \in Added /\ tasks'[Len(tasks) + i] = f[i]
      /\ \A t, u \in Added : t - Len(tasks) = u - Len(tasks) => t = u
  <2>1. tasks' = Settled(q.decisions) \o f
    BY <1>4
  <2> HIDE DEF f
  <2>2. Behind(Settled(q.decisions), n, f)
    BY <1>5, <1>6, <2>1, RowsBehind
  <2> QED
    BY <2>2 DEF Behind
<1>8. ASSUME NEW t \in Added
      PROVE  \E i \in 1 .. n : /\ i = t - Len(tasks)
                               /\ src[i] \in q.decisions.carry
                               /\ tasks'[t] = Carried(src[i], q.wl)
                               /\ tasks'[t].from = src[i]
  <2>1. PICK i \in 1 .. n : i = t - Len(tasks) /\ tasks'[t] = f[i]
    BY <1>7
  <2>2. src[i] \in q.decisions.carry /\ tasks'[t] = Carried(src[i], q.wl)
    BY <1>5, <2>1
  <2>3. Carried(src[i], q.wl).from = src[i]
    BY DEF Carried, NewTask
  <2> QED
    BY <2>1, <2>2, <2>3
<1>9. ASSUME NEW x \in q.decisions.carry
      PROVE  \E t \in Added : tasks'[t] = Carried(x, q.wl)
  <2>1. PICK i \in 1 .. n : src[i] = x
    BY <1>5
  <2>2. f[i] = Carried(x, q.wl)
    BY <2>1
  <2> HIDE DEF f
  <2> QED
    BY <1>7, <2>2
<1>10. ASSUME NEW t \in Added, NEW u \in Added, tasks'[t].from = tasks'[u].from
       PROVE  t = u
  <2>1. PICK i \in 1 .. n : i = t - Len(tasks) /\ tasks'[t].from = src[i]
    BY <1>8
  <2>2. PICK j \in 1 .. n : j = u - Len(tasks) /\ tasks'[u].from = src[j]
    BY <1>8
  <2>3. i = j
    BY <1>5, <1>10, <2>1, <2>2
  <2> QED
    BY <1>7, <2>1, <2>2, <2>3
<1> HIDE DEF f
<1> QED
  BY <1>7, <1>8, <1>9, <1>10

LEMMA NoTaskAdded ==
    ASSUME TypeOK, UNCHANGED tasks
    PROVE  Added = {} /\ TaskIds' = TaskIds /\ KeepsRows
BY DEF Added, TaskIds, KeepsRows, TypeOK

LEMMA TaskRowWritten ==
    ASSUME TypeOK, NEW t \in TaskIds, NEW row \in TaskInstance,
           tasks' = [tasks EXCEPT ![t] = row]
    PROVE  /\ Added = {}
           /\ TaskIds' = TaskIds
           /\ tasks'[t] = row
           /\ \A u \in TaskIds : u # t => tasks'[u] = tasks[u]
<1>1. tasks \in Seq(TaskInstance) /\ t \in 1 .. Len(tasks)
  BY DEF TypeOK, TaskIds
<1>2. /\ Len(tasks') = Len(tasks)
      /\ tasks'[t] = row
      /\ \A u \in TaskIds : u # t => tasks'[u] = tasks[u]
  BY <1>1, WriteRow DEF TaskIds
<1> QED
  BY <1>1, <1>2 DEF Added, TaskIds

LEMMA TaskRowAppended ==
    ASSUME TypeOK, NEW row \in TaskInstance, tasks' = Append(tasks, row)
    PROVE  /\ TaskIds' = TaskIds \cup Added
           /\ Added = {Len(tasks) + 1}
           /\ tasks'[Len(tasks) + 1] = row
           /\ KeepsRows
BY DEF Added, TaskIds, KeepsRows, TypeOK

LEMMA WorklistRowWritten ==
    ASSUME TypeOK, NEW w \in WorklistIds, NEW row \in Worklist,
           worklists' = [worklists EXCEPT ![w] = row]
    PROVE  /\ WorklistIds' = WorklistIds
           /\ worklists'[w] = row
           /\ \A v \in WorklistIds : v # w => worklists'[v] = worklists[v]
<1>1. worklists \in Seq(Worklist) /\ w \in 1 .. Len(worklists)
  BY DEF TypeOK, WorklistIds
<1>2. /\ Len(worklists') = Len(worklists)
      /\ worklists'[w] = row
      /\ \A v \in WorklistIds : v # w => worklists'[v] = worklists[v]
  BY <1>1, WriteRow DEF WorklistIds
<1> QED
  BY <1>1, <1>2 DEF WorklistIds

LEMMA WorklistRowAppended ==
    ASSUME TypeOK, NEW row \in Worklist, worklists' = Append(worklists, row)
    PROVE  /\ Len(worklists) + 1 \in Nat
           /\ Len(worklists) + 1 \notin WorklistIds
           /\ WorklistIds' = WorklistIds \cup {Len(worklists) + 1}
           /\ worklists'[Len(worklists) + 1] = row
           /\ \A v \in WorklistIds : worklists'[v] = worklists[v]
BY DEF WorklistIds, TypeOK

-----------------------------------------------------------------------------
(* In Tk *)

Alone == \A r1, r2 \in Requests : req[r1] # Idle /\ req[r2] # Idle => r1 = r2

\* What the handler of a request saw when it decided is still so when it commits.
Fresh(q) ==
    /\ q.op = "create" => ActiveBases(q.week) = {}
    /\ q.op \in {"generate", "lock", "rename", "createTask", "carryOver"} => Unlocked(q.wl)
    /\ q.op = "generate" => q.missing = Missing(q.wl)
    /\ q.op \in {"amend", "copy"} => \A v \in FamilyVersions(q.wl) : v < q.version
    /\ q.op = "copy" => \A i \in DOMAIN q.copies : q.copies[i] = CopyOf(q.copies[i].from)
    /\ q.op \in {"updateTask", "archiveTask"} => Unlocked(tasks[q.task].wl)
    /\ q.op = "updateTask" => q.read = tasks[q.task]
    /\ q.op = "carryOver" =>
          LET d == q.decisions
          IN  /\ d.carry \cup d.complete \cup d.discard \subseteq PendingCarryOvers(q.wl)
              /\ d.carry \cap d.complete = {}
              /\ (d.carry \cup d.complete) \cap d.discard = {}

AllFresh == \A r \in Requests : Fresh(req[r])

SInv ==
    /\ IInv
    /\ program = "tk"
    /\ Alone
    /\ AllFresh
    /\ OneBasePerWeek
    /\ VersionsDistinct
    /\ CompletedIffDone

TInv == program = "tk" => SInv

LEMMA InitSerial == Init => TInv
<1> SUFFICES ASSUME Init, program = "tk" PROVE SInv
  BY DEF TInv
<1>1. WorklistIds = {} /\ TaskIds = {}
  BY DEF Init, WorklistIds, TaskIds
<1>2. AllFresh /\ Alone
  BY DEF Init, AllFresh, Alone, Fresh, Idle
<1>3. OneBasePerWeek /\ VersionsDistinct /\ CompletedIffDone
  BY <1>1 DEF OneBasePerWeek, ActiveBases, VersionsDistinct, CompletedIffDone
<1> QED
  BY <1>2, <1>3, IInvInit DEF SInv

\* What is seen depends on the tables alone.
LEMMA FreshStays ==
    ASSUME NEW q, Fresh(q), UNCHANGED <<worklists, tasks>>
    PROVE  Fresh(q)'
BY DEF Fresh, ActiveBases, Unlocked, Missing, FamilyVersions, PendingCarryOvers,
       Unfinished, CopyOf, Week, WorklistIds, TaskIds

\* The steps that only read keep the tables, and what is pending is fresh.
Reads == AllFresh' /\ Alone' /\ UNCHANGED <<program, worklists, tasks>>

LEMMA HoldFresh ==
    ASSUME SInv, NEW r \in Requests, \A g \in Requests : g # r => req[g] = Idle,
           NEW q, Fresh(q), Hold(r, q)
    PROVE  Reads
<1>1. UNCHANGED <<program, worklists, tasks>> /\ req' = [req EXCEPT ![r] = q]
  BY DEF Hold
<1>2. \A g \in Requests : req'[g] = IF g = r THEN q ELSE Idle
  BY <1>1 DEF SInv, IInv, TypeOK
<1>3. Fresh(q)'
  BY <1>1, FreshStays
<1>4. Alone'
  BY <1>2 DEF Alone
<1>5. AllFresh'
  BY <1>2, <1>3 DEF AllFresh, Fresh, Idle
<1> QED
  BY <1>1, <1>4, <1>5 DEF Reads

LEMMA BeginFresh ==
    ASSUME SInv, NEW r \in Requests, NEW q, Fresh(q), Begin(r, q)
    PROVE  Reads
BY HoldFresh DEF Begin, Free, SInv

LEMMA FinishFresh ==
    ASSUME SInv, NEW r \in Requests, req[r] # Idle, Finish(r)
    PROVE  AllFresh' /\ Alone'
<1>1. \A g \in Requests : req'[g] = Idle
  BY DEF Alone, SInv, IInv, TypeOK, Finish
<1> QED
  BY <1>1 DEF AllFresh, Alone, Fresh, Idle

\* The steps that write.
Writes(r) ==
    \/ CommitCreateWorklist(r)
    \/ CommitGenerate(r)
    \/ CommitLock(r)
    \/ CommitUpdateWorklist(r)
    \/ CommitAmend(r)
    \/ \E w \in WorklistIds : ArchiveWorklist(r, w)
    \/ CommitCreateTask(r)
    \/ CommitUpdateTask(r)
    \/ CommitArchiveTask(r)
    \/ CommitCarryOver(r)

\* A handler that reads begins a request that is fresh.
LEMMA ReadOrWrite ==
    ASSUME SInv, NEW r \in Requests,
           WorklistStep(r) \/ TaskStep(r) \/ CarryStep(r) \/ Abort(r)
    PROVE  Reads \/ Writes(r)
<1> USE DEF SInv, IInv
<1>0. ASSUME NEW q, Fresh(q), Begin(r, q) PROVE Reads
  BY <1>0, BeginFresh
<1>1. ASSUME NEW week \in Weeks, BeginCreateWorklist(r, week) PROVE Reads
  <2>1. Fresh([op |-> "create", week |-> week])
    BY <1>1 DEF Fresh, BeginCreateWorklist
  <2> QED
    BY <1>0, <1>1, <2>1 DEF BeginCreateWorklist
<1>2. ASSUME NEW w \in WorklistIds, BeginGenerate(r, w) PROVE Reads
  <2>1. Fresh([op |-> "generate", wl |-> w, missing |-> Missing(w)])
    BY <1>2 DEF Fresh, BeginGenerate
  <2> QED
    BY <1>0, <1>2, <2>1 DEF BeginGenerate
<1>3. ASSUME NEW w \in WorklistIds, BeginLock(r, w) PROVE Reads
  <2>1. Fresh([op |-> "lock", wl |-> w])
    BY <1>3 DEF Fresh, BeginLock
  <2> QED
    BY <1>0, <1>3, <2>1 DEF BeginLock
<1>4. ASSUME NEW w \in WorklistIds, NEW name \in Names, BeginUpdateWorklist(r, w, name)
      PROVE  Reads
  <2>1. Fresh([op |-> "rename", wl |-> w, name |-> name])
    BY <1>4 DEF Fresh, BeginUpdateWorklist
  <2> QED
    BY <1>0, <1>4, <2>1 DEF BeginUpdateWorklist
<1>5. ASSUME NEW w \in WorklistIds, BeginAmend(r, w) PROVE Reads
  <2>1. PICK v \in FamilyVersions(w) :
          /\ \A u \in FamilyVersions(w) : u <= v
          /\ Begin(r, [op |-> "amend", wl |-> w, version |-> v + 1])
    BY <1>5 DEF BeginAmend
  <2>2. FamilyVersions(w) \subseteq Nat
    <3>1. \A x \in WorklistIds : worklists[x] \in Worklist
      BY DEF TypeOK, WorklistIds
    <3> QED
      BY <3>1 DEF FamilyVersions, Worklist
  <2>3. \A u \in FamilyVersions(w) : u < v + 1
    BY <2>1, <2>2
  <2>4. Fresh([op |-> "amend", wl |-> w, version |-> v + 1])
    BY <2>3 DEF Fresh
  <2> QED
    BY <1>0, <2>1, <2>4
<1>6. ASSUME NEW w \in WorklistIds, NEW day \in FormDays, BeginCreateTask(r, w, day)
      PROVE  Reads
  <2>1. Fresh([op |-> "createTask", wl |-> w, day |-> day])
    BY <1>6 DEF Fresh, BeginCreateTask
  <2> QED
    BY <1>0, <1>6, <2>1 DEF BeginCreateTask
<1>7. ASSUME NEW t \in TaskIds, NEW status \in FormStatuses, NEW day \in FormDays,
             BeginUpdateTask(r, t, status, day)
      PROVE  Reads
  <2> DEFINE q == [op |-> "updateTask", task |-> t, read |-> tasks[t],
                   status |-> status, day |-> day]
  <2>1. Fresh(q)
    BY <1>7 DEF Fresh, BeginUpdateTask
  <2> QED
    BY <1>0, <1>7, <2>1 DEF BeginUpdateTask
<1>8. ASSUME NEW t \in TaskIds, BeginArchiveTask(r, t) PROVE Reads
  <2>1. Fresh([op |-> "archiveTask", task |-> t])
    BY <1>8 DEF Fresh, BeginArchiveTask
  <2> QED
    BY <1>0, <1>8, <2>1 DEF BeginArchiveTask
<1>9. ASSUME NEW w \in WorklistIds, NEW carry \in SUBSET PendingCarryOvers(w),
             NEW complete \in SUBSET PendingCarryOvers(w),
             NEW discard \in SUBSET PendingCarryOvers(w),
             BeginCarryOver(r, w, carry, complete, discard)
      PROVE  Reads
  <2> DEFINE d == [carry |-> carry, complete |-> complete, discard |-> discard]
             q == [op |-> "carryOver", wl |-> w, decisions |-> d]
  <2>1. Fresh(q)
    BY <1>9 DEF Fresh, BeginCarryOver
  <2> QED
    BY <1>0, <1>9, <2>1 DEF BeginCarryOver
<1>10. ASSUME Abort(r) PROVE Reads
  BY <1>10, FinishFresh DEF Abort, Reads, Finish
<1>14. ASSUME ReadAmended(r) PROVE Reads
  <2> DEFINE w == req[r].wl
  <2>1. PICK n \in 0 .. Len(tasks) : \E src \in InIdOrder(ActiveTasks(w), n) :
          Hold(r, [op |-> "copy", wl |-> w, version |-> req[r].version,
                   copies |-> [i \in 1 .. n |-> CopyOf(src[i])]])
    BY <1>14 DEF ReadAmended
  <2>2. PICK src \in InIdOrder(ActiveTasks(w), n) :
          Hold(r, [op |-> "copy", wl |-> w, version |-> req[r].version,
                   copies |-> [i \in 1 .. n |-> CopyOf(src[i])]])
    BY <2>1
  <2> DEFINE copies == [i \in 1 .. n |-> CopyOf(src[i])]
             q == [op |-> "copy", wl |-> w, version |-> req[r].version, copies |-> copies]
  <2>3. n \in Nat
    BY DEF TypeOK
  <2>4. /\ DOMAIN copies = 1 .. n
        /\ \A i \in 1 .. n : src[i] \in TaskIds
    BY <2>3, CopiesRead
  <2>5. \A i \in DOMAIN copies : copies[i] = CopyOf(copies[i].from)
    BY <2>4, CopyType
  <2>6. /\ req[r].op = "amend"
        /\ \A v \in FamilyVersions(w) : v < req[r].version
    BY <1>14 DEF ReadAmended, AllFresh, Fresh
  <2> HIDE DEF copies, w
  <2>7. Fresh(q)
    BY <2>5, <2>6 DEF Fresh
  <2>8. Hold(r, q)
    BY <2>2 DEF copies, w
  <2> HIDE DEF q
  <2>9. \A g \in Requests : g # r => req[g] = Idle
    BY <2>6 DEF Alone, Idle
  <2> QED
    BY <2>7, <2>8, <2>9, HoldFresh
<1>11. CASE WorklistStep(r)
  BY <1>1, <1>2, <1>3, <1>4, <1>5, <1>11, <1>14 DEF WorklistStep, Writes
<1>12. CASE TaskStep(r)
  BY <1>6, <1>7, <1>8, <1>12 DEF TaskStep, Writes
<1>13. CASE CarryStep(r)
  BY <1>9, <1>13 DEF CarryStep, Writes
<1> QED
  BY <1>10, <1>11, <1>12, <1>13

\* Nothing is pending once a request has written.
LEMMA WriteFresh ==
    ASSUME SInv, NEW r \in Requests, Writes(r)
    PROVE  AllFresh' /\ Alone'
<1>1. CASE req[r].op # "idle" /\ Finish(r)
  BY <1>1, FinishFresh DEF Idle
<1>2. ASSUME NEW w \in WorklistIds, ArchiveWorklist(r, w) PROVE AllFresh' /\ Alone'
  <2>1. \A g \in Requests : req'[g] = Idle
    BY <1>2 DEF ArchiveWorklist, Free, SInv, IInv, TypeOK
  <2> QED
    BY <2>1 DEF AllFresh, Alone, Fresh, Idle
<1> QED
  BY <1>1, <1>2
  DEF Writes, CommitCreateWorklist, CommitGenerate, CommitLock, CommitUpdateWorklist,
      CommitAmend, CommitCreateTask, CommitUpdateTask, CommitArchiveTask, CommitCarryOver

-----------------------------------------------------------------------------
(* The worklists of a week *)

LEMMA WorklistsSame ==
    ASSUME program = "tk", OneBasePerWeek, VersionsDistinct, UNCHANGED worklists
    PROVE  OneBasePerWeek' /\ VersionsDistinct'
<1>1. \A week \in Weeks : ActiveBases(week)' = ActiveBases(week)
  BY DEF ActiveBases, WorklistIds
<1>2. OneBasePerWeek'
  BY <1>1 DEF OneBasePerWeek
<1>3. VersionsDistinct'
  BY DEF VersionsDistinct, WorklistIds
<1> QED
  BY <1>2, <1>3

\* A row that keeps its place and does not become active again.
LEMMA WorklistRowKept ==
    ASSUME TypeOK, program = "tk", OneBasePerWeek, VersionsDistinct,
           NEW w \in WorklistIds, NEW row \in Worklist,
           row.week = worklists[w].week, row.version = worklists[w].version,
           row.parent = worklists[w].parent, row.active => worklists[w].active,
           worklists' = [worklists EXCEPT ![w] = row]
    PROVE  OneBasePerWeek' /\ VersionsDistinct'
<1>1. /\ WorklistIds' = WorklistIds
      /\ worklists'[w] = row
      /\ \A v \in WorklistIds : v # w => worklists'[v] = worklists[v]
  BY WorklistRowWritten
<1>2. \A v \in WorklistIds : /\ worklists'[v].week = worklists[v].week
                             /\ worklists'[v].version = worklists[v].version
                             /\ worklists'[v].parent = worklists[v].parent
                             /\ worklists'[v].active => worklists[v].active
  BY <1>1
<1>3. \A week \in Weeks : ActiveBases(week)' \subseteq ActiveBases(week)
  BY <1>1, <1>2 DEF ActiveBases
<1>4. OneBasePerWeek'
  BY <1>3 DEF OneBasePerWeek
<1>5. VersionsDistinct'
  BY <1>1, <1>2 DEF VersionsDistinct
<1> QED
  BY <1>4, <1>5

\* create_worklist adds a base where there is none.
LEMMA BaseAdded ==
    ASSUME SInv, NEW r \in Requests, CommitCreateWorklist(r)
    PROVE  OneBasePerWeek' /\ VersionsDistinct'
<1> USE DEF SInv, IInv
<1> DEFINE row == NewWorklist(req[r].week, 1, 0, DefaultName)
           new == Len(worklists) + 1
<1>1. req[r].week \in Weeks /\ ActiveBases(req[r].week) = {}
  BY RequestShapes DEF CommitCreateWorklist, TypeOK, AllFresh, Fresh
<1>2. row \in Worklist
  BY <1>1, NewWorklistType
<1>3. row.week = req[r].week /\ row.parent = 0
  BY DEF NewWorklist
<1>4. worklists' = Append(worklists, row)
  BY DEF CommitCreateWorklist
<1> HIDE DEF row
<1>5. /\ new \notin WorklistIds
      /\ WorklistIds' = WorklistIds \cup {new}
      /\ worklists'[new] = row
      /\ \A v \in WorklistIds : worklists'[v] = worklists[v]
  BY <1>2, <1>4, WorklistRowAppended
<1>6. \A v \in WorklistIds : worklists[v].parent = 0 \/ worklists[v].parent \in WorklistIds
  <2> SUFFICES ASSUME NEW v \in WorklistIds, worklists[v].parent # 0
               PROVE  worklists[v].parent \in WorklistIds
    OBVIOUS
  <2>1. worklists[v].parent < v
    BY DEF AmendsLockedSnapshot
  <2>2. worklists[v] \in Worklist
    BY DEF TypeOK, WorklistIds
  <2>3. worklists[v].parent \in Nat
    BY <2>2 DEF Worklist
  <2>4. v \in 1 .. Len(worklists) /\ Len(worklists) \in Nat
    BY DEF WorklistIds, TypeOK
  <2> QED
    BY <2>1, <2>3, <2>4 DEF WorklistIds
<1> HIDE DEF new
<1>7. OneBasePerWeek'
  <2> SUFFICES ASSUME NEW week \in Weeks, NEW v \in ActiveBases(week)',
                      NEW w \in ActiveBases(week)'
               PROVE  v = w
    BY DEF OneBasePerWeek
  <2>1. \A x \in ActiveBases(week)' : x \in ActiveBases(week) \/ (x = new /\ week = req[r].week)
    BY <1>3, <1>5 DEF ActiveBases
  <2> QED
    BY <1>1, <2>1 DEF OneBasePerWeek
<1>8. VersionsDistinct'
  <2> SUFFICES ASSUME NEW v \in WorklistIds', NEW w \in WorklistIds', v # w,
                      worklists'[w].parent \in {v, worklists'[v].parent}, worklists'[w].parent # 0
               PROVE  worklists'[v].version # worklists'[w].version
    BY DEF VersionsDistinct
  <2>1. w \in WorklistIds /\ worklists'[w] = worklists[w]
    BY <1>3, <1>5
  <2>2. v \in WorklistIds /\ worklists'[v] = worklists[v]
    BY <1>3, <1>5, <1>6, <2>1
  <2> QED
    BY <2>1, <2>2 DEF VersionsDistinct
<1> QED
  BY <1>7, <1>8

\* amend_worklist adds one above the versions of its family.
LEMMA AmendmentAdded ==
    ASSUME SInv, NEW r \in Requests, CommitAmend(r)
    PROVE  OneBasePerWeek' /\ VersionsDistinct'
<1> USE DEF SInv, IInv
<1> DEFINE parent == req[r].wl
           row == NewWorklist(worklists[parent].week, req[r].version, parent,
                              worklists[parent].name)
           new == Len(worklists) + 1
<1>1. /\ req[r].version \in Nat /\ parent \in Nat
      /\ \A v \in FamilyVersions(parent) : v < req[r].version
  BY RequestShapes DEF CommitAmend, TypeOK, AllFresh, Fresh
<1>2. parent \in WorklistIds
  BY DEF CommitAmend, ReferencesResolve, ReliedOn
<1>3. worklists[parent] \in Worklist
  BY <1>2 DEF TypeOK, WorklistIds
<1>4. row \in Worklist
  BY <1>1, <1>3, NewWorklistType DEF Worklist
<1>5. row.version = req[r].version /\ row.parent = parent
  BY DEF NewWorklist
<1>6. worklists' = Append(worklists, row)
  BY DEF CommitAmend
<1> HIDE DEF row
<1>7. /\ new \notin WorklistIds
      /\ WorklistIds' = WorklistIds \cup {new}
      /\ worklists'[new] = row
      /\ \A v \in WorklistIds : worklists'[v] = worklists[v]
  BY <1>4, <1>6, WorklistRowAppended
<1>8. parent # 0 /\ parent # new
  BY <1>2, <1>7 DEF WorklistIds
<1>9. \A v \in WorklistIds : worklists[v].version \in Nat
  <2>1. \A v \in WorklistIds : worklists[v] \in Worklist
    BY DEF TypeOK, WorklistIds
  <2> QED
    BY <2>1 DEF Worklist
<1> HIDE DEF new, parent
<1>10. \A v \in WorklistIds : v = parent \/ worklists[v].parent = parent
                               => worklists[v].version # row.version
  <2> SUFFICES ASSUME NEW v \in WorklistIds, v = parent \/ worklists[v].parent = parent
               PROVE  worklists[v].version # row.version
    OBVIOUS
  <2>1. worklists[v].version < req[r].version
    BY <1>1 DEF FamilyVersions
  <2> QED
    BY <1>1, <1>5, <1>9, <2>1
<1>11. OneBasePerWeek'
  <2>1. \A week \in Weeks : ActiveBases(week)' \subseteq ActiveBases(week)
    BY <1>5, <1>7, <1>8 DEF ActiveBases
  <2> QED
    BY <2>1 DEF OneBasePerWeek
<1>12. VersionsDistinct'
  <2> SUFFICES ASSUME NEW v \in WorklistIds', NEW w \in WorklistIds', v # w,
                      worklists'[w].parent \in {v, worklists'[v].parent}, worklists'[w].parent # 0
               PROVE  worklists'[v].version # worklists'[w].version
    BY DEF VersionsDistinct
  <2>1. CASE v \in WorklistIds /\ w \in WorklistIds
    BY <1>7, <2>1 DEF VersionsDistinct
  <2>2. CASE w = new
    BY <1>5, <1>7, <1>10, <2>2
  <2>3. CASE v = new /\ w \in WorklistIds
    <3>1. worklists[w].parent # new
      <4>1. worklists[w] \in Worklist
        BY <2>3 DEF TypeOK, WorklistIds
      <4>2. worklists[w].parent \in Nat
        BY <4>1 DEF Worklist
      <4>3. worklists[w].parent = 0 \/ worklists[w].parent < w
        BY <2>3 DEF AmendsLockedSnapshot
      <4>4. w \in 1 .. Len(worklists) /\ Len(worklists) \in Nat
        BY <2>3 DEF WorklistIds, TypeOK
      <4> QED
        BY <4>2, <4>3, <4>4 DEF new
    <3>2. worklists[w].parent = parent
      BY <1>5, <1>7, <2>3, <3>1
    <3> QED
      BY <1>7, <1>10, <2>3, <3>2
  <2> QED
    BY <1>7, <2>1, <2>2, <2>3
<1> QED
  BY <1>11, <1>12

-----------------------------------------------------------------------------
(* The tasks of a worklist *)

\* What carrying over leaves of a task.
LEMMA SettledFields ==
    ASSUME TypeOK, NEW d, NEW t \in TaskIds
    PROVE  /\ Settled(d)[t] \in {tasks[t], AsCarried(tasks[t]), AsCompleted(tasks[t]),
                                 AsDiscarded(tasks[t])}
           /\ t \in d.carry \ (d.complete \cup d.discard) =>
                 Settled(d)[t] = AsCarried(tasks[t])
           /\ t \notin d.carry \cup d.complete \cup d.discard => Settled(d)[t] = tasks[t]
           /\ t \notin d.carry =>
                 Settled(d)[t] \in {tasks[t], AsCompleted(tasks[t]), AsDiscarded(tasks[t])}
           /\ AsCarried(tasks[t]).status = "carried"
           /\ AsCarried(tasks[t]).done = tasks[t].done
           /\ AsCompleted(tasks[t]).status = "done"
           /\ AsCompleted(tasks[t]).done = TRUE
           /\ AsDiscarded(tasks[t]).status = "discarded"
           /\ AsDiscarded(tasks[t]).done = tasks[t].done
<1>1. tasks[t] \in TaskInstance
  BY DEF TypeOK, TaskIds
<1>2. Settled(d)[t] = CASE t \in d.carry    -> AsCarried(tasks[t])
                        [] t \in d.complete -> AsCompleted(tasks[t])
                        [] t \in d.discard  -> AsDiscarded(tasks[t])
                        [] OTHER            -> tasks[t]
  BY DEF Settled
<1>3. /\ Settled(d)[t] \in {tasks[t], AsCarried(tasks[t]), AsCompleted(tasks[t]),
                            AsDiscarded(tasks[t])}
      /\ t \notin d.carry \cup d.complete \cup d.discard => Settled(d)[t] = tasks[t]
      /\ t \notin d.carry =>
            Settled(d)[t] \in {tasks[t], AsCompleted(tasks[t]), AsDiscarded(tasks[t])}
  BY <1>2
<1>5. /\ AsCarried(tasks[t]).status = "carried"
      /\ AsCarried(tasks[t]).done = tasks[t].done
      /\ AsCompleted(tasks[t]).status = "done"
      /\ AsCompleted(tasks[t]).done = TRUE
      /\ AsDiscarded(tasks[t]).status = "discarded"
      /\ AsDiscarded(tasks[t]).done = tasks[t].done
  BY <1>1 DEF AsCarried, AsCompleted, AsDiscarded, TaskInstance
<1>4. t \in d.carry \ (d.complete \cup d.discard) => Settled(d)[t] = AsCarried(tasks[t])
  BY <1>2
<1> QED
  BY <1>3, <1>4, <1>5

\* An edit of a task that nobody has changed meanwhile.
LEMMA EditedFields ==
    ASSUME NEW task \in TaskInstance, NEW q, q.read = task
    PROVE  /\ Edited(task, q).status = q.status
           /\ Edited(task, q).done = (q.status = "done")
<1>1. task.done \in BOOLEAN
  BY DEF TaskInstance
<1>2. /\ Edited(task, q).status = Written(task.status, q.read.status, q.status)
      /\ Edited(task, q).done = Written(task.done, q.read.done, q.status = "done")
  BY DEF Edited, TaskInstance
<1>3. Written(task.status, q.read.status, q.status) = q.status
  BY DEF Written
<1>4. Written(task.done, q.read.done, q.status = "done") = (q.status = "done")
  BY DEF Written
<1> QED
  BY <1>2, <1>3, <1>4

\* completed_at is kept in step by every write.
LEMMA DoneKept ==
    ASSUME SInv, NEW r \in Requests, Writes(r)
    PROVE  CompletedIffDone'
<1> USE DEF SInv, IInv
<1>0. \A t \in TaskIds : tasks[t] \in TaskInstance
  BY DEF TypeOK, TaskIds
<1>1. CASE UNCHANGED tasks
  BY <1>1 DEF CompletedIffDone, TaskIds
<1>2. ASSUME NEW w \in Nat, NEW S \in SUBSET Occurrences, InsertOccurrences(w, S)
      PROVE  CompletedIffDone'
  <2>1. /\ TaskIds' = TaskIds \cup Added
        /\ \A t \in TaskIds : tasks'[t] = tasks[t]
        /\ \A t \in Added : \E d \in S : tasks'[t] = NewTask(w, d[1], d[2], 0)
    BY <1>2, OccurrenceRows DEF KeepsRows
  <2>2. ASSUME NEW t \in Added
        PROVE  tasks'[t].done = FALSE /\ tasks'[t].status = "open"
    <3>1. PICK d \in S : tasks'[t] = NewTask(w, d[1], d[2], 0)
      BY <2>1
    <3> QED
      BY <3>1 DEF NewTask
  <2> QED
    BY <2>1, <2>2 DEF CompletedIffDone
<1>3. CASE CommitCreateWorklist(r)
  <2>1. Len(worklists) + 1 \in Nat /\ Due[req[r].week] \in SUBSET Occurrences
    BY <1>3, CreatedType
  <2> QED
    BY <1>2, <1>3, <2>1 DEF CommitCreateWorklist
<1>4. CASE CommitGenerate(r)
  <2>1. req[r].wl \in Nat /\ req[r].missing \subseteq Occurrences
    BY <1>4, RequestShapes DEF CommitGenerate, TypeOK
  <2> QED
    BY <1>2, <1>4, <2>1 DEF CommitGenerate
<1>5. CASE CommitAmend(r)
  <2> DEFINE copies == req[r].copies
  <2>1. /\ TaskIds' = TaskIds \cup Added
        /\ \A t \in TaskIds : tasks'[t] = tasks[t]
        /\ \A t \in Added : tasks'[t].from \in TaskIds
        /\ \A t \in Added : \E i \in DOMAIN copies :
              /\ tasks'[t].from = copies[i].from
              /\ tasks'[t].status = copies[i].status
              /\ tasks'[t].done = copies[i].done
    BY <1>5, AmendRows DEF KeepsRows
  <2>2. \A i \in DOMAIN copies : copies[i] = CopyOf(copies[i].from)
    BY <1>5 DEF CommitAmend, AllFresh, Fresh
  <2> HIDE DEF copies
  <2>3. ASSUME NEW t \in Added
        PROVE  \E f \in TaskIds : /\ tasks'[t].done = tasks[f].done
                                  /\ tasks'[t].status = tasks[f].status
    <3>1. PICK i \in DOMAIN copies : /\ tasks'[t].from = copies[i].from
                                     /\ tasks'[t].status = copies[i].status
                                     /\ tasks'[t].done = copies[i].done
      BY <2>1
    <3>2. copies[i].from \in TaskIds
      BY <2>1, <3>1
    <3> QED
      BY <2>2, <3>1, <3>2, CopyType
  <2> QED
    BY <2>1, <2>3 DEF CompletedIffDone
<1>6. CASE CommitCreateTask(r)
  <2> DEFINE row == NewTask(req[r].wl, None, req[r].day, 0)
  <2>1. req[r].wl \in Nat /\ req[r].day \in Days \cup {None}
    BY <1>6, RequestShapes DEF CommitCreateTask, TypeOK
  <2>2. row \in TaskInstance /\ row.done = FALSE /\ row.status = "open"
    BY <2>1, NewTaskType DEF NewTask
  <2>3. tasks' = Append(tasks, row)
    BY <1>6 DEF CommitCreateTask
  <2> HIDE DEF row
  <2>4. /\ TaskIds' = TaskIds \cup {Len(tasks) + 1}
        /\ tasks'[Len(tasks) + 1] = row
        /\ \A t \in TaskIds : tasks'[t] = tasks[t]
    BY <2>2, <2>3, TaskRowAppended DEF KeepsRows
  <2> QED
    BY <2>2, <2>4 DEF CompletedIffDone
<1>7. CASE CommitUpdateTask(r)
  <2> DEFINE q == req[r]
             row == Edited(tasks[q.task], q)
  <2>1. q \in Request /\ q.op = "updateTask"
    BY <1>7 DEF TypeOK, CommitUpdateTask
  <2>2. q.task \in TaskIds
    BY <2>1 DEF ReferencesResolve, ReliedOn
  <2>3. tasks[q.task] \in TaskInstance /\ q.read = tasks[q.task]
    BY <1>0, <2>1, <2>2 DEF AllFresh, Fresh
  <2>4. row \in TaskInstance
    BY <2>1, <2>3, EditedType
  <2>5. row.done <=> row.status = "done"
    <3>1. row.status = q.status /\ row.done = (q.status = "done")
      BY <2>3, EditedFields
    <3> HIDE DEF row
    <3> QED
      BY <3>1, Zenon
  <2>6. tasks' = [tasks EXCEPT ![q.task] = row]
    BY <1>7 DEF CommitUpdateTask
  <2> HIDE DEF row
  <2>7. /\ TaskIds' = TaskIds
        /\ tasks'[q.task] = row
        /\ \A u \in TaskIds : u # q.task => tasks'[u] = tasks[u]
    BY <2>2, <2>4, <2>6, TaskRowWritten
  <2> QED
    BY <2>5, <2>7 DEF CompletedIffDone
<1>8. CASE CommitArchiveTask(r)
  <2> DEFINE t == req[r].task
             row == [tasks[t] EXCEPT !.active = FALSE]
  <2>1. t \in TaskIds
    BY <1>8 DEF CommitArchiveTask, ReferencesResolve, ReliedOn
  <2>2. tasks[t] \in TaskInstance
    BY <1>0, <2>1
  <2>3. row \in TaskInstance /\ row.done = tasks[t].done /\ row.status = tasks[t].status
    BY <2>2 DEF TaskInstance
  <2>4. tasks' = [tasks EXCEPT ![t] = row]
    BY <1>8 DEF CommitArchiveTask
  <2> HIDE DEF row, t
  <2>5. /\ TaskIds' = TaskIds
        /\ tasks'[t] = row
        /\ \A u \in TaskIds : u # t => tasks'[u] = tasks[u]
    BY <2>1, <2>3, <2>4, TaskRowWritten
  <2> QED
    BY <2>1, <2>3, <2>5 DEF CompletedIffDone
<1>9. CASE CommitCarryOver(r)
  <2> DEFINE d == req[r].decisions
  <2>1. /\ TaskIds' = TaskIds \cup Added
        /\ \A t \in TaskIds : tasks'[t] = Settled(d)[t]
        /\ \A t \in Added : \E f \in d.carry : tasks'[t] = Carried(f, req[r].wl)
    BY <1>9, CarryRows
  <2>2. d.carry \cup d.complete \cup d.discard \subseteq PendingCarryOvers(req[r].wl)
    BY <1>9 DEF CommitCarryOver, AllFresh, Fresh
  <2>3. ASSUME NEW t \in Added
        PROVE  tasks'[t].done = FALSE /\ tasks'[t].status = "open"
    <3>1. PICK f \in d.carry : tasks'[t] = Carried(f, req[r].wl)
      BY <2>1
    <3> QED
      BY <3>1 DEF Carried, NewTask
  <2> HIDE DEF d
  <2>4. ASSUME NEW t \in TaskIds
        PROVE  tasks'[t].done <=> tasks'[t].status = "done"
    <3>1. CASE t \in d.carry \cup d.complete \cup d.discard
      <4>1. tasks[t].status \in {"open", "in_progress"}
        BY <2>2, <3>1 DEF PendingCarryOvers, Unfinished
      <4>2. tasks[t].done = FALSE
        BY <1>0, <4>1 DEF CompletedIffDone, TaskInstance
      <4>3. tasks'[t] \in {tasks[t], AsCarried(tasks[t]), AsCompleted(tasks[t]),
                           AsDiscarded(tasks[t])}
        BY <2>1, SettledFields
      <4>4. /\ AsCarried(tasks[t]).status = "carried"
            /\ AsCarried(tasks[t]).done = FALSE
            /\ AsCompleted(tasks[t]).status = "done"
            /\ AsCompleted(tasks[t]).done = TRUE
            /\ AsDiscarded(tasks[t]).status = "discarded"
            /\ AsDiscarded(tasks[t]).done = FALSE
        BY <4>2, SettledFields
      <4> QED
        BY <4>1, <4>2, <4>3, <4>4
    <3>2. CASE t \notin d.carry \cup d.complete \cup d.discard
      <4>1. tasks'[t] = tasks[t]
        BY <2>1, <3>2, SettledFields
      <4> QED
        BY <4>1 DEF CompletedIffDone
    <3> QED
      BY <3>1, <3>2
  <2> QED
    BY <2>1, <2>3, <2>4 DEF CompletedIffDone
<1> QED
  BY <1>1, <1>3, <1>4, <1>5, <1>6, <1>7, <1>8, <1>9
  DEF Writes, CommitLock, CommitUpdateWorklist, ArchiveWorklist

LEMMA BasesKept ==
    ASSUME SInv, NEW r \in Requests, Writes(r)
    PROVE  OneBasePerWeek' /\ VersionsDistinct'
<1> USE DEF SInv, IInv
<1>0. \A w \in WorklistIds : worklists[w] \in Worklist
  BY DEF TypeOK, WorklistIds
<1>1. CASE UNCHANGED worklists
  BY <1>1, WorklistsSame
<1>2. CASE CommitLock(r)
  <2> DEFINE w == req[r].wl
             row == [worklists[w] EXCEPT !.locked = TRUE]
  <2>1. w \in WorklistIds
    BY <1>2 DEF CommitLock, ReferencesResolve, ReliedOn
  <2>2. /\ row \in Worklist
        /\ row.week = worklists[w].week
        /\ row.version = worklists[w].version
        /\ row.parent = worklists[w].parent
        /\ row.active => worklists[w].active
    BY <1>0, <2>1 DEF Worklist
  <2>3. worklists' = [worklists EXCEPT ![w] = row]
    BY <1>2 DEF CommitLock
  <2> HIDE DEF row, w
  <2> QED
    BY <2>1, <2>2, <2>3, WorklistRowKept
<1>3. CASE CommitUpdateWorklist(r)
  <2> DEFINE w == req[r].wl
             row == [worklists[w] EXCEPT !.name = req[r].name]
  <2>1. w \in WorklistIds
    BY <1>3 DEF CommitUpdateWorklist, ReferencesResolve, ReliedOn
  <2>2. req[r].name \in Names
    BY <1>3, RequestShapes DEF CommitUpdateWorklist, TypeOK
  <2>3. /\ row \in Worklist
        /\ row.week = worklists[w].week
        /\ row.version = worklists[w].version
        /\ row.parent = worklists[w].parent
        /\ row.active => worklists[w].active
    BY <1>0, <2>1, <2>2 DEF Worklist
  <2>4. worklists' = [worklists EXCEPT ![w] = row]
    BY <1>3 DEF CommitUpdateWorklist
  <2> HIDE DEF row, w
  <2> QED
    BY <2>1, <2>3, <2>4, WorklistRowKept
<1>4. ASSUME NEW w \in WorklistIds, ArchiveWorklist(r, w)
      PROVE  OneBasePerWeek' /\ VersionsDistinct'
  <2> DEFINE row == [worklists[w] EXCEPT !.active = FALSE]
  <2>1. /\ row \in Worklist
        /\ row.week = worklists[w].week
        /\ row.version = worklists[w].version
        /\ row.parent = worklists[w].parent
        /\ row.active => worklists[w].active
    BY <1>0 DEF Worklist
  <2>2. worklists' = [worklists EXCEPT ![w] = row]
    BY <1>4 DEF ArchiveWorklist
  <2> HIDE DEF row
  <2> QED
    BY <2>1, <2>2, WorklistRowKept
<1> QED
  BY <1>1, <1>2, <1>3, <1>4, BaseAdded, AmendmentAdded
  DEF Writes, CommitGenerate, CommitCreateTask, CommitUpdateTask, CommitArchiveTask,
      CommitCarryOver

LEMMA ProgramStays == [Next]_vars => program' = program
<1>1. \A r, q : Begin(r, q) \/ Hold(r, q) => program' = program
  BY DEF Begin, Hold
<1>2. \A r : Finish(r) => program' = program
  BY DEF Finish
<1>3. ASSUME NEW r, WorklistStep(r) PROVE program' = program
  BY <1>1, <1>2, <1>3
  DEF WorklistStep, BeginCreateWorklist, CommitCreateWorklist, BeginGenerate,
      CommitGenerate, BeginLock, CommitLock, BeginUpdateWorklist,
      CommitUpdateWorklist, BeginAmend, ReadAmended, CommitAmend, ArchiveWorklist
<1>4. ASSUME NEW r, TaskStep(r) PROVE program' = program
  BY <1>1, <1>2, <1>4
  DEF TaskStep, BeginCreateTask, CommitCreateTask, BeginUpdateTask, CommitUpdateTask,
      BeginArchiveTask, CommitArchiveTask
<1>5. ASSUME NEW r, CarryStep(r) PROVE program' = program
  BY <1>1, <1>2, <1>5 DEF CarryStep, BeginCarryOver, CommitCarryOver
<1>6. ASSUME NEW r, Abort(r) PROVE program' = program
  BY <1>2, <1>6 DEF Abort
<1> QED
  BY <1>3, <1>4, <1>5, <1>6 DEF Next, vars

LEMMA SerialStep == IInv /\ TInv /\ [Next]_vars => TInv'
<1> SUFFICES ASSUME SInv, [Next]_vars PROVE SInv'
  BY ProgramStays DEF TInv
<1>1. IInv' /\ program' = "tk"
  BY IInvStep, ProgramStays DEF SInv
<1>2. ASSUME UNCHANGED <<worklists, tasks>>, AllFresh', Alone' PROVE SInv'
  <2>1. OneBasePerWeek' /\ VersionsDistinct'
    BY <1>2, WorklistsSame DEF SInv
  <2>2. CompletedIffDone'
    BY <1>2 DEF SInv, CompletedIffDone, TaskIds
  <2> QED
    BY <1>1, <1>2, <2>1, <2>2 DEF SInv
<1>3. CASE UNCHANGED vars
  <2>1. \A r \in Requests : Fresh(req[r])'
    <3> SUFFICES ASSUME NEW r \in Requests PROVE Fresh(req[r])'
      OBVIOUS
    <3>1. PICK q \in Request : q = req[r]
      BY DEF SInv, IInv, TypeOK
    <3>2. Fresh(q)'
      BY <1>3, <3>1, FreshStays DEF SInv, AllFresh, vars
    <3> QED
      BY <1>3, <3>1, <3>2 DEF vars, Fresh
  <2>2. Alone'
    BY <1>3 DEF SInv, Alone, vars
  <2> QED
    BY <1>2, <1>3, <2>1, <2>2 DEF AllFresh, vars
<1>4. ASSUME NEW r \in Requests,
             WorklistStep(r) \/ TaskStep(r) \/ CarryStep(r) \/ Abort(r)
      PROVE  SInv'
  <2>1. CASE Reads
    BY <1>2, <2>1 DEF Reads
  <2>2. CASE Writes(r)
    BY <1>1, <2>2, WriteFresh, BasesKept, DoneKept DEF SInv
  <2> QED
    BY <1>4, <2>1, <2>2, ReadOrWrite
<1> QED
  BY <1>3, <1>4 DEF Next

LEMMA SerialInvariance == Spec => []TInv
BY InitSerial, SerialStep, Invariance, PTL DEF Spec

-----------------------------------------------------------------------------
(* Theorems about Tk *)

\* In Tk a week has at most one base that is not archived.
THEOREM OneBase == Spec => []OneBasePerWeek
<1>1. TInv => OneBasePerWeek
  BY DEF TInv, SInv, OneBasePerWeek
<1> QED
  BY <1>1, SerialInvariance, PTL

\* In Tk a worklist and its amendments differ in version.
THEOREM DistinctVersions == Spec => []VersionsDistinct
<1>1. TInv => VersionsDistinct
  BY DEF TInv, SInv, VersionsDistinct
<1> QED
  BY <1>1, SerialInvariance, PTL

\* In Tk completed_at is set on the tasks that are done and on no other.
THEOREM StampedWhenDone == Spec => []CompletedIffDone
<1>1. TInv => CompletedIffDone
  BY DEF TInv, SInv, CompletedIffDone
<1> QED
  BY <1>1, SerialInvariance, PTL

-----------------------------------------------------------------------------
(* Generation *)

NoDuplicates ==
    \A t \in Added :
        /\ tasks'[t].from = 0
        /\ tasks'[t].tpl # None
        => \A u \in 1 .. Len(tasks') :
            /\ u # t
            /\ tasks'[u].active
            /\ tasks'[u].wl = tasks'[t].wl
            /\ tasks'[u].tpl = tasks'[t].tpl
            => tasks'[u].day # tasks'[t].day

\* Occurrences of which there is no active instance may be inserted.
LEMMA MissingInserted ==
    ASSUME TypeOK, NEW w \in Nat, NEW S \in SUBSET Occurrences, InsertOccurrences(w, S),
           \A t \in TaskIds, d \in S : ~ /\ tasks[t].wl = w
                                          /\ tasks[t].active
                                          /\ tasks[t].tpl = d[1]
                                          /\ tasks[t].day = d[2]
    PROVE  NoDuplicates
<1>1. /\ TaskIds' = TaskIds \cup Added
      /\ \A t \in TaskIds : tasks'[t] = tasks[t]
      /\ \A t \in Added : \E d \in S : tasks'[t] = NewTask(w, d[1], d[2], 0)
      /\ \A t, u \in Added : /\ tasks'[t].tpl = tasks'[u].tpl
                              /\ tasks'[t].day = tasks'[u].day
                              => t = u
  BY OccurrenceRows DEF KeepsRows
<1> SUFFICES ASSUME NEW t \in Added, NEW u \in TaskIds', u # t, tasks'[u].active,
                    tasks'[u].wl = tasks'[t].wl, tasks'[u].tpl = tasks'[t].tpl
             PROVE  tasks'[u].day # tasks'[t].day
  BY DEF NoDuplicates, TaskIds
<1>2. CASE u \in Added
  BY <1>1, <1>2
<1>3. CASE u \in TaskIds
  <2>1. PICK d \in S : tasks'[t] = NewTask(w, d[1], d[2], 0)
    BY <1>1
  <2>2. tasks'[t].wl = w /\ tasks'[t].tpl = d[1] /\ tasks'[t].day = d[2]
    BY <2>1 DEF NewTask
  <2>3. tasks'[u] = tasks[u]
    BY <1>1, <1>3
  <2> QED
    BY <1>3, <2>2, <2>3
<1> QED
  BY <1>1, <1>2, <1>3

\* A step that writes adds tasks without a predecessor only when it generates, or
\* when somebody enters a task of no template.
LEMMA GenerationStep ==
    ASSUME SInv, NEW r \in Requests, Writes(r)
    PROVE  NoDuplicates
<1> USE DEF SInv, IInv
<1>1. CASE Added = {}
  BY <1>1 DEF NoDuplicates
<1>2. ASSUME UNCHANGED tasks PROVE NoDuplicates
  BY <1>1, <1>2, NoTaskAdded
<1>3. CASE CommitCreateWorklist(r)
  <2> DEFINE w == Len(worklists) + 1
  <2>1. w \in Nat /\ w \notin WorklistIds
    BY DEF TypeOK, WorklistIds
  <2>2. \A t \in TaskIds : tasks[t].wl # w
    BY <2>1 DEF ReferencesResolve
  <2>3. /\ Due[req[r].week] \in SUBSET Occurrences
        /\ InsertOccurrences(w, Due[req[r].week])
    BY <1>3, CreatedType DEF CommitCreateWorklist
  <2> HIDE DEF w
  <2> QED
    BY <2>1, <2>2, <2>3, MissingInserted
<1>4. CASE CommitGenerate(r)
  <2>1. /\ req[r].wl \in Nat
        /\ req[r].missing \subseteq Occurrences
        /\ req[r].missing = Missing(req[r].wl)
    BY <1>4, RequestShapes DEF CommitGenerate, TypeOK, AllFresh, Fresh
  <2>2. PICK w \in Nat, S \in SUBSET Occurrences : w = req[r].wl /\ S = Missing(w)
    BY <2>1
  <2>3. InsertOccurrences(w, S)
    BY <1>4, <2>1, <2>2 DEF CommitGenerate
  <2>4. \A t \in TaskIds, d \in S : ~ /\ tasks[t].wl = w
                                       /\ tasks[t].active
                                       /\ tasks[t].tpl = d[1]
                                       /\ tasks[t].day = d[2]
    BY <2>2 DEF Missing
  <2> QED
    BY <2>3, <2>4, MissingInserted
<1>5. CASE CommitAmend(r)
  <2>1. \A t \in Added : tasks'[t].from \in TaskIds
    BY <1>5, AmendRows
  <2>2. 0 \notin TaskIds
    BY DEF TaskIds
  <2> QED
    BY <2>1, <2>2 DEF NoDuplicates
<1>6. CASE CommitCreateTask(r)
  <2> DEFINE row == NewTask(req[r].wl, None, req[r].day, 0)
  <2>1. req[r].wl \in Nat /\ req[r].day \in Days \cup {None}
    BY <1>6, RequestShapes DEF CommitCreateTask, TypeOK
  <2>2. row \in TaskInstance /\ row.tpl = None
    BY <2>1, NewTaskType DEF NewTask
  <2>3. tasks' = Append(tasks, row)
    BY <1>6 DEF CommitCreateTask
  <2> HIDE DEF row
  <2>4. Added = {Len(tasks) + 1} /\ tasks'[Len(tasks) + 1] = row
    BY <2>2, <2>3, TaskRowAppended
  <2> QED
    BY <2>2, <2>4 DEF NoDuplicates
<1>7. CASE CommitUpdateTask(r)
  <2>1. \A t, row : tasks' = [tasks EXCEPT ![t] = row] => Len(tasks') = Len(tasks)
    BY DEF TypeOK
  <2> QED
    BY <1>1, <1>7, <2>1 DEF CommitUpdateTask, Added, TypeOK
<1>8. CASE CommitArchiveTask(r)
  <2>1. \A t, row : tasks' = [tasks EXCEPT ![t] = row] => Len(tasks') = Len(tasks)
    BY DEF TypeOK
  <2> QED
    BY <1>1, <1>8, <2>1 DEF CommitArchiveTask, Added, TypeOK
<1>9. CASE CommitCarryOver(r)
  <2>1. \A t \in Added : \E f \in req[r].decisions.carry : tasks'[t] = Carried(f, req[r].wl)
    BY <1>9, CarryRows
  <2>2. req[r].decisions.carry \subseteq TaskIds
    BY <1>9 DEF CommitCarryOver, AllFresh, Fresh, PendingCarryOvers
  <2>3. 0 \notin TaskIds
    BY DEF TaskIds
  <2>4. ASSUME NEW t \in Added PROVE tasks'[t].from # 0
    <3>1. PICK f \in req[r].decisions.carry : tasks'[t] = Carried(f, req[r].wl)
      BY <2>1
    <3>2. tasks'[t].from = f
      BY <3>1 DEF Carried, NewTask
    <3> QED
      BY <2>2, <2>3, <3>2
  <2> QED
    BY <2>4 DEF NoDuplicates
<1> QED
  BY <1>2, <1>3, <1>4, <1>5, <1>6, <1>7, <1>8, <1>9
  DEF Writes, CommitLock, CommitUpdateWorklist, ArchiveWorklist

-----------------------------------------------------------------------------
(* Carrying over *)

ConsumesUnfinished ==
    \A t \in TaskIds :
        /\ Successors(t) # {} => Unfinished(t) /\ tasks'[t] = AsCarried(tasks[t])
        /\ tasks[t].status # "carried" /\ tasks'[t].status = "carried" /\ ~UnderEdit(t)
            => \E u \in Added : Successors(t) = {u}

LEMMA CarryingStep ==
    ASSUME SInv, NEW r \in Requests, Writes(r)
    PROVE  ConsumesUnfinished
<1> USE DEF SInv, IInv
<1>0. \A t \in TaskIds : tasks[t] \in TaskInstance /\ t # 0
  BY DEF TypeOK, TaskIds
<1>1. ASSUME \A t \in TaskIds : \/ tasks'[t].status = tasks[t].status
                                \/ UnderEdit(t),
             \A u \in Added : \/ tasks'[u].from = 0
                             \/ worklists'[tasks'[u].wl].parent = tasks[tasks'[u].from].wl
      PROVE  ConsumesUnfinished
  BY <1>0, <1>1 DEF ConsumesUnfinished, Successors
<1>2. ASSUME KeepsRows, \A u \in Added : tasks'[u].from = 0
      PROVE  ConsumesUnfinished
  BY <1>1, <1>2 DEF KeepsRows
<1>11. ASSUME UNCHANGED tasks PROVE ConsumesUnfinished
  BY <1>2, <1>11, NoTaskAdded
<1>3. ASSUME NEW w \in Nat, NEW S \in SUBSET Occurrences, InsertOccurrences(w, S)
      PROVE  ConsumesUnfinished
  <2>1. /\ KeepsRows
        /\ \A t \in Added : \E d \in S : tasks'[t] = NewTask(w, d[1], d[2], 0)
    BY <1>3, OccurrenceRows
  <2>2. ASSUME NEW t \in Added PROVE tasks'[t].from = 0
    <3>1. PICK d \in S : tasks'[t] = NewTask(w, d[1], d[2], 0)
      BY <2>1
    <3> QED
      BY <3>1 DEF NewTask
  <2> QED
    BY <1>2, <2>1, <2>2
<1>4. CASE CommitCreateWorklist(r)
  <2>1. Len(worklists) + 1 \in Nat /\ Due[req[r].week] \in SUBSET Occurrences
    BY <1>4, CreatedType
  <2> QED
    BY <1>3, <1>4, <2>1 DEF CommitCreateWorklist
<1>5. CASE CommitGenerate(r)
  <2>1. req[r].wl \in Nat /\ req[r].missing \subseteq Occurrences
    BY <1>5, RequestShapes DEF CommitGenerate, TypeOK
  <2> QED
    BY <1>3, <1>5, <2>1 DEF CommitGenerate
<1>6. CASE CommitAmend(r)
  <2> DEFINE parent == req[r].wl
             new == Len(worklists) + 1
             row == NewWorklist(worklists[parent].week, req[r].version, parent,
                                worklists[parent].name)
  <2>1. /\ parent \in WorklistIds
        /\ worklists' = Append(worklists, row)
        /\ KeepsRows
        /\ \A t \in Added : tasks'[t].wl = new /\ tasks[tasks'[t].from].wl = parent
    BY <1>6, AmendRows
  <2>2. /\ worklists[parent] \in Worklist
        /\ req[r].version \in Nat
        /\ parent \in Nat
    BY <1>6, <2>1, RequestShapes DEF TypeOK, WorklistIds, CommitAmend
  <2>3. row \in Worklist /\ row.parent = parent
    BY <2>2, NewWorklistType DEF Worklist, NewWorklist
  <2> HIDE DEF row
  <2>4. worklists'[new].parent = parent
    BY <2>1, <2>3, WorklistRowAppended
  <2> HIDE DEF new, parent
  <2> QED
    BY <1>1, <2>1, <2>4 DEF KeepsRows
<1>7. CASE CommitCreateTask(r)
  <2> DEFINE row == NewTask(req[r].wl, None, req[r].day, 0)
  <2>1. req[r].wl \in Nat /\ req[r].day \in Days \cup {None}
    BY <1>7, RequestShapes DEF CommitCreateTask, TypeOK
  <2>2. row \in TaskInstance /\ row.from = 0
    BY <2>1, NewTaskType DEF NewTask
  <2>3. tasks' = Append(tasks, row)
    BY <1>7 DEF CommitCreateTask
  <2> HIDE DEF row
  <2>4. KeepsRows /\ Added = {Len(tasks) + 1} /\ tasks'[Len(tasks) + 1] = row
    BY <2>2, <2>3, TaskRowAppended
  <2> QED
    BY <1>2, <2>2, <2>4
<1>8. CASE CommitUpdateTask(r)
  <2> DEFINE q == req[r]
             row == Edited(tasks[q.task], q)
  <2>1. q \in Request /\ q.op = "updateTask"
    BY <1>8 DEF TypeOK, CommitUpdateTask
  <2>2. q.task \in TaskIds
    BY <2>1 DEF ReferencesResolve, ReliedOn
  <2>3. row \in TaskInstance
    BY <1>0, <2>1, <2>2, EditedType
  <2>4. tasks' = [tasks EXCEPT ![q.task] = row]
    BY <1>8 DEF CommitUpdateTask
  <2>5. UnderEdit(q.task)
    BY <2>1 DEF UnderEdit
  <2> HIDE DEF row
  <2>6. Added = {} /\ \A u \in TaskIds : u # q.task => tasks'[u] = tasks[u]
    BY <2>2, <2>3, <2>4, TaskRowWritten
  <2> HIDE DEF q
  <2> QED
    BY <1>1, <2>5, <2>6
<1>9. CASE CommitArchiveTask(r)
  <2> DEFINE t == req[r].task
             row == [tasks[t] EXCEPT !.active = FALSE]
  <2>1. t \in TaskIds
    BY <1>9 DEF CommitArchiveTask, ReferencesResolve, ReliedOn
  <2>2. row \in TaskInstance /\ row.status = tasks[t].status
    BY <1>0, <2>1 DEF TaskInstance
  <2>3. tasks' = [tasks EXCEPT ![t] = row]
    BY <1>9 DEF CommitArchiveTask
  <2> HIDE DEF row, t
  <2>4. /\ Added = {}
        /\ tasks'[t] = row
        /\ \A u \in TaskIds : u # t => tasks'[u] = tasks[u]
    BY <2>1, <2>2, <2>3, TaskRowWritten
  <2> QED
    BY <1>1, <2>2, <2>4
<1>10. CASE CommitCarryOver(r)
  <2> DEFINE d == req[r].decisions
             w == req[r].wl
  <2>1. /\ \A t \in TaskIds : tasks'[t] = Settled(d)[t]
        /\ \A u \in Added : \E f \in d.carry : tasks'[u] = Carried(f, w)
        /\ \A f \in d.carry : \E u \in Added : tasks'[u] = Carried(f, w)
        /\ \A t, u \in Added : tasks'[t].from = tasks'[u].from => t = u
        /\ worklists' = worklists
    BY <1>10, CarryRows DEF CommitCarryOver
  <2>2. /\ d.carry \subseteq PendingCarryOvers(w)
        /\ d.carry \cap d.complete = {}
        /\ d.carry \cap d.discard = {}
        /\ w \in WorklistIds
    BY <1>10 DEF CommitCarryOver, AllFresh, Fresh, ReferencesResolve, ReliedOn
  <2> HIDE DEF d, w
  <2>3. \A f : Carried(f, w).from = f /\ Carried(f, w).wl = w
    BY DEF Carried, NewTask
  <2>4. ASSUME NEW t \in d.carry PROVE worklists[w].parent # tasks[t].wl
    <3>1. t \in TaskIds /\ Week(t) < worklists[w].week
      BY <2>2 DEF PendingCarryOvers
    <3>2. tasks[t].wl \in WorklistIds
      BY <3>1 DEF ReferencesResolve
    <3>3. /\ tasks[t].wl # 0
          /\ worklists[tasks[t].wl] \in Worklist
      BY <3>2 DEF WorklistIds, TypeOK
    <3>4. ASSUME worklists[w].parent = tasks[t].wl PROVE FALSE
      <4>1. worklists[tasks[t].wl].week = worklists[w].week
        BY <2>2, <3>3, <3>4 DEF AmendsLockedSnapshot
      <4>2. worklists[w].week \in Nat
        BY <3>3, <4>1 DEF Worklist
      <4> QED
        BY <3>1, <4>1, <4>2 DEF Week
    <3> QED
      BY <3>4
  <2>5. ASSUME NEW t \in d.carry
        PROVE  /\ t \in TaskIds
               /\ Unfinished(t)
               /\ tasks'[t] = AsCarried(tasks[t])
               /\ \E u \in Added : Successors(t) = {u}
    <3>1. t \in TaskIds /\ Unfinished(t)
      BY <2>2 DEF PendingCarryOvers
    <3>2. t \in d.carry \ (d.complete \cup d.discard)
      BY <2>2
    <3>3. tasks'[t] = AsCarried(tasks[t])
      BY <2>1, <3>1, <3>2, SettledFields
    <3>4. PICK u \in Added : tasks'[u] = Carried(t, w)
      BY <2>1
    <3>5. tasks'[u].from = t /\ worklists'[tasks'[u].wl].parent # tasks[t].wl
      BY <2>1, <2>3, <2>4, <3>4
    <3>6. Successors(t) = {u}
      BY <2>1, <3>5 DEF Successors
    <3> QED
      BY <3>1, <3>3, <3>6
  <2>6. ASSUME NEW t \in TaskIds, t \notin d.carry
        PROVE  /\ Successors(t) = {}
               /\ tasks[t].status # "carried" => tasks'[t].status # "carried"
    <3>1. Successors(t) = {}
      BY <2>1, <2>3, <2>6 DEF Successors
    <3>2. tasks'[t] \in {tasks[t], AsCompleted(tasks[t]), AsDiscarded(tasks[t])}
      BY <2>1, <2>6, SettledFields
    <3>3. /\ AsCompleted(tasks[t]).status = "done"
          /\ AsDiscarded(tasks[t]).status = "discarded"
      BY SettledFields
    <3> QED
      BY <3>1, <3>2, <3>3
  <2> QED
    BY <2>5, <2>6 DEF ConsumesUnfinished
<1> QED
  BY <1>11, <1>4, <1>5, <1>6, <1>7, <1>8, <1>9, <1>10
  DEF Writes, CommitLock, CommitUpdateWorklist, ArchiveWorklist

\* In Tk no generation adds an instance of an occurrence of which the worklist has
\* an active one.
THEOREM GenerationAddsMissing == Spec => GenerationIsIdempotent
<1>1. TInv /\ [Next]_vars => [program = "tk" => NoDuplicates]_vars
  <2> SUFFICES ASSUME SInv, Next PROVE NoDuplicates
    BY DEF TInv
  <2>1. Reads => Added = {}
    BY NoTaskAdded DEF Reads, SInv, IInv
  <2>2. Added = {} => NoDuplicates
    BY DEF NoDuplicates
  <2> QED
    BY <2>1, <2>2, ReadOrWrite, GenerationStep DEF Next
<1> QED
  BY <1>1, SerialInvariance, PTL DEF Spec, GenerationIsIdempotent, NoDuplicates

\* In Tk what is handed on to a later week was unfinished until that step, which
\* marks it carried, and what is marked carried is handed on once.
THEOREM CarryingConsumes == Spec => CarryConsumesUnfinished
<1>1. TInv /\ [Next]_vars => [program = "tk" => ConsumesUnfinished]_vars
  <2> SUFFICES ASSUME SInv, Next PROVE ConsumesUnfinished
    BY DEF TInv
  <2>1. ASSUME Reads PROVE ConsumesUnfinished
    <3>1. Added = {} /\ KeepsRows
      BY <2>1, NoTaskAdded DEF Reads, SInv, IInv
    <3> QED
      BY <3>1 DEF ConsumesUnfinished, Successors, KeepsRows
  <2> QED
    BY <2>1, ReadOrWrite, CarryingStep DEF Next
<1> QED
  BY <1>1, SerialInvariance, PTL DEF Spec, CarryConsumesUnfinished, ConsumesUnfinished

-----------------------------------------------------------------------------
(* Locked weeks *)

\* Of its own columns a locked worklist may only have its archival changed.
LockedRowsStand ==
    \A w \in WorklistIds : worklists[w].locked =>
        [worklists[w] EXCEPT !.active = FALSE] = [worklists'[w] EXCEPT !.active = FALSE]

\* A task is added to a worklist that is not locked: one that is new, or one in
\* which its handler found no lock.
AddedToUnlocked ==
    \A t \in Added : tasks'[t].wl \in WorklistIds => Unlocked(tasks'[t].wl)

\* A task changes in a worklist that is not locked, or it is settled.
ChangedOrSettled ==
    \A t \in TaskIds : tasks'[t] # tasks[t] =>
        \/ Unlocked(tasks[t].wl)
        \/ /\ Unfinished(t)
           /\ tasks'[t] \in {AsCarried(tasks[t]), AsCompleted(tasks[t]),
                             AsDiscarded(tasks[t])}

LEMMA RowsStand ==
    ASSUME SInv, NEW r \in Requests, Writes(r)
    PROVE  LockedRowsStand
<1> USE DEF SInv, IInv
<1>0. \A w \in WorklistIds : worklists[w] \in Worklist
  BY DEF TypeOK, WorklistIds
<1>1. ASSUME UNCHANGED worklists PROVE LockedRowsStand
  BY <1>1 DEF LockedRowsStand
<1>2. ASSUME NEW row \in Worklist, worklists' = Append(worklists, row)
      PROVE  LockedRowsStand
  BY <1>2, WorklistRowAppended DEF LockedRowsStand
<1>3. ASSUME NEW w \in WorklistIds, Unlocked(w), NEW row \in Worklist,
             worklists' = [worklists EXCEPT ![w] = row]
      PROVE  LockedRowsStand
  BY <1>3, WorklistRowWritten DEF LockedRowsStand, Unlocked
<1>4. CASE CommitCreateWorklist(r)
  <2> DEFINE row == NewWorklist(req[r].week, 1, 0, DefaultName)
  <2>1. row \in Worklist
    BY <1>4, NewWorklistType, RequestShapes DEF CommitCreateWorklist, TypeOK
  <2>2. worklists' = Append(worklists, row)
    BY <1>4 DEF CommitCreateWorklist
  <2> QED
    BY <1>2, <2>1, <2>2
<1>5. CASE CommitLock(r)
  <2> DEFINE w == req[r].wl
             row == [worklists[w] EXCEPT !.locked = TRUE]
  <2>1. w \in WorklistIds /\ Unlocked(w)
    BY <1>5 DEF CommitLock, ReferencesResolve, ReliedOn, AllFresh, Fresh
  <2>2. row \in Worklist
    BY <1>0, <2>1 DEF Worklist
  <2>3. worklists' = [worklists EXCEPT ![w] = row]
    BY <1>5 DEF CommitLock
  <2> QED
    BY <1>3, <2>1, <2>2, <2>3
<1>6. CASE CommitUpdateWorklist(r)
  <2> DEFINE w == req[r].wl
             row == [worklists[w] EXCEPT !.name = req[r].name]
  <2>1. w \in WorklistIds /\ Unlocked(w)
    BY <1>6 DEF CommitUpdateWorklist, ReferencesResolve, ReliedOn, AllFresh, Fresh
  <2>2. req[r].name \in Names
    BY <1>6, RequestShapes DEF CommitUpdateWorklist, TypeOK
  <2>3. row \in Worklist
    BY <1>0, <2>1, <2>2 DEF Worklist
  <2>4. worklists' = [worklists EXCEPT ![w] = row]
    BY <1>6 DEF CommitUpdateWorklist
  <2> QED
    BY <1>3, <2>1, <2>3, <2>4
<1>7. CASE CommitAmend(r)
  <2> DEFINE parent == req[r].wl
             row == NewWorklist(worklists[parent].week, req[r].version, parent,
                                worklists[parent].name)
  <2>1. /\ parent \in WorklistIds
        /\ worklists' = Append(worklists, row)
    BY <1>7, AmendRows
  <2>2. /\ worklists[parent] \in Worklist
        /\ req[r].version \in Nat
        /\ parent \in Nat
    BY <1>7, <2>1, RequestShapes DEF TypeOK, WorklistIds, CommitAmend
  <2>3. row \in Worklist
    BY <2>2, NewWorklistType DEF Worklist
  <2> QED
    BY <1>2, <2>1, <2>3
<1>8. ASSUME NEW w \in WorklistIds, ArchiveWorklist(r, w) PROVE LockedRowsStand
  <2> DEFINE row == [worklists[w] EXCEPT !.active = FALSE]
  <2>1. row \in Worklist
    BY <1>0 DEF Worklist
  <2>2. worklists' = [worklists EXCEPT ![w] = row]
    BY <1>8 DEF ArchiveWorklist
  <2>3. [worklists[w] EXCEPT !.active = FALSE] = [row EXCEPT !.active = FALSE]
    BY <1>0 DEF Worklist
  <2> HIDE DEF row
  <2>4. /\ worklists'[w] = row
        /\ \A v \in WorklistIds : v # w => worklists'[v] = worklists[v]
    BY <2>1, <2>2, WorklistRowWritten
  <2> QED
    BY <2>3, <2>4 DEF LockedRowsStand
<1> QED
  BY <1>1, <1>4, <1>5, <1>6, <1>7, <1>8
  DEF Writes, CommitGenerate, CommitCreateTask, CommitUpdateTask, CommitArchiveTask,
      CommitCarryOver

LEMMA TasksSettled ==
    ASSUME SInv, NEW r \in Requests, Writes(r)
    PROVE  AddedToUnlocked /\ ChangedOrSettled
<1> USE DEF SInv, IInv
<1>0. \A t \in TaskIds : tasks[t] \in TaskInstance
  BY DEF TypeOK, TaskIds
<1>1. Added = {} => AddedToUnlocked
  BY DEF AddedToUnlocked
<1>2. KeepsRows => ChangedOrSettled
  BY DEF KeepsRows, ChangedOrSettled
<1>3. ASSUME UNCHANGED tasks PROVE AddedToUnlocked /\ ChangedOrSettled
  BY <1>1, <1>2, <1>3, NoTaskAdded
<1>4. ASSUME NEW w \in Nat, w \in WorklistIds => Unlocked(w),
             NEW S \in SUBSET Occurrences, InsertOccurrences(w, S)
      PROVE  AddedToUnlocked /\ ChangedOrSettled
  <2>1. /\ KeepsRows
        /\ \A t \in Added : \E d \in S : tasks'[t] = NewTask(w, d[1], d[2], 0)
    BY <1>4, OccurrenceRows
  <2>2. ASSUME NEW t \in Added PROVE tasks'[t].wl = w
    <3>1. PICK d \in S : tasks'[t] = NewTask(w, d[1], d[2], 0)
      BY <2>1
    <3> QED
      BY <3>1 DEF NewTask
  <2> QED
    BY <1>2, <1>4, <2>1, <2>2 DEF AddedToUnlocked
<1>5. CASE CommitCreateWorklist(r)
  <2>1. /\ Len(worklists) + 1 \in Nat
        /\ Len(worklists) + 1 \notin WorklistIds
        /\ Due[req[r].week] \in SUBSET Occurrences
    BY <1>5, CreatedType
  <2> QED
    BY <1>4, <1>5, <2>1 DEF CommitCreateWorklist
<1>6. CASE CommitGenerate(r)
  <2>1. req[r].wl \in Nat /\ req[r].missing \subseteq Occurrences /\ Unlocked(req[r].wl)
    BY <1>6, RequestShapes DEF CommitGenerate, TypeOK, AllFresh, Fresh
  <2> QED
    BY <1>4, <1>6, <2>1 DEF CommitGenerate
<1>7. CASE CommitAmend(r)
  <2> DEFINE new == Len(worklists) + 1
  <2>1. KeepsRows /\ \A t \in Added : tasks'[t].wl = new
    BY <1>7, AmendRows
  <2>2. new \notin WorklistIds
    BY DEF TypeOK, WorklistIds
  <2> HIDE DEF new
  <2> QED
    BY <1>2, <2>1, <2>2 DEF AddedToUnlocked
<1>8. CASE CommitCreateTask(r)
  <2> DEFINE row == NewTask(req[r].wl, None, req[r].day, 0)
  <2>1. req[r].wl \in Nat /\ req[r].day \in Days \cup {None} /\ Unlocked(req[r].wl)
    BY <1>8, RequestShapes DEF CommitCreateTask, TypeOK, AllFresh, Fresh
  <2>2. row \in TaskInstance /\ row.wl = req[r].wl
    BY <2>1, NewTaskType DEF NewTask
  <2>3. tasks' = Append(tasks, row)
    BY <1>8 DEF CommitCreateTask
  <2> HIDE DEF row
  <2>4. KeepsRows /\ Added = {Len(tasks) + 1} /\ tasks'[Len(tasks) + 1] = row
    BY <2>2, <2>3, TaskRowAppended
  <2> QED
    BY <1>2, <2>1, <2>2, <2>4 DEF AddedToUnlocked
<1>9. ASSUME NEW t \in TaskIds, Unlocked(tasks[t].wl), NEW row \in TaskInstance,
             tasks' = [tasks EXCEPT ![t] = row]
      PROVE  AddedToUnlocked /\ ChangedOrSettled
  <2>1. Added = {} /\ \A u \in TaskIds : u # t => tasks'[u] = tasks[u]
    BY <1>9, TaskRowWritten
  <2> QED
    BY <1>1, <1>9, <2>1 DEF ChangedOrSettled
<1>10. CASE CommitUpdateTask(r)
  <2> DEFINE q == req[r]
             row == Edited(tasks[q.task], q)
  <2>1. q \in Request /\ q.op = "updateTask"
    BY <1>10 DEF TypeOK, CommitUpdateTask
  <2>2. q.task \in TaskIds /\ Unlocked(tasks[q.task].wl)
    BY <2>1 DEF ReferencesResolve, ReliedOn, AllFresh, Fresh
  <2>3. row \in TaskInstance
    BY <1>0, <2>1, <2>2, EditedType
  <2>4. tasks' = [tasks EXCEPT ![q.task] = row]
    BY <1>10 DEF CommitUpdateTask
  <2> QED
    BY <1>9, <2>2, <2>3, <2>4
<1>11. CASE CommitArchiveTask(r)
  <2> DEFINE t == req[r].task
             row == [tasks[t] EXCEPT !.active = FALSE]
  <2>1. t \in TaskIds /\ Unlocked(tasks[t].wl)
    BY <1>11 DEF CommitArchiveTask, ReferencesResolve, ReliedOn, AllFresh, Fresh
  <2>2. row \in TaskInstance
    BY <1>0, <2>1 DEF TaskInstance
  <2>3. tasks' = [tasks EXCEPT ![t] = row]
    BY <1>11 DEF CommitArchiveTask
  <2> QED
    BY <1>9, <2>1, <2>2, <2>3
<1>12. CASE CommitCarryOver(r)
  <2> DEFINE d == req[r].decisions
             w == req[r].wl
  <2>1. /\ \A t \in TaskIds : tasks'[t] = Settled(d)[t]
        /\ \A t \in Added : \E f \in d.carry : tasks'[t] = Carried(f, w)
    BY <1>12, CarryRows
  <2>2. /\ d.carry \cup d.complete \cup d.discard \subseteq PendingCarryOvers(w)
        /\ Unlocked(w)
    BY <1>12 DEF CommitCarryOver, AllFresh, Fresh
  <2> HIDE DEF d, w
  <2>3. ASSUME NEW t \in Added PROVE tasks'[t].wl = w
    <3>1. PICK f \in d.carry : tasks'[t] = Carried(f, w)
      BY <2>1
    <3> QED
      BY <3>1 DEF Carried, NewTask
  <2>4. AddedToUnlocked
    BY <2>2, <2>3 DEF AddedToUnlocked
  <2>5. ASSUME NEW t \in TaskIds, tasks'[t] # tasks[t]
        PROVE  /\ Unfinished(t)
               /\ tasks'[t] \in {AsCarried(tasks[t]), AsCompleted(tasks[t]),
                                 AsDiscarded(tasks[t])}
    <3>1. /\ Settled(d)[t] \in {tasks[t], AsCarried(tasks[t]), AsCompleted(tasks[t]),
                                AsDiscarded(tasks[t])}
          /\ t \notin d.carry \cup d.complete \cup d.discard => Settled(d)[t] = tasks[t]
      BY SettledFields
    <3>2. t \in PendingCarryOvers(w)
      BY <2>1, <2>2, <2>5, <3>1
    <3> QED
      BY <2>1, <2>5, <3>1, <3>2 DEF PendingCarryOvers
  <2>6. ChangedOrSettled
    BY <2>5 DEF ChangedOrSettled
  <2> QED
    BY <2>4, <2>6
<1> QED
  BY <1>3, <1>5, <1>6, <1>7, <1>8, <1>10, <1>11, <1>12
  DEF Writes, CommitLock, CommitUpdateWorklist, ArchiveWorklist

LockedStand ==
    \A w \in WorklistIds : worklists[w].locked =>
        /\ [worklists[w] EXCEPT !.active = FALSE]
             = [worklists'[w] EXCEPT !.active = FALSE]
        /\ \A t \in Added : tasks'[t].wl # w
        /\ \A t \in TaskIds : tasks[t].wl = w /\ tasks'[t] # tasks[t] =>
            /\ Unfinished(t)
            /\ tasks'[t] \in {AsCarried(tasks[t]), AsCompleted(tasks[t]),
                              AsDiscarded(tasks[t])}

\* In Tk a locked week takes no new task, and those it has change in one way
\* only: a carry-over settles one that was unfinished.
THEOREM LockedWeekStands == Spec => LockedOnlySettled
<1>1. TInv /\ [Next]_vars => [program = "tk" => LockedStand]_vars
  <2> SUFFICES ASSUME SInv, Next PROVE LockedStand
    BY DEF TInv
  <2>1. ASSUME LockedRowsStand, AddedToUnlocked, ChangedOrSettled
        PROVE  LockedStand
    BY <2>1 DEF LockedRowsStand, AddedToUnlocked, ChangedOrSettled, LockedStand, Unlocked
  <2>2. ASSUME Reads PROVE LockedStand
    <3>1. LockedRowsStand
      BY <2>2 DEF Reads, LockedRowsStand
    <3>2. Added = {} /\ KeepsRows
      BY <2>2, NoTaskAdded DEF Reads, SInv, IInv
    <3> QED
      BY <2>1, <3>1, <3>2 DEF AddedToUnlocked, ChangedOrSettled, KeepsRows
  <2> QED
    BY <2>1, <2>2, ReadOrWrite, RowsStand, TasksSettled DEF Next
<1> QED
  BY <1>1, SerialInvariance, PTL DEF Spec, LockedOnlySettled, LockedStand

=============================================================================
