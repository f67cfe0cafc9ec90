------------------------------ MODULE TaskLead ------------------------------
(***************************************************************************)
(* Who is assigned to a task, and who leads it (is_poic): create_task with *)
(* its assignees, add / update / delete an assignment, and the copies made *)
(* when a task is amended or carried over (app/routes/tasks.py,            *)
(* app/services/carry_over.py, app/routes/worklists.py, and the Tk         *)
(* program's app/tk/commands.py, which never picks a lead).                *)
(*                                                                         *)
(* The index ux_one_poic_per_instance backs the rule "one lead".  It is    *)
(* checked row by row in the order SQLAlchemy flushes: updates by primary  *)
(* key, then inserts.  Its WHERE clause (is_poic = 1) is given for SQLite  *)
(* only: on Postgres the index is over all the rows of a task.  A request  *)
(* whose flush it refuses is rolled back whole.                            *)
(*                                                                         *)
(* As in Worklists, Begin... reads and Commit writes.  The worklist's      *)
(* lock, which every handler checks first, is left to Worklists.           *)
(***************************************************************************)
EXTENDS Integers, Sequences, FiniteSets

CONSTANTS
    Requests,       \* slots for requests being served at the same time
    People,         \* persons on the roster
    External,       \* an off-roster name
    Nobody,         \* no lead picked
    PartialIndex,   \* whether the index has its WHERE clause
    MaxTasks,       \* bound on the tasks
    MaxRows         \* bound on the rows of task_assignments

ASSUME PartialIndexAssumption == PartialIndex \in BOOLEAN
ASSUME PeopleAssumption == {External, Nobody} \cap People = {}

VARIABLES
    rows,           \* rows of task_assignments, by id
    ntasks,         \* the tasks are 1 .. ntasks
    req             \* what each request slot is about to write

vars == <<rows, ntasks, req>>

RowIds == 1 .. Len(rows)
Tasks == 1 .. ntasks

Assignment == [task : Nat, who : People \cup {External}, poic : BOOLEAN,
               active : BOOLEAN]

Idle == [op |-> "idle"]

\* A write clears is_poic on the rows of demoted, sets it on those of promoted,
\* archives those of removed, and inserts new for the task (0: a task it
\* inserts as well, for the "copy" of the task src).
Write == [op : {"create", "reassign", "copy", "add", "update", "delete"},
          task : Nat, src : Nat,
          demoted : SUBSET Nat, promoted : SUBSET Nat, removed : SUBSET Nat,
          new : Seq([who : People \cup {External}, poic : BOOLEAN])]

\* A write of op to task t that changes nothing yet.
NoWrite(op, t) == [op |-> op, task |-> t, src |-> 0, demoted |-> {},
                   promoted |-> {}, removed |-> {}, new |-> <<>>]

Leads(t) == {i \in RowIds : rows[i].task = t /\ rows[i].poic}
ActiveRows(t) == {i \in RowIds : rows[i].task = t /\ rows[i].active}

\* Mutant: a new lead demotes nobody.
DemotesNobody(t) == {}

\* The leads that make room for a new one: only active rows are looked at.
PriorLeads(t) == Leads(t) \cap ActiveRows(t)

-----------------------------------------------------------------------------
(* The unique index *)

\* Mutant: the table has no such index.
NoIndex(q) == FALSE

\* A promoted row meets a lead that is not cleared, or only after it.
PromotionClashes(q) ==
    \E a \in q.promoted : \E i \in Leads(rows[a].task) \ {a} :
        ~ (i \in q.demoted /\ i < a)

\* An inserted lead meets one left standing, or one inserted with it.
InsertionClashes(q) ==
    \E i \in DOMAIN q.new : q.new[i].poic /\
        \/ Leads(q.task) \ q.demoted # {}
        \/ \E j \in DOMAIN q.new : j # i /\ q.new[j].poic

\* On Postgres any second row of a task clashes.
Clashes(q) ==
    IF PartialIndex
    THEN PromotionClashes(q) \/ InsertionClashes(q)
    ELSE /\ q.new # <<>>
         /\ Len(q.new) > 1 \/ \E i \in RowIds : rows[i].task = q.task

-----------------------------------------------------------------------------
(* Requests *)

Init ==
    /\ rows = <<>>
    /\ ntasks = 0
    /\ req = [r \in Requests |-> Idle]

\* The bounds leave room for what q inserts.
Room(q) ==
    /\ q.task = 0 => ntasks < MaxTasks
    /\ Len(rows) + Len(q.new) <= MaxRows

Begin(r, q) ==
    /\ req[r] = Idle
    /\ Room(q)
    /\ req' = [req EXCEPT ![r] = q]
    /\ UNCHANGED <<rows, ntasks>>

Finish(r) == req' = [req EXCEPT ![r] = Idle]

\* Rows for people, in the order of the form, led by lead if among them.
RowsFor(people, lead) ==
    [i \in DOMAIN people |-> [who |-> people[i], poic |-> people[i] = lead]]

\* Nobody picked and no external lead: the first person is the default.
DefaultLead(people, pick, ext) ==
    IF pick = Nobody /\ ~ext /\ people # <<>> THEN people[1] ELSE pick

\* The create form: people ticked, a lead picked from the whole roster, perhaps
\* an external lead.
BeginCreateTask(r, people, pick, ext) ==
    Begin(r, [NoWrite("create", 0) EXCEPT !.new =
                RowsFor(people, DefaultLead(people, pick, ext))
                \o IF ext THEN <<[who |-> External, poic |-> TRUE]>> ELSE <<>>])

\* "Reassign" in a carry-over: no default lead.  Tk's create_task is this with
\* pick = Nobody.
BeginReassign(r, people, pick) ==
    Begin(r, [NoWrite("reassign", 0) EXCEPT !.new = RowsFor(people, pick)])

CopyOf(i) == [who |-> rows[i].who, poic |-> rows[i].poic]

\* An amendment, or "carry" in a carry-over: the active assignments, by id.
BeginCopyTask(r, t) ==
    \E order \in [1 .. Cardinality(ActiveRows(t)) -> ActiveRows(t)] :
        /\ \A i, j \in DOMAIN order : i < j => order[i] < order[j]
        /\ Begin(r, [NoWrite("copy", 0) EXCEPT
                        !.src = t,
                        !.new = [i \in DOMAIN order |-> CopyOf(order[i])]])

\* Mutant: the lead is stood down whoever is added.
AddAlwaysDemotes(r, t, who, poic) ==
    Begin(r, [NoWrite("add", t) EXCEPT
                !.demoted = PriorLeads(t),
                !.new = <<[who |-> who, poic |-> poic]>>])

BeginAddAssignment(r, t, who, poic) ==
    Begin(r, [NoWrite("add", t) EXCEPT
                !.demoted = IF poic THEN PriorLeads(t) ELSE {},
                !.new = <<[who |-> who, poic |-> poic]>>])

\* The handler does not ask whether the row is active.
BeginUpdateAssignment(r, a, poic) ==
    LET q == NoWrite("update", rows[a].task) IN
    Begin(r, CASE poic /\ ~rows[a].poic ->
                    [q EXCEPT !.promoted = {a}, !.demoted = PriorLeads(rows[a].task)]
               [] ~poic /\ rows[a].poic -> [q EXCEPT !.demoted = {a}]
               [] OTHER -> q)

\* is_poic is left as it is.
BeginDeleteAssignment(r, a) ==
    Begin(r, [NoWrite("delete", rows[a].task) EXCEPT !.removed = {a}])

\* The row i as q leaves it.
Updated(i, q) ==
    [rows[i] EXCEPT !.poic   = (@ \/ i \in q.promoted) /\ i \notin q.demoted,
                    !.active = @ /\ i \notin q.removed]

Commit(r) ==
    LET q == req[r]
        t == IF q.task = 0 THEN ntasks + 1 ELSE q.task IN
    /\ q # Idle
    /\ ~Clashes(q)
    /\ Room(q)
    /\ rows' = [i \in RowIds |-> Updated(i, q)]
               \o [i \in DOMAIN q.new |->
                    [task |-> t, who |-> q.new[i].who, poic |-> q.new[i].poic,
                     active |-> TRUE]]
    /\ ntasks' = IF q.task = 0 THEN t ELSE ntasks
    /\ Finish(r)

\* The index refuses the flush, or the request dies before it.
Rollback(r) ==
    /\ req[r] # Idle
    /\ Finish(r)
    /\ UNCHANGED <<rows, ntasks>>

\* At most two people ticked, nobody twice.
People2 == {s \in UNION {[1 .. n -> People] : n \in 0 .. 2} :
                \A i, j \in DOMAIN s : s[i] = s[j] => i = j}

Next == \E r \in Requests :
    \/ \E people \in People2, pick \in People \cup {Nobody}, ext \in BOOLEAN :
            BeginCreateTask(r, people, pick, ext)
    \/ \E people \in People2, pick \in People \cup {Nobody} :
            BeginReassign(r, people, pick)
    \/ \E t \in Tasks : BeginCopyTask(r, t)
    \/ \E t \in Tasks, who \in People \cup {External}, poic \in BOOLEAN :
            BeginAddAssignment(r, t, who, poic)
    \/ \E a \in RowIds, poic \in BOOLEAN : BeginUpdateAssignment(r, a, poic)
    \/ \E a \in RowIds : BeginDeleteAssignment(r, a)
    \/ Commit(r)
    \/ Rollback(r)

Spec == Init /\ [][Next]_vars

-----------------------------------------------------------------------------
(* Properties *)

TypeOK ==
    /\ rows \in Seq(Assignment)
    /\ ntasks \in Nat
    /\ req \in [Requests -> {Idle} \cup Write]

\* However the requests of several operators interleave, a task never shows two
\* leads: what the handlers' own demotion misses, the index refuses.
OneLead ==
    \A t \in Tasks : \A i, j \in PriorLeads(t) : i = j

\* Going by the rows it was decided on, the index refuses a request only when it
\* brings two leads at once, promotes a row above (before) the lead it demotes,
\* or meets a lead that was removed from the task but still counts.
RefusedOnlyWhen ==
    [][\A r \in Requests : LET q == req'[r] IN
        req[r] = Idle /\ q # Idle /\ Clashes(q) =>
        \/ q.op = "create" /\ \E i, j \in DOMAIN q.new :
                                    i # j /\ q.new[i].poic /\ q.new[j].poic
        \/ q.op = "update" /\ \E a \in q.promoted, i \in q.demoted : a < i
        \/ q.op \in {"add", "update"} /\ Leads(q.task) \ ActiveRows(q.task) # {}]_vars

\* However requests interleave, a task that shows a lead goes on showing one
\* until the lead is stood down or removed: handing the lead to somebody else
\* never leaves it with nobody, save when the new lead's row had been removed.
LeadHandedOver ==
    [][\A t \in Tasks : PriorLeads(t) # {} /\ PriorLeads(t)' = {} =>
        \E r \in Requests : LET q == req[r] IN
            /\ req'[r] # q
            /\ q.task = t
            /\ \/ q.op = "delete" /\ q.removed \cap PriorLeads(t) # {}
               \/ q.op = "update" /\ q.promoted = {}
               \/ q.op = "update" /\ \E a \in q.promoted : ~rows[a].active]_vars

\* tasks.py: "person_ids (multi) - assignees from the roster".
SeveralAssigneesAccepted ==
    \A r \in Requests :
        /\ req[r] # Idle
        /\ req[r].op = "create"
        /\ \A i, j \in DOMAIN req[r].new :
                req[r].new[i].poic /\ req[r].new[j].poic => i = j
        => ~Clashes(req[r])

=============================================================================
