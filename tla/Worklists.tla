----------------------------- MODULE Worklists -----------------------------
(***************************************************************************)
(* Weekly worklists, their task instances, and the operations on them:     *)
(* create / generate / lock / amend / rename / archive a worklist, create  *)
(* / update / archive a task, and carry unfinished tasks into a later      *)
(* week (app/routes/worklists.py, app/routes/tasks.py, app/tk/commands.py, *)
(* app/services/carry_over.py, app/services/task_generator.py).            *)
(*                                                                         *)
(* A handler reads rows and decides (its guards), then writes in one       *)
(* transaction.  SQLite begins that transaction at the first write, so     *)
(* what the handler read before may be stale when it writes; on Postgres   *)
(* (READ COMMITTED) so may what it reads between its writes.  Every        *)
(* handler is therefore two actions: Begin... reads and keeps what it read *)
(* in req[r], Commit... writes; amend_worklist reads twice and is three.   *)
(*                                                                         *)
(* Two programs run these handlers.  In Tk they are commands of one thread *)
(* and follow each other; in the hosted one (a thread pool in each of four *)
(* uvicorn workers) they interleave.                                       *)
(*                                                                         *)
(* The ORM writes only the columns whose value it changed, relative to the *)
(* row it read: Written says so.                                           *)
(*                                                                         *)
(* Assignments of people to tasks are left to module TaskLead.             *)
(***************************************************************************)
EXTENDS Integers, Sequences

CONSTANTS
    Requests,       \* slots for requests being served at the same time
    Weeks,          \* the Mondays, as numbers
    Days,           \* offsets of a day from its Monday; 0 is the Monday
    Templates,      \* active task templates with a recurrence rule
    Due,            \* by week: the <<template, day>> that the rules yield
    Names,          \* worklist names
    DefaultName,    \* the "Week N Month YYYY" label
    FormDays,       \* days (or None) a task form may send
    FormStatuses,   \* statuses a task form may send
    MaxWorklists,   \* by program: bound on the rows of worklists
    MaxTasks,       \* by program: bound on the rows of task_instances
    None            \* SQL NULL

ASSUME WeeksAssumption == Weeks \subseteq Nat
ASSUME DaysAssumption == Days \subseteq Nat /\ 0 \in Days

Occurrences == Templates \X Days
ASSUME DueAssumption == Due \in [Weeks -> SUBSET Occurrences]
ASSUME FormDaysAssumption == FormDays \subseteq Days \cup {None}
ASSUME NamesAssumption == DefaultName \in Names

Programs == {"tk", "hosted"}
ASSUME BoundsAssumption ==
    MaxWorklists \in [Programs -> Nat] /\ MaxTasks \in [Programs -> Nat]

VARIABLES
    program,        \* which of the two it is
    worklists,      \* rows of worklists, by id
    tasks,          \* rows of task_instances, by id
    req             \* what each request slot has read so far

vars == <<program, worklists, tasks, req>>

Statuses == {"open", "in_progress", "done", "discarded", "carried"}
ASSUME FormStatusesAssumption == FormStatuses \subseteq Statuses

\* A null foreign key is 0: ids start at 1.
Worklist == [week : Weeks, version : Nat, parent : Nat, name : Names,
             locked : BOOLEAN, active : BOOLEAN]

\* done says that completed_at is set; from is carried_from_instance_id.
TaskInstance == [wl : Nat, tpl : Templates \cup {None},
                 day : Days \cup {None}, status : Statuses, done : BOOLEAN,
                 active : BOOLEAN, from : Nat]

Idle == [op |-> "idle"]

\* The tasks each carry-over action is chosen for.  A task left out is one for
\* which "leave" was; "reassign" differs from "carry" in the assignees only.
Decisions == [carry : SUBSET Nat, complete : SUBSET Nat, discard : SUBSET Nat]

Request ==
    {Idle}
    \cup [op : {"create"}, week : Weeks]
    \cup [op : {"generate"}, wl : Nat, missing : SUBSET Occurrences]
    \cup [op : {"lock"}, wl : Nat]
    \cup [op : {"rename"}, wl : Nat, name : Names]
    \cup [op : {"amend"}, wl : Nat, version : Nat]
    \cup [op : {"copy"}, wl : Nat, version : Nat, copies : Seq(TaskInstance)]
    \cup [op : {"createTask"}, wl : Nat, day : FormDays]
    \cup [op : {"updateTask"}, task : Nat, read : TaskInstance,
          status : FormStatuses, day : FormDays]
    \cup [op : {"archiveTask"}, task : Nat]
    \cup [op : {"carryOver"}, wl : Nat, decisions : Decisions]

-----------------------------------------------------------------------------
(* Queries *)

WorklistIds == 1 .. Len(worklists)
TaskIds == 1 .. Len(tasks)
Week(t) == worklists[tasks[t].wl].week
Unlocked(w) == ~worklists[w].locked

\* The active base worklists of a week: create_worklist looks for one.
ActiveBases(week) ==
    {w \in WorklistIds : /\ worklists[w].week = week
                         /\ worklists[w].active
                         /\ worklists[w].parent = 0}

\* Mutant: the generator does not look for what is there.
MissingIgnoresExisting(w) == Due[worklists[w].week]

\* The occurrences generate_for_worklist finds no active instance for.
Missing(w) ==
    {d \in Due[worklists[w].week] :
        \A t \in TaskIds : ~ /\ tasks[t].wl = w
                             /\ tasks[t].active
                             /\ tasks[t].tpl = d[1]
                             /\ tasks[t].day = d[2]}

Unfinished(t) == tasks[t].active /\ tasks[t].status \in {"open", "in_progress"}

\* Mutant: tasks of the target's own week are offered too.
PendingOffersSameWeek(w) ==
    {t \in TaskIds : /\ Unfinished(t)
                     /\ tasks[t].wl # w
                     /\ Week(t) <= worklists[w].week}

\* Mutant: removed tasks are offered too.
PendingOffersRemoved(w) ==
    {t \in TaskIds : /\ tasks[t].status \in {"open", "in_progress"}
                     /\ tasks[t].wl # w
                     /\ Week(t) < worklists[w].week}

\* find_pending_carry_overs: neither the lock nor the archival of the source
\* worklist, nor its having been amended, is looked at.
PendingCarryOvers(w) ==
    {t \in TaskIds : /\ Unfinished(t)
                     /\ tasks[t].wl # w
                     /\ Week(t) < worklists[w].week}

ActiveTasks(w) == {t \in TaskIds : tasks[t].wl = w /\ tasks[t].active}

\* Mutant: the next version is counted from the amended worklist alone.
VersionOfParentOnly(w) == {worklists[w].version}

\* The versions amend_worklist takes the highest of.
FamilyVersions(w) ==
    {worklists[v].version :
        v \in {x \in WorklistIds : x = w \/ worklists[x].parent = w}}

-----------------------------------------------------------------------------
(* Rows a transaction writes *)

\* A column keeps what is stored unless the handler changed what it had read.
Written(stored, was, now) == IF now = was THEN stored ELSE now

\* S laid out as a sequence of n rows, each once; none unless n = |S|.
Listings(S, n) ==
    {f \in [1 .. n -> S] : /\ \A i, j \in 1 .. n : f[i] = f[j] => i = j
                           /\ \A x \in S : \E i \in 1 .. n : f[i] = x}

\* Listings in the order of the ids.
InIdOrder(S, n) ==
    {f \in Listings(S, n) : \A i, j \in 1 .. n : i < j => f[i] < f[j]}

NewTask(w, tpl, day, from) ==
    [wl |-> w, tpl |-> tpl, day |-> day, status |-> "open", done |-> FALSE,
     active |-> TRUE, from |-> from]

NewWorklist(week, version, parent, name) ==
    [week |-> week, version |-> version, parent |-> parent, name |-> name,
     locked |-> FALSE, active |-> TRUE]

TaskRoom == 0 .. (MaxTasks[program] - Len(tasks))

\* One instance for each occurrence, in the order the templates come in.
InsertOccurrences(w, S) ==
    \E n \in TaskRoom : \E occ \in Listings(S, n) :
        tasks' = tasks \o [i \in 1 .. n |-> NewTask(w, occ[i][1], occ[i][2], 0)]

-----------------------------------------------------------------------------
(* Requests *)

Init ==
    /\ program \in Programs
    /\ worklists = <<>>
    /\ tasks = <<>>
    /\ req = [r \in Requests |-> Idle]

\* A slot is free; in Tk one command ends before the next begins.
Free(r) ==
    /\ req[r] = Idle
    /\ program = "tk" => \A s \in Requests : req[s] = Idle

\* What has been read is kept for the request's next step.
Hold(r, request) ==
    /\ req' = [req EXCEPT ![r] = request]
    /\ UNCHANGED <<program, worklists, tasks>>

Begin(r, request) == Free(r) /\ Hold(r, request)

Finish(r) ==
    /\ req' = [req EXCEPT ![r] = Idle]
    /\ UNCHANGED program

\* A request dies before its transaction commits: nothing is written.
Abort(r) ==
    /\ req[r] # Idle
    /\ Finish(r)
    /\ UNCHANGED <<worklists, tasks>>

-----------------------------------------------------------------------------
(* Worklist handlers *)

\* Mutant: no look for an existing base.
CreateWithoutFind(r, week) == Begin(r, [op |-> "create", week |-> week])

\* An existing active base is returned unchanged: no request then.
BeginCreateWorklist(r, week) ==
    /\ ActiveBases(week) = {}
    /\ Begin(r, [op |-> "create", week |-> week])

\* The generator runs in the transaction that inserts the row.
CommitCreateWorklist(r) ==
    LET w == Len(worklists) + 1 IN
    /\ req[r].op = "create"
    /\ w <= MaxWorklists[program]
    /\ worklists' = Append(worklists, NewWorklist(req[r].week, 1, 0, DefaultName))
    /\ InsertOccurrences(w, Due[req[r].week])
    /\ Finish(r)

BeginGenerate(r, w) ==
    /\ Unlocked(w)
    /\ Begin(r, [op |-> "generate", wl |-> w, missing |-> Missing(w)])

CommitGenerate(r) ==
    /\ req[r].op = "generate"
    /\ InsertOccurrences(req[r].wl, req[r].missing)
    /\ Finish(r)
    /\ UNCHANGED worklists

BeginLock(r, w) ==
    /\ Unlocked(w)
    /\ Begin(r, [op |-> "lock", wl |-> w])

\* Mutant: the lock is a toggle.
CommitLockToggles(r) ==
    /\ req[r].op = "lock"
    /\ worklists' = [worklists EXCEPT ![req[r].wl].locked = ~@]
    /\ Finish(r)
    /\ UNCHANGED tasks

CommitLock(r) ==
    /\ req[r].op = "lock"
    /\ worklists' = [worklists EXCEPT ![req[r].wl].locked = TRUE]
    /\ Finish(r)
    /\ UNCHANGED tasks

BeginUpdateWorklist(r, w, name) ==
    /\ Unlocked(w)
    /\ Begin(r, [op |-> "rename", wl |-> w, name |-> name])

CommitUpdateWorklist(r) ==
    /\ req[r].op = "rename"
    /\ worklists' = [worklists EXCEPT ![req[r].wl].name = req[r].name]
    /\ Finish(r)
    /\ UNCHANGED tasks

\* Mutant: any worklist may be amended.
BeginAmendUnguarded(r, w) ==
    \E v \in FamilyVersions(w) :
        /\ \A u \in FamilyVersions(w) : u <= v
        /\ Begin(r, [op |-> "amend", wl |-> w, version |-> v + 1])

BeginAmend(r, w) ==
    /\ worklists[w].locked
    /\ \E v \in FamilyVersions(w) :
        /\ \A u \in FamilyVersions(w) : u <= v
        /\ Begin(r, [op |-> "amend", wl |-> w, version |-> v + 1])

CopyOf(t) == [tasks[t] EXCEPT !.from = t]

\* The tasks are read once the clone is inserted, and copied as they were read:
\* on SQLite the insert keeps other writers out, on Postgres it does not.
ReadAmended(r) ==
    LET q == req[r] IN
    /\ q.op = "amend"
    /\ \E n \in 0 .. Len(tasks) : \E src \in InIdOrder(ActiveTasks(q.wl), n) :
        Hold(r, [op |-> "copy", wl |-> q.wl, version |-> q.version,
                 copies |-> [i \in 1 .. n |-> CopyOf(src[i])]])

CommitAmend(r) ==
    LET q     == req[r]
        clone == Len(worklists) + 1 IN
    /\ q.op = "copy"
    /\ clone <= MaxWorklists[program]
    /\ Len(q.copies) \in TaskRoom
    /\ worklists' = Append(worklists,
            NewWorklist(worklists[q.wl].week, q.version, q.wl, worklists[q.wl].name))
    /\ tasks' = tasks \o [i \in 1 .. Len(q.copies) |-> [q.copies[i] EXCEPT !.wl = clone]]
    /\ Finish(r)

\* Reads nothing it writes from, so it needs no separate commit.
ArchiveWorklist(r, w) ==
    /\ Free(r)
    /\ worklists' = [worklists EXCEPT ![w].active = FALSE]
    /\ UNCHANGED <<program, tasks, req>>

-----------------------------------------------------------------------------
(* Task handlers: each refuses a locked worklist *)

BeginCreateTask(r, w, day) ==
    /\ Unlocked(w)
    /\ Begin(r, [op |-> "createTask", wl |-> w, day |-> day])

CommitCreateTask(r) ==
    /\ req[r].op = "createTask"
    /\ Len(tasks) < MaxTasks[program]
    /\ tasks' = Append(tasks, NewTask(req[r].wl, None, req[r].day, 0))
    /\ Finish(r)
    /\ UNCHANGED worklists

\* Mutant: _ensure_unlocked is forgotten.
BeginUpdateTaskUnguarded(r, t, status, day) ==
    Begin(r, [op |-> "updateTask", task |-> t, read |-> tasks[t],
              status |-> status, day |-> day])

BeginUpdateTask(r, t, status, day) ==
    /\ Unlocked(tasks[t].wl)
    /\ Begin(r, [op |-> "updateTask", task |-> t, read |-> tasks[t],
                 status |-> status, day |-> day])

\* completed_at is stamped by "done" and cleared by any other status.
Edited(task, q) ==
    [task EXCEPT !.status = Written(task.status, q.read.status, q.status),
                 !.day    = Written(task.day, q.read.day, q.day),
                 !.done   = Written(task.done, q.read.done, q.status = "done")]

CommitUpdateTask(r) ==
    LET q == req[r] IN
    /\ q.op = "updateTask"
    /\ tasks' = [tasks EXCEPT ![q.task] = Edited(tasks[q.task], q)]
    /\ Finish(r)
    /\ UNCHANGED worklists

BeginArchiveTask(r, t) ==
    /\ Unlocked(tasks[t].wl)
    /\ Begin(r, [op |-> "archiveTask", task |-> t])

CommitArchiveTask(r) ==
    /\ req[r].op = "archiveTask"
    /\ tasks' = [tasks EXCEPT ![req[r].task].active = FALSE]
    /\ Finish(r)
    /\ UNCHANGED worklists

-----------------------------------------------------------------------------
(* Carry-over *)

\* With every task left, the commit writes nothing: no request then.
BeginCarryOver(r, w, carry, complete, discard) ==
    /\ Unlocked(w)
    /\ carry \cup complete \cup discard # {}
    /\ carry \cap complete = {}
    /\ (carry \cup complete) \cap discard = {}
    /\ Begin(r, [op |-> "carryOver", wl |-> w,
                 decisions |-> [carry |-> carry, complete |-> complete,
                                discard |-> discard]])

\* Mutant: completing by carry-over leaves completed_at empty.
AsCompletedUnstamped(task) == [task EXCEPT !.status = "done"]

\* The originals as apply_carry_over leaves them.
AsCarried(task) == [task EXCEPT !.status = "carried"]
AsCompleted(task) == [task EXCEPT !.status = "done", !.done = TRUE]
AsDiscarded(task) == [task EXCEPT !.status = "discarded"]

Settled(d) ==
    [t \in TaskIds |-> CASE t \in d.carry    -> AsCarried(tasks[t])
                         [] t \in d.complete -> AsCompleted(tasks[t])
                         [] t \in d.discard  -> AsDiscarded(tasks[t])
                         [] OTHER            -> tasks[t]]

Carried(t, w) == NewTask(w, tasks[t].tpl, 0, t)

CommitCarryOver(r) ==
    LET q == req[r] IN
    /\ q.op = "carryOver"
    /\ \E n \in TaskRoom : \E src \in Listings(q.decisions.carry, n) :
        tasks' = Settled(q.decisions) \o [i \in 1 .. n |-> Carried(src[i], q.wl)]
    /\ Finish(r)
    /\ UNCHANGED worklists

-----------------------------------------------------------------------------
(* The specification *)

WorklistStep(r) ==
    \/ \E week \in Weeks : BeginCreateWorklist(r, week)
    \/ CommitCreateWorklist(r)
    \/ \E w \in WorklistIds : BeginGenerate(r, w)
    \/ CommitGenerate(r)
    \/ \E w \in WorklistIds : BeginLock(r, w)
    \/ CommitLock(r)
    \/ \E w \in WorklistIds, name \in Names : BeginUpdateWorklist(r, w, name)
    \/ CommitUpdateWorklist(r)
    \/ \E w \in WorklistIds : BeginAmend(r, w)
    \/ ReadAmended(r)
    \/ CommitAmend(r)
    \/ \E w \in WorklistIds : ArchiveWorklist(r, w)

TaskStep(r) ==
    \/ \E w \in WorklistIds, day \in FormDays : BeginCreateTask(r, w, day)
    \/ CommitCreateTask(r)
    \/ \E t \in TaskIds, status \in FormStatuses, day \in FormDays :
            BeginUpdateTask(r, t, status, day)
    \/ CommitUpdateTask(r)
    \/ \E t \in TaskIds : BeginArchiveTask(r, t)
    \/ CommitArchiveTask(r)

CarryStep(r) ==
    \/ \E w \in WorklistIds :
        \E carry, complete, discard \in SUBSET PendingCarryOvers(w) :
            BeginCarryOver(r, w, carry, complete, discard)
    \/ CommitCarryOver(r)

Next == \E r \in Requests : WorklistStep(r) \/ TaskStep(r) \/ CarryStep(r) \/ Abort(r)

Spec == Init /\ [][Next]_vars

-----------------------------------------------------------------------------
(* Properties *)

\* Rows and pending requests have the shape the schema and handlers give them.
TypeOK ==
    /\ program \in Programs
    /\ worklists \in Seq(Worklist)
    /\ tasks \in Seq(TaskInstance)
    /\ req \in [Requests -> Request]

\* A task points back (carried_from_instance_id) only at an older task, which
\* belongs to an earlier week or to the locked worklist its own amends: chains
\* of carry-overs and amendments never loop and never run backwards in time.
CarriesForward ==
    \A t \in TaskIds : LET f == tasks[t].from IN f # 0 =>
        /\ f < t
        /\ \/ Week(f) < Week(t)
           \/ worklists[tasks[t].wl].parent = tasks[f].wl

\* A worklist with a parent was cut from a worklist that is locked, of the same
\* week and of a lower version: whatever interleaves with amend_worklist, the
\* original of an amendment is frozen.
AmendsLockedSnapshot ==
    \A w \in WorklistIds : LET p == worklists[w].parent IN p # 0 =>
        /\ p < w
        /\ worklists[p].locked
        /\ worklists[p].week = worklists[w].week
        /\ worklists[p].version < worklists[w].version

\* What the handler of a pending request has read, and depends on at commit.
ReliedOn(q) ==
    /\ q.op \in {"generate", "lock", "rename", "amend", "copy", "createTask", "carryOver"}
            => q.wl \in WorklistIds
    /\ q.op \in {"updateTask", "archiveTask"} => q.task \in TaskIds
    /\ q.op \in {"amend", "copy"} => /\ worklists[q.wl].locked
                                    /\ worklists[q.wl].version < q.version
    /\ q.op = "copy" => \A i \in DOMAIN q.copies : LET f == q.copies[i].from IN
                            f \in TaskIds /\ tasks[f].wl = q.wl
    /\ q.op = "carryOver" =>
        \A t \in q.decisions.carry \cup q.decisions.complete \cup q.decisions.discard :
            /\ t \in TaskIds
            /\ Week(t) < worklists[q.wl].week

\* Foreign keys resolve, and what a pending request relies on cannot be undone
\* by another request before it commits: the worklist or task is there, the
\* amended worklist is still locked and below the new version, what is copied is
\* a task of it, the tasks to be carried are of earlier weeks.
ReferencesResolve ==
    /\ \A t \in TaskIds : tasks[t].wl \in WorklistIds
    /\ \A r \in Requests : ReliedOn(req[r])

\* In Tk, create_worklist finds before it creates: a week has one active base.
OneBasePerWeek ==
    program = "tk" => \A week \in Weeks : \A v, w \in ActiveBases(week) : v = w

\* In Tk, the amendments of one worklist and the worklist itself carry distinct
\* version numbers (amend_worklist takes the highest plus one); another base of
\* the week starts at 1 again.
VersionsDistinct ==
    program = "tk" => \A v, w \in WorklistIds :
        /\ v # w
        /\ worklists[w].parent \in {v, worklists[v].parent} \ {0}
        => worklists[v].version # worklists[w].version

\* In Tk, completed_at is set exactly on the tasks that are done, through edits,
\* carry-over decisions and amendments alike.
CompletedIffDone ==
    program = "tk" => \A t \in TaskIds : tasks[t].done <=> tasks[t].status = "done"

\* The tasks a step adds.
Added == (Len(tasks) + 1) .. Len(tasks')

\* Rows are only added; the columns that place a row in the history never
\* change, and a lock is never lifted.
KeepsHistory ==
    /\ Len(worklists) <= Len(worklists')
    /\ Len(tasks) <= Len(tasks')
    /\ \A w \in WorklistIds :
        /\ worklists'[w].week = worklists[w].week
        /\ worklists'[w].version = worklists[w].version
        /\ worklists'[w].parent = worklists[w].parent
        /\ worklists[w].locked => worklists'[w].locked
    /\ \A t \in TaskIds :
        /\ tasks'[t].wl = tasks[t].wl
        /\ tasks'[t].from = tasks[t].from

\* Whatever the handlers do, in any interleaving, they keep the history.
HistoryIsKept == [][KeepsHistory]_vars

\* "Re-run ... safely ... without producing duplicates": in Tk no generation adds
\* an instance of an occurrence the worklist already has an active instance of.
GenerationIsIdempotent ==
    [][program = "tk" => \A t \in Added :
        /\ tasks'[t].from = 0
        /\ tasks'[t].tpl # None
        => \A u \in 1 .. Len(tasks') :
            /\ u # t
            /\ tasks'[u].active
            /\ tasks'[u].wl = tasks'[t].wl
            /\ tasks'[u].tpl = tasks'[t].tpl
            => tasks'[u].day # tasks'[t].day]_vars

\* The tasks a carry-over adds for t; those an amendment copies are of a worklist
\* whose parent is t's.
Successors(t) ==
    {u \in Added : tasks'[u].from = t /\ worklists'[tasks'[u].wl].parent # tasks[t].wl}

UnderEdit(t) == \E r \in Requests : req[r].op = "updateTask" /\ req[r].task = t

\* In Tk a task is handed on exactly when it is marked carried (unless somebody
\* sends that status in the edit form): what gets a successor in a later week was
\* unfinished until that step, which marks it and nothing else of it, and what is
\* marked gets one successor.  Handing it on again therefore takes somebody to
\* reopen it.  A task and its copy in an amendment are two tasks.
CarryConsumesUnfinished ==
    [][program = "tk" => \A t \in TaskIds :
        /\ Successors(t) # {} => Unfinished(t) /\ tasks'[t] = AsCarried(tasks[t])
        /\ tasks[t].status # "carried" /\ tasks'[t].status = "carried" /\ ~UnderEdit(t)
            => \E u \in Added : Successors(t) = {u}]_vars

\* What holds in Tk of locked weeks: they take no new task, and the tasks they
\* have change in one way only: carry-over settles one that was unfinished.  Their
\* own row may still be archived.
LockedOnlySettled ==
    [][program = "tk" => \A w \in WorklistIds : worklists[w].locked =>
        /\ [worklists[w] EXCEPT !.active = FALSE]
             = [worklists'[w] EXCEPT !.active = FALSE]
        /\ \A t \in Added : tasks'[t].wl # w
        /\ \A t \in TaskIds : tasks[t].wl = w /\ tasks'[t] # tasks[t] =>
            /\ Unfinished(t)
            /\ tasks'[t] \in {AsCarried(tasks[t]), AsCompleted(tasks[t]),
                              AsDiscarded(tasks[t])}]_vars

\* "Locked weeks are immutable" (README.md): no task of a locked worklist ever
\* changes.  Violated: apply_carry_over settles tasks of weeks that are locked.
LockedImmutable ==
    [][\A t \in TaskIds : worklists[tasks[t].wl].locked => tasks'[t] = tasks[t]]_vars

=============================================================================
