# A formal model of tbdtask

tbdtask tracks the people of a small unit and the weekly worklists they work
off.  One set of SQLAlchemy models and services carries two programs: a hosted
FastAPI application (several organizations, sign-in, workcenters, an audit
trail) and an offline Tk front-end for one machine and one organization.  This
directory holds TLA+ modules that model the parts whose correctness is a
matter of order and state, the TLC configurations that check them, and proofs
for TLAPS.

## 1. The system

Paths are relative to `src/app/`.

| Component | State | Operations | Interacts with | What is hard | What makes it correct |
|---|---|---|---|---|---|
| Worklists, tasks, carry-over (`routes/worklists.py`, `routes/tasks.py`, `services/carry_over.py`, `services/task_generator.py`, `tk/commands.py`) | `worklists`, `task_instances` | create or find the week's worklist, generate, lock, amend, rename, archive; create, edit, archive a task; carry unfinished tasks into a later week | recurrence says what to generate; alerts count what is left to carry | two operators on the same week; lock, amend, archive in any order | one base per week, frozen originals, no occurrence generated twice, a task handed on exactly when it is marked carried, chains that run forward |
| Task assignments (`routes/tasks.py`, `models.py`) | `task_assignments` and a partial unique index | create with assignees, add, update, delete; copied by amend and carry-over | worklists' locks | flush order against an index checked row by row; two leads at once | one lead; handing it on never loses it; when the index may refuse |
| Personnel histories (`services/effective.py`, `routes/personnel.py`, `tk/commands.py`) | `persons` and five effective-dated tables | create, expected arrival, edit, mark arrived, archive | alerts read and write them | edits dated in the past or the future; two edits at once | one current row, rows chained, prior values kept |
| Alerts (`services/alerts.py`, `routes/alerts.py`, `routes/home.py`) | `alerts` | recompute; dismiss, resolve, snooze, extend the departure date, archive the person | personnel, qualifications, carry-over | acting on an alert of an old page; recomputing in the transaction that changes the data | the queue is what holds; each condition once |
| Organizations, members, sessions (`routes/onboarding.py`, `routes/admin.py`, `routes/auth.py`, `auth/sessions.py`, `auth/invites.py`, `middleware.py`) | `organizations`, `memberships`, `membership_roles`, `org_invites`, `user_sessions`, the browsers' cookies | create, pick, join, leave, delete; invite, grant, revoke, suspend, kick, restore; login, link, logout | every handler depends on the session and its binding | two owners parting at once; rotation; paths that never commit | an owner is left, members were invited, who is out is logged out |
| Workcenters, roles (`routes/admin.py`, `auth/authorization.py`, `auth/permissions.py`) | a tree of workcenters, roles with their permissions, grants org-wide or for a workcenter | create, re-parent, archive; create, edit, archive a role; grant, revoke; the permission check | memberships; every page is gated by the check | two re-parentings at once; a role archived while it is granted; revoking one's way out | no cycles; a grant covers its subtree and nothing else; somebody can administer |
| Accounts (`auth/accounts.py`) | `users`, `oauth_accounts` | resolve an identity, link one | sessions | two first logins at once | one account per identity (its unique index) |
| Rate limiting (`auth/rate_limit.py`, `middleware.py`) | a counter per key, in each worker or in Redis | check | the middleware of the sign-in paths | bursts over the end of a window; a time to live that every hit renews; several workers | each counter is the limiter it promises to be; bursts are bounded; who is kept out gets in again |
| Recurrence, templates, the week's pages (`services/recurrence.py`, `routes/templates.py`, `routes/today.py`, `services/worklist_view.py`, `tk/queries.py`) | `task_templates`; what is read of `task_instances` | save or archive a template; the dates of a rule in a window; day page, week view, printed grid | the generator; worklists and amendments | month ends, missing anchors; a page that announces what a generator adds, each from rows of its own; tasks without a day, or moved to another week | the evaluator agrees with what rules mean; what the day page announces is what generating adds; no task on no page |
| Qualifications (`routes/quals.py`, `services/qual_overview.py`, `tk/commands.py`) | `qualifications`, `person_quals` | assign, update; overview, catalog and matrix | alerts, suggestions | a form left open; deadlines that one program keeps and the other drops; three ways of counting | one current row; the counts agree |
| Absences, suggestions (`routes/absences.py`, `services/availability.py`, `services/absence_calendar.py`, `services/assignment_helper.py`) | `absences` | create, edit, archive; day report, calendar, candidates for a task | qualifications, personnel | absences that overlap; rows read in no order | report and calendar agree; who is suggested is here and qualified |
| Audit (`services/audit.py`) | `audit_events`, notifications | the decorator of handlers | every handler, once it is used | its own commit beside the handler's | an event for what was committed |
| Tenancy, database session (`tenancy.py`, `db.py`) | `org_id` of every row; the session's transaction | loader criteria, autofill, row-level security | every component | the granularity of transactions | no row of another organization |

Identity providers, the windows of the Tk program, the text scan, launchers,
migrations and seed data keep no state whose order matters here;
`PROJECT.json` lists each with the reason.

### Transactions and interleaving

The hosted program runs four uvicorn workers (`Dockerfile:50`), each with a
thread pool for its synchronous handlers.  On SQLite a transaction begins at
the first write (`db.py` turns autoflush off and write-ahead logging on), so a
handler's queries run before it, and what they returned may be stale when the
handler's writes are committed.  On Postgres, which `docker-compose.yml` uses,
isolation is READ COMMITTED, which allows at least as much.  The middleware
commits once at the end of a request.  The modules share one form for this:

* `Begin...(r, ...)` is everything a handler reads and decides: its guards are
  the handler's conditions and early returns, and what it keeps goes to
  `req[r]`, the request slot.
* `Commit...(r)` is everything it writes, in one step, with the checks the
  database makes (unique indexes, foreign keys).
* `Abort(r)` or `Rollback(r)` is a refused commit or a request that dies.

With one slot in `Requests` nothing that a request relies on comes between its
two steps: this is the Tk program (`tk/context.py`, one thread, one
transaction per command), and the hosted one with one user.  With two slots
requests interleave.  `Worklists`, whose handlers both programs have, takes the
program as a variable that never changes: in `tk` a request begins only when
no other is pending, in `hosted` they interleave, and a property that holds in
Tk only says so.  Some handlers read after their first flush; the model,
which reads everything first, then has behaviours the SQLite build has not and
the Postgres build has.  Where a read inside the transaction makes a
difference that a property sees, the model reads in the commit
(`CommitKickMember`).

## 2. The modules

### Worklists

`worklists` and `tasks` are the tables, as sequences indexed by id; nothing
deletes a row, archiving clears `active`.  Each handler of
`routes/worklists.py` and `routes/tasks.py` that writes is a pair of actions;
`carry_over_apply`, `apply_carry_over` and the Tk `carry_over` are
`BeginCarryOver` / `CommitCarryOver`; `ArchiveWorklist` reads nothing that it
relies on and is one action.  `amend_worklist` is three: `BeginAmend` reads the
original and the versions, `ReadAmended` the rows to be copied
(`worklists.py:408`), `CommitAmend` writes the copies that were read, which the
original need not look like any more.  `PendingCarryOvers` is
`find_pending_carry_overs`, `Missing` is what `generate_for_worklist` finds no
instance of.  The ORM writes a column only when its value differs from the one
read: `Written`.  What the recurrence rules yield for a week is the constant
`Due`; names other than the default, notes and priorities are data that no
property tells apart.

### TaskLead

`rows` is `task_assignments`; a request is the write it has decided on: rows
to demote, promote, remove and insert.  `Clashes` is the index
`ux_one_poic_per_instance`, checked row by row in the order in which SQLAlchemy
flushes (updates by primary key, then inserts).  `PartialIndex` says whether it
has its WHERE clause (SQLite) or not (Postgres).  `BeginCreateTask`,
`BeginReassign`, `BeginAddAssignment`, `BeginUpdateAssignment`,
`BeginDeleteAssignment` and `BeginCopyTask` are the handlers and the two places
that copy assignments.

### Journal and Personnel

`Personnel` has no run of its own: `Alerts` extends it, and its run has the
actions and the properties of both.

`Journal` is what effective dating promises (the docstrings of
`services/effective.py`): of every person a journal of each attribute, where
what is noted stays as it was noted, nothing is noted that is current already,
and current is what was noted last, whatever date it was given.

`hist[p][a]` is the history of one person's attribute, in the order its rows
were inserted: the five effective-dated tables as one function.
`SetNewValue` is `set_new_value`, `CurrentRows` is `current_row`.  The
refinement maps a history to the values and first days of its rows (`Entries`)
and to the value that its open row has (`Shown`); when a row was closed is no
part of the journal, but which row is open decides what is shown.

An edit of several attributes is one request with one plan; the plan reads all
histories at `Begin`, where the code reads each just before it writes it, in the
same transaction as soon as the first is written: a superset of the SQLite
behaviours.

### Alerts

Extends `Personnel` with `alerts`, and with two inputs that change by
themselves: the deadlines of pending qualifications (the identity of a
qualification is abstracted to its deadline) and the backlog of each worklist,
which is the size of `PendingCarryOvers` of `Worklists`.  `Conditions` is what
`recompute` finds to hold, `MissingAlerts` what it inserts, `StaleAlerts` what
it resolves.  Extending the departure date or archiving a person from an alert
writes the history and recomputes in one transaction.  The windows of 7, 30,
60 and 365 days are constants in that order.

### Access

Organizations with the status of their members, the rows of
`membership_roles`, `org_invites` and `user_sessions`, and the cookie each
browser holds.  `Valid` is `lookup_session`, `Rotate` is `rotate`, `IsLastOwner`
is `_last_owner_id`, which counts grants.  The paths under `/auth/` write to a
database session that nothing commits: `LoginCallback`, `LinkCallback` and
`Logout` change cookies only.  Browsers therefore start with sessions that are
in the table (a seeded database), bound to an organization or not.  Roles other
than owner and administrator, the Person an invitation creates, disabled
accounts and the operational rows that deleting an organization deletes are
left out.

### Workcenters

`workcenters`, `roles` and `grants` are the tables of one organization, whose
roles are seeded from `Templates` and whose founder is its owner.
`WorkcenterAncestors` is the walk of the permission check, written as the
function `up` of the number of steps; `EffectivePermissions` and
`HasPermission` are the check, and `Gate` what stands before every page.
`Above` is the walk of `update_workcenter`, which looks for the workcenter to
be moved among what is above its new parent.  The eight handlers are pairs of
`Begin...` and `Commit...`.  The codes of the catalog are a set with one member
for the codes that gate these pages; names and slugs are left out.

### Admission and RateLimit

`Admission` is what a rate limiter promises: every key has a quota; a request
is let in and takes one from it, or is kept out at no cost when nothing is
left; time, and nothing else, gives a key its whole quota back.

`RateLimit` has the counters: one per worker process, and one in Redis, used by
what the environment says at the start (`backend`).  `HitInProcess` and
`HitRedis` are the two `check` methods, `Dispatch` the middleware, `Tick` the
clock.  `bucket[s][k].age` is the time since the window of key `k` began in
store `s`, or, in Redis, since its time to live was set.  The refinement maps
a bucket to what is left of its quota: everything when its window is over, the
limit less the count, and never less than nothing, otherwise.  When a window
ends is no part of `Admission`; `LetInAgain` says that it does, by the clock.

### Absences, Quals and Roster

`Absences` has the rows of `absences` and the two services that read them:
`Reported` is `get_day_report`, where the last row of a person stands, and
`CalendarCell` is `build_calendar`, where the first does.  Neither query has an
ORDER BY, so both take the rows they work on as a sequence, and the properties
quantify over all orders.

`Quals` has the catalog and `person_quals`.  A slot in `Forms` is a form that
somebody has before them: what it offers was read when it was opened
(`BeginAssign`, `BeginUpdate`), and the handler that receives it does not look
again.  The commits are in two forms, web and Tk, which treat deadlines
differently; `via` records which one wrote a row.  `Cell`, `CatalogCount` and
`OverviewCount` are the three pages that count.

`Roster` composes both and adds `Candidates`, which is `candidates_for`: the
people suggested for a task, from what they hold and where they are.

### Recurrence and Week

`Recurrence` has the calendar, for any sequence of months; the forms there are
and the rules that are stored of them (`Form`, `Rule`, `Parsed`); the evaluator
`dates_in_window` branch by branch; and `Meant`, which says of a day
whether a rule means it, without a window.  A rule every n weeks without an
anchor means nothing of the kind (`Anchored`): the weeks it skips are nowhere
said, and what the evaluator makes of it is in section 4.

`Week` follows one template through two consecutive weeks: the template is
saved, edited and archived; worklists of either week are made, generated again,
locked, amended and archived; tasks are added, moved (to a day of the other
week, or to none), archived and assigned by hand, and carried over from the
first week's worklists to the second's.  Handlers are single steps here;
`Worklists` has their interleaving.  `Scheduled` is what the day page lists, of
every worklist, archived or not, as its query has it; `Missing` is what
`generate_for_worklist` adds to one worklist, nothing if that is locked.
`DayView`, `WeekView` and `Printed` are `_day_view`, `build_week_view` and
`build_week_grid`.

### Faulty variants

Operators whose comment begins with "Mutant:" are plausible wrong versions of
the operator that follows.  `PROJECT.json` pairs each property with one: with
it in place the property is violated, which shows that the property can fail
within the bounds of its run.  No specification uses them.

## 3. The runs

| Run | Bounds | What it shows |
|---|---|---|
| `Worklists` | 2 slots, 2 weeks, a template due on the first Monday; in Tk 3 worklists, hosted 2; 2 tasks | in both programs: history only grows, chains run forward, an amendment is cut from a locked original, and what a pending request relies on is not undone.  In Tk: one active base per week; amendments have distinct versions; generation adds nothing that is there; a task is handed on exactly when it is marked carried, and was unfinished; done means stamped; a locked week changes only by carry-over settling its unfinished tasks |
| `Worklists_locked` | 1 slot, as above | finding: carrying over rewrites tasks of a locked week |
| `TaskLead` | 2 slots, 2 people and an outsider, 2 tasks, 3 rows | never two leads; handing the lead on never loses it; the exact reasons for which the index refuses a request |
| `TaskLead_postgres` | 1 slot, 3 rows | finding: on Postgres no task takes a second assignee |
| `Alerts` | 1 slot, 1 person, days 0 and 1 (an edit is dated 0, today may be 1), 2 rows of each history, 2 alerts, a worklist | after a recompute the queue is what holds, each condition once, one departure alert; closed stays closed; histories written by the form and from alerts are chains with an open row, keep their earlier values, and implement `Journal` |
| `Access` | 1 slot, 2 users who own an organization each, a third organization, a third grant, 4 sessions, 1 invitation | an owner is left; members were invited; rotating adds no session; who is thrown out is logged out |
| `Access_login` | 1 slot | finding: the session a login opens is not stored |
| `Workcenters` | 1 slot, 3 workcenters, 2 roles, 2 members, 2 grants, 2 codes | re-parenting closes no cycle; the permission check finds what grants cover downwards; an archived role is held by nobody; somebody can always administer |
| `RateLimit` | 2 workers and Redis, 1 key, a limit of 2, a window of 4 ticks | both counters implement `Admission`; how much a burst gets in; whom the workers' counters keep out gets in again |
| `RateLimit_redis` | the same | finding: whom the counter in Redis keeps out, and who comes back within the window, is never let in again |
| `Roster` | 1 form, 2 people, 2 days, 2 absences, 1 qualification, 2 of its rows | one current row; where deadlines can be lost; the pages count alike; report and calendar agree where absences do not overlap; who is suggested fits |
| `Week` | the week in which February of a leap year ends and the next, nine rules of every kind but the daily one, 2 worklists, 2 changes by hand | rules with an anchor yield the days they mean; what the day page announces is what generating adds; every line of a task is on some page |

Why the bounds are enough.  A conflict takes two requests, so two slots show
it.  Three worklists are a base, its amendment and an amendment of that, or two
bases and an amendment; where requests interleave two are enough, as none acts
on more than two at once.  Two tasks are a task and the one carried, copied or
generated beside it.  In `Worklists` a task form sends no status but "open"
(which reopens what is done, discarded or carried): done, discarded and carried
come from the decisions of carry-over.  Three assignment rows are a lead, a new
lead and a bystander, in both orders of their keys.  Two rows of a history are
one closed and one current, dated in either order.  Two alerts are an alert and the one that
replaces it, or one dismissed and one new.  A third grant makes a second owner
or an administrator; a third organization one that is founded, joined and
deleted; four sessions are the two there are and two rotations.  Three
workcenters are a chain that can be turned over, archived ones in it; two roles
the owner's and a custom one; two grants the founder's and one more, org-wide
or scoped, of either role.  A window of four ticks is longer than the limit of
two, so a burst can fall on either side of its end.  Two absences overlap, meet
or lie apart, whole or partial, within two days; two rows of a qualification
are one replaced and one current, or one for each of two people.  The two
weeks of `Week` have the last days of a month of 29 days and the first of one
of 31; two worklists are one of each week, a base and its amendment, or two
bases of a week of which one is archived; two changes by hand make a task and
move, archive, assign or carry it, or change the rule under instances there
are.  Nothing in the
program depends on larger numbers, and the theorems of section 5 hold for all.

Deadlock is checked in every run but `Week`, whose changes by hand are bounded
and may be used up when both worklists are locked: elsewhere a request may
always be rolled back, a form closed, and somebody may always ask.

### Fairness

`RateLimit` is the only module with fairness, because it is the only part of
the program in which something must come about without anybody deciding so.
`WF_vars(Tick)`: time passes.  For each key, weak fairness of its client asking
whichever worker: without it nothing is ever let in, as nobody asks.  Nothing is
assumed of how requests fall on workers or how long a client pauses between
them.  Under it, `LetInAgain` holds of the in-process counters with no proviso.
In Redis every hit sets the time to live anew (`rate_limit.py:94`), so a client
that asks again within a window of its last request, each time, is kept out for
ever: `RedisLetsInAgain` says the same of Redis under the same fairness, and is
violated.  The other handlers wait for nothing and hold nothing
between requests, retries are left to the user, and no job runs by itself: the
recompute happens when a page is opened.

### What fails when requests interleave

These properties fail for requests (or forms) that overlap, and each names the
reading it depends on.  `Worklists`, which has two slots, states those below of
Tk only; the other modules with such a property have one slot in their run, and
their theorems assume `OneAtATime`.

* `OneBasePerWeek` (two requests look for the week's worklist before either
  inserts it), `VersionsDistinct` (both count the versions there are),
  `GenerationIsIdempotent`, `CarryConsumesUnfinished`, `LockedOnlySettled` (the
  lock is read before it is set) and `CompletedIffDone` (two edits, each
  writing the columns it changed) in the hosted program;
* `Chained` and `KeepsJournal` of histories (both edits close the row they read
  and insert one), `OneOpenPerCondition` and `QueueIsCurrent` of `Alerts` (two
  recomputes find no open alert and both insert one);
* `OrgHasOwner` (two owners who part at once, each check seeing the other),
  `RotationReplaces` and `TakenAwayIsOut` of `Access`;
* `Forest` (two workcenters moved below each other), `ArchivedRolesUnheld` (a
  role granted while it is archived) and `Administrable` (two owners' roles
  taken away at once) of `Workcenters`;
* `OneCurrent` of `Roster` (a qualification assigned from two forms).

No index or version column stands behind them.  But for the deduplication that
`services/alerts.py:4` speaks of, no document of the program promises any of
them of requests that overlap, so they are not listed as findings.

## 4. Findings

Four runs show the program doing what its documents or comments say it does
not:

1. `Access_login`: handlers under `/auth/` write to a database session that is
   never committed; login stores no session, logout ends none, linking links
   nothing.
2. `TaskLead_postgres`: the lead index has its WHERE clause for SQLite only; on
   Postgres a task takes one assignee.
3. `Worklists_locked`: locked weeks are not immutable (`src/README.md:44` calls
   them so): `find_pending_carry_overs` does not look at the lock, and
   `apply_carry_over` rewrites the tasks of the source week
   (`services/carry_over.py:82`, `:140`, `:191`).  What holds is
   `LockedOnlySettled`.
4. `RateLimit_redis`: EXPIRE at every hit (`auth/rate_limit.py:94`) makes the
   "fixed window" one that a client which retries within it holds open for ever.

The models also show these, which no run is kept for; each is excluded from a
property that is checked, by a condition the property names:

* A rule every n weeks without an anchor is anchored in the window asked for
  (`services/recurrence.py:51`) and fires every week, though `describe`
  (`recurrence.py:107`), the form (`routes/templates.py:36`) and
  `src/README.md:50` call it one of every n weeks.  `WindowsAgree` is of rules
  with an anchor (`Anchored`).
* `_day_view` lists "Tasks scheduled for this date on any active worklist"
  (`routes/today.py:51`), but its query does not ask whether the worklist is
  active, and so lists those of archived ones, and the copies an amendment
  makes beside their originals.  An instance of another worklist silences the
  announcement of a task that generation still adds (`Foretold`).
* `_ensure_alert` looks among open alerts only (`services/alerts.py:45`): what
  an operator dismissed or resolved comes back while its condition lasts.
* `rotate` reads `membership_id=None` as "keep the binding"
  (`auth/sessions.py:152`): `org_leave` and `org_delete` never reach the
  unbound session they ask for (`routes/onboarding.py:543` and `:690`).
* The count of owners is read before the transaction that takes one away
  (`routes/admin.py:253`): two owners who part at once leave none.
* `update_workcenter` accepts an archived workcenter as parent.  Two org-wide
  grants of one role to one member are refused by no index, NULL being equal
  to nothing.  No page passes a workcenter to the permission check, so grants
  scoped to a workcenter authorize nothing yet.
* The web form of a qualification stores no deadline, and an update in it drops
  the one that is there (`routes/quals.py:353`); in Tk a settled qualification can be reopened without
  one.  The catalog page counts the rows of people who have left.
* Overlapping absences are accepted; the report and the calendar may then
  differ, and somebody away all day be suggested.
* A task dated outside its week is on no page of that week, only on its day's.

## 5. The proofs

Module `M` has its theorems in `MProofs`; those about `Personnel` are in
`AlertsProofs`, which builds on them.  The theorems hold for every value of
the constants under the ASSUMEs of their module, and for any number of
requests at once unless one assumes `OneAtATime`
or, in `Worklists`, speaks of Tk. Type invariants (`TypeOK`)
of the modules with proofs are proved and not model-checked: no run lists
them.

* **Worklists.**  `IInv` is `TypeOK` with, for every pending request, what it
  has read and relies on (`ReliedOn`): without it nothing is known of the rows
  a commit writes.  It is inductive because rows are only added and a lock is
  never lifted.  From it, for any interleaving: `TypeCorrect`, `StableReads`,
  `ForwardChains`, `FrozenOriginals` and the action property `HistoryKept`.
  What holds in Tk only is under `TInv`, which is `SInv` if the program is Tk.
  `SInv` has `IInv`, that one request at most is pending, `OneBasePerWeek`,
  `VersionsDistinct`, `CompletedIffDone`, and `Fresh` of that request, which
  says for each handler that what it decided on is still so: no base has
  appeared for the week, the version it counted is still the highest, what it
  found missing is missing, what it means to carry is unfinished, what it
  copied is as it was.  `OneBase`, `DistinctVersions` and `StampedWhenDone` are
  parts of it; `GenerationAddsMissing`, `CarryingConsumes` and
  `LockedWeekStands` are read off the commits under it.
* **TaskLead.**  `IInv` adds to the types that the index holds of the whole
  table and that a pending write is well formed.  A step that commits has passed
  `Clashes`; the lemmas show that passing it row by row in flush order leaves a
  table the index holds of.  `AtMostOneLead` follows in both forms of the index.
  `LeadNotLost` needs of a pending write also what its handler has made of it
  (`Shaped`): it touches rows of its own task only, and stands a lead down only
  for another that it adds or promotes, or because it was told to.
  `RefusedForAReason` looks at the step in which a handler decides: of the rows
  it then reads the index holds, and `Refusable` is what may make its statements
  clash.  It alone assumes `PartialIndex`, the index as SQLite has it.
* **Personnel.**  `IInv` is `TypeOK`, `AlwaysCurrent` and `Ready`: a plan closes
  a row only when it inserts one.  `CurrentAlways` and the action property
  `PriorValues` hold for any interleaving.  With one request at a time a second
  invariant, that the row a plan closes is still the last of its history, for
  another value, and that the value is new to it (`Fresh`), gives `Chains`, and
  from it `OneCurrentRow`.  `JournalKept` is the refinement: a request that
  commits maps to `Enter` or `Note` of what it tells (`Telling`), and to a
  stutter if it tells nothing; in a chain what is current is what the last row
  says (`ChainShows`), whatever the dates.
* **Alerts.**  Its specification has the variables of `Personnel` and its own,
  so the facts on histories are proved of tables, not of that module's
  behaviours, and used again.  `AInv`, for any interleaving, has the types of
  what alerts are derived from, that an alert is about a condition that can arise, and that a pending
  request writes what its kind may write.  Under it no step opens a closed alert
  or changes what one is about (`Keeps`): `AlertsStayClosed`.  With one request
  at a time `AlertsSerial` adds `OneOpenPerCondition` and, for every pending
  recompute, that what it means to insert and to resolve is still what there is
  to insert and to resolve (`StillDerived`).  A commit that writes a history and
  recomputes does both in one step; `Settles` says that the queue it leaves is
  what holds of the histories it leaves.  `OneOpenAlert` and `QueueCurrent`
  follow.  `AlertsChain`, `AlertsOneCurrent` and `AlertsKeepJournal` are
  `Chains`, `OneCurrentRow` and `JournalKept` again, with the actions on alerts
  among the writers.  That one row is current is a consequence of the chains
  which no run lists.
* **Access.**  `IInv` is `TypeOK`; `Owned`, that a cookie names a session of the
  browser's own user; `Members`, which is `MembersWereInvited` with founders
  that stay members and invitations that name an organization; and `Sound`, what
  a pending request may still rely on: it speaks for its browser's user, the
  invitation it accepts is for that user, and whose status it sets is a member
  unless the organization is gone.  It is preserved since sessions, invitations
  and members are never taken out of the tables while the organization lives.
  `TypeCorrect` and `InvitedMembers` hold for any interleaving.  For
  `OwnerStays`, with one request at a time, the strengthening is `OneGrant`,
  that no role is granted twice: `IsLastOwner` counts grants, and would take two
  rows of one owner for two owners.  `Fresh` carries the check from the reading
  to the commit.  `TakenAway` and `RotationKeepsCount` need of a pending request
  that the session it will replace has not been revoked and that a suspension
  revokes every session bound to the membership (`Bonded`), both of which an
  overlapping request could undo.
* **Workcenters.**  `IInv` is the tables with their references and, for every
  pending request, `Sound`: it writes to rows that exist, and does not change
  the permissions of the owner role.  `TypeCorrect` follows for any
  interleaving.  With one request at a time `Fresh` carries what a handler has
  checked to its commit.  `WorkcentersFormForest` rests on `MoveKeepsForest`:
  of a set of workcenters that holds both the one that is moved and its new
  parent, the part above the new parent is not empty, does not hold the one that
  is moved, and by the old forest has a member whose parent is outside; the
  walk being closed under parents, that parent is outside of the whole set.
  `ArchivedRolesStayUnheld` and `SomebodyAdministers` follow from the same
  invariant; the second needs that a revocation leaves another owner's grant.
  `GrantsReachDown` needs no invariant but the references, and so holds for any
  interleaving and of circles: the walk up the tree grows by one workcenter at
  least in every step in which it grows at all, so that it has ended after as
  many steps as there are rows, and what it then holds is the least set with
  the workcenter that is closed under parents.  `Subtree` is the least set that
  is closed under children; a workcenter is in the one exactly when the other
  reaches it, since the complement of each is closed under the other's step.
* **RateLimit.**  `CountersKeepPromise` is the refinement: with `TypeOK`, which
  caps a count at one above its limit, a hit maps to `LetIn` or `KeepOut` of its
  counter (`HitTakes`), the clock to `Renew` of the keys whose window has ended
  (`TimeRenews`), for any limits, window and number of workers.  For `BurstHeld`
  the strengthening `CInv` speaks of every number of ticks n up to the window,
  not of the window alone.  In process: within the last n ticks no more was let
  in than the sum of the workers' shares, where a worker's share is what its
  bucket has counted, and the limit once more if that bucket is younger than n,
  for the window before.  In Redis: since the last hit nothing was let in, and
  within a window no more than was counted.
* **Roster.**  `IInv` is `TypeOK` and `DeadlinesExcused`, which says of every
  row, open or closed, what `DeadlineCarried` says of the open ones, and looks
  for the reason in all rows: two forms may edit the same row, and what the
  second one copies is closed already.  `TypeCorrect` and `DeadlinesCarried`
  hold for any number of forms.  With one form at a time `Fresh` says that what
  a form offers is still not given and what it edits is still open; with it
  `OneCurrent` is inductive (`OneRowCurrent`).  `QualsAssumption` has the
  catalog finite: the rows an assignment adds are numbered by its choices; and
  "-", by which the matrix shows that there is no row, no status.  `ViewsAgree`
  is a fact of any table of absences: where those of a person do not overlap
  there is one row at most to be shown, whether the first or the last is taken.
  `PagesAgree` and `SuggestedRightly` rest on `OneRowCurrent`: the catalog
  counts rows and the matrix people, and one row a person makes that a
  bijection.
* **Week.**  `MatchesMeant` says of every rule with an anchor, or of a kind that
  needs none, of every day of any calendar and of every window that has the day,
  that the evaluator takes the day exactly when the rule means it.  It is proved
  branch by branch.  Months are consecutive intervals (`Starts`, `MonthExists`,
  by induction over their lengths), so that the day of the month counts the days
  up to it (`DateMeant`).  The days of a month on one weekday are numbered by
  sevens (`Sevenths`, a bijection), so that the n-th and the last are where the
  evaluator looks (`NthWeekdayMeant`).  A week is the quotient by 7, for any
  distance between the weeks (`NthWeekMeant`).  The inductive invariant is
  `TypeOK`, with every task of a worklist there is; without that a task of no
  worklist would silence the day page and no generation.  `WindowsHold` follows
  from it and `MatchesMeant`.  `Foretelling` speaks of the steps that generate.
  Of any rule, with an anchor or without, a window of one day yields a day of
  the week exactly when the window of that week does (`SameWindow`); the days
  that are missing are numbered (`NthOnto`), so that each gets one instance and
  no other day any (`Gains`), and afterwards every day on which the rule fires
  has one, which is why the page announces no more.  `Showing` needs that an
  empty day is no day (`NoneAssumption`).

The prover has no rule of induction that takes a formula.  Where a definition
is a recursive function (the walk in `Workcenters`, the sums in `RateLimit`, the
beginnings of months in `Recurrence`), or the claim is about the k-th member of
a set (`Places` in `WeekProofs`), induction is stated of a set of numbers (lemma
`Induction`, from the well-foundedness of < in the library), and the set is
defined by the formula.

Only model-checked: `LetInAgain`, which needs fairness, out of the prover's
reach.  No module declares a RECURSIVE operator.

## 6. The plan

Done: `Worklists`, `TaskLead`, `Personnel` (with `Journal`), `Access`,
`Workcenters`, `RateLimit` (with `Admission`), `Roster` (on top of `Quals` and `Absences`),
`Alerts` (on top of `Personnel`) and `Week` (on top of `Recurrence`), with runs
and proofs.  To do, in this order:

1. An abstract specification of a week's work (a task is open in exactly one
   week until it is settled) that `Worklists` implements in Tk.
2. `Accounts`: the outcomes of `resolve_identity` and linking; `Tenancy`:
   loader criteria, autofill and the setting behind row-level security.

## 7. What is not modelled

Text (names, notes, forms and their validation), layout and printing;
cryptography of cookies, tokens and identity providers; clock skew; the network
between browser and server; failures of the database other than refusing a
commit.  Time is a day counter where dates matter (`Personnel`, `Alerts`), a
tick of the clock in `RateLimit`, and a step by which a session or an invitation
lapses (`Access`).  Rows of another organization are invisible by the tenancy
filter, so all modules but `Access` speak of one organization.

Accounts: `resolve_identity` writes one account and one identity under a unique
index.  Audit: no handler uses the decorator yet.  Template categories and
required qualifications, personnel statistics and the arrival checklist write or
count single rows that nothing else relies on.
