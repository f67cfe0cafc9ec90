---------------------------- MODULE Workcenters ----------------------------
(***************************************************************************)
(* The workcenters of one organization, its roles, the grants that give a  *)
(* member a role, and the permission check they feed (the workcenter and   *)
(* role pages of app/routes/admin.py, app/auth/authorization.py,           *)
(* app/auth/permissions.py).                                               *)
(*                                                                         *)
(* Workcenters form a tree.  A grant holds for the whole organization, or  *)
(* for one workcenter and everything below it.                             *)
(*                                                                         *)
(* As in Worklists, Begin... reads and checks, Commit... writes what was   *)
(* read; the middleware commits once per request.  Names, slugs, and the   *)
(* members themselves (module Access) are left out; a commit that an index *)
(* refuses is an Abort.                                                    *)
(***************************************************************************)
EXTENDS Integers, Sequences, FiniteSets

CONSTANTS
    Requests,       \* slots for requests being served at the same time
    Members,        \* the active members
    Founder,        \* the member the organization was founded by
    Codes,          \* permission codes: "org" for the three org.* codes that
                    \* gate these pages, the others for the rest of the catalog
    Templates,      \* the seeded roles; the first is org_owner
    MaxWorkcenters, \* bound on the rows of workcenters
    MaxRoles,       \* bound on the rows of roles
    MaxGrants       \* bound on the rows of membership_roles

ASSUME FounderAssumption == Founder \in Members
ASSUME TemplatesAssumption ==
    /\ "org" \in Codes
    /\ Templates \in Seq([perms : SUBSET Codes, scopable : BOOLEAN])
    /\ Templates # <<>>
    /\ Templates[1] = [perms |-> Codes, scopable |-> FALSE]
ASSUME WorkcenterBoundsAssumption ==
    {MaxWorkcenters, MaxRoles, MaxGrants} \subseteq Nat

VARIABLES
    workcenters,    \* rows of workcenters, by id; parent 0: at the top
    roles,          \* rows of roles with their permissions, by id
    grants,         \* rows of membership_roles, by id; scope 0: org-wide
    req             \* what each request slot has read so far

vars == <<workcenters, roles, grants, req>>

Workcenter == [parent : Nat, archived : BOOLEAN]
Role == [builtin : BOOLEAN, scopable : BOOLEAN, perms : SUBSET Codes,
         archived : BOOLEAN]
Grant == [member : Members, role : Nat, scope : Nat, live : BOOLEAN]

Ids == DOMAIN workcenters
RoleIds == DOMAIN roles
Owner == 1

Idle == [op |-> "idle"]

\* Which row a handler is to write, and with what: for a workcenter its new
\* parent and the one it has now, for a grant its scope.
Request == {Idle} \cup
    [op : {"create", "update", "archive"}, id : Nat, old : Nat, parent : Nat] \cup
    [op : {"create_role", "update_role", "archive_role"}, id : Nat,
     perms : SUBSET Codes, scopable : BOOLEAN] \cup
    [op : {"grant"}, member : Members, role : Nat, scope : Nat] \cup
    [op : {"revoke"}, id : Nat]

-----------------------------------------------------------------------------
(* The permission check: app/auth/authorization.py *)

Parents(w) == {workcenters[w].parent} \cap Ids

\* Mutant: the walk starts at the parent.
StrictAncestors(w) ==
    LET up[n \in 0 .. Len(workcenters)] ==
            IF n = 0 THEN Parents(w)
            ELSE up[n - 1] \cup UNION {Parents(x) : x \in up[n - 1]}
    IN  up[Len(workcenters)]

\* Walks up from w, itself included, until there is no parent or it has been seen.
WorkcenterAncestors(w) ==
    LET up[n \in 0 .. Len(workcenters)] ==
            IF n = 0 THEN {w}
            ELSE up[n - 1] \cup UNION {Parents(x) : x \in up[n - 1]}
    IN  up[Len(workcenters)]

\* The codes m holds org-wide (scope 0), or at one workcenter.  An archived role
\* counts like any other.
EffectivePermissions(m, scope) ==
    UNION {roles[grants[g].role].perms :
              g \in {h \in DOMAIN grants : /\ grants[h].live
                                           /\ grants[h].member = m
                                           /\ grants[h].scope = scope}}

\* Without a workcenter (w = 0) only what is held org-wide counts.
HasPermission(m, code, w) ==
    \/ code \in EffectivePermissions(m, 0)
    \/ /\ w # 0
       /\ \E a \in WorkcenterAncestors(w) : code \in EffectivePermissions(m, a)

\* require(): the pages are gated without a workcenter.
Gate(code) == \E m \in Members : HasPermission(m, code, 0)

-----------------------------------------------------------------------------
(* Requests *)

\* An organization gets its own copy of every template.
SeedOrgRoles ==
    [t \in DOMAIN Templates |->
        [builtin |-> TRUE, scopable |-> Templates[t].scopable,
         perms |-> Templates[t].perms, archived |-> FALSE]]

\* ... and the member it was founded by is its owner.
PromoteFoundingOwner ==
    <<[member |-> Founder, role |-> Owner, scope |-> 0, live |-> TRUE]>>

Init ==
    /\ workcenters = <<>>
    /\ roles = SeedOrgRoles
    /\ grants = PromoteFoundingOwner
    /\ req = [r \in Requests |-> Idle]

Begin(r, q) ==
    /\ req[r] = Idle
    /\ req' = [req EXCEPT ![r] = q]
    /\ UNCHANGED <<workcenters, roles, grants>>

Finish(r) == req' = [req EXCEPT ![r] = Idle]

\* A handler refuses after all, its commit is refused, or its request dies.
Abort(r) ==
    /\ req[r] # Idle
    /\ Finish(r)
    /\ UNCHANGED <<workcenters, roles, grants>>

-----------------------------------------------------------------------------
(* Workcenters *)

Active(w) == w \in Ids /\ ~workcenters[w].archived

BeginCreateWorkcenter(r, p) ==
    /\ Gate("org")
    /\ p = 0 \/ Active(p)
    /\ Begin(r, [op |-> "create", id |-> 0, old |-> 0, parent |-> p])

CommitCreateWorkcenter(r) == LET q == req[r] IN
    /\ q.op = "create"
    /\ Len(workcenters) < MaxWorkcenters
    /\ workcenters' = Append(workcenters, [parent |-> q.parent, archived |-> FALSE])
    /\ Finish(r)
    /\ UNCHANGED <<roles, grants>>

\* What a walk up from w reaches: the least set that has w and the parents of its
\* members.
Above(w) ==
    {a \in Ids : \A S \in SUBSET Ids :
        w \in S /\ (\A x \in S : Parents(x) \subseteq S) => a \in S}

\* Mutant: only the new parent itself is looked at.
UpdateLookingAtParentOnly(r, w, p) ==
    /\ Gate("org")
    /\ p = 0 \/ p # w
    /\ Begin(r, [op |-> "update", id |-> w, old |-> workcenters[w].parent, parent |-> p])

\* The walk up from the new parent must come to a top and not meet w.  Neither w
\* nor the parent need be active.
BeginUpdateWorkcenter(r, w, p) ==
    /\ Gate("org")
    /\ p # 0 => /\ w \notin Above(p)
                /\ \E a \in Above(p) : workcenters[a].parent = 0
    /\ Begin(r, [op |-> "update", id |-> w, old |-> workcenters[w].parent, parent |-> p])

\* A column that is assigned the value it was read with is not written.
CommitUpdateWorkcenter(r) == LET q == req[r] IN
    /\ q.op = "update"
    /\ workcenters' = IF q.parent = q.old THEN workcenters
                      ELSE [workcenters EXCEPT ![q.id] =
                               [parent |-> q.parent, archived |-> @.archived]]
    /\ Finish(r)
    /\ UNCHANGED <<roles, grants>>

BeginArchiveWorkcenter(r, w) ==
    /\ Gate("org")
    /\ \A c \in Ids : workcenters[c].parent = w => workcenters[c].archived
    /\ Begin(r, [op |-> "archive", id |-> w, old |-> 0, parent |-> 0])

CommitArchiveWorkcenter(r) == LET q == req[r] IN
    /\ q.op = "archive"
    /\ workcenters' = [workcenters EXCEPT ![q.id] =
                          [parent |-> @.parent, archived |-> TRUE]]
    /\ Finish(r)
    /\ UNCHANGED <<roles, grants>>

-----------------------------------------------------------------------------
(* Roles and grants *)

BeginCreateRole(r, perms, scopable) ==
    /\ Gate("org")
    /\ perms # {}
    /\ Begin(r, [op |-> "create_role", id |-> 0, perms |-> perms, scopable |-> scopable])

CommitCreateRole(r) == LET q == req[r] IN
    /\ q.op = "create_role"
    /\ Len(roles) < MaxRoles
    /\ roles' = Append(roles, [builtin |-> FALSE, scopable |-> q.scopable,
                               perms |-> q.perms, archived |-> FALSE])
    /\ Finish(r)
    /\ UNCHANGED <<workcenters, grants>>

\* Mutant: the owner role's permissions can be edited like any other's.
UpdateAnyRole(r, k, perms, scopable) ==
    /\ Gate("org")
    /\ perms # {}
    /\ Begin(r, [op |-> "update_role", id |-> k, perms |-> perms, scopable |-> scopable])

\* The permissions of org_owner stay as they are.
BeginUpdateRole(r, k, perms, scopable) ==
    /\ Gate("org")
    /\ perms # {}
    /\ k = Owner => perms = roles[k].perms
    /\ Begin(r, [op |-> "update_role", id |-> k, perms |-> perms, scopable |-> scopable])

\* The set of permissions is replaced; a built-in role stays as scopable as it was.
CommitUpdateRole(r) == LET q == req[r] IN
    /\ q.op = "update_role"
    /\ roles' = [roles EXCEPT ![q.id] =
            [builtin |-> @.builtin,
             scopable |-> IF @.builtin THEN @.scopable ELSE q.scopable,
             perms |-> q.perms, archived |-> @.archived]]
    /\ Finish(r)
    /\ UNCHANGED <<workcenters, grants>>

\* Mutant: a role is archived whoever holds it.
ArchiveRoleInUse(r, k) ==
    /\ Gate("org")
    /\ ~roles[k].builtin
    /\ Begin(r, [op |-> "archive_role", id |-> k, perms |-> {}, scopable |-> FALSE])

BeginArchiveRole(r, k) ==
    /\ Gate("org")
    /\ ~roles[k].builtin
    /\ \A g \in DOMAIN grants : grants[g].live => grants[g].role # k
    /\ Begin(r, [op |-> "archive_role", id |-> k, perms |-> {}, scopable |-> FALSE])

CommitArchiveRole(r) == LET q == req[r] IN
    /\ q.op = "archive_role"
    /\ roles' = [roles EXCEPT ![q.id] =
            [builtin |-> @.builtin, scopable |-> @.scopable, perms |-> @.perms,
             archived |-> TRUE]]
    /\ Finish(r)
    /\ UNCHANGED <<workcenters, grants>>

SameGrant(m, k, w) ==
    {g \in DOMAIN grants : /\ grants[g].live
                           /\ grants[g].member = m
                           /\ grants[g].role = k
                           /\ grants[g].scope = w}

\* A grant that is there already is left alone.
BeginGrantRole(r, m, k, w) ==
    /\ Gate("org")
    /\ ~roles[k].archived
    /\ w # 0 => Active(w) /\ roles[k].scopable
    /\ SameGrant(m, k, w) = {}
    /\ Begin(r, [op |-> "grant", member |-> m, role |-> k, scope |-> w])

\* The unique index refuses a second grant for the same workcenter; two org-wide
\* ones differ for it, NULL being equal to nothing.
CommitGrantRole(r) == LET q == req[r] IN
    /\ q.op = "grant"
    /\ Len(grants) < MaxGrants
    /\ q.scope = 0 \/ SameGrant(q.member, q.role, q.scope) = {}
    /\ grants' = Append(grants, [member |-> q.member, role |-> q.role,
                                 scope |-> q.scope, live |-> TRUE])
    /\ Finish(r)
    /\ UNCHANGED <<workcenters, roles>>

OwnerGrants == {g \in DOMAIN grants : /\ grants[g].live
                                      /\ grants[g].role = Owner
                                      /\ grants[g].scope = 0}

BeginRevokeRole(r, g) ==
    /\ Gate("org")
    /\ grants[g].live
    /\ ~(grants[g].scope = 0 /\ grants[g].role = Owner /\
         \E o \in OwnerGrants : OwnerGrants = {o} /\ grants[o].member = grants[g].member)
    /\ Begin(r, [op |-> "revoke", id |-> g])

\* A row that is gone cannot be deleted again.
CommitRevokeRole(r) == LET q == req[r] IN
    /\ q.op = "revoke"
    /\ grants[q.id].live
    /\ grants' = [grants EXCEPT ![q.id] =
            [member |-> @.member, role |-> @.role, scope |-> @.scope, live |-> FALSE]]
    /\ Finish(r)
    /\ UNCHANGED <<workcenters, roles>>

-----------------------------------------------------------------------------

Begins(r) ==
    \/ \E p \in Ids \cup {0} : BeginCreateWorkcenter(r, p)
    \/ \E w \in Ids, p \in Ids \cup {0} : BeginUpdateWorkcenter(r, w, p)
    \/ \E w \in Ids : BeginArchiveWorkcenter(r, w)
    \/ \E perms \in SUBSET Codes, s \in BOOLEAN : BeginCreateRole(r, perms, s)
    \/ \E k \in RoleIds, perms \in SUBSET Codes, s \in BOOLEAN :
          BeginUpdateRole(r, k, perms, s)
    \/ \E k \in RoleIds : BeginArchiveRole(r, k)
    \/ \E m \in Members, k \in RoleIds, w \in Ids \cup {0} : BeginGrantRole(r, m, k, w)
    \/ \E g \in DOMAIN grants : BeginRevokeRole(r, g)

Commits(r) ==
    \/ CommitCreateWorkcenter(r) \/ CommitUpdateWorkcenter(r) \/ CommitArchiveWorkcenter(r)
    \/ CommitCreateRole(r) \/ CommitUpdateRole(r) \/ CommitArchiveRole(r)
    \/ CommitGrantRole(r) \/ CommitRevokeRole(r)

Next == \E r \in Requests : Begins(r) \/ Commits(r) \/ Abort(r)

Spec == Init /\ [][Next]_vars

-----------------------------------------------------------------------------
(* Properties *)

\* The tables and what the slots hold have their types, and refer to rows there are.
TypeOK ==
    /\ workcenters \in Seq(Workcenter)
    /\ \A w \in Ids : workcenters[w].parent \in Ids \cup {0}
    /\ roles \in Seq(Role)
    /\ grants \in Seq(Grant)
    /\ \A g \in DOMAIN grants : grants[g].role \in RoleIds /\ grants[g].scope \in Ids \cup {0}
    /\ req \in [Requests -> Request]

\* "Loops shouldn't exist": in any set of workcenters there is one whose parent
\* is not in the set (the walk in update_workcenter).
Forest ==
    \A S \in SUBSET Ids : S # {} => \E w \in S : workcenters[w].parent \notin S

\* The workcenters below x, x included.
Subtree(x) ==
    {d \in Ids : \A S \in SUBSET Ids :
        x \in S /\ (\A c \in Ids : workcenters[c].parent \in S => c \in S) => d \in S}

\* "A grant on a parent workcenter is honoured for descendants", and for nothing
\* else: what the walk in has_permission finds is what the grants cover downwards.
CoversSubtree ==
    \A m \in Members, code \in Codes, w \in Ids :
        HasPermission(m, code, w) <=>
            \E g \in DOMAIN grants :
                /\ grants[g].live
                /\ grants[g].member = m
                /\ code \in roles[grants[g].role].perms
                /\ grants[g].scope = 0 \/ w \in Subtree(grants[g].scope)

\* A role that is archived is held by nobody (archive_role and grant_role).
ArchivedRolesUnheld ==
    \A g \in DOMAIN grants : grants[g].live => ~roles[grants[g].role].archived

\* Somebody can always administer the organization: whatever is revoked, edited or
\* archived, a member holds every permission org-wide (revoke_role, update_role).
Administrable == \E m \in Members : \A code \in Codes : HasPermission(m, code, 0)

=============================================================================
