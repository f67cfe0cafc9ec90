-------------------------- MODULE WorkcentersProofs --------------------------
(***************************************************************************)
(* The workcenters of an organization and its roles.  For any number of    *)
(* requests served at once: the tables keep their shape, every row and     *)
(* every pending request refers to rows that exist, and the permission     *)
(* check finds what the grants cover downwards.  With one request at a     *)
(* time: the workcenters stay a forest, an archived role is held by        *)
(* nobody, and somebody can administer the organization.                   *)
(*                                                                         *)
(* What a walk up the tree computes in any number of steps is proved by    *)
(* induction in the form of a set of numbers (lemma Induction).            *)
(***************************************************************************)
EXTENDS Workcenters, FiniteSetTheorems, WellFoundedInduction, TLAPS

-----------------------------------------------------------------------------
(* Tables as sequences *)

LEMMA RowType ==
    ASSUME NEW T, NEW s \in Seq(T), NEW i \in DOMAIN s
    PROVE  s[i] \in T
OBVIOUS

LEMMA Overwritten ==
    ASSUME NEW T, NEW s \in Seq(T), NEW i \in DOMAIN s, NEW x \in T
    PROVE  LET t == [s EXCEPT ![i] = x]
           IN  /\ t \in Seq(T)
               /\ DOMAIN t = DOMAIN s
               /\ Len(t) = Len(s)
               /\ t[i] = x
               /\ \A j \in DOMAIN s \ {i} : t[j] = s[j]
OBVIOUS

LEMMA Appended ==
    ASSUME NEW T, NEW s \in Seq(T), NEW x \in T
    PROVE  /\ Append(s, x) \in Seq(T)
           /\ DOMAIN s \subseteq Nat \ {0}
           /\ Len(s) + 1 \in Nat \ {0}
           /\ Len(s) + 1 \notin DOMAIN s
           /\ DOMAIN Append(s, x) = DOMAIN s \cup {Len(s) + 1}
           /\ Append(s, x)[Len(s) + 1] = x
           /\ \A i \in DOMAIN s : Append(s, x)[i] = s[i]
<1>1. DOMAIN s = 1 .. Len(s) /\ Len(s) \in Nat
  OBVIOUS
<1>2. Append(s, x) \in Seq(T) /\ DOMAIN Append(s, x) = 1 .. Len(s) + 1
  OBVIOUS
<1>3. 1 .. Len(s) + 1 = (1 .. Len(s)) \cup {Len(s) + 1} /\ Len(s) + 1 \notin 1 .. Len(s)
  BY <1>1
<1> QED
  BY <1>1, <1>2, <1>3

-----------------------------------------------------------------------------
(* What holds however requests interleave *)

\* A pending request writes to rows that exist, and not the owner role's permissions.
Sound(q) ==
    /\ q.op = "create" => q.parent \in Ids \cup {0}
    /\ q.op = "update" => q.id \in Ids /\ q.parent \in Ids \cup {0}
    /\ q.op = "archive" => q.id \in Ids
    /\ q.op = "create_role" => q.perms \in SUBSET Codes /\ q.scopable \in BOOLEAN
    /\ q.op = "update_role" => /\ q.id \in RoleIds
                               /\ q.perms \in SUBSET Codes
                               /\ q.scopable \in BOOLEAN
                               /\ q.id = Owner => q.perms = Codes
    /\ q.op = "archive_role" => q.id \in RoleIds
    /\ q.op = "grant" => /\ q.member \in Members
                         /\ q.role \in RoleIds
                         /\ q.scope \in Ids \cup {0}
    /\ q.op = "revoke" => q.id \in DOMAIN grants

Tables ==
    /\ workcenters \in Seq(Workcenter)
    /\ \A w \in Ids : workcenters[w].parent \in Ids \cup {0}
    /\ roles \in Seq(Role)
    /\ grants \in Seq(Grant)
    /\ \A g \in DOMAIN grants : grants[g].role \in RoleIds /\ grants[g].scope \in Ids \cup {0}
    /\ Owner \in RoleIds /\ roles[Owner].perms = Codes

IInv ==
    /\ Tables
    /\ req \in [Requests -> Request]
    /\ \A r \in Requests : Sound(req[r])

LEMMA InitKeeps == Init => IInv
<1> SUFFICES ASSUME Init PROVE IInv
  OBVIOUS
<1>1. workcenters = <<>> /\ Ids = {}
  BY DEF Init, Ids
<1>2. Templates \in Seq([perms : SUBSET Codes, scopable : BOOLEAN]) /\ 1 \in DOMAIN Templates
  BY TemplatesAssumption
<1>3. ASSUME NEW t \in DOMAIN Templates
      PROVE  Templates[t].perms \in SUBSET Codes /\ Templates[t].scopable \in BOOLEAN
  <2>1. Templates[t] \in [perms : SUBSET Codes, scopable : BOOLEAN]
    BY <1>2, RowType
  <2> QED
    BY <2>1
<1>4. SeedOrgRoles \in Seq(Role) /\ DOMAIN SeedOrgRoles = DOMAIN Templates
  <2>1. DOMAIN Templates = 1 .. Len(Templates) /\ Len(Templates) \in Nat
    BY <1>2
  <2>2. SeedOrgRoles \in [1 .. Len(Templates) -> Role]
    BY <1>3, <2>1 DEF SeedOrgRoles, Role
  <2> QED
    BY <2>1, <2>2 DEF SeedOrgRoles
<1>5. SeedOrgRoles[1].perms = Codes
  BY <1>2, TemplatesAssumption DEF SeedOrgRoles
<1>6. Owner \in RoleIds /\ roles[Owner].perms = Codes /\ roles \in Seq(Role)
  BY <1>2, <1>4, <1>5 DEF Init, Owner, RoleIds
<1>7. grants \in Seq(Grant) /\ DOMAIN grants = {1} /\ grants[1].role = Owner /\ grants[1].scope = 0
  BY FounderAssumption DEF Init, PromoteFoundingOwner, Grant, Owner
<1>8. Tables
  BY <1>1, <1>6, <1>7 DEF Tables
<1>9. \A r \in Requests : Sound(req[r])
  BY DEF Init, Idle, Sound
<1> QED
  BY <1>8, <1>9 DEF Init, IInv, Request

\* A request that is begun with what its handler has read.
LEMMA BeginKeeps ==
    ASSUME IInv, NEW r \in Requests, NEW q \in Request, Sound(q), Begin(r, q)
    PROVE  IInv'
<1>1. UNCHANGED <<workcenters, roles, grants>> /\ req' = [req EXCEPT ![r] = q]
  BY DEF Begin
<1>2. Tables'
  BY <1>1 DEF IInv, Tables, Ids, RoleIds
<1>3. \A s \in Requests : req'[s] = q \/ req'[s] = req[s]
  BY <1>1 DEF IInv
<1>4. \A s \in Requests : Sound(req[s])'
  BY <1>1, <1>3 DEF IInv, Sound, Ids, RoleIds
<1> QED
  BY <1>1, <1>2, <1>4 DEF IInv

\* Pending requests stay sound while tables grow.
LEMMA FinishKeeps ==
    ASSUME IInv, NEW r \in Requests, Finish(r), Tables',
           Ids \subseteq Ids', RoleIds \subseteq RoleIds',
           DOMAIN grants \subseteq DOMAIN grants'
    PROVE  IInv'
<1>1. req' = [req EXCEPT ![r] = Idle]
  BY DEF Finish
<1>2. \A s \in Requests : req'[s] = Idle \/ req'[s] = req[s]
  BY <1>1 DEF IInv
<1>3. ASSUME NEW s \in Requests PROVE Sound(req[s])'
  <2>1. CASE req'[s] = Idle
    BY <2>1 DEF Sound, Idle
  <2>2. CASE req'[s] = req[s]
    BY <2>2 DEF IInv, Sound
  <2> QED
    BY <1>2, <2>1, <2>2
<1> QED
  BY <1>1, <1>3 DEF IInv, Request

Begun(r) == \E q \in Request : Sound(q) /\ Begin(r, q)

LEMMA BeginsSound ==
    ASSUME IInv, NEW r \in Requests, Begins(r)
    PROVE  Begun(r)
<1>1. Ids \subseteq Nat /\ RoleIds \subseteq Nat /\ DOMAIN grants \subseteq Nat
  BY DEF IInv, Tables, Ids, RoleIds
<1>2. \A w \in Ids : workcenters[w].parent \in Nat
  <2>1. Ids \cup {0} \subseteq Nat
    BY <1>1
  <2>2. \A w \in Ids : workcenters[w].parent \in Ids \cup {0}
    BY DEF IInv, Tables
  <2> QED
    BY <2>1, <2>2
<1>3. ASSUME NEW p \in Ids \cup {0}, BeginCreateWorkcenter(r, p) PROVE Begun(r)
  <2> DEFINE q == [op |-> "create", id |-> 0, old |-> 0, parent |-> p]
  <2>1. q \in Request /\ Sound(q) /\ Begin(r, q)
    BY <1>1, <1>3 DEF Request, Sound, BeginCreateWorkcenter
  <2> QED
    BY <2>1 DEF Begun
<1>4. ASSUME NEW w \in Ids, NEW p \in Ids \cup {0}, BeginUpdateWorkcenter(r, w, p)
      PROVE  Begun(r)
  <2> DEFINE q == [op |-> "update", id |-> w, old |-> workcenters[w].parent, parent |-> p]
  <2>1. q \in Request /\ Sound(q) /\ Begin(r, q)
    BY <1>1, <1>2, <1>4 DEF Request, Sound, BeginUpdateWorkcenter
  <2> QED
    BY <2>1 DEF Begun
<1>5. ASSUME NEW w \in Ids, BeginArchiveWorkcenter(r, w) PROVE Begun(r)
  <2> DEFINE q == [op |-> "archive", id |-> w, old |-> 0, parent |-> 0]
  <2>1. q \in Request /\ Sound(q) /\ Begin(r, q)
    BY <1>1, <1>5 DEF Request, Sound, BeginArchiveWorkcenter
  <2> QED
    BY <2>1 DEF Begun
<1>6. ASSUME NEW perms \in SUBSET Codes, NEW s \in BOOLEAN, BeginCreateRole(r, perms, s)
      PROVE  Begun(r)
  <2> DEFINE q == [op |-> "create_role", id |-> 0, perms |-> perms, scopable |-> s]
  <2>1. q \in Request /\ Sound(q) /\ Begin(r, q)
    BY <1>6 DEF Request, Sound, BeginCreateRole
  <2> QED
    BY <2>1 DEF Begun
<1>7. ASSUME NEW k \in RoleIds, NEW perms \in SUBSET Codes, NEW s \in BOOLEAN,
             BeginUpdateRole(r, k, perms, s)
      PROVE  Begun(r)
  <2> DEFINE q == [op |-> "update_role", id |-> k, perms |-> perms, scopable |-> s]
  <2>1. k = Owner => perms = Codes
    BY <1>7 DEF BeginUpdateRole, IInv, Tables
  <2>2. q \in Request /\ Sound(q) /\ Begin(r, q)
    BY <1>1, <1>7, <2>1 DEF Request, Sound, BeginUpdateRole
  <2> QED
    BY <2>2 DEF Begun
<1>8. ASSUME NEW k \in RoleIds, BeginArchiveRole(r, k) PROVE Begun(r)
  <2> DEFINE q == [op |-> "archive_role", id |-> k, perms |-> {}, scopable |-> FALSE]
  <2>1. q \in Request /\ Sound(q) /\ Begin(r, q)
    BY <1>1, <1>8 DEF Request, Sound, BeginArchiveRole
  <2> QED
    BY <2>1 DEF Begun
<1>9. ASSUME NEW m \in Members, NEW k \in RoleIds, NEW w \in Ids \cup {0},
             BeginGrantRole(r, m, k, w)
      PROVE  Begun(r)
  <2> DEFINE q == [op |-> "grant", member |-> m, role |-> k, scope |-> w]
  <2>1. Ids \cup {0} \subseteq Nat
    BY <1>1
  <2>2. k \in Nat /\ w \in Nat
    BY <1>1, <2>1
  <2>3. q \in [op : {"grant"}, member : Members, role : Nat, scope : Nat]
    BY <2>2
  <2>4. q \in Request /\ Sound(q) /\ Begin(r, q)
    BY <1>9, <2>3 DEF Request, Sound, BeginGrantRole
  <2> QED
    BY <2>4 DEF Begun
<1>10. ASSUME NEW g \in DOMAIN grants, BeginRevokeRole(r, g) PROVE Begun(r)
  <2> DEFINE q == [op |-> "revoke", id |-> g]
  <2>1. q \in Request /\ Sound(q) /\ Begin(r, q)
    BY <1>1, <1>10 DEF Request, Sound, BeginRevokeRole
  <2> QED
    BY <2>1 DEF Begun
<1> QED
  BY <1>3, <1>4, <1>5, <1>6, <1>7, <1>8, <1>9, <1>10 DEF Begins

-----------------------------------------------------------------------------
(* The commits, table by table *)

\* workcenters: a row is added, re-parented or archived.
LEMMA WorkcenterCommit ==
    ASSUME IInv, NEW r \in Requests,
           CommitCreateWorkcenter(r) \/ CommitUpdateWorkcenter(r) \/ CommitArchiveWorkcenter(r)
    PROVE  /\ IInv'
           /\ Finish(r)
           /\ UNCHANGED <<roles, grants>>
           /\ req[r].op = "create" =>
                 /\ Ids' = Ids \cup {Len(workcenters) + 1}
                 /\ Len(workcenters) + 1 \notin Ids
                 /\ workcenters'[Len(workcenters) + 1].parent \in Ids \cup {0}
                 /\ \A w \in Ids : workcenters'[w].parent = workcenters[w].parent
           /\ req[r].op # "create" => Ids' = Ids
           /\ req[r].op = "archive" =>
                 \A w \in Ids : workcenters'[w].parent = workcenters[w].parent
           /\ req[r].op = "update" =>
                 /\ \A w \in Ids \ {req[r].id} : workcenters'[w].parent = workcenters[w].parent
                 /\ \/ workcenters' = workcenters
                    \/ workcenters'[req[r].id].parent = req[r].parent
           /\ req[r].op \in {"create", "update", "archive"}
<1> DEFINE q == req[r]
           new == Len(workcenters) + 1
<1>1. workcenters \in Seq(Workcenter) /\ Sound(q) /\ Ids = DOMAIN workcenters /\ Tables
  BY DEF IInv, Tables, Ids
<1>2. Ids \cup {0} \subseteq Nat
  BY <1>1
<1>3. UNCHANGED <<roles, grants>> /\ Finish(r)
  BY DEF CommitCreateWorkcenter, CommitUpdateWorkcenter, CommitArchiveWorkcenter
<1>4. CASE CommitCreateWorkcenter(r)
  <2> DEFINE x == [parent |-> q.parent, archived |-> FALSE]
  <2>1. q.op = "create" /\ workcenters' = Append(workcenters, x)
    BY <1>4 DEF CommitCreateWorkcenter
  <2>2. q.parent \in Ids \cup {0}
    BY <1>1, <2>1 DEF Sound
  <2>3. x \in Workcenter
    <3>1. q.parent \in Nat
      BY <1>2, <2>2
    <3> QED
      BY <3>1, Zenon DEF Workcenter
  <2>4. /\ workcenters' \in Seq(Workcenter)
        /\ new \notin Ids
        /\ DOMAIN workcenters' = Ids \cup {new}
        /\ workcenters'[new] = x
        /\ \A w \in Ids : workcenters'[w] = workcenters[w]
    BY <1>1, <2>1, <2>3, Appended
  <2>5. Ids' = Ids \cup {new} /\ workcenters'[new].parent \in Ids \cup {0}
    BY <2>2, <2>4 DEF Ids
  <2>6. \A w \in Ids' : workcenters'[w].parent \in Ids' \cup {0}
    BY <1>1, <2>4, <2>5 DEF Tables
  <2>7. Tables'
    BY <1>1, <1>3, <2>4, <2>5, <2>6 DEF Tables, RoleIds
  <2>8. IInv'
    BY <1>3, <2>5, <2>7, FinishKeeps DEF RoleIds
  <2> QED
    BY <1>3, <2>1, <2>4, <2>5, <2>8
<1>5. CASE CommitUpdateWorkcenter(r)
  <2> DEFINE x == [parent |-> q.parent, archived |-> workcenters[q.id].archived]
  <2>1. /\ q.op = "update"
        /\ workcenters' = workcenters \/ workcenters' = [workcenters EXCEPT ![q.id] = x]
    BY <1>5 DEF CommitUpdateWorkcenter
  <2>2. q.id \in Ids /\ q.parent \in Ids \cup {0}
    BY <1>1, <2>1 DEF Sound
  <2>3. workcenters[q.id] \in Workcenter
    BY <1>1, <2>2, RowType
  <2>4. x \in Workcenter
    <3>1. workcenters[q.id].archived \in BOOLEAN
      BY <2>3, Zenon DEF Workcenter
    <3>2. q.parent \in Nat
      BY <1>2, <2>2
    <3> QED
      BY <3>1, <3>2, Zenon DEF Workcenter
  <2>5. /\ workcenters' \in Seq(Workcenter)
        /\ DOMAIN workcenters' = Ids
        /\ workcenters' = workcenters \/ workcenters'[q.id] = x
        /\ \A w \in Ids \ {q.id} : workcenters'[w] = workcenters[w]
    BY <1>1, <2>1, <2>2, <2>4, Overwritten
  <2>6. Ids' = Ids
    BY <2>5 DEF Ids
  <2>7. \A w \in Ids' : workcenters'[w].parent \in Ids' \cup {0}
    BY <1>1, <2>2, <2>5, <2>6 DEF Tables
  <2>8. Tables'
    BY <1>1, <1>3, <2>5, <2>6, <2>7 DEF Tables, RoleIds
  <2>9. IInv'
    BY <1>3, <2>6, <2>8, FinishKeeps DEF RoleIds
  <2> QED
    BY <1>3, <2>1, <2>5, <2>6, <2>9
<1>6. CASE CommitArchiveWorkcenter(r)
  <2> DEFINE x == [parent |-> workcenters[q.id].parent, archived |-> TRUE]
  <2>1. q.op = "archive" /\ workcenters' = [workcenters EXCEPT ![q.id] = x]
    BY <1>6 DEF CommitArchiveWorkcenter
  <2>2. q.id \in Ids
    BY <1>1, <2>1 DEF Sound
  <2>3. workcenters[q.id] \in Workcenter
    BY <1>1, <2>2, RowType
  <2>4. x \in Workcenter
    BY <2>3, Zenon DEF Workcenter
  <2>5. /\ workcenters' \in Seq(Workcenter)
        /\ DOMAIN workcenters' = Ids
        /\ workcenters'[q.id] = x
        /\ \A w \in Ids \ {q.id} : workcenters'[w] = workcenters[w]
    BY <1>1, <2>1, <2>2, <2>4, Overwritten
  <2>6. Ids' = Ids /\ \A w \in Ids : workcenters'[w].parent = workcenters[w].parent
    BY <2>5 DEF Ids
  <2>7. Tables'
    BY <1>1, <1>3, <2>5, <2>6 DEF Tables, RoleIds
  <2>8. IInv'
    BY <1>3, <2>6, <2>7, FinishKeeps DEF RoleIds
  <2> QED
    BY <1>3, <2>1, <2>6, <2>8
<1> QED
  BY <1>4, <1>5, <1>6

\* roles: a row is added, edited or archived.
LEMMA RoleCommit ==
    ASSUME IInv, NEW r \in Requests,
           CommitCreateRole(r) \/ CommitUpdateRole(r) \/ CommitArchiveRole(r)
    PROVE  /\ IInv'
           /\ Finish(r)
           /\ UNCHANGED <<workcenters, grants>>
           /\ RoleIds \subseteq RoleIds'
           /\ req[r].op \in {"create_role", "update_role", "archive_role"}
           /\ \A k \in RoleIds :
                 ~(req[r].op = "archive_role" /\ k = req[r].id) =>
                     (roles'[k].archived <=> roles[k].archived)
<1> DEFINE q == req[r]
           new == Len(roles) + 1
<1>1. roles \in Seq(Role) /\ Sound(q) /\ RoleIds = DOMAIN roles /\ Tables
  BY DEF IInv, Tables, RoleIds
<1>2. UNCHANGED <<workcenters, grants>> /\ Finish(r)
  BY DEF CommitCreateRole, CommitUpdateRole, CommitArchiveRole
<1>3. CASE CommitCreateRole(r)
  <2> DEFINE x == [builtin |-> FALSE, scopable |-> q.scopable, perms |-> q.perms,
                   archived |-> FALSE]
  <2>1. q.op = "create_role" /\ roles' = Append(roles, x)
    BY <1>3 DEF CommitCreateRole
  <2>2. x \in Role
    BY <1>1, <2>1 DEF Sound, Role
  <2>3. /\ roles' \in Seq(Role)
        /\ DOMAIN roles' = RoleIds \cup {new}
        /\ \A k \in RoleIds : roles'[k] = roles[k]
    BY <1>1, <2>1, <2>2, Appended
  <2>4. RoleIds \subseteq RoleIds'
    BY <2>3 DEF RoleIds
  <2>5. Tables'
    BY <1>1, <1>2, <2>3, <2>4 DEF Tables, Ids, Owner
  <2>6. IInv'
    BY <1>2, <2>4, <2>5, FinishKeeps DEF Ids
  <2> QED
    BY <1>2, <2>1, <2>3, <2>4, <2>6
<1>4. CASE CommitUpdateRole(r)
  <2> DEFINE x == [builtin |-> roles[q.id].builtin,
                   scopable |-> IF roles[q.id].builtin THEN roles[q.id].scopable
                                ELSE q.scopable,
                   perms |-> q.perms, archived |-> roles[q.id].archived]
  <2>1. q.op = "update_role" /\ roles' = [roles EXCEPT ![q.id] = x]
    BY <1>4 DEF CommitUpdateRole
  <2>2. /\ q.id \in RoleIds
        /\ q.perms \in SUBSET Codes
        /\ q.scopable \in BOOLEAN
        /\ q.id = Owner => q.perms = Codes
    BY <1>1, <2>1 DEF Sound
  <2>3. roles[q.id] \in Role
    BY <1>1, <2>2, RowType
  <2>4. x \in Role
    <3>1. roles[q.id].builtin \in BOOLEAN /\ roles[q.id].scopable \in BOOLEAN /\ roles[q.id].archived \in BOOLEAN
      BY <2>3 DEF Role
    <3> QED
      BY <2>2, <3>1 DEF Role
  <2>5. /\ roles' \in Seq(Role)
        /\ DOMAIN roles' = RoleIds
        /\ roles'[q.id] = x
        /\ \A k \in RoleIds \ {q.id} : roles'[k] = roles[k]
    BY <1>1, <2>1, <2>2, <2>4, Overwritten
  <2>6. RoleIds' = RoleIds
    BY <2>5 DEF RoleIds
  <2>7. roles'[Owner].perms = Codes
    BY <1>1, <2>2, <2>5 DEF Tables
  <2>8. Tables'
    BY <1>1, <1>2, <2>5, <2>6, <2>7 DEF Tables, Ids, Owner
  <2>9. IInv'
    BY <1>2, <2>6, <2>8, FinishKeeps DEF Ids
  <2>10. \A k \in RoleIds : roles'[k].archived <=> roles[k].archived
    BY <2>5
  <2> QED
    BY <1>2, <2>1, <2>6, <2>9, <2>10
<1>5. CASE CommitArchiveRole(r)
  <2> DEFINE x == [builtin |-> roles[q.id].builtin, scopable |-> roles[q.id].scopable,
                   perms |-> roles[q.id].perms, archived |-> TRUE]
  <2>1. q.op = "archive_role" /\ roles' = [roles EXCEPT ![q.id] = x]
    BY <1>5 DEF CommitArchiveRole
  <2>2. q.id \in RoleIds
    BY <1>1, <2>1 DEF Sound
  <2>3. roles[q.id] \in Role
    BY <1>1, <2>2, RowType
  <2>4. x \in Role
    BY <2>3 DEF Role
  <2>5. /\ roles' \in Seq(Role)
        /\ DOMAIN roles' = RoleIds
        /\ roles'[q.id] = x
        /\ \A k \in RoleIds \ {q.id} : roles'[k] = roles[k]
    BY <1>1, <2>1, <2>2, <2>4, Overwritten
  <2>6. RoleIds' = RoleIds /\ roles'[Owner].perms = roles[Owner].perms
    <3>1. Owner \in RoleIds
      BY <1>1 DEF Tables
    <3>2. Owner = q.id => roles'[Owner] = x
      BY <2>5
    <3>3. Owner # q.id => roles'[Owner] = roles[Owner]
      BY <2>5, <3>1
    <3> HIDE DEF q
    <3> QED
      BY <2>5, <3>2, <3>3 DEF RoleIds
  <2>7. Tables'
    BY <1>1, <1>2, <2>5, <2>6 DEF Tables, Ids, Owner
  <2>8. IInv'
    BY <1>2, <2>6, <2>7, FinishKeeps DEF Ids
  <2> QED
    BY <1>2, <2>1, <2>5, <2>6, <2>8
<1> QED
  BY <1>3, <1>4, <1>5

\* grants: a row is added, or taken away.
LEMMA GrantCommit ==
    ASSUME IInv, NEW r \in Requests, CommitGrantRole(r)
    PROVE  /\ IInv'
           /\ Finish(r)
           /\ UNCHANGED <<workcenters, roles>>
           /\ req[r].op = "grant"
           /\ Len(grants) + 1 \notin DOMAIN grants
           /\ DOMAIN grants' = DOMAIN grants \cup {Len(grants) + 1}
           /\ grants'[Len(grants) + 1].role = req[r].role
           /\ \A g \in DOMAIN grants : grants'[g] = grants[g]
<1> DEFINE q == req[r]
           x == [member |-> q.member, role |-> q.role, scope |-> q.scope, live |-> TRUE]
           new == Len(grants) + 1
<1>1. grants \in Seq(Grant) /\ Sound(q) /\ Tables
  BY DEF IInv, Tables
<1>2. /\ UNCHANGED <<workcenters, roles>>
      /\ Finish(r)
      /\ q.op = "grant"
      /\ grants' = Append(grants, x)
  BY DEF CommitGrantRole
<1>3. q.member \in Members /\ q.role \in RoleIds /\ q.scope \in Ids \cup {0}
  BY <1>1, <1>2 DEF Sound
<1>4. Ids \cup {0} \subseteq Nat /\ RoleIds \subseteq Nat
  BY <1>1 DEF Tables, Ids, RoleIds
<1>5. x \in Grant
  <2>1. q.role \in Nat /\ q.scope \in Nat
    BY <1>3, <1>4
  <2> QED
    BY <1>3, <2>1, Zenon DEF Grant
<1>6. /\ grants' \in Seq(Grant)
      /\ new \notin DOMAIN grants
      /\ DOMAIN grants' = DOMAIN grants \cup {new}
      /\ grants'[new] = x
      /\ \A g \in DOMAIN grants : grants'[g] = grants[g]
  BY <1>1, <1>2, <1>5, Appended
<1>7. \A g \in DOMAIN grants' : grants'[g].role \in RoleIds /\ grants'[g].scope \in Ids \cup {0}
  BY <1>1, <1>3, <1>6 DEF Tables
<1>8. Tables'
  BY <1>1, <1>2, <1>6, <1>7 DEF Tables, Ids, RoleIds
<1>9. IInv'
  BY <1>2, <1>6, <1>8, FinishKeeps DEF Ids, RoleIds
<1> QED
  BY <1>2, <1>6, <1>9

LEMMA RevokeCommit ==
    ASSUME IInv, NEW r \in Requests, CommitRevokeRole(r)
    PROVE  /\ IInv'
           /\ Finish(r)
           /\ UNCHANGED <<workcenters, roles>>
           /\ req[r].op = "revoke"
           /\ DOMAIN grants' = DOMAIN grants
           /\ ~grants'[req[r].id].live
           /\ \A g \in DOMAIN grants \ {req[r].id} : grants'[g] = grants[g]
<1> DEFINE q == req[r]
           x == [member |-> grants[q.id].member, role |-> grants[q.id].role,
                 scope |-> grants[q.id].scope, live |-> FALSE]
<1>1. grants \in Seq(Grant) /\ Sound(q) /\ Tables
  BY DEF IInv, Tables
<1>2. /\ UNCHANGED <<workcenters, roles>>
      /\ Finish(r)
      /\ q.op = "revoke"
      /\ grants' = [grants EXCEPT ![q.id] = x]
  BY DEF CommitRevokeRole
<1>3. q.id \in DOMAIN grants
  BY <1>1, <1>2 DEF Sound
<1>4. grants[q.id] \in Grant
  BY <1>1, <1>3, RowType
<1>5. x \in Grant
  <2>1. /\ grants[q.id].member \in Members
        /\ grants[q.id].role \in Nat
        /\ grants[q.id].scope \in Nat
    BY <1>4 DEF Grant
  <2> QED
    BY <2>1 DEF Grant
<1>6. /\ grants' \in Seq(Grant)
      /\ DOMAIN grants' = DOMAIN grants
      /\ grants'[q.id] = x
      /\ \A g \in DOMAIN grants \ {q.id} : grants'[g] = grants[g]
  BY <1>1, <1>2, <1>3, <1>5, Overwritten
<1>7. \A g \in DOMAIN grants' : grants'[g].role \in RoleIds /\ grants'[g].scope \in Ids \cup {0}
  BY <1>1, <1>3, <1>6 DEF Tables
<1>8. Tables'
  BY <1>1, <1>2, <1>6, <1>7 DEF Tables, Ids, RoleIds
<1>9. IInv'
  BY <1>2, <1>6, <1>8, FinishKeeps DEF Ids, RoleIds
<1> QED
  BY <1>2, <1>6, <1>9

LEMMA AbortKeeps ==
    ASSUME IInv, NEW r \in Requests, Abort(r)
    PROVE  IInv' /\ Finish(r) /\ UNCHANGED <<workcenters, roles, grants>>
<1>1. Finish(r) /\ UNCHANGED <<workcenters, roles, grants>>
  BY DEF Abort
<1>2. Tables' /\ Ids' = Ids /\ RoleIds' = RoleIds
  BY <1>1 DEF IInv, Tables, Ids, RoleIds
<1> QED
  BY <1>1, <1>2, FinishKeeps

LEMMA StepKeeps == IInv /\ [Next]_vars => IInv'
<1> SUFFICES ASSUME IInv, [Next]_vars PROVE IInv'
  OBVIOUS
<1>1. ASSUME NEW r \in Requests, Begins(r) PROVE IInv'
  <2>1. PICK q \in Request : Sound(q) /\ Begin(r, q)
    BY <1>1, BeginsSound DEF Begun
  <2> QED
    BY <2>1, BeginKeeps
<1>2. ASSUME NEW r \in Requests, Commits(r) PROVE IInv'
  BY <1>2, WorkcenterCommit, RoleCommit, GrantCommit, RevokeCommit DEF Commits
<1>3. ASSUME NEW r \in Requests, Abort(r) PROVE IInv'
  BY <1>3, AbortKeeps
<1>4. CASE UNCHANGED vars
  BY <1>4 DEF vars, IInv, Tables, Sound, Ids, RoleIds
<1> QED
  BY <1>1, <1>2, <1>3, <1>4 DEF Next

\* However requests interleave, the tables keep their shape and refer to rows that
\* exist: nothing a handler has read is taken out of a table before it commits.
THEOREM TypeCorrect == Spec => []TypeOK
<1>1. IInv => TypeOK
  BY DEF IInv, Tables, TypeOK
<1> QED
  BY <1>1, InitKeeps, StepKeeps, PTL DEF Spec

-----------------------------------------------------------------------------
(* With one request at a time *)

OneAtATime == \A r1, r2 \in Requests : r1 = r2

\* What a handler has checked still holds when it commits.
Fresh(q) ==
    /\ q.op = "update" /\ q.parent # 0 => q.id \notin Above(q.parent)
    /\ q.op = "archive_role" => \A g \in DOMAIN grants : grants[g].live => grants[g].role # q.id
    /\ q.op = "grant" => ~roles[q.role].archived
    /\ q.op = "revoke" => \E o \in OwnerGrants : o # q.id

SInv ==
    /\ Forest
    /\ ArchivedRolesUnheld
    /\ OwnerGrants # {}
    /\ \A r \in Requests : Fresh(req[r])

LEMMA SerialInit == Init => SInv
<1> SUFFICES ASSUME Init PROVE SInv
  OBVIOUS
<1>1. Ids = {} /\ \A r \in Requests : Fresh(req[r])
  BY DEF Init, Ids, Fresh, Idle
<1>2. DOMAIN grants = {1} /\ grants[1] = [member |-> Founder, role |-> Owner, scope |-> 0, live |-> TRUE]
  BY DEF Init, PromoteFoundingOwner
<1>3. 1 \in OwnerGrants
  BY <1>2 DEF OwnerGrants
<1>4. ~roles[Owner].archived
  BY TemplatesAssumption DEF Init, SeedOrgRoles, Owner
<1> QED
  BY <1>1, <1>2, <1>3, <1>4 DEF SInv, Forest, ArchivedRolesUnheld

LEMMA SerialBegins ==
    ASSUME IInv, SInv, OneAtATime, NEW r \in Requests, Begins(r)
    PROVE  SInv'
<1> DEFINE Fits(q) == Fresh(q) /\ Begin(r, q)
<1>1. \E q : Fits(q)
  <2>1. ASSUME NEW p \in Ids \cup {0}, BeginCreateWorkcenter(r, p) PROVE \E q : Fits(q)
    <3>1. Fits([op |-> "create", id |-> 0, old |-> 0, parent |-> p])
      BY <2>1 DEF BeginCreateWorkcenter, Fresh
    <3> QED
      BY <3>1
  <2>2. ASSUME NEW w \in Ids, NEW p \in Ids \cup {0}, BeginUpdateWorkcenter(r, w, p)
        PROVE  \E q : Fits(q)
    <3>1. Fits([op |-> "update", id |-> w, old |-> workcenters[w].parent, parent |-> p])
      BY <2>2 DEF BeginUpdateWorkcenter, Fresh
    <3> QED
      BY <3>1
  <2>3. ASSUME NEW w \in Ids, BeginArchiveWorkcenter(r, w) PROVE \E q : Fits(q)
    <3>1. Fits([op |-> "archive", id |-> w, old |-> 0, parent |-> 0])
      BY <2>3 DEF BeginArchiveWorkcenter, Fresh
    <3> QED
      BY <3>1
  <2>4. ASSUME NEW perms \in SUBSET Codes, NEW s \in BOOLEAN, BeginCreateRole(r, perms, s)
        PROVE  \E q : Fits(q)
    <3>1. Fits([op |-> "create_role", id |-> 0, perms |-> perms, scopable |-> s])
      BY <2>4 DEF BeginCreateRole, Fresh
    <3> QED
      BY <3>1
  <2>5. ASSUME NEW k \in RoleIds, NEW perms \in SUBSET Codes, NEW s \in BOOLEAN,
               BeginUpdateRole(r, k, perms, s)
        PROVE  \E q : Fits(q)
    <3>1. Fits([op |-> "update_role", id |-> k, perms |-> perms, scopable |-> s])
      BY <2>5 DEF BeginUpdateRole, Fresh
    <3> QED
      BY <3>1
  <2>6. ASSUME NEW k \in RoleIds, BeginArchiveRole(r, k) PROVE \E q : Fits(q)
    <3>1. Fits([op |-> "archive_role", id |-> k, perms |-> {}, scopable |-> FALSE])
      BY <2>6 DEF BeginArchiveRole, Fresh
    <3> QED
      BY <3>1
  <2>7. ASSUME NEW m \in Members, NEW k \in RoleIds, NEW w \in Ids \cup {0},
               BeginGrantRole(r, m, k, w)
        PROVE  \E q : Fits(q)
    <3>1. Fits([op |-> "grant", member |-> m, role |-> k, scope |-> w])
      BY <2>7 DEF BeginGrantRole, Fresh
    <3> QED
      BY <3>1
  <2>8. ASSUME NEW g \in DOMAIN grants, BeginRevokeRole(r, g) PROVE \E q : Fits(q)
    <3>1. \E o \in OwnerGrants : o # g
      <4>1. CASE grants[g].scope = 0 /\ grants[g].role = Owner
        <5>1. g \in OwnerGrants
          BY <2>8, <4>1 DEF BeginRevokeRole, OwnerGrants
        <5>2. OwnerGrants # {g}
          BY <2>8, <4>1, <5>1 DEF BeginRevokeRole
        <5> QED
          BY <5>1, <5>2
      <4>2. CASE ~(grants[g].scope = 0 /\ grants[g].role = Owner)
        <5>1. g \notin OwnerGrants
          BY <4>2 DEF OwnerGrants
        <5> QED
          BY <5>1 DEF SInv
      <4> QED
        BY <4>1, <4>2
    <3>2. Fits([op |-> "revoke", id |-> g])
      BY <2>8, <3>1 DEF BeginRevokeRole, Fresh
    <3> QED
      BY <3>2
  <2> HIDE DEF Fits
  <2> QED
    BY <2>1, <2>2, <2>3, <2>4, <2>5, <2>6, <2>7, <2>8 DEF Begins
<1>2. PICK q : Fresh(q) /\ Begin(r, q)
  BY <1>1
<1>3. UNCHANGED <<workcenters, roles, grants>> /\ req' = [req EXCEPT ![r] = q]
  BY <1>2 DEF Begin
<1>4. \A s \in Requests : req'[s] = q
  BY <1>3 DEF OneAtATime, IInv
<1>5. \A s \in Requests : Fresh(req[s])'
  BY <1>2, <1>3, <1>4 DEF Fresh, Above, Parents, Ids, OwnerGrants
<1> QED
  BY <1>3, <1>5 DEF SInv, Forest, Ids, ArchivedRolesUnheld, OwnerGrants

\* With one slot, nothing is pending when a request has ended.
LEMMA SlotFreed ==
    ASSUME IInv, OneAtATime, NEW r \in Requests, Finish(r)
    PROVE  \A s \in Requests : Fresh(req[s])'
<1>1. \A s \in Requests : req'[s] = Idle
  BY DEF OneAtATime, IInv, Finish
<1> QED
  BY <1>1 DEF Fresh, Idle

-----------------------------------------------------------------------------
(* The forest *)

\* The walk up from p begins at p and takes in the parent of all it meets.
LEMMA AboveClosed ==
    ASSUME NEW p \in Ids
    PROVE  /\ p \in Above(p)
           /\ \A a \in Above(p) : Parents(a) \subseteq Above(p)
<1>1. p \in Above(p)
  BY DEF Above
<1>2. ASSUME NEW a \in Above(p), NEW b \in Parents(a)
      PROVE  b \in Above(p)
  <2>1. b \in Ids
    BY DEF Parents
  <2>2. ASSUME NEW S \in SUBSET Ids, p \in S, \A x \in S : Parents(x) \subseteq S
        PROVE  b \in S
    BY <2>2 DEF Above
  <2> QED
    BY <2>1, <2>2 DEF Above
<1> QED
  BY <1>1, <1>2

\* What hangs below a workcenter outside of the walk up from its new parent is moved
\* there without closing a circle.
LEMMA MoveKeepsForest ==
    ASSUME Forest, NEW w \in Ids, NEW p \in Ids \cup {0}, 0 \notin Ids,
           p # 0 => w \notin Above(p),
           Ids' = Ids,
           workcenters'[w].parent = p,
           \A x \in Ids \ {w} : workcenters'[x].parent = workcenters[x].parent
    PROVE  Forest'
<1> SUFFICES ASSUME NEW S \in SUBSET Ids, S # {}
             PROVE  \E x \in S : workcenters'[x].parent \notin S
  BY DEF Forest
<1>1. CASE w \notin S
  BY <1>1 DEF Forest
<1>2. CASE w \in S /\ p \notin S
  BY <1>2
<1>3. CASE w \in S /\ p \in S
  <2> DEFINE A == Above(p) \cap S
  <2>1. p \in Ids /\ w \notin A
    BY <1>3
  <2>2. p \in A
    BY <1>3, <2>1, AboveClosed
  <2>3. PICK x \in A : workcenters[x].parent \notin A
    BY <2>2 DEF Forest
  <2>4. x \in Ids /\ x # w /\ x \in S /\ x \in Above(p)
    BY <2>1, <2>3
  <2>5. workcenters[x].parent \notin S
    <3> SUFFICES ASSUME workcenters[x].parent \in S PROVE FALSE
      OBVIOUS
    <3>1. workcenters[x].parent \in Parents(x)
      BY DEF Parents
    <3>2. workcenters[x].parent \in Above(p)
      BY <2>1, <2>4, <3>1, AboveClosed
    <3> QED
      BY <2>3, <3>2
  <2> QED
    BY <2>4, <2>5
<1> QED
  BY <1>1, <1>2, <1>3

\* A new workcenter has nothing below it.
LEMMA AdditionKeepsForest ==
    ASSUME Forest, NEW n, n \notin Ids, n # 0,
           \A w \in Ids : workcenters[w].parent \in Ids \cup {0},
           Ids' = Ids \cup {n},
           workcenters'[n].parent \in Ids \cup {0},
           \A x \in Ids : workcenters'[x].parent = workcenters[x].parent
    PROVE  Forest'
<1> SUFFICES ASSUME NEW S \in SUBSET (Ids \cup {n}), S # {}
             PROVE  \E x \in S : workcenters'[x].parent \notin S
  BY DEF Forest
<1>1. CASE S = {n}
  BY <1>1
<1>2. CASE S # {n}
  <2> DEFINE T == S \ {n}
  <2>1. T \in SUBSET Ids /\ T # {}
    BY <1>2
  <2>2. PICK x \in T : workcenters[x].parent \notin T
    BY <2>1 DEF Forest
  <2>3. workcenters[x].parent # n
    BY <2>1, <2>2
  <2> QED
    BY <2>1, <2>2, <2>3
<1> QED
  BY <1>1, <1>2

LEMMA WorkcentersSerial ==
    ASSUME IInv, SInv, OneAtATime, NEW r \in Requests,
           CommitCreateWorkcenter(r) \/ CommitUpdateWorkcenter(r) \/ CommitArchiveWorkcenter(r)
    PROVE  SInv'
<1> DEFINE q == req[r]
<1>1. 0 \notin Ids /\ Len(workcenters) + 1 # 0
  BY DEF IInv, Tables, Ids
<1>2. Sound(q) /\ Fresh(q) /\ Forest /\ Tables
  BY DEF IInv, SInv
<1>3. CASE q.op = "create"
  <2>1. Forest'
    BY <1>1, <1>2, <1>3, WorkcenterCommit, AdditionKeepsForest DEF Tables
  <2> QED
    BY <2>1, WorkcenterCommit, SlotFreed DEF SInv, ArchivedRolesUnheld, OwnerGrants
<1>4. CASE q.op = "update"
  <2>1. q.id \in Ids /\ q.parent \in Ids \cup {0} /\ (q.parent # 0 => q.id \notin Above(q.parent))
    BY <1>2, <1>4 DEF Sound, Fresh
  <2>2. CASE workcenters' = workcenters
    <3>1. Forest'
      BY <1>2, <2>2 DEF Forest, Ids
    <3> QED
      BY <3>1, WorkcenterCommit, SlotFreed DEF SInv, ArchivedRolesUnheld, OwnerGrants
  <2>3. CASE workcenters'[q.id].parent = q.parent
    <3>1. /\ Ids' = Ids
          /\ \A x \in Ids \ {q.id} : workcenters'[x].parent = workcenters[x].parent
      BY <1>4, WorkcenterCommit
    <3>2. Forest'
      BY <1>1, <1>2, <2>1, <2>3, <3>1, MoveKeepsForest
    <3> QED
      BY <3>2, WorkcenterCommit, SlotFreed DEF SInv, ArchivedRolesUnheld, OwnerGrants
  <2> QED
    BY <1>4, <2>2, <2>3, WorkcenterCommit
<1>5. CASE q.op = "archive"
  <2>1. Ids' = Ids /\ \A x \in Ids : workcenters'[x].parent = workcenters[x].parent
    BY <1>5, WorkcenterCommit
  <2>2. Forest'
    BY <1>2, <2>1 DEF Forest
  <2> QED
    BY <2>2, WorkcenterCommit, SlotFreed DEF SInv, ArchivedRolesUnheld, OwnerGrants
<1> QED
  BY <1>3, <1>4, <1>5, WorkcenterCommit

-----------------------------------------------------------------------------
(* Roles and who holds them *)

LEMMA RolesSerial ==
    ASSUME IInv, SInv, OneAtATime, NEW r \in Requests,
           CommitCreateRole(r) \/ CommitUpdateRole(r) \/ CommitArchiveRole(r)
    PROVE  SInv'
<1>1. Forest' /\ OwnerGrants' # {}
  BY RoleCommit DEF SInv, Forest, Ids, OwnerGrants
<1>2. ASSUME NEW g \in DOMAIN grants, grants[g].live
      PROVE  ~roles'[grants[g].role].archived
  <2>1. grants[g].role \in RoleIds /\ ~roles[grants[g].role].archived
    BY <1>2 DEF IInv, Tables, SInv, ArchivedRolesUnheld
  <2>2. ~(req[r].op = "archive_role" /\ grants[g].role = req[r].id)
    BY <1>2 DEF SInv, Fresh
  <2> QED
    BY <2>1, <2>2, RoleCommit
<1>3. ArchivedRolesUnheld'
  BY <1>2, RoleCommit DEF ArchivedRolesUnheld
<1> QED
  BY <1>1, <1>3, RoleCommit, SlotFreed DEF SInv

LEMMA GrantSerial ==
    ASSUME IInv, SInv, OneAtATime, NEW r \in Requests, CommitGrantRole(r)
    PROVE  SInv'
<1>1. Forest'
  BY GrantCommit DEF SInv, Forest, Ids
<1>2. OwnerGrants \subseteq OwnerGrants'
  BY GrantCommit DEF OwnerGrants
<1>3. ~roles[req[r].role].archived
  BY GrantCommit DEF SInv, Fresh
<1>4. ArchivedRolesUnheld'
  BY <1>3, GrantCommit DEF SInv, ArchivedRolesUnheld
<1> QED
  BY <1>1, <1>2, <1>4, GrantCommit, SlotFreed DEF SInv

LEMMA RevokeSerial ==
    ASSUME IInv, SInv, OneAtATime, NEW r \in Requests, CommitRevokeRole(r)
    PROVE  SInv'
<1>1. Forest'
  BY RevokeCommit DEF SInv, Forest, Ids
<1>2. PICK o \in OwnerGrants : o # req[r].id
  BY RevokeCommit DEF SInv, Fresh
<1>3. o \in OwnerGrants'
  BY <1>2, RevokeCommit DEF OwnerGrants
<1>4. ArchivedRolesUnheld'
  BY RevokeCommit DEF SInv, ArchivedRolesUnheld
<1> QED
  BY <1>1, <1>3, <1>4, RevokeCommit, SlotFreed DEF SInv

LEMMA SerialKeeps ==
    ASSUME OneAtATime
    PROVE  IInv /\ SInv /\ [Next]_vars => SInv'
<1> SUFFICES ASSUME IInv, SInv, [Next]_vars PROVE SInv'
  OBVIOUS
<1>1. ASSUME NEW r \in Requests, Begins(r) PROVE SInv'
  BY <1>1, SerialBegins
<1>2. ASSUME NEW r \in Requests, Commits(r) PROVE SInv'
  BY <1>2, WorkcentersSerial, RolesSerial, GrantSerial, RevokeSerial DEF Commits
<1>3. ASSUME NEW r \in Requests, Abort(r) PROVE SInv'
  BY <1>3, AbortKeeps, SlotFreed DEF SInv, Forest, Ids, ArchivedRolesUnheld, OwnerGrants
<1>4. CASE UNCHANGED vars
  BY <1>4 DEF vars, SInv, Forest, Ids, ArchivedRolesUnheld, OwnerGrants, Fresh, Above, Parents
<1> QED
  BY <1>1, <1>2, <1>3, <1>4 DEF Next

\* "Loops shouldn't exist": with one request at a time no chain of creating, moving
\* and archiving closes a circle of workcenters, however many there are.  Two that
\* move workcenters below each other in overlapping requests close one.
THEOREM WorkcentersFormForest ==
    ASSUME OneAtATime
    PROVE  Spec => []Forest
<1>1. IInv /\ SInv /\ [Next]_vars => SInv'
  BY SerialKeeps
<1>2. SInv => Forest
  BY DEF SInv
<1> QED
  BY <1>1, <1>2, InitKeeps, SerialInit, StepKeeps, PTL DEF Spec

\* With one request at a time nobody holds a role that is archived.
THEOREM ArchivedRolesStayUnheld ==
    ASSUME OneAtATime
    PROVE  Spec => []ArchivedRolesUnheld
<1>1. IInv /\ SInv /\ [Next]_vars => SInv'
  BY SerialKeeps
<1>2. SInv => ArchivedRolesUnheld
  BY DEF SInv
<1> QED
  BY <1>1, <1>2, InitKeeps, SerialInit, StepKeeps, PTL DEF Spec

\* With one request at a time some member keeps every permission of the catalog,
\* whatever roles are edited and grants taken away: the last owner's cannot be, and
\* the owner role's permissions stay as they are.
THEOREM SomebodyAdministers ==
    ASSUME OneAtATime
    PROVE  Spec => []Administrable
<1>1. IInv /\ SInv /\ [Next]_vars => SInv'
  BY SerialKeeps
<1>2. IInv /\ SInv => Administrable
  <2> SUFFICES ASSUME IInv, SInv PROVE Administrable
    OBVIOUS
  <2>1. PICK o \in OwnerGrants : TRUE
    BY DEF SInv
  <2>2. /\ o \in DOMAIN grants
        /\ grants[o].live
        /\ roles[grants[o].role].perms = Codes
        /\ grants[o].scope = 0
    BY DEF OwnerGrants, IInv, Tables
  <2>3. grants[o].member \in Members
    <3>1. grants[o] \in Grant
      BY <2>2, RowType DEF IInv, Tables
    <3> QED
      BY <3>1 DEF Grant
  <2>4. \A code \in Codes : code \in EffectivePermissions(grants[o].member, 0)
    BY <2>2 DEF EffectivePermissions
  <2> QED
    BY <2>3, <2>4 DEF Administrable, HasPermission
<1> QED
  BY <1>1, <1>2, InitKeeps, SerialInit, StepKeeps, PTL DEF Spec

-----------------------------------------------------------------------------
(* The walk and the subtrees *)

LEMMA Least ==
    ASSUME NEW T \in SUBSET Nat, T # {}
    PROVE  \E x \in T : \A y \in T : x <= y
<1> DEFINE R == OpToRel(<, Nat)
<1>1. IsWellFoundedOn(R, Nat)
  BY NatLessThanWellFounded
<1>2. \A x, y \in Nat : <<x, y>> \in R <=> x < y
  BY DEF OpToRel
<1> HIDE DEF R
<1>3. PICK x \in T : \A y \in T : ~ (<<y, x>> \in R)
  BY <1>1, WFMin
<1>4. ASSUME NEW y \in T PROVE x <= y
  <2>1. x \in Nat /\ y \in Nat
    OBVIOUS
  <2>2. ~(y < x)
    BY <1>2, <1>3, <2>1
  <2> QED
    BY <2>1, <2>2
<1> QED
  BY <1>4

\* Induction over the natural numbers, for a set.
LEMMA Induction ==
    ASSUME NEW S, 0 \in S, \A n \in Nat : n \in S => n + 1 \in S
    PROVE  Nat \subseteq S
<1> DEFINE T == Nat \ S
<1>1. SUFFICES ASSUME T # {} PROVE FALSE
  OBVIOUS
<1>2. PICK x \in T : \A y \in T : x <= y
  BY <1>1, Least
<1>3. x - 1 \in Nat /\ x - 1 \notin T
  BY <1>2
<1> QED
  BY <1>2, <1>3

\* The set after one more step of the walk.
Step(S) == S \cup UNION {Parents(x) : x \in S}

\* The walk, as far as the n-th step, is what its definition says.
IsWalk(f, w, n) ==
    /\ DOMAIN f = 0 .. n
    /\ f[0] = {w}
    /\ \A i \in 1 .. n : f[i] = Step(f[i - 1])

LEMMA WalkExists ==
    ASSUME NEW w \in Ids, NEW n \in Nat
    PROVE  \E f : IsWalk(f, w, n)
<1> DEFINE S == {k \in Nat : \E f : IsWalk(f, w, k)}
<1>1. 0 \in S
  <2> DEFINE f == [i \in 0 .. 0 |-> {w}]
  <2>1. IsWalk(f, w, 0)
    BY DEF IsWalk
  <2> QED
    BY <2>1
<1>2. ASSUME NEW k \in Nat, k \in S
      PROVE  k + 1 \in S
  <2>1. PICK f : IsWalk(f, w, k)
    BY <1>2
  <2> DEFINE g == [i \in 0 .. k + 1 |-> IF i = k + 1 THEN Step(f[k]) ELSE f[i]]
  <2>3. /\ DOMAIN g = 0 .. k + 1
        /\ g[0] = {w}
        /\ \A i \in 0 .. k : g[i] = f[i]
        /\ g[k + 1] = Step(f[k])
    BY <2>1 DEF IsWalk
  <2> HIDE DEF g
  <2>5. ASSUME NEW i \in 1 .. k + 1
        PROVE  g[i] = Step(g[i - 1])
    <3>1. CASE i = k + 1
      BY <2>3, <3>1
    <3>2. CASE i # k + 1
      <4>1. i \in 1 .. k /\ i \in 0 .. k /\ i - 1 \in 0 .. k
        BY <3>2
      <4> QED
        BY <2>1, <2>3, <4>1 DEF IsWalk
    <3> QED
      BY <3>1, <3>2
  <2>6. IsWalk(g, w, k + 1)
    BY <2>3, <2>5 DEF IsWalk
  <2> QED
    BY <2>6
<1> HIDE DEF S
<1>3. Nat \subseteq S
  BY <1>1, <1>2, Induction
<1> QED
  BY <1>3 DEF S

\* What has_permission walks is such a walk, of as many steps as there are rows.
LEMMA WalkOfAncestors ==
    ASSUME NEW w \in Ids, Len(workcenters) \in Nat
    PROVE  \E f : IsWalk(f, w, Len(workcenters)) /\ WorkcenterAncestors(w) = f[Len(workcenters)]
<1> DEFINE n == Len(workcenters)
           Rule(f) == [i \in 0 .. n |->
                          IF i = 0 THEN {w}
                          ELSE f[i - 1] \cup UNION {Parents(x) : x \in f[i - 1]}]
           up == CHOOSE f : f = Rule(f)
<1>1. PICK f : IsWalk(f, w, n)
  BY WalkExists
<1>2. f = Rule(f)
  <2>1. \A i \in 1 .. n : f[i] = f[i - 1] \cup UNION {Parents(x) : x \in f[i - 1]}
    BY <1>1 DEF IsWalk, Step
  <2>2. \A i \in 0 .. n : i # 0 => i \in 1 .. n
    OBVIOUS
  <2>3. \A i \in 0 .. n : f[i] = IF i = 0 THEN {w}
                                 ELSE f[i - 1] \cup UNION {Parents(x) : x \in f[i - 1]}
    BY <1>1, <2>1, <2>2 DEF IsWalk
  <2>4. f = [i \in 0 .. n |-> f[i]]
    BY <1>1 DEF IsWalk
  <2> QED
    BY <2>3, <2>4
<1>3. WorkcenterAncestors(w) = up[n]
  BY DEF WorkcenterAncestors
<1>4. PICK g : g = up
  OBVIOUS
<1>5. g = Rule(g)
  BY <1>2, <1>4
<1> HIDE DEF up
<1>6. IsWalk(g, w, n)
  <2>1. DOMAIN g = 0 .. n
    BY <1>5
  <2>2. g[0] = {w}
    BY <1>5
  <2>3. ASSUME NEW i \in 1 .. n
        PROVE  g[i] = g[i - 1] \cup UNION {Parents(x) : x \in g[i - 1]}
    <3>1. i \in 0 .. n /\ i # 0
      OBVIOUS
    <3> QED
      BY <1>5, <3>1
  <2> QED
    BY <2>1, <2>2, <2>3 DEF IsWalk, Step
<1> QED
  BY <1>3, <1>4, <1>6

\* The walk stays within every set that has w and, with a workcenter, its parent.
LEMMA WalkWithin ==
    ASSUME NEW w \in Ids, NEW n \in Nat, NEW f, IsWalk(f, w, n),
           NEW S, w \in S, \A x \in S : Parents(x) \subseteq S
    PROVE  \A i \in 0 .. n : f[i] \subseteq S
<1> DEFINE T == {i \in Nat : i <= n => f[i] \subseteq S}
<1>1. 0 \in T
  BY DEF IsWalk
<1>2. ASSUME NEW i \in Nat, i \in T
      PROVE  i + 1 \in T
  <2> SUFFICES ASSUME i + 1 <= n PROVE f[i + 1] \subseteq S
    OBVIOUS
  <2>1. i + 1 \in 1 .. n /\ (i + 1) - 1 = i /\ f[i] \subseteq S
    BY <1>2
  <2>2. f[i + 1] = Step(f[i])
    BY <2>1 DEF IsWalk
  <2> QED
    BY <2>1, <2>2 DEF Step
<1> HIDE DEF T
<1>3. Nat \subseteq T
  BY <1>1, <1>2, Induction
<1> QED
  BY <1>3 DEF T

\* When nothing is added any more, nothing will be.
Ended(S) == Step(S) = S

\* A walk adds a workcenter with each step until it has ended.
LEMMA WalkGrows ==
    ASSUME NEW w \in Ids, NEW n \in Nat, NEW f, IsWalk(f, w, n), IsFiniteSet(Ids)
    PROVE  \A i \in 0 .. n : Ended(f[i]) \/ Cardinality(f[i]) > i
<1> DEFINE T == {i \in Nat : i <= n => Ended(f[i]) \/ Cardinality(f[i]) > i}
<1>0. \A i \in 0 .. n : f[i] \subseteq Ids
  BY WalkWithin DEF Parents
<1>1. 0 \in T
  <2>1. Cardinality({w}) = 1
    BY FS_Singleton
  <2>2. f[0] = {w}
    BY DEF IsWalk
  <2>3. Cardinality(f[0]) > 0
    BY <2>1, <2>2
  <2> QED
    BY <2>3
<1>2. ASSUME NEW i \in Nat, i \in T
      PROVE  i + 1 \in T
  <2> SUFFICES ASSUME i + 1 <= n PROVE Ended(f[i + 1]) \/ Cardinality(f[i + 1]) > i + 1
    OBVIOUS
  <2>1. /\ i + 1 \in 1 .. n /\ (i + 1) - 1 = i
        /\ i \in 0 .. n /\ i + 1 \in 0 .. n
        /\ Ended(f[i]) \/ Cardinality(f[i]) > i
    BY <1>2
  <2>2. f[i + 1] = Step(f[i])
    BY <2>1 DEF IsWalk
  <2>3. CASE Ended(f[i])
    BY <2>2, <2>3 DEF Ended
  <2>4. CASE ~Ended(f[i])
    <3> DEFINE A == f[i]
               B == f[i + 1]
    <3>1. B # A /\ A \subseteq B
      BY <2>2, <2>4 DEF Ended, Step
    <3>2. IsFiniteSet(B)
      BY <1>0, <2>1, FS_Subset
    <3> HIDE DEF A, B
    <3>3. IsFiniteSet(A) /\ Cardinality(A) <= Cardinality(B) /\ Cardinality(A) # Cardinality(B)
      BY <3>1, <3>2, FS_Subset
    <3>4. Cardinality(A) \in Nat /\ Cardinality(B) \in Nat
      BY <3>2, <3>3, FS_CardinalityType
    <3> QED
      BY <2>1, <2>4, <3>3, <3>4 DEF A, B
  <2> QED
    BY <2>3, <2>4
<1> HIDE DEF T
<1>3. Nat \subseteq T
  BY <1>1, <1>2, Induction
<1> QED
  BY <1>3 DEF T

LEMMA WalkIncreases ==
    ASSUME NEW w \in Ids, NEW n \in Nat, NEW f, IsWalk(f, w, n)
    PROVE  w \in f[n]
<1> DEFINE T == {i \in Nat : i <= n => w \in f[i]}
<1>1. 0 \in T
  BY DEF IsWalk
<1>2. ASSUME NEW i \in Nat, i \in T
      PROVE  i + 1 \in T
  <2> SUFFICES ASSUME i + 1 <= n PROVE w \in f[i + 1]
    OBVIOUS
  <2>1. i + 1 \in 1 .. n /\ (i + 1) - 1 = i /\ w \in f[i]
    BY <1>2
  <2>2. f[i + 1] = Step(f[i])
    BY <2>1 DEF IsWalk
  <2> QED
    BY <2>1, <2>2 DEF Step
<1> HIDE DEF T
<1>3. Nat \subseteq T
  BY <1>1, <1>2, Induction
<1> QED
  BY <1>3 DEF T

\* The walk of has_permission finds the workcenters above, all of them: there are
\* not enough rows for it to go on.
LEMMA AncestorsAbove ==
    ASSUME Tables, NEW w \in Ids
    PROVE  WorkcenterAncestors(w) = Above(w)
<1> DEFINE n == Len(workcenters)
<1>1. n \in Nat /\ Ids = 1 .. n
  BY DEF Tables, Ids
<1>2. PICK f : IsWalk(f, w, n) /\ WorkcenterAncestors(w) = f[n]
  BY <1>1, WalkOfAncestors
<1> HIDE DEF n
<1>3. IsFiniteSet(Ids) /\ Cardinality(Ids) = n
  <2>1. IsFiniteSet(1 .. n) /\ Cardinality(1 .. n) = IF 1 > n THEN 0 ELSE n - 1 + 1
    BY <1>1, FS_Interval
  <2> QED
    BY <1>1, <2>1
<1> DEFINE A == f[n]
<1>4. A \subseteq Ids
  <2>1. n \in 0 .. n /\ \A x \in Ids : Parents(x) \subseteq Ids
    BY <1>1 DEF Parents
  <2>2. \A i \in 0 .. n : f[i] \subseteq Ids
    BY <1>1, <1>2, <2>1, WalkWithin
  <2> QED
    BY <2>1, <2>2
<1>5. Ended(A)
  <2>1. Ended(A) \/ Cardinality(A) > n
    BY <1>1, <1>3, <1>2, WalkGrows
  <2>2. Cardinality(A) <= n /\ Cardinality(A) \in Nat
    BY <1>3, <1>4, FS_Subset, FS_CardinalityType
  <2> HIDE DEF A
  <2> QED
    BY <1>1, <2>1, <2>2
<1>6. w \in A
  BY <1>1, <1>2, WalkIncreases
<1>7. \A x \in A : Parents(x) \subseteq A
  BY <1>5 DEF Ended, Step
<1>8. ASSUME NEW a \in A, NEW S \in SUBSET Ids, w \in S, \A x \in S : Parents(x) \subseteq S
      PROVE  a \in S
  <2>1. \A i \in 0 .. n : f[i] \subseteq S
    BY <1>1, <1>2, <1>8, WalkWithin
  <2>2. n \in 0 .. n
    BY <1>1
  <2> QED
    BY <2>1, <2>2
<1> HIDE DEF A
<1>9. A = Above(w)
  BY <1>4, <1>6, <1>7, <1>8 DEF Above
<1> QED
  BY <1>2, <1>9 DEF A

\* One is above the other just when that is below the one: what is closed upwards has
\* a complement that is closed downwards.
LEMMA AboveIsBelow ==
    ASSUME NEW w \in Ids, NEW a \in Ids
    PROVE  a \in Above(w) <=> w \in Subtree(a)
<1>1. ASSUME a \in Above(w), NEW S \in SUBSET Ids, a \in S,
             \A c \in Ids : workcenters[c].parent \in S => c \in S
      PROVE  w \in S
  <2> SUFFICES ASSUME w \notin S PROVE FALSE
    OBVIOUS
  <2> DEFINE T == Ids \ S
  <2>1. T \in SUBSET Ids /\ w \in T /\ a \notin T
    BY <1>1
  <2>2. \A x \in T : Parents(x) \subseteq T
    BY <1>1 DEF Parents
  <2> HIDE DEF T
  <2> QED
    BY <1>1, <2>1, <2>2 DEF Above
<1>2. ASSUME w \in Subtree(a), NEW S \in SUBSET Ids, w \in S,
             \A x \in S : Parents(x) \subseteq S
      PROVE  a \in S
  <2> SUFFICES ASSUME a \notin S PROVE FALSE
    OBVIOUS
  <2> DEFINE T == Ids \ S
  <2>1. T \in SUBSET Ids /\ a \in T /\ w \notin T
    BY <1>2
  <2>2. ASSUME NEW c \in Ids, workcenters[c].parent \in T
        PROVE  c \in T
    BY <1>2, <2>2 DEF Parents
  <2> HIDE DEF T
  <2> QED
    BY <1>2, <2>1, <2>2 DEF Subtree
<1>3. a \in Above(w) => w \in Subtree(a)
  BY <1>1 DEF Subtree
<1>4. w \in Subtree(a) => a \in Above(w)
  BY <1>2 DEF Above
<1> QED
  BY <1>3, <1>4

\* "A grant on a parent workcenter is honoured for descendants", and for nothing else,
\* however many workcenters there are, however deep, and even if moves that overlap
\* have closed a circle of them.
THEOREM GrantsReachDown == Spec => []CoversSubtree
<1>1. IInv => CoversSubtree
  <2> SUFFICES ASSUME IInv, NEW m \in Members, NEW code \in Codes, NEW w \in Ids
               PROVE  HasPermission(m, code, w) <=>
                        \E g \in DOMAIN grants :
                            /\ grants[g].live
                            /\ grants[g].member = m
                            /\ code \in roles[grants[g].role].perms
                            /\ grants[g].scope = 0 \/ w \in Subtree(grants[g].scope)
    BY DEF CoversSubtree
  <2> DEFINE Gives(g) == /\ grants[g].live
                         /\ grants[g].member = m
                         /\ code \in roles[grants[g].role].perms
  <2>1. \A scope : code \in EffectivePermissions(m, scope) <=>
                      \E g \in DOMAIN grants : Gives(g) /\ grants[g].scope = scope
    BY DEF EffectivePermissions
  <2>2. WorkcenterAncestors(w) = Above(w) /\ Above(w) \subseteq Ids
    BY AncestorsAbove DEF IInv, Above
  <2>3. w # 0 /\ 0 \notin Ids
    BY DEF IInv, Tables, Ids
  <2>4. \A g \in DOMAIN grants : grants[g].scope \in Ids \cup {0}
    BY DEF IInv, Tables
  <2>5. \A a \in Ids : a \in Above(w) <=> w \in Subtree(a)
    BY AboveIsBelow
  <2> HIDE DEF Gives
  <2>6. HasPermission(m, code, w) <=>
            \/ \E g \in DOMAIN grants : Gives(g) /\ grants[g].scope = 0
            \/ \E a \in Above(w) : \E g \in DOMAIN grants : Gives(g) /\ grants[g].scope = a
    BY <2>1, <2>2, <2>3 DEF HasPermission
  <2>7. (\E a \in Above(w) : \E g \in DOMAIN grants : Gives(g) /\ grants[g].scope = a)
          <=> \E g \in DOMAIN grants :
                 Gives(g) /\ grants[g].scope \in Ids /\ w \in Subtree(grants[g].scope)
    BY <2>2, <2>5
  <2>8. ASSUME NEW g \in DOMAIN grants, w \in Subtree(grants[g].scope), grants[g].scope # 0
        PROVE  grants[g].scope \in Ids
    BY <2>4, <2>8
  <2>9. HasPermission(m, code, w) <=>
            \E g \in DOMAIN grants :
                Gives(g) /\ (grants[g].scope = 0 \/ w \in Subtree(grants[g].scope))
    BY <2>4, <2>6, <2>7
  <2> QED
    BY <2>9 DEF Gives
<1> QED
  BY <1>1, InitKeeps, StepKeeps, PTL DEF Spec

=============================================================================
