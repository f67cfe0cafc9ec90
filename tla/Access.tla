------------------------------- MODULE Access -------------------------------
(***************************************************************************)
(* Organizations, their members and owners, invitations, and the sessions  *)
(* that bind a browser to a membership (app/routes/onboarding.py, the      *)
(* member and invite pages of app/routes/admin.py, app/routes/auth.py,     *)
(* app/auth/sessions.py, app/auth/invites.py, app/middleware.py).          *)
(*                                                                         *)
(* A membership is unique per organization and user, so it is a status in  *)
(* the organization's record here, not a row.  The database refuses a      *)
(* commit that would break that index or a foreign key: the request is     *)
(* then rolled back.  As in Worklists, Begin... reads and Commit... writes *)
(* what was read, in one transaction.                                      *)
(*                                                                         *)
(* The paths under /auth/ are served outside that transaction: the session *)
(* get_db opens for them is never committed.  What they store is lost, and *)
(* only the cookie they send remains.                                      *)
(*                                                                         *)
(* Roles other than owner and administrator grant nothing here; editing    *)
(* roles, and workcenters, are left out.                                   *)
(***************************************************************************)
EXTENDS Integers, Sequences, FiniteSets

CONSTANTS
    Requests,       \* slots for requests being served at the same time
    Users,
    Founders,       \* the founder of each organization there is at first
    Devices,        \* the user of each browser, and the organization its first
                    \* session is bound to
    MaxOrgs,        \* bound on the organizations ever made
    MaxGrants,      \* bound on the rows of membership_roles
    MaxSessions,    \* bound on the rows of user_sessions
    MaxInvites,     \* bound on the rows of org_invites
    None            \* no cookie

ASSUME FoundersAssumption == Founders \in Seq(Users)
ASSUME DevicesAssumption ==
    /\ Devices \in Seq([user : Users, org : Nat])
    /\ \A b \in DOMAIN Devices : LET d == Devices[b] IN
          d.org # 0 => d.org \in DOMAIN Founders /\ d.user = Founders[d.org]
ASSUME NoneAssumption == None \notin Nat
ASSUME AccessBoundsAssumption ==
    {MaxOrgs, MaxGrants, MaxSessions, MaxInvites} \subseteq Nat

VARIABLES
    orgs,           \* organizations, by id, with the status of their members
    grants,         \* rows of membership_roles, by id; live: not deleted
    invites,        \* rows of org_invites, by id
    sessions,       \* rows of user_sessions, by id
    cookie,         \* the session id each browser holds
    req             \* what each request slot has read so far

vars == <<orgs, grants, invites, sessions, cookie, req>>

Roles == {"owner", "admin"}
Statuses == {"none", "active", "suspended"}

Organization == [live : BOOLEAN, founder : Users, status : [Users -> Statuses]]
Grant == [org : Nat, user : Users, role : Roles, live : BOOLEAN]
Invite == [org : Nat, user : Users, accepted : BOOLEAN, revoked : BOOLEAN,
           expired : BOOLEAN]

\* org is what current_membership_id says: 0 when unbound.  A lapsed session has
\* outlived its idle or absolute timeout.
UserSession == [user : Users, org : Nat,
                state : {"live", "lapsed", "revoked", "deleted"}]

Browsers == DOMAIN Devices
Person(b) == Devices[b].user
OrgIds == DOMAIN orgs
Status(o, u) == IF o \in OrgIds THEN orgs[o].status[u] ELSE "none"

\* The id of a session that was handed out but is not in the table.
Unstored == 0

Idle == [op |-> "idle"]

\* What a handler read: who asks from where, in which organization, about whom
\* or which row; revokes are the sessions it is to revoke.
Request == {Idle} \cup
    [op : {"create", "select", "accept", "leave", "delete", "invite", "uninvite",
           "grant", "ungrant", "suspend", "kick", "restore"},
     dev : Browsers, ses : Nat, org : Nat, user : Users, row : Nat,
     role : Roles, revokes : SUBSET Nat]

-----------------------------------------------------------------------------
(* Queries *)

\* lookup_session finds the row and has nothing against it.
Valid(s) ==
    /\ s \in DOMAIN sessions
    /\ sessions[s].state = "live"
    /\ \/ sessions[s].org = 0
       \/ Status(sessions[s].org, sessions[s].user) = "active"

Holds(o, u, role) ==
    \E g \in DOMAIN grants : /\ grants[g].live
                             /\ grants[g].org = o
                             /\ grants[g].user = u
                             /\ grants[g].role = role

\* The permissions org.manage_members and org.invite.
Manages(o, u) == \E role \in Roles : Holds(o, u, role)

ActiveMembers(o) == {u \in Users : Status(o, u) = "active"}
ActiveOrgs(u) == {o \in OrgIds : Status(o, u) = "active"}

OwnerGrants(o) ==
    {g \in DOMAIN grants : /\ grants[g].live
                           /\ grants[g].org = o
                           /\ grants[g].role = "owner"
                           /\ Status(o, grants[g].user) = "active"}

\* _last_owner_id counts grants, not owners.
IsLastOwner(o, u) ==
    \E g \in DOMAIN grants : OwnerGrants(o) = {g} /\ grants[g].user = u

\* revoke_all_for_membership looks for these.
BoundSessions(o, u) ==
    {s \in DOMAIN sessions : /\ sessions[s].user = u
                             /\ sessions[s].org = o
                             /\ sessions[s].state \in {"live", "lapsed"}}

-----------------------------------------------------------------------------
(* Requests *)

NewOrg(u) ==
    [live |-> TRUE, founder |-> u,
     status |-> [v \in Users |-> IF v = u THEN "active" ELSE "none"]]
NewGrant(o, u, role) == [org |-> o, user |-> u, role |-> role, live |-> TRUE]
NewInvite(o, u) ==
    [org |-> o, user |-> u, accepted |-> FALSE, revoked |-> FALSE, expired |-> FALSE]
NewSession(u, o) == [user |-> u, org |-> o, state |-> "live"]

\* A seeded database: organizations with their owners, and browsers that have a
\* session, bound to one of them or not yet.
Init ==
    /\ orgs = [o \in DOMAIN Founders |-> NewOrg(Founders[o])]
    /\ grants = [o \in DOMAIN Founders |-> NewGrant(o, Founders[o], "owner")]
    /\ invites = <<>>
    /\ sessions = [b \in Browsers |-> NewSession(Person(b), Devices[b].org)]
    /\ cookie = [b \in Browsers |-> b]
    /\ req = [r \in Requests |-> Idle]

\* SessionMiddleware lets a browser through that holds a valid session.
Served(r, b) == req[r] = Idle /\ Valid(cookie[b])

\* The organization the browser's session is bound to: without one, only the
\* picker can be reached.
Here(b) == sessions[cookie[b]].org
Bound(r, b) == Served(r, b) /\ Here(b) # 0

\* The request that b makes: what it reads and keeps.
Asks(b, op, o, u, row) ==
    [op |-> op, dev |-> b, ses |-> cookie[b], org |-> o, user |-> u, row |-> row,
     role |-> "owner", revokes |-> {}]

Begin(r, q) ==
    /\ req' = [req EXCEPT ![r] = q]
    /\ UNCHANGED <<orgs, grants, invites, sessions, cookie>>

Finish(r) == req' = [req EXCEPT ![r] = Idle]

\* A handler refuses after all, its commit is refused, or its request dies.
Abort(r) ==
    /\ req[r] # Idle
    /\ Finish(r)
    /\ UNCHANGED <<orgs, grants, invites, sessions, cookie>>

\* Foreign keys: the organization a row is written for must be there, and
\* the session that is to be revoked.
OrgThere(q) == q.org \in OrgIds /\ orgs[q.org].live
SessionThere(q) == sessions[q.ses].state # "deleted"

SetStatus(o, u, status) == orgs' = [orgs EXCEPT ![o].status[u] = status]

Revoked(S) ==
    [s \in DOMAIN sessions |-> IF s \in S THEN [sessions[s] EXCEPT !.state = "revoked"]
                               ELSE sessions[s]]

\* Mutant: the old session stays.
RotateKeepingOld(q, o) ==
    /\ SessionThere(q)
    /\ Len(sessions) < MaxSessions
    /\ sessions' = Append(sessions, NewSession(sessions[q.ses].user, o))
    /\ cookie' = [cookie EXCEPT ![q.dev] = Len(sessions) + 1]

\* rotate: the session that asked is revoked, a new one bound to o is stored, and
\* the response sends its id.
Rotate(q, o) ==
    /\ SessionThere(q)
    /\ Len(sessions) < MaxSessions
    /\ sessions' = Append(Revoked({q.ses}), NewSession(sessions[q.ses].user, o))
    /\ cookie' = [cookie EXCEPT ![q.dev] = Len(sessions) + 1]

-----------------------------------------------------------------------------
(* app/routes/onboarding.py *)

\* Whoever is bound to an organization may make another, and owns it.
BeginOrgCreate(r, b) ==
    /\ Bound(r, b)
    /\ Begin(r, Asks(b, "create", 0, Person(b), 0))

CommitOrgCreate(r) == LET q == req[r] IN
    /\ q.op = "create"
    /\ Len(orgs) < MaxOrgs
    /\ Len(grants) < MaxGrants
    /\ orgs' = Append(orgs, NewOrg(q.user))
    /\ grants' = Append(grants, NewGrant(Len(orgs) + 1, q.user, "owner"))
    /\ Rotate(q, Len(orgs) + 1)
    /\ Finish(r)
    /\ UNCHANGED invites

BeginOrgSelect(r, b, o) ==
    /\ Served(r, b)
    /\ Status(o, Person(b)) = "active"
    /\ Begin(r, Asks(b, "select", o, Person(b), 0))

CommitOrgSelect(r) == LET q == req[r] IN
    /\ q.op = "select"
    /\ OrgThere(q)
    /\ Rotate(q, q.org)
    /\ Finish(r)
    /\ UNCHANGED <<orgs, grants, invites>>

\* Mutant: whoever has the link may use it.
AcceptAnyonesInvite(r, b, i) ==
    /\ Bound(r, b)
    /\ orgs[invites[i].org].live
    /\ ~invites[i].revoked
    /\ ~invites[i].accepted
    /\ ~invites[i].expired
    /\ Status(invites[i].org, Person(b)) = "none"
    /\ Begin(r, Asks(b, "accept", invites[i].org, Person(b), i))

\* _accept_invite: a member, suspended ones too, is told the link is invalid.
BeginAcceptInvite(r, b, i) ==
    /\ Bound(r, b)
    /\ orgs[invites[i].org].live
    /\ ~invites[i].revoked
    /\ ~invites[i].accepted
    /\ ~invites[i].expired
    /\ invites[i].user = Person(b)
    /\ Status(invites[i].org, Person(b)) = "none"
    /\ Begin(r, Asks(b, "accept", invites[i].org, Person(b), i))

\* The unique index refuses a second membership.
CommitAcceptInvite(r) == LET q == req[r] IN
    /\ q.op = "accept"
    /\ OrgThere(q)
    /\ Status(q.org, q.user) = "none"
    /\ SetStatus(q.org, q.user, "active")
    /\ invites' = [invites EXCEPT ![q.row].accepted = TRUE]
    /\ Rotate(q, q.org)
    /\ Finish(r)
    /\ UNCHANGED grants

\* Mutant: the owner check looks at all members, whatever their status.
LeaveCountingSuspended(r, b) == LET o == Here(b) IN
    /\ Bound(r, b)
    /\ Holds(o, Person(b), "owner") =>
          \E u \in Users \ {Person(b)} : Holds(o, u, "owner")
    /\ Begin(r, Asks(b, "leave", o, Person(b), 0))

\* An owner may leave if there is another.
BeginOrgLeave(r, b) == LET o == Here(b) IN
    /\ Bound(r, b)
    /\ Holds(o, Person(b), "owner") =>
          \E u \in ActiveMembers(o) \ {Person(b)} : Holds(o, u, "owner")
    /\ Begin(r, Asks(b, "leave", o, Person(b), 0))

\* The new session is bound to any other membership; with none, rotate falls back
\* on the binding of the old one.
CommitOrgLeave(r) == LET q == req[r]
                         others == ActiveOrgs(q.user) \ {q.org} IN
    /\ q.op = "leave"
    /\ OrgThere(q)
    /\ SetStatus(q.org, q.user, "suspended")
    /\ \E o \in IF others = {} THEN {q.org} ELSE others : Rotate(q, o)
    /\ Finish(r)
    /\ UNCHANGED <<grants, invites>>

BeginOrgDelete(r, b) == LET o == Here(b) IN
    /\ Bound(r, b)
    /\ Holds(o, Person(b), "owner")
    /\ ActiveMembers(o) \subseteq {Person(b)}
    /\ Begin(r, Asks(b, "delete", o, Person(b), 0))

\* The replacement session keeps the binding of the old one, and goes with all
\* the sessions bound to the organization.
CommitOrgDelete(r) == LET q == req[r] IN
    /\ q.op = "delete"
    /\ OrgThere(q)
    /\ SessionThere(q)
    /\ Len(sessions) < MaxSessions
    /\ orgs' = [orgs EXCEPT ![q.org] = [live |-> FALSE, founder |-> @.founder,
                                        status |-> [u \in Users |-> "none"]]]
    /\ grants' = [g \in DOMAIN grants |->
            IF grants[g].org = q.org THEN [grants[g] EXCEPT !.live = FALSE] ELSE grants[g]]
    /\ sessions' = Append(
            [s \in DOMAIN sessions |->
                IF sessions[s].org = q.org THEN [sessions[s] EXCEPT !.state = "deleted"]
                ELSE sessions[s]],
            [NewSession(q.user, q.org) EXCEPT !.state = "deleted"])
    /\ cookie' = [cookie EXCEPT ![q.dev] = Len(sessions) + 1]
    /\ Finish(r)
    /\ UNCHANGED invites

-----------------------------------------------------------------------------
(* app/routes/admin.py: members and invitations *)

\* The browser's user manages the organization it is bound to.
Administers(r, b) == Bound(r, b) /\ Manages(Here(b), Person(b))

\* ... which u is a member of.
Member(b, u) == Status(Here(b), u) # "none"

BeginCreateInvite(r, b, u) ==
    /\ Administers(r, b)
    /\ Begin(r, Asks(b, "invite", Here(b), u, 0))

CommitCreateInvite(r) == LET q == req[r] IN
    /\ q.op = "invite"
    /\ OrgThere(q)
    /\ Len(invites) < MaxInvites
    /\ invites' = Append(invites, NewInvite(q.org, q.user))
    /\ Finish(r)
    /\ UNCHANGED <<orgs, grants, sessions, cookie>>

BeginRevokeInvite(r, b, i) ==
    /\ Administers(r, b)
    /\ invites[i].org = Here(b)
    /\ ~invites[i].accepted
    /\ Begin(r, Asks(b, "uninvite", Here(b), invites[i].user, i))

CommitRevokeInvite(r) == LET q == req[r] IN
    /\ q.op = "uninvite"
    /\ OrgThere(q)
    /\ invites' = [invites EXCEPT ![q.row].revoked = TRUE]
    /\ Finish(r)
    /\ UNCHANGED <<orgs, grants, sessions, cookie>>

\* A grant that is there already is left alone: no request then.
BeginGrantRole(r, b, u, role) ==
    /\ Administers(r, b)
    /\ Member(b, u)
    /\ ~Holds(Here(b), u, role)
    /\ Begin(r, [Asks(b, "grant", Here(b), u, 0) EXCEPT !.role = role])

CommitGrantRole(r) == LET q == req[r] IN
    /\ q.op = "grant"
    /\ OrgThere(q)
    /\ Len(grants) < MaxGrants
    /\ grants' = Append(grants, NewGrant(q.org, q.user, q.role))
    /\ Finish(r)
    /\ UNCHANGED <<orgs, invites, sessions, cookie>>

BeginRevokeRole(r, b, g) ==
    /\ Administers(r, b)
    /\ grants[g].live
    /\ grants[g].org = Here(b)
    /\ ~(grants[g].role = "owner" /\ IsLastOwner(Here(b), grants[g].user))
    /\ Begin(r, Asks(b, "ungrant", Here(b), grants[g].user, g))

CommitRevokeRole(r) == LET q == req[r] IN
    /\ q.op = "ungrant"
    /\ grants' = [grants EXCEPT ![q.row].live = FALSE]
    /\ Finish(r)
    /\ UNCHANGED <<orgs, invites, sessions, cookie>>

\* The sessions to revoke are read before anything is written.
BeginSuspendMember(r, b, u) ==
    /\ Administers(r, b)
    /\ Member(b, u)
    /\ u # Person(b)
    /\ ~IsLastOwner(Here(b), u)
    /\ Begin(r, [Asks(b, "suspend", Here(b), u, 0) EXCEPT
                    !.revokes = BoundSessions(Here(b), u)])

CommitSuspendMember(r) == LET q == req[r] IN
    /\ q.op = "suspend"
    /\ OrgThere(q)
    /\ SetStatus(q.org, q.user, "suspended")
    /\ sessions' = Revoked(q.revokes)
    /\ Finish(r)
    /\ UNCHANGED <<grants, invites, cookie>>

\* Only an owner may kick an owner.
BeginKickMember(r, b, u) ==
    /\ Administers(r, b)
    /\ Member(b, u)
    /\ u # Person(b)
    /\ ~IsLastOwner(Here(b), u)
    /\ Holds(Here(b), u, "owner") => Holds(Here(b), Person(b), "owner")
    /\ Begin(r, Asks(b, "kick", Here(b), u, 0))

\* Mutant: the sessions are forgotten.
KickWithoutRevoking(r) == LET q == req[r] IN
    /\ q.op = "kick"
    /\ OrgThere(q)
    /\ SetStatus(q.org, q.user, "suspended")
    /\ Finish(r)
    /\ UNCHANGED <<grants, invites, sessions, cookie>>

\* The status is flushed first: the sessions are read in the transaction.
CommitKickMember(r) == LET q == req[r] IN
    /\ q.op = "kick"
    /\ OrgThere(q)
    /\ SetStatus(q.org, q.user, "suspended")
    /\ sessions' = Revoked(BoundSessions(q.org, q.user))
    /\ Finish(r)
    /\ UNCHANGED <<grants, invites, cookie>>

BeginRestoreMember(r, b, u) ==
    /\ Administers(r, b)
    /\ Member(b, u)
    /\ Begin(r, Asks(b, "restore", Here(b), u, 0))

CommitRestoreMember(r) == LET q == req[r] IN
    /\ q.op = "restore"
    /\ OrgThere(q)
    /\ SetStatus(q.org, q.user, "active")
    /\ Finish(r)
    /\ UNCHANGED <<grants, invites, sessions, cookie>>

-----------------------------------------------------------------------------
(* app/routes/auth.py: nothing is committed; and time *)

Sends(b, id) ==
    /\ cookie' = [cookie EXCEPT ![b] = id]
    /\ UNCHANGED <<orgs, grants, invites, sessions, req>>

LoginCallback(b) == Sends(b, Unstored)
LinkCallback(b) == Valid(cookie[b]) /\ Sends(b, Unstored)
Logout(b) == Sends(b, None)

\* SessionMiddleware deletes a cookie that names no valid session.
Bounce(b) == cookie[b] # None /\ ~Valid(cookie[b]) /\ Sends(b, None)

SessionLapses(s) ==
    /\ sessions[s].state = "live"
    /\ sessions' = [sessions EXCEPT ![s].state = "lapsed"]
    /\ UNCHANGED <<orgs, grants, invites, cookie, req>>

InviteExpires(i) ==
    /\ invites' = [invites EXCEPT ![i].expired = TRUE]
    /\ UNCHANGED <<orgs, grants, sessions, cookie, req>>

-----------------------------------------------------------------------------
(* The specification *)

Onboarding(r, b) ==
    \/ BeginOrgCreate(r, b)
    \/ \E o \in OrgIds : BeginOrgSelect(r, b, o)
    \/ \E i \in DOMAIN invites : BeginAcceptInvite(r, b, i)
    \/ BeginOrgLeave(r, b)
    \/ BeginOrgDelete(r, b)

Administration(r, b) ==
    \/ \E u \in Users :
        \/ BeginCreateInvite(r, b, u)
        \/ \E role \in Roles : BeginGrantRole(r, b, u, role)
        \/ BeginSuspendMember(r, b, u)
        \/ BeginKickMember(r, b, u)
        \/ BeginRestoreMember(r, b, u)
    \/ \E i \in DOMAIN invites : BeginRevokeInvite(r, b, i)
    \/ \E g \in DOMAIN grants : BeginRevokeRole(r, b, g)

Commit(r) ==
    \/ CommitOrgCreate(r) \/ CommitOrgSelect(r) \/ CommitAcceptInvite(r)
    \/ CommitOrgLeave(r) \/ CommitOrgDelete(r)
    \/ CommitCreateInvite(r) \/ CommitRevokeInvite(r)
    \/ CommitGrantRole(r) \/ CommitRevokeRole(r)
    \/ CommitSuspendMember(r) \/ CommitKickMember(r) \/ CommitRestoreMember(r)

Next ==
    \/ \E r \in Requests :
        \/ \E b \in Browsers : Onboarding(r, b) \/ Administration(r, b)
        \/ Commit(r)
        \/ Abort(r)
    \/ \E b \in Browsers : LoginCallback(b) \/ LinkCallback(b) \/ Logout(b) \/ Bounce(b)
    \/ \E s \in DOMAIN sessions : SessionLapses(s)
    \/ \E i \in DOMAIN invites : InviteExpires(i)

Spec == Init /\ [][Next]_vars

-----------------------------------------------------------------------------
(* Properties *)

TypeOK ==
    /\ orgs \in Seq(Organization)
    /\ grants \in Seq(Grant)
    /\ invites \in Seq(Invite)
    /\ sessions \in Seq(UserSession)
    /\ cookie \in [Browsers -> Nat \cup {None}]
    /\ req \in [Requests -> Request]

\* "An org always has at least one owner": through kicks, suspensions, revoked
\* grants and departures in any order, an organization that has not been deleted
\* keeps an active member who holds the owner role.  One request at a time.
OrgHasOwner ==
    \A o \in OrgIds : orgs[o].live =>
        \E u \in ActiveMembers(o) : Holds(o, u, "owner")

\* Nobody is a member but the founder and those invited: each of those accepted
\* exactly one invitation, of this organization and meant for them, and no
\* accepted invitation is without its member.  Whatever interleaves.
MembersWereInvited ==
    \A o \in OrgIds : orgs[o].live =>
        /\ \A u \in Users :
              Status(o, u) # "none" /\ u # orgs[o].founder =>
                \E i \in DOMAIN invites : /\ invites[i].org = o
                                          /\ invites[i].user = u
                                          /\ invites[i].accepted
        /\ \A i \in DOMAIN invites : invites[i].org = o /\ invites[i].accepted =>
              /\ Status(o, invites[i].user) # "none"
              /\ invites[i].user # orgs[o].founder
        /\ \A i, j \in DOMAIN invites :
              /\ invites[i].org = o /\ invites[i].accepted
              /\ invites[j].org = o /\ invites[j].accepted
              /\ invites[i].user = invites[j].user
              => i = j

\* "Rotation = revoke the existing row and issue a brand-new id": however often a
\* user creates, picks, joins, leaves and deletes organizations, no session comes
\* on top of those the user has.  One request at a time.
Unrevoked(u) == {s \in DOMAIN sessions : /\ sessions[s].user = u
                                         /\ sessions[s].state \in {"live", "lapsed"}}
RotationReplaces ==
    [][\A u \in Users : Cardinality(Unrevoked(u)') <= Cardinality(Unrevoked(u))]_vars

\* "So the kicked user is immediately logged out of this org": when somebody else
\* takes a membership away, no browser is left that it serves, and none of its
\* sessions comes back should it be restored.  One request at a time.
TakenAwayIsOut ==
    [][\A o \in OrgIds, u \in Users :
        /\ Status(o, u) = "active"
        /\ Status(o, u)' = "suspended"
        /\ UNCHANGED cookie
        => BoundSessions(o, u)' = {}]_vars

\* create_session: "The caller is responsible for setting the cookie on the
\* response and for committing": after a login the browser holds a valid session.
LoginOpensSession ==
    [][\A b \in Browsers :
        cookie[b] = None /\ cookie'[b] # None => Valid(cookie[b])']_vars

=============================================================================
