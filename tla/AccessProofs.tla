---------------------------- MODULE AccessProofs ----------------------------
(***************************************************************************)
(* Who belongs to an organization, and whose sessions last.  For any       *)
(* number of requests served at once: the tables keep their shape, and     *)
(* nobody is a member but founders and those who accepted one invitation   *)
(* meant for them.  With one request at a time: every organization keeps   *)
(* an active owner, a membership that somebody else takes away keeps no    *)
(* session, and no user comes to more sessions by rotating them.           *)
(***************************************************************************)
EXTENDS Access, SequenceTheorems, FiniteSetTheorems, TLAPS

-----------------------------------------------------------------------------
(* Tables as sequences *)

LEMMA RowType ==
    ASSUME NEW T, NEW s \in Seq(T), NEW i \in DOMAIN s
    PROVE  s[i] \in T
OBVIOUS

LEMMA Replaced ==
    ASSUME NEW T, NEW s \in Seq(T), NEW t \in [DOMAIN s -> T]
    PROVE  t \in Seq(T) /\ Len(t) = Len(s) /\ DOMAIN t = DOMAIN s
<1>1. DOMAIN s = 1 .. Len(s) /\ Len(s) \in Nat
  OBVIOUS
<1> QED
  BY <1>1

LEMMA Appended ==
    ASSUME NEW T, NEW s \in Seq(T), NEW x \in T
    PROVE  /\ Append(s, x) \in Seq(T)
           /\ Len(s) + 1 \in Nat
           /\ Len(s) + 1 \notin DOMAIN s
           /\ DOMAIN Append(s, x) = DOMAIN s \cup {Len(s) + 1}
           /\ Append(s, x)[Len(s) + 1] = x
           /\ \A i \in DOMAIN s : Append(s, x)[i] = s[i]
<1>1. DOMAIN s = 1 .. Len(s) /\ Len(s) \in Nat
  OBVIOUS
<1>2. Append(s, x) \in Seq(T) /\ Len(Append(s, x)) = Len(s) + 1
  OBVIOUS
<1>3. DOMAIN Append(s, x) = 1 .. Len(s) + 1
  BY <1>2
<1>4. 1 .. Len(s) + 1 = (1 .. Len(s)) \cup {Len(s) + 1} /\ Len(s) + 1 \notin 1 .. Len(s)
  BY <1>1
<1> QED
  BY <1>1, <1>2, <1>3, <1>4

-----------------------------------------------------------------------------
(* What a browser holds *)

\* A cookie names a session of the browser's own user, or none.
Owned ==
    \A b \in Browsers :
        /\ cookie[b] \in DOMAIN sessions \cup {None, Unstored}
        /\ cookie[b] \in DOMAIN sessions => sessions[cookie[b]].user = Person(b)

\* Sessions are not taken out of the table, nor given to another user.
SessionsStay ==
    \A s \in DOMAIN sessions : /\ s \in DOMAIN sessions'
                               /\ sessions'[s].user = sessions[s].user

SessionFacts ==
    /\ sessions' \in Seq(UserSession)
    /\ cookie' \in [Browsers -> Nat \cup {None}]
    /\ SessionsStay
    /\ Owned'

LEMMA PersonType ==
    ASSUME NEW b \in Browsers
    PROVE  Person(b) \in Users
<1>1. Devices \in Seq([user : Users, org : Nat])
  BY DevicesAssumption, Zenon
<1>2. \A i \in DOMAIN Devices : Devices[i] \in [user : Users, org : Nat]
  BY <1>1, RowType, Zenon
<1> QED
  BY <1>2 DEF Browsers, Person

\* Sessions end, or cookies are taken away.
LEMMA SessionsReplaced ==
    ASSUME TypeOK, Owned,
           sessions' \in [DOMAIN sessions -> UserSession],
           \A s \in DOMAIN sessions : sessions'[s].user = sessions[s].user,
           cookie' \in [Browsers -> Nat \cup {None}],
           \A b \in Browsers : cookie'[b] \in {cookie[b], None, Unstored}
    PROVE  SessionFacts
<1>1. sessions \in Seq(UserSession)
  BY DEF TypeOK
<1>2. sessions' \in Seq(UserSession) /\ DOMAIN sessions' = DOMAIN sessions
  BY <1>1, Replaced
<1>3. None \notin DOMAIN sessions /\ Unstored \notin DOMAIN sessions
  BY <1>1, NoneAssumption DEF Unstored
<1>4. SessionsStay
  BY <1>2 DEF SessionsStay
<1>5. Owned'
  BY <1>2, <1>3 DEF Owned
<1> QED
  BY <1>2, <1>4, <1>5 DEF SessionFacts

\* A session is opened for the user of a browser, which gets its id.
LEMMA SessionOpened ==
    ASSUME TypeOK, Owned,
           NEW t \in [DOMAIN sessions -> UserSession],
           \A s \in DOMAIN sessions : t[s].user = sessions[s].user,
           NEW x \in UserSession, NEW b \in Browsers, x.user = Person(b),
           sessions' = Append(t, x),
           cookie' = [cookie EXCEPT ![b] = Len(sessions) + 1]
    PROVE  SessionFacts
<1>1. sessions \in Seq(UserSession) /\ cookie \in [Browsers -> Nat \cup {None}]
  BY DEF TypeOK
<1>2. t \in Seq(UserSession) /\ Len(t) = Len(sessions) /\ DOMAIN t = DOMAIN sessions
  BY <1>1, Replaced
<1>3. /\ sessions' \in Seq(UserSession)
      /\ Len(sessions) + 1 \in Nat
      /\ DOMAIN sessions' = DOMAIN sessions \cup {Len(sessions) + 1}
      /\ sessions'[Len(sessions) + 1] = x
      /\ \A s \in DOMAIN sessions : sessions'[s] = t[s]
  <2>1. /\ Append(t, x) \in Seq(UserSession)
        /\ Len(t) + 1 \in Nat
        /\ DOMAIN Append(t, x) = DOMAIN t \cup {Len(t) + 1}
        /\ Append(t, x)[Len(t) + 1] = x
        /\ \A s \in DOMAIN t : Append(t, x)[s] = t[s]
    BY <1>2, Appended
  <2> QED
    BY <1>2, <2>1
<1>4. cookie' \in [Browsers -> Nat \cup {None}]
  BY <1>1, <1>3
<1>5. SessionsStay
  BY <1>3 DEF SessionsStay
<1>6. ASSUME NEW c \in Browsers
      PROVE  /\ cookie'[c] \in DOMAIN sessions' \cup {None, Unstored}
             /\ cookie'[c] \in DOMAIN sessions' => sessions'[cookie'[c]].user = Person(c)
  <2>1. CASE c = b
    BY <1>1, <1>3, <2>1
  <2>2. CASE c # b
    <3>1. cookie'[c] = cookie[c]
      BY <1>1, <2>2
    <3>2. CASE cookie[c] \in DOMAIN sessions
      BY <1>3, <3>1, <3>2 DEF Owned
    <3>3. CASE cookie[c] \in {None, Unstored}
      <4>1. cookie[c] \notin DOMAIN sessions'
        BY <1>3, <3>3, NoneAssumption DEF Unstored
      <4> QED
        BY <3>1, <3>3, <4>1
    <3> QED
      BY <3>2, <3>3 DEF Owned
  <2> QED
    BY <2>1, <2>2
<1>7. Owned'
  BY <1>6 DEF Owned, Browsers, Person
<1> QED
  BY <1>3, <1>4, <1>5, <1>7 DEF SessionFacts

-----------------------------------------------------------------------------
(* Who is a member *)

\* An invitation is for an organization there is, or was.
InvitesResolve == \A i \in DOMAIN invites : invites[i].org \in OrgIds

\* Founders stay members, if suspended ones.
FoundersStay ==
    \A o \in OrgIds : orgs[o].live => orgs[o].status[orgs[o].founder] # "none"

Members == InvitesResolve /\ FoundersStay /\ MembersWereInvited

\* Organizations stay in the table; one that is live was so before, with all the
\* members it had.
OrgsStay ==
    \A o \in OrgIds :
        /\ o \in OrgIds'
        /\ orgs'[o].live => /\ orgs[o].live
                            /\ \A u \in Users : orgs[o].status[u] # "none"
                                                => orgs'[o].status[u] # "none"

\* Invitations stay what they are for.
InvitesStay ==
    \A i \in DOMAIN invites : /\ i \in DOMAIN invites'
                              /\ invites'[i].org = invites[i].org
                              /\ invites'[i].user = invites[i].user

MemberFacts ==
    /\ orgs' \in Seq(Organization)
    /\ invites' \in Seq(Invite)
    /\ OrgsStay
    /\ InvitesStay
    /\ Members'

\* An organization in the table and its fields.
LEMMA OrgType ==
    ASSUME TypeOK, NEW o \in OrgIds
    PROVE  /\ o \in Nat
           /\ orgs[o] \in Organization
           /\ orgs[o].live \in BOOLEAN
           /\ orgs[o].founder \in Users
           /\ orgs[o].status \in [Users -> Statuses]
<1>1. orgs \in Seq(Organization)
  BY DEF TypeOK
<1>2. o \in Nat /\ orgs[o] \in Organization
  BY <1>1, RowType DEF OrgIds
<1> QED
  BY <1>2 DEF Organization

LEMMA InviteType ==
    ASSUME TypeOK, NEW i \in DOMAIN invites
    PROVE  /\ i \in Nat
           /\ invites[i] \in Invite
           /\ invites[i].org \in Nat
           /\ invites[i].user \in Users
           /\ invites[i].accepted \in BOOLEAN
<1>1. invites \in Seq(Invite)
  BY DEF TypeOK
<1>2. i \in Nat /\ invites[i] \in Invite
  BY <1>1, RowType
<1> QED
  BY <1>2 DEF Invite

LEMMA GrantType ==
    ASSUME TypeOK, NEW g \in DOMAIN grants
    PROVE  /\ g \in Nat
           /\ grants[g] \in Grant
           /\ grants[g].org \in Nat
           /\ grants[g].user \in Users
<1>1. grants \in Seq(Grant)
  BY DEF TypeOK
<1>2. g \in Nat /\ grants[g] \in Grant
  BY <1>1, RowType
<1> QED
  BY <1>2 DEF Grant

\* What SetStatus does to the table.
LEMMA StatusSet ==
    ASSUME TypeOK, NEW o \in OrgIds, NEW u \in Users, NEW status \in Statuses,
           SetStatus(o, u, status)
    PROVE  /\ orgs' \in Seq(Organization)
           /\ OrgIds' = OrgIds
           /\ \A p \in OrgIds :
                /\ orgs'[p].live = orgs[p].live
                /\ orgs'[p].founder = orgs[p].founder
                /\ \A v \in Users :
                      orgs'[p].status[v] = IF p = o /\ v = u THEN status
                                           ELSE orgs[p].status[v]
<1> DEFINE org == [live |-> orgs[o].live, founder |-> orgs[o].founder,
                   status |-> [orgs[o].status EXCEPT ![u] = status]]
<1>1. orgs \in Seq(Organization)
  BY DEF TypeOK
<1>2. orgs[o] \in Organization /\ orgs[o].status \in [Users -> Statuses]
  BY OrgType
<1>3. [orgs[o] EXCEPT !.status = [orgs[o].status EXCEPT ![u] = status]] = org
  BY <1>2 DEF Organization
<1>4. orgs' = [orgs EXCEPT ![o] = org]
  BY <1>3 DEF SetStatus
<1>5. org \in Organization
  BY <1>2, OrgType DEF Organization
<1>6. /\ org.live = orgs[o].live
      /\ org.founder = orgs[o].founder
      /\ \A v \in Users :
            org.status[v] = IF v = u THEN status ELSE orgs[o].status[v]
  BY <1>2
<1> HIDE DEF org
<1>7. \A p \in OrgIds : orgs[p] \in Organization
  BY OrgType
<1>8. /\ orgs' \in [OrgIds -> Organization]
      /\ \A p \in OrgIds : orgs'[p] = IF p = o THEN org ELSE orgs[p]
  BY <1>1, <1>4, <1>5, <1>7 DEF OrgIds
<1>9. orgs' \in Seq(Organization) /\ OrgIds' = OrgIds
  BY <1>1, <1>8, Replaced DEF OrgIds
<1> QED
  BY <1>6, <1>8, <1>9

\* MembersWereInvited, of one organization.
InvitedTo(o) ==
    /\ \A u \in Users :
          Status(o, u) # "none" /\ u # orgs[o].founder =>
            \E i \in DOMAIN invites : /\ invites[i].org = o
                                      /\ invites[i].user = u
                                      /\ invites[i].accepted
    /\ \A i \in DOMAIN invites : invites[i].org = o /\ invites[i].accepted =>
          /\ Status(o, invites[i].user) # "none"
          /\ invites[i].user # orgs[o].founder
    /\ \A i, j \in DOMAIN invites :
          /\ invites[i].org = o /\ invites[i].accepted
          /\ invites[j].org = o /\ invites[j].accepted
          /\ invites[i].user = invites[j].user
          => i = j

LEMMA InvitedToEach ==
    /\ MembersWereInvited <=> \A o \in OrgIds : orgs[o].live => InvitedTo(o)
    /\ MembersWereInvited' <=> \A o \in OrgIds' : orgs'[o].live => InvitedTo(o)'
BY DEF MembersWereInvited, InvitedTo

\* Nothing happens to organizations and invitations.
LEMMA MembersUnchanged ==
    ASSUME TypeOK, Members, UNCHANGED <<orgs, invites>>
    PROVE  MemberFacts
BY DEF MemberFacts, TypeOK, Members, InvitesResolve, FoundersStay,
       MembersWereInvited, Status, OrgsStay, InvitesStay, OrgIds

\* A member is suspended or restored.
LEMMA MemberStays ==
    ASSUME TypeOK, Members, NEW o \in OrgIds, NEW u \in Users,
           NEW status \in {"active", "suspended"},
           orgs[o].live => orgs[o].status[u] # "none",
           SetStatus(o, u, status), invites' = invites
    PROVE  MemberFacts
<1>1. /\ orgs' \in Seq(Organization)
      /\ OrgIds' = OrgIds
      /\ \A p \in OrgIds :
           /\ orgs'[p].live = orgs[p].live
           /\ orgs'[p].founder = orgs[p].founder
           /\ \A v \in Users :
                 orgs'[p].status[v] = IF p = o /\ v = u THEN status
                                      ELSE orgs[p].status[v]
  BY StatusSet DEF Statuses
<1>2. invites' \in Seq(Invite) /\ InvitesStay
  BY DEF TypeOK, InvitesStay
<1>3. OrgsStay
  BY <1>1, OrgType DEF OrgsStay
<1>4. InvitesResolve'
  BY <1>1 DEF Members, InvitesResolve
<1>5. FoundersStay'
  BY <1>1, OrgType DEF Members, FoundersStay
<1>6. \A p \in OrgIds, v \in Users :
        orgs[p].live => (Status(p, v)' # "none") = (Status(p, v) # "none")
  BY <1>1 DEF Status
<1>7. \A p \in OrgIds : orgs[p].live /\ InvitedTo(p) => InvitedTo(p)'
  BY <1>1, <1>6, InviteType DEF InvitedTo
<1>8. MembersWereInvited'
  BY <1>1, <1>7, InvitedToEach DEF Members
<1> QED
  BY <1>1, <1>2, <1>3, <1>4, <1>5, <1>8 DEF MemberFacts, Members

\* An invitation's marks change, not what it is for nor whether it was accepted.
LEMMA InviteMarked ==
    ASSUME TypeOK, Members, orgs' = orgs,
           invites' \in [DOMAIN invites -> Invite],
           \A i \in DOMAIN invites : /\ invites'[i].org = invites[i].org
                                     /\ invites'[i].user = invites[i].user
                                     /\ invites'[i].accepted = invites[i].accepted
    PROVE  MemberFacts
<1>1. invites \in Seq(Invite) /\ orgs \in Seq(Organization)
  BY DEF TypeOK
<1>2. invites' \in Seq(Invite) /\ DOMAIN invites' = DOMAIN invites
  BY <1>1, Replaced
<1>3. InvitesStay /\ OrgsStay
  BY <1>2 DEF InvitesStay, OrgsStay, OrgIds
<1>4. InvitesResolve' /\ FoundersStay'
  BY <1>2 DEF Members, InvitesResolve, FoundersStay, OrgIds
<1>5. MembersWereInvited'
  BY <1>2 DEF Members, MembersWereInvited, OrgIds, Status
<1> QED
  BY <1>1, <1>2, <1>3, <1>4, <1>5 DEF MemberFacts, Members

\* An invitation is issued.
LEMMA InviteSent ==
    ASSUME TypeOK, Members, orgs' = orgs, NEW o \in OrgIds, NEW u \in Users,
           invites' = Append(invites, NewInvite(o, u))
    PROVE  MemberFacts
<1>1. invites \in Seq(Invite) /\ orgs \in Seq(Organization)
  BY DEF TypeOK
<1>2. NewInvite(o, u) \in Invite
  BY OrgType DEF NewInvite, Invite
<1>3. /\ invites' \in Seq(Invite)
      /\ Len(invites) + 1 \notin DOMAIN invites
      /\ DOMAIN invites' = DOMAIN invites \cup {Len(invites) + 1}
      /\ invites'[Len(invites) + 1] = NewInvite(o, u)
      /\ \A i \in DOMAIN invites : invites'[i] = invites[i]
  BY <1>1, <1>2, Appended
<1>4. invites'[Len(invites) + 1].org = o /\ ~invites'[Len(invites) + 1].accepted
  BY <1>3 DEF NewInvite
<1>5. InvitesStay /\ OrgsStay
  BY <1>3 DEF InvitesStay, OrgsStay, OrgIds
<1>6. InvitesResolve' /\ FoundersStay'
  BY <1>3, <1>4 DEF Members, InvitesResolve, FoundersStay, OrgIds
<1>7. MembersWereInvited'
  BY <1>3, <1>4 DEF Members, MembersWereInvited, OrgIds, Status
<1> QED
  BY <1>1, <1>3, <1>5, <1>6, <1>7 DEF MemberFacts, Members

\* An organization is founded: nobody was invited to it yet.
LEMMA OrgFounded ==
    ASSUME TypeOK, Members, NEW u \in Users,
           orgs' = Append(orgs, NewOrg(u)), invites' = invites
    PROVE  MemberFacts
<1>1. invites \in Seq(Invite) /\ orgs \in Seq(Organization)
  BY DEF TypeOK
<1>2. NewOrg(u) \in Organization
  BY DEF NewOrg, Organization, Statuses
<1>3. PICK n \in Nat : n = Len(orgs) + 1
  BY <1>1
<1>4. /\ orgs' \in Seq(Organization)
      /\ n \notin OrgIds
      /\ OrgIds' = OrgIds \cup {n}
      /\ orgs'[n] = NewOrg(u)
      /\ \A o \in OrgIds : orgs'[o] = orgs[o]
  BY <1>1, <1>2, <1>3, Appended DEF OrgIds
<1>5. /\ orgs'[n].founder = u
      /\ \A v \in Users : orgs'[n].status[v] = IF v = u THEN "active" ELSE "none"
  <2>1. /\ NewOrg(u).founder = u
        /\ \A v \in Users : NewOrg(u).status[v] = IF v = u THEN "active" ELSE "none"
    BY DEF NewOrg
  <2> QED
    BY <1>4, <2>1
<1>6. InvitesStay
  BY DEF InvitesStay
<1>7. OrgsStay
  BY <1>4 DEF OrgsStay
<1>8. InvitesResolve' /\ FoundersStay'
  BY <1>4, <1>5 DEF Members, InvitesResolve, FoundersStay
<1>9. \A i \in DOMAIN invites : invites[i].org # n
  BY <1>4 DEF Members, InvitesResolve
<1>10. InvitedTo(n)'
  BY <1>4, <1>5, <1>9 DEF InvitedTo, Status
<1>11. \A o \in OrgIds : InvitedTo(o) => InvitedTo(o)'
  <2> SUFFICES ASSUME NEW o \in OrgIds, InvitedTo(o)
               PROVE  InvitedTo(o)'
    OBVIOUS
  <2>1. orgs'[o] = orgs[o] /\ \A v : Status(o, v)' = Status(o, v)
    BY <1>4 DEF Status
  <2> QED
    BY <2>1 DEF InvitedTo
<1>12. MembersWereInvited'
  BY <1>4, <1>10, <1>11, InvitedToEach DEF Members
<1> QED
  BY <1>1, <1>4, <1>6, <1>7, <1>8, <1>12 DEF MemberFacts, Members

\* An organization is deleted.
LEMMA OrgRemoved ==
    ASSUME TypeOK, Members, NEW o \in OrgIds, invites' = invites,
           orgs' = [orgs EXCEPT ![o] = [live |-> FALSE, founder |-> @.founder,
                                        status |-> [u \in Users |-> "none"]]]
    PROVE  MemberFacts
<1> DEFINE gone == [live |-> FALSE, founder |-> orgs[o].founder,
                    status |-> [u \in Users |-> "none"]]
<1>1. invites \in Seq(Invite) /\ orgs \in Seq(Organization)
  BY DEF TypeOK
<1>2. orgs[o] \in Organization /\ gone \in Organization
  BY OrgType DEF Organization, Statuses
<1>3. orgs' = [orgs EXCEPT ![o] = gone]
  OBVIOUS
<1>4. ~gone.live
  OBVIOUS
<1> HIDE DEF gone
<1>5. \A p \in OrgIds : orgs[p] \in Organization
  BY OrgType
<1>6. /\ orgs' \in [OrgIds -> Organization]
      /\ \A p \in OrgIds : orgs'[p] = IF p = o THEN gone ELSE orgs[p]
  BY <1>1, <1>2, <1>3, <1>5 DEF OrgIds
<1>7. orgs' \in Seq(Organization) /\ OrgIds' = OrgIds
  BY <1>1, <1>6, Replaced DEF OrgIds
<1>8. InvitesStay
  BY DEF InvitesStay
<1>9. OrgsStay
  BY <1>4, <1>6, <1>7 DEF OrgsStay
<1>10. InvitesResolve' /\ FoundersStay'
  BY <1>4, <1>6, <1>7 DEF Members, InvitesResolve, FoundersStay
<1>11. \A p \in OrgIds : orgs'[p].live /\ InvitedTo(p) => InvitedTo(p)'
  <2> SUFFICES ASSUME NEW p \in OrgIds, orgs'[p].live, InvitedTo(p)
               PROVE  InvitedTo(p)'
    OBVIOUS
  <2>1. orgs'[p] = orgs[p] /\ \A u : Status(p, u)' = Status(p, u)
    BY <1>4, <1>6, <1>7 DEF Status
  <2> QED
    BY <2>1 DEF InvitedTo
<1>12. MembersWereInvited'
  BY <1>4, <1>6, <1>7, <1>11, InvitedToEach DEF Members
<1> QED
  BY <1>1, <1>7, <1>8, <1>9, <1>10, <1>12 DEF MemberFacts, Members

\* Somebody joins, on the first invitation they accept.
LEMMA MemberJoins ==
    ASSUME TypeOK, Members, NEW o \in OrgIds, NEW u \in Users,
           orgs[o].live, orgs[o].status[u] = "none", SetStatus(o, u, "active"),
           NEW i \in DOMAIN invites, invites[i].org = o, invites[i].user = u,
           invites' = [invites EXCEPT ![i].accepted = TRUE]
    PROVE  MemberFacts
<1>1. /\ orgs' \in Seq(Organization)
      /\ OrgIds' = OrgIds
      /\ \A p \in OrgIds :
           /\ orgs'[p].live = orgs[p].live
           /\ orgs'[p].founder = orgs[p].founder
           /\ \A v \in Users :
                 orgs'[p].status[v] = IF p = o /\ v = u THEN "active"
                                      ELSE orgs[p].status[v]
  BY StatusSet DEF Statuses
<1>2. invites \in Seq(Invite)
  BY DEF TypeOK
<1>3. \A j \in DOMAIN invites : invites[j] \in Invite
  BY InviteType
<1>4. [invites[i] EXCEPT !.accepted = TRUE] \in Invite
  BY <1>3 DEF Invite
<1>5. /\ invites' \in [DOMAIN invites -> Invite]
      /\ \A j \in DOMAIN invites :
            /\ invites'[j].org = invites[j].org
            /\ invites'[j].user = invites[j].user
            /\ invites'[j].accepted = (j = i \/ invites[j].accepted)
  <2>1. /\ [invites[i] EXCEPT !.accepted = TRUE].org = invites[i].org
        /\ [invites[i] EXCEPT !.accepted = TRUE].user = invites[i].user
        /\ [invites[i] EXCEPT !.accepted = TRUE].accepted
    BY <1>3 DEF Invite
  <2> QED
    BY <1>2, <1>3, <1>4, <2>1, InviteType
<1>6. invites' \in Seq(Invite) /\ DOMAIN invites' = DOMAIN invites
  BY <1>2, <1>5, Replaced
<1>7. InvitesStay
  BY <1>5, <1>6 DEF InvitesStay
<1>8. OrgsStay
  BY <1>1, OrgType DEF OrgsStay
<1>9. InvitesResolve' /\ FoundersStay'
  <2>1. InvitesResolve'
    BY <1>1, <1>5, <1>6 DEF Members, InvitesResolve
  <2>2. FoundersStay'
    BY <1>1, OrgType DEF Members, FoundersStay
  <2> QED
    BY <2>1, <2>2
<1>10. InvitedTo(o) /\ u # orgs[o].founder
  BY InvitedToEach DEF Members, FoundersStay
<1>11. \A j \in DOMAIN invites : ~(invites[j].org = o /\ invites[j].accepted /\ invites[j].user = u)
  BY <1>10 DEF InvitedTo, Status
<1>12. \A v \in Users : Status(o, v)' = IF v = u THEN "active" ELSE Status(o, v)
  BY <1>1 DEF Status
<1>13. InvitedTo(o)'
  BY <1>1, <1>5, <1>6, <1>10, <1>11, <1>12, InviteType DEF InvitedTo
<1>14. \A p \in OrgIds : p # o /\ InvitedTo(p) => InvitedTo(p)'
  <2> SUFFICES ASSUME NEW p \in OrgIds, p # o, InvitedTo(p)
               PROVE  InvitedTo(p)'
    OBVIOUS
  <2>1. \A v \in Users : Status(p, v)' = Status(p, v)
    BY <1>1 DEF Status
  <2>2. \A j \in DOMAIN invites :
          invites[j].org = p => invites'[j].accepted = invites[j].accepted
    BY <1>5, InviteType
  <2> QED
    BY <1>1, <1>5, <1>6, <2>1, <2>2, InviteType DEF InvitedTo
<1>15. MembersWereInvited'
  BY <1>1, <1>13, <1>14, InvitedToEach DEF Members
<1> QED
  BY <1>1, <1>6, <1>7, <1>8, <1>9, <1>15 DEF MemberFacts, Members

-----------------------------------------------------------------------------
(* What the requests have read stays true enough *)

\* A request comes from a session of its browser's user.  An invitation is
\* accepted by whom it is for; whose status is set is a member, unless the
\* organization has been deleted meanwhile.
Sound(q) ==
    q.op # "idle" =>
        /\ q.ses \in DOMAIN sessions
        /\ sessions[q.ses].user = Person(q.dev)
        /\ q.op = "delete" => q.user = Person(q.dev)
        /\ q.op = "accept" => /\ q.row \in DOMAIN invites
                              /\ invites[q.row].org = q.org
                              /\ invites[q.row].user = q.user
        /\ q.op \in {"leave", "suspend", "kick", "restore"} =>
              /\ q.org \in OrgIds
              /\ orgs[q.org].live => orgs[q.org].status[q.user] # "none"

SoundRequests == \A r \in Requests : Sound(req[r])

\* The inductive invariant.
IInv == TypeOK /\ Owned /\ Members /\ SoundRequests

\* A request and its fields.
LEMMA RequestType ==
    ASSUME NEW q \in Request, q.op # "idle"
    PROVE  /\ q.dev \in Browsers
           /\ q.ses \in Nat
           /\ q.org \in Nat
           /\ q.user \in Users
           /\ q.row \in Nat
           /\ q.role \in Roles
BY DEF Request, Idle

LEMMA SoundStays ==
    ASSUME SessionsStay, OrgsStay, InvitesStay, NEW q \in Request, Sound(q)
    PROVE  Sound(q)'
<1> SUFFICES ASSUME q.op # "idle"
             PROVE  Sound(q)'
  BY DEF Sound
<1>1. q.user \in Users
  BY RequestType
<1>2. q.ses \in DOMAIN sessions' /\ sessions'[q.ses].user = Person(q.dev)
  BY DEF Sound, SessionsStay
<1>3. q.op = "accept" => /\ q.row \in DOMAIN invites'
                         /\ invites'[q.row].org = q.org
                         /\ invites'[q.row].user = q.user
  BY DEF Sound, InvitesStay
<1>4. q.op \in {"leave", "suspend", "kick", "restore"} =>
         /\ q.org \in OrgIds'
         /\ orgs'[q.org].live => orgs'[q.org].status[q.user] # "none"
  BY <1>1 DEF Sound, OrgsStay
<1> QED
  BY <1>2, <1>3, <1>4 DEF Sound, Person

\* What every step of one request slot comes down to.
LEMMA RequestKept ==
    ASSUME IInv, SessionFacts, MemberFacts, grants' \in Seq(Grant),
           NEW r \in Requests, NEW q \in Request, Sound(q),
           req' = [req EXCEPT ![r] = q]
    PROVE  IInv'
<1>1. req' \in [Requests -> Request]
  BY DEF IInv, TypeOK
<1>2. \A p \in Requests : Sound(req'[p])
  BY DEF IInv, TypeOK, SoundRequests
<1>3. \A x \in Request : Sound(x) => Sound(x)'
  BY SoundStays DEF SessionFacts, MemberFacts
<1>4. SoundRequests'
  BY <1>1, <1>2, <1>3 DEF SoundRequests, Sound
<1>5. TypeOK'
  BY <1>1 DEF TypeOK, SessionFacts, MemberFacts, Browsers
<1> QED
  BY <1>4, <1>5 DEF IInv, SessionFacts, MemberFacts

\* ... and every step of none.
LEMMA RequestsKept ==
    ASSUME IInv, SessionFacts, MemberFacts, UNCHANGED <<grants, req>>
    PROVE  IInv'
<1>1. \A x \in Request : Sound(x) => Sound(x)'
  BY SoundStays DEF SessionFacts, MemberFacts
<1>2. SoundRequests'
  BY <1>1 DEF IInv, TypeOK, SoundRequests, Sound
<1>3. TypeOK'
  BY DEF IInv, TypeOK, SessionFacts, MemberFacts, Browsers
<1> QED
  BY <1>2, <1>3 DEF IInv, SessionFacts, MemberFacts

LEMMA IdleIsSound == Idle \in Request /\ Sound(Idle)
BY DEF Idle, Request, Sound

LEMMA SessionsUnchanged ==
    ASSUME IInv, UNCHANGED <<sessions, cookie>>
    PROVE  SessionFacts
<1>1. sessions \in Seq(UserSession) /\ cookie \in [Browsers -> Nat \cup {None}]
  BY DEF IInv, TypeOK
<1> QED
  BY <1>1 DEF IInv, SessionFacts, SessionsStay, Owned

-----------------------------------------------------------------------------
(* Requests begin *)

LEMMA Begun ==
    ASSUME IInv, NEW r \in Requests, NEW q \in Request, Sound(q), Begin(r, q)
    PROVE  IInv'
<1>1. SessionFacts
  BY SessionsUnchanged DEF Begin
<1>2. MemberFacts
  BY MembersUnchanged DEF Begin, IInv
<1> QED
  BY <1>1, <1>2, RequestKept DEF Begin, IInv, TypeOK

\* Whoever is served has a session of their own, and is an active member of the
\* organization it is bound to.
LEMMA Asker ==
    ASSUME IInv, NEW r \in Requests, NEW b \in Browsers, Served(r, b)
    PROVE  /\ cookie[b] \in DOMAIN sessions
           /\ cookie[b] \in Nat
           /\ sessions[cookie[b]].user = Person(b)
           /\ Here(b) \in Nat
           /\ Here(b) # 0 => /\ Here(b) \in OrgIds
                             /\ orgs[Here(b)].status[Person(b)] = "active"
<1>1. cookie[b] \in DOMAIN sessions
  BY DEF Served, Valid
<1>2. sessions \in Seq(UserSession)
  BY DEF IInv, TypeOK
<1>3. cookie[b] \in Nat /\ sessions[cookie[b]] \in UserSession
  BY <1>1, <1>2, RowType
<1>4. sessions[cookie[b]].user = Person(b)
  BY <1>1 DEF IInv, Owned
<1>5. Here(b) # 0 => Status(Here(b), Person(b)) = "active"
  BY <1>4 DEF Served, Valid, Here
<1> QED
  BY <1>1, <1>3, <1>4, <1>5 DEF Here, UserSession, Status

Ops == {"create", "select", "accept", "leave", "delete", "invite", "uninvite",
        "grant", "ungrant", "suspend", "kick", "restore"}

LEMMA AskType ==
    ASSUME NEW b \in Browsers, cookie[b] \in Nat, NEW op \in Ops,
           NEW o \in Nat, NEW u \in Users, NEW row \in Nat
    PROVE  /\ Asks(b, op, o, u, row) \in Request
           /\ Asks(b, op, o, u, row).op = op
           /\ Asks(b, op, o, u, row).dev = b
           /\ Asks(b, op, o, u, row).ses = cookie[b]
           /\ Asks(b, op, o, u, row).org = o
           /\ Asks(b, op, o, u, row).user = u
           /\ Asks(b, op, o, u, row).row = row
BY DEF Asks, Request, Ops, Roles

LEMMA AskSound ==
    ASSUME IInv, NEW r \in Requests, NEW b \in Browsers, Served(r, b),
           NEW op \in Ops, NEW o \in Nat, NEW u \in Users, NEW row \in Nat,
           op = "delete" => u = Person(b),
           op = "accept" => /\ row \in DOMAIN invites
                            /\ invites[row].org = o
                            /\ invites[row].user = u,
           op \in {"leave", "suspend", "kick", "restore"} =>
              o \in OrgIds /\ orgs[o].status[u] # "none"
    PROVE  /\ Asks(b, op, o, u, row) \in Request
           /\ Sound(Asks(b, op, o, u, row))
<1>1. /\ cookie[b] \in DOMAIN sessions
      /\ cookie[b] \in Nat
      /\ sessions[cookie[b]].user = Person(b)
  BY Asker
<1>2. /\ Asks(b, op, o, u, row) \in Request
      /\ Asks(b, op, o, u, row).op = op
      /\ Asks(b, op, o, u, row).dev = b
      /\ Asks(b, op, o, u, row).ses = cookie[b]
      /\ Asks(b, op, o, u, row).org = o
      /\ Asks(b, op, o, u, row).user = u
      /\ Asks(b, op, o, u, row).row = row
  BY <1>1, AskType
<1> QED
  BY <1>1, <1>2 DEF Sound

LEMMA OnboardingKeeps ==
    ASSUME IInv, NEW r \in Requests, NEW b \in Browsers, Onboarding(r, b)
    PROVE  IInv'
<1>1. Person(b) \in Users
  BY PersonType
<1>2. CASE BeginOrgCreate(r, b)
  <2>1. Served(r, b) /\ Begin(r, Asks(b, "create", 0, Person(b), 0))
    BY <1>2 DEF BeginOrgCreate, Bound
  <2>2. /\ Asks(b, "create", 0, Person(b), 0) \in Request
        /\ Sound(Asks(b, "create", 0, Person(b), 0))
    BY <1>1, <2>1, AskSound DEF Ops
  <2> QED
    BY <2>1, <2>2, Begun
<1>3. ASSUME NEW o \in OrgIds, BeginOrgSelect(r, b, o)
      PROVE  IInv'
  <2>1. Served(r, b) /\ Begin(r, Asks(b, "select", o, Person(b), 0))
    BY <1>3 DEF BeginOrgSelect
  <2>2. o \in Nat
    BY OrgType DEF IInv
  <2>3. /\ Asks(b, "select", o, Person(b), 0) \in Request
        /\ Sound(Asks(b, "select", o, Person(b), 0))
    BY <1>1, <2>1, <2>2, AskSound DEF Ops
  <2> QED
    BY <2>1, <2>3, Begun
<1>4. ASSUME NEW i \in DOMAIN invites, BeginAcceptInvite(r, b, i)
      PROVE  IInv'
  <2>1. /\ Served(r, b)
        /\ invites[i].user = Person(b)
        /\ Begin(r, Asks(b, "accept", invites[i].org, Person(b), i))
    BY <1>4 DEF BeginAcceptInvite, Bound
  <2>2. i \in Nat /\ invites[i].org \in Nat
    BY InviteType DEF IInv
  <2>3. /\ Asks(b, "accept", invites[i].org, Person(b), i) \in Request
        /\ Sound(Asks(b, "accept", invites[i].org, Person(b), i))
    BY <1>1, <2>1, <2>2, AskSound DEF Ops
  <2> QED
    BY <2>1, <2>3, Begun
<1>5. CASE BeginOrgLeave(r, b)
  <2>1. /\ Served(r, b) /\ Here(b) # 0
        /\ Begin(r, Asks(b, "leave", Here(b), Person(b), 0))
    BY <1>5 DEF BeginOrgLeave, Bound
  <2>2. /\ Here(b) \in Nat /\ Here(b) \in OrgIds
        /\ orgs[Here(b)].status[Person(b)] = "active"
    BY <2>1, Asker
  <2>3. /\ Asks(b, "leave", Here(b), Person(b), 0) \in Request
        /\ Sound(Asks(b, "leave", Here(b), Person(b), 0))
    BY <1>1, <2>1, <2>2, AskSound DEF Ops
  <2> QED
    BY <2>1, <2>3, Begun
<1>6. CASE BeginOrgDelete(r, b)
  <2>1. Served(r, b) /\ Begin(r, Asks(b, "delete", Here(b), Person(b), 0))
    BY <1>6 DEF BeginOrgDelete, Bound
  <2>2. Here(b) \in Nat
    BY <2>1, Asker
  <2>3. /\ Asks(b, "delete", Here(b), Person(b), 0) \in Request
        /\ Sound(Asks(b, "delete", Here(b), Person(b), 0))
    BY <1>1, <2>1, <2>2, AskSound DEF Ops
  <2> QED
    BY <2>1, <2>3, Begun
<1> QED
  BY <1>2, <1>3, <1>4, <1>5, <1>6 DEF Onboarding

\* Who administers is served, and a member's id is the organization's.
LEMMA Administrator ==
    ASSUME IInv, NEW r \in Requests, NEW b \in Browsers, Administers(r, b)
    PROVE  /\ Served(r, b)
           /\ Here(b) \in Nat
           /\ Here(b) \in OrgIds
           /\ \A u \in Users : Member(b, u) => orgs[Here(b)].status[u] # "none"
BY Asker DEF Administers, Bound, Member, Status

LEMMA AdministrationKeeps ==
    ASSUME IInv, NEW r \in Requests, NEW b \in Browsers, Administration(r, b)
    PROVE  IInv'
<1>1. ASSUME NEW u \in Users, BeginCreateInvite(r, b, u)
      PROVE  IInv'
  <2>1. Administers(r, b) /\ Begin(r, Asks(b, "invite", Here(b), u, 0))
    BY <1>1 DEF BeginCreateInvite
  <2>2. /\ Asks(b, "invite", Here(b), u, 0) \in Request
        /\ Sound(Asks(b, "invite", Here(b), u, 0))
    BY <2>1, Administrator, AskSound DEF Ops
  <2> QED
    BY <2>1, <2>2, Begun
<1>2. ASSUME NEW u \in Users, NEW role \in Roles, BeginGrantRole(r, b, u, role)
      PROVE  IInv'
  <2> DEFINE q == [Asks(b, "grant", Here(b), u, 0) EXCEPT !.role = role]
  <2>1. Administers(r, b) /\ Begin(r, q)
    BY <1>2 DEF BeginGrantRole
  <2>2. /\ Asks(b, "grant", Here(b), u, 0) \in Request
        /\ Sound(Asks(b, "grant", Here(b), u, 0))
    BY <2>1, Administrator, AskSound DEF Ops
  <2>3. q \in Request /\ Sound(q)
    BY <2>2 DEF Asks, Request, Idle, Sound
  <2> QED
    BY <2>1, <2>3, Begun
<1>3. ASSUME NEW u \in Users, BeginSuspendMember(r, b, u)
      PROVE  IInv'
  <2> DEFINE q == [Asks(b, "suspend", Here(b), u, 0) EXCEPT
                      !.revokes = BoundSessions(Here(b), u)]
  <2>1. Administers(r, b) /\ Member(b, u) /\ Begin(r, q)
    BY <1>3 DEF BeginSuspendMember
  <2>2. /\ Asks(b, "suspend", Here(b), u, 0) \in Request
        /\ Sound(Asks(b, "suspend", Here(b), u, 0))
    BY <2>1, Administrator, AskSound DEF Ops
  <2>3. BoundSessions(Here(b), u) \in SUBSET Nat
    BY DEF BoundSessions, IInv, TypeOK
  <2>4. q \in Request /\ Sound(q)
    BY <2>2, <2>3 DEF Asks, Request, Idle, Sound
  <2> QED
    BY <2>1, <2>4, Begun
<1>4. ASSUME NEW u \in Users, BeginKickMember(r, b, u)
      PROVE  IInv'
  <2>1. /\ Administers(r, b) /\ Member(b, u)
        /\ Begin(r, Asks(b, "kick", Here(b), u, 0))
    BY <1>4 DEF BeginKickMember
  <2>2. /\ Asks(b, "kick", Here(b), u, 0) \in Request
        /\ Sound(Asks(b, "kick", Here(b), u, 0))
    BY <2>1, Administrator, AskSound DEF Ops
  <2> QED
    BY <2>1, <2>2, Begun
<1>5. ASSUME NEW u \in Users, BeginRestoreMember(r, b, u)
      PROVE  IInv'
  <2>1. /\ Administers(r, b) /\ Member(b, u)
        /\ Begin(r, Asks(b, "restore", Here(b), u, 0))
    BY <1>5 DEF BeginRestoreMember
  <2>2. /\ Asks(b, "restore", Here(b), u, 0) \in Request
        /\ Sound(Asks(b, "restore", Here(b), u, 0))
    BY <2>1, Administrator, AskSound DEF Ops
  <2> QED
    BY <2>1, <2>2, Begun
<1>6. ASSUME NEW i \in DOMAIN invites, BeginRevokeInvite(r, b, i)
      PROVE  IInv'
  <2>1. /\ Administers(r, b)
        /\ Begin(r, Asks(b, "uninvite", Here(b), invites[i].user, i))
    BY <1>6 DEF BeginRevokeInvite
  <2>2. i \in Nat /\ invites[i].user \in Users
    BY InviteType DEF IInv
  <2>3. /\ Asks(b, "uninvite", Here(b), invites[i].user, i) \in Request
        /\ Sound(Asks(b, "uninvite", Here(b), invites[i].user, i))
    BY <2>1, <2>2, Administrator, AskSound DEF Ops
  <2> QED
    BY <2>1, <2>3, Begun
<1>7. ASSUME NEW g \in DOMAIN grants, BeginRevokeRole(r, b, g)
      PROVE  IInv'
  <2>1. /\ Administers(r, b)
        /\ Begin(r, Asks(b, "ungrant", Here(b), grants[g].user, g))
    BY <1>7 DEF BeginRevokeRole
  <2>2. g \in Nat /\ grants[g].user \in Users
    BY GrantType DEF IInv
  <2>3. /\ Asks(b, "ungrant", Here(b), grants[g].user, g) \in Request
        /\ Sound(Asks(b, "ungrant", Here(b), grants[g].user, g))
    BY <2>1, <2>2, Administrator, AskSound DEF Ops
  <2> QED
    BY <2>1, <2>3, Begun
<1> QED
  BY <1>1, <1>2, <1>3, <1>4, <1>5, <1>6, <1>7 DEF Administration

-----------------------------------------------------------------------------
(* Requests commit *)

\* Revoking sessions keeps whose they are.
LEMMA RevokedFacts ==
    ASSUME TypeOK, NEW S
    PROVE  /\ Revoked(S) \in [DOMAIN sessions -> UserSession]
           /\ \A s \in DOMAIN sessions : Revoked(S)[s].user = sessions[s].user
<1>1. sessions \in Seq(UserSession)
  BY DEF TypeOK
<1>2. \A s \in DOMAIN sessions : sessions[s] \in UserSession
  BY <1>1, RowType
<1>3. \A s \in DOMAIN sessions :
        /\ [sessions[s] EXCEPT !.state = "revoked"] \in UserSession
        /\ [sessions[s] EXCEPT !.state = "revoked"].user = sessions[s].user
  BY <1>2 DEF UserSession
<1> QED
  BY <1>2, <1>3 DEF Revoked

LEMMA Rotated ==
    ASSUME IInv, NEW q \in Request, q.op # "idle", Sound(q), NEW o \in Nat, Rotate(q, o)
    PROVE  SessionFacts
<1>1. q.dev \in Browsers /\ sessions[q.ses].user = Person(q.dev)
  BY RequestType DEF Sound
<1>2. Person(q.dev) \in Users
  BY <1>1, PersonType
<1>3. /\ NewSession(sessions[q.ses].user, o) \in UserSession
      /\ NewSession(sessions[q.ses].user, o).user = Person(q.dev)
  BY <1>1, <1>2 DEF NewSession, UserSession
<1>4. /\ Revoked({q.ses}) \in [DOMAIN sessions -> UserSession]
      /\ \A s \in DOMAIN sessions : Revoked({q.ses})[s].user = sessions[s].user
  BY RevokedFacts DEF IInv
<1> QED
  BY <1>1, <1>3, <1>4, SessionOpened DEF Rotate, IInv

\* Sessions are revoked and no cookie is sent.
LEMMA OnlyRevoked ==
    ASSUME IInv, NEW S, sessions' = Revoked(S), cookie' = cookie
    PROVE  SessionFacts
<1>1. /\ Revoked(S) \in [DOMAIN sessions -> UserSession]
      /\ \A s \in DOMAIN sessions : Revoked(S)[s].user = sessions[s].user
  BY RevokedFacts DEF IInv
<1> QED
  BY <1>1, SessionsReplaced DEF IInv, TypeOK

\* A slot is free again.
LEMMA Finished ==
    ASSUME IInv, NEW r \in Requests, Finish(r),
           SessionFacts, MemberFacts, grants' \in Seq(Grant)
    PROVE  IInv'
BY RequestKept, IdleIsSound DEF Finish

LEMMA Read ==
    ASSUME IInv, NEW r \in Requests
    PROVE  /\ req[r] \in Request
           /\ Sound(req[r])
           /\ grants \in Seq(Grant)
           /\ TypeOK /\ Owned /\ Members
BY DEF IInv, TypeOK, SoundRequests

LEMMA OnboardingCommits ==
    ASSUME IInv, NEW r \in Requests,
           \/ CommitOrgCreate(r) \/ CommitOrgSelect(r)
           \/ CommitAcceptInvite(r) \/ CommitOrgLeave(r)
    PROVE  IInv'
<1> DEFINE q == req[r]
<1>1. q \in Request /\ Sound(q) /\ grants \in Seq(Grant) /\ TypeOK /\ Members
  BY Read
<1> HIDE DEF q
<1>2. CASE CommitOrgCreate(r)
  <2>1. /\ q.op = "create"
        /\ orgs' = Append(orgs, NewOrg(q.user))
        /\ grants' = Append(grants, NewGrant(Len(orgs) + 1, q.user, "owner"))
        /\ Rotate(q, Len(orgs) + 1)
        /\ Finish(r)
        /\ invites' = invites
    BY <1>2 DEF CommitOrgCreate, q
  <2>2. q.user \in Users
    BY <1>1, <2>1, RequestType
  <2>3. Len(orgs) + 1 \in Nat
    BY <1>1 DEF TypeOK
  <2>4. SessionFacts
    BY <1>1, <2>1, <2>3, Rotated
  <2>5. MemberFacts
    BY <1>1, <2>1, <2>2, OrgFounded
  <2>6. NewGrant(Len(orgs) + 1, q.user, "owner") \in Grant
    BY <2>2, <2>3 DEF NewGrant, Grant, Roles
  <2>7. grants' \in Seq(Grant)
    BY <1>1, <2>1, <2>6, Appended
  <2> QED
    BY <2>1, <2>4, <2>5, <2>7, Finished
<1>3. CASE CommitOrgSelect(r)
  <2>1. /\ q.op = "select"
        /\ Rotate(q, q.org)
        /\ Finish(r)
        /\ UNCHANGED <<orgs, grants, invites>>
    BY <1>3 DEF CommitOrgSelect, q
  <2>2. SessionFacts
    BY <1>1, <2>1, RequestType, Rotated
  <2>3. MemberFacts
    BY <1>1, <2>1, MembersUnchanged
  <2> QED
    BY <1>1, <2>1, <2>2, <2>3, Finished
<1>4. CASE CommitAcceptInvite(r)
  <2>1. /\ q.op = "accept"
        /\ q.org \in OrgIds /\ orgs[q.org].live
        /\ orgs[q.org].status[q.user] = "none"
        /\ SetStatus(q.org, q.user, "active")
        /\ invites' = [invites EXCEPT ![q.row].accepted = TRUE]
        /\ Rotate(q, q.org)
        /\ Finish(r)
        /\ grants' = grants
    BY <1>4 DEF CommitAcceptInvite, OrgThere, Status, q
  <2>2. q.user \in Users /\ q.org \in Nat
    BY <1>1, <2>1, RequestType
  <2>3. SessionFacts
    BY <1>1, <2>1, <2>2, Rotated
  <2>4. /\ q.row \in DOMAIN invites
        /\ invites[q.row].org = q.org
        /\ invites[q.row].user = q.user
    BY <1>1, <2>1 DEF Sound
  <2>5. MemberFacts
    BY <1>1, <2>1, <2>2, <2>4, MemberJoins
  <2> QED
    BY <1>1, <2>1, <2>3, <2>5, Finished
<1>5. CASE CommitOrgLeave(r)
  <2>1. /\ q.op = "leave"
        /\ SetStatus(q.org, q.user, "suspended")
        /\ Finish(r)
        /\ UNCHANGED <<grants, invites>>
    BY <1>5 DEF CommitOrgLeave, q
  <2>2. \E o \in ActiveOrgs(q.user) \cup {q.org} : Rotate(q, o)
    BY <1>5 DEF CommitOrgLeave, q
  <2>3. q.user \in Users /\ q.org \in Nat
    BY <1>1, <2>1, RequestType
  <2>4. ActiveOrgs(q.user) \subseteq Nat
    BY <1>1, OrgType DEF ActiveOrgs
  <2>5. SessionFacts
    BY <1>1, <2>1, <2>2, <2>3, <2>4, Rotated
  <2>6. q.org \in OrgIds /\ (orgs[q.org].live => orgs[q.org].status[q.user] # "none")
    BY <1>1, <2>1 DEF Sound
  <2>7. MemberFacts
    BY <1>1, <2>1, <2>3, <2>6, MemberStays
  <2> QED
    BY <1>1, <2>1, <2>5, <2>7, Finished
<1> QED
  BY <1>2, <1>3, <1>4, <1>5

LEMMA DeleteCommits ==
    ASSUME IInv, NEW r \in Requests, CommitOrgDelete(r)
    PROVE  IInv'
<1> DEFINE q == req[r]
           t == [s \in DOMAIN sessions |->
                   IF sessions[s].org = q.org THEN [sessions[s] EXCEPT !.state = "deleted"]
                   ELSE sessions[s]]
           x == [NewSession(q.user, q.org) EXCEPT !.state = "deleted"]
           gone == [g \in DOMAIN grants |->
                      IF grants[g].org = q.org THEN [grants[g] EXCEPT !.live = FALSE]
                      ELSE grants[g]]
<1>1. q \in Request /\ Sound(q) /\ grants \in Seq(Grant) /\ TypeOK /\ Owned /\ Members
  BY Read
<1>2. /\ q.op = "delete"
      /\ q.org \in OrgIds
      /\ orgs' = [orgs EXCEPT ![q.org] = [live |-> FALSE, founder |-> @.founder,
                                          status |-> [u \in Users |-> "none"]]]
      /\ grants' = gone
      /\ sessions' = Append(t, x)
      /\ cookie' = [cookie EXCEPT ![q.dev] = Len(sessions) + 1]
      /\ Finish(r)
      /\ invites' = invites
  BY DEF CommitOrgDelete, OrgThere
<1>3. q.dev \in Browsers /\ q.user \in Users /\ q.org \in Nat /\ q.user = Person(q.dev)
  BY <1>1, <1>2, RequestType DEF Sound
<1>4. \A s \in DOMAIN sessions : sessions[s] \in UserSession
  BY <1>1, RowType DEF TypeOK
<1>5. /\ t \in [DOMAIN sessions -> UserSession]
      /\ \A s \in DOMAIN sessions : t[s].user = sessions[s].user
  <2>1. \A s \in DOMAIN sessions :
          /\ [sessions[s] EXCEPT !.state = "deleted"] \in UserSession
          /\ [sessions[s] EXCEPT !.state = "deleted"].user = sessions[s].user
    BY <1>4 DEF UserSession
  <2> QED
    BY <1>4, <2>1
<1>6. x \in UserSession /\ x.user = Person(q.dev)
  BY <1>3 DEF NewSession, UserSession
<1>7. grants' \in Seq(Grant)
  <2>1. \A g \in DOMAIN grants : grants[g] \in Grant
    BY <1>1, GrantType
  <2>2. \A g \in DOMAIN grants : [grants[g] EXCEPT !.live = FALSE] \in Grant
    BY <2>1 DEF Grant
  <2>3. gone \in [DOMAIN grants -> Grant]
    BY <2>1, <2>2
  <2> HIDE DEF gone
  <2> QED
    BY <1>1, <1>2, <2>3, Replaced
<1> HIDE DEF q, t, x, gone
<1>8. SessionFacts
  BY <1>1, <1>2, <1>3, <1>5, <1>6, SessionOpened
<1>9. MemberFacts
  BY <1>1, <1>2, OrgRemoved
<1> QED
  BY <1>2, <1>7, <1>8, <1>9, Finished

LEMMA AdministrationCommits ==
    ASSUME IInv, NEW r \in Requests,
           \/ CommitCreateInvite(r) \/ CommitRevokeInvite(r)
           \/ CommitGrantRole(r) \/ CommitRevokeRole(r)
    PROVE  IInv'
<1> DEFINE q == req[r]
<1>1. q \in Request /\ Sound(q) /\ grants \in Seq(Grant) /\ TypeOK /\ Members
  BY Read
<1> HIDE DEF q
<1>2. CASE CommitCreateInvite(r)
  <2>1. /\ q.op = "invite"
        /\ q.org \in OrgIds
        /\ invites' = Append(invites, NewInvite(q.org, q.user))
        /\ Finish(r)
        /\ UNCHANGED <<orgs, grants, sessions, cookie>>
    BY <1>2 DEF CommitCreateInvite, OrgThere, q
  <2>2. q.user \in Users
    BY <1>1, <2>1, RequestType
  <2>3. MemberFacts
    BY <1>1, <2>1, <2>2, InviteSent
  <2> QED
    BY <1>1, <2>1, <2>3, SessionsUnchanged, Finished
<1>3. CASE CommitRevokeInvite(r)
  <2>1. /\ invites' = [invites EXCEPT ![q.row].revoked = TRUE]
        /\ Finish(r)
        /\ UNCHANGED <<orgs, grants, sessions, cookie>>
    BY <1>3 DEF CommitRevokeInvite, q
  <2>2. /\ invites' \in [DOMAIN invites -> Invite]
        /\ \A i \in DOMAIN invites : /\ invites'[i].org = invites[i].org
                                     /\ invites'[i].user = invites[i].user
                                     /\ invites'[i].accepted = invites[i].accepted
    <3>1. \A i \in DOMAIN invites : invites[i] \in Invite
      BY <1>1, InviteType
    <3>2. \A i \in DOMAIN invites :
            /\ [invites[i] EXCEPT !.revoked = TRUE] \in Invite
            /\ [invites[i] EXCEPT !.revoked = TRUE].org = invites[i].org
            /\ [invites[i] EXCEPT !.revoked = TRUE].user = invites[i].user
            /\ [invites[i] EXCEPT !.revoked = TRUE].accepted = invites[i].accepted
      BY <3>1 DEF Invite
    <3>3. invites \in Seq(Invite)
      BY <1>1 DEF TypeOK
    <3> QED
      BY <2>1, <3>1, <3>2, <3>3
  <2>3. MemberFacts
    BY <1>1, <2>1, <2>2, InviteMarked
  <2> QED
    BY <1>1, <2>1, <2>3, SessionsUnchanged, Finished
<1>4. CASE CommitGrantRole(r)
  <2>1. /\ q.op = "grant"
        /\ grants' = Append(grants, NewGrant(q.org, q.user, q.role))
        /\ Finish(r)
        /\ UNCHANGED <<orgs, invites, sessions, cookie>>
    BY <1>4 DEF CommitGrantRole, q
  <2>2. NewGrant(q.org, q.user, q.role) \in Grant
    BY <1>1, <2>1, RequestType DEF NewGrant, Grant
  <2>3. grants' \in Seq(Grant)
    BY <1>1, <2>1, <2>2, Appended
  <2>4. MemberFacts
    BY <1>1, <2>1, MembersUnchanged
  <2> QED
    BY <2>1, <2>3, <2>4, SessionsUnchanged, Finished
<1>5. CASE CommitRevokeRole(r)
  <2>1. /\ grants' = [grants EXCEPT ![q.row].live = FALSE]
        /\ Finish(r)
        /\ UNCHANGED <<orgs, invites, sessions, cookie>>
    BY <1>5 DEF CommitRevokeRole, q
  <2>2. \A g \in DOMAIN grants : grants[g] \in Grant
    BY <1>1, GrantType
  <2>3. \A g \in DOMAIN grants : [grants[g] EXCEPT !.live = FALSE] \in Grant
    BY <2>2 DEF Grant
  <2>4. grants' \in [DOMAIN grants -> Grant]
    BY <1>1, <2>1, <2>2, <2>3
  <2>5. grants' \in Seq(Grant)
    BY <1>1, <2>4, Replaced
  <2>6. MemberFacts
    BY <1>1, <2>1, MembersUnchanged
  <2> QED
    BY <2>1, <2>5, <2>6, SessionsUnchanged, Finished
<1> QED
  BY <1>2, <1>3, <1>4, <1>5

LEMMA MembershipCommits ==
    ASSUME IInv, NEW r \in Requests,
           CommitSuspendMember(r) \/ CommitKickMember(r) \/ CommitRestoreMember(r)
    PROVE  IInv'
<1> DEFINE q == req[r]
<1>1. q \in Request /\ Sound(q) /\ grants \in Seq(Grant) /\ TypeOK /\ Members
  BY Read
<1> HIDE DEF q
<1>2. q.op \in {"suspend", "kick", "restore"}
  BY DEF CommitSuspendMember, CommitKickMember, CommitRestoreMember, q
<1>3. /\ q.user \in Users
      /\ q.org \in OrgIds
      /\ orgs[q.org].live => orgs[q.org].status[q.user] # "none"
  BY <1>1, <1>2, RequestType DEF Sound
<1>4. CASE CommitSuspendMember(r)
  <2>1. /\ SetStatus(q.org, q.user, "suspended")
        /\ sessions' = Revoked(q.revokes)
        /\ Finish(r)
        /\ UNCHANGED <<grants, invites, cookie>>
    BY <1>4 DEF CommitSuspendMember, q
  <2>2. SessionFacts
    BY <2>1, OnlyRevoked
  <2>3. MemberFacts
    BY <1>1, <1>3, <2>1, MemberStays
  <2> QED
    BY <1>1, <2>1, <2>2, <2>3, Finished
<1>5. CASE CommitKickMember(r)
  <2>1. /\ SetStatus(q.org, q.user, "suspended")
        /\ sessions' = Revoked(BoundSessions(q.org, q.user))
        /\ Finish(r)
        /\ UNCHANGED <<grants, invites, cookie>>
    BY <1>5 DEF CommitKickMember, q
  <2>2. SessionFacts
    BY <2>1, OnlyRevoked
  <2>3. MemberFacts
    BY <1>1, <1>3, <2>1, MemberStays
  <2> QED
    BY <1>1, <2>1, <2>2, <2>3, Finished
<1>6. CASE CommitRestoreMember(r)
  <2>1. /\ SetStatus(q.org, q.user, "active")
        /\ Finish(r)
        /\ UNCHANGED <<grants, invites, sessions, cookie>>
    BY <1>6 DEF CommitRestoreMember, q
  <2>2. MemberFacts
    BY <1>1, <1>3, <2>1, MemberStays
  <2> QED
    BY <1>1, <2>1, <2>2, SessionsUnchanged, Finished
<1> QED
  BY <1>4, <1>5, <1>6

-----------------------------------------------------------------------------
(* The invariant *)

LEMMA InitKeeps == Init => IInv
<1> SUFFICES ASSUME Init
             PROVE  IInv
  OBVIOUS
<1>1. Founders \in Seq(Users)
  BY FoundersAssumption
<1>2. \A o \in DOMAIN Founders : Founders[o] \in Users
  BY <1>1, RowType
<1>3. \A o \in DOMAIN Founders :
        /\ NewOrg(Founders[o]) \in Organization
        /\ NewGrant(o, Founders[o], "owner") \in Grant
  BY <1>1, <1>2 DEF NewOrg, Organization, Statuses, NewGrant, Grant, Roles
<1>4. orgs \in Seq(Organization) /\ grants \in Seq(Grant)
  <2>1. orgs \in [DOMAIN Founders -> Organization]
    BY <1>3 DEF Init
  <2>2. grants \in [DOMAIN Founders -> Grant]
    BY <1>3 DEF Init
  <2> QED
    BY <1>1, <2>1, <2>2, Replaced
<1>5. invites \in Seq(Invite)
  BY DEF Init
<1>6. Devices \in Seq([user : Users, org : Nat])
  BY DevicesAssumption, Zenon
<1>7. \A b \in Browsers : Person(b) \in Users /\ Devices[b].org \in Nat
  <2>1. \A b \in DOMAIN Devices : Devices[b] \in [user : Users, org : Nat]
    BY <1>6, RowType, Zenon
  <2> QED
    BY <2>1 DEF Browsers, Person
<1>8. \A b \in Browsers : /\ NewSession(Person(b), Devices[b].org) \in UserSession
                          /\ NewSession(Person(b), Devices[b].org).user = Person(b)
  BY <1>7 DEF NewSession, UserSession
<1>9. sessions \in [Browsers -> UserSession]
  BY <1>8 DEF Init
<1>10. sessions \in Seq(UserSession)
  BY <1>6, <1>9, Replaced DEF Browsers
<1>11. cookie \in [Browsers -> Nat \cup {None}]
  BY <1>6 DEF Init, Browsers
<1>12. req \in [Requests -> Request] /\ SoundRequests
  BY IdleIsSound DEF Init, SoundRequests
<1>13. Owned
  BY <1>8 DEF Init, Owned
<1>14. \A o \in OrgIds : /\ orgs[o].founder = Founders[o]
                         /\ \A u \in Users : orgs[o].status[u] =
                               IF u = Founders[o] THEN "active" ELSE "none"
  BY DEF Init, OrgIds, NewOrg
<1>15. InvitesResolve /\ FoundersStay
  BY <1>2, <1>14 DEF Init, InvitesResolve, FoundersStay, OrgIds
<1>16. MembersWereInvited
  <2>1. DOMAIN invites = {}
    BY DEF Init
  <2>2. \A o \in OrgIds, u \in Users : Status(o, u) # "none" => u = orgs[o].founder
    BY <1>14 DEF Status
  <2>3. \A o \in OrgIds : InvitedTo(o)
    BY <2>1, <2>2 DEF InvitedTo
  <2> QED
    BY <2>3, InvitedToEach
<1> QED
  BY <1>4, <1>5, <1>10, <1>11, <1>12, <1>13, <1>15, <1>16 DEF IInv, TypeOK, Members

\* Cookies and the clock.
LEMMA TimeKeeps ==
    ASSUME IInv,
           \/ \E b \in Browsers : \/ LoginCallback(b) \/ LinkCallback(b)
                                  \/ Logout(b) \/ Bounce(b)
           \/ \E s \in DOMAIN sessions : SessionLapses(s)
           \/ \E i \in DOMAIN invites : InviteExpires(i)
    PROVE  IInv'
<1>1. /\ TypeOK /\ Owned /\ Members
      /\ sessions \in Seq(UserSession) /\ invites \in Seq(Invite)
      /\ cookie \in [Browsers -> Nat \cup {None}]
  BY DEF IInv, TypeOK
<1>2. \A s \in DOMAIN sessions : sessions[s] \in UserSession
  BY <1>1, RowType
<1>3. ASSUME NEW b \in Browsers, NEW id \in {None, Unstored}, Sends(b, id)
      PROVE  IInv'
  <2>1. /\ cookie' \in [Browsers -> Nat \cup {None}]
        /\ \A c \in Browsers : cookie'[c] \in {cookie[c], None, Unstored}
    BY <1>1, <1>3 DEF Sends, Unstored
  <2>2. sessions' \in [DOMAIN sessions -> UserSession] /\ sessions' = sessions
    BY <1>1, <1>2, <1>3 DEF Sends
  <2>3. SessionFacts
    BY <1>1, <2>1, <2>2, SessionsReplaced
  <2>4. MemberFacts
    BY <1>1, <1>3, MembersUnchanged DEF Sends
  <2> QED
    BY <1>3, <2>3, <2>4, RequestsKept DEF Sends
<1>4. ASSUME NEW s \in DOMAIN sessions, SessionLapses(s)
      PROVE  IInv'
  <2>1. \A t \in DOMAIN sessions :
          /\ [sessions[t] EXCEPT !.state = "lapsed"] \in UserSession
          /\ [sessions[t] EXCEPT !.state = "lapsed"].user = sessions[t].user
    BY <1>2 DEF UserSession
  <2>2. /\ sessions' \in [DOMAIN sessions -> UserSession]
        /\ \A t \in DOMAIN sessions : sessions'[t].user = sessions[t].user
        /\ UNCHANGED <<orgs, grants, invites, cookie, req>>
    BY <1>1, <1>2, <1>4, <2>1 DEF SessionLapses
  <2>3. SessionFacts
    BY <1>1, <2>2, SessionsReplaced
  <2>4. MemberFacts
    BY <1>1, <2>2, MembersUnchanged
  <2> QED
    BY <2>2, <2>3, <2>4, RequestsKept
<1>5. ASSUME NEW i \in DOMAIN invites, InviteExpires(i)
      PROVE  IInv'
  <2>1. /\ invites' = [invites EXCEPT ![i].expired = TRUE]
        /\ UNCHANGED <<orgs, grants, sessions, cookie, req>>
    BY <1>5 DEF InviteExpires
  <2>2. \A j \in DOMAIN invites : invites[j] \in Invite
    BY <1>1, InviteType
  <2>3. \A j \in DOMAIN invites :
          /\ [invites[j] EXCEPT !.expired = TRUE] \in Invite
          /\ [invites[j] EXCEPT !.expired = TRUE].org = invites[j].org
          /\ [invites[j] EXCEPT !.expired = TRUE].user = invites[j].user
          /\ [invites[j] EXCEPT !.expired = TRUE].accepted = invites[j].accepted
    BY <2>2 DEF Invite
  <2>4. /\ invites' \in [DOMAIN invites -> Invite]
        /\ \A j \in DOMAIN invites : /\ invites'[j].org = invites[j].org
                                     /\ invites'[j].user = invites[j].user
                                     /\ invites'[j].accepted = invites[j].accepted
    BY <1>1, <2>1, <2>2, <2>3
  <2>5. MemberFacts
    BY <1>1, <2>1, <2>4, InviteMarked
  <2> QED
    BY <2>1, <2>5, SessionsUnchanged, RequestsKept
<1> QED
  BY <1>3, <1>4, <1>5 DEF LoginCallback, LinkCallback, Logout, Bounce

LEMMA StepKeeps == IInv /\ [Next]_vars => IInv'
<1> SUFFICES ASSUME IInv, [Next]_vars
             PROVE  IInv'
  OBVIOUS
<1>1. TypeOK /\ Members /\ grants \in Seq(Grant)
  BY DEF IInv, TypeOK
<1>2. CASE UNCHANGED vars
  BY <1>1, <1>2, SessionsUnchanged, MembersUnchanged, RequestsKept DEF vars
<1>3. ASSUME NEW r \in Requests, NEW b \in Browsers,
             Onboarding(r, b) \/ Administration(r, b)
      PROVE  IInv'
  BY <1>3, OnboardingKeeps, AdministrationKeeps
<1>4. ASSUME NEW r \in Requests, Commit(r)
      PROVE  IInv'
  BY <1>4, OnboardingCommits, DeleteCommits, AdministrationCommits,
     MembershipCommits DEF Commit
<1>5. ASSUME NEW r \in Requests, Abort(r)
      PROVE  IInv'
  BY <1>1, <1>5, SessionsUnchanged, MembersUnchanged, Finished DEF Abort
<1> QED
  BY <1>2, <1>3, <1>4, <1>5, TimeKeeps DEF Next

\* The tables keep their shape, whatever interleaves: a handler that read a row
\* in one transaction and writes it in the next never writes outside a table or
\* a status that is not one.
THEOREM TypeCorrect == Spec => []TypeOK
<1>1. IInv => TypeOK
  BY DEF IInv
<1> QED
  BY <1>1, InitKeeps, StepKeeps, PTL DEF Spec

\* Whatever interleaves, the members of an organization are its founder and those
\* who accepted exactly one invitation, of this organization and meant for them.
THEOREM InvitedMembers == Spec => []MembersWereInvited
<1>1. IInv => MembersWereInvited
  BY DEF IInv, Members
<1> QED
  BY <1>1, InitKeeps, StepKeeps, PTL DEF Spec

-----------------------------------------------------------------------------
(* With one request at a time *)

OneAtATime == \A r1, r2 \in Requests : r1 = r2

\* No role is granted twice.  IsLastOwner relies on it: it counts the rows.
OneGrant ==
    \A g, h \in DOMAIN grants :
        /\ grants[g].live
        /\ grants[h].live
        /\ grants[g].org = grants[h].org
        /\ grants[g].user = grants[h].user
        /\ grants[g].role = grants[h].role
        => g = h

GrantsResolve == \A g \in DOMAIN grants : grants[g].org \in OrgIds

OwnedOrgs == \A o \in OrgIds : orgs[o].live => OwnerGrants(o) # {}

Owners == OneGrant /\ GrantsResolve /\ OwnedOrgs

\* Nothing happened since the request read: whoever is leaving or taken out is
\* not the only owner, the grant to delete not the only one of an owner, and the
\* role to grant not granted yet.
Fresh(q) ==
    /\ q.op \in {"leave", "suspend", "kick"} =>
          (orgs[q.org].live => \E g \in OwnerGrants(q.org) : grants[g].user # q.user)
    /\ q.op = "ungrant" =>
          \A o \in OrgIds : orgs[o].live => \E g \in OwnerGrants(o) : g # q.row
    /\ q.op = "grant" => ~Holds(q.org, q.user, q.role)

SInv == Owners /\ \A r \in Requests : Fresh(req[r])

LEMMA OwnersHold ==
    ASSUME TypeOK
    PROVE  OrgHasOwner <=> OwnedOrgs
<1>1. \A o \in OrgIds :
        (\E u \in ActiveMembers(o) : Holds(o, u, "owner")) <=> OwnerGrants(o) # {}
  BY GrantType DEF ActiveMembers, Holds, OwnerGrants
<1> QED
  BY <1>1 DEF OrgHasOwner, OwnedOrgs

\* Statuses change, and every live organization keeps an owner's grant.
LEMMA OwnersKept ==
    ASSUME Owners, grants' = grants, OrgIds' = OrgIds,
           \A o \in OrgIds : orgs'[o].live =>
              /\ orgs[o].live
              /\ \E g \in OwnerGrants(o) : Status(o, grants[g].user)' = "active"
    PROVE  Owners'
<1>1. OneGrant' /\ GrantsResolve'
  BY DEF Owners, OneGrant, GrantsResolve
<1>2. OwnedOrgs'
  BY DEF OwnedOrgs, OwnerGrants
<1> QED
  BY <1>1, <1>2 DEF Owners

LEMMA OwnersUnchanged ==
    ASSUME Owners, UNCHANGED <<orgs, grants>>
    PROVE  Owners'
BY DEF Owners, OneGrant, GrantsResolve, OwnedOrgs, OwnerGrants, OrgIds, Status

\* Somebody becomes active.
LEMMA OwnersActivated ==
    ASSUME TypeOK, Owners, grants' = grants, NEW o \in OrgIds, NEW u \in Users,
           SetStatus(o, u, "active")
    PROVE  Owners'
<1>1. /\ OrgIds' = OrgIds
      /\ \A p \in OrgIds :
           /\ orgs'[p].live = orgs[p].live
           /\ \A v \in Users :
                 orgs'[p].status[v] = IF p = o /\ v = u THEN "active"
                                      ELSE orgs[p].status[v]
  BY StatusSet DEF Statuses
<1>2. ASSUME NEW p \in OrgIds, NEW g \in OwnerGrants(p)
      PROVE  Status(p, grants[g].user)' = "active"
  <2>1. grants[g].user \in Users /\ Status(p, grants[g].user) = "active"
    BY GrantType DEF OwnerGrants
  <2>2. grants'[g].user = grants[g].user
    OBVIOUS
  <2>3. orgs'[p].status[grants[g].user] = "active"
    BY <1>1, <2>1 DEF Status
  <2> QED
    BY <1>1, <2>2, <2>3 DEF Status
<1> QED
  BY <1>1, <1>2, OwnersKept DEF Owners, OwnedOrgs

\* A member who is not the only owner is suspended.
LEMMA OwnersSuspended ==
    ASSUME TypeOK, Owners, grants' = grants, NEW o \in OrgIds, NEW u \in Users,
           orgs[o].live => \E g \in OwnerGrants(o) : grants[g].user # u,
           SetStatus(o, u, "suspended")
    PROVE  Owners'
<1>1. /\ OrgIds' = OrgIds
      /\ \A p \in OrgIds :
           /\ orgs'[p].live = orgs[p].live
           /\ \A v \in Users :
                 orgs'[p].status[v] = IF p = o /\ v = u THEN "suspended"
                                      ELSE orgs[p].status[v]
  BY StatusSet DEF Statuses
<1>2. ASSUME NEW p \in OrgIds, NEW g \in OwnerGrants(p), p # o \/ grants[g].user # u
      PROVE  Status(p, grants[g].user)' = "active"
  <2>1. grants[g].user \in Users /\ Status(p, grants[g].user) = "active"
    BY GrantType DEF OwnerGrants
  <2>2. grants'[g].user = grants[g].user
    OBVIOUS
  <2>3. orgs'[p].status[grants[g].user] = "active"
    BY <1>1, <1>2, <2>1 DEF Status
  <2> QED
    BY <1>1, <2>2, <2>3 DEF Status
<1>3. ASSUME NEW p \in OrgIds, orgs'[p].live
      PROVE  \E g \in OwnerGrants(p) : Status(p, grants[g].user)' = "active"
  <2>1. \E g \in OwnerGrants(p) : p # o \/ grants[g].user # u
    BY <1>1, <1>3 DEF Owners, OwnedOrgs
  <2> QED
    BY <1>2, <2>1
<1> QED
  BY <1>1, <1>3, OwnersKept

\* A role is granted that was not.
LEMMA OwnersGranted ==
    ASSUME TypeOK, Owners, orgs' = orgs, NEW o \in OrgIds, NEW u \in Users,
           NEW role \in Roles, ~Holds(o, u, role),
           grants' = Append(grants, NewGrant(o, u, role))
    PROVE  Owners'
<1>1. grants \in Seq(Grant)
  BY DEF TypeOK
<1>2. NewGrant(o, u, role) \in Grant
  BY OrgType DEF NewGrant, Grant
<1>3. PICK n \in Nat : n = Len(grants) + 1
  BY <1>1
<1>4. /\ n \notin DOMAIN grants
      /\ DOMAIN grants' = DOMAIN grants \cup {n}
      /\ grants'[n] = NewGrant(o, u, role)
      /\ \A g \in DOMAIN grants : grants'[g] = grants[g]
  BY <1>1, <1>2, <1>3, Appended
<1>5. grants'[n].org = o /\ grants'[n].user = u /\ grants'[n].role = role
  BY <1>4 DEF NewGrant
<1>6. OneGrant'
  BY <1>4, <1>5 DEF Owners, OneGrant, Holds
<1>7. GrantsResolve'
  BY <1>4, <1>5 DEF Owners, GrantsResolve, OrgIds
<1>8. OwnedOrgs'
  BY <1>4 DEF Owners, OwnedOrgs, OwnerGrants, OrgIds, Status
<1> QED
  BY <1>6, <1>7, <1>8 DEF Owners

\* Grants are deleted; every live organization keeps an owner's.
LEMMA OwnersDeleted ==
    ASSUME TypeOK, Owners, orgs' = orgs, NEW n \in Nat,
           \A o \in OrgIds : orgs[o].live => \E g \in OwnerGrants(o) : g # n,
           grants' = [grants EXCEPT ![n].live = FALSE]
    PROVE  Owners'
<1>1. \A g \in DOMAIN grants : grants[g] \in Grant
  BY GrantType
<1>2. \A g \in DOMAIN grants :
        /\ [grants[g] EXCEPT !.live = FALSE].org = grants[g].org
        /\ [grants[g] EXCEPT !.live = FALSE].user = grants[g].user
        /\ [grants[g] EXCEPT !.live = FALSE].role = grants[g].role
        /\ ~[grants[g] EXCEPT !.live = FALSE].live
  BY <1>1 DEF Grant
<1>3. /\ DOMAIN grants' = DOMAIN grants
      /\ \A g \in DOMAIN grants :
            /\ grants'[g].org = grants[g].org
            /\ grants'[g].user = grants[g].user
            /\ grants'[g].role = grants[g].role
            /\ g # n => grants'[g] = grants[g]
            /\ g = n => ~grants'[g].live
  BY <1>2
<1>4. OneGrant' /\ GrantsResolve'
  BY <1>3 DEF Owners, OneGrant, GrantsResolve, OrgIds
<1>5. OwnedOrgs'
  BY <1>3 DEF OwnedOrgs, OwnerGrants, OrgIds, Status
<1> QED
  BY <1>4, <1>5 DEF Owners

\* An organization is founded by its owner.
LEMMA OwnersFounded ==
    ASSUME TypeOK, Owners, NEW u \in Users,
           orgs' = Append(orgs, NewOrg(u)),
           grants' = Append(grants, NewGrant(Len(orgs) + 1, u, "owner"))
    PROVE  Owners'
<1>1. orgs \in Seq(Organization) /\ grants \in Seq(Grant)
  BY DEF TypeOK
<1>2. PICK n \in Nat : n = Len(orgs) + 1
  BY <1>1
<1>3. PICK m \in Nat : m = Len(grants) + 1
  BY <1>1
<1>4. NewOrg(u) \in Organization /\ NewGrant(n, u, "owner") \in Grant
  BY DEF NewOrg, Organization, Statuses, NewGrant, Grant, Roles
<1>5. /\ n \notin OrgIds
      /\ OrgIds' = OrgIds \cup {n}
      /\ orgs'[n] = NewOrg(u)
      /\ \A o \in OrgIds : orgs'[o] = orgs[o]
  BY <1>1, <1>2, <1>4, Appended DEF OrgIds
<1>6. /\ m \notin DOMAIN grants
      /\ DOMAIN grants' = DOMAIN grants \cup {m}
      /\ grants'[m] = NewGrant(n, u, "owner")
      /\ \A g \in DOMAIN grants : grants'[g] = grants[g]
  BY <1>1, <1>2, <1>3, <1>4, Appended
<1>7. /\ grants'[m].org = n /\ grants'[m].user = u
      /\ grants'[m].role = "owner" /\ grants'[m].live
  BY <1>6 DEF NewGrant
<1>8. orgs'[n].status[u] = "active"
  <2>1. NewOrg(u).status[u] = "active"
    BY DEF NewOrg
  <2> QED
    BY <1>5, <2>1
<1>9. \A g \in DOMAIN grants : grants[g].org # n
  BY <1>5 DEF Owners, GrantsResolve
<1>10. OneGrant'
  BY <1>6, <1>7, <1>9 DEF Owners, OneGrant
<1>11. GrantsResolve'
  BY <1>5, <1>6, <1>7 DEF Owners, GrantsResolve
<1>12. OwnedOrgs'
  <2>1. ASSUME NEW o \in OrgIds, orgs'[o].live
        PROVE  OwnerGrants(o)' # {}
    <3>1. PICK g \in OwnerGrants(o) : TRUE
      BY <1>5, <2>1 DEF Owners, OwnedOrgs
    <3>2. g \in OwnerGrants(o)'
      BY <1>5, <1>6, <3>1 DEF OwnerGrants, Status
    <3> QED
      BY <3>2
  <2>2. m \in OwnerGrants(n)'
    BY <1>5, <1>6, <1>7, <1>8 DEF OwnerGrants, Status
  <2> QED
    BY <1>5, <2>1, <2>2 DEF OwnedOrgs
<1> QED
  BY <1>10, <1>11, <1>12 DEF Owners

\* An organization is deleted, and its grants.
LEMMA OwnersRemoved ==
    ASSUME TypeOK, Owners, NEW o \in OrgIds,
           orgs' = [orgs EXCEPT ![o] = [live |-> FALSE, founder |-> @.founder,
                                        status |-> [u \in Users |-> "none"]]],
           grants' = [g \in DOMAIN grants |->
                        IF grants[g].org = o THEN [grants[g] EXCEPT !.live = FALSE]
                        ELSE grants[g]]
    PROVE  Owners'
<1> DEFINE gone == [live |-> FALSE, founder |-> orgs[o].founder,
                    status |-> [u \in Users |-> "none"]]
<1>1. orgs' = [orgs EXCEPT ![o] = gone] /\ ~gone.live
  OBVIOUS
<1> HIDE DEF gone
<1>2. OrgIds' = OrgIds /\ ~orgs'[o].live /\ \A p \in OrgIds \ {o} : orgs'[p] = orgs[p]
  BY <1>1 DEF OrgIds
<1>3. \A g \in DOMAIN grants : grants[g] \in Grant
  BY GrantType
<1>4. \A g \in DOMAIN grants :
        /\ [grants[g] EXCEPT !.live = FALSE].org = grants[g].org
        /\ ~[grants[g] EXCEPT !.live = FALSE].live
  BY <1>3 DEF Grant
<1>5. /\ DOMAIN grants' = DOMAIN grants
      /\ \A g \in DOMAIN grants : /\ grants'[g].org = grants[g].org
                                  /\ grants[g].org # o => grants'[g] = grants[g]
                                  /\ grants[g].org = o => ~grants'[g].live
  BY <1>4
<1>6. OneGrant' /\ GrantsResolve'
  BY <1>2, <1>5 DEF Owners, OneGrant, GrantsResolve
<1>7. ASSUME NEW p \in OrgIds \ {o}, orgs[p].live
      PROVE  OwnerGrants(p)' # {}
  <2>1. PICK g \in OwnerGrants(p) : TRUE
    BY <1>7 DEF Owners, OwnedOrgs
  <2>2. g \in OwnerGrants(p)'
    BY <1>2, <1>5, <2>1 DEF OwnerGrants, Status
  <2> QED
    BY <2>2
<1>8. OwnedOrgs'
  BY <1>2, <1>7 DEF OwnedOrgs
<1> QED
  BY <1>6, <1>8 DEF Owners

LEMMA SerialBegun ==
    ASSUME IInv, SInv, OneAtATime, NEW r \in Requests, NEW q, Fresh(q), Begin(r, q)
    PROVE  SInv'
<1>1. UNCHANGED <<orgs, grants>> /\ req' = [req EXCEPT ![r] = q]
  BY DEF Begin
<1>2. Owners'
  BY <1>1, OwnersUnchanged DEF SInv
<1>3. \A p \in Requests : req'[p] = q
  BY <1>1 DEF OneAtATime, IInv, TypeOK
<1>4. \A p \in Requests : Fresh(req[p])'
  BY <1>1, <1>3 DEF Fresh, OwnerGrants, Holds, OrgIds, Status
<1> QED
  BY <1>2, <1>4 DEF SInv

LEMMA SerialFinished ==
    ASSUME IInv, OneAtATime, NEW r \in Requests, Finish(r), Owners'
    PROVE  SInv'
<1>1. \A p \in Requests : req'[p] = Idle
  BY DEF OneAtATime, IInv, TypeOK, Finish
<1>2. \A p \in Requests : Fresh(req[p])'
  BY <1>1 DEF Fresh, Idle
<1> QED
  BY <1>2 DEF SInv

\* Most requests need nothing to be fresh.
LEMMA FreshAsk ==
    ASSUME NEW b, NEW o, NEW u, NEW row,
           NEW op \in Ops \ {"leave", "suspend", "kick", "ungrant", "grant"}
    PROVE  Fresh(Asks(b, op, o, u, row))
BY DEF Fresh, Asks, Ops

\* Where the last-owner check passes, somebody else's grant stays.
LEMMA AnotherOwner ==
    ASSUME IInv, SInv, NEW o \in OrgIds, NEW u \in Users, ~IsLastOwner(o, u),
           orgs[o].live
    PROVE  \E g \in OwnerGrants(o) : grants[g].user # u
<1>1. SUFFICES ASSUME \A g \in OwnerGrants(o) : grants[g].user = u
               PROVE  FALSE
  OBVIOUS
<1>2. PICK g \in OwnerGrants(o) : TRUE
  BY DEF SInv, Owners, OwnedOrgs
<1>3. \A h \in OwnerGrants(o) : h = g
  BY <1>1 DEF SInv, Owners, OneGrant, OwnerGrants
<1>4. OwnerGrants(o) = {g} /\ g \in DOMAIN grants
  BY <1>2, <1>3 DEF OwnerGrants
<1> QED
  BY <1>1, <1>4 DEF IsLastOwner

LEMMA SerialOnboarding ==
    ASSUME IInv, SInv, OneAtATime, NEW r \in Requests, NEW b \in Browsers,
           Onboarding(r, b)
    PROVE  SInv'
<1>1. CASE BeginOrgCreate(r, b)
  BY <1>1, SerialBegun, FreshAsk DEF BeginOrgCreate, Ops
<1>2. ASSUME NEW o \in OrgIds, BeginOrgSelect(r, b, o)
      PROVE  SInv'
  BY <1>2, SerialBegun, FreshAsk DEF BeginOrgSelect, Ops
<1>3. ASSUME NEW i \in DOMAIN invites, BeginAcceptInvite(r, b, i)
      PROVE  SInv'
  BY <1>3, SerialBegun, FreshAsk DEF BeginAcceptInvite, Ops
<1>4. CASE BeginOrgDelete(r, b)
  BY <1>4, SerialBegun, FreshAsk DEF BeginOrgDelete, Ops
<1>5. CASE BeginOrgLeave(r, b)
  <2> DEFINE o == Here(b)
             q == Asks(b, "leave", o, Person(b), 0)
  <2>1. /\ Served(r, b) /\ o # 0 /\ Begin(r, q)
        /\ Holds(o, Person(b), "owner") =>
              \E u \in ActiveMembers(o) \ {Person(b)} : Holds(o, u, "owner")
    BY <1>5 DEF BeginOrgLeave, Bound
  <2>2. o \in OrgIds
    BY <2>1, Asker
  <2>3. q.op = "leave" /\ q.org = o /\ q.user = Person(b)
    BY DEF Asks
  <2>4. ASSUME orgs[o].live
        PROVE  \E g \in OwnerGrants(o) : grants[g].user # Person(b)
    <3>1. PICK u \in ActiveMembers(o) \ {Person(b)} : Holds(o, u, "owner")
      <4>1. PICK v \in ActiveMembers(o) : Holds(o, v, "owner")
        BY <2>2, <2>4, OwnersHold DEF IInv, SInv, Owners, OrgHasOwner
      <4> QED
        BY <2>1, <4>1
    <3> QED
      BY <3>1 DEF ActiveMembers, Holds, OwnerGrants
  <2> HIDE DEF q, o
  <2>5. Fresh(q)
    BY <2>3, <2>4 DEF Fresh
  <2> QED
    BY <2>1, <2>5, SerialBegun
<1> QED
  BY <1>1, <1>2, <1>3, <1>4, <1>5 DEF Onboarding

LEMMA SerialAdministration ==
    ASSUME IInv, SInv, OneAtATime, NEW r \in Requests, NEW b \in Browsers,
           Administration(r, b)
    PROVE  SInv'
<1>1. ASSUME NEW u \in Users, BeginCreateInvite(r, b, u)
      PROVE  SInv'
  BY <1>1, SerialBegun, FreshAsk DEF BeginCreateInvite, Ops
<1>2. ASSUME NEW u \in Users, BeginRestoreMember(r, b, u)
      PROVE  SInv'
  BY <1>2, SerialBegun, FreshAsk DEF BeginRestoreMember, Ops
<1>3. ASSUME NEW i \in DOMAIN invites, BeginRevokeInvite(r, b, i)
      PROVE  SInv'
  BY <1>3, SerialBegun, FreshAsk DEF BeginRevokeInvite, Ops
<1>4. ASSUME NEW u \in Users, NEW role \in Roles, BeginGrantRole(r, b, u, role)
      PROVE  SInv'
  <2> DEFINE q == [Asks(b, "grant", Here(b), u, 0) EXCEPT !.role = role]
  <2>1. Begin(r, q) /\ ~Holds(Here(b), u, role)
    BY <1>4 DEF BeginGrantRole
  <2>2. q.op = "grant" /\ q.org = Here(b) /\ q.user = u /\ q.role = role
    BY DEF Asks
  <2> HIDE DEF q
  <2>3. Fresh(q)
    BY <2>1, <2>2 DEF Fresh
  <2> QED
    BY <2>1, <2>3, SerialBegun
<1>5. ASSUME NEW u \in Users, BeginSuspendMember(r, b, u)
      PROVE  SInv'
  <2> DEFINE q == [Asks(b, "suspend", Here(b), u, 0) EXCEPT
                      !.revokes = BoundSessions(Here(b), u)]
  <2>1. Begin(r, q) /\ Administers(r, b) /\ ~IsLastOwner(Here(b), u)
    BY <1>5 DEF BeginSuspendMember
  <2>2. orgs[Here(b)].live => \E g \in OwnerGrants(Here(b)) : grants[g].user # u
    BY <2>1, Administrator, AnotherOwner
  <2>3. q.op = "suspend" /\ q.org = Here(b) /\ q.user = u
    BY DEF Asks
  <2> HIDE DEF q
  <2>4. Fresh(q)
    BY <2>2, <2>3 DEF Fresh
  <2> QED
    BY <2>1, <2>4, SerialBegun
<1>6. ASSUME NEW u \in Users, BeginKickMember(r, b, u)
      PROVE  SInv'
  <2> DEFINE q == Asks(b, "kick", Here(b), u, 0)
  <2>1. Begin(r, q) /\ Administers(r, b) /\ ~IsLastOwner(Here(b), u)
    BY <1>6 DEF BeginKickMember
  <2>2. orgs[Here(b)].live => \E g \in OwnerGrants(Here(b)) : grants[g].user # u
    BY <2>1, Administrator, AnotherOwner
  <2>3. q.op = "kick" /\ q.org = Here(b) /\ q.user = u
    BY DEF Asks
  <2> HIDE DEF q
  <2>4. Fresh(q)
    BY <2>2, <2>3 DEF Fresh
  <2> QED
    BY <2>1, <2>4, SerialBegun
<1>7. ASSUME NEW g \in DOMAIN grants, BeginRevokeRole(r, b, g)
      PROVE  SInv'
  <2> DEFINE q == Asks(b, "ungrant", Here(b), grants[g].user, g)
  <2>1. /\ Begin(r, q) /\ Administers(r, b)
        /\ grants[g].org = Here(b)
        /\ ~(grants[g].role = "owner" /\ IsLastOwner(Here(b), grants[g].user))
    BY <1>7 DEF BeginRevokeRole
  <2>2. ASSUME NEW o \in OrgIds, orgs[o].live
        PROVE  \E h \in OwnerGrants(o) : h # g
    <3>1. PICK h \in OwnerGrants(o) : TRUE
      BY <2>2 DEF SInv, Owners, OwnedOrgs
    <3>2. CASE g \notin OwnerGrants(o)
      BY <3>1, <3>2
    <3>3. CASE g \in OwnerGrants(o)
      <4>1. grants[g].role = "owner" /\ o = Here(b)
        BY <2>1, <3>3 DEF OwnerGrants
      <4>2. ~IsLastOwner(o, grants[g].user) /\ grants[g].user \in Users
        BY <2>1, <4>1, GrantType DEF IInv
      <4> QED
        BY <2>2, <4>2, AnotherOwner
    <3> QED
      BY <3>2, <3>3
  <2>3. q.op = "ungrant" /\ q.row = g
    BY DEF Asks
  <2> HIDE DEF q
  <2>4. Fresh(q)
    BY <2>2, <2>3 DEF Fresh
  <2> QED
    BY <2>1, <2>4, SerialBegun
<1> QED
  BY <1>1, <1>2, <1>3, <1>4, <1>5, <1>6, <1>7 DEF Administration

LEMMA SerialCommits ==
    ASSUME IInv, SInv, OneAtATime, NEW r \in Requests, Commit(r)
    PROVE  SInv'
<1> DEFINE q == req[r]
<1>1. q \in Request /\ Sound(q) /\ Fresh(q) /\ TypeOK /\ Owners
  BY Read DEF SInv
<1>2. q.op # "idle" => q.user \in Users /\ q.role \in Roles /\ q.row \in Nat
  BY <1>1, RequestType
<1> HIDE DEF q
<1>3. CASE CommitOrgCreate(r)
  <2>1. /\ q.op = "create" /\ Finish(r)
        /\ orgs' = Append(orgs, NewOrg(q.user))
        /\ grants' = Append(grants, NewGrant(Len(orgs) + 1, q.user, "owner"))
    BY <1>3 DEF CommitOrgCreate, q
  <2> QED
    BY <1>1, <1>2, <2>1, OwnersFounded, SerialFinished
<1>4. CASE \/ CommitOrgSelect(r) \/ CommitCreateInvite(r) \/ CommitRevokeInvite(r)
  <2>1. Finish(r) /\ UNCHANGED <<orgs, grants>>
    BY <1>4 DEF CommitOrgSelect, CommitCreateInvite, CommitRevokeInvite
  <2> QED
    BY <1>1, <2>1, OwnersUnchanged, SerialFinished
<1>5. CASE CommitAcceptInvite(r) \/ CommitRestoreMember(r)
  <2>1. /\ q.op # "idle" /\ q.org \in OrgIds /\ Finish(r) /\ grants' = grants
        /\ SetStatus(q.org, q.user, "active")
    BY <1>5 DEF CommitAcceptInvite, CommitRestoreMember, OrgThere, q
  <2> QED
    BY <1>1, <1>2, <2>1, OwnersActivated, SerialFinished
<1>6. CASE CommitOrgLeave(r) \/ CommitSuspendMember(r) \/ CommitKickMember(r)
  <2>1. /\ q.op \in {"leave", "suspend", "kick"} /\ q.org \in OrgIds
        /\ Finish(r) /\ grants' = grants
        /\ SetStatus(q.org, q.user, "suspended")
    BY <1>6 DEF CommitOrgLeave, CommitSuspendMember, CommitKickMember, OrgThere, q
  <2>2. orgs[q.org].live => \E g \in OwnerGrants(q.org) : grants[g].user # q.user
    BY <1>1, <2>1 DEF Fresh
  <2> QED
    BY <1>1, <1>2, <2>1, <2>2, OwnersSuspended, SerialFinished
<1>7. CASE CommitGrantRole(r)
  <2>1. /\ q.op = "grant" /\ q.org \in OrgIds /\ Finish(r) /\ orgs' = orgs
        /\ grants' = Append(grants, NewGrant(q.org, q.user, q.role))
    BY <1>7 DEF CommitGrantRole, OrgThere, q
  <2>2. ~Holds(q.org, q.user, q.role)
    BY <1>1, <2>1 DEF Fresh
  <2> QED
    BY <1>1, <1>2, <2>1, <2>2, OwnersGranted, SerialFinished
<1>8. CASE CommitRevokeRole(r)
  <2>1. /\ q.op = "ungrant" /\ Finish(r) /\ orgs' = orgs
        /\ grants' = [grants EXCEPT ![q.row].live = FALSE]
    BY <1>8 DEF CommitRevokeRole, q
  <2>2. \A o \in OrgIds : orgs[o].live => \E g \in OwnerGrants(o) : g # q.row
    BY <1>1, <2>1 DEF Fresh
  <2> QED
    BY <1>1, <1>2, <2>1, <2>2, OwnersDeleted, SerialFinished
<1>9. CASE CommitOrgDelete(r)
  <2>1. /\ q.org \in OrgIds /\ Finish(r)
        /\ orgs' = [orgs EXCEPT ![q.org] = [live |-> FALSE, founder |-> @.founder,
                                            status |-> [u \in Users |-> "none"]]]
        /\ grants' = [g \in DOMAIN grants |->
                        IF grants[g].org = q.org THEN [grants[g] EXCEPT !.live = FALSE]
                        ELSE grants[g]]
    BY <1>9 DEF CommitOrgDelete, OrgThere, q
  <2> QED
    BY <1>1, <2>1, OwnersRemoved, SerialFinished
<1> QED
  BY <1>3, <1>4, <1>5, <1>6, <1>7, <1>8, <1>9 DEF Commit

LEMMA SerialKeeps ==
    ASSUME OneAtATime
    PROVE  IInv /\ SInv /\ [Next]_vars => SInv'
<1> SUFFICES ASSUME IInv, SInv, [Next]_vars
             PROVE  SInv'
  OBVIOUS
<1>1. ASSUME UNCHANGED <<orgs, grants, req>>
      PROVE  SInv'
  <2>1. Owners'
    BY <1>1, OwnersUnchanged DEF SInv
  <2>2. \A r \in Requests : Fresh(req[r]) => Fresh(req[r])'
    BY <1>1 DEF Fresh, OwnerGrants, Holds, OrgIds, Status
  <2> QED
    BY <2>1, <2>2 DEF SInv
<1>2. CASE UNCHANGED vars
  BY <1>1, <1>2 DEF vars
<1>3. ASSUME NEW r \in Requests, Abort(r)
      PROVE  SInv'
  BY <1>3, OwnersUnchanged, SerialFinished DEF Abort, SInv
<1>4. CASE \E b \in Browsers : \/ LoginCallback(b) \/ LinkCallback(b)
                               \/ Logout(b) \/ Bounce(b)
  BY <1>1, <1>4 DEF LoginCallback, LinkCallback, Logout, Bounce, Sends
<1>5. CASE \/ \E s \in DOMAIN sessions : SessionLapses(s)
           \/ \E i \in DOMAIN invites : InviteExpires(i)
  BY <1>1, <1>5 DEF SessionLapses, InviteExpires
<1> QED
  BY <1>2, <1>3, <1>4, <1>5, SerialOnboarding, SerialAdministration, SerialCommits
     DEF Next

LEMMA SerialInit == Init => SInv
<1> SUFFICES ASSUME Init
             PROVE  SInv
  OBVIOUS
<1>1. \A o \in DOMAIN Founders : Founders[o] \in Users
  BY FoundersAssumption, RowType
<1>2. /\ OrgIds = DOMAIN Founders /\ DOMAIN grants = DOMAIN Founders
      /\ \A o \in DOMAIN Founders :
            /\ grants[o].org = o /\ grants[o].user = Founders[o]
            /\ grants[o].role = "owner" /\ grants[o].live
            /\ orgs[o].status[Founders[o]] = "active"
  BY <1>1 DEF Init, OrgIds, NewGrant, NewOrg
<1>3. \A o \in OrgIds : o \in OwnerGrants(o)
  BY <1>2 DEF OwnerGrants, Status
<1>4. Owners
  BY <1>2, <1>3 DEF Owners, OneGrant, GrantsResolve, OwnedOrgs
<1> QED
  BY <1>4 DEF Init, SInv, Fresh, Idle

\* "An org always has at least one owner": with one request at a time, an
\* organization that has not been deleted keeps an active owner.  Two owners who
\* leave, or suspend each other, in overlapping requests break it.
THEOREM OwnerStays ==
    ASSUME OneAtATime
    PROVE  Spec => []OrgHasOwner
<1>1. IInv /\ SInv /\ [Next]_vars => SInv'
  BY SerialKeeps
<1>2. IInv /\ SInv => OrgHasOwner
  BY OwnersHold DEF IInv, SInv, Owners
<1> QED
  BY <1>1, <1>2, InitKeeps, StepKeeps, SerialInit, PTL DEF Spec

-----------------------------------------------------------------------------
(* Which sessions go on, with one request at a time *)

\* The session a request came with is not revoked before the request replaces it,
\* and the sessions a suspension read are all that are bound to the membership.
Bonded(q) ==
    /\ q.op \in {"create", "select", "accept", "leave"} =>
          sessions[q.ses].state \in {"live", "lapsed"}
    /\ q.op = "suspend" => BoundSessions(q.org, q.user) \subseteq q.revokes

SessionsSerial == IInv /\ \A r \in Requests : Bonded(req[r])

LEMMA BondedStays ==
    ASSUME IInv, NEW q \in Request, Sound(q), Bonded(q),
           UNCHANGED sessions \/ \E s \in DOMAIN sessions : SessionLapses(s)
    PROVE  Bonded(q)'
<1>1. CASE UNCHANGED sessions
  BY <1>1 DEF Bonded, BoundSessions
<1>2. ASSUME NEW s \in DOMAIN sessions, SessionLapses(s)
      PROVE  Bonded(q)'
  <2>1. sessions \in Seq(UserSession)
    BY DEF IInv, TypeOK
  <2>2. \A t \in DOMAIN sessions : sessions[t] \in UserSession
    BY <2>1, RowType
  <2>3. /\ DOMAIN sessions' = DOMAIN sessions
        /\ \A t \in DOMAIN sessions :
              /\ sessions'[t].user = sessions[t].user
              /\ sessions'[t].org = sessions[t].org
              /\ sessions'[t].state = IF t = s THEN "lapsed" ELSE sessions[t].state
    BY <1>2, <2>2 DEF SessionLapses, UserSession
  <2>4. sessions[s].state = "live"
    BY <1>2 DEF SessionLapses
  <2>5. BoundSessions(q.org, q.user)' = BoundSessions(q.org, q.user)
    BY <2>3, <2>4 DEF BoundSessions
  <2>6. q.op \in {"create", "select", "accept", "leave"} => q.ses \in DOMAIN sessions
    BY DEF Sound
  <2> QED
    BY <2>3, <2>5, <2>6 DEF Bonded
<1> QED
  BY <1>1, <1>2

LEMMA BondedAsk ==
    ASSUME NEW r, NEW b, Served(r, b), NEW o, NEW u, NEW row, NEW op \in Ops \ {"suspend"}
    PROVE  Bonded(Asks(b, op, o, u, row))
BY DEF Bonded, Asks, Served, Valid, Ops

LEMMA BondedBegun ==
    ASSUME SessionsSerial, OneAtATime, NEW r \in Requests, NEW q, Bonded(q), Begin(r, q)
    PROVE  \A p \in Requests : Bonded(req[p])'
<1>1. UNCHANGED sessions
  BY DEF Begin
<1>2. \A p \in Requests : req'[p] = q
  BY DEF Begin, OneAtATime, SessionsSerial, IInv, TypeOK
<1> QED
  BY <1>1, <1>2 DEF Bonded, BoundSessions

LEMMA BondedFinished ==
    ASSUME SessionsSerial, OneAtATime, NEW r \in Requests, Finish(r)
    PROVE  \A p \in Requests : Bonded(req[p])'
<1>1. \A p \in Requests : req'[p] = Idle
  BY DEF OneAtATime, SessionsSerial, IInv, TypeOK, Finish
<1> QED
  BY <1>1 DEF Bonded, Idle

LEMMA BondedOnboarding ==
    ASSUME SessionsSerial, OneAtATime, NEW r \in Requests, NEW b \in Browsers,
           Onboarding(r, b)
    PROVE  \A p \in Requests : Bonded(req[p])'
<1>1. CASE BeginOrgCreate(r, b)
  BY <1>1, BondedBegun, BondedAsk DEF BeginOrgCreate, Bound, Ops
<1>2. ASSUME NEW o \in OrgIds, BeginOrgSelect(r, b, o)
      PROVE  \A p \in Requests : Bonded(req[p])'
  BY <1>2, BondedBegun, BondedAsk DEF BeginOrgSelect, Ops
<1>3. ASSUME NEW i \in DOMAIN invites, BeginAcceptInvite(r, b, i)
      PROVE  \A p \in Requests : Bonded(req[p])'
  BY <1>3, BondedBegun, BondedAsk DEF BeginAcceptInvite, Bound, Ops
<1>4. CASE BeginOrgDelete(r, b)
  BY <1>4, BondedBegun, BondedAsk DEF BeginOrgDelete, Bound, Ops
<1>5. CASE BeginOrgLeave(r, b)
  BY <1>5, BondedBegun, BondedAsk DEF BeginOrgLeave, Bound, Ops
<1> QED
  BY <1>1, <1>2, <1>3, <1>4, <1>5 DEF Onboarding

LEMMA BondedAdministration ==
    ASSUME SessionsSerial, OneAtATime, NEW r \in Requests, NEW b \in Browsers,
           Administration(r, b)
    PROVE  \A p \in Requests : Bonded(req[p])'
<1>1. Served(r, b)
  BY DEF Administration, Administers, Bound, BeginCreateInvite, BeginGrantRole,
         BeginSuspendMember, BeginKickMember, BeginRestoreMember, BeginRevokeInvite,
         BeginRevokeRole
<1>2. ASSUME NEW u \in Users, \/ BeginCreateInvite(r, b, u)
                              \/ BeginKickMember(r, b, u)
                              \/ BeginRestoreMember(r, b, u)
      PROVE  \A p \in Requests : Bonded(req[p])'
  BY <1>1, <1>2, BondedBegun, BondedAsk
  DEF BeginCreateInvite, BeginKickMember, BeginRestoreMember, Ops
<1>3. ASSUME NEW u \in Users, NEW role \in Roles, BeginGrantRole(r, b, u, role)
      PROVE  \A p \in Requests : Bonded(req[p])'
  <2> DEFINE q == [Asks(b, "grant", Here(b), u, 0) EXCEPT !.role = role]
  <2>1. Begin(r, q)
    BY <1>3 DEF BeginGrantRole
  <2>2. q.op = "grant"
    BY DEF Asks
  <2>3. Bonded(q)
    BY <2>2 DEF Bonded
  <2> QED
    BY <2>1, <2>3, BondedBegun
<1>4. ASSUME NEW u \in Users, BeginSuspendMember(r, b, u)
      PROVE  \A p \in Requests : Bonded(req[p])'
  <2> DEFINE q == [Asks(b, "suspend", Here(b), u, 0) EXCEPT
                      !.revokes = BoundSessions(Here(b), u)]
  <2>1. Begin(r, q)
    BY <1>4 DEF BeginSuspendMember
  <2>2. q.op = "suspend" /\ q.org = Here(b) /\ q.user = u
        /\ q.revokes = BoundSessions(Here(b), u)
    BY DEF Asks
  <2>3. Bonded(q)
    BY <2>2 DEF Bonded
  <2> QED
    BY <2>1, <2>3, BondedBegun
<1>5. ASSUME NEW i \in DOMAIN invites, BeginRevokeInvite(r, b, i)
      PROVE  \A p \in Requests : Bonded(req[p])'
  BY <1>1, <1>5, BondedBegun, BondedAsk DEF BeginRevokeInvite, Ops
<1>6. ASSUME NEW g \in DOMAIN grants, BeginRevokeRole(r, b, g)
      PROVE  \A p \in Requests : Bonded(req[p])'
  BY <1>1, <1>6, BondedBegun, BondedAsk DEF BeginRevokeRole, Ops
<1> QED
  BY <1>2, <1>3, <1>4, <1>5, <1>6 DEF Administration

LEMMA SessionsSerialKeeps ==
    ASSUME OneAtATime
    PROVE  SessionsSerial /\ [Next]_vars => SessionsSerial'
<1> SUFFICES ASSUME SessionsSerial, [Next]_vars
             PROVE  \A p \in Requests : Bonded(req[p])'
  BY StepKeeps DEF SessionsSerial
<1>1. ASSUME UNCHANGED req,
             UNCHANGED sessions \/ \E s \in DOMAIN sessions : SessionLapses(s)
      PROVE  \A p \in Requests : Bonded(req[p])'
  <2> SUFFICES ASSUME NEW p \in Requests PROVE Bonded(req[p])'
    OBVIOUS
  <2>1. PICK q \in Request : q = req[p] /\ Sound(q) /\ Bonded(q)
    BY Read DEF SessionsSerial
  <2>2. Bonded(q)'
    BY <1>1, <2>1, BondedStays DEF SessionsSerial
  <2> QED
    BY <1>1, <2>1, <2>2 DEF Bonded
<1>2. CASE UNCHANGED vars
  BY <1>1, <1>2 DEF vars
<1>3. ASSUME NEW r \in Requests, Commit(r) \/ Abort(r) PROVE Finish(r)
  BY <1>3
  DEF Commit, Abort, CommitOrgCreate, CommitOrgSelect, CommitAcceptInvite, CommitOrgLeave,
      CommitOrgDelete, CommitCreateInvite, CommitRevokeInvite, CommitGrantRole,
      CommitRevokeRole, CommitSuspendMember, CommitKickMember, CommitRestoreMember
<1>4. CASE \/ \E b \in Browsers : \/ LoginCallback(b) \/ LinkCallback(b)
                                  \/ Logout(b) \/ Bounce(b)
           \/ \E i \in DOMAIN invites : InviteExpires(i)
  BY <1>1, <1>4 DEF LoginCallback, LinkCallback, Logout, Bounce, Sends, InviteExpires
<1>5. CASE \E s \in DOMAIN sessions : SessionLapses(s)
  BY <1>1, <1>5 DEF SessionLapses
<1> QED
  BY <1>2, <1>3, <1>4, <1>5, BondedOnboarding, BondedAdministration, BondedFinished
  DEF Next

LEMMA SessionsInvariance ==
    ASSUME OneAtATime
    PROVE  Spec => []SessionsSerial
<1>1. Init => SessionsSerial
  BY InitKeeps DEF Init, SessionsSerial, Bonded, Idle
<1> QED
  BY <1>1, SessionsSerialKeeps, PTL DEF Spec

\* The steps that open a session send its id, and no browser had that id.
LEMMA CookieSent ==
    ASSUME IInv, NEW r \in Requests,
           \/ CommitOrgCreate(r) \/ CommitOrgSelect(r) \/ CommitAcceptInvite(r)
           \/ CommitOrgLeave(r) \/ CommitOrgDelete(r)
    PROVE  cookie' # cookie
<1>1. PICK q \in Request : q = req[r] /\ q.op # "idle"
  BY Read
  DEF CommitOrgCreate, CommitOrgSelect, CommitAcceptInvite, CommitOrgLeave, CommitOrgDelete
<1>2. cookie' = [cookie EXCEPT ![q.dev] = Len(sessions) + 1]
  BY <1>1
  DEF CommitOrgCreate, CommitOrgSelect, CommitAcceptInvite, CommitOrgLeave, CommitOrgDelete,
      Rotate
<1>3. q.dev \in Browsers /\ cookie \in [Browsers -> Nat \cup {None}]
  BY <1>1, RequestType DEF IInv, TypeOK
<1>4. sessions \in Seq(UserSession)
  BY DEF IInv, TypeOK
<1>5. /\ Len(sessions) + 1 \in Nat
      /\ Len(sessions) + 1 \notin DOMAIN sessions
      /\ Len(sessions) + 1 # Unstored
  BY <1>4 DEF Unstored
<1>6. cookie[q.dev] # Len(sessions) + 1
  BY <1>3, <1>5, NoneAssumption DEF IInv, Owned
<1> QED
  BY <1>2, <1>3, <1>6

\* When somebody else takes a membership away, its sessions are revoked.
LEMMA TakesAway ==
    ASSUME SessionsSerial, [Next]_vars, NEW o \in OrgIds, NEW u \in Users,
           Status(o, u) = "active", Status(o, u)' = "suspended", UNCHANGED cookie
    PROVE  BoundSessions(o, u)' = {}
<1>1. ~UNCHANGED orgs
  BY DEF Status, OrgIds
<1>2. PICK r \in Requests : Commit(r)
  BY <1>1
  DEF Next, vars, Onboarding, Administration, BeginOrgCreate, BeginOrgSelect,
      BeginAcceptInvite, BeginOrgLeave, BeginOrgDelete, BeginCreateInvite, BeginGrantRole,
      BeginSuspendMember, BeginKickMember, BeginRestoreMember, BeginRevokeInvite,
      BeginRevokeRole, Begin, Abort, LoginCallback, LinkCallback, Logout, Bounce, Sends,
      SessionLapses, InviteExpires
<1>3. CommitSuspendMember(r) \/ CommitKickMember(r) \/ CommitRestoreMember(r)
  BY <1>1, <1>2, CookieSent
  DEF Commit, SessionsSerial, CommitCreateInvite, CommitRevokeInvite, CommitGrantRole,
      CommitRevokeRole
<1>4. PICK q \in Request : q = req[r] /\ Sound(q) /\ Bonded(q)
  BY Read DEF SessionsSerial
<1>5. q.org \in OrgIds /\ q.user \in Users /\ q.op \in {"suspend", "kick", "restore"}
  BY <1>3, <1>4, RequestType
  DEF Sound, CommitSuspendMember, CommitKickMember, CommitRestoreMember
<1>6. PICK status \in {"active", "suspended"} :
        /\ SetStatus(q.org, q.user, status)
        /\ CommitRestoreMember(r) => status = "active"
  BY <1>3, <1>4 DEF CommitSuspendMember, CommitKickMember, CommitRestoreMember
<1>7. orgs'[o].status[u] = IF o = q.org /\ u = q.user THEN status ELSE orgs[o].status[u]
  BY <1>5, <1>6, StatusSet DEF SessionsSerial, IInv, Statuses
<1>8. o = q.org /\ u = q.user /\ status = "suspended"
  BY <1>7 DEF Status
<1>9. PICK S : sessions' = Revoked(S) /\ BoundSessions(o, u) \subseteq S
  BY <1>3, <1>4, <1>6, <1>8 DEF CommitSuspendMember, CommitKickMember, Bonded
<1>10. sessions \in Seq(UserSession)
  BY DEF SessionsSerial, IInv, TypeOK
<1>11. \A s \in DOMAIN sessions : sessions[s] \in UserSession
  BY <1>10, RowType
<1>12. /\ DOMAIN sessions' = DOMAIN sessions
       /\ \A s \in DOMAIN sessions :
             IF s \in S THEN sessions'[s].state = "revoked" ELSE sessions'[s] = sessions[s]
  BY <1>9, <1>11 DEF Revoked, UserSession
<1> QED
  BY <1>9, <1>12 DEF BoundSessions

\* With one request at a time, whoever is kicked or suspended is out at once: no
\* session of that membership is left.
THEOREM TakenAway ==
    ASSUME OneAtATime
    PROVE  Spec => TakenAwayIsOut
<1> DEFINE Out == \A o \in OrgIds, u \in Users :
        /\ Status(o, u) = "active"
        /\ Status(o, u)' = "suspended"
        /\ UNCHANGED cookie
        => BoundSessions(o, u)' = {}
<1>1. SessionsSerial /\ [Next]_vars => [Out]_vars
  BY TakesAway
<1> QED
  BY <1>1, SessionsInvariance, PTL DEF Spec, TakenAwayIsOut

LEMMA UnrevokedFinite ==
    ASSUME TypeOK, NEW u
    PROVE  IsFiniteSet(Unrevoked(u)) /\ Cardinality(Unrevoked(u)) \in Nat
<1>1. sessions \in Seq(UserSession)
  BY DEF TypeOK
<1>2. DOMAIN sessions = 1 .. Len(sessions) /\ Len(sessions) \in Int /\ 1 \in Int
  BY <1>1
<1>3. IsFiniteSet(DOMAIN sessions)
  BY <1>2, FS_Interval
<1>4. Unrevoked(u) \in SUBSET DOMAIN sessions
  BY DEF Unrevoked
<1>5. IsFiniteSet(Unrevoked(u))
  BY <1>3, <1>4, FS_Subset
<1> QED
  BY <1>5, FS_CardinalityType

\* Sessions end: none is opened.
LEMMA SessionsEnd ==
    ASSUME TypeOK, NEW u, DOMAIN sessions' = DOMAIN sessions,
           \A s \in DOMAIN sessions :
               /\ sessions'[s].user = sessions[s].user
               /\ sessions'[s].state \in {"live", "lapsed"}
                     => sessions[s].state \in {"live", "lapsed"}
    PROVE  Cardinality(Unrevoked(u)') <= Cardinality(Unrevoked(u))
<1>1. Unrevoked(u)' \in SUBSET Unrevoked(u)
  BY DEF Unrevoked
<1> QED
  BY <1>1, UnrevokedFinite, FS_Subset

\* One session takes the place of another of its user.
LEMMA SessionReplaced ==
    ASSUME TypeOK, NEW u, NEW t, NEW x, NEW s \in DOMAIN sessions,
           DOMAIN t = DOMAIN sessions, t[s].state = "revoked",
           \A i \in DOMAIN sessions \ {s} : t[i] = sessions[i],
           sessions[s].state \in {"live", "lapsed"},
           x.user = sessions[s].user,
           DOMAIN sessions' = DOMAIN sessions \cup {Len(sessions) + 1},
           \A i \in DOMAIN sessions : sessions'[i] = t[i],
           sessions'[Len(sessions) + 1] = x,
           Len(sessions) + 1 \notin DOMAIN sessions
    PROVE  Cardinality(Unrevoked(u)') <= Cardinality(Unrevoked(u))
<1> DEFINE n == Len(sessions) + 1
           U == Unrevoked(u)
<1>1. U \subseteq DOMAIN sessions
  BY DEF Unrevoked
<1>2. Unrevoked(u)' \subseteq (U \ {s}) \cup {n}
  BY DEF Unrevoked
<1>3. s \in U => Cardinality((U \ {s}) \cup {n}) = Cardinality(U)
  <2>1. n \notin U \ {s}
    BY <1>1
  <2>2. IsFiniteSet(U) /\ Cardinality(U) \in Nat
    BY UnrevokedFinite
  <2> HIDE DEF U, n
  <2>3. ASSUME s \in U PROVE /\ IsFiniteSet(U \ {s})
                             /\ Cardinality(U \ {s}) = Cardinality(U) - 1
    BY <2>2, <2>3, FS_RemoveElement
  <2>4. ASSUME s \in U
        PROVE  Cardinality((U \ {s}) \cup {n}) = Cardinality(U \ {s}) + 1
    BY <2>1, <2>3, <2>4, FS_AddElement
  <2> QED
    BY <2>2, <2>3, <2>4
<1>4. s \notin U => Unrevoked(u)' \subseteq U
  BY DEF Unrevoked
<1>5. IsFiniteSet(U) /\ Cardinality(U) \in Nat
  BY UnrevokedFinite
<1>6. IsFiniteSet((U \ {s}) \cup {n})
  <2>1. IsFiniteSet(U \ {s})
    BY <1>5, FS_RemoveElement
  <2> QED
    BY <2>1, FS_AddElement
<1>7. CASE s \in U
  <2>1. Cardinality(Unrevoked(u)') <= Cardinality((U \ {s}) \cup {n})
    BY <1>2, <1>6, FS_Subset
  <2> QED
    BY <1>3, <1>7, <2>1
<1>8. CASE s \notin U
  BY <1>4, <1>5, <1>8, FS_Subset
<1> QED
  BY <1>7, <1>8

\* What revoking leaves of the table.
LEMMA RevokedRows ==
    ASSUME TypeOK, NEW S
    PROVE  /\ DOMAIN Revoked(S) = DOMAIN sessions
           /\ \A s \in DOMAIN sessions :
                 IF s \in S THEN /\ Revoked(S)[s].state = "revoked"
                                 /\ Revoked(S)[s].user = sessions[s].user
                 ELSE Revoked(S)[s] = sessions[s]
<1>1. sessions \in Seq(UserSession)
  BY DEF TypeOK
<1>2. \A s \in DOMAIN sessions : sessions[s] \in UserSession
  BY <1>1, RowType
<1> QED
  BY <1>2 DEF Revoked, UserSession

LEMMA RotationStep ==
    ASSUME SessionsSerial, [Next]_vars, NEW u \in Users
    PROVE  Cardinality(Unrevoked(u)') <= Cardinality(Unrevoked(u))
<1>1. TypeOK /\ sessions \in Seq(UserSession)
  BY DEF SessionsSerial, IInv, TypeOK
<1>2. \A s \in DOMAIN sessions : sessions[s] \in UserSession
  BY <1>1, RowType
<1>3. ASSUME UNCHANGED sessions
      PROVE  Cardinality(Unrevoked(u)') <= Cardinality(Unrevoked(u))
  BY <1>1, <1>3, SessionsEnd
<1>4. ASSUME NEW s \in DOMAIN sessions, SessionLapses(s)
      PROVE  Cardinality(Unrevoked(u)') <= Cardinality(Unrevoked(u))
  <2>1. /\ DOMAIN sessions' = DOMAIN sessions
        /\ sessions[s].state = "live"
        /\ \A t \in DOMAIN sessions :
              /\ sessions'[t].user = sessions[t].user
              /\ sessions'[t].state = IF t = s THEN "lapsed" ELSE sessions[t].state
    BY <1>2, <1>4 DEF SessionLapses, UserSession
  <2> QED
    BY <1>1, <2>1, SessionsEnd
<1>5. ASSUME NEW S, sessions' = Revoked(S)
      PROVE  Cardinality(Unrevoked(u)') <= Cardinality(Unrevoked(u))
  <2>1. /\ DOMAIN sessions' = DOMAIN sessions
        /\ \A s \in DOMAIN sessions :
              IF s \in S THEN /\ sessions'[s].state = "revoked"
                              /\ sessions'[s].user = sessions[s].user
              ELSE sessions'[s] = sessions[s]
    BY <1>1, <1>5, RevokedRows
  <2> QED
    BY <1>1, <2>1, SessionsEnd
<1>6. ASSUME NEW r \in Requests, NEW q \in Request, q = req[r],
             q.op \in {"create", "select", "accept", "leave"}, NEW o \in Nat, Rotate(q, o)
      PROVE  Cardinality(Unrevoked(u)') <= Cardinality(Unrevoked(u))
  <2>1. Sound(q) /\ Bonded(q)
    BY <1>6, Read DEF SessionsSerial
  <2>2. q.ses \in DOMAIN sessions /\ sessions[q.ses].state \in {"live", "lapsed"}
    BY <1>6, <2>1 DEF Sound, Bonded
  <2> DEFINE t == Revoked({q.ses})
             x == NewSession(sessions[q.ses].user, o)
  <2>3. /\ DOMAIN t = DOMAIN sessions
        /\ t[q.ses].state = "revoked"
        /\ \A i \in DOMAIN sessions \ {q.ses} : t[i] = sessions[i]
    BY <1>1, <2>2, RevokedRows
  <2>4. x \in UserSession /\ x.user = sessions[q.ses].user
    BY <1>2, <1>6, <2>2 DEF NewSession, UserSession
  <2>5. t \in Seq(UserSession) /\ Len(t) = Len(sessions)
    BY <1>1, RevokedFacts, Replaced
  <2>6. sessions' = Append(t, x)
    BY <1>6 DEF Rotate
  <2> HIDE DEF t, x
  <2>7. /\ DOMAIN sessions' = DOMAIN sessions \cup {Len(sessions) + 1}
        /\ Len(sessions) + 1 \notin DOMAIN sessions
        /\ sessions'[Len(sessions) + 1] = x
        /\ \A i \in DOMAIN sessions : sessions'[i] = t[i]
    <3>1. /\ Len(t) + 1 \notin DOMAIN t
          /\ DOMAIN Append(t, x) = DOMAIN t \cup {Len(t) + 1}
          /\ Append(t, x)[Len(t) + 1] = x
          /\ \A i \in DOMAIN t : Append(t, x)[i] = t[i]
      BY <2>4, <2>5, Appended
    <3> QED
      BY <2>3, <2>5, <2>6, <3>1
  <2> QED
    BY <1>1, <2>2, <2>3, <2>4, <2>7, SessionReplaced
<1>7. ASSUME NEW r \in Requests, CommitOrgDelete(r)
      PROVE  Cardinality(Unrevoked(u)') <= Cardinality(Unrevoked(u))
  <2>1. PICK q \in Request : q = req[r] /\ q.op = "delete"
    BY <1>7, Read DEF SessionsSerial, CommitOrgDelete
  <2> DEFINE t == [s \in DOMAIN sessions |->
                IF sessions[s].org = q.org THEN [sessions[s] EXCEPT !.state = "deleted"]
                ELSE sessions[s]]
             x == [NewSession(q.user, q.org) EXCEPT !.state = "deleted"]
  <2>2. \A s \in DOMAIN sessions :
          /\ t[s] \in UserSession
          /\ t[s].user = sessions[s].user
          /\ t[s].state \in {"live", "lapsed"} => t[s] = sessions[s]
    BY <1>2 DEF UserSession
  <2>3. x \in UserSession /\ x.state = "deleted"
    BY <2>1, RequestType DEF NewSession, UserSession
  <2>4. sessions' = Append(t, x)
    BY <1>7, <2>1 DEF CommitOrgDelete
  <2>5. t \in [DOMAIN sessions -> UserSession]
    BY <2>2
  <2> HIDE DEF t, x
  <2>6. t \in Seq(UserSession) /\ Len(t) = Len(sessions) /\ DOMAIN t = DOMAIN sessions
    BY <1>1, <2>5, Replaced
  <2>7. /\ DOMAIN sessions' = DOMAIN sessions \cup {Len(sessions) + 1}
        /\ sessions'[Len(sessions) + 1] = x
        /\ \A i \in DOMAIN sessions : sessions'[i] = t[i]
    BY <2>3, <2>4, <2>6, Appended
  <2>8. Unrevoked(u)' \in SUBSET Unrevoked(u)
    BY <2>2, <2>3, <2>7 DEF Unrevoked
  <2> QED
    BY <1>1, <2>8, UnrevokedFinite, FS_Subset
<1>8. ASSUME NEW r \in Requests, Commit(r)
      PROVE  Cardinality(Unrevoked(u)') <= Cardinality(Unrevoked(u))
  <2>1. PICK q \in Request : q = req[r] /\ Sound(q)
    BY Read DEF SessionsSerial
  <2>2. CASE CommitOrgCreate(r)
    <3>1. Len(orgs) + 1 \in Nat
      BY <1>1 DEF TypeOK
    <3>2. q.op = "create" /\ Rotate(q, Len(orgs) + 1)
      BY <2>1, <2>2 DEF CommitOrgCreate
    <3> QED
      BY <1>6, <2>1, <3>1, <3>2
  <2>3. CASE CommitOrgSelect(r) \/ CommitAcceptInvite(r)
    <3>1. q.op \in {"select", "accept"} /\ Rotate(q, q.org)
      BY <2>1, <2>3 DEF CommitOrgSelect, CommitAcceptInvite
    <3>2. q.org \in Nat
      BY <3>1, RequestType
    <3> QED
      BY <1>6, <2>1, <3>1, <3>2
  <2>4. CASE CommitOrgLeave(r)
    <3>1. q.op = "leave"
      BY <2>1, <2>4 DEF CommitOrgLeave
    <3>2. q.org \in Nat /\ OrgIds \subseteq Nat
      BY <1>1, <3>1, RequestType, OrgType
    <3>3. PICK o \in Nat : Rotate(q, o)
      BY <2>1, <2>4, <3>2 DEF CommitOrgLeave, ActiveOrgs
    <3> QED
      BY <1>6, <2>1, <3>1, <3>3
  <2>5. CASE CommitSuspendMember(r) \/ CommitKickMember(r)
    BY <1>5, <2>5 DEF CommitSuspendMember, CommitKickMember
  <2> QED
    BY <1>3, <1>7, <1>8, <2>2, <2>3, <2>4, <2>5
    DEF Commit, CommitCreateInvite, CommitRevokeInvite, CommitGrantRole, CommitRevokeRole,
        CommitRestoreMember
<1>9. CASE UNCHANGED vars
  BY <1>3, <1>9 DEF vars
<1>10. ASSUME Next,
              ~\E r \in Requests : Commit(r), ~\E s \in DOMAIN sessions : SessionLapses(s)
       PROVE  UNCHANGED sessions
  BY <1>10
  DEF Next, Onboarding, Administration, BeginOrgCreate, BeginOrgSelect, BeginAcceptInvite,
      BeginOrgLeave, BeginOrgDelete, BeginCreateInvite, BeginGrantRole, BeginSuspendMember,
      BeginKickMember, BeginRestoreMember, BeginRevokeInvite, BeginRevokeRole, Begin, Abort,
      LoginCallback, LinkCallback, Logout, Bounce, Sends, InviteExpires
<1> QED
  BY <1>3, <1>4, <1>8, <1>9, <1>10

\* With one request at a time, rotating leaves a user no more sessions than before,
\* through any creating, picking, joining, leaving and deleting of organizations.
THEOREM RotationKeepsCount ==
    ASSUME OneAtATime
    PROVE  Spec => RotationReplaces
<1> DEFINE Replaces ==
        \A u \in Users : Cardinality(Unrevoked(u)') <= Cardinality(Unrevoked(u))
<1>1. SessionsSerial /\ [Next]_vars => [Replaces]_vars
  BY RotationStep
<1> QED
  BY <1>1, SessionsInvariance, PTL DEF Spec, RotationReplaces

=============================================================================
