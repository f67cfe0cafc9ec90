SPECIFICATION Spec
CONSTANTS
    alice = alice
    bob = bob
    Users = {alice, bob}
    Requests = {r1}
    Devices <- BothBound
    Founders <- AnOrgEach
    MaxOrgs = 3
    MaxGrants = 3
    MaxSessions = 4
    MaxInvites = 1
    None = None
INVARIANTS
    OrgHasOwner
    MembersWereInvited
PROPERTIES
    RotationReplaces
    TakenAwayIsOut
