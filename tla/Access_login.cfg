SPECIFICATION Spec
CONSTANTS
    alice = alice
    bob = bob
    Users = {alice, bob}
    Requests = {r1}
    Devices <- BothBound
    Founders <- AnOrgEach
    MaxOrgs = 2
    MaxGrants = 2
    MaxSessions = 2
    MaxInvites = 0
    None = None
PROPERTIES
    LoginOpensSession
