SPECIFICATION Spec
CONSTANTS
    Requests = {r1}
    Members = {alice, bob}
    Founder = alice
    Codes = {"org", "work"}
    Templates <- OwnerOnly
    MaxWorkcenters = 3
    MaxRoles = 2
    MaxGrants = 2
INVARIANTS
    Forest
    CoversSubtree
    ArchivedRolesUnheld
    Administrable
