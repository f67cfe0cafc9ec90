SPECIFICATION Spec
CONSTANTS
    Requests = {r1, r2}
    People = {p1, p2}
    External = External
    Nobody = Nobody
    PartialIndex = TRUE
    MaxTasks = 2
    MaxRows = 3
SYMMETRY RequestAndPeopleSymmetry
INVARIANTS
    OneLead
PROPERTIES
    RefusedOnlyWhen
    LeadHandedOver
