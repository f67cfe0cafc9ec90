SPECIFICATION Spec
CONSTANTS
    Requests = {r1}
    People = {p1, p2}
    External = External
    Nobody = Nobody
    PartialIndex = FALSE
    MaxTasks = 1
    MaxRows = 3
INVARIANTS
    SeveralAssigneesAccepted
