SPECIFICATION Spec
CONSTANTS
    Persons = {ann, bob}
    LastDay = 2
    MaxAbsences = 2
    Forms = {f1}
    Catalog = {q1}
    Statuses = {"assigned", "qualified"}
    Threshold = 1
    MaxRows = 2
INVARIANTS
    OneCurrent
    DeadlineCarried
    RollupsAgree
    ReportsAgree
    SuggestionsFit
SYMMETRY Alike
