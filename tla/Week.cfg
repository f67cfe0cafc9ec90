SPECIFICATION Spec
CONSTANTS
    None = None
    MonthLengths <- LeapYear
    Forms <- SomeForms
    Mondays <- LeapWeek
    FormDays <- SomeDays
    People = {"ann"}
    Visitors = {"visitor"}
    MaxLists = 2
    MaxEdits = 2
INVARIANTS
    WindowsAgree
    NothingHidden
PROPERTY
    Foretold
CHECK_DEADLOCK FALSE
