SPECIFICATION AlertsSpec
CONSTANTS
    Requests = {r1}
    Attributes <- MCAttributes
    Values <- MCValues
    Active = Active
    Incoming = Incoming
    Departed = Departed
    Days = {0, 1}
    FormValues <- MCFormValues
    FormDays = {0}
    MaxPersons = 1
    MaxRows = 2
    None = None
    Lists = {w1}
    Deadlines = {0}
    SnoozeDays = {1}
    MaxBacklog = 1
    MaxAlerts = 2
    WeekAhead = 0
    MonthAhead = 1
    TwoMonthsAhead = 2
    YearAhead = 3
INVARIANTS
    Chained
    AlwaysCurrent
    OneOpenPerCondition
PROPERTIES
    QueueIsCurrent
    ClosedStaysClosed
    KeepsJournal
    PriorValuesKept
