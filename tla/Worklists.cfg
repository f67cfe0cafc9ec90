SPECIFICATION Spec
CONSTANTS
    Requests = {r1, r2}
    Weeks = {1, 2}
    Days = {0}
    tpl = tpl
    Templates <- MCTemplates
    Due <- MCDue
    Names = {"label"}
    DefaultName = "label"
    FormDays = {0}
    FormStatuses = {"open"}
    MaxWorklists <- MCMaxWorklists
    MaxTasks <- MCMaxTasks
    None = None
SYMMETRY RequestSymmetry
INVARIANTS
    ReferencesResolve
    CarriesForward
    AmendsLockedSnapshot
    OneBasePerWeek
    VersionsDistinct
    CompletedIffDone
PROPERTIES
    HistoryIsKept
    GenerationIsIdempotent
    CarryConsumesUnfinished
    LockedOnlySettled
