\* Accounts in turn with failing stores and restarts; two layer-4 requests at a
\* time; two sign-on flows beside an update, a restart or an edited account; two
\* requests for settings beside other syncs; three requests that log or configure.
SPECIFICATION TablesSpec
CONSTANTS
    u1 = u1  u2 = u2  u3 = u3  a = a  e = e  f = f  h = h  g = g
    m = m  lp = lp  o1 = o1  o2 = o2  v = v
    UserIDs = {u1, u2, u3}
    Absent = Absent
    Handlers = {a}
    StoreFails = TRUE
    Endpoints = {e, f}
    L4Inputs <- Rows
    BulkLists <- Lists
    MaxL4 = 3
    L4Handlers = {h, g}
    NoL4 = NoL4
    PageSize = 1
    Emails = {m}
    LocalPart <- LocalName
    Issuers = {o1, o2}
    SsoInputs <- OnOff
    Flows = {h, g}
    NoValue = NoValue
    CodeTTL = 0
    MaxCode = 1
    MaxTry = 1
    MaxNow = 1
    MaxEdits = 1
    Requests = {h, g}
    Ticker = Ticker
    Free = Free
    PageInputs <- NotFoundPages
    MetricsInputs <- MetricsPages
    KeyInputs <- SingleKeys
    MaxChanges = 2
    MaxFaults = 1
    Loggers = {h, g, v}
    Actions = {"a", "b", "u"}
    Unlisted = {"u"}
    AuditInputs <- AuditSets
    NoConfig = NoConfig
    MaxLost = 2
SYMMETRY Alike
CHECK_DEADLOCK FALSE
INVARIANTS TableTypes AdminRemains SetupStaysOpen EndpointsUnique ExportCovers
    CodeUsedOnce SavedIssuerVouches RoleComes AnsweredIsBuilt
PROPERTIES RoutesNeverReturn EventsAsConfigured
