CONSTANTS
    client = client
    ui = ui
    Client = client
    Web = web
    Producers <- MCProducers
    Disciplines <- MCOneDiscipline
    MaxCalls = 3
    MaxSessions = 2
    Lists = 3
    MaxSeries = 1
    MaxOthers = 1
    OthersFrom = 2
SPECIFICATION BridgeFairSpec
INVARIANTS BridgeTypeOK NoHoleInSeries
PROPERTIES SeriesArrives ShutdownCompletes
CHECK_DEADLOCK FALSE
