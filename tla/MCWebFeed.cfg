CONSTANTS
    client = client
    ui = ui
    Client = client
    Web = web
    Producers = {client}
    Disciplines <- MCDisciplines
    MaxCalls = 2
    MaxSessions = 2
SPECIFICATION Spec
INVARIANTS TypeOK SentInCallOrder NoStaleBacklog OneLateCallPerThread BoundedWhileDown
PROPERTY ImplementsChannel
CHECK_DEADLOCK FALSE
