CONSTANTS
    client = client
    ui = ui
    Client = client
    Web = web
    Producers = {client}
    Disciplines <- MCOneDiscipline
    MaxCalls = 1
    MaxSessions = 1
SPECIFICATION Spec
PROPERTY AutoStartStarts
CHECK_DEADLOCK FALSE
