CONSTANTS
    Numbers <- MCNumbers
    Disciplines <- MCDisciplines
    Offsets <- MCOffsets
    Boots <- MCBoots
    Wrap = 6
    MaxTime = 3
    MaxWire = 1
SPECIFICATION Spec
INVARIANTS TypeOK RunTimeNeverAhead RunTimeLateBySyncDelay ReadyOncePerLoad AtStartOnlyDuringRun
