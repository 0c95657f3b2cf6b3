CONSTANTS
    Numbers <- MCNumbers
    Disciplines <- MCDisciplines
    Offsets <- MCOffsets
    Boots <- MCBoots
    Wrap = 6
    MaxTime = 3
    MaxWire = 1
SPECIFICATION Spec
INVARIANT Timer1AboutItsCompetitor
CHECK_DEADLOCK FALSE
