CONSTANTS
    f1 = f1
    f2 = f2
    NoFolder = none
    Folders <- MCFolders
    Competitions <- MCCompetitions
    Manuals <- MCManuals
    MaxLoads = 2
    MaxSwitches = 1
    MaxFiles = 2
SPECIFICATION FairSpec
INVARIANTS TypeOK ChoiceStands CoherentWhenAlone
PROPERTY NewestFileIsSent
CHECK_DEADLOCK FALSE
