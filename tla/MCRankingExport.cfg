CONSTANTS
    Formats <- MCFormats
    Nums = {1, 2}
    Statuses = {1, 3}
    MaxExports = 2
    MaxUpdates = 1
    MaxResults <- MCMaxResults
SPECIFICATION Spec
INVARIANTS TypeOK CrashHasCause
PROPERTY SheetAsTables
CHECK_DEADLOCK FALSE
