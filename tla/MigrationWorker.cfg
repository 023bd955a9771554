SPECIFICATION Spec
CONSTANTS
    Tables <- MCTables
    Columns = {"id"}
    Types = {int, text}
    Keys <- MCKeys
    MaxChanges = 3
    MaxFailures = 1
INVARIANTS ReportsAddUp FileFresh
PROPERTIES ReportsTrue CatchesUp
