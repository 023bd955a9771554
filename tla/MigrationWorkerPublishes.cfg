SPECIFICATION Spec
CONSTANTS
    Tables <- MCTables
    Columns = {"id"}
    Types = {int, text}
    Keys <- NoKeys
    MaxChanges = 2
    MaxFailures = 1
PROPERTY DriftPublished
