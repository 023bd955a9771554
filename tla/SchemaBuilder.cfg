SPECIFICATION Spec
CONSTANTS
    Tables <- MCTables
    Cols <- MCCols
    Idents <- MCIdents
    MaxTables = 2
    MaxCols = 3
    MaxFks = 2
    MaxObjects = 4
INVARIANTS SchemaSound OneOwner
PROPERTIES Implements
