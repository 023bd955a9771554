SPECIFICATION Spec
CONSTANTS
    Names <- MCNames
    Parameters <- MCParameters
    Answers <- MCAnswers
    Requests <- MCRequests
    NoRequest = NoRequest
    Nothing = Nothing
    Base <- MCBase
    MaxParams = 3
    MaxTables = 2
    MaxColumns = 4
    MaxRules = 2
INVARIANT ParamsInBounds
