SPECIFICATION Spec
CONSTANTS
    Names <- MCNames
    Requests <- MCRequests
    NoRequest = NoRequest
    Schema <- MCSchema
    MaxParams = 2
    MaxSources = 4
    MaxFields = 2
    DefaultLimit = 4
    Within <- MCWithin
    Ints = {0, 3, 6}
    MaxNesting = 8
INVARIANTS
    ParametersMatch
    TenantCoverage
    JoinsMatchKeysByAlias
    
    EnginesAgree
PROPERTIES
    KeepsContract
    CallReturns

