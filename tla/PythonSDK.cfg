SPECIFICATION SdkSpec
CONSTANTS
    Schema <- MCSchema
    Within <- MCWithin
    Ints <- MCInts
    MaxNesting = 8
    Tables = {"orders"}
    Aliases = {"o"}
    FieldExprs <- MCFieldExprs
    Conditions <- MCConditions
    JoinCalls <- MCJoinCalls
    Keys <- MCKeys
    Limits = {3}
    MaxCalls = 2
    Texts <- MCTexts
    Operands <- MCOperands
    Questions <- MCQuestions
    Policies <- MCPolicies
    Dialects = {"postgres", "mysql"}
    None = None
INVARIANTS
    PlaceholdersFind
    
    CanonicalFaithful
    BuiltAsCalled
    OptimizerKeepsMeaning
