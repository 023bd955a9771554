SPECIFICATION Spec
CONSTANTS
    Schema <- MCSchema
    Texts <- MCTexts
    Written <- MCWritten
    Questions <- MCQuestions
    Long = {"long"}
    NodeLimits = {3, 19, 20}
    MaxText = 32
    MaxChildren = 4
    MaxDepth = 6
    Capacity = 16
    MaxShort = 7
INVARIANTS
    TypeOK
    NothingLeaks
    TreesAlike
    QuestionsAlike
PROPERTY
    CallReturns
