SPECIFICATION Spec
CONSTANTS
    NV = 5
    Args = {1}
    StackBlocks = {2, 3}
    GlobalRefs = {5}
    ByrefInits = {4}
    Fields <- MCFields
    Captures <- MCCaptures
    TypeName <- MCTypeName
    OptionChoices <- MCOptionChoices
    UserNames <- MCUserNames
    EditedVars = {1, 2}
    EditedFields <- MCEditedFields
    MaxEdits = 2
    MaxViews = 2
INVARIANTS TypeOK NamesDistinct AnalysisIsComplete
PROPERTIES UserEditsKept RerunIsNoop QueueDrains
