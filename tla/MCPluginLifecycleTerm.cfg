SPECIFICATION Spec
CONSTANTS
    N = 6
    Kind <- MCKind
    Dynamic <- MCDynamic
    UiOnly <- MCUiOnly
    Toggle = 2
    Anchor = 1
    ConfigChoices <- MCConfigChoices
    MaxCores = 3
CHECK_DEADLOCK FALSE

PROPERTIES TermLeavesNothing
