SPECIFICATION Spec
CONSTANTS
    Order <- MCOrder
    Programs <- MCPrograms
    NativeSwift = TRUE
    UserTypes <- MCUserTypes
    Sizes = {0, 16, 32}
    MaxEdits = 3
    Fragments <- MCFragments
    Lvars = {"m1", "m2", "w1", "w2", "b1", "b2", "d", "e"}
    Touched <- MCTouched
    MaxFragments = 3
INVARIANTS TypeOK  StaleShownOnce FrameMatchesRecord   LogsShowTheirValues 
CHECK_DEADLOCK FALSE
