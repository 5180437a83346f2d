SPECIFICATION Spec
CONSTANTS
    Functions = {"main", "stub", "other", "op/", "island"}
    Modules = {"lib", "app"}
    SegmentOf <- MCSegment
    Slashed = {"op/"}
    HasDsc = TRUE
    UserNames = {"lib", "done"}
    UserFolders <- MCUserFolders
    MaxMoves = 2
    Classes = {"OSObject", "A", "B", "C", "D", "E"}
    Parent <- MCParent
    Tables = {"OSObject", "A", "B", "C", "E"}
    Funcs = {"f", "k"}
    Vars = {"v"}
    Fields <- MCFields
    Inner = {"y"}
    VirtualPrograms <- MCVirtualPrograms
    UserTypes = {"A", "D", "int"}
    MaxTypings = 1
    KernelFuncs = {"f", "k"}
    Globals = {"g", "h"}
    Locals = {"v", "w"}
    Programs <- MCPrograms
    Fixed <- MCFixed
    MaxEdits = 1
    DefaultForce = TRUE
    Arguments = 4
    ObjcVars = {1, 2, 3, 4, 5, 6}
    Methods <- MCMethods
    OptionChoices <- MCOptions
    Bases = {"sel", "implicit_arg", "frame", "title", "observer"}
    GivenNames <- MCGivenNames
    MaxNamings = 1
INVARIANTS TypeOK PacTypesFit
PROPERTIES LastCallsCount PassesOrganize ProposalsAreRanked
CHECK_DEADLOCK FALSE
