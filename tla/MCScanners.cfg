SPECIFICATION Spec
CONSTANTS
    BlockVars = {"block"}
    ByrefVars = {"byref"}
    Runs <- MCBlockRuns
    MaxRuns = 4
    Compensating = FALSE
    Candidates <- MCCandidates
    Shapes <- MCShapes
    Noise <- MCNoise
    MaxCode = 8
    MaxNoise = 2
    SectionSize = 7
INVARIANTS TypeOK StructsAreRecovered   NamesAreMarked
PROPERTY LogsAreRewritten
\* every recogniser comes to an end of its input
CHECK_DEADLOCK FALSE
