SPECIFICATION FairSpec
CONSTANTS
    Input <- MCInput
    Output <- MCOutput
    MaxOps = 3
    Word = 2
INVARIANTS TypeOK VerdictIsRight SearchMatchesCalls PartialsAreLinearizable LongestIsLongest  IllegalPointsAreIllegal
PROPERTIES CheckReturns
CHECK_DEADLOCK FALSE
