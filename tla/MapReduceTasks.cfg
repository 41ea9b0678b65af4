SPECIFICATION FairSpec
CONSTANTS
    w1 = w1
    w2 = w2
    Worker = {w1, w2}
    Mortal = {w1}
    NMap = 2
    NReduce = 2
    MaxFaults = 1
INVARIANTS TypeOK InProgressIsTimed CompletedHasFiles RemainNeverLags
INVARIANTS RemainIsExact ReduceAfterMap DoneMeansOutputInTime FilesAreWholeInTime
PROPERTIES CompletedIsFinal JobFinishes
CHECK_DEADLOCK FALSE
