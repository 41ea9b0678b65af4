SPECIFICATION Spec
CONSTANTS
    w1 = w1
    w2 = w2
    Worker = {w1, w2}
    Mortal = {w1}
    NMap = 1
    NReduce = 2
    MaxFaults = 1
INVARIANTS DoneMeansOutput
CHECK_DEADLOCK FALSE
