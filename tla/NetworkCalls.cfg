SPECIFICATION FairSpec
CONSTANTS
    c1 = c1
    N = 2
    Call = {c1}
    MaxStarts = 2
INVARIANTS SuccessIsDurable EndsFollowConnections
PROPERTIES ImplementsRemoteCall CallReturns DeletedServerAnswers
CHECK_DEADLOCK FALSE
