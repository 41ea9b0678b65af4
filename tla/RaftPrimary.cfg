SPECIFICATION Spec
CONSTANTS
    s1 = s1
    s2 = s2
    s3 = s3
    a = a
    b = b
    None = None
    Server = {s1, s2}
    Command = {a, b}
    Electable = {s1}
    Resend = TRUE
    Lossy = TRUE
    MaxElections = 1
    MaxLog = 2
    MaxRestarts = 0
    MaxCalls = 2
SYMMETRY Symmetric
INVARIANTS CommittedOnMajority 
PROPERTIES CommitNeverRetreats
CHECK_DEADLOCK FALSE
