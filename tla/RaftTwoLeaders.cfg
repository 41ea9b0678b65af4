SPECIFICATION Spec
CONSTANTS
    s1 = s1
    s2 = s2
    s3 = s3
    a = a
    b = b
    None = None
    Server = {s1, s2, s3}
    Command = {}
    Electable = {s1, s2, s3}
    Resend = FALSE
    Lossy = FALSE
    MaxElections = 2
    MaxLog = 0
    MaxRestarts = 0
    MaxCalls = 0
SYMMETRY Symmetric
INVARIANTS ElectionSafety
CHECK_DEADLOCK FALSE
