SPECIFICATION Spec
CONSTANTS
    s1 = s1
    s2 = s2
    s3 = s3
    a = a
    b = b
    None = None
    Server = {s1, s2}
    Command = {a}
    Electable = {s1, s2}
    Resend = FALSE
    Lossy = FALSE
    MaxElections = 2
    MaxLog = 1
    MaxRestarts = 1
    MaxCalls = 2
SYMMETRY Symmetric
INVARIANTS TypeOK DiskMatchesMemory 
PROPERTIES TermNeverRegresses
CHECK_DEADLOCK FALSE
