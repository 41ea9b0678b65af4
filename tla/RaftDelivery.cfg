SPECIFICATION FairSpec
CONSTANTS
    s1 = s1
    s2 = s2
    s3 = s3
    a = a
    b = b
    None = None
    Server = {s1, s2}
    Command = {a}
    Electable = {s1}
    Resend = FALSE
    Lossy = FALSE
    MaxElections = 1
    MaxLog = 1
    MaxRestarts = 0
    MaxCalls = 3
PROPERTIES DeliveredEverywhere
CHECK_DEADLOCK FALSE
