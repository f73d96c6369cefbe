SPECIFICATION FairSpec
CONSTANTS
    NumPaths = 1
    a = a
    b = b
    IPs = {a, b}
    Texts <- MCTexts
    HasJournal = TRUE
    Threshold = 2
    Window = 1
    Suspicious = 2
    MaxRead = 3
    MaxLines = 1
    PrefixLimit = 2
    MaxFailureIPs = 1
    MaxAttemptsPerIP = 3
    MaxState = 2
    MaxWritten = 2
    MaxFaults = 1
INVARIANTS
    NothingSkipped
    CountedTwiceExplained
    BruteForceReported
PROPERTIES
    ReportsThenCommits
    LinesRead
