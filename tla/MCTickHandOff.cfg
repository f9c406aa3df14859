CONSTANTS
    None = None
    TradeDateLength <- MCDate
    QueueMax = 1
    BatchSize = 1
    MaxRetries = 1
    Streams <- HandOffStreams
    ReadCount = 2
    ClaimCount = 2
    MaxEntries = 4
    MaxApplied = 6
    MaxFailures = 0
SPECIFICATION Spec
INVARIANTS
    ClosedBarsHandedOff
