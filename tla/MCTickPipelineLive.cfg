CONSTANTS
    None = None
    TradeDateLength <- MCDate
    QueueMax = 1
    BatchSize = 1
    MaxRetries = 1
    Streams <- LivenessStreams
    ReadCount = 2
    ClaimCount = 2
    MaxEntries = 3
    MaxApplied = 7
    MaxFailures = 2
SPECIFICATION FairSpec
PROPERTIES
    Drains
