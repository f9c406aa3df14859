CONSTANTS
    None = None
    TradeDateLength <- MCDate
    QueueMax = 2
    BatchSize = 2
    MaxRetries = 1
    Streams <- SafetyStreams
    ReadCount = 2
    ClaimCount = 2
    MaxEntries = 4
    MaxApplied = 6
    MaxFailures = 2
SPECIFICATION Spec
INVARIANTS
    TypeOK
    BarsInOrder
    BarsMatchTicks
    DayFieldsMatchTicks
    ArchivedBeforePersisted
    AckedIsPublished
    SinkConsistent
PROPERTIES
    SinkKeepsPromise
