CONSTANTS
    MaxRows = 2
    DispatchLimit = 1
    ReadCount = 2
    MaxFaults = 2
    MaxEvents = 1
    MaxCopies = 1
SPECIFICATION FairSpec
INVARIANTS
    MailsExplained
    AckedIsSettled
    AttemptsInOrder
PROPERTIES
    SentStands
    Settles
