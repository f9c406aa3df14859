\* Console: the shell, the job loader and the query pages.
SPECIFICATION Spec
CONSTANTS
    Tours <- MCTours
    MaxSelected = 2
    MaxBatches = 2
    Codes <- MCCodes
    SamplePages <- MCSamplePages
    Choices <- MCChoices
    AuditEvents <- MCAuditEvents
    Failures <- MCFailures
INVARIANTS
    JobsAccounted
    PageReachable
    ShownIsAsked
PROPERTIES
    SkeletonEnds
CHECK_DEADLOCK FALSE
