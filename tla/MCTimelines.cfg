\* Timelines: baselines and real-time payloads racing on each chart.
SPECIFICATION Spec
CONSTANTS
    Cases <- MCCases
    MaxPoints = 2
    MaxAsks = 1
    MaxMounts = 2
INVARIANTS
    SeriesWellFormed
    ShownIsReal
    BaselineCovered
    OverlayCarries
PROPERTIES
    LatestShown
    LoadingEnds
CHECK_DEADLOCK FALSE
