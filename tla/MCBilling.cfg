CONSTANTS
    None = None
    Webhook = Webhook
    u1 = u1
    u2 = u2
    s1 = s1
    s2 = s2
    c1 = c1
    c2 = c2
    Users <- TwoUsers
    Subs <- TwoSubs
    Checkouts <- TwoCheckouts
    MaxCheckouts = 2
    MaxEvents = 3
    MaxDeliveries = 1
    MaxFailures = 1
SYMMETRY Symmetry
SPECIFICATION Spec
INVARIANTS
    LedgerMatchesEffects
    EntitlementWasGranted
PROPERTIES
    OnlyCheckoutsReviveCanceled
CHECK_DEADLOCK FALSE
