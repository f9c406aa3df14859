CONSTANTS
    None = None
    Webhook = Webhook
    u1 = u1
    u2 = u2
    s1 = s1
    s2 = s2
    c1 = c1
    c2 = c2
    Users <- TwoUsers
    Subs <- TwoSubs
    Checkouts <- TwoCheckouts
    MaxCheckouts = 1
    MaxEvents = 2
    MaxDeliveries = 0
    MaxFailures = 0
SYMMETRY Symmetry
SPECIFICATION Spec
INVARIANTS
    InSyncWithStripe
CHECK_DEADLOCK FALSE
