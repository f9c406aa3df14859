CONSTANTS
    ann = ann
    bob = bob
    Users = {ann, bob}
    RoleOf <- MCRoleOf
    Payers = {ann}
    Statuses = {"pending", "active"}
    Visited = {"dashboard", "gated", "admin", "subscription", "login", "signup"}
    Checkouts = {s1}
    None = None
    MaxCalls = 2
    MaxLoads = 2
SPECIFICATION LiveSpec
INVARIANTS
    OneAccount
    ContentWasGranted
    SessionFollowsCookie
PROPERTIES
    Resolves
    RedirectsSettle
CHECK_DEADLOCK FALSE
