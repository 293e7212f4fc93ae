CONSTANTS
    Messages = {m1, m2, m3}
    Senders = {s1}
    IdleHandlers = {i1}
    MAX_POOL_SIZE = 1
    MaxDelay = 1
    MaxUptime = 3
    MaxSends = 3
    SafeQuitOnly = TRUE
    Registered <- MCRegistered
    Components <- MCComponents
    AppOf <- MCAppOf
    Priority <- MCPriority
    MaxBroadcasts = 2
    MaxRecords = 7
    MaxTroubles = 3
SPECIFICATION MCSpec
INVARIANT SafeQuitHandlesDue
CHECK_DEADLOCK FALSE
