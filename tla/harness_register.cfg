SPECIFICATION SoakSpec
CONSTANTS
    a1 = a1
    a2 = a2
    a3 = a3
    File = File
    Nobody = Nobody
    Holder <- MCTwoAgents
    Resource <- MCResource
    Span = "Full"
    Split = FALSE
    IoFaults <- MCAllFaults
    Lease = 2
    Ceiling = 3
    GrantTwice <- MCResource
    SwallowKeepalive <- MCSecondAgent
    DropRelease <- MCFirstAgent
    NonMonotonicTickets = FALSE
    MaxTicket = 3
    MaxVersion = 3
CHECK_DEADLOCK FALSE
INVARIANT OnlyExposedReport
INVARIANT HistoryReplays
PROPERTY ImplementsRegister
PROPERTY NoLostUpdate
PROPERTY HoldsRunDown
