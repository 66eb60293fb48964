SPECIFICATION Spec
CONSTANTS
    a1 = a1
    a2 = a2
    a3 = a3
    File = File
    Nobody = Nobody
    Holder <- MCTwoAgents
    Resource <- MCResource
    Span = "WriteOnly"
    Split = FALSE
    IoFaults <- MCPrepareFault
    Lease = 2
    Ceiling = 2
    GrantTwice <- MCNone
    SwallowKeepalive <- MCNone
    DropRelease <- MCNone
    NonMonotonicTickets = FALSE
    MaxTicket = 4
    MaxVersion = 4
INVARIANT NoOrphanHold
