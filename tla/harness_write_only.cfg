SPECIFICATION SoakSpec
CONSTANTS
    a1 = a1
    a2 = a2
    a3 = a3
    File = File
    Nobody = Nobody
    Holder <- MCThreeAgents
    Resource <- MCResource
    Span = "WriteOnly"
    Split = FALSE
    IoFaults <- MCNone
    Lease = 2
    Ceiling = 2
    GrantTwice <- MCNone
    SwallowKeepalive <- MCNone
    DropRelease <- MCFirstAgent
    NonMonotonicTickets = FALSE
    MaxTicket = 4
    MaxVersion = 4
CHECK_DEADLOCK FALSE
SYMMETRY OtherAgents
INVARIANT NoOrphanHold
INVARIANT SoakPasses
PROPERTY NoLostUpdate
PROPERTY PublishedInSequence
