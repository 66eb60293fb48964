SPECIFICATION SoakSpec
CONSTANTS
    a1 = a1
    a2 = a2
    a3 = a3
    File = File
    Nobody = Nobody
    Holder <- MCTwoAgents
    Resource <- MCResource
    Span = "Full"
    Split = FALSE
    IoFaults <- MCPrepareFault
    Lease = 2
    Ceiling = 3
    GrantTwice <- MCNone
    SwallowKeepalive <- MCNone
    DropRelease <- MCNone
    NonMonotonicTickets = FALSE
    MaxTicket = 5
    MaxVersion = 4
CHECK_DEADLOCK FALSE
SYMMETRY Agents
INVARIANT TypeOK
INVARIANT ReaderUndisturbed
INVARIANT HoldBound
INVARIANT NoOrphanHold
PROPERTY RevokedNeverLands
