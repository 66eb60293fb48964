SPECIFICATION FairSoakSpec
CONSTANTS
    a1 = a1
    a2 = a2
    a3 = a3
    File = File
    Nobody = Nobody
    Holder <- MCTwoAgents
    Resource <- MCResource
    Span = "Full"
    Split = TRUE
    IoFaults <- MCReadRenameFaults
    Lease = 2
    Ceiling = 2
    GrantTwice <- MCNone
    SwallowKeepalive <- MCNone
    DropRelease <- MCFirstAgent
    NonMonotonicTickets = FALSE
    MaxTicket = 3
    MaxVersion = 3
CHECK_DEADLOCK FALSE
INVARIANT FileIsLastAccepted
INVARIANT StagedIntactOrGone
INVARIANT NoOrphanHold
INVARIANT AcceptedNeverOverlap
INVARIANT OnlyExposedReport
PROPERTY PublishedInOrder
PROPERTY OneLateWrite
PROPERTY HoldEnds
