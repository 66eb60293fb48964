SPECIFICATION FairSpec
CONSTANTS
    a1 = a1
    a2 = a2
    r1 = r1
    r2 = r2
    Holder <- MCAgents
    Resource <- MCResources
    Lease = 2
    GrantTwice <- MCOneResource
    SwallowKeepalive <- MCFirstAgent
    DropRelease <- MCSecondAgent
    NonMonotonicTickets = FALSE
    MaxTicket = 3
    MaxVersion = 2
INVARIANT TypeOK
INVARIANT AtMostOneHolder
PROPERTY LostStaysLost
PROPERTY CommitTicketsInOrder
PROPERTY NoCommitBelowBarrier
PROPERTY HoldEndsOnlyBy
PROPERTY SwallowedRunsDown
PROPERTY ImplementsFencedLock
PROPERTY WedgedHolderLapses
