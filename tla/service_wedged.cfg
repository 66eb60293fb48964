SPECIFICATION Spec
CONSTANTS
    a1 = a1
    a2 = a2
    r1 = r1
    r2 = r2
    Holder <- MCAgents
    Resource <- MCOneResource
    Lease = 2
    GrantTwice <- MCNone
    SwallowKeepalive <- MCFirstAgent
    DropRelease <- MCNone
    NonMonotonicTickets = FALSE
    MaxTicket = 3
    MaxVersion = 2
PROPERTY CheckingInKeepsTheLock
