SPECIFICATION Spec
CONSTANTS
    n1 = n1
    n2 = n2
    NoNode = NoNode
    Nodes <- MCNodes
    ActingSets <- MCActingSets
    Requests <- ShortRequests
    Commands = {}
    Skew = 0
    Offset = 0
    Lag = 0
    MaxLease = 2
    MaxTime = 4
    MaxEpoch = 3
    MaxAuthority = 1
    MaxIncarnation = 1
SYMMETRY Symmetry
CHECK_DEADLOCK FALSE
INVARIANT
    ActivationFenced
