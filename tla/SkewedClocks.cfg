SPECIFICATION Spec
CONSTANTS
    n1 = n1
    n2 = n2
    NoNode = NoNode
    Nodes <- MCNodes
    ActingSets <- MCActingSets
    Requests <- MCRequests
    Commands = {}
    Skew = 1
    Offset = 1
    Lag = 0
    MaxLease = 1
    MaxTime = 3
    MaxEpoch = 3
    MaxAuthority = 1
    MaxIncarnation = 2
SYMMETRY Symmetry
CHECK_DEADLOCK FALSE
INVARIANTS
    TypeOK
    AtMostOneServingPrimary
    ActivationFenced
    HorizonCoversEveryPermit
