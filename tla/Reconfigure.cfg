SPECIFICATION Spec
CONSTANTS
    n1 = n1
    n2 = n2
    NoNode = NoNode
    Nodes <- MCNodes
    ActingSets <- MCActingSets
    Requests <- MCRequests
    Commands = {"SetPgActingSet", "SetPgActingSetWithMetadataTransfer", "FencePgForMetadataTransfer", "BeginUnavailablePgPlacementTransition", "BumpForOtherPg", "PendingEvidence"}
    Skew = 0
    Offset = 0
    Lag = 1
    MaxLease = 1
    MaxTime = 2
    MaxEpoch = 3
    MaxAuthority = 2
    MaxIncarnation = 1
SYMMETRY Symmetry
CHECK_DEADLOCK FALSE
INVARIANTS
    ActivePrimaryHoldsLease
    PermitsAccountedFor
PROPERTIES
    AcknowledgedLeasesHold
