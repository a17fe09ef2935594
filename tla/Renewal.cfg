SPECIFICATION FairSpec
CONSTANTS
    Requests = {r1}
    Clusters = {c1, c2, c3}
    NoCluster = NoCluster
    Digests = {d1}
    Grants = {1, 2}
    MaxEpoch = 1
INVARIANTS BodyWaitFrozen
PROPERTIES RetiredNotRenewed PublicationEnds
