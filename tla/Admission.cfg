SPECIFICATION Spec
VIEW View
SYMMETRY Symmetry
CONSTANTS
    Requests = {r1, r2}
    Clusters = {c1, c2, c3, c4}
    NoCluster = NoCluster
    Digests = {d1, d2}
    Grants = {1}
    MaxEpoch = 2
    r1 = r1
    r2 = r2
    c1 = c1
    c2 = c2
    c3 = c3
    c4 = c4
    d1 = d1
    d2 = d2
INVARIANTS TypeOK HeldGenerationInstalled InstalledIsListed RetirementRemembered LeaseWithinGrant
PROPERTIES InstalledMovesForward
