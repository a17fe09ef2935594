SPECIFICATION Spec
SYMMETRY Symmetry
CONSTANTS
    Nodes = {n1, n2, n3}
    Primary = n1
    Witness = n2
    Frontends = {f1, f2}
    NoFrontend = NoFrontend
    Payloads = {x1, x2}
    NoPayload = NoPayload
    MaxIndex = 2
    MarkMayVanish = TRUE
INVARIANT RequestsAreSettled
CHECK_DEADLOCK FALSE
