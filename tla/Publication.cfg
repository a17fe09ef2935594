SPECIFICATION Spec
SYMMETRY Symmetry
CONSTANTS
    Nodes = {n1, n2}
    Primary = n1
    Witness = n2
    Frontends = {f1, f2, f3}
    NoFrontend = NoFrontend
    Payloads = {x1}
    NoPayload = NoPayload
    MaxIndex = 2
    MarkMayVanish = FALSE
INVARIANTS TypeOK LogsAgree RequestsAreSettled AckedIsDurable
PROPERTIES ImplementsStream
CHECK_DEADLOCK FALSE
