SPECIFICATION Spec
CONSTANTS
    h1 = h1
    h2 = h2
    n1 = n1
    n2 = n2
    im = im
    c1 = c1
    c2 = c2
    key = key
    Nothing = Nothing
    Host = {h1, h2}
    Nonce = {n1, n2}
    SystemImage = {im}
    Custom = {c1, c2}
    MonitorKey = key
    DevKey = key
    DiskMayFill = TRUE
    FailReplies <- Refusal
SYMMETRY Symmetries
CONSTRAINT FewReports
INVARIANTS
    TypeOK
    WritesOwnReport
PROPERTIES
    CalmVerificationPasses
    ImplementsAttestService
CHECK_DEADLOCK FALSE
