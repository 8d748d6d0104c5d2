SPECIFICATION Spec
CONSTANTS
    Codes = {1, 2}
    Offered <- MCOffered
    Callers = {c1, c2}
    LicenseEnd = 2
    LastMoment = 2
    LastVersion = 4
    None = None
INVARIANTS
    TypeOK
    CertificationsKept
    ChangesAuditedOnce
PROPERTIES
    SuspensionStands
CHECK_DEADLOCK FALSE
