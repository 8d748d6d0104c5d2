SPECIFICATION Spec
CONSTANTS
    Vehicles = {v1}
    Shifts = {s1}
    TripIds = {t1}
    OrderIds = {o1, o2}
    InspectionIds = {i1, i2}
    FuelIds = {f1}
    IncidentIds = {n1}
    Keys = {k1}
    Callers = {c1, c2}
    None = None
    Odometers = {0}
    Loads = {1}
    InspectionTimes = {0, 1}
    Validity = 1
    MaximumDuty = 1
    MinimumBreak = 1
    CapacityKg <- MCCapacity
    RequiredKg <- MCRequired
    Route <- MCRoute
    ServiceDate <- MCOwnDate
    Window <- MCOneHour
SYMMETRY Symmetric
CHECK_DEADLOCK FALSE
INVARIANTS
    TypeOK
    WorkshopExcludesRoad
    OutboxMatchesTables
    AuditMatchesTables
PROPERTIES
    OrderLifecycle
