SPECIFICATION Spec
CONSTANTS
    Vehicles = {v1}
    Shifts = {s1, s2}
    TripIds = {t1, t2}
    OrderIds = {}
    InspectionIds = {}
    FuelIds = {f1, f2}
    IncidentIds = {}
    Keys = {k1, k2}
    Callers = {c1, c2}
    None = None
    Odometers = {0, 1, 2, 3}
    Loads = {1}
    InspectionTimes = {0}
    Validity = 1
    MaximumDuty = 1
    MinimumBreak = 1
    CapacityKg <- MCCapacity
    RequiredKg <- MCRequired
    Route <- MCRoute
    ServiceDate <- MCOwnDate
    Window <- MCOneHour
SYMMETRY Symmetric
CHECK_DEADLOCK FALSE
INVARIANTS
    DutyAgrees
    AnswersAgree
    OdometerHistory
PROPERTIES
    ShiftLifecycle
    ImplementsDayPlan
