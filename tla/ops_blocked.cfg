SPECIFICATION Spec
CONSTANTS
    Vehicles = {v1}
    Shifts = {}
    TripIds = {}
    OrderIds = {o1, o2}
    InspectionIds = {i1}
    FuelIds = {}
    IncidentIds = {}
    Keys = {}
    Callers = {c1}
    None = None
    Odometers = {0}
    Loads = {0}
    InspectionTimes = {0}
    Validity = 1
    MaximumDuty = 1
    MinimumBreak = 1
    CapacityKg <- MCCapacity
    RequiredKg <- MCRequired
    Route <- MCRoute
    ServiceDate <- MCOwnDate
    Window <- MCOneHour
CHECK_DEADLOCK FALSE
INVARIANTS
    BlockedWhileOrderActive
