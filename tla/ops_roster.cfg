SPECIFICATION BatchSpec
CONSTANTS
    Slots = {1, 2}
    Batches <- MCBatches
    MaxParallel = 1
    Vehicles = {v1, v2}
    Shifts = {1, 2, 3}
    TripIds = {}
    OrderIds = {}
    InspectionIds = {}
    FuelIds = {}
    IncidentIds = {}
    Keys = {}
    Callers = {c1}
    None = None
    Odometers = {0}
    Loads = {1}
    InspectionTimes = {0}
    Validity = 1
    MaximumDuty = 5
    MinimumBreak = 2
    CapacityKg <- MCCapacity
    RequiredKg <- MCRequired
    Route <- MCRoute
    ServiceDate <- MCRosterDate
    Window <- MCRosterWindow
SYMMETRY RosterSymmetric
CHECK_DEADLOCK FALSE
INVARIANTS
    RosterCompatible
    DutyLimited
    PermitsReturned
    ResultsTrue
