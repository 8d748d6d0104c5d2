SPECIFICATION Spec
CONSTANTS
    Demo = {"demo 1", "demo 2"}
    Legacy = {"old 1", "old 2"}
    Modern <- MCModern
    OtherPlates = {"other"}
    Found <- MCFound
    MaxStops = 1
    Clients = {a}
    Capacity = 2
    TokenTicks = 7
    SecondTicks = 3
    Never = Never
    Tokens = {t1}
    Slots = {r1, r2}
    SessionTTL = 4
    NoSession = NoSession
    Moments = {0, 3, 6}
    SetBacks = {0, 3}
    Advances = {0, 3}
INVARIANTS
    TypeOK
    MigratedWhole
    RateBounded
    ObedientAdmitted
    OnlyLiveSessionsTrusted
PROPERTIES
    FleetPreserved
    EventuallyServes
CHECK_DEADLOCK FALSE
