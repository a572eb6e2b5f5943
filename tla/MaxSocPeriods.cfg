SPECIFICATION Spec
CONSTANTS
    None = None
    Socs <- MCSocs
    Targets <- MCTargets
    Cycles = 2
    Periods = {"slot", "timed", "discharge"}
    Evaluators = {"poll"}
INVARIANTS
    TypeOK
    CountsMeasurements
    NoSecondChargeInSlot
    CapIsKept
PROPERTIES
    ReleaseLasts
