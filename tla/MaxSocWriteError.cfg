SPECIFICATION Spec
CONSTANTS
    None = None
    Socs <- MCSocs
    Targets <- MCTargets
    Cycles = 2
    Periods = {}
    Evaluators = {"poll"}
INVARIANTS
    CapOutlivesWriteError
