SPECIFICATION PollSpec
CONSTANTS
    None = None
    Socs <- MCSocs
    Targets <- MCTargets
    Cycles = 2
    Periods = {"timed"}
    Evaluators = {"poll"}
PROPERTIES
    HoldsEnd
