SPECIFICATION PauseSpec
CONSTANTS
    HysteresisCycles = 2
    Deciders = {"poll"}
INVARIANTS
    ImportInARow
