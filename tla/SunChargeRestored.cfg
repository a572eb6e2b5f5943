SPECIFICATION StubbornSpec
CONSTANTS
    None = None
    Actors = {"poll", "stop"}
    PermitKinds = {"window"}
    Plans = {"meter", "window"}
    Full <- MCFull
    Manuals <- MCManuals
    PvPowers <- MCPvPowers
PROPERTIES
    MeterRestored
