SPECIFICATION TimerSpec
CONSTANTS
    None = None
    Actors = {"poll", "worker"}
    PermitKinds = {"fixed", "price"}
    Plans = {"meter", "fixed", "price"}
    Full <- MCFull
    Manuals <- MCManuals
    PvPowers <- MCPvPowers
PROPERTIES
    ChargesEnd
