SPECIFICATION TimerSpec
CONSTANTS
    None = None
    Actors = {"worker", "start", "unload", "basic"}
    PermitKinds = {"window"}
    Plans = {"meter", "window"}
    Full <- MCFull
    Manuals <- MCManuals
    PvPowers <- MCPvPowers
INVARIANTS
    QuietAfterUnload
PROPERTIES
    ServicesEnd
