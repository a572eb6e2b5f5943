SPECIFICATION ClocksSpec
CONSTANTS
    Day = 3
    LastTick = 3
    Settings <- MCSettings
    Needed = 2
    Readback = {"ok"}
    Horizon = 2
    MaxHours = 2
    LastHour = 4
    Needs <- MCNeeds
    Unknown = Unknown
INVARIANTS
    ClocksTypeOK
PROPERTIES
    WindowKeepsItsOwn
    
