SPECIFICATION Spec
CONSTANTS
    None = None
    Actors = {"poll", "worker", "start", "stop"}
    PermitKinds = {"price"}
    Plans = {"pv", "price"}
    Full <- MCFull
    Manuals <- MCManuals
    PvPowers <- MCPvPowers
INVARIANTS
    TypeOK
    OwnedSetpointMode
    WriterRepeatsDevice
PROPERTIES
    SequenceNotTorn
    StopTellsTheTruth
