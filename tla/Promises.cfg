SPECIFICATION PromisesSpec
CONSTANTS
    None = None
    Interval = 2
    TicksPerDay = 2
    Limits <- MCLimits
    Socs <- MCSocs
    MaxTime = 8
    MaxChanges = 2
    MaxIoFaults = 1
    MaxBooked = 2
    MaxStarts = 2
    MaxCrashes = 1
    MaxFaults = 2
    HysteresisCycles = 2
    Deciders = {"poll", "worker"}
INVARIANTS
    PromisesTypeOK
    SettingsAreSafe
PROPERTIES
    OverrideIsBounded
    ScheduleIsSteady
    OverdueIsCalibrated
    KeepsItsPromise
    SettingsArrive
    
    BalanceReachesDisk
    
    PauseFollows
