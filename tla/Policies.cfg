SPECIFICATION PoliciesSpec
CONSTANTS
    Hours = 3
    Months = {1, 2}
    Empty = Empty
    LastPoll = 5
    GracePolls = 2
    MinUnpriced = 1
    CoveragePercent = 60
    NoAmount = NoAmount
    Entries <- MCEntries
    MaxEntries = 3
    SlotHours = 1
    CycleEnd = 3
    LastMoment = 2
    MaxWanted = 2
    Missing = Missing
    LastMinute = 3
    ChargeLevels = {0, 1}
    Configurations = {"summer", "winter"}
    Devices = {1, 2}
    NoTime = NoTime
    Hour = 12
    Horizons = {2}
    Powers = {1, 2}
    Discharges = {1, 2}
    Amounts = {0, 1, 2}
    Offers <- MCOffers
    MaxOffers = 2
    Watts <- MCWatts
    References = {0, 50, 12500}
    ScaleRegisters <- MCScales
    Unwritten = Unwritten
    DayLength = 2
    LastInstant = 3
    DailyStarts = {0, 1}
    MarkReadback = {"ok"}
    LastStep = 4
    MaxAge = 2
    DayTicks = 3
    Confirmations = 2
    FixedPrices = {2}
    DayPrices <- MCDayPrices
    FeedIn = 1
    MaxHistory = 2
    NoValue = NoValue
    MaxCounted = 2
    MaxLoads = 3
    MaxEnergyFaults = 2
    Unset = Unset
INVARIANTS
    PoliciesTypeOK
    WindowsAreApart
    GraceIsExact
    PlanIsBest
    SetpointIsTrue
PROPERTIES
    AutomationsAgree
    BalanceIsTrue
    SlotsAreRight
    BridgeIsKept
    DailyChargeIsOwed
    CountersAreKept
