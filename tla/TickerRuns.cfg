SPECIFICATION TickersSpec
CONSTANTS
    a = a
    i1 = i1
    i2 = i2
    p1 = p1
    j1 = j1
    W = W
    NoId = NoId
    Global = Global
    Unchecked = Unchecked
    Bad = Bad
    Same = Same
    Ticker = Ticker
    NoMinute = NoMinute
    Ids = {i1, i2}
    Scopes = {Global, a}
    Levels = {0, 3}
    Haltors = {}
    Resolvers = {p1}
    Maint = {}
    Internal = {W}
    Children <- Flat
    MaxDepth = 1
    CanFail = FALSE
    MaxHalts = 2
    MaxCrashes = 1
    WatchdogLevel = 3
    MaxStalls = 2
    Jobs = {j1}
    Periods = {1, 2}
    Callers = {1}
    Buffer = 1
    MaxTime = 2
    MaxTroubles = 1
    MonthDays <- MonthDaysDef
    LeapMonth = 2
    WeekDays = 2
    DayHours = 2
    HourMinutes = 3
    Schedules <- SchedulesDef
    Afters <- AftersDef
    LastYear = 10
INVARIANTS
    OneWatchdogHalt
    SlotOnce
    NoMatchSkipped
PROPERTIES
    FailClosed
    WatchdogHeals
    SlotServed
    DueIsServed
CHECK_DEADLOCK FALSE
