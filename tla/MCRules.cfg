SPECIFICATION MCSpec
CONSTANTS
    Keys = {"note", "t1", "t2", "t3"}
    Knowledge = {"note"}
    Readers = {"r"}
    ListLimit = 2
    PageLimit = 1
    MaxWrites = 3
    MayFail = TRUE
    DatedKeys = {1, 2}
    Area = {2}
    Zones <- MCZones
    DayLen = 2
    Horizon = 6
    Whens <- MCWhens
    Patches <- MCPatches
    RemindDays = 1
    RemindDaysHard = 2
    RemindDaysMax = 3
    ThisWeekDays = 1
    BlockCap = 1
    Keep = Keep
    None = None
    Garbage = Garbage
    Incidents = {1, 2}
    TaskKeys = {3, 5}
    Notes = {4}
    Filings <- MCFilings
    Moves <- MCMoves
    BoardWrites = 5
    McpKeys = {"note", "inc-a", "task-a"}
    Calls <- MCCalls
    Doors <- MCDoors
    Headers <- MCHeaders
    MaxBatch = 2
CHECK_DEADLOCK FALSE
INVARIANTS RemindersHold GetIsCurrent ListingIsSettled ViewsAgree ToolsAnswer
PROPERTIES LateStaysLate StampsStand ChangesAreNamed
