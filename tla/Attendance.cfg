SPECIFICATION FairSpec
CONSTANTS
    Employees = {ana}
    Projects = {p}
    Sites = {office}
    Records = {r1, r2}
    Calls = {c1, c2}
    Zones = {1}
    TicksPerDay = 2
    LastTick = 1
    PoolSize = 3
    Circumstances <- MCCircumstances
    FirstIsoDay = 5
    Cutoff = 0
    TicksPerMinute = 2
    DaysPerMonth = 2
    MaxPeriod = 3
    None = None
    Keep = Keep
    Idle = Idle
    Unborn = Unborn
    Gone = Gone
CHECK_DEADLOCK FALSE
INVARIANTS
    AttendanceConsistent
    PagesAgree
PROPERTIES
    RecordsKeepTheirCheckIn
    CallsFinish
