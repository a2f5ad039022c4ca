CONSTANTS
    Width = 2
    PerMinute = 3
    PerHour = 2
    PerDay = 2
    PerYear = 2
    FirstYear = 2021
    FirstWeekday = 5
    TicksPerDay = 3
    Times <- SomeTimes
    MaxOpen = 1
SPECIFICATION IomSpec
INVARIANTS PrintsAsWished DurationsReadBack DatesParse
