\* Alarms that keep to the calendar, through short months, a leap day and two ends of years.
CONSTANTS
    FirstYear = 2021
    FirstWeekday = 5
    TicksPerDay = 2
    Jobs <- DependableJobs
    Starts <- DependableStarts
    MaxTime = 2400
    MaxLag = 1
SPECIFICATION Spec
INVARIANTS RingsOnItsDay AgreesWithTests
PROPERTIES OncePerPeriod FirstOfItsDays
