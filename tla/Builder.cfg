CONSTANTS
    FirstYear = 2021
    FirstWeekday = 5
    TicksPerDay = 3
    o1 = o1  o2 = o2  f1 = f1  f2 = f2  p1 = p1  p2 = p2
    Objects = {o1, o2}
    Classes = {"timer_t", "ticker_t", "alarm_t"}
    Functions = {f1, f2}
    FirstObject = o1
    NoFunction = NoFunction
    Points = {40}
    Spans = {1}
    Texts <- DatedTexts
    Patterns = {p1, p2}
    NoPattern = NoPattern
    NextOf <- NextOfPattern
    Start = 43
    MaxTime = 44
    MaxCalls = 5
SPECIFICATION Spec
PROPERTIES AsOrdered
SYMMETRY Symmetry
