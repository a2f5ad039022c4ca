CONSTANTS
    v1 = v1  v2 = v2
    Values = {v1, v2}
    NoValue = NoValue
    MovedFrom = MovedFrom
    Kinds = {"signal", "bindable"}
    SubjectCount = 2
    Slots <- SomeSlots
    MaxSlots = 3
    MaxEvents = 1
SPECIFICATION SignalSpec
INVARIANTS SlotsGetTheEvent BindersAgree
