SPECIFICATION StreamSpec
CONSTANTS
    Producers = {p1, p2}
    MaxEvents = 4
    PageLimit = 4
    MaxPolls = 2
INVARIANTS
    DeliveredOnce
    OnlyLateEventsAreMissed
    ReplayIsComplete
CHECK_DEADLOCK FALSE
