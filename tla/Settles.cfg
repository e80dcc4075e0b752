CONSTANTS
    Event = {e1}
    FanoutEvent = {e1}
    Publisher = {p1, p2}
    Worker = {w1}
    NoEvent = NoEvent
    NoPublisher = NoPublisher
    MaxAttempts = 2
    MaxFaults = 2
    Hand = {h1, h2}
    MaxTries = 2
    MaxMishaps = 4
SPECIFICATION FairSpec
CHECK_DEADLOCK FALSE
PROPERTIES EventsSettle PendingEnds
