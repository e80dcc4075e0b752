CONSTANTS
    Event = {e1, e2}
    FanoutEvent = {e2}
    Publisher = {p1, p2}
    Worker = {w1, w2}
    NoEvent = NoEvent
    NoPublisher = NoPublisher
    MaxAttempts = 2
    MaxFaults = 2
SPECIFICATION Spec
CHECK_DEADLOCK FALSE
SYMMETRY Symmetry
CONSTRAINT OneInserted
INVARIANTS AtomicEffect
PROPERTIES ExactlyOnceEffect ProcessedFinal
