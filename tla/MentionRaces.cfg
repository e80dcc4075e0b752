CONSTANTS
    Users = 1
    Handlers = {w1, w2}
    MaxEdits = 2
    MaxClock = 5
    Hand = {h1, h2}
    MaxTries = 2
    MaxMishaps = 4
SPECIFICATION LifeSpec
CHECK_DEADLOCK FALSE
SYMMETRY LifeSymmetry
INVARIANTS MentionsConverge
PROPERTIES OnlyCurrentMentions OutcomeFinal
