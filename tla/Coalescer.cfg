\* Two keys and events that pass through, one browser.
SPECIFICATION FairSpec
CONSTANTS
    Keys = {k1, k2}
    Discrete = Discrete
    Browsers = {b1}
    MaxEvents = 4
INVARIANTS
    NeverStranded
    NothingForgotten
PROPERTIES
    KeepsPromise
    LastIsShown
CHECK_DEADLOCK FALSE
