SPECIFICATION Spec
CONSTANTS
    Lifetime = 24
    Period = 6
    Delay = 5
    Misses = 2
INVARIANT
    KeyNeverLapses
