SPECIFICATION Spec
CONSTANTS
    a = a  b = b  x = x  y = y  i = i  j = j
    None = None
    Names = {a, b}
    Dests = {x}
    Patterns <- MCPatterns
    MatchSets <- AllRedirect
    Ids = {i}
    Ttls = {1, 2}
    MaxTtls = {2}
    RingCap = 2
    MaxTime = 2
    MaxEvents = 3
INVARIANT RecordsRouted
CHECK_DEADLOCK FALSE
