SPECIFICATION FairSpec
CONSTANTS
    a = a  b = b  x = x  y = y  i = i  j = j
    None = None
    Names = {a, b}
    Dests = {x}
    Patterns <- MCPatterns
    MatchSets <- MCMatchSets
    Ids = {i}
    Ttls = {0, 3}
    MaxTtls = {2}
    RingCap = 1
    MaxTime = 2
    MaxEvents = 3
INVARIANTS TypeOK HeapHashAgree ExpiryArmed NoOrphanRoute RecordsMatched RoutesCurrent
PROPERTY ExpiresEventually
CHECK_DEADLOCK FALSE
