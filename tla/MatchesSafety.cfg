SPECIFICATION Spec
CONSTANTS
    c1 = c1  c2 = c2  p = p  bad = bad  never = never
    None = None
    Match <- MCMatch
    WellFormed <- MCWellFormed
    Matching <- MCMatching
    Limit = 2
    Clients = {c1, c2}
    uid_of <- MCUids
    MaxCalls = 4
INVARIANTS TypeOK CountExact ListCompiles GenerationNames
PROPERTIES OthersUntouched
CHECK_DEADLOCK FALSE
