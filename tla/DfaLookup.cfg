SPECIFICATION Spec
CONSTANTS
    Lists <- MCLists
    NStates = 2
    Stride = 2
    FinMin = 4
    Uids = {1, 2}
INVARIANTS MatchedExactly NamesItsMatch VerdictOfMatch
CHECK_DEADLOCK FALSE
