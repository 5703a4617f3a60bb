SPECIFICATION Spec
CONSTANTS
    t1 = t1  t2 = t2  x = x  y = y
    None = None
    Tasks = {t1, t2}
    Exes = {x, y}
    MatchSets <- MCMatchSets
    SavedGens = {0, 4}
    MaxEvents = 6
SYMMETRY TaskSymmetry
INVARIANTS TypeOK TablesAgree CacheCurrent
