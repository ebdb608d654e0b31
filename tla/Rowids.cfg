CONSTANTS
    c1 = c1
    c2 = c2
    t1 = t1
    t2 = t2
    NoTable = NoTable
    Conns <- MCConns
    Tables <- MCTables
    Initial <- MCInitial
    nElement = 2
    MaxRetry = 1
    MaxRows = 2
    MaxStmts = 1
    MaxRowid = 2
    Explicit = TRUE
SPECIFICATION Spec
SYMMETRY MCSymmetry
INVARIANTS CacheCompact 
PROPERTIES CacheSurvives
