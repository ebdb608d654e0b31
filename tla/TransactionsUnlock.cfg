CONSTANTS
    c1 = c1
    c2 = c2
    r1 = r1
    r2 = r2
    NoConn = NoConn
    Absent = Absent
    Old = Old
    NoPage = NoPage
    Conns <- MCConns
    Rows <- MCRows
    Initial <- MCInitial
    MaxHist = 5
    Bounds <- MCOverlapping
    Cases <- MCAll
SPECIFICATION Spec
SYMMETRY MCSymmetry
INVARIANT RowsProtected
CHECK_DEADLOCK FALSE
