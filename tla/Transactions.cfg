CONSTANTS
    c1 = c1
    c2 = c2
    r1 = r1
    r2 = r2
    NoConn = NoConn
    Absent = Absent
    Old = Old
    NoPage = NoPage
    Conns <- MCConns
    Rows <- MCRows
    Initial <- MCInitial
    MaxHist = 4
    Bounds <- MCBounds
    Cases <- MCNone
SPECIFICATION Spec
SYMMETRY MCSymmetry
INVARIANTS TypeOK RowsProtected NoDirtyRead ClearIsAlone CommitsStay
PROPERTIES SavepointExact
