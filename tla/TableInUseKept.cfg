SPECIFICATION Spec
CONSTANTS
    nElement = 5
    NoKey = NoKey
    NoConn = NoConn
    SchemaRoot = SchemaRoot
    t1 = t1
    t2 = t2
    c1 = c1
    c2 = c2
    Tables <- MCTable
    Conns <- MCConns
    OwnerOf <- MCOwnerOf
    PidOf <- MCPidOf
    Hash <- MCHash
    Cleaner = Cleaner
    Scenes <- MCLong
PROPERTIES
    CommitWaits
