SPECIFICATION FairSpec
CONSTANTS
    c1 = c1
    c2 = c2
    Keys = {1, 2}
    Rowids = {1, 2}
    NoRowid = 0
    NoConn = NoConn
    Conns <- MCConns
    HashOf <- MCHash
    Initial <- MCInitial
    Scenes <- MCScenes
INVARIANTS OneElement KeyHasOneHolder  NoSpareLock TableThere OneMeta
PROPERTIES OpenTerminates
