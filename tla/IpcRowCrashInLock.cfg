SPECIFICATION Spec
CONSTANTS
    nElement = 4
    NoKey = NoKey
    k1 = k1
    k2 = k2
    k3 = k3
    k4 = k4
    c1 = c1
    c2 = c2
    c3 = c3
    Keys <- MCKeys
    Conns <- MCConns
    Hash <- MCHash
    PidOf <- MCPidOf
    NoConn = NoConn
    Cleaner = Cleaner
    CrashSteps = {"inc"}
INVARIANT
    AnswersAreExact
