------------------------------- MODULE RowLocks -------------------------------
(***************************************************************************)
(* What the row-lock table promises its callers: a lock on a row is held   *)
(* by at most one connection, it is granted only while the row is free,    *)
(* and it goes from one connection to another only through being free.     *)
(***************************************************************************)
CONSTANTS Keys,     \* the lockable rows, each a <<iTable, rowid>>
          Conns,    \* the connections (process id and Btree pointer)
          NoConn

VARIABLE holder

Init == holder = [k \in Keys |-> NoConn]

Acquire(c, k) ==
    /\ holder[k] = NoConn
    /\ holder' = [holder EXCEPT ![k] = c]

Release(k) == holder' = [holder EXCEPT ![k] = NoConn]

Next == \E k \in Keys : Release(k) \/ \E c \in Conns : Acquire(c, k)

Spec == Init /\ [][Next]_holder
=============================================================================
