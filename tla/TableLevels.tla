------------------------------ MODULE TableLevels ------------------------------
(***************************************************************************)
(* What the table locks promise: every connection has a lock level on each *)
(* table, a level is raised only next to levels of other connections it is *)
(* compatible with, and no step of one connection changes the levels of    *)
(* another one.                                                            *)
(***************************************************************************)
EXTENDS Integers

CONSTANTS Conns, AllTables, SchemaRoot

VARIABLE level

(* May one raise its level on t to  new  while another one has  other ?    *)
(* sqlite_master has one writer and then nobody else.  Nobody gets a table *)
(* that another one has at EXCLSV_LOCK (4), and a delete-all               *)
(* (WRITEEX_LOCK, 3) excludes other writers.                               *)
Compatible(t, new, other) ==
    IF t = SchemaRoot THEN other # 2 /\ ~(new = 2 /\ other = 1)
    ELSE other # 4 /\ ~(new = 3 /\ other >= 2) /\ ~(new = 2 /\ other = 3)

Init == level = [c \in Conns |-> [t \in AllTables |-> 0]]

(* c gets another level on t: a higher one if it is compatible with the    *)
(* levels of all others, a lower one at any time.                          *)
Change(c, t) ==
    /\ level'[c][t] # level[c][t]
    /\ level' = [level EXCEPT ![c][t] = level'[c][t]]
    /\ level'[c][t] \in 0 .. 4
    /\ level'[c][t] > level[c][t] =>
          \A d \in Conns \ {c} : Compatible(t, level'[c][t], level[d][t])

Next == \E c \in Conns, t \in AllTables : Change(c, t)

Spec == Init /\ [][Next]_level
===============================================================================
