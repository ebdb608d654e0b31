----------------------------- MODULE MCTableLocks -----------------------------
(* Small instances of TableLocks: all tables hash to the last slot,        *)
(* so that the elements form one run that wraps around.                    *)
EXTENDS TableLocks

CONSTANTS t1, t2, c1, c2

MCTable == {t1, t2}
MCConns == {c1, c2}

MCHash == [t \in AllTables |-> nElement - 1]

(* Every connection is a process of its own. *)
MCPidOf == [c \in Conns |-> c]

MCOwnerOf == [c \in Conns |-> c]

(* Transactions of up to two statements; processes that die, with a        *)
(* cleaner; and statements, COMMIT and VACUUM with two tables.             *)
Work == [clean |-> FALSE, die |-> FALSE, stmts |-> 2, tables |-> {t1}]
Die == [clean |-> TRUE, die |-> TRUE, stmts |-> 1, tables |-> {t1}]
Two == [Work EXCEPT !.stmts = 1, !.tables = {t1, t2}]
MCScenes == {Work, Die, Two}
MCLong == {[Work EXCEPT !.stmts = 3]}
MCDie == {[Die EXCEPT !.stmts = 2]}
=============================================================================
