------------------------------- MODULE MCRowids -------------------------------
(* Two connections, and one or two tables that are empty at the start. *)
EXTENDS Rowids, TLC

CONSTANTS c1, c2, t1, t2

MCConns == {c1, c2}
MCTables == {t1, t2}
MCTable == {t1}
MCInitial == [t \in Tables |-> {}]

MCSymmetry == Permutations(Conns) \cup Permutations(Tables)
===============================================================================
