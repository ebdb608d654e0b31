---------------------------- MODULE MCTransactions ----------------------------
(* Two connections and two rows, one of which is in the file at the start. *)
EXTENDS Transactions, TLC

CONSTANTS c1, c2, r1, r2

MCConns == {c1, c2}
MCRows == {r1, r2}
MCInitial == {r1}

(* Three statements and a commit that overlap; and two commits in turn.    *)
Overlapping == [overlap |-> TRUE, stmts |-> 3, vers |-> 1, saves |-> 1]
InTurn == [overlap |-> FALSE, stmts |-> 2, vers |-> 2, saves |-> 0]
MCBounds == {Overlapping, InTurn}
MCOverlapping == {Overlapping}
MCTwoWrites == {[overlap |-> TRUE, stmts |-> 2, vers |-> 2, saves |-> 0]}

MCAll == {"unlock", "clear"}
MCNone == {}

MCSymmetry == Permutations(Conns)
===============================================================================
