----------------------------- MODULE MCUniqueKeys -----------------------------
(* Two connections, two keys and two rowids, one row committed at the      *)
(* start.  A lookup by key hashes to another bucket than the record.       *)
(* Scenes:                                                                 *)
(*   Plain  two statements each, in turn;                                  *)
(*   Batch  one statement each with two rows, overlapping;                 *)
(*   Saves  c1 sets a savepoint;                                           *)
(*   Race   statements overlap;                                            *)
(*   Hash   the list becomes a hash table with its second element;         *)
(*   Opens  processes open the database, and die.                          *)
EXTENDS UniqueKeys, TLC

CONSTANTS c1, c2

MCConns == {c1, c2}
MCHash == [x \in Keys \X (Rowids \cup {NoRowid}) |-> IF x[2] = NoRowid THEN x[1] ELSE x[1] + x[2]]
MCInitial == {<<1, 1>>}
Plain == [overlap |-> FALSE, opens |-> FALSE, dies |-> FALSE, saves |-> {},
          stmts |-> [c \in Conns |-> 2], rows |-> 1, rehash |-> 10]
Fewer == c1 :> 2 @@ c2 :> 1
One == [c \in Conns |-> 1]

Batch == [Plain EXCEPT !.overlap = TRUE, !.stmts = One, !.rows = 2]
Saves == [Plain EXCEPT !.saves = {c1}, !.stmts = Fewer]
Race == [Plain EXCEPT !.overlap = TRUE, !.stmts = Fewer]
Hash == [Plain EXCEPT !.rehash = 2]
Opens == [Plain EXCEPT !.overlap = TRUE, !.opens = TRUE, !.dies = TRUE, !.stmts = One]
MCScenes == {Plain, Batch, Saves, Race, Hash, Opens}
===============================================================================
