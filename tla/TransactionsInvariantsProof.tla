--------------------- MODULE TransactionsInvariantsProof ---------------------
(***************************************************************************)
(* The inductive invariants of TransactionsProof and, for most of them,    *)
(* that a step of a connection keeps them.                                 *)
(***************************************************************************)
EXTENDS TransactionsStepsProof

USE DEF NOT_LOCKED, READ, WRITE, WRITEEX, EXCLSV

------------------------------------------------------------------------------
(* Only what was committed is read *)

Committed(page, ever) == \A r \in Rows : page[r] \in ever[r]

(* What the caches and the file hold has been committed, except for the    *)
(* cache of a connection whose COMMIT has failed, until it is rolled back. *)
CacheReads(ch, p, ever) ==
    /\ p # "abort" /\ ch.page # NoPage => Committed(ch.page, ever)
    /\ p \in {"write", "page"} => Committed(ch.page, ever)
ReadsInv == Committed(file.page, db.ever) /\ \A c \in Conns : CacheReads(cache[c], pc[c], db.ever)

(* What has been committed once stays so. *)
LEMMA EverGrows ==
    ASSUME Types, NEW c \in Conns, Stmt(c) \/ Trans(c)
    PROVE  \/ db' = db
           \/ /\ CopyToShared(c) /\ Changed(c)
              /\ \A r \in Rows : db'.ever[r] = db.ever[r] \cup {Copied(c, db.now)[r]}
<1>1. CASE CopyToShared(c)
    BY <1>1 DEF CopyToShared
<1>2. CASE Stmt(c)
    BY <1>2, StmtQuiet, Zenon DEF Quiet
<1>3. CASE Trans(c) /\ ~CopyToShared(c)
    BY <1>3, Zenon DEF Trans, Rollback, Commit, CopyFails, WriteHeader, WritePage, Savepoint, RollbackTo, Release
<1> QED
    BY <1>1, <1>2, <1>3, Zenon

LEMMA CommittedGrows ==
    ASSUME NEW ever, NEW more, \A r \in Rows : ever[r] \subseteq more[r]
    PROVE  /\ \A page : Committed(page, ever) => Committed(page, more)
           /\ \A ch, p : CacheReads(ch, p, ever) => CacheReads(ch, p, more)
BY Zenon DEF Committed, CacheReads

LEMMA ReadsOwn ==
    ASSUME TypesInv, ReadsInv, NEW c \in Conns, Stmt(c) \/ Trans(c)
    PROVE  CacheReads(cache'[c], pc'[c], db'.ever) /\ Committed(file'.page, db'.ever)
<1>0. /\ Types /\ cache \in [Conns -> CacheRec] /\ pc \in [Conns -> PCs] /\ cache[c] \in CacheRec
      /\ Committed(file.page, db.ever) /\ CacheReads(cache[c], pc[c], db.ever)
    BY LocalTypes, CacheTypes, Zenon DEF TypesInv, ReadsInv, Types
<1>1. ASSUME Quiet(c) PROVE CacheReads(cache'[c], pc'[c], db'.ever) /\ Committed(file'.page, db'.ever)
    BY <1>0, <1>1, CacheTypes DEF CacheReads, Ending, Quiet
<1>2. CASE Rollback(c)
    BY <1>0, <1>2, Zenon DEF CacheReads, PagerRollback, CacheRec, Rollback, Go
<1>3. CASE Commit(c)
    BY <1>0, <1>3, Zenon DEF CacheReads, Commit, Go
<1>4. /\ CommitCache(c) \in CacheRec /\ CommitCache(c).page \in Pages
      /\ CommitCache(c).page \in {file.page, cache[c].page} /\ (cache[c].page = NoPage => CommitCache(c).page = file.page)
    BY <1>0, CommitCacheType, Zenon
<1>5. CASE CopyToShared(c)
  <2>1. CASE Changed(c)
    <3>1. /\ pc[c] = "commit" /\ pc'[c] = "write" /\ file' = file
          /\ cache'[c] = [CommitCache(c) EXCEPT !.page = Copied(c, @)]
      BY <1>0, <1>5, <2>1, Zenon DEF CopyToShared, Go
    <3>3. \A r \in Rows : db'.ever[r] = db.ever[r] \cup {Copied(c, db.now)[r]}
      BY <1>5, <2>1 DEF CopyToShared
    <3>4. db.now \in Pages
      BY <1>0, Zenon DEF Types, Db
    <3>6. ASSUME NEW r \in Rows PROVE Copied(c, CommitCache(c).page)[r] \in db'.ever[r]
      BY <1>0, <1>4, <3>1, <3>3, <3>4, CopiedType DEF Committed, CacheReads
    <3> QED
      BY <1>0, <1>4, <3>1, <3>3, <3>6 DEF CacheReads, Committed, CacheRec
  <2>2. CASE ~Changed(c)
    BY <1>0, <1>5, <2>2, CacheTypes DEF CacheReads, CopyToShared, Go
  <2> QED
    BY <2>1, <2>2, Zenon
<1>6. CASE CopyFails(c)
    BY <1>0, <1>6, Zenon DEF CacheReads, CopyFails, Go
<1>7. CASE WriteHeader(c)
    BY <1>0, <1>7, Zenon DEF CacheReads, Types, CacheRec, WriteHeader, Go
<1>8. CASE WritePage(c)
    BY <1>0, <1>8, Zenon DEF CacheReads, Types, WritePage, Go
<1> QED
    BY <1>0, <1>1, <1>2, <1>3, <1>5, <1>6, <1>7, <1>8, StmtQuiet, SaveQuiet, Zenon DEF Trans

------------------------------------------------------------------------------
(* The rows a transaction has changed are locked *)

(* The rows that transaction t has changed are locked by c. *)
Protects(t, lk, c) == \A r \in t.ins \cup t.del : lk[r] = c
RowsInv == \A c \in Conns : Protects(tx[c], holder, c) /\ Covers(saves[c])

(* A step of c changes no row lock of another connection. *)
LEMMA HoldersKept ==
    ASSUME TypesInv, RowsInv, NEW c \in Conns, Stmt(c) \/ Trans(c), "unlock" \notin Cases
    PROVE  \A d \in Conns \ {c} : \A r \in Rows : holder'[r] = d <=> holder[r] = d
<1> DEFINE OK == \A d \in Conns \ {c} : \A r \in Rows : holder'[r] = d <=> holder[r] = d
<1> SUFFICES OK
    BY Zenon
<1>0. Types /\ holder \in [Rows -> Conns \cup {NoConn}] /\ NoConn \notin Conns
    BY TransConstants, Zenon DEF TypesInv, Types
<1>1. ASSUME holder' = holder PROVE OK
    BY <1>1, Zenon
<1>2. CASE Rollback(c) \/ CopyToShared(c)
    BY <1>0, <1>2, RollbackEffect
<1>3. ASSUME NEW r \in Rows, Insert(c, r, TRUE) \/ Insert(c, r, FALSE) \/ DeleteShared(c, r) PROVE OK
  <2>1. holder[r] \in {c, NoConn} /\ holder' = [holder EXCEPT ![r] = c]
    BY <1>0, <1>3, RowEffect, Zenon
  <2> QED
    BY <1>0, <2>1, Zenon
<1>4. ASSUME NEW r \in Rows, DeleteOwn(c, r) PROVE OK
    BY <1>0, <1>4, OwnEffect DEF RowsInv, Protects
<1>5. CASE UndoStmt(c) \/ \E i : RollbackTo(c, i)
  <2>1. PICK k : RollbackToSave(c, saves[c][k])
    BY <1>5, BackEffect, Zenon
  <2>2. PICK u : /\ u = Undone(c, saves[c][k]) /\ \A r \in u.free : holder[r] = c
                 /\ holder' = [r \in Rows |-> IF r \in u.free THEN NoConn ELSE holder[r]]
    BY <2>1, Zenon DEF RollbackToSave, Special
  <2> QED
    BY <1>0, <2>2
<1>6. CASE \/ TableLockRefused(c) \/ RowRefused(c) \/ ClearRefused(c) \/ CopyFails(c) \/ WriteHeader(c)
           \/ WritePage(c) \/ OpenStmt(c) \/ TableLock(c) \/ OpenCursor(c) \/ ClearTable(c) \/ EndStmt(c)
           \/ Commit(c) \/ Savepoint(c) \/ BeginStmt(c, READ) \/ BeginStmt(c, WRITE) \/ \E i : Release(c, i)
  <2>1. holder' = holder
    BY <1>6, Zenon DEF TableLockRefused, RowRefused, ClearRefused, CopyFails, WriteHeader, WritePage, OpenStmt,
       TableLock, OpenCursor, ClearTable, EndStmt, Commit, Savepoint, BeginStmt, Release
  <2> QED
    BY <1>1, <2>1, Zenon
<1> HIDE DEF OK
<1> QED
    BY <1>2, <1>3, <1>4, <1>5, <1>6, Zenon DEF Stmt, Trans

LEMMA SaveCovers ==
    ASSUME Types, NEW c \in Conns, Protects(tx[c], holder, c)
    PROVE  Save(c, tx[c]).ins \cup Save(c, tx[c]).del \subseteq Save(c, tx[c]).rows
<1> QED
    BY LocalTypes, Zenon DEF Protects, Tx, Save

LEMMA RowsOwn ==
    ASSUME Least,
           TypesInv, RowsInv, NEW c \in Conns, Stmt(c) \/ Trans(c), "unlock" \notin Cases
    PROVE  Protects(tx'[c], holder', c) /\ Covers(saves'[c])
<1> DEFINE OK == Protects(tx'[c], holder', c) /\ Covers(saves'[c])
<1> SUFFICES OK
    BY Zenon
<1>0. /\ Types /\ holder \in [Rows -> Conns \cup {NoConn}] /\ tx[c] \in Tx /\ saves[c] \in Seq(SaveRec)
      /\ Protects(tx[c], holder, c) /\ Covers(saves[c])
    BY LocalTypes, Zenon DEF TypesInv, Types, RowsInv
<1>1. ASSUME tx'[c].ins \cup tx'[c].del \subseteq tx[c].ins \cup tx[c].del, holder' = holder,
             saves'[c] = saves[c]
      PROVE  OK
    BY <1>0, <1>1, Zenon DEF Protects
<1>2. ASSUME NEW p, Moves(c, p), holder' = holder PROVE OK
    BY <1>0, <1>2, Zenon DEF Protects, Moves, Local
<1>3. ASSUME tx'[c].ins = tx[c].ins, tx'[c].del = tx[c].del, holder' = holder,
             saves'[c] = Append(saves[c], Save(c, tx[c]))
      PROVE  OK
    BY <1>0, <1>3, SaveType, SaveCovers, CoversAppend, Zenon DEF Protects
<1>4. ASSUME NEW k \in 0 .. Len(saves[c]), tx'[c] = tx[c], holder' = holder, saves'[c] = SubSeq(saves[c], 1, k)
      PROVE  OK
    BY <1>0, <1>4, CoversCut, Zenon
<1> HIDE DEF OK
<1>5. CASE OpenStmt(c)
    BY <1>0, <1>2, <1>3, <1>5, OpenEffect, Zenon DEF Local, Tx
<1>6. CASE TableLock(c)
    BY <1>0, <1>1, <1>2, <1>6, TableLockEffect, Zenon DEF Local
<1>7. CASE OpenCursor(c)
    BY <1>0, <1>1, <1>2, <1>7, CursorEffect, Zenon DEF Local, Tx
<1>8. CASE ClearTable(c)
    BY <1>0, <1>1, <1>8, ClearEffect, Zenon DEF Local, Cleared
<1>9. ASSUME NEW r \in Rows, Insert(c, r, TRUE) \/ Insert(c, r, FALSE) \/ DeleteShared(c, r) PROVE OK
  <2>1. holder' = [holder EXCEPT ![r] = c] /\ Wrote(tx'[c], tx[c], r) /\ saves'[c] = saves[c]
    BY <1>0, <1>9, RowEffect, Zenon DEF Local
  <2> QED
    BY <1>0, <2>1, Zenon DEF OK, Wrote, Protects, Tx
<1>10. ASSUME NEW r \in Rows, DeleteOwn(c, r) PROVE OK
    BY <1>0, <1>10, OwnEffect DEF OK, Protects, Tx, Local
<1>11. CASE TableLockRefused(c) \/ RowRefused(c) \/ ClearRefused(c) \/ CopyFails(c) \/ WriteHeader(c) \/ WritePage(c)
    BY <1>0, <1>2, <1>11, MovesEffect, Zenon
       DEF TableLockRefused, RowRefused, ClearRefused, CopyFails, WriteHeader, WritePage
<1>12. ASSUME NEW l, BeginStmt(c, l) PROVE OK
    BY <1>0, <1>1, <1>12, BeginEffect, Zenon DEF Local
<1>13. CASE Commit(c)
    BY <1>0, <1>1, <1>2, <1>13, CommitEffect, Zenon DEF Local
<1>14. CASE EndStmt(c)
    BY <1>0, <1>1, <1>4, <1>14, EndEffect DEF Local, Shorter, EndStmt, TypesInv, Frames, InStmt
<1>15. CASE Rollback(c) \/ CopyToShared(c)
    BY <1>0, <1>15, RollbackEffect DEF OK, Protects, Covers, NoTx
<1>16. CASE UndoStmt(c) \/ \E i : RollbackTo(c, i)
  <2>1. PICK k \in 1 .. Len(saves[c]) :
           /\ saves'[c] = SubSeq(saves[c], 1, k - 1) \/ saves'[c] = SubSeq(saves[c], 1, k)
           /\ saves[c][k] \in SaveRec /\ saves[c][k].n \in 0 .. Len(hist[c])
           /\ RollbackToSave(c, saves[c][k])
    BY <1>16, BackEffect, Zenon
  <2>2. tx'[c].ins = saves[c][k].ins /\ tx'[c].del = saves[c][k].del
    BY <1>0, <2>1, BackTypes, Zenon
  <2>3. PICK sp \in SaveRec : sp = saves[c][k] /\ sp.ins \cup sp.del \subseteq sp.rows
    BY <1>0, <2>1, Zenon DEF Covers
  <2>4. PICK u : /\ u = Undone(c, sp) /\ sp.rows \cap u.free = {} /\ \A r \in sp.rows : holder[r] = c
                 /\ holder' = [r \in Rows |-> IF r \in u.free THEN NoConn ELSE holder[r]]
    BY <2>1, <2>3 DEF RollbackToSave, Special
  <2>6. k \in 0 .. Len(saves[c]) /\ k - 1 \in 0 .. Len(saves[c])
    BY <1>0
  <2>7. Covers(saves'[c])
    BY <1>0, <2>1, <2>6, CoversCut, Zenon
  <2> QED
    BY <2>2, <2>3, <2>4, <2>7, Zenon DEF OK, Protects, SaveRec
<1>17. CASE Savepoint(c)
    BY <1>0, <1>3, <1>17, SavepointEffect, Zenon DEF Local
<1>18. ASSUME NEW i, Release(c, i) PROVE OK
    BY <1>0, <1>4, <1>18, ReleaseEffect DEF Local
<1> QED
    BY <1>5, <1>6, <1>7, <1>8, <1>9, <1>10, <1>11, <1>12, <1>13, <1>14, <1>15, <1>16, <1>17, <1>18, Zenon
    DEF Stmt, Trans

------------------------------------------------------------------------------
(* Levels of the table lock *)

LevelOK(l, w, t, h, s, p) ==
    /\ Fits(t.ins, t.del, t.deleteAll, l.level)
    /\ p \in {"run", "rows"} /\ w = WRITE => l.level >= WRITE
    /\ l.level = READ => w = READ /\ p \in {"run", "rows", "commit", "abort"}
    /\ l.level = EXCLSV => p \in {"commit", "abort"}
    /\ p \notin {"commit", "abort"} => SavesOK(s, h, l.level, t.deleteAll, t.root)
    /\ \/ p \in {"commit", "abort"} \/ (p \in {"run", "undo"} /\ w = WRITE)
       \/ l.level >= WRITE /\ t.deleteAll = 0 => t.root = "btree"

(* No other connection writes. *)
Sole(l, t) == l.level = WRITEEX \/ (l.level = EXCLSV /\ t.deleteAll = 1)
LevelsInv ==
    /\ \A c \in Conns : LevelOK(lock[c], want[c], tx[c], hist[c], saves[c], pc[c])
    /\ \A c, d \in Conns : c # d /\ Sole(lock[c], tx[c]) => lock[d].level < WRITE

(* What going back to savepoint k leaves. *)
LEMMA BackLevel ==
    ASSUME Least,
           TypesInv, NEW c \in Conns, LevelOK(lock[c], want[c], tx[c], hist[c], saves[c], pc[c]),
           pc[c] \notin {"commit", "abort"}, NEW k \in 1 .. Len(saves[c]),
           RollbackToSave(c, saves[c][k]), "clear" \notin Cases
    PROVE  /\ lock'[c].level = saves[c][k].level /\ tx'[c].deleteAll = saves[c][k].deleteAll
           /\ \A m \in 0 .. k : SavesOK(SubSeq(saves[c], 1, m), hist'[c], lock'[c].level, tx'[c].deleteAll, tx'[c].root)
           /\ saves[c][k].level >= WRITE /\ saves[c][k].deleteAll = 0 => tx'[c].root = "btree"
           /\ tx'[c].ins = saves[c][k].ins /\ tx'[c].del = saves[c][k].del
           /\ SaveOK(saves[c][k], hist[c], lock[c].level, tx[c].deleteAll, tx[c].root)
           /\ saves[c][k].level \in Levels /\ saves[c][k].deleteAll \in {0, 1}
<1>0. /\ Types /\ Marks(saves[c], hist[c]) /\ lock[c] \in Lock /\ lock[c].level \in Levels /\ tx[c] \in Tx
      /\ tx[c].deleteAll \in {0, 1} /\ hist[c] \in Seq(Event) /\ saves[c] \in Seq(SaveRec)
    BY OwnFields, Zenon DEF TypesInv
<1>1. PICK sp \in SaveRec : sp = saves[c][k] /\ sp.n \in 0 .. Len(hist[c])
    BY <1>0, SaveAt, Zenon
<1>2. PICK u : u = Undone(c, sp)
    BY Zenon
<1>3. Undoes(u, hist[c], sp.n, tx[c].root, tx[c].deleteAll, lock[c].level)
    BY <1>0, <1>1, <1>2, UndoneIs, Zenon
<1>4. ~(sp.deleteAll = 1 /\ u.root = "none")
    BY <1>1, <1>2, Zenon DEF RollbackToSave, Special
<1>5. /\ tx'[c].root = u.root /\ tx'[c].deleteAll = u.deleteAll /\ tx'[c].ins = sp.ins /\ tx'[c].del = sp.del
      /\ lock'[c] = StmtUnlocked([lock[c] EXCEPT !.level = u.level]) /\ hist'[c] = SubSeq(hist[c], 1, sp.n)
    BY <1>0, <1>1, <1>2, BackTypes, Zenon
<1>6. SavesOK(saves[c], hist[c], lock[c].level, tx[c].deleteAll, tx[c].root)
    BY Zenon DEF LevelOK
<1>7. SaveOK(sp, hist[c], lock[c].level, tx[c].deleteAll, tx[c].root)
    BY <1>1, <1>6, Zenon DEF SavesOK
<1>8. u.level = sp.level /\ u.deleteAll = sp.deleteAll /\ (sp.level >= WRITE /\ sp.deleteAll = 0 => u.root = "btree")
    BY SMTT(30), <1>0, <1>1, <1>3, <1>4, <1>7, BackExact
<1>11. ASSUME NEW m \in 0 .. k
       PROVE  SavesOK(SubSeq(saves[c], 1, m), SubSeq(hist[c], 1, sp.n), sp.level, sp.deleteAll, u.root)
    BY <1>0, <1>1, <1>3, <1>4, <1>6, SavesBack, Zenon
<1> QED
    BY <1>0, <1>1, <1>5, <1>7, <1>8, <1>11, SaveFields DEF StmtUnlocked, Lock, SaveOK

LEMMA LevelOwn ==
    ASSUME Least,
           TypesInv, NEW c \in Conns, LevelOK(lock[c], want[c], tx[c], hist[c], saves[c], pc[c]),
           Stmt(c) \/ Trans(c), "clear" \notin Cases
    PROVE  LevelOK(lock'[c], want'[c], tx'[c], hist'[c], saves'[c], pc'[c])
<1> DEFINE OK == LevelOK(lock'[c], want'[c], tx'[c], hist'[c], saves'[c], pc'[c])
<1> SUFFICES OK
    BY Zenon
<1>0. /\ Types /\ Marks(saves[c], hist[c]) /\ lock[c] \in Lock /\ lock[c].level \in Levels /\ tx[c] \in Tx
      /\ tx[c].deleteAll \in {0, 1} /\ hist[c] \in Seq(Event) /\ saves[c] \in Seq(SaveRec)
      /\ want[c] \in NOT_LOCKED .. WRITE /\ pc[c] \in PCs
    BY OwnFields, Zenon DEF TypesInv
<1>a. pc[c] \notin {"commit", "abort"} => SavesOK(saves[c], hist[c], lock[c].level, tx[c].deleteAll, tx[c].root)
    BY Zenon DEF LevelOK
<1>b. pc[c] \notin {"commit", "abort"} =>
         /\ \A r \in Rows : SavesOK(saves[c], Append(hist[c], RowEntry(r)), lock[c].level, tx[c].deleteAll, tx[c].root)
         /\ \A up \in Levels : lock[c].level <= up =>
               SavesOK(saves[c], Append(hist[c], LevelEntry(lock[c].level)), up, tx[c].deleteAll, tx[c].root)
         /\ tx[c].root # "btree" => SavesOK(saves[c], Append(hist[c], NewEntry), lock[c].level, tx[c].deleteAll, "btree")
    BY <1>0, <1>a, SavesAfter, Zenon
<1>c. lock[c].level \in Levels /\ want[c] \in NOT_LOCKED .. WRITE
    BY <1>0, Zenon
<1>d. hist[c] \in Seq(Event) /\ saves[c] \in Seq(SaveRec) /\ Marks(saves[c], hist[c])
    BY <1>0, Zenon
<1>1. CASE TableLockRefused(c) \/ RowRefused(c) \/ ClearRefused(c)
  <2>2. \/ pc[c] = "open" /\ Moves(c, "undo")
        \/ pc[c] \in {"rows", "run"} /\ want[c] = WRITE /\ Moves(c, "undo")
    BY <1>0, <1>1, MovesEffect, Zenon DEF RowRefused, ClearRefused, Writing
  <2> QED
    BY <1>0, <2>2, Zenon DEF Moves, Local, LevelOK, Levels
<1>2. CASE CopyFails(c) \/ WriteHeader(c) \/ WritePage(c)
    BY <1>0, <1>2, MovesEffect, Zenon DEF Moves, Local, LevelOK, Levels
<1>3. ASSUME NEW l, BeginStmt(c, l) PROVE OK
    BY <1>0, <1>3, BeginEffect, ZenonT(30) DEF Local, LevelOK
<1>4. ASSUME pc[c] \in {"begin", "idle"}
      PROVE  SavesOK(Append(saves[c], Save(c, tx[c])), hist[c], lock[c].level, tx[c].deleteAll, tx[c].root)
  <2>1. PICK sp \in SaveRec : sp = Save(c, tx[c])
    BY <1>0, SaveType, Zenon
  <2>2. /\ sp.n = Len(hist[c]) /\ sp.level = lock[c].level /\ sp.deleteAll = tx[c].deleteAll
        /\ sp.ins = tx[c].ins /\ sp.del = tx[c].del
    BY <2>1, Zenon DEF Save
  <2> QED
    BY <1>0, <1>a, <1>4, <2>1, <2>2, AfterSave, SavesMore, Zenon DEF LevelOK
<1>5. CASE OpenStmt(c)
  <2> DEFINE t == [tx[c] EXCEPT !.begun = TRUE]
  <2>1. t.root = tx[c].root /\ t.deleteAll = tx[c].deleteAll /\ t.ins = tx[c].ins /\ t.del = tx[c].del
    BY <1>0, Zenon DEF Tx
  <2> HIDE DEF t
  <2>2. pc[c] = "begin" /\ \/ Local(c, lock[c], want[c], t, hist[c], Append(saves[c], Save(c, tx[c])), "open")
                           \/ Moves(c, "open")
    BY <1>0, <1>5, OpenEffect, Zenon DEF t
  <2>3. CASE Local(c, lock[c], want[c], t, hist[c], Append(saves[c], Save(c, tx[c])), "open")
    BY <1>4, <2>1, <2>2, <2>3, Zenon DEF Local, LevelOK
  <2>4. CASE Moves(c, "open")
    BY <2>2, <2>4, Zenon DEF Moves, Local, LevelOK
  <2> QED
    BY <2>2, <2>3, <2>4, Zenon
<1>6. CASE Savepoint(c)
    BY <1>0, <1>4, <1>6, SavepointEffect, Zenon DEF Local, LevelOK
<1>7. CASE TableLock(c)
  <2>1. pc[c] = "open" /\ lock[c].level # READ /\ lock[c].level # EXCLSV
    BY <1>0, <1>7, TableLockEffect, Zenon DEF LevelOK
  <2>2. CASE lock[c].level >= want[c] /\ Moves(c, "run")
    BY <1>0, <2>1, <2>2, ZenonT(30) DEF Moves, Local, LevelOK
  <2>3. CASE /\ lock[c].level < want[c]
             /\ Local(c, [level |-> want[c], inUse |-> TRUE], want[c], tx[c],
                          Append(hist[c], LevelEntry(lock[c].level)), saves[c], "run")
    BY <1>0, <1>b, <2>1, <2>3 DEF LevelOK, Local, Fits, Levels
  <2> QED
    BY <1>0, <1>7, <2>2, <2>3, TableLockEffect, Zenon
<1>8. CASE OpenCursor(c)
  <2> DEFINE t == [tx[c] EXCEPT !.root = "btree"]
  <2>1. t.root = "btree" /\ t.deleteAll = tx[c].deleteAll /\ t.ins = tx[c].ins /\ t.del = tx[c].del
    BY <1>0, Zenon DEF Tx
  <2> HIDE DEF t
  <2>2. pc[c] = "run"
    BY <1>0, <1>8, CursorEffect, Zenon
  <2>4. CASE tx[c].root # "btree" /\ Local(c, lock[c], want[c], t, Append(hist[c], NewEntry), saves[c], "rows")
    BY <1>b, <2>1, <2>2, <2>4, Zenon DEF Local, LevelOK
  <2>5. CASE ~(tx[c].root # "btree" /\ tx[c].begun) /\ Moves(c, "rows")
    BY <1>0, <2>2, <2>5, Zenon DEF Moves, Local, LevelOK, TypesInv, Frames, InStmt
  <2> QED
    BY <1>0, <1>8, <2>4, <2>5, CursorEffect, Zenon DEF t
<1>9. CASE ClearTable(c)
  <2>1. /\ pc[c] = "run" /\ want[c] = WRITE /\ lock[c].level # EXCLSV
    BY <1>0, <1>9, ClearEffect, ZenonT(30) DEF LevelOK
  <2>2. PICK g \in Seq(Event), l \in Lock :
           /\ \/ lock[c].level >= WRITEEX /\ g = hist[c] /\ l = lock[c]
              \/ /\ lock[c].level < WRITEEX /\ g = Append(hist[c], LevelEntry(lock[c].level))
                 /\ l = [level |-> WRITEEX, inUse |-> TRUE]
           /\ \/ Local(c, l, want[c], tx[c], g, saves[c], "undo")
              \/ /\ Cleared(tx'[c], tx[c])
                 /\ Local(c, l, want[c], tx'[c], Append(g, ClearEntry(tx[c].deleteAll)), saves[c], "over")
    BY <1>0, <1>9, ClearEffect, ZenonT(30)
  <2>3. l.level = WRITEEX /\ l.level \in Levels
    BY <1>c, <2>1, <2>2 DEF Levels
  <2>4. SavesOK(saves[c], g, l.level, tx[c].deleteAll, tx[c].root)
    <3>1. CASE lock[c].level >= WRITEEX /\ g = hist[c] /\ l = lock[c]
      BY <1>a, <2>1, <3>1, Zenon
    <3>2. CASE /\ lock[c].level < WRITEEX /\ g = Append(hist[c], LevelEntry(lock[c].level))
               /\ l = [level |-> WRITEEX, inUse |-> TRUE]
      BY <1>b, <1>c, <2>1, <2>3, <3>2 DEF Levels
    <3> QED
      BY <2>2, <3>1, <3>2, Zenon
  <2>5. Marks(saves[c], g)
    <3>1. LevelEntry(lock[c].level) \in Event
      BY <1>c, EntryTypes, Zenon DEF Levels
    <3>2. Len(hist[c]) <= Len(g)
      BY <1>d, <2>2, <3>1, Appended
    <3> QED
      BY <1>d, <2>2, <3>2, MarksLonger, Zenon
  <2>6. CASE Local(c, l, want[c], tx[c], g, saves[c], "undo")
    BY <2>1, <2>3, <2>4, <2>6 DEF Local, LevelOK, Fits
  <2>7. CASE /\ Cleared(tx'[c], tx[c])
             /\ Local(c, l, want[c], tx'[c], Append(g, ClearEntry(tx[c].deleteAll)), saves[c], "over")
    <3>1. /\ tx'[c].deleteAll = 1 /\ (tx[c].root = "btree" => tx'[c].root = "btree")
      BY <2>7, Zenon DEF Cleared
    <3>2. SavesOK(saves[c], Append(g, ClearEntry(tx[c].deleteAll)), l.level, 1, tx'[c].root)
      BY <1>0, <2>3, <2>4, <2>5, <3>1, SavesAfter, Zenon
    <3> QED
      BY <2>3, <2>7, <3>1, <3>2 DEF Local, LevelOK, Fits
  <2> QED
    BY <2>2, <2>6, <2>7, Zenon
<1>10. ASSUME NEW r \in Rows, Insert(c, r, TRUE) \/ Insert(c, r, FALSE) \/ DeleteShared(c, r) PROVE OK
  <2>1. pc[c] = "rows" /\ want[c] = WRITE /\ lock[c].level >= WRITE
    BY <1>0, <1>10, RowEffect, Zenon DEF LevelOK
  <2>2. Wrote(tx'[c], tx[c], r)
    BY <1>0, <1>10, RowEffect, Zenon
  <2>3. PICK h : /\ Local(c, lock[c], want[c], tx'[c], h, saves[c], "rows")
                 /\ h = hist[c] \/ h = Append(hist[c], RowEntry(r))
    BY <1>0, <1>10, RowEffect, Zenon
  <2> QED
    BY <1>a, <1>b, <2>1, <2>2, <2>3, Zenon DEF Local, LevelOK, Wrote, Fits
<1>11. ASSUME NEW r \in Rows, DeleteOwn(c, r) PROVE OK
    BY <1>0, <1>11, OwnEffect, Zenon DEF Local, LevelOK, Fits
<1>12. CASE EndStmt(c)
  <2>1. /\ pc[c] \in {"rows", "over"} \/ (pc[c] = "undo" /\ want[c] = READ)
        /\ lock'[c] = StmtUnlocked(lock[c]) /\ want'[c] = NOT_LOCKED /\ tx'[c] = tx[c] /\ hist'[c] = hist[c]
        /\ pc'[c] = "idle" /\ saves'[c] = IF want[c] = WRITE THEN Shorter(saves[c]) ELSE saves[c]
    BY <1>0, <1>12, EndEffect, Zenon DEF Local
  <2>2. lock'[c].level = IF lock[c].level = READ THEN NOT_LOCKED ELSE lock[c].level
    BY <2>1 DEF StmtUnlocked
  <2>3. SavesOK(saves'[c], hist[c], lock[c].level, tx[c].deleteAll, tx[c].root)
    BY <1>0, <1>a, <2>1, SavesCut DEF Shorter, TypesInv, Frames, InStmt
  <2>4. CASE lock[c].level # READ
    <3>1. lock'[c].level = lock[c].level
      BY <2>2, <2>4, Zenon
    <3>2. READ # WRITE
      OBVIOUS
    <3> QED
      BY <2>1, <2>3, <2>4, <3>1, <3>2, Zenon DEF LevelOK
  <2>5. CASE lock[c].level = READ
    BY <1>0, <2>1, <2>2, <2>3, <2>5, SavesUnlocked DEF LevelOK, Fits
  <2> QED
    BY <2>4, <2>5, Zenon
<1>13. CASE Commit(c)
  <2>1. pc[c] \in {"idle", "rows", "over"} /\ pc'[c] \in {"abort", "commit"} /\ want'[c] = want[c] /\ tx'[c] = tx[c]
    BY <1>0, <1>13, CommitEffect, ZenonT(30) DEF Local, Moves
  <2>2. lock'[c] = lock[c] \/ lock'[c].level = EXCLSV
    <3>1. lock'[c] = lock[c] \/ lock'[c] = [level |-> EXCLSV, inUse |-> TRUE]
      BY <1>0, <1>13, CommitEffect, ZenonT(30) DEF Local, Moves
    <3> QED
      BY <3>1
  <2> QED
    BY <2>1, <2>2 DEF LevelOK, Fits
<1>14. CASE Rollback(c) \/ CopyToShared(c)
  <2>1. /\ lock'[c] = Unlocked /\ want'[c] = NOT_LOCKED /\ tx'[c] = NoTx /\ hist'[c] = <<>>
        /\ saves'[c] = <<>> /\ pc'[c] \in {"idle", "write"}
    BY <1>0, <1>14, RollbackEffect, Zenon
  <2>2. SavesOK(<<>>, <<>>, Unlocked.level, NoTx.deleteAll, NoTx.root)
    BY DEF SavesOK, Rising
  <2>3. Unlocked.level = NOT_LOCKED /\ NoTx.ins = {} /\ NoTx.del = {} /\ NoTx.deleteAll = 0
    BY DEF Unlocked, NoTx
  <2> QED
    BY <2>1, <2>2, <2>3 DEF LevelOK, Fits
<1>15. CASE UndoStmt(c) \/ \E i : RollbackTo(c, i)
  <2>1. PICK k \in 1 .. Len(saves[c]) :
           /\ saves'[c] = SubSeq(saves[c], 1, k - 1) \/ saves'[c] = SubSeq(saves[c], 1, k)
           /\ pc[c] \in {"undo", "idle"} /\ pc'[c] = "idle"
           /\ RollbackToSave(c, saves[c][k])
    BY <1>15, BackEffect, Zenon
  <2>2. PICK sp : sp = saves[c][k]
    BY Zenon
  <2>3. /\ lock'[c].level = sp.level /\ tx'[c].deleteAll = sp.deleteAll
        /\ \A m \in 0 .. k : SavesOK(SubSeq(saves[c], 1, m), hist'[c], lock'[c].level, tx'[c].deleteAll, tx'[c].root)
        /\ sp.level >= WRITE /\ sp.deleteAll = 0 => tx'[c].root = "btree"
        /\ tx'[c].ins = sp.ins /\ tx'[c].del = sp.del
        /\ SaveOK(sp, hist[c], lock[c].level, tx[c].deleteAll, tx[c].root)
        /\ sp.level \in Levels
    BY <2>1, <2>2, BackLevel, Zenon
  <2>4. SavesOK(saves'[c], hist'[c], lock'[c].level, tx'[c].deleteAll, tx'[c].root)
    <3>1. k \in 0 .. k /\ k - 1 \in 0 .. k
      BY <1>d
    <3> QED
      BY <2>1, <2>3, <3>1, Zenon
  <2> QED
    BY <1>0, <2>1, <2>3, <2>4 DEF LevelOK, SaveOK, Levels
<1>16. ASSUME NEW i, Release(c, i) PROVE OK
  <2>1. /\ pc[c] = "idle" /\ i \in 1 .. Len(saves[c])
        /\ Local(c, lock[c], want[c], tx[c], hist[c], SubSeq(saves[c], 1, i - 1), "idle")
    BY <1>0, <1>16, ReleaseEffect, Zenon
  <2> QED
    BY <1>0, <1>a, <2>1, SavesCut DEF Local, LevelOK
<1> HIDE DEF OK
<1> QED
    BY <1>1, <1>2, <1>3, <1>5, <1>6, <1>7, <1>8, <1>9, <1>10, <1>11, <1>12, <1>13, <1>14, <1>15, <1>16, Zenon
    DEF Stmt, Trans

LEMMA SoleKept ==
    ASSUME Least,
           TypesInv, LevelsInv, NEW c \in Conns, Stmt(c) \/ Trans(c), "clear" \notin Cases, NEW d \in Conns \ {c}
    PROVE  /\ Sole(lock'[c], tx'[c]) => lock[d].level < WRITE
           /\ Sole(lock[d], tx[d]) => lock'[c].level < WRITE
<1> DEFINE OK == /\ Sole(lock'[c], tx'[c]) => lock[d].level < WRITE
                 /\ Sole(lock[d], tx[d]) => lock'[c].level < WRITE
<1> SUFFICES OK
    BY Zenon
<1>0. /\ Types /\ lock[c].level \in Levels /\ lock[d].level \in Levels /\ tx[c] \in Tx /\ want[c] \in NOT_LOCKED .. WRITE
      /\ LevelOK(lock[c], want[c], tx[c], hist[c], saves[c], pc[c])
      /\ Sole(lock[c], tx[c]) => lock[d].level < WRITE
      /\ Sole(lock[d], tx[d]) => lock[c].level < WRITE
    BY OwnFields, Zenon DEF TypesInv, LevelsInv
<1>a. /\ lock[c].level \in Levels /\ lock[d].level \in Levels
      /\ Sole(lock[c], tx[c]) => lock[d].level < WRITE
      /\ Sole(lock[d], tx[d]) => lock[c].level < WRITE
    BY <1>0, Zenon
<1>1. ASSUME lock'[c].level \in Levels, lock'[c].level <= lock[c].level,
             Sole(lock'[c], tx'[c]) => Sole(lock[c], tx[c])
      PROVE  OK
    BY <1>a, <1>1 DEF Levels
<1>2. ASSUME lock'[c] = lock[c], tx'[c].deleteAll = tx[c].deleteAll PROVE OK
    BY <1>0, <1>2, Zenon DEF Sole
<1>3. ASSUME NEW p, Moves(c, p) PROVE OK
    BY <1>2, <1>3, Zenon DEF Moves, Local
<1>4. ASSUME NEW l, BeginStmt(c, l) PROVE OK
    BY <1>0, <1>2, <1>4, BeginEffect, Zenon DEF Local
<1>5. CASE OpenStmt(c) \/ OpenCursor(c)
  <2>1. lock'[c] = lock[c] /\ tx'[c] \in {tx[c], [tx[c] EXCEPT !.begun = TRUE], [tx[c] EXCEPT !.root = "btree"]}
    BY <1>0, <1>5, OpenEffect, CursorEffect, Zenon DEF Local, Moves
  <2> QED
    BY <1>0, <1>2, <2>1, Zenon DEF Tx
<1>6. CASE TableLock(c)
  <2>2. CASE ~Refused(c, want[c], FALSE) /\ lock'[c] = [level |-> want[c], inUse |-> TRUE]
    BY <1>0, <2>2 DEF Sole, Refused
  <2> QED
    BY <1>0, <1>3, <1>6, <2>2, TableLockEffect, Zenon DEF Local
<1>7. CASE ClearTable(c)
  <2>3. CASE lock'[c] = lock[c] /\ lock[c].level >= WRITEEX
    BY <1>0, <1>7, <2>3, ClearEffect, ZenonT(30) DEF Sole, LevelOK, Levels
  <2>4. CASE ~Refused(c, WRITEEX, FALSE) /\ lock'[c] = [level |-> WRITEEX, inUse |-> TRUE]
    BY <1>0, <2>4 DEF Sole, Refused, Levels
  <2> QED
    BY <1>0, <1>7, <2>3, <2>4, ClearEffect, Zenon DEF Local
<1>8. ASSUME NEW r \in Rows, Insert(c, r, TRUE) \/ Insert(c, r, FALSE) \/ DeleteShared(c, r) \/ DeleteOwn(c, r)
      PROVE  OK
    BY <1>0, <1>2, <1>8, OwnEffect, RowEffect, Zenon DEF Local, Wrote
<1>9. CASE EndStmt(c)
  <2>1. lock'[c] = StmtUnlocked(lock[c]) /\ tx'[c] = tx[c]
    BY <1>0, <1>9, EndEffect, Zenon DEF Local
  <2> QED
    BY <1>0, <1>1, <2>1 DEF Sole, Levels, StmtUnlocked
<1>10. CASE Commit(c)
  <2>1. /\ pc[c] \in {"idle", "rows", "over"} /\ tx'[c] = tx[c]
        /\ \/ lock'[c] = lock[c]
           \/ IsTableModified(c) /\ lock'[c] = [level |-> EXCLSV, inUse |-> TRUE]
    BY <1>0, <1>10, CommitEffect, ZenonT(30) DEF Local, Moves
  <2>2. CASE IsTableModified(c) /\ lock'[c] = [level |-> EXCLSV, inUse |-> TRUE]
    <3>1. /\ lock'[c].level = EXCLSV /\ tx'[c].deleteAll = tx[c].deleteAll
      BY <2>1, <2>2
    <3>2. tx[c].ins \cup tx[c].del # {}
      BY <2>2, Zenon DEF IsTableModified
    <3>3. lock[c].level # EXCLSV /\ lock[c].level >= WRITE /\ (tx[c].deleteAll = 1 => lock[c].level >= WRITEEX)
      BY <1>0, <2>1, <3>2, Zenon DEF LevelOK, Fits
    <3> QED
      BY <1>a, <3>1, <3>3 DEF Sole, Levels
  <2> QED
    BY <1>2, <2>1, <2>2, Zenon
<1>11. CASE Rollback(c) \/ CopyToShared(c)
  <2>1. lock'[c] = Unlocked
    BY <1>0, <1>11, RollbackEffect, Zenon
  <2> QED
    BY <2>1 DEF Sole, Unlocked
<1>12. CASE UndoStmt(c) \/ \E i : RollbackTo(c, i)
  <2>1. PICK k \in 1 .. Len(saves[c]) : pc[c] \in {"undo", "idle"} /\ RollbackToSave(c, saves[c][k])
    BY <1>12, BackEffect, Zenon
  <2>2. /\ lock'[c].level = saves[c][k].level /\ tx'[c].deleteAll = saves[c][k].deleteAll
        /\ SaveOK(saves[c][k], hist[c], lock[c].level, tx[c].deleteAll, tx[c].root)
        /\ saves[c][k].level \in Levels /\ saves[c][k].deleteAll \in {0, 1}
    BY <1>0, <2>1, BackLevel, Zenon
  <2>3. /\ lock'[c].level \in Levels /\ lock'[c].level <= lock[c].level
        /\ tx'[c].deleteAll \in {0, 1} /\ tx'[c].deleteAll <= tx[c].deleteAll
        /\ Fits(saves[c][k].ins, saves[c][k].del, tx'[c].deleteAll, lock'[c].level)
        /\ lock[c].level # EXCLSV
    BY <1>0, <2>1, <2>2, Zenon DEF SaveOK, LevelOK
  <2> QED
    BY <1>0, <1>1, <2>3 DEF Sole, Levels, Fits
<1>13. CASE Savepoint(c) \/ \E i : Release(c, i)
    BY <1>0, <1>2, <1>13, ReleaseEffect, SavepointEffect, Zenon DEF Local
<1>14. CASE TableLockRefused(c) \/ RowRefused(c) \/ ClearRefused(c) \/ CopyFails(c) \/ WriteHeader(c) \/ WritePage(c)
    BY <1>0, <1>3, <1>14, MovesEffect, Zenon
<1> HIDE DEF OK
<1> QED
    BY <1>4, <1>5, <1>6, <1>7, <1>8, <1>9, <1>10, <1>11, <1>12, <1>13, <1>14, Zenon DEF Stmt, Trans

------------------------------------------------------------------------------
(* What is committed stays *)

Idle(c) == \A d \in Conns \ {c} : pc[d] = "idle"

(* Statements and commits take turns. *)
TurnsInv == \A c, d \in Conns : c # d => pc[c] = "idle" \/ pc[d] = "idle"

(* The cache of a connection at place p, where `busy' says that somebody   *)
(* has still to write the page.                                            *)
CacheOK(ch, p, f, now, busy) ==
    /\ p \in {"write", "page"} => ch.page = now
    /\ p \notin {"write", "page", "abort"} /\ ch.vers = f.vers /\ ch.page # NoPage => busy \/ ch.page = f.page
    /\ p \in {"run", "rows"} => ch.vers = f.vers
    /\ p = "rows" => ch.page = f.page
PagesInv ==
    /\ (\A c \in Conns : pc[c] \notin {"write", "page"}) => file.page = db.now
    /\ \A c \in Conns : /\ CacheOK(cache[c], pc[c], file, db.now, \E d \in Conns : pc[d] = "page")
                        /\ pc[c] = "page" => \A d \in Conns \ {c} : cache[d].vers < file.vers
StaysInv == ~bound.overlap => TurnsInv /\ PagesInv /\ \A c \in Conns : Deletes(tx[c], saves[c], db.now)

(* A step of c that starts or goes on with something is taken alone, and a *)
(* connection that has nothing to do keeps its cache.                      *)
LEMMA StepsAlone ==
    ASSUME Types, TurnsInv, ~bound.overlap, NEW c \in Conns, Stmt(c) \/ Trans(c)
    PROVE  /\ Idle(c) \/ (pc[c] = "idle" /\ pc'[c] = "idle")
           /\ pc[c] = "idle" => cache'[c] = cache[c] /\ file' = file /\ db' = db
<1> DEFINE OK == /\ Idle(c) \/ (pc[c] = "idle" /\ pc'[c] = "idle")
                 /\ pc[c] = "idle" => cache'[c] = cache[c] /\ file' = file /\ db' = db
<1> SUFFICES OK
    BY Zenon
<1>1. CASE pc[c] # "idle"
    BY <1>1, Zenon DEF TurnsInv, Idle
<1>2. CASE pc[c] = "idle"
  <2>1. ASSUME NEW l, BeginStmt(c, l) PROVE OK
    BY <1>2, <2>1, Zenon DEF BeginStmt, Turn, Idle
  <2>2. CASE Commit(c)
    BY <1>2, <2>2, Zenon DEF Commit, Turn, Idle
  <2>3. CASE Rollback(c)
    BY <1>2, <2>3, LocalTypes, Zenon DEF Rollback, Go, Types
  <2>4. CASE Savepoint(c) \/ \E i : RollbackTo(c, i) \/ Release(c, i)
    BY <1>2, <2>4, Zenon DEF Savepoint, RollbackTo, Release
  <2>5. /\ ~OpenStmt(c) /\ ~TableLock(c) /\ ~TableLockRefused(c) /\ ~OpenCursor(c) /\ ~RowRefused(c)
        /\ ~ClearTable(c) /\ ~ClearRefused(c) /\ ~EndStmt(c) /\ ~UndoStmt(c)
    BY <1>2, Zenon DEF OpenStmt, TableLock, TableLockRefused, OpenCursor, RowRefused, Writing, ClearTable, ClearRefused,
       EndStmt, UndoStmt
  <2> HIDE DEF OK
  <2> QED
    BY <1>2, <2>1, <2>2, <2>3, <2>4, <2>5, Zenon
       DEF Stmt, Trans, Insert, DeleteShared, DeleteOwn, Writing, CopyToShared, CopyFails, WriteHeader, WritePage
<1> QED
    BY <1>1, <1>2, Zenon

LEMMA TurnsKept ==
    ASSUME Types, TurnsInv, ~bound.overlap, NEW c \in Conns, Stmt(c) \/ Trans(c)
    PROVE  TurnsInv'
<1> QED
    BY OthersSame, StepsAlone DEF TurnsInv, Idle, Others, Same

(* The places where c goes on with its cursor. *)
LEMMA GoesOn ==
    ASSUME Types, NEW c \in Conns, Stmt(c), pc'[c] \in {"run", "rows"}
    PROVE  \/ TableLock(c)
           \/ OpenCursor(c)
           \/ pc[c] = "rows" /\ pc'[c] = "rows" /\ cache'[c] = cache[c]
<1>1. ASSUME NEW r \in Rows, Insert(c, r, TRUE) \/ Insert(c, r, FALSE) \/ DeleteShared(c, r) \/ DeleteOwn(c, r)
      PROVE  pc[c] = "rows" /\ pc' = pc /\ cache' = cache
    BY <1>1, Zenon DEF Insert, DeleteShared, DeleteOwn, Writing
<1> QED
    BY <1>1, ClearEffect, LocalTypes, Zenon
       DEF Stmt, BeginStmt, Go, OpenStmt, TableLockRefused, RowRefused, ClearRefused, EndStmt, UndoStmt, Local

LEMMA PagesKept ==
    ASSUME TypesInv, TurnsInv, PagesInv, ~bound.overlap, NEW c \in Conns, Stmt(c) \/ Trans(c)
    PROVE  PagesInv'
<1> DEFINE Busy == \E d \in Conns : pc[d] = "page"
<1>0. /\ Types /\ cache \in [Conns -> CacheRec] /\ pc \in [Conns -> PCs] /\ cache[c] \in CacheRec /\ file.vers \in Nat
      /\ cache[c].vers \in Nat /\ \A d \in Conns : cache[d].vers <= file.vers
      /\ CacheOK(cache[c], pc[c], file, db.now, Busy)
    BY LocalTypes, CacheTypes, Zenon DEF TypesInv, Types, Counters, PagesInv, CacheRec
<1>a. \A d \in Conns \ {c} : cache'[d] = cache[d] /\ pc'[d] = pc[d]
    BY <1>0, OthersSame, Zenon DEF Others, Same
<1>b. /\ Idle(c) \/ (pc[c] = "idle" /\ pc'[c] = "idle")
      /\ pc[c] = "idle" => cache'[c] = cache[c] /\ file' = file /\ db' = db
    BY <1>0, StepsAlone, Zenon
<1>c. Idle(c) => (Busy <=> pc[c] = "page") /\ (pc[c] \notin {"write", "page"} => file.page = db.now)
    BY Zenon DEF Idle, PagesInv
<1> HIDE DEF Busy
<1>1. ASSUME file' = file, db' = db, pc[c] \notin {"write", "page"}, pc'[c] \notin {"write", "page"},
             CacheOK(cache'[c], pc'[c], file, db.now, Busy), cache'[c].vers = cache[c].vers \/ Idle(c)
      PROVE  PagesInv'
  <2>4. ASSUME NEW d \in Conns PROVE CacheOK(cache'[d], pc'[d], file, db.now, Busy)
    BY <1>1, <1>a, Zenon DEF PagesInv, Busy
  <2>5. ASSUME NEW d \in Conns, pc[d] = "page", NEW e \in Conns \ {d} PROVE cache'[e].vers < file.vers
    BY <1>a, <1>1, <2>5, Zenon DEF PagesInv, Idle
  <2> QED
    BY <1>a, <1>1, <2>4, <2>5, Zenon DEF PagesInv, Busy
<1>2. ASSUME Quiet(c)
      PROVE  /\ file' = file /\ db' = db /\ pc[c] \notin {"write", "page", "abort"} /\ pc'[c] \notin {"write", "page", "abort"}
             /\ cache'[c].vers = file.vers /\ cache'[c].page # NoPage => Busy \/ cache'[c].page = file.page
             /\ cache'[c].vers = cache[c].vers \/ Idle(c)
    BY <1>0, <1>b, <1>2, CacheTypes, ZenonT(30) DEF Quiet, CacheOK, Ending
<1>3. ASSUME Quiet(c), pc'[c] \notin {"run", "rows"} PROVE PagesInv'
    BY <1>1, <1>2, <1>3, Zenon DEF CacheOK
<1>4. CASE TableLock(c)
  <2>2. CacheReset(c).vers = file.vers
    BY <1>0, CacheTypes
  <2> QED
    BY <1>0, <1>1, <1>2, <1>4, <2>2, StmtQuiet, Zenon DEF CacheOK, TableLock, Go, Stmt
<1>5. CASE OpenCursor(c)
    BY <1>0, <1>b, <1>c, <1>1, <1>2, <1>5, CacheTypes, StmtQuiet, Zenon DEF CacheOK, OpenCursor, Go, Stmt
<1>6. CASE Stmt(c)
  <2>1. Quiet(c)
    BY <1>0, <1>6, StmtQuiet, Zenon
  <2>2. CASE pc[c] = "rows" /\ pc'[c] = "rows" /\ cache'[c] = cache[c]
    BY <1>0, <1>1, <1>2, <2>1, <2>2, Zenon DEF CacheOK
  <2> QED
    BY <1>0, <1>3, <1>4, <1>5, <1>6, <2>1, <2>2, GoesOn, Zenon
<1>7. CASE Savepoint(c) \/ \E i : RollbackTo(c, i) \/ Release(c, i)
    BY <1>0, <1>3, <1>7, SaveQuiet, Zenon DEF Savepoint, RollbackTo, Release
<1>8. CASE Rollback(c)
    BY <1>0, <1>1, <1>8, Zenon DEF CacheOK, PagerRollback, CacheRec, Rollback, Go
<1>9. CASE Commit(c)
    BY <1>0, <1>1, <1>9, CommitEffect, Zenon DEF CacheOK, Commit
<1>10. ASSUME pc[c] = "commit" PROVE /\ Idle(c) /\ ~Busy /\ file.page = db.now /\ CommitCache(c).page = db.now
                                     /\ CommitCache(c).vers = file.vers
    BY <1>0, <1>b, <1>c, <1>10, CacheTypes, CommitCacheType DEF CacheOK
<1>11. CASE CopyFails(c)
    BY <1>0, <1>1, <1>10, <1>11, Zenon DEF CacheOK, CopyFails, Go
<1>12. CASE CopyToShared(c) /\ ~Changed(c)
    BY <1>0, <1>1, <1>10, <1>12, CacheTypes, Zenon DEF CacheOK, CopyToShared, Go
<1>13. CASE CopyToShared(c) /\ Changed(c)
  <2>1. /\ pc[c] = "commit" /\ pc'[c] = "write" /\ file' = file /\ db'.now = Copied(c, db.now)
        /\ cache'[c] = [CommitCache(c) EXCEPT !.page = Copied(c, @)]
    BY <1>0, <1>13 DEF CopyToShared, Go
  <2>3. Idle(c) /\ ~Busy
    BY <1>10, <2>1, Zenon
  <2>4. \A d \in Conns \ {c} : pc'[d] = "idle" /\ cache'[d] = cache[d] /\ CacheOK(cache[d], "idle", file, db.now, Busy)
    BY <1>a, <2>3, Zenon DEF Idle, PagesInv, Busy
  <2>5. \A d \in Conns : CacheOK(cache'[d], pc'[d], file', db'.now, \E e \in Conns : pc'[e] = "page")
    BY <1>0, <1>10, <2>1, <2>3, <2>4, CommitCacheType DEF CacheOK, CacheRec
  <2> QED
    BY <2>1, <2>4, <2>5, Zenon DEF PagesInv
<1>14. CASE WriteHeader(c)
  <2>1. /\ pc[c] = "write" /\ pc'[c] = "page" /\ file' = [file EXCEPT !.vers = @ + 1] /\ db' = db
        /\ cache' = [cache EXCEPT ![c].vers = file.vers + 1]
    BY <1>0, <1>14, Zenon DEF WriteHeader, Go
  <2>2. file'.vers = file.vers + 1 /\ cache'[c].page = cache[c].page
    BY <1>0, <2>1, Zenon DEF CacheRec, Types
  <2> QED
    BY <1>0, <1>a, <1>b, <2>1, <2>2 DEF PagesInv, CacheOK, Idle, CacheRec
<1>15. CASE WritePage(c)
  <2>1. /\ pc[c] = "page" /\ pc'[c] = "idle" /\ file' = [file EXCEPT !.page = cache[c].page] /\ db' = db
        /\ cache' = cache
    BY <1>0, <1>15, Zenon DEF WritePage, Go
  <2>2. file'.vers = file.vers /\ file'.page = cache[c].page
    BY <1>0, <2>1, Zenon DEF Types
  <2>3. \A d \in Conns \ {c} : pc'[d] = "idle" /\ cache[d].vers < file.vers
    BY <1>a, <1>b, <2>1, Zenon DEF Idle, PagesInv
  <2>5. ASSUME NEW d \in Conns PROVE CacheOK(cache'[d], pc'[d], file', db'.now, \E e \in Conns : pc'[e] = "page")
    BY <1>0, <2>1, <2>2, <2>3 DEF CacheOK, CacheRec
  <2> QED
    BY <1>0, <2>1, <2>2, <2>3, <2>5, Zenon DEF PagesInv, CacheOK
<1> QED
    BY <1>6, <1>7, <1>8, <1>9, <1>11, <1>12, <1>13, <1>14, <1>15, Zenon DEF Trans
=============================================================================
