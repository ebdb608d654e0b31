----------------------- MODULE TransactionsStepsProof ------------------------
(***************************************************************************)
(* Lemmas for TransactionsProof about single steps: the types are kept,    *)
(* the other connections keep what they have, and what each step does to   *)
(* the part of the state that is the connection's own.                     *)
(***************************************************************************)
EXTENDS TransactionsHistoryProof

USE DEF NOT_LOCKED, READ, WRITE, WRITEEX, EXCLSV

------------------------------------------------------------------------------
(* Types *)

CacheRec == [vers : Nat, page : Pages \cup {NoPage}]
Db == [now : Pages, ever : [Rows -> SUBSET Vals]]
Types ==
    /\ bound \in [overlap : BOOLEAN, stmts : Nat, vers : Nat, saves : Nat]
    /\ file \in [vers : Nat, page : Pages]
    /\ cache \in [Conns -> CacheRec]
    /\ reserved \in Conns \cup {NoConn}
    /\ holder \in [Rows -> Conns \cup {NoConn}]
    /\ lock \in [Conns -> Lock]
    /\ want \in [Conns -> NOT_LOCKED .. WRITE]
    /\ tx \in [Conns -> Tx]
    /\ hist \in [Conns -> Seq(Event)]
    /\ saves \in [Conns -> Seq(SaveRec)]
    /\ pc \in [Conns -> {"idle", "begin", "open", "run", "rows", "over", "undo", "commit", "write",
                         "page", "abort"}]
    /\ nStmt \in [Conns -> Nat]
    /\ db \in Db
Ending == {"commit", "abort", "write", "page"}
InStmt == {"open", "run", "rows", "over", "undo"}

(* The change counters, and who commits. *)
Counters ==
    /\ file.vers <= bound.vers
    /\ \A c \in Conns :
          /\ cache[c].vers <= file.vers
          /\ pc[c] \in Ending <=> reserved = c
          /\ pc[c] \in {"commit", "abort", "write"} => file.vers < bound.vers
          /\ pc[c] \in {"write", "page"} => cache[c].page \in Pages

(* A statement that writes has a savepoint of its own. *)
Frames(w, t, s, p) == p \in InStmt /\ w = WRITE => Len(s) > 0 /\ t.begun
TypesInv ==
    /\ Types
    /\ Counters
    /\ \A c \in Conns : Frames(want[c], tx[c], saves[c], pc[c]) /\ Marks(saves[c], hist[c])

(* A step of c leaves what the others have. *)
Same(d) ==
    /\ cache'[d] = cache[d] /\ lock'[d] = lock[d] /\ want'[d] = want[d] /\ tx'[d] = tx[d]
    /\ hist'[d] = hist[d] /\ saves'[d] = saves[d] /\ pc'[d] = pc[d]
Others(c) == \A d \in Conns \ {c} : Same(d)

LEMMA OthersSame == ASSUME Types, NEW c \in Conns, Stmt(c) \/ Trans(c) PROVE Others(c)
<1> USE DEF Types, Others, Same, inTx, Go
<1>1. ASSUME NEW l, BeginStmt(c, l) PROVE Others(c)
    BY <1>1, Zenon DEF BeginStmt
<1>2. CASE OpenStmt(c)
    BY <1>2, Zenon DEF OpenStmt
<1>3. CASE TableLock(c)
    BY <1>3, Zenon DEF TableLock, Granted
<1>4. CASE TableLockRefused(c) \/ RowRefused(c) \/ ClearRefused(c)
    BY <1>4, Zenon DEF TableLockRefused, RowRefused, ClearRefused
<1>5. CASE OpenCursor(c)
    BY <1>5, Zenon DEF OpenCursor
<1>6. CASE ClearTable(c)
    BY SMTT(30), <1>6 DEF ClearTable, Granted
<1>7. CASE EndStmt(c)
    BY <1>7, Zenon DEF EndStmt
<1>8. CASE UndoStmt(c)
    BY <1>8 DEF UndoStmt, RollbackToSave
<1>9. ASSUME NEW r \in Rows, NEW look, Insert(c, r, look) PROVE Others(c)
    BY <1>9, Zenon DEF Insert, LockRecord
<1>10. ASSUME NEW r \in Rows, DeleteShared(c, r) \/ DeleteOwn(c, r) PROVE Others(c)
    BY <1>10, Zenon DEF DeleteShared, DeleteOwn, LockRecord
<1>11. CASE Rollback(c)
    BY <1>11, Zenon DEF Rollback, TransRollback
<1>12. CASE Commit(c)
    BY <1>12, Zenon DEF Commit, Granted
<1>13. CASE CopyToShared(c)
    BY <1>13 DEF CopyToShared, TransRollback
<1>14. CASE CopyFails(c) \/ WriteHeader(c) \/ WritePage(c) \/ Savepoint(c)
    BY <1>14 DEF CopyFails, WriteHeader, WritePage, Savepoint
<1>15. ASSUME NEW i, RollbackTo(c, i) PROVE Others(c)
    BY <1>15 DEF RollbackTo, RollbackToSave
<1>16. ASSUME NEW i, Release(c, i) PROVE Others(c)
    BY <1>16, Zenon DEF Release
<1> HIDE DEF Types, Others, Same, inTx, Go
<1> QED
    BY <1>1, <1>2, <1>3, <1>4, <1>5, <1>6, <1>7, <1>8, <1>9, <1>10, <1>11, <1>12, <1>13, <1>14,
       <1>15, <1>16, Zenon DEF Stmt, Trans

LEMMA CacheTypes ==
    ASSUME Types, NEW c \in Conns
    PROVE  /\ cache[c] \in CacheRec /\ file.vers \in Nat /\ file.page \in Pages
           /\ CacheReset(c) \in CacheRec
           /\ CacheReset(c).vers = IF cache[c].vers < file.vers THEN file.vers ELSE cache[c].vers
           /\ CacheReset(c).page = IF cache[c].vers < file.vers THEN NoPage ELSE cache[c].page
           /\ \A ch \in CacheRec : /\ Loaded(ch) \in CacheRec /\ Loaded(ch).vers = ch.vers
                                   /\ Loaded(ch).page = IF ch.page = NoPage THEN file.page ELSE ch.page
                                   /\ Loaded(ch).page \in Pages
<1>1. cache[c] \in CacheRec /\ file.vers \in Nat /\ file.page \in Pages
    BY Zenon DEF Types
<1>3. ASSUME NEW ch \in CacheRec
      PROVE  /\ Loaded(ch) \in CacheRec /\ Loaded(ch).vers = ch.vers
             /\ Loaded(ch).page = IF ch.page = NoPage THEN file.page ELSE ch.page
             /\ Loaded(ch).page \in Pages
    BY <1>1, Zenon DEF Loaded, CacheRec
<1> QED
    BY <1>1, <1>3, Zenon DEF CacheReset, NeedReset, Reloaded, CacheRec

LEMMA CopiedType ==
    ASSUME Types, NEW c \in Conns, NEW page \in Pages
    PROVE  /\ Copied(c, page) \in Pages
           /\ \A r \in Rows : Copied(c, page)[r] =
                 IF r \in tx[c].ins THEN c
                 ELSE IF tx[c].deleteAll = 1 \/ r \in tx[c].del THEN Absent ELSE page[r]
BY Zenon DEF Copied, Pages, Vals

LEMMA CommitCacheType ==
    ASSUME Types, NEW c \in Conns
    PROVE  /\ CommitCache(c) \in CacheRec /\ CommitCache(c).vers = CacheReset(c).vers
           /\ CommitCache(c).page \in Pages
           /\ CommitCache(c).page =
                 IF cache[c].vers < file.vers \/ cache[c].page = NoPage THEN file.page ELSE cache[c].page
BY CacheTypes DEF CommitCache

LEMMA SaveType ==
    ASSUME Types, NEW c \in Conns
    PROVE  /\ Save(c, tx[c]) \in SaveRec /\ Save(c, tx[c]).n = Len(hist[c])
<1> QED
    BY DEF Save, SaveRec, Tx, Lock, Types

LEMMA LockEntryType ==
    ASSUME Types, NEW c \in Conns, NEW l \in NOT_LOCKED .. EXCLSV
    PROVE  /\ hist[c] \o LockEntry(c, l) \in Seq(Event)
           /\ \/ Enough(c, l) /\ hist[c] \o LockEntry(c, l) = hist[c]
              \/ /\ ~Enough(c, l)
                 /\ hist[c] \o LockEntry(c, l) = Append(hist[c], LevelEntry(lock[c].level))
<1>1. hist[c] \in Seq(Event) /\ lock[c] \in Lock
    BY Zenon DEF Types
<1>3. /\ hist[c] \o <<>> = hist[c]
      /\ \A e \in Event : hist[c] \o <<e>> = Append(hist[c], e) /\ Append(hist[c], e) \in Seq(Event)
    BY <1>1, Appended
<1>4. CASE Enough(c, l)
    BY <1>1, <1>3, <1>4, Zenon DEF LockEntry
<1>5. CASE ~Enough(c, l)
    BY <1>1, <1>3, <1>5, EntryTypes, Zenon DEF LockEntry, LevelEntry, Lock
<1> QED
    BY <1>4, <1>5, Zenon

LEMMA StmtTypes ==
    ASSUME TypesInv, NEW c \in Conns, Stmt(c), ~UndoStmt(c), UNCHANGED bound
    PROVE  Types'
<1>0. Types /\ tx[c] \in Tx /\ hist[c] \in Seq(Event) /\ lock[c] \in Lock /\ saves[c] \in Seq(SaveRec)
    BY Zenon DEF TypesInv, Types
<1>a. tx \in [Conns -> Tx] /\ hist \in [Conns -> Seq(Event)] /\ saves \in [Conns -> Seq(SaveRec)]
    BY <1>0, Zenon DEF Types
<1>1. ASSUME NEW l \in {READ, WRITE}, BeginStmt(c, l) PROVE Types'
  <2>1. /\ nStmt' = [nStmt EXCEPT ![c] = @ + 1] /\ want' = [want EXCEPT ![c] = l]
        /\ pc' = [pc EXCEPT ![c] = "begin"]
        /\ UNCHANGED <<file, cache, reserved, holder, lock, tx, hist, saves, db>>
    BY <1>1, Zenon DEF BeginStmt, Go, inTx
  <2>2. nStmt' \in [Conns -> Nat] /\ want' \in [Conns -> NOT_LOCKED .. WRITE]
    BY SMTT(30), <1>0, <2>1 DEF Types
  <2> QED
    BY <1>0, <2>1, <2>2, Zenon DEF Types
<1>2. CASE OpenStmt(c)
  <2>2. saves' \in [Conns -> Seq(SaveRec)]
    <3>1. Append(saves[c], Save(c, tx[c])) \in Seq(SaveRec)
      BY <1>0, SaveType, Appended, Zenon
    <3> QED
      BY <1>a, <1>2, <3>1, Zenon DEF OpenStmt
  <2>3. tx' \in [Conns -> Tx]
    <3>2. [tx[c] EXCEPT !.begun = TRUE] \in Tx
      BY <1>0, Zenon DEF Tx
    <3> QED
      BY <1>a, <1>2, <3>2, Zenon DEF OpenStmt
  <2> QED
    BY <1>0, <1>2, <2>2, <2>3, CacheTypes, Zenon DEF OpenStmt, Types, Go
<1>3. CASE TableLock(c)
  <2>1. want[c] \in NOT_LOCKED .. EXCLSV
    BY <1>0 DEF Types
  <2> QED
    BY <1>0, <1>3, <2>1, CacheTypes, LockEntryType, Zenon DEF TableLock, Types, Go, Granted, Lock
<1>4. CASE TableLockRefused(c) \/ RowRefused(c) \/ ClearRefused(c)
    BY <1>0, <1>4, ZenonT(30) DEF TableLockRefused, RowRefused, ClearRefused, Types, Go, inTx
<1>5. CASE OpenCursor(c)
  <2>2. hist' \in [Conns -> Seq(Event)]
    <3>1. Append(hist[c], NewEntry) \in Seq(Event)
      BY <1>0, EntryTypes, Appended, Zenon
    <3> QED
      BY <1>a, <1>5, <3>1, Zenon DEF OpenCursor, NewEntry
  <2>3. tx' \in [Conns -> Tx]
    <3>2. [tx[c] EXCEPT !.root = "btree"] \in Tx
      BY <1>0, Zenon DEF Tx
    <3> QED
      BY <1>a, <1>5, <3>2, Zenon DEF OpenCursor
  <2> QED
    BY <1>0, <1>5, <2>2, <2>3, CacheTypes, Zenon DEF OpenCursor, Types, Go
<1>6. CASE ClearTable(c)
  <2>1. hist[c] \o LockEntry(c, WRITEEX) \in Seq(Event)
    BY <1>0, LockEntryType
  <2>2. hist[c] \o LockEntry(c, WRITEEX) \o <<ClearEntry(tx[c].deleteAll)>> \in Seq(Event)
    BY <1>0, <2>1, Appended, EntryTypes DEF Tx
  <2>3. hist' \in [Conns -> Seq(Event)]
    BY <1>a, <1>6, <2>1, <2>2, ZenonT(30) DEF ClearTable, ClearEntry
  <2>4. lock' \in [Conns -> Lock]
    BY <1>0, <1>6 DEF ClearTable, Granted, Types, Lock
  <2>6. tx' \in [Conns -> Tx]
    <3> DEFINE root == IF tx[c].root = "none" THEN "flag" ELSE tx[c].root
               t == [root |-> root, deleteAll |-> 1, ins |-> {}, del |-> tx[c].del, begun |-> tx[c].begun]
    <3>3. t \in Tx
      BY <1>0, Zenon DEF Tx
    <3>4. tx' = tx \/ tx' = [tx EXCEPT ![c] = t]
      BY <1>a, <1>6 DEF Tx, ClearTable
    <3> HIDE DEF t
    <3> QED
      BY <1>a, <3>3, <3>4, Zenon
  <2> QED
    BY <1>0, <1>6, <2>3, <2>4, <2>6, CacheTypes, Zenon DEF ClearTable, Types, Go
<1>7. CASE EndStmt(c)
  <2>1. lock' \in [Conns -> Lock]
    BY <1>0, <1>7 DEF EndStmt, StmtUnlocked, Types, Lock
  <2>2. saves' \in [Conns -> Seq(SaveRec)]
    <3>1. want[c] = WRITE => SubSeq(saves[c], 1, Len(saves[c]) - 1) \in Seq(SaveRec)
      BY <1>0, <1>7, Cut DEF EndStmt, TypesInv, Frames, InStmt
    <3> QED
      BY <1>0, <1>7, <3>1, Zenon DEF EndStmt, Types
  <2> QED
    BY SMTT(30), <1>0, <1>7, <2>1, <2>2 DEF EndStmt, Types, Go
<1>8. ASSUME NEW r \in Rows, LockRecord(c, r) PROVE holder' \in [Rows -> Conns \cup {NoConn}] /\ hist' \in [Conns -> Seq(Event)]
    BY <1>0, <1>8, Appended, EntryTypes, Zenon DEF LockRecord, RowEntry, Types
<1>9. ASSUME NEW r \in Rows, NEW look \in BOOLEAN, Insert(c, r, look) PROVE Types'
  <2>1. tx' \in [Conns -> Tx]
    BY <1>0, <1>9, ZenonT(30) DEF Insert, RowsIn, Types, Tx
  <2> QED
    BY <1>0, <1>8, <1>9, <2>1, Zenon DEF Insert, Types
<1>10. ASSUME NEW r \in Rows, DeleteShared(c, r) PROVE Types'
  <2>1. tx' \in [Conns -> Tx]
    BY <1>0, <1>10, ZenonT(30) DEF DeleteShared, Types, Tx
  <2> QED
    BY <1>0, <1>8, <1>10, <2>1, Zenon DEF DeleteShared, Types
<1>11. ASSUME NEW r \in Rows, DeleteOwn(c, r) PROVE Types'
    BY <1>0, <1>11, Zenon DEF DeleteOwn, Types, Tx
<1> QED
    BY <1>1, <1>2, <1>3, <1>4, <1>5, <1>6, <1>7, <1>9, <1>10, <1>11, Zenon DEF Stmt

(* Going back to a savepoint keeps the types. *)
LEMMA BackTypes ==
    ASSUME Least,
           Types, NEW c \in Conns, NEW sp \in SaveRec, sp.n \in 0 .. Len(hist[c]), RollbackToSave(c, sp)
    PROVE  /\ holder' \in [Rows -> Conns \cup {NoConn}]
           /\ tx'[c].root = Undone(c, sp).root /\ tx'[c].deleteAll = Undone(c, sp).deleteAll
           /\ tx'[c].ins = sp.ins /\ tx'[c].del = sp.del /\ tx'[c].begun = tx[c].begun
           /\ tx' \in [Conns -> Tx]
           /\ lock'[c] = StmtUnlocked([lock[c] EXCEPT !.level = Undone(c, sp).level])
           /\ lock' \in [Conns -> Lock]
           /\ hist'[c] = SubSeq(hist[c], 1, sp.n)
           /\ hist' \in [Conns -> Seq(Event)]
<1>1. tx \in [Conns -> Tx] /\ lock \in [Conns -> Lock] /\ hist \in [Conns -> Seq(Event)]
    BY Zenon DEF Types
<1>3. PICK u \in Result : u = Undone(c, sp)
    BY <1>1, UndoneIs, Zenon DEF Undoes
<1>4. /\ holder' = [r \in Rows |-> IF r \in u.free THEN NoConn ELSE holder[r]]
      /\ tx' = [tx EXCEPT ![c] = [tx[c] EXCEPT !.root = u.root, !.deleteAll = u.deleteAll,
                                               !.ins = sp.ins, !.del = sp.del]]
      /\ lock' = [lock EXCEPT ![c] = StmtUnlocked([@ EXCEPT !.level = u.level])]
      /\ hist' = [hist EXCEPT ![c] = SubSeq(hist[c], 1, sp.n)]
    BY <1>3, Zenon DEF RollbackToSave, KeptHistory
<1> DEFINE t == [tx[c] EXCEPT !.root = u.root, !.deleteAll = u.deleteAll, !.ins = sp.ins, !.del = sp.del]
<1>6. /\ tx' \in [Conns -> Tx] /\ tx'[c].root = u.root /\ tx'[c].deleteAll = u.deleteAll
      /\ tx'[c].ins = sp.ins /\ tx'[c].del = sp.del /\ tx'[c].begun = tx[c].begun
  <2>2. PICK x \in Tx, a \in {"none", "flag", "btree"}, b \in {0, 1}, i \in SUBSET Rows, d \in SUBSET Rows :
            x = tx[c] /\ a = u.root /\ b = u.deleteAll /\ i = sp.ins /\ d = sp.del
    BY <1>1, Zenon DEF Result, SaveRec
  <2>4. t \in Tx
    BY <2>2, Zenon DEF Tx
  <2>5. t.root = u.root /\ t.deleteAll = u.deleteAll /\ t.ins = sp.ins /\ t.del = sp.del /\ t.begun = tx[c].begun
    BY <1>1, Zenon DEF Tx
  <2>6. tx' = [tx EXCEPT ![c] = t]
    BY <1>4, Zenon
  <2> HIDE DEF t
  <2> QED
    BY <1>1, <2>4, <2>5, <2>6, Zenon
<1>7. lock' \in [Conns -> Lock]
    BY <1>1, <1>4 DEF Lock, Result, StmtUnlocked
<1> QED
    BY <1>1, <1>3, <1>4, <1>6, <1>7, Cut, Zenon DEF Types

LEMMA TransTypes ==
    ASSUME Least, TypesInv, NEW c \in Conns, Trans(c) \/ UndoStmt(c), UNCHANGED bound
    PROVE  Types'
<1>0. Types /\ tx[c] \in Tx /\ hist[c] \in Seq(Event) /\ lock[c] \in Lock /\ saves[c] \in Seq(SaveRec)
    BY Zenon DEF TypesInv, Types
<1>b. \A i \in 1 .. Len(saves[c]) : saves[c][i] \in SaveRec /\ saves[c][i].n \in 0 .. Len(hist[c])
    BY <1>0, SavesAre, MarksBack, Zenon DEF TypesInv
<1>1. ASSUME TransRollback(c)
      PROVE  /\ tx' \in [Conns -> Tx] /\ hist' \in [Conns -> Seq(Event)] /\ saves' \in [Conns -> Seq(SaveRec)]
             /\ holder' \in [Rows -> Conns \cup {NoConn}] /\ lock' \in [Conns -> Lock]
             /\ want' \in [Conns -> NOT_LOCKED .. WRITE] /\ nStmt' \in [Conns -> Nat]
  <2>1. NoTx \in Tx /\ Unlocked \in Lock /\ <<>> \in Seq(Event) /\ <<>> \in Seq(SaveRec)
    BY DEF NoTx, Tx, Unlocked, Lock
  <2> QED
    BY <1>0, <1>1, <2>1 DEF TransRollback, Types
<1>2. CASE Rollback(c)
    BY <1>0, <1>1, <1>2, Zenon DEF Rollback, Types, Go, PagerRollback, CacheRec
<1>3. CASE Commit(c)
  <2>1. lock' \in [Conns -> Lock]
    <3>2. [level |-> EXCLSV, inUse |-> TRUE] \in Lock
      BY DEF Lock
    <3> QED
      BY <1>0, <1>3, <3>2, ZenonT(30) DEF Types, Commit, Granted
  <2> QED
    BY <1>0, <1>3, <2>1, Zenon DEF Commit, Types, Go, inTx
<1>4. [CommitCache(c) EXCEPT !.page = Copied(c, @)] \in CacheRec /\ Copied(c, CommitCache(c).page) \in Pages
    BY <1>0, CommitCacheType, CopiedType, Zenon DEF CacheRec
<1>5. CASE CopyToShared(c)
  <2>1. cache' \in [Conns -> CacheRec]
    <3>1. PICK ch \in CacheRec : cache' = [cache EXCEPT ![c] = ch]
      BY <1>0, <1>4, <1>5, CacheTypes, Zenon DEF CopyToShared
    <3> QED
      BY <1>0, <3>1, Zenon DEF Types
  <2>2. db' \in Db
    <3>1. db \in Db /\ Copied(c, db.now) \in Pages
      BY <1>0, CopiedType, Zenon DEF Types, Db
    <3> QED
      BY <1>5, <3>1 DEF Db, Pages, CopyToShared
  <2>3. TransRollback(c) /\ file' = file /\ reserved' \in {reserved, NoConn}
        /\ pc' \in {[pc EXCEPT ![c] = "write"], [pc EXCEPT ![c] = "idle"]}
    BY <1>5, Zenon DEF CopyToShared, Go
  <2> QED
    BY <1>0, <1>1, <2>1, <2>2, <2>3, Zenon DEF Types
<1>6. CASE CopyFails(c)
    BY <1>0, <1>4, <1>6, Zenon DEF CopyFails, Types, Go, inTx
<1>7. CASE WriteHeader(c)
  <2>1. file' \in [vers : Nat, page : Pages]
    <3>1. file \in [vers : Nat, page : Pages] /\ file' = [file EXCEPT !.vers = @ + 1]
      BY <1>0, <1>7, Zenon DEF WriteHeader, Types
    <3> QED
      BY <3>1
  <2>2. cache' \in [Conns -> CacheRec]
    <3>2. file.vers + 1 \in Nat
      BY <1>0, CacheTypes
    <3> QED
      BY <1>0, <1>7, <3>2, Zenon DEF CacheRec, WriteHeader, Types
  <2> QED
    BY <1>0, <1>7, <2>1, <2>2, Zenon DEF WriteHeader, Types, Go, inTx
<1>8. CASE WritePage(c)
    BY <1>0, <1>8, Zenon DEF WritePage, Types, Go, inTx, TypesInv, Counters
<1>9. CASE Savepoint(c)
    BY <1>0, <1>9, Appended, SaveType, Zenon DEF Savepoint, Types
<1>10. ASSUME NEW i, Release(c, i) PROVE Types'
    BY SMTT(30), <1>0, <1>10, Cut DEF Release, Types
<1>11. ASSUME NEW i, RollbackTo(c, i) PROVE Types'
  <2>1. SubSeq(saves[c], 1, i) \in Seq(SaveRec) /\ i \in 1 .. Len(saves[c])
    BY <1>0, <1>11, Cut DEF RollbackTo
  <2> QED
    BY <1>0, <1>b, <1>11, <2>1, BackTypes, Zenon DEF RollbackTo, Types
<1>12. CASE UndoStmt(c)
  <2>1. Len(saves[c]) \in 1 .. Len(saves[c]) /\ Len(saves[c]) - 1 \in 0 .. Len(saves[c])
    BY <1>0, <1>12 DEF UndoStmt, TypesInv, Frames, InStmt
  <2>2. SubSeq(saves[c], 1, Len(saves[c]) - 1) \in Seq(SaveRec)
    BY <1>0, <2>1, Cut, Zenon
  <2>4. saves' \in [Conns -> Seq(SaveRec)] /\ want' \in [Conns -> NOT_LOCKED .. WRITE]
    BY <1>0, <1>12, <2>2 DEF UndoStmt, Types
  <2> QED
    BY <1>0, <1>b, <1>12, <2>1, <2>4, BackTypes, Zenon DEF UndoStmt, Types, Go
<1> QED
    BY <1>2, <1>3, <1>5, <1>6, <1>7, <1>8, <1>9, <1>10, <1>11, <1>12, Zenon DEF Trans

------------------------------------------------------------------------------
(* The change counters, and who commits *)

(* A step outside the end of a transaction. *)
Quiet(c) ==
    /\ UNCHANGED <<file, reserved, db>>
    /\ pc[c] \notin Ending /\ pc'[c] \notin Ending
    /\ cache'[c] \in {cache[c], CacheReset(c), Loaded(cache[c])}

LEMMA StmtQuiet == ASSUME Types, NEW c \in Conns, Stmt(c) PROVE Quiet(c)
<1>0. pc \in [Conns -> {"idle", "begin", "open", "run", "rows", "over", "undo", "commit", "write", "page", "abort"}]
      /\ cache \in [Conns -> CacheRec]
    BY Zenon DEF Types
<1>1. ASSUME NEW l, BeginStmt(c, l) PROVE Quiet(c)
    BY <1>0, <1>1, Zenon DEF Quiet, Ending, BeginStmt, Go
<1>2. CASE OpenStmt(c)
    BY <1>0, <1>2, Zenon DEF OpenStmt, Go, Quiet, Ending
<1>3. CASE TableLock(c)
    BY <1>0, <1>3, Zenon DEF TableLock, Go, Quiet, Ending
<1>4. CASE TableLockRefused(c) \/ RowRefused(c) \/ ClearRefused(c)
    BY <1>0, <1>4, Zenon DEF TableLockRefused, RowRefused, ClearRefused, Writing, Go, Quiet, Ending
<1>5. CASE OpenCursor(c)
    BY <1>0, <1>5, Zenon DEF OpenCursor, Go, Quiet, Ending
<1>6. CASE ClearTable(c)
    BY <1>0, <1>6, Zenon DEF ClearTable, Go, Quiet, Ending
<1>7. CASE EndStmt(c)
    BY <1>0, <1>7, Zenon DEF EndStmt, Go, Quiet, Ending
<1>8. CASE UndoStmt(c)
    BY <1>0, <1>8, Zenon DEF UndoStmt, Go, Quiet, Ending
<1>9. ASSUME NEW r, NEW look, Insert(c, r, look) \/ DeleteShared(c, r) \/ DeleteOwn(c, r) PROVE Quiet(c)
    BY <1>0, <1>9, Zenon DEF Insert, DeleteShared, DeleteOwn, Writing, Quiet, Ending
<1> QED
    BY <1>1, <1>2, <1>3, <1>4, <1>5, <1>6, <1>7, <1>8, <1>9, Zenon DEF Stmt

LEMMA SaveQuiet ==
    ASSUME Types, NEW c \in Conns, Savepoint(c) \/ \E i : RollbackTo(c, i) \/ Release(c, i) PROVE Quiet(c)
BY Zenon DEF Types, Savepoint, RollbackTo, Release, Quiet, Ending

LEMMA QuietCounters ==
    ASSUME Types, Counters, Types', NEW c \in Conns, Others(c), Quiet(c), UNCHANGED bound
    PROVE  Counters'
<1>3. cache[c].vers <= file.vers /\ file.vers \in Nat
    BY Zenon DEF Counters, Types
<1> QED
    BY <1>3, CacheTypes DEF Counters, Quiet, Ending, Others, Same

LEMMA CountersKept ==
    ASSUME TypesInv, Types', NEW c \in Conns, Stmt(c) \/ Trans(c), UNCHANGED bound
    PROVE  Counters'
<1>0. Types /\ Counters /\ NoConn \notin Conns /\ file.vers \in Nat /\ bound.vers \in Nat
    BY TransConstants, Zenon DEF TypesInv, Types
<1>1. /\ Others(c)
      /\ \A d \in Conns \ {c} : cache'[d] = cache[d] /\ pc'[d] = pc[d]
    BY <1>0, OthersSame, ZenonT(30) DEF Others, Same
<1>2. CASE Quiet(c)
    BY <1>0, <1>1, <1>2, QuietCounters, Zenon
<1>3. CASE Rollback(c)
  <2>1. /\ pc[c] \notin {"commit", "write", "page"} /\ pc' = [pc EXCEPT ![c] = "idle"] /\ file' = file
        /\ cache' = [cache EXCEPT ![c] = IF pc[c] = "abort" THEN PagerRollback(@) ELSE @]
        /\ reserved' = IF reserved = c THEN NoConn ELSE reserved
    BY <1>3, Zenon DEF Rollback, Go
  <2>2. pc'[c] = "idle" /\ cache'[c].vers = cache[c].vers
    BY <1>0, <2>1 DEF PagerRollback, CacheRec, Types
  <2> QED
    BY <1>0, <1>1, <2>1, <2>2, Zenon DEF Counters, Ending
<1>4. CASE Commit(c)
  <2>1. /\ pc'[c] \in {"commit", "abort"} /\ UNCHANGED <<file, cache>>
        /\ reserved = NoConn /\ reserved' = c /\ file.vers < bound.vers
    BY <1>0, <1>4, Zenon DEF Commit, Go, Types
  <2> QED
    BY <1>0, <1>1, <2>1, Zenon DEF Counters, Ending
<1>7. CASE CopyToShared(c) \/ CopyFails(c)
  <2>1. /\ pc[c] = "commit" /\ file' = file
        /\ \/ pc'[c] \in {"write", "abort"} /\ reserved' = reserved
              /\ cache'[c] = [CommitCache(c) EXCEPT !.page = Copied(c, @)]
           \/ pc'[c] = "idle" /\ reserved' = NoConn /\ cache'[c] = CacheReset(c)
    BY <1>0, <1>7, ZenonT(30) DEF CopyToShared, CopyFails, Go, Types
  <2> QED
    BY <1>0, <1>1, <2>1, CacheTypes, CommitCacheType, CopiedType DEF Counters, Ending, CacheRec
<1>8. CASE WriteHeader(c)
  <2>1. /\ pc[c] = "write" /\ pc'[c] = "page" /\ reserved' = reserved /\ file'.vers = file.vers + 1
        /\ cache'[c].vers = file.vers + 1 /\ cache'[c].page = cache[c].page
    BY <1>0, <1>8, Zenon DEF WriteHeader, Go, Types, CacheRec
  <2> QED
    BY <1>0, <1>1, <2>1, CacheTypes DEF Counters, Ending, CacheRec
<1>9. CASE WritePage(c)
  <2>1. pc[c] = "page" /\ pc'[c] = "idle" /\ reserved' = NoConn /\ file'.vers = file.vers /\ cache' = cache
    BY <1>0, <1>9, Zenon DEF WritePage, Go, Types
  <2> QED
    BY <1>0, <1>1, <2>1, Zenon DEF Counters, Ending
<1> QED
    BY <1>0, <1>2, <1>3, <1>4, <1>7, <1>8, <1>9, StmtQuiet, SaveQuiet, Zenon DEF Trans

------------------------------------------------------------------------------
(* What a step of c does to the part of the state that c has of its own *)

Local(c, l, w, t, h, s, p) ==
    /\ lock'[c] = l /\ want'[c] = w /\ tx'[c] = t /\ hist'[c] = h /\ saves'[c] = s /\ pc'[c] = p
PCs == {"idle", "begin", "open", "run", "rows", "over", "undo", "commit", "write", "page", "abort"}

LEMMA LocalTypes ==
    ASSUME Types
    PROVE  /\ lock \in [Conns -> Lock] /\ want \in [Conns -> NOT_LOCKED .. WRITE] /\ tx \in [Conns -> Tx]
           /\ hist \in [Conns -> Seq(Event)] /\ saves \in [Conns -> Seq(SaveRec)] /\ pc \in [Conns -> PCs]
BY Zenon DEF Types, PCs

LEMMA OwnFields ==
    ASSUME Types, NEW c \in Conns
    PROVE  /\ lock[c] \in Lock /\ lock[c].level \in Levels /\ tx[c] \in Tx /\ tx[c].deleteAll \in {0, 1}
           /\ hist[c] \in Seq(Event) /\ saves[c] \in Seq(SaveRec) /\ want[c] \in NOT_LOCKED .. WRITE
           /\ pc[c] \in PCs
BY LocalTypes, Zenon DEF Lock, Tx, Levels

(* A step to a new place that changes nothing else of c. *)
Moves(c, p) == Local(c, lock[c], want[c], tx[c], hist[c], saves[c], p)

LEMMA MovesEffect ==
    ASSUME Types, NEW c \in Conns
    PROVE  /\ TableLockRefused(c) => pc[c] = "open" /\ Moves(c, "undo")
           /\ RowRefused(c) => pc[c] = "rows" /\ Moves(c, "undo")
           /\ ClearRefused(c) => pc[c] = "run" /\ Moves(c, "undo")
           /\ CopyFails(c) => pc[c] = "commit" /\ Moves(c, "abort")
           /\ WriteHeader(c) => pc[c] = "write" /\ Moves(c, "page")
           /\ WritePage(c) => pc[c] = "page" /\ Moves(c, "idle")
BY LocalTypes, Zenon DEF TableLockRefused, RowRefused, ClearRefused, CopyFails, WriteHeader, WritePage, Writing,
   Moves, Local, Go, inTx

LEMMA BeginEffect ==
    ASSUME Types, NEW c \in Conns, NEW l, BeginStmt(c, l)
    PROVE  pc[c] = "idle" /\ Local(c, lock[c], l, tx[c], hist[c], saves[c], "begin") /\ holder' = holder
<1> QED
    BY LocalTypes, Zenon DEF Local, BeginStmt, Go, inTx

LEMMA OpenEffect ==
    ASSUME Types, NEW c \in Conns, OpenStmt(c)
    PROVE  /\ pc[c] = "begin" /\ holder' = holder
           /\ \/ /\ want[c] = WRITE
                 /\ Local(c, lock[c], want[c], [tx[c] EXCEPT !.begun = TRUE], hist[c],
                          Append(saves[c], Save(c, tx[c])), "open")
              \/ want[c] # WRITE /\ Moves(c, "open")
<1> QED
    BY LocalTypes, Zenon DEF Local, Moves, OpenStmt, Go

LEMMA TableLockEffect ==
    ASSUME Types, NEW c \in Conns, TableLock(c)
    PROVE  /\ pc[c] = "open" /\ holder' = holder
           /\ \/ lock[c].level >= want[c] /\ Moves(c, "run")
              \/ /\ lock[c].level < want[c]
                 /\ ~Refused(c, want[c], FALSE)
                 /\ Local(c, [level |-> want[c], inUse |-> TRUE], want[c], tx[c],
                          Append(hist[c], LevelEntry(lock[c].level)), saves[c], "run")
<1>1. /\ pc[c] = "open" /\ pc' = [pc EXCEPT ![c] = "run"] /\ UNCHANGED <<holder, want, tx, saves>>
      /\ Enough(c, want[c]) \/ ~Refused(c, want[c], FALSE)
      /\ lock' = [lock EXCEPT ![c] = IF Enough(c, want[c]) THEN @ ELSE [level |-> want[c], inUse |-> TRUE]]
      /\ hist' = [hist EXCEPT ![c] = @ \o LockEntry(c, want[c])]
    BY Zenon DEF TableLock, Go, Granted
<1>2. lock[c].level \in NOT_LOCKED .. EXCLSV /\ want[c] \in NOT_LOCKED .. EXCLSV
    BY LocalTypes DEF Lock
<1>3. \/ Enough(c, want[c]) /\ hist[c] \o LockEntry(c, want[c]) = hist[c]
      \/ ~Enough(c, want[c]) /\ hist[c] \o LockEntry(c, want[c]) = Append(hist[c], LevelEntry(lock[c].level))
    BY <1>2, LockEntryType, Zenon
<1>4. Enough(c, want[c]) <=> lock[c].level >= want[c]
    BY Zenon DEF Enough
<1>5. CASE Enough(c, want[c])
    BY <1>1, <1>3, <1>4, <1>5, LocalTypes, Zenon DEF Local, Moves
<1>6. CASE ~Enough(c, want[c])
  <2>1. lock[c].level < want[c]
    BY <1>2, <1>4, <1>6
  <2> DEFINE h == Append(hist[c], LevelEntry(lock[c].level))
             l == [level |-> want[c], inUse |-> TRUE]
  <2> HIDE DEF h, l
  <2> QED
    BY <1>1, <1>3, <1>6, <2>1, LocalTypes, Zenon DEF h, l, Local
<1> QED
    BY <1>5, <1>6, Zenon

LEMMA CursorEffect ==
    ASSUME Types, NEW c \in Conns, OpenCursor(c)
    PROVE  /\ pc[c] = "run" /\ holder' = holder
           /\ \/ /\ tx[c].root # "btree" /\ tx[c].begun
                 /\ Local(c, lock[c], want[c], [tx[c] EXCEPT !.root = "btree"], Append(hist[c], NewEntry),
                          saves[c], "rows")
              \/ ~(tx[c].root # "btree" /\ tx[c].begun) /\ Moves(c, "rows")
<1> QED
    BY LocalTypes, Zenon DEF Local, Moves, OpenCursor, Go, NewEntry

(* Transaction t has just emptied the table: x. *)
Cleared(x, t) ==
    /\ x.root = IF t.root = "none" THEN "flag" ELSE t.root
    /\ x.deleteAll = 1 /\ x.ins = {} /\ x.del = t.del /\ x.begun = t.begun

LEMMA ClearEffect ==
    ASSUME Types, NEW c \in Conns, ClearTable(c)
    PROVE  /\ pc[c] = "run" /\ want[c] = WRITE /\ holder' = holder
           /\ \E g \in Seq(Event), l \in Lock :
                 /\ \/ lock[c].level >= WRITEEX /\ g = hist[c] /\ l = lock[c]
                    \/ /\ lock[c].level < WRITEEX /\ ~Refused(c, WRITEEX, FALSE)
                       /\ g = Append(hist[c], LevelEntry(lock[c].level))
                       /\ l = [level |-> WRITEEX, inUse |-> TRUE]
                 /\ \/ Local(c, l, want[c], tx[c], g, saves[c], "undo")
                    \/ /\ Cleared(tx'[c], tx[c])
                       /\ Local(c, l, want[c], tx'[c], Append(g, ClearEntry(tx[c].deleteAll)), saves[c], "over")
<1> DEFINE g == hist[c] \o LockEntry(c, WRITEEX)
           l == IF Enough(c, WRITEEX) THEN lock[c] ELSE [level |-> WRITEEX, inUse |-> TRUE]
<1>0. lock[c] \in Lock /\ tx[c] \in Tx /\ hist[c] \in Seq(Event)
    BY LocalTypes, Zenon
<1>1. /\ pc[c] = "run" /\ want[c] = WRITE /\ UNCHANGED <<holder, want, saves>>
      /\ Enough(c, WRITEEX) \/ ~Refused(c, WRITEEX, FALSE)
      /\ lock' = [lock EXCEPT ![c] = l]
      /\ \/ hist' = [hist EXCEPT ![c] = g] /\ pc' = [pc EXCEPT ![c] = "undo"] /\ tx' = tx
         \/ /\ hist' = [hist EXCEPT ![c] = g \o <<ClearEntry(tx[c].deleteAll)>>]
            /\ tx' = [tx EXCEPT ![c].root = IF @ = "none" THEN "flag" ELSE @, ![c].deleteAll = 1, ![c].ins = {}]
            /\ pc' = [pc EXCEPT ![c] = "over"]
    BY Zenon DEF ClearTable, Go, Granted, ClearEntry
<1>2. /\ g \in Seq(Event)
      /\ \/ Enough(c, WRITEEX) /\ g = hist[c]
         \/ ~Enough(c, WRITEEX) /\ g = Append(hist[c], LevelEntry(lock[c].level))
  <2>1. WRITEEX \in NOT_LOCKED .. EXCLSV
    OBVIOUS
  <2> QED
    BY <2>1, LockEntryType, Zenon
<1>4. l \in Lock
    BY <1>0 DEF Lock
<1>5. \/ lock[c].level >= WRITEEX /\ g = hist[c] /\ l = lock[c]
      \/ /\ lock[c].level < WRITEEX /\ ~Refused(c, WRITEEX, FALSE)
         /\ g = Append(hist[c], LevelEntry(lock[c].level))
         /\ l = [level |-> WRITEEX, inUse |-> TRUE]
  <2>1. lock[c].level >= WRITEEX \/ lock[c].level < WRITEEX
    BY <1>0 DEF Lock
  <2> QED
    BY <1>1, <1>2, <2>1, Zenon DEF Enough
<1> HIDE DEF g, l
<1>6. g \o <<ClearEntry(tx[c].deleteAll)>> = Append(g, ClearEntry(tx[c].deleteAll))
    BY <1>0, <1>2, Appended, EntryTypes DEF Tx
<1>7. CASE hist' = [hist EXCEPT ![c] = g] /\ pc' = [pc EXCEPT ![c] = "undo"] /\ tx' = tx
    BY <1>1, <1>2, <1>4, <1>5, <1>7, LocalTypes, Zenon DEF Local
<1>8. CASE /\ hist' = [hist EXCEPT ![c] = g \o <<ClearEntry(tx[c].deleteAll)>>]
           /\ tx' = [tx EXCEPT ![c].root = IF @ = "none" THEN "flag" ELSE @, ![c].deleteAll = 1, ![c].ins = {}]
           /\ pc' = [pc EXCEPT ![c] = "over"]
  <2>1. Cleared(tx'[c], tx[c])
    BY <1>8, LocalTypes DEF Cleared, Tx
  <2> QED
    BY <1>1, <1>2, <1>4, <1>5, <1>6, <1>8, <2>1, LocalTypes, Zenon DEF Local
<1> QED
    BY <1>1, <1>7, <1>8, Zenon

(* The savepoints without the last one. *)
Shorter(s) == SubSeq(s, 1, Len(s) - 1)

LEMMA EndEffect ==
    ASSUME Types, NEW c \in Conns, EndStmt(c)
    PROVE  /\ pc[c] \in {"rows", "over"} \/ (pc[c] = "undo" /\ want[c] = READ)
           /\ Local(c, StmtUnlocked(lock[c]), NOT_LOCKED, tx[c], hist[c],
                    IF want[c] = WRITE THEN Shorter(saves[c]) ELSE saves[c], "idle")
           /\ holder' = holder
BY LocalTypes, Zenon DEF EndStmt, Local, Go, Shorter

(* Transaction t has written or deleted row r: x. *)
Wrote(x, t, r) ==
    /\ x.root = t.root /\ x.deleteAll = t.deleteAll /\ x.begun = t.begun
    /\ t.ins \subseteq x.ins /\ x.ins \subseteq t.ins \cup {r}
    /\ t.del \subseteq x.del /\ x.del \subseteq t.del \cup {r}

LEMMA RowEffect ==
    ASSUME Types, NEW c \in Conns, NEW r \in Rows,
           Insert(c, r, TRUE) \/ Insert(c, r, FALSE) \/ DeleteShared(c, r)
    PROVE  /\ pc[c] = "rows" /\ want[c] = WRITE
           /\ holder[r] \in {c, NoConn} /\ holder' = [holder EXCEPT ![r] = c]
           /\ Wrote(tx'[c], tx[c], r) /\ tx'[c].del \ tx[c].del \subseteq RowsIn(cache[c].page)
           /\ \/ holder[r] = c /\ Local(c, lock[c], want[c], tx'[c], hist[c], saves[c], "rows")
              \/ /\ holder[r] # c
                 /\ Local(c, lock[c], want[c], tx'[c], Append(hist[c], RowEntry(r)), saves[c], "rows")
<1>3. /\ Wrote(tx'[c], tx[c], r) /\ tx'[c].del \ tx[c].del \subseteq RowsIn(cache[c].page)
    BY LocalTypes DEF Insert, DeleteShared, View, Wrote, Tx, RowsIn
<1> QED
    BY <1>3, LocalTypes, ZenonT(30) DEF Local, Insert, DeleteShared, LockRecord, Writing, RowEntry

LEMMA OwnEffect ==
    ASSUME Types, NEW c \in Conns, NEW r \in Rows, DeleteOwn(c, r)
    PROVE  /\ pc[c] = "rows" /\ want[c] = WRITE /\ r \in tx[c].ins
           /\ holder' = IF r \in tx[c].del THEN holder ELSE [holder EXCEPT ![r] = NoConn]
           /\ tx'[c].root = tx[c].root /\ tx'[c].deleteAll = tx[c].deleteAll /\ tx'[c].begun = tx[c].begun
           /\ tx'[c].ins = tx[c].ins \ {r} /\ tx'[c].del = tx[c].del
           /\ Local(c, lock[c], want[c], tx'[c], hist[c], saves[c], "rows")
<1> QED
    BY LocalTypes, ZenonT(30) DEF Local, Tx, DeleteOwn, Writing

LEMMA RollbackEffect ==
    ASSUME Types, NEW c \in Conns, Rollback(c) \/ CopyToShared(c)
    PROVE  /\ lock'[c] = Unlocked /\ want'[c] = NOT_LOCKED /\ tx'[c] = NoTx /\ hist'[c] = <<>>
           /\ saves'[c] = <<>> /\ pc'[c] \in {"idle", "write"}
           /\ holder' = [r \in Rows |-> IF holder[r] = c THEN NoConn ELSE holder[r]]
<1> QED
    BY LocalTypes DEF TransRollback, Rollback, CopyToShared, Go

LEMMA CommitEffect ==
    ASSUME Types, NEW c \in Conns, Commit(c)
    PROVE  /\ pc[c] \in {"idle", "rows", "over"} /\ holder' = holder
           /\ \/ pc'[c] = "abort" /\ Moves(c, "abort")
              \/ pc'[c] = "commit" /\ ~IsTableModified(c) /\ Moves(c, "commit")
              \/ /\ pc'[c] = "commit" /\ IsTableModified(c) /\ (tx[c].root # "none" => ~Refused(c, EXCLSV, TRUE))
                 /\ \/ Moves(c, "commit")
                    \/ Local(c, [level |-> EXCLSV, inUse |-> TRUE], want[c], tx[c], hist[c], saves[c], "commit")
<1> QED
    BY LocalTypes, Zenon DEF Local, Moves, Commit, CommitRefused, Granted, Go, inTx

LEMMA SavepointEffect ==
    ASSUME Types, NEW c \in Conns, Savepoint(c)
    PROVE  /\ pc[c] = "idle" /\ tx[c].begun /\ holder' = holder
           /\ Local(c, lock[c], want[c], tx[c], hist[c], Append(saves[c], Save(c, tx[c])), "idle")
BY LocalTypes, Zenon DEF Savepoint, Local

LEMMA ReleaseEffect ==
    ASSUME Types, NEW c \in Conns, NEW i, Release(c, i)
    PROVE  /\ pc[c] = "idle" /\ i \in 1 .. Len(saves[c]) /\ holder' = holder
           /\ Local(c, lock[c], want[c], tx[c], hist[c], SubSeq(saves[c], 1, i - 1), "idle")
BY LocalTypes, Zenon DEF Release, Local

(* Going back: to the statement's own savepoint, which is released, or to  *)
(* one that SAVEPOINT has set, which stays.                                *)
LEMMA BackEffect ==
    ASSUME TypesInv, NEW c \in Conns, UndoStmt(c) \/ \E i : RollbackTo(c, i)
    PROVE  /\ pc'[c] = "idle"
           /\ \E k \in 1 .. Len(saves[c]) :
                 /\ \/ /\ pc[c] = "undo" /\ want[c] = WRITE /\ want'[c] = NOT_LOCKED
                       /\ k = Len(saves[c]) /\ saves'[c] = SubSeq(saves[c], 1, k - 1)
                    \/ pc[c] = "idle" /\ want'[c] = want[c] /\ saves'[c] = SubSeq(saves[c], 1, k)
                 /\ saves[c][k] \in SaveRec /\ saves[c][k].n \in 0 .. Len(hist[c])
                 /\ RollbackToSave(c, saves[c][k])
<1>0. /\ Types /\ hist[c] \in Seq(Event) /\ saves[c] \in Seq(SaveRec) /\ Marks(saves[c], hist[c])
      /\ pc \in [Conns -> PCs] /\ saves \in [Conns -> Seq(SaveRec)] /\ want \in [Conns -> NOT_LOCKED .. WRITE]
    BY LocalTypes, Zenon DEF TypesInv
<1>1. \A k \in 1 .. Len(saves[c]) : saves[c][k] \in SaveRec /\ saves[c][k].n \in 0 .. Len(hist[c])
    BY <1>0, SavesAre, MarksBack, Zenon
<1>2. CASE UndoStmt(c)
  <2>1. Len(saves[c]) \in 1 .. Len(saves[c])
    BY <1>0, <1>2 DEF UndoStmt, TypesInv, Frames, InStmt
  <2> QED
    BY <1>0, <1>1, <1>2, <2>1, Zenon DEF UndoStmt, Go
<1>3. ASSUME NEW i, RollbackTo(c, i)
      PROVE  /\ pc[c] = "idle" /\ pc'[c] = "idle" /\ want'[c] = want[c] /\ i \in 1 .. Len(saves[c])
             /\ saves'[c] = SubSeq(saves[c], 1, i) /\ RollbackToSave(c, saves[c][i])
    BY <1>0, <1>3, Zenon DEF RollbackTo
<1> QED
    BY <1>1, <1>2, <1>3, Zenon

------------------------------------------------------------------------------
(* The savepoints of a statement *)

LEMMA FramesKept ==
    ASSUME TypesInv, Types', NEW c \in Conns, Stmt(c) \/ Trans(c)
    PROVE  Frames(want'[c], tx'[c], saves'[c], pc'[c])
<1>0. /\ Types /\ Frames(want[c], tx[c], saves[c], pc[c])
      /\ saves[c] \in Seq(SaveRec) /\ tx[c] \in Tx /\ pc[c] \in PCs
    BY LocalTypes, Zenon DEF TypesInv
<1> USE DEF Frames, InStmt
<1>1. ASSUME NEW p, Moves(c, p), p \in InStmt => pc[c] \in InStmt \/ want[c] # WRITE
      PROVE  Frames(want'[c], tx'[c], saves'[c], pc'[c])
    BY <1>0, <1>1, Zenon DEF Moves, Local
<1>2. ASSUME pc'[c] \notin InStmt PROVE Frames(want'[c], tx'[c], saves'[c], pc'[c])
    BY <1>2, Zenon
<1>3. CASE OpenStmt(c)
  <2>1. Len(Append(saves[c], Save(c, tx[c]))) > 0
    BY <1>0, SaveType, Appended
  <2> QED
    BY <1>0, <1>1, <1>3, <2>1, OpenEffect, Zenon DEF Local, Tx
<1>4. CASE TableLock(c)
    BY <1>0, <1>1, <1>4, TableLockEffect, Zenon DEF Local
<1>5. CASE OpenCursor(c)
    BY <1>0, <1>1, <1>5, CursorEffect, Zenon DEF Local, Tx
<1>6. CASE ClearTable(c)
    BY <1>0, <1>6, ClearEffect, Zenon DEF Local, Cleared
<1>7. ASSUME NEW r \in Rows, Insert(c, r, TRUE) \/ Insert(c, r, FALSE) \/ DeleteShared(c, r)
      PROVE  Frames(want'[c], tx'[c], saves'[c], pc'[c])
    BY <1>0, <1>7, RowEffect, Zenon DEF Local, Wrote
<1>8. ASSUME NEW r \in Rows, DeleteOwn(c, r) PROVE  Frames(want'[c], tx'[c], saves'[c], pc'[c])
    BY <1>0, <1>8, OwnEffect, Zenon DEF Local
<1>9. CASE TableLockRefused(c) \/ RowRefused(c) \/ ClearRefused(c)
    BY <1>0, <1>1, <1>9, MovesEffect, Zenon
<1>10. CASE CopyFails(c) \/ WriteHeader(c) \/ WritePage(c)
    BY <1>0, <1>2, <1>10, MovesEffect, Zenon DEF Moves, Local
<1>11. ASSUME NEW l, BeginStmt(c, l) PROVE Frames(want'[c], tx'[c], saves'[c], pc'[c])
    BY <1>0, <1>2, <1>11, BeginEffect, Zenon DEF Local
<1>12. CASE EndStmt(c) \/ Commit(c) \/ Rollback(c) \/ CopyToShared(c)
    BY <1>0, <1>2, <1>12, EndEffect, CommitEffect, RollbackEffect, Zenon DEF Moves, Local
<1>13. CASE UndoStmt(c) \/ \E i : RollbackTo(c, i)
    BY <1>0, <1>2, <1>13, BackEffect, Zenon
<1>14. CASE Savepoint(c)
    BY <1>0, <1>2, <1>14, SavepointEffect, Zenon DEF Local
<1>15. ASSUME NEW i, Release(c, i) PROVE Frames(want'[c], tx'[c], saves'[c], pc'[c])
    BY <1>0, <1>2, <1>15, ReleaseEffect, Zenon DEF Local
<1> HIDE DEF Frames, InStmt
<1> QED
    BY <1>3, <1>4, <1>5, <1>6, <1>7, <1>8, <1>9, <1>10, <1>11, <1>12, <1>13, <1>14, <1>15, Zenon DEF Stmt, Trans

LEMMA MarksKept ==
    ASSUME Least, TypesInv, Types', NEW c \in Conns, Stmt(c) \/ Trans(c)
    PROVE  Marks(saves'[c], hist'[c])
<1> DEFINE OK == Marks(saves'[c], hist'[c])
<1> SUFFICES OK
    BY Zenon
<1>0. /\ Types /\ Marks(saves[c], hist[c]) /\ saves[c] \in Seq(SaveRec) /\ hist[c] \in Seq(Event)
      /\ tx[c] \in Tx /\ lock[c] \in Lock
    BY LocalTypes, Zenon DEF TypesInv
<1>1. ASSUME saves'[c] = saves[c], hist'[c] = hist[c] PROVE OK
    BY <1>0, <1>1, Zenon
<1>2. ASSUME NEW e \in Event, saves'[c] = saves[c], hist'[c] = Append(hist[c], e) PROVE OK
  <2>1. Append(hist[c], e) \in Seq(Event) /\ Len(hist[c]) <= Len(Append(hist[c], e))
    BY <1>0, Appended
  <2> QED
    BY <1>0, <1>2, <2>1, MarksLonger, Zenon
<1>3. ASSUME saves'[c] = Append(saves[c], Save(c, tx[c])), hist'[c] = hist[c] PROVE OK
    BY <1>0, <1>3, SaveType, MarksAppend, Zenon
<1>4. ASSUME NEW k \in 0 .. Len(saves[c]), saves'[c] = SubSeq(saves[c], 1, k), hist'[c] = hist[c] PROVE OK
    BY <1>0, <1>4, MarksCut, Zenon
<1>5. ASSUME NEW p, Moves(c, p) PROVE OK
    BY <1>1, <1>5, Zenon DEF Moves, Local
<1>6. LevelEntry(lock[c].level) \in Event /\ NewEntry \in Event /\ \A r \in Rows : RowEntry(r) \in Event
    BY <1>0, EntryTypes, Zenon DEF Lock
<1> HIDE DEF OK
<1>7. CASE OpenStmt(c)
    BY <1>0, <1>3, <1>5, <1>7, OpenEffect, Zenon DEF Local
<1>8. CASE TableLock(c)
    BY <1>0, <1>2, <1>5, <1>6, <1>8, TableLockEffect, Zenon DEF Local
<1>9. CASE OpenCursor(c)
    BY <1>0, <1>2, <1>5, <1>6, <1>9, CursorEffect, Zenon DEF Local
<1>10. CASE ClearTable(c)
  <2>1. PICK g \in Seq(Event) :
           /\ g = hist[c] \/ g = Append(hist[c], LevelEntry(lock[c].level))
           /\ hist'[c] = g \/ hist'[c] = Append(g, ClearEntry(tx[c].deleteAll))
           /\ saves'[c] = saves[c]
    BY <1>0, <1>10, ClearEffect, Zenon DEF Local
  <2>2. Len(hist[c]) <= Len(g)
    BY <1>0, <1>6, <2>1, Appended
  <2>5. hist'[c] \in Seq(Event) /\ Len(hist[c]) <= Len(hist'[c])
    <3>2. CASE hist'[c] = g
      BY <2>2, <3>2, Zenon
    <3>3. CASE hist'[c] = Append(g, ClearEntry(tx[c].deleteAll))
      BY <1>0, <2>2, <3>3, Appended, EntryTypes DEF Tx
    <3> QED
      BY <2>1, <3>2, <3>3, Zenon
  <2> QED
    BY <1>0, <2>1, <2>5, MarksLonger, Zenon DEF OK
<1>11. ASSUME NEW r \in Rows, Insert(c, r, TRUE) \/ Insert(c, r, FALSE) \/ DeleteShared(c, r) PROVE OK
    BY <1>0, <1>1, <1>2, <1>6, <1>11, RowEffect, Zenon DEF Local
<1>12. ASSUME NEW r \in Rows, DeleteOwn(c, r) PROVE OK
    BY <1>0, <1>1, <1>12, OwnEffect, Zenon DEF Local
<1>13. CASE \/ TableLockRefused(c) \/ RowRefused(c) \/ ClearRefused(c) \/ CopyFails(c) \/ WriteHeader(c)
            \/ WritePage(c)
    BY <1>0, <1>5, <1>13, MovesEffect, Zenon
<1>14. ASSUME NEW l, BeginStmt(c, l) PROVE OK
    BY <1>0, <1>1, <1>14, BeginEffect, Zenon DEF Local
<1>15. CASE Commit(c)
    BY <1>0, <1>1, <1>5, <1>15, CommitEffect, Zenon DEF Local
<1>16. CASE EndStmt(c)
    BY <1>0, <1>1, <1>4, <1>16, EndEffect DEF Local, Shorter, EndStmt, TypesInv, Frames, InStmt
<1>17. CASE Rollback(c) \/ CopyToShared(c)
    BY <1>0, <1>17, RollbackEffect DEF OK, Marks
<1>18. CASE UndoStmt(c) \/ \E i : RollbackTo(c, i)
  <2>1. PICK k \in 1 .. Len(saves[c]) :
           /\ saves'[c] = SubSeq(saves[c], 1, k - 1) \/ saves'[c] = SubSeq(saves[c], 1, k)
           /\ saves[c][k] \in SaveRec /\ saves[c][k].n \in 0 .. Len(hist[c])
           /\ RollbackToSave(c, saves[c][k])
    BY <1>18, BackEffect, Zenon
  <2> QED
    BY <1>0, <2>1, BackTypes, MarksBack, Zenon DEF OK
<1>19. CASE Savepoint(c)
    BY <1>0, <1>3, <1>19, SavepointEffect, Zenon DEF Local
<1>20. ASSUME NEW i, Release(c, i) PROVE OK
    BY <1>0, <1>4, <1>20, ReleaseEffect DEF Local
<1> QED
    BY <1>7, <1>8, <1>9, <1>10, <1>11, <1>12, <1>13, <1>14, <1>15, <1>16, <1>17, <1>18, <1>19, <1>20, Zenon
    DEF Stmt, Trans, OK

LEMMA TypesStep == ASSUME Least, TypesInv, [Next]_vars PROVE TypesInv'
<1>1. CASE UNCHANGED vars
    BY <1>1, Zenon DEF vars, TypesInv, Types, Counters
<1>2. ASSUME NEW c \in Conns, Stmt(c) \/ Trans(c), UNCHANGED bound PROVE TypesInv'
  <2>1. Types'
    BY <1>2, StmtTypes, TransTypes, Zenon
  <2>5. ASSUME NEW d \in Conns PROVE Frames(want'[d], tx'[d], saves'[d], pc'[d]) /\ Marks(saves'[d], hist'[d])
    BY <1>2, <2>1, FramesKept, MarksKept, OthersSame, Zenon DEF Others, Same, TypesInv
  <2> QED
    BY <1>2, <2>1, <2>5, CountersKept, Zenon DEF TypesInv
<1> QED
    BY <1>1, <1>2, Zenon DEF Next
=============================================================================
