-------------------------- MODULE TransactionsProof --------------------------
(***************************************************************************)
(* Theorems about Transactions, for any number of connections, rows and    *)
(* savepoints and histories of any length.                                 *)
(***************************************************************************)
EXTENDS TransactionsInvariantsProof

USE DEF NOT_LOCKED, READ, WRITE, WRITEEX, EXCLSV

------------------------------------------------------------------------------
(* Types *)

LEMMA TypesInit == ASSUME Init PROVE TypesInv
<1>1. Start \in Pages
    BY Zenon DEF Start, Pages, Vals
<1>6. bound \in [overlap : BOOLEAN, stmts : Nat, vers : Nat, saves : Nat]
    BY TransConstants, Zenon DEF Init
<1>7. Types
    BY <1>1, <1>6 DEF Init, Types, CacheRec, NoTx, Tx, Unlocked, Lock, Db, Pages
<1> QED
    BY <1>6, <1>7, TransConstants DEF TypesInv, Init, Frames, InStmt, Marks, Counters, Ending

LEMMA TypesHold == ASSUME Least PROVE Spec => []TypesInv
<1>1. Init => TypesInv
    BY TypesInit, Zenon
<1>2. TypesInv /\ [Next]_vars => TypesInv'
    BY TypesStep, Zenon
<1> QED
    BY <1>1, <1>2, PTL DEF Spec

LEMMA TypeOKFollows == ASSUME Least PROVE Spec => []TypeOK
<1>1. ASSUME TypesInv PROVE TypeOK
  <2>0. Types /\ Counters
    BY <1>1, Zenon DEF TypesInv
  <2>2. \A c \in Conns : cache[c].vers \in 0 .. bound.vers /\ cache[c].page \in Pages \cup {NoPage}
    BY SMTT(30), <2>0 DEF Types, Counters, CacheRec
  <2>3. ASSUME NEW c \in Conns, NEW i \in 1 .. Len(hist[c]) PROVE hist[c][i] \in Entry
    <3>1. hist[c][i] \in Event
      BY <2>0, LocalTypes
    <3> QED
      BY <3>1, Zenon DEF Event
  <2>4. ASSUME NEW c \in Conns, NEW i \in 1 .. Len(saves[c]) PROVE saves[c][i].n \in 0 .. Len(hist[c])
    BY <1>1, <2>0, LocalTypes, MarksBack, Zenon DEF TypesInv
  <2> QED
    BY <2>0, <2>2, <2>3, <2>4 DEF TypeOK, Types, Tx, Lock, Counters
<1> QED
    BY <1>1, TypesHold, PTL

------------------------------------------------------------------------------
(* Read Committed *)

LEMMA NoDirtyReadFollows == ASSUME Least PROVE Spec => []NoDirtyRead
<1>1. Init => ReadsInv
  <2> SUFFICES ASSUME Init PROVE ReadsInv
    BY Zenon
  <2>3. ASSUME NEW c \in Conns PROVE CacheReads(cache[c], pc[c], db.ever)
    BY Zenon DEF Init, CacheReads
  <2> QED
    BY <2>3, Zenon DEF ReadsInv, Init, Committed, Start, Pages, Vals
<1>2. ASSUME TypesInv, ReadsInv, [Next]_vars PROVE ReadsInv'
  <2>1. CASE UNCHANGED vars
    BY <1>2, <2>1, Zenon DEF vars, ReadsInv
  <2>2. ASSUME NEW c \in Conns, Stmt(c) \/ Trans(c) PROVE ReadsInv'
    <3>4. ASSUME NEW d \in Conns \ {c} PROVE CacheReads(cache'[d], pc'[d], db'.ever)
      <4>1. cache'[d] = cache[d] /\ pc'[d] = pc[d]
        BY <1>2, <2>2, OthersSame, Zenon DEF Others, Same, TypesInv
      <4> QED
        BY <1>2, <2>2, <4>1, CommittedGrows, EverGrows DEF TypesInv, ReadsInv
    <3> QED
      BY <1>2, <2>2, <3>4, ReadsOwn, Zenon DEF ReadsInv
  <2> QED
    BY <1>2, <2>1, <2>2, Zenon DEF Next
<1>3. ReadsInv => NoDirtyRead
    BY Zenon DEF ReadsInv, NoDirtyRead, CacheReads, Committed
<1> QED
    BY <1>1, <1>2, <1>3, TypesHold, PTL DEF Spec

------------------------------------------------------------------------------
(* Row locks *)

LEMMA RowsHold == ASSUME Least, "unlock" \notin Cases PROVE Spec => []RowsInv
<1>1. Init => RowsInv
    BY DEF Init, RowsInv, Protects, Covers, NoTx
<1>2. ASSUME TypesInv, RowsInv, [Next]_vars PROVE RowsInv'
  <2>1. CASE UNCHANGED vars
    BY <1>2, <2>1, Zenon DEF vars, RowsInv
  <2>2. ASSUME NEW c \in Conns, Stmt(c) \/ Trans(c) PROVE RowsInv'
    <3>3. ASSUME NEW d \in Conns \ {c} PROVE Protects(tx'[d], holder', d) /\ Covers(saves'[d])
      BY <1>2, <2>2, HoldersKept, LocalTypes, OthersSame
         DEF Protects, Others, Same, Tx, TypesInv, RowsInv
    <3> QED
      BY <1>2, <2>2, <3>3, RowsOwn, Zenon DEF RowsInv
  <2> QED
    BY <1>2, <2>1, <2>2, Zenon DEF Next
<1> QED
    BY <1>1, <1>2, TypesHold, PTL DEF Spec

LEMMA RowsProtectedFollows == ASSUME Least, "unlock" \notin Cases PROVE Spec => []RowsProtected
<1>1. RowsInv => RowsProtected
    BY Zenon DEF RowsInv, RowsProtected, Protects
<1> QED
    BY <1>1, RowsHold, PTL

------------------------------------------------------------------------------
(* Table lock *)

LEMMA LevelsHold == ASSUME Least, "clear" \notin Cases PROVE Spec => []LevelsInv
<1>1. Init => LevelsInv
  <2> SUFFICES ASSUME Init PROVE LevelsInv
    BY Zenon
  <2>1. ASSUME NEW c \in Conns
        PROVE  /\ lock[c].level = NOT_LOCKED /\ tx[c] = NoTx /\ saves[c] = <<>> /\ pc[c] = "idle"
               /\ want[c] = NOT_LOCKED
    BY Zenon DEF Init, Unlocked
  <2>2. ASSUME NEW c \in Conns PROVE LevelOK(lock[c], want[c], tx[c], hist[c], saves[c], pc[c])
    BY <2>1 DEF LevelOK, Fits, NoTx, SavesOK, Rising
  <2> QED
    BY <2>1, <2>2 DEF LevelsInv
<1>2. ASSUME TypesInv, LevelsInv, [Next]_vars PROVE LevelsInv'
  <2>1. CASE UNCHANGED vars
    BY <1>2, <2>1, Zenon DEF vars, LevelsInv
  <2>2. ASSUME NEW c \in Conns, Stmt(c) \/ Trans(c) PROVE LevelsInv'
    <3>2. Others(c)
      BY <1>2, <2>2, OthersSame, Zenon DEF TypesInv
    <3>3. \A d \in Conns \ {c} : /\ Sole(lock'[c], tx'[c]) => lock[d].level < WRITE
                                 /\ Sole(lock[d], tx[d]) => lock'[c].level < WRITE
      BY <1>2, <2>2, SoleKept, Zenon
    <3>5. ASSUME NEW a \in Conns, NEW d \in Conns, a # d, Sole(lock'[a], tx'[a]) PROVE lock'[d].level < WRITE
      <4>1. \A e \in Conns \ {c} : lock'[e] = lock[e] /\ tx'[e] = tx[e]
        BY <3>2, Zenon DEF Others, Same
      <4>2. CASE a = c
        BY <3>3, <3>5, <4>1, <4>2, Zenon
      <4>3. CASE d = c
        BY <3>3, <3>5, <4>1, <4>3, Zenon
      <4>4. CASE a # c /\ d # c
        BY <1>2, <3>5, <4>1, <4>4, Zenon DEF LevelsInv
      <4> QED
        BY <4>2, <4>3, <4>4, Zenon
    <3> QED
      BY <1>2, <2>2, <3>2, <3>5, LevelOwn, Zenon DEF LevelsInv, Others, Same
  <2> QED
    BY <1>2, <2>1, <2>2, Zenon DEF Next
<1> QED
    BY <1>1, <1>2, TypesHold, PTL DEF Spec

LEMMA ClearIsAloneFollows == ASSUME Least, "clear" \notin Cases PROVE Spec => []ClearIsAlone
<1>1. ASSUME TypesInv, LevelsInv PROVE ClearIsAlone
  <2> SUFFICES ASSUME NEW c \in Conns, NEW d \in Conns, c # d, tx[c].deleteAll = 1
               PROVE  tx[d].ins = {} /\ tx[d].del = {} /\ tx[d].deleteAll = 0
    BY Zenon DEF ClearIsAlone
  <2> QED
    BY <1>1, OwnFields DEF Fits, Levels, LevelsInv, Sole, TypesInv, LevelOK
<1> QED
    BY <1>1, TypesHold, LevelsHold, PTL

------------------------------------------------------------------------------
(* Savepoints *)

HoldsInv == \A c \in Conns : Accounts(saves[c], hist[c], holder, c)

LEMMA AccountsSave ==
    ASSUME Types, NEW c \in Conns, Accounts(saves[c], hist[c], holder, c)
    PROVE  Accounts(Append(saves[c], Save(c, tx[c])), hist[c], holder, c)
<1>1. PICK sp \in SaveRec : sp = Save(c, tx[c])
    BY SaveType, Zenon
<1>2. saves[c] \in Seq(SaveRec)
    BY OwnFields, Zenon
<1>3. \A r \in Rows : holder[r] = c => r \in sp.rows
    BY <1>1, Zenon DEF Save
<1>4. \A i \in 1 .. Len(Append(saves[c], sp)) :
         \/ Append(saves[c], sp)[i] = sp
         \/ i \in 1 .. Len(saves[c]) /\ Append(saves[c], sp)[i] = saves[c][i]
    BY <1>2
<1> QED
    BY <1>1, <1>3, <1>4, Zenon DEF Accounts

LEMMA AccountsAppend ==
    ASSUME TypesInv, NEW c \in Conns, Accounts(saves[c], hist[c], holder, c), NEW e \in Event
    PROVE  Accounts(saves[c], Append(hist[c], e), holder, c)
<1> QED
    BY OwnFields, ReleasedAppend, SavesAre, ZenonT(30) DEF Accounts, TypesInv

(* Rolling back to savepoint k gives back the row locks. *)
LEMMA BackRows ==
    ASSUME Least,
           TypesInv, NEW c \in Conns, NEW k \in 1 .. Len(saves[c]), RollbackToSave(c, saves[c][k])
    PROVE  /\ \A r \in Rows : holder'[r] = IF Released(hist[c], saves[c][k].n, r) THEN NoConn ELSE holder[r]
           /\ hist'[c] = SubSeq(hist[c], 1, saves[c][k].n) /\ saves[c][k] \in SaveRec
           /\ "unlock" \notin Cases =>
                 \A r \in saves[c][k].rows : ~Released(hist[c], saves[c][k].n, r) /\ holder[r] = c
<1>0. /\ Types /\ Marks(saves[c], hist[c]) /\ lock[c] \in Lock /\ tx[c] \in Tx
      /\ hist[c] \in Seq(Event) /\ saves[c] \in Seq(SaveRec)
    BY OwnFields, Zenon DEF TypesInv
<1>1. PICK sp \in SaveRec : sp = saves[c][k] /\ sp.n \in 0 .. Len(hist[c])
    BY <1>0, SaveAt, Zenon
<1>2. PICK u : u = Undone(c, sp)
    BY Zenon
<1>5. hist'[c] = SubSeq(hist[c], 1, sp.n)
    BY <1>0, <1>1, BackTypes, Zenon
<1> QED
    BY <1>0, <1>1, <1>2, <1>5, UndoneIs DEF Undoes, RollbackToSave, Special

LEMMA AccountsOwn ==
    ASSUME Least,
           TypesInv, NEW c \in Conns, Accounts(saves[c], hist[c], holder, c), Stmt(c) \/ Trans(c)
    PROVE  Accounts(saves'[c], hist'[c], holder', c)
<1> DEFINE OK == Accounts(saves'[c], hist'[c], holder', c)
<1> SUFFICES OK
    BY Zenon
<1>0. /\ Types /\ Marks(saves[c], hist[c]) /\ lock[c] \in Lock /\ lock[c].level \in Levels /\ tx[c].deleteAll \in {0, 1}
      /\ hist[c] \in Seq(Event) /\ saves[c] \in Seq(SaveRec) /\ holder \in [Rows -> Conns \cup {NoConn}] /\ c # NoConn
    BY OwnFields, TransConstants, Zenon DEF TypesInv, Types
<1>1. ASSUME holder' = holder, saves'[c] = saves[c], hist'[c] = hist[c] PROVE OK
    BY <1>1, Zenon
<1>2. ASSUME NEW p, Moves(c, p), holder' = holder PROVE OK
    BY <1>1, <1>2, Zenon DEF Moves, Local
<1>3. CASE TableLockRefused(c) \/ RowRefused(c) \/ ClearRefused(c) \/ CopyFails(c) \/ WriteHeader(c) \/ WritePage(c)
    BY <1>0, <1>2, <1>3, MovesEffect, Zenon
       DEF TableLockRefused, RowRefused, ClearRefused, CopyFails, WriteHeader, WritePage
<1>4. CASE Commit(c) \/ \E l : BeginStmt(c, l)
    BY <1>0, <1>1, <1>4, BeginEffect, CommitEffect, Zenon DEF Moves, Local
<1>5. CASE OpenStmt(c) \/ Savepoint(c)
  <2>1. holder' = holder /\ hist'[c] = hist[c] /\ saves'[c] \in {saves[c], Append(saves[c], Save(c, tx[c]))}
    BY <1>0, <1>5, OpenEffect, SavepointEffect, Zenon DEF Moves, Local
  <2> QED
    BY <1>0, <2>1, AccountsSave, Zenon
<1>6. CASE TableLock(c) \/ OpenCursor(c)
    BY <1>0, <1>6, AccountsAppend, CursorEffect, EntryTypes, TableLockEffect, Zenon
       DEF Moves, Local, Levels
<1>7. CASE ClearTable(c)
  <2>1. PICK g \in Seq(Event) :
           /\ g = hist[c] \/ g = Append(hist[c], LevelEntry(lock[c].level))
           /\ holder' = holder /\ saves'[c] = saves[c] /\ hist'[c] \in {g, Append(g, ClearEntry(tx[c].deleteAll))}
    BY <1>0, <1>7, ClearEffect, ZenonT(30) DEF Local
  <2>2. LevelEntry(lock[c].level) \in Event /\ ClearEntry(tx[c].deleteAll) \in Event
    BY <1>0, EntryTypes, Zenon DEF Levels
  <2>3. Accounts(saves[c], g, holder, c)
    BY <2>1, <2>2, AccountsAppend, Zenon
  <2>5. Accounts(saves[c], Append(g, ClearEntry(tx[c].deleteAll)), holder, c)
    BY <1>0, <2>1, <2>2, <2>3, ReleasedAppend, SavesAre, Zenon DEF Accounts
  <2> QED
    BY <2>1, <2>3, <2>5, Zenon
<1>8. ASSUME NEW q \in Rows, Insert(c, q, TRUE) \/ Insert(c, q, FALSE) \/ DeleteShared(c, q) PROVE OK
  <2>1. /\ holder' = [holder EXCEPT ![q] = c] /\ saves'[c] = saves[c]
        /\ (holder[q] = c /\ hist'[c] = hist[c]) \/ hist'[c] = Append(hist[c], RowEntry(q))
    BY <1>0, <1>8, RowEffect, Zenon DEF Local
  <2>2. CASE holder[q] = c /\ hist'[c] = hist[c]
    BY <1>0, <2>1, <2>2, Zenon DEF Accounts
  <2>3. CASE hist'[c] = Append(hist[c], RowEntry(q))
    <3>1. RowEntry(q) \in Event /\ RowEntry(q).type = "row" /\ RowEntry(q).row = q
      BY EntryTypes, EntryFields, Zenon
    <3> QED
      BY <1>0, <2>1, <2>3, <3>1, AccountsAppend, ReleasedAppend, SavesAre DEF Accounts, Marks
  <2> QED
    BY <2>1, <2>2, <2>3, Zenon
<1>9. ASSUME NEW q \in Rows, DeleteOwn(c, q) PROVE OK
    BY <1>0, <1>9, OwnEffect DEF Accounts, Local
<1>10. CASE EndStmt(c)
    BY <1>0, <1>10, AccountsCut, EndEffect DEF Shorter, Local, TypesInv, Frames, InStmt
<1>11. ASSUME NEW i, Release(c, i) PROVE OK
  <2>1. holder' = holder /\ hist'[c] = hist[c] /\ i \in 1 .. Len(saves[c]) /\ saves'[c] = SubSeq(saves[c], 1, i - 1)
    BY <1>0, <1>11, ReleaseEffect, Zenon DEF Local
  <2> QED
    BY <1>0, <2>1, AccountsCut
<1>12. CASE Rollback(c) \/ CopyToShared(c)
    BY <1>0, <1>12, RollbackEffect DEF Accounts
<1>13. CASE UndoStmt(c) \/ \E i : RollbackTo(c, i)
  <2>1. PICK k \in 1 .. Len(saves[c]) :
           /\ saves'[c] = SubSeq(saves[c], 1, k - 1) \/ saves'[c] = SubSeq(saves[c], 1, k)
           /\ saves[c][k].n \in 0 .. Len(hist[c])
           /\ RollbackToSave(c, saves[c][k])
    BY <1>13, BackEffect, Zenon
  <2>2. /\ \A r \in Rows : holder'[r] = IF Released(hist[c], saves[c][k].n, r) THEN NoConn ELSE holder[r]
        /\ hist'[c] = SubSeq(hist[c], 1, saves[c][k].n)
    BY <2>1, BackRows, Zenon
  <2>3. ASSUME NEW i \in 1 .. Len(saves[c]), NEW r \in Rows, holder'[r] = c
        PROVE  r \in saves[c][i].rows \/ Released(hist'[c], saves[c][i].n, r)
    <3>1. holder[r] = c /\ ~Released(hist[c], saves[c][k].n, r)
      BY <1>0, <2>2, <2>3, Zenon
    <3>2. r \in saves[c][i].rows \/ Released(hist[c], saves[c][i].n, r)
      BY <3>1, Zenon DEF Accounts
    <3> QED
      BY SMTT(30), <1>0, <2>1, <2>2, <3>1, <3>2, SavesAre, ReleasedCut
  <2>4. Accounts(saves[c], hist'[c], holder', c)
    BY <2>3, Zenon DEF Accounts
  <2>5. k - 1 \in 0 .. Len(saves[c]) /\ k \in 0 .. Len(saves[c])
    BY <1>0
  <2> QED
    BY <1>0, <2>1, <2>4, <2>5, AccountsCut, Zenon
<1> HIDE DEF OK
<1> QED
    BY <1>3, <1>4, <1>5, <1>6, <1>7, <1>8, <1>9, <1>10, <1>11, <1>12, <1>13, Zenon DEF Stmt, Trans

LEMMA HoldsHold == ASSUME Least, "unlock" \notin Cases PROVE Spec => []HoldsInv
<1>1. Init => HoldsInv
    BY DEF Init, HoldsInv, Accounts
<1>2. ASSUME TypesInv, RowsInv, HoldsInv, [Next]_vars PROVE HoldsInv'
  <2>1. CASE UNCHANGED vars
    BY <1>2, <2>1, Zenon DEF vars, HoldsInv
  <2>2. ASSUME NEW c \in Conns, Stmt(c) \/ Trans(c) PROVE HoldsInv'
    <3>3. ASSUME NEW d \in Conns \ {c} PROVE Accounts(saves'[d], hist'[d], holder', d)
      BY <1>2, <2>2, HoldersKept, OthersSame DEF Accounts, Others, Same, TypesInv, HoldsInv
    <3> QED
      BY <1>2, <2>2, <3>3, AccountsOwn, Zenon DEF HoldsInv
  <2> QED
    BY <1>2, <2>1, <2>2, Zenon DEF Next
<1> QED
    BY <1>1, <1>2, TypesHold, RowsHold, PTL DEF Spec

LEMMA SavepointExactFollows ==
    ASSUME Least, "unlock" \notin Cases, "clear" \notin Cases PROVE Spec => SavepointExact
<1> DEFINE Exact(c) ==
       \/ UndoStmt(c) \/ \E i \in 1 .. bound.saves : RollbackTo(c, i)
       => \E sp \in {saves[c][Len(saves'[c]) + IF pc[c] = "undo" THEN 1 ELSE 0]} :
             /\ {r \in Rows : holder'[r] = c} = sp.rows
             /\ tx'[c].deleteAll = sp.deleteAll
             /\ lock'[c].level = sp.level
<1>1. ASSUME TypesInv, LevelsInv, HoldsInv, NEW c \in Conns, UndoStmt(c) \/ \E i : RollbackTo(c, i)
      PROVE  Exact(c)
  <2>0. /\ saves[c] \in Seq(SaveRec) /\ NoConn # c /\ Accounts(saves[c], hist[c], holder, c)
        /\ LevelOK(lock[c], want[c], tx[c], hist[c], saves[c], pc[c])
    BY <1>1, OwnFields, TransConstants, Zenon DEF TypesInv, LevelsInv, HoldsInv
  <2>1. PICK k \in 1 .. Len(saves[c]) :
           /\ \/ pc[c] = "undo" /\ saves'[c] = SubSeq(saves[c], 1, k - 1)
              \/ pc[c] = "idle" /\ saves'[c] = SubSeq(saves[c], 1, k)
           /\ RollbackToSave(c, saves[c][k])
    BY <1>1, BackEffect, Zenon
  <2>2. Len(saves'[c]) + (IF pc[c] = "undo" THEN 1 ELSE 0) = k
    <3>3. \/ pc[c] = "undo" /\ Len(saves'[c]) = k - 1
          \/ pc[c] = "idle" /\ Len(saves'[c]) = k
      BY <2>0, <2>1, Cut
    <3>4. k \in Nat
      BY <2>0
    <3>5. CASE pc[c] = "undo" /\ Len(saves'[c]) = k - 1
      BY <3>4, <3>5
    <3>6. CASE pc[c] = "idle" /\ Len(saves'[c]) = k
      BY SMTT(30), <3>4, <3>6
    <3> QED
      BY <3>3, <3>5, <3>6, Zenon
  <2>4. {r \in Rows : holder'[r] = c} = saves[c][k].rows
    <3>3. \A r \in Rows : holder[r] = c => r \in saves[c][k].rows \/ Released(hist[c], saves[c][k].n, r)
      BY <2>0, Zenon DEF Accounts
    <3> QED
      BY <1>1, <2>0, <2>1, <3>3, BackRows, SaveFields
  <2> QED
    BY <1>1, <2>0, <2>1, <2>2, <2>4, BackLevel, Zenon
<1>2. ASSUME TypesInv, LevelsInv, HoldsInv, [Next]_vars PROVE [\A c \in Conns : Exact(c)]_vars
    BY <1>1, <1>2, Zenon
<1> QED
    BY <1>2, TypesHold, LevelsHold, HoldsHold, PTL DEF Spec, SavepointExact

------------------------------------------------------------------------------
(* Commits *)

LEMMA DeletesOwn ==
    ASSUME Least,
           TypesInv, TurnsInv, PagesInv, ~bound.overlap, NEW c \in Conns, Stmt(c) \/ Trans(c),
           Deletes(tx[c], saves[c], db.now)
    PROVE  Deletes(tx'[c], saves'[c], db'.now)
<1> DEFINE OK == Deletes(tx'[c], saves'[c], db'.now)
<1> SUFFICES OK
    BY Zenon
<1>0. Types /\ tx[c] \in Tx /\ saves[c] \in Seq(SaveRec) /\ Len(saves[c]) \in Nat
    BY OwnFields DEF TypesInv
<1>1. ASSUME tx'[c].del = tx[c].del, saves'[c] = saves[c], db' = db PROVE OK
    BY <1>1, Zenon DEF Deletes
<1>2. CASE Rollback(c) \/ CopyToShared(c)
    BY <1>0, <1>2, RollbackEffect DEF Deletes, NoTx
<1>3. ASSUME ~CopyToShared(c) PROVE db' = db
    BY <1>0, <1>3, EverGrows, Zenon
<1>4. ~CopyToShared(c) \/ OK
    BY <1>2, Zenon
<1>5. ASSUME NEW p, Moves(c, p), db' = db PROVE OK
    BY <1>1, <1>5, Zenon DEF Moves, Local
<1>6. CASE TableLockRefused(c) \/ RowRefused(c) \/ ClearRefused(c) \/ CopyFails(c) \/ WriteHeader(c) \/ WritePage(c)
    BY <1>0, <1>3, <1>4, <1>5, <1>6, MovesEffect, Zenon
<1>7. CASE Commit(c) \/ TableLock(c) \/ \E l : BeginStmt(c, l)
    BY <1>0, <1>1, <1>3, <1>4, <1>7, BeginEffect, CommitEffect, TableLockEffect, Zenon
       DEF Moves, Local
<1>8. CASE OpenCursor(c) \/ ClearTable(c)
  <2>1. saves'[c] = saves[c] /\ (tx'[c] \in {tx[c], [tx[c] EXCEPT !.root = "btree"]} \/ Cleared(tx'[c], tx[c]))
    BY <1>0, <1>8, CursorEffect, ClearEffect, Zenon DEF Moves, Local
  <2> QED
    BY <1>0, <1>1, <1>3, <1>4, <2>1, Zenon DEF Tx, Cleared
<1>9. CASE OpenStmt(c) \/ Savepoint(c)
  <2>1. /\ saves'[c] \in {saves[c], Append(saves[c], Save(c, tx[c]))}
        /\ tx'[c] \in {tx[c], [tx[c] EXCEPT !.begun = TRUE]}
    BY <1>0, <1>9, OpenEffect, SavepointEffect, Zenon DEF Moves, Local
  <2>2. tx'[c].del = tx[c].del
    BY <1>0, <2>1, Zenon DEF Tx
  <2>3. PICK sp \in SaveRec : sp = Save(c, tx[c]) /\ sp.del = tx[c].del
    BY <1>0, SaveType, Zenon DEF Save
  <2>4. /\ Len(Append(saves[c], sp)) = Len(saves[c]) + 1 /\ Append(saves[c], sp)[Len(saves[c]) + 1] = sp
        /\ \A i \in 1 .. Len(saves[c]) : Append(saves[c], sp)[i] = saves[c][i]
    BY <1>0, Appended
  <2>5. Deletes(tx'[c], Append(saves[c], sp), db.now)
    BY <1>0, <2>2, <2>3, <2>4 DEF Deletes
  <2> QED
    BY <1>3, <1>4, <2>1, <2>2, <2>3, <2>5, Zenon DEF Deletes
<1>10. ASSUME NEW r \in Rows, Insert(c, r, TRUE) \/ Insert(c, r, FALSE) \/ DeleteShared(c, r) PROVE OK
  <2>1. pc[c] = "rows" /\ saves'[c] = saves[c]
    BY <1>0, <1>10, RowEffect, Zenon DEF Local
  <2>2. tx[c].del \subseteq tx'[c].del /\ tx'[c].del \ tx[c].del \subseteq RowsIn(cache[c].page)
    BY <1>0, <1>10, RowEffect, Zenon DEF Wrote
  <2> QED
    BY <1>3, <1>4, <2>1, <2>2, Zenon DEF Deletes, PagesInv, CacheOK, TurnsInv
<1>11. ASSUME NEW r \in Rows, DeleteOwn(c, r) PROVE OK
    BY <1>0, <1>1, <1>3, <1>4, <1>11, OwnEffect, ZenonT(30) DEF Local
<1>12. CASE EndStmt(c)
    BY <1>0, <1>3, <1>4, <1>12, DeletesCut, EndEffect DEF Shorter, Local, TypesInv, Frames, InStmt
<1>13. ASSUME NEW i, Release(c, i) PROVE OK
  <2>1. tx'[c] = tx[c] /\ i \in 1 .. Len(saves[c]) /\ saves'[c] = SubSeq(saves[c], 1, i - 1)
    BY <1>0, <1>13, ReleaseEffect, Zenon DEF Local
  <2> QED
    BY <1>0, <1>3, <1>4, <2>1, DeletesCut
<1>14. CASE UndoStmt(c) \/ \E i : RollbackTo(c, i)
  <2>1. PICK k \in 1 .. Len(saves[c]) :
           /\ saves'[c] = SubSeq(saves[c], 1, k - 1) \/ saves'[c] = SubSeq(saves[c], 1, k)
           /\ saves[c][k] \in SaveRec /\ saves[c][k].n \in 0 .. Len(hist[c])
           /\ RollbackToSave(c, saves[c][k])
    BY <1>14, BackEffect, Zenon
  <2>2. tx'[c].del = saves[c][k].del
    BY <1>0, <2>1, BackTypes, ZenonT(30)
  <2>3. Deletes(tx'[c], SubSeq(saves[c], 1, k), db.now)
    BY SMTT(30), <1>0, <2>2, Cut DEF Deletes
  <2>4. Deletes(tx'[c], SubSeq(saves[c], 1, k - 1), db.now)
    BY <1>0, <2>2, Cut DEF Deletes
  <2> QED
    BY <1>3, <1>4, <2>1, <2>3, <2>4, Zenon
<1> HIDE DEF OK
<1> QED
    BY <1>2, <1>6, <1>7, <1>8, <1>9, <1>10, <1>11, <1>12, <1>13, <1>14, Zenon DEF Stmt, Trans

(* A commit of c removes no row that another transaction wants to delete: *)
(* the other one has locked it.                                            *)
LEMMA DeletesOthers ==
    ASSUME TypesInv, RowsInv, ClearIsAlone, NEW c \in Conns, Stmt(c) \/ Trans(c), NEW d \in Conns \ {c},
           Deletes(tx[d], saves[d], db.now)
    PROVE  Deletes(tx'[d], saves'[d], db'.now)
<1>0. Types /\ tx'[d] = tx[d] /\ saves'[d] = saves[d]
    BY OthersSame, Zenon DEF TypesInv, Others, Same
<1>1. CASE db' = db
    BY <1>0, <1>1, Zenon
<1>2. CASE CopyToShared(c) /\ Changed(c)
  <2>1. db'.now = Copied(c, db.now) /\ db.now \in Pages
    BY <1>0, <1>2 DEF CopyToShared, Types, Db
  <2>2. ASSUME NEW r \in tx[d].del PROVE r \in RowsIn(Copied(c, db.now))
    BY <1>0, <2>1, CopiedType DEF RowsIn, RowsInv, Protects, ClearIsAlone, Deletes
  <2> QED
    BY <1>0, <2>1, <2>2, Zenon DEF Deletes
<1> QED
    BY <1>0, <1>1, <1>2, EverGrows, Zenon

LEMMA StaysHold == ASSUME Least, "unlock" \notin Cases, "clear" \notin Cases PROVE Spec => []StaysInv
<1>1. Init => StaysInv
    BY DEF Init, StaysInv, TurnsInv, PagesInv, CacheOK, Deletes, NoTx
<1>2. ASSUME TypesInv, RowsInv, ClearIsAlone, StaysInv, [Next]_vars PROVE StaysInv'
  <2>1. CASE UNCHANGED vars
    BY <1>2, <2>1 DEF vars, StaysInv, TurnsInv, PagesInv, CacheOK, Deletes, RowsIn
  <2>2. ASSUME NEW c \in Conns, Stmt(c) \/ Trans(c), UNCHANGED bound PROVE StaysInv'
    <3> SUFFICES ASSUME ~bound.overlap PROVE TurnsInv' /\ PagesInv' /\ \A d \in Conns : Deletes(tx'[d], saves'[d], db'.now)
      BY <2>2, Zenon DEF StaysInv
    <3> QED
      BY <1>2, <2>2, DeletesOthers, DeletesOwn, PagesKept, TurnsKept, Zenon
         DEF TypesInv, StaysInv
  <2> QED
    BY <1>2, <2>1, <2>2, ZenonT(30) DEF Next
<1> QED
    BY <1>1, <1>2, TypesHold, RowsHold, ClearIsAloneFollows, PTL DEF Spec

LEMMA CommitsStayFollows ==
    ASSUME Least, "unlock" \notin Cases, "clear" \notin Cases PROVE Spec => []CommitsStay
<1>1. ASSUME TypesInv, StaysInv PROVE CommitsStay
  <2> SUFFICES ASSUME ~bound.overlap PROVE DeleteFindsRow /\ (reserved = NoConn => file.page = db.now)
    BY Zenon DEF CommitsStay
  <2>0. /\ Types /\ Counters /\ TurnsInv /\ PagesInv /\ \A c \in Conns : Deletes(tx[c], saves[c], db.now)
    BY <1>1, Zenon DEF TypesInv, StaysInv
  <2>1. ASSUME NEW c \in Conns, pc[c] = "commit" PROVE tx[c].del \subseteq RowsIn(CommitCache(c).page)
    <3>1. \A d \in Conns : pc[d] \notin {"write", "page"}
      BY <2>0, <2>1, Zenon DEF TurnsInv
    <3>3. /\ cache[c].vers = file.vers /\ cache[c].page # NoPage => cache[c].page = file.page
          /\ cache[c].vers <= file.vers /\ cache[c].vers \in Nat /\ file.vers \in Nat
      BY <2>0, <2>1, <3>1, Zenon DEF PagesInv, CacheOK, Counters, Types, CacheRec
    <3> QED
      BY SMTT(30), <2>0, <3>1, <3>3, CommitCacheType DEF Deletes, PagesInv
  <2>3. ASSUME reserved = NoConn PROVE file.page = db.now
    BY <2>0, <2>3, TransConstants, Zenon DEF PagesInv, Counters, Ending
  <2> QED
    BY <2>1, <2>3, Zenon DEF DeleteFindsRow
<1> QED
    BY <1>1, TypesHold, StaysHold, PTL

------------------------------------------------------------------------------
INSTANCE WellFoundedInduction

(* A nonempty set of naturals has a least member. *)
LEMMA Smallest == Least
<1> SUFFICES ASSUME NEW S \in SUBSET Nat, S # {}
             PROVE  \E m \in S : \A n \in S : m <= n
    BY Zenon DEF Least
<1>1. PICK R : IsWellFoundedOn(R, Nat) /\ \A x, y \in Nat : <<x, y>> \in R <=> x < y
    BY NatLessThanWellFounded DEF OpToRel
<1>2. PICK x \in S : \A y \in S : ~ (<<y, x>> \in R)
  <2>2. IsWellFoundedOn(R, Nat)
    BY <1>1, Zenon
  <2> QED
    BY <2>2, WFMin, Zenon
<1>3. \A y \in S : ~ (y < x)
    BY <1>1, <1>2, Zenon
<1> QED
    BY <1>2, <1>3

(* The types hold, whatever overlaps, and every savepoint points into the   *)
(* lock history of its connection, also after rowlockSavepoint has cut it:  *)
(* the loop of rowlockSavepoint never starts behind the end.                *)
THEOREM TypeOKHolds == Spec => []TypeOK
    BY Smallest, TypeOKFollows, PTL

(* Read Committed (README.md): a connection reads, and the file holds, no   *)
(* row content that was never committed, for any number of connections and  *)
(* commits that overlap, and whatever of them fails: sqlite3RollbackAll     *)
(* drops the page that sqlite3TransBtreeCommit has copied rows to.          *)
THEOREM NoDirtyReadHolds == Spec => []NoDirtyRead
    BY Smallest, NoDirtyReadFollows, PTL

(* "When user modifies record in a table, a record lock is acquired"        *)
(* (README.md:5): the rows a transaction has changed are locked by it until *)
(* it ends, for any number of connections, rows and savepoints, as long as  *)
(* no rollback to a savepoint meets a row that the transaction has unlocked *)
(* since (in DELETE of a row of its own).                                   *)
THEOREM RowsProtectedHolds == ASSUME "unlock" \notin Cases PROVE Spec => []RowsProtected
    BY Smallest, RowsProtectedFollows, PTL

(* While a transaction has emptied the table with DELETE without WHERE, no  *)
(* other transaction has changes in it: the WRITEEX lock that               *)
(* sqlite3TransBtreeClearTable takes is kept until the flag is given up,    *)
(* through failed statements and rollbacks to savepoints.  The theorem is   *)
(* about histories in which rowlockSavepoint does not go back over the      *)
(* opening of a table that had been emptied before (see Special).           *)
THEOREM ClearIsAloneHolds == ASSUME "clear" \notin Cases PROVE Spec => []ClearIsAlone
    BY Smallest, ClearIsAloneFollows, PTL

(* ROLLBACK TO a savepoint, and the rollback of a failed statement, are     *)
(* exact: rowlockSavepoint, which only reads the entries of the lock        *)
(* history since the savepoint, leaves the row locks, the level of the      *)
(* table lock and the flag of DELETE without WHERE that the connection had  *)
(* then.  Both special cases of a rollback are excluded (see Special);      *)
(* without that the statement is false.                                     *)
THEOREM SavepointExactHolds ==
    ASSUME "unlock" \notin Cases, "clear" \notin Cases PROVE Spec => SavepointExact
    BY Smallest, SavepointExactFollows, PTL

(* Where transactions overlap but statements and commits take turns, no     *)
(* commit is lost and none undoes another one: every row that               *)
(* transBtreeCommitTableDelete looks for is in the shared btree, and once   *)
(* nobody has the RESERVED lock, the file has exactly what was committed.   *)
(* It rests on the row locks (RowsProtected), on the WRITEEX lock           *)
(* (ClearIsAlone), and on the reload of a cache that is older than the file.*)
THEOREM CommitsStayHolds ==
    ASSUME "unlock" \notin Cases, "clear" \notin Cases PROVE Spec => []CommitsStay
    BY Smallest, CommitsStayFollows, PTL

=============================================================================
