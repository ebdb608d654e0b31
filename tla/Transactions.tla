----------------------------- MODULE Transactions -----------------------------
(***************************************************************************)
(* Transactions over one table of a database file that several processes   *)
(* share.  A transaction collects its changes in a transaction btree of    *)
(* its own (the rows it inserts or updates, the rows it deletes, a flag    *)
(* for DELETE without WHERE) and locks the rows it changes; COMMIT copies  *)
(* them to the shared btree in the page cache of its process and the pager *)
(* writes the cache to the file.  This module composes the row locks (as   *)
(* RowLocks specifies them), the table lock (a level and the inUse flag,   *)
(* granted as in IpcTable), the lock history with its savepoints, and the  *)
(* page caches.  All rows of the table are on one page of the file.        *)
(*                                                                         *)
(* pc of a connection:                                                     *)
(*   "idle"     between statements (in a transaction if nStmt > 0)         *)
(*   "begin"    in sqlite3BtreeBeginTransAll, sqlite_master READ-locked    *)
(*   "open"     before OP_TableLock                                        *)
(*   "run"      the table is locked, no cursor opened yet                  *)
(*   "rows"     a cursor is open                                           *)
(*   "over"     DELETE without WHERE is done                               *)
(*   "undo"     the statement has failed                                   *)
(*   "commit"   in sqlite3TransBtreeCommit, all locks taken                *)
(*   "write"    copied; the pager has to write page 1, the file header     *)
(*   "page"     the pager has to write the page of the table               *)
(*   "abort"    COMMIT has failed, sqlite3RollbackAll comes next           *)
(***************************************************************************)
EXTENDS Naturals, Sequences, Folds

CONSTANTS Rows,      \* rowids
          Initial,   \* the rows in the file at the start
          Conns,
          NoConn,
          Absent,    \* no such row
          Old,       \* the content of a row in the file at the start
          NoPage,    \* the page is not in the cache
          MaxHist,   \* bound: length of a lock history
          Bounds,    \* the values of the variable bound to explore
          Cases      \* special rollbacks to explore: "unlock", "clear"

ASSUME TransConstants ==
    /\ Initial \subseteq Rows
    /\ NoConn \notin Conns
    /\ MaxHist \in Nat
    /\ Bounds \subseteq [overlap : BOOLEAN, stmts : Nat, vers : Nat, saves : Nat]
    /\ Cases \subseteq {"unlock", "clear"}

VARIABLES file,      \* change counter and page of the database file
          cache,     \* of each connection: the same, as it has read them
          reserved,  \* who has the RESERVED lock of the file
          holder,    \* of each row: who has its lock
          lock,      \* of each connection: its lock of the table
          want,      \* the lock level of the statement
          tx,        \* of each connection: TransRootPage and transaction btree
          hist,      \* of each connection: its RowLockHistory
          saves,     \* of each connection: its savepoints
          pc,
          nStmt,     \* statements of the transaction so far
          db,        \* history variable: the committed content, now and ever
          bound      \* of this behaviour: statements of the open transactions,
                     \* writes of the file, savepoints set by SAVEPOINT, and
                     \* whether statements and commits overlap

vars == <<file, cache, reserved, holder, lock, want, tx, hist, saves, pc, nStmt, db, bound>>
inTx == <<tx, hist, saves>>

NOT_LOCKED == 0
READ == 1
WRITE == 2
WRITEEX == 3
EXCLSV == 4

RowsIn(page) == {r \in Rows : page[r] # Absent}

(* root: no TransRootPage, one made by DELETE without WHERE (iIns = 0), or *)
(* one with transaction btrees.  begun: the transaction btree is in a      *)
(* write transaction.                                                      *)
NoTx == [root |-> "none", deleteAll |-> 0, ins |-> {}, del |-> {}, begun |-> FALSE]
Unlocked == [level |-> NOT_LOCKED, inUse |-> FALSE]
Start == [r \in Rows |-> IF r \in Initial THEN Old ELSE Absent]

Init ==
    /\ file = [vers |-> 0, page |-> Start]
    /\ cache = [c \in Conns |-> [vers |-> 0, page |-> NoPage]]
    /\ reserved = NoConn
    /\ holder = [r \in Rows |-> NoConn]
    /\ lock = [c \in Conns |-> Unlocked]
    /\ want = [c \in Conns |-> NOT_LOCKED]
    /\ tx = [c \in Conns |-> NoTx]
    /\ hist = [c \in Conns |-> <<>>]
    /\ saves = [c \in Conns |-> <<>>]
    /\ pc = [c \in Conns |-> "idle"]
    /\ nStmt = [c \in Conns |-> 0]
    /\ db = [now |-> Start, ever |-> [r \in Rows |-> {Start[r]}]]
    /\ bound \in Bounds

Go(c, s) == pc' = [pc EXCEPT ![c] = s]
Turn(c) == bound.overlap \/ \A d \in Conns \ {c} : pc[d] = "idle"

------------------------------------------------------------------------------
(* Page cache *)

(* rowlockPagerCheckDbFileVers: the file has become newer. *)
NeedReset(c) == cache[c].vers < file.vers

(* rowlockPagerCacheReset and rowlockPagerReloadDbPage: the cached pages   *)
(* are dropped and page 1 is read again.                                   *)
Reloaded == [vers |-> file.vers, page |-> NoPage]

(* rowlockBtreeCacheReset *)
CacheReset(c) == IF NeedReset(c) THEN Reloaded ELSE cache[c]

(* A page that is not in the cache is read from the file. *)
Loaded(ch) == IF ch.page = NoPage THEN [ch EXCEPT !.page = file.page] ELSE ch

(* What a cursor of c returns: transBtree over the shared btree. *)
View(c) ==
    (IF tx[c].deleteAll = 1 THEN {} ELSE RowsIn(cache[c].page) \ tx[c].del) \cup tx[c].ins

------------------------------------------------------------------------------
(* Table lock: LockTable of IpcTable for one table *)

(* Mutant of Refused: writers do not exclude a DELETE without WHERE. *)
RefusedExclusiveOnly(c, l, commit) ==
    \E d \in Conns \ {c} : lock[d].level = EXCLSV \/ (commit /\ lock[d].inUse)

(* Another connection refuses level l. *)
Refused(c, l, commit) ==
    \E d \in Conns \ {c} :
        \/ lock[d].level = EXCLSV
        \/ ~commit /\ lock[d].level >= WRITE /\ l >= WRITEEX
        \/ ~commit /\ lock[d].level >= WRITEEX /\ l >= WRITE
        \/ commit /\ lock[d].inUse

(* The caller's own element answers if its level is high enough, unless    *)
(* the probe meets one that refuses before.                                *)
Enough(c, l) == lock[c].level >= l
Granted(c, l) ==
    lock' = [lock EXCEPT ![c] = IF Enough(c, l) THEN @ ELSE [level |-> l, inUse |-> TRUE]]

LockEntry(c, l) ==
    IF Enough(c, l) THEN <<>> ELSE <<[type |-> "lock", prev |-> lock[c].level, row |-> NoConn]>>

(* sqlite3BtreeUnlockStmtTableLock *)
StmtUnlocked(lk) ==
    [level |-> IF lk.level = READ THEN NOT_LOCKED ELSE lk.level, inUse |-> FALSE]

------------------------------------------------------------------------------
(* Statements *)

(* The statements of all open transactions. *)
Statements == MapThenFoldSet(+, 0, LAMBDA c : nStmt[c], LAMBDA S : CHOOSE c \in S : TRUE, Conns)

HoldsSchema(c) == pc[c] = "commit" /\ tx[c].root # "none"

(* sqlite3BtreeBeginTransAll locks sqlite_master for reading. *)
BeginStmt(c, l) ==
    /\ pc[c] = "idle"
    /\ Turn(c)
    /\ Statements < bound.stmts
    /\ \A d \in Conns \ {c} : ~HoldsSchema(d)
    /\ nStmt' = [nStmt EXCEPT ![c] = @ + 1]
    /\ want' = [want EXCEPT ![c] = l]
    /\ Go(c, "begin")
    /\ UNCHANGED <<file, cache, reserved, holder, lock, inTx, db>>

(* What a savepoint remembers: the length of the history and, in the pager *)
(* of the transaction btree, its content.  level, deleteAll and rows are   *)
(* recorded for SavepointExact only.                                       *)
Save(c, t) ==
    [n |-> Len(hist[c]), ins |-> t.ins, del |-> t.del, deleteAll |-> t.deleteAll,
     level |-> lock[c].level, rows |-> {r \in Rows : holder[r] = c}]

(* The rest of it: the cache is checked, sqlite_master is unlocked, and a  *)
(* writing statement starts a transaction of the transaction btree and a   *)
(* statement savepoint.                                                    *)
OpenStmt(c) ==
    /\ pc[c] = "begin"
    /\ cache' = [cache EXCEPT ![c] = CacheReset(c)]
    /\ IF want[c] = WRITE
       THEN /\ tx' = [tx EXCEPT ![c].begun = TRUE]
            /\ saves' = [saves EXCEPT ![c] = Append(@, Save(c, tx[c]))]
       ELSE UNCHANGED <<tx, saves>>
    /\ Go(c, "open")
    /\ UNCHANGED <<file, reserved, holder, lock, want, hist, nStmt, db>>

(* OP_TableLock *)
TableLock(c) ==
    /\ pc[c] = "open"
    /\ Enough(c, want[c]) \/ ~Refused(c, want[c], FALSE)
    /\ Granted(c, want[c])
    /\ hist' = [hist EXCEPT ![c] = @ \o LockEntry(c, want[c])]
    /\ cache' = [cache EXCEPT ![c] = CacheReset(c)]
    /\ Go(c, "run")
    /\ UNCHANGED <<file, reserved, holder, want, tx, saves, nStmt, db>>

TableLockRefused(c) ==
    /\ pc[c] = "open"
    /\ Refused(c, want[c], FALSE)
    /\ Go(c, "undo")
    /\ UNCHANGED <<file, cache, reserved, holder, lock, want, inTx, nStmt, db>>

(* transBtreeCursor: the first cursor on the table creates its transaction *)
(* btrees, if there is a write transaction.                                *)
OpenCursor(c) ==
    /\ pc[c] = "run"
    /\ IF tx[c].root # "btree" /\ tx[c].begun
       THEN /\ tx' = [tx EXCEPT ![c].root = "btree"]
            /\ hist' = [hist EXCEPT ![c] =
                           Append(@, [type |-> "new", prev |-> 0, row |-> NoConn])]
       ELSE UNCHANGED <<tx, hist>>
    /\ cache' = [cache EXCEPT ![c] = Loaded(cache[c])]
    /\ Go(c, "rows")
    /\ UNCHANGED <<file, reserved, holder, lock, want, saves, nStmt, db>>

(* Mutant of LockRecord: the history gets no entry. *)
LockRecordNoHistory(c, r) ==
    /\ holder[r] \in {c, NoConn}
    /\ holder' = [holder EXCEPT ![r] = c]
    /\ hist' = hist

(* sqlite3rowlockIpcLockRecord and sqlite3rowlockHistoryAddRecord *)
LockRecord(c, r) ==
    /\ holder[r] \in {c, NoConn}
    /\ holder' = [holder EXCEPT ![r] = c]
    /\ hist' = [hist EXCEPT ![c] =
                   IF holder[r] = c THEN @
                   ELSE Append(@, [type |-> "row", prev |-> 0, row |-> r])]

Writing(c) == pc[c] = "rows" /\ want[c] = WRITE /\ Len(hist[c]) < MaxHist

(* Mutant of Insert: the row goes to the deletion btree in any case. *)
InsertDeletesAlways(c, r, look) ==
    /\ Writing(c)
    /\ look \/ r \notin View(c)
    /\ LockRecord(c, r)
    /\ tx' = [tx EXCEPT ![c].ins = @ \cup {r},
                        ![c].del = @ \cup (IF look THEN {r} ELSE {})]
    /\ UNCHANGED <<file, cache, reserved, lock, want, saves, pc, nStmt, db>>

(* sqlite3TransBtreeInsert, for INSERT of a new row and UPDATE of a row.   *)
(* The deletion btree gets the row if it is in the shared btree; an INSERT *)
(* that appends does not look.                                             *)
Insert(c, r, look) ==
    /\ Writing(c)
    /\ look \/ r \notin View(c)
    /\ LockRecord(c, r)
    /\ tx' = [tx EXCEPT ![c].ins = @ \cup {r},
                        ![c].del = @ \cup (IF look THEN {r} \cap RowsIn(cache[c].page) ELSE {})]
    /\ UNCHANGED <<file, cache, reserved, lock, want, saves, pc, nStmt, db>>

(* Mutant of DeleteShared: the row is not locked. *)
DeleteSharedUnlocked(c, r) ==
    /\ Writing(c)
    /\ r \in View(c) \ tx[c].ins
    /\ tx' = [tx EXCEPT ![c].del = @ \cup {r}]
    /\ UNCHANGED <<file, cache, reserved, holder, lock, want, hist, saves, pc, nStmt, db>>

(* sqlite3TransBtreeDelete of a row of the shared btree. *)
DeleteShared(c, r) ==
    /\ Writing(c)
    /\ r \in View(c) \ tx[c].ins
    /\ LockRecord(c, r)
    /\ tx' = [tx EXCEPT ![c].del = @ \cup {r}]
    /\ UNCHANGED <<file, cache, reserved, lock, want, saves, pc, nStmt, db>>

(* sqlite3TransBtreeDelete of a row of the transaction btree: a row that   *)
(* the transaction has inserted is unlocked.                               *)
DeleteOwn(c, r) ==
    /\ Writing(c)
    /\ r \in tx[c].ins
    /\ holder' = IF r \in tx[c].del THEN holder ELSE [holder EXCEPT ![r] = NoConn]
    /\ tx' = [tx EXCEPT ![c].ins = @ \ {r}]
    /\ UNCHANGED <<file, cache, reserved, lock, want, hist, saves, pc, nStmt, db>>

(* The lock of a row is refused, or a constraint fails. *)
RowRefused(c) ==
    /\ Writing(c)
    /\ Go(c, "undo")
    /\ UNCHANGED <<file, cache, reserved, holder, lock, want, inTx, nStmt, db>>

(* rowlockLockRecordsQuery: another connection has locked a row that is in *)
(* the shared btree.                                                       *)
RowsLocked(c) == \E r \in RowsIn(Loaded(cache[c]).page) : holder[r] \notin {c, NoConn}

(* sqlite3TransBtreeClearTable, DELETE without WHERE: the table is locked  *)
(* against other writers, the locks of its rows are looked at, and a flag  *)
(* is set.                                                                 *)
ClearTable(c) ==
    /\ pc[c] = "run"
    /\ want[c] = WRITE
    /\ Enough(c, WRITEEX) \/ ~Refused(c, WRITEEX, FALSE)
    /\ Granted(c, WRITEEX)
    /\ cache' = [cache EXCEPT ![c] = Loaded(cache[c])]
    /\ IF RowsLocked(c)
       THEN /\ hist' = [hist EXCEPT ![c] = @ \o LockEntry(c, WRITEEX)]
            /\ Go(c, "undo")
            /\ UNCHANGED tx
       ELSE /\ hist' = [hist EXCEPT ![c] = @ \o LockEntry(c, WRITEEX) \o
                           <<[type |-> "clear", prev |-> tx[c].deleteAll, row |-> NoConn]>>]
            /\ tx' = [tx EXCEPT ![c].root = IF @ = "none" THEN "flag" ELSE @,
                                ![c].deleteAll = 1,
                                ![c].ins = {}]
            /\ Go(c, "over")
    /\ UNCHANGED <<file, reserved, holder, want, saves, nStmt, db>>

ClearRefused(c) ==
    /\ pc[c] = "run"
    /\ want[c] = WRITE
    /\ Refused(c, WRITEEX, FALSE)
    /\ Go(c, "undo")
    /\ UNCHANGED <<file, cache, reserved, holder, lock, want, inTx, nStmt, db>>

(* The end of a statement that has succeeded (its savepoint is released)   *)
(* or that only reads.                                                     *)
EndStmt(c) ==
    /\ pc[c] \in {"rows", "over"} \/ (pc[c] = "undo" /\ want[c] = READ)
    /\ lock' = [lock EXCEPT ![c] = StmtUnlocked(@)]
    /\ saves' = [saves EXCEPT ![c] = IF want[c] = WRITE THEN SubSeq(@, 1, Len(@) - 1) ELSE @]
    /\ want' = [want EXCEPT ![c] = NOT_LOCKED]
    /\ Go(c, "idle")
    /\ UNCHANGED <<file, cache, reserved, holder, tx, hist, nStmt, db>>

------------------------------------------------------------------------------
(* Savepoints *)

(* One entry of the history is undone (the case for a new table goes on    *)
(* into the one for a table lock).                                         *)
UndoEntry(u, e) ==
    CASE e.type = "row"   -> [u EXCEPT !.free = @ \cup {e.row}]
      [] e.type = "new"   -> [u EXCEPT !.root = "none", !.deleteAll = 0, !.level = e.prev]
      [] e.type = "lock"  -> [u EXCEPT !.level = e.prev]
      [] e.type = "clear" -> [u EXCEPT !.deleteAll = IF u.root = "none" THEN 0 ELSE e.prev]

(* The loop over the history, from its end back to the savepoint. *)
Undone(c, sp) ==
    LET undo[i \in sp.n .. Len(hist[c])] ==
            IF i = Len(hist[c])
            THEN [root |-> tx[c].root, deleteAll |-> tx[c].deleteAll, level |-> lock[c].level, free |-> {}]
            ELSE UndoEntry(undo[i + 1], hist[c][i + 1])
    IN  undo[sp.n]

(* The special cases of a rollback to sp: c has unlocked a row since (and  *)
(* may have locked it again), or it has opened a table that it had emptied *)
(* before.                                                                 *)
Special(c, sp) ==
    (IF /\ sp.rows \cap Undone(c, sp).free = {}
        /\ \A r \in sp.rows \cup Undone(c, sp).free : holder[r] = c
     THEN {} ELSE {"unlock"})
    \cup
    (IF sp.deleteAll = 1 /\ Undone(c, sp).root = "none" THEN {"clear"} ELSE {})

(* Mutant of KeptHistory: one entry too many is erased. *)
KeptHistoryShort(c, sp) == SubSeq(hist[c], 1, sp.n - 1)

KeptHistory(c, sp) == SubSeq(hist[c], 1, sp.n)

(* rowlockSavepoint(SAVEPOINT_ROLLBACK) undoes the history, and the pager  *)
(* restores the content of the transaction btree.  A row is unlocked       *)
(* whoever has locked it.                                                  *)
RollbackToSave(c, sp) ==
    /\ Special(c, sp) \subseteq Cases
    /\ \E u \in {Undone(c, sp)} :
          /\ holder' = [r \in Rows |-> IF r \in u.free THEN NoConn ELSE holder[r]]
          /\ tx' = [tx EXCEPT ![c] = [@ EXCEPT !.root = u.root, !.deleteAll = u.deleteAll,
                                               !.ins = sp.ins, !.del = sp.del]]
          /\ lock' = [lock EXCEPT ![c] = StmtUnlocked([@ EXCEPT !.level = u.level])]
    /\ hist' = [hist EXCEPT ![c] = KeptHistory(c, sp)]

(* A statement that failed inside a transaction is rolled back. *)
UndoStmt(c) ==
    /\ pc[c] = "undo"
    /\ want[c] = WRITE
    /\ Go(c, "idle")
    /\ saves' = [saves EXCEPT ![c] = SubSeq(@, 1, Len(@) - 1)]
    /\ want' = [want EXCEPT ![c] = NOT_LOCKED]
    /\ RollbackToSave(c, saves[c][Len(saves[c])])
    /\ UNCHANGED <<file, cache, reserved, nStmt, db>>

(* SAVEPOINT, ROLLBACK TO and RELEASE inside a transaction. *)
Savepoint(c) ==
    /\ pc[c] = "idle"
    /\ tx[c].begun
    /\ Len(saves[c]) < bound.saves
    /\ saves' = [saves EXCEPT ![c] = Append(@, Save(c, tx[c]))]
    /\ UNCHANGED <<file, cache, reserved, holder, lock, want, tx, hist, pc, nStmt, db>>

RollbackTo(c, i) ==
    /\ pc[c] = "idle"
    /\ i \in 1 .. Len(saves[c])
    /\ saves' = [saves EXCEPT ![c] = SubSeq(@, 1, i)]
    /\ UNCHANGED <<file, cache, reserved, want, pc, nStmt, db>>
    /\ RollbackToSave(c, saves[c][i])

Release(c, i) ==
    /\ pc[c] = "idle"
    /\ i \in 1 .. Len(saves[c])
    /\ saves' = [saves EXCEPT ![c] = SubSeq(@, 1, i - 1)]
    /\ UNCHANGED <<file, cache, reserved, holder, lock, want, tx, hist, pc, nStmt, db>>

------------------------------------------------------------------------------
(* The end of a transaction *)

(* sqlite3TransBtreeRollback: everything of the transaction is forgotten   *)
(* and all its locks are released.                                         *)
TransRollback(c) ==
    /\ tx' = [tx EXCEPT ![c] = NoTx]
    /\ hist' = [hist EXCEPT ![c] = <<>>]
    /\ saves' = [saves EXCEPT ![c] = <<>>]
    /\ holder' = [r \in Rows |-> IF holder[r] = c THEN NoConn ELSE holder[r]]
    /\ lock' = [lock EXCEPT ![c] = Unlocked]
    /\ want' = [want EXCEPT ![c] = NOT_LOCKED]
    /\ nStmt' = [nStmt EXCEPT ![c] = 0]

(* Mutant of PagerRollback: the pages stay in the cache as they are. *)
PagerRollbackNot(ch) == ch

(* The pager gives up the changes of its pages. *)
PagerRollback(ch) == [ch EXCEPT !.page = NoPage]

(* sqlite3RollbackAll (and the COMMIT of a transaction that has only read). *)
Rollback(c) ==
    /\ pc[c] \in {"undo", "abort", "rows", "over"} \/ (pc[c] = "idle" /\ nStmt[c] > 0)
    /\ TransRollback(c)
    /\ cache' = [cache EXCEPT ![c] = IF pc[c] = "abort" THEN PagerRollback(@) ELSE @]
    /\ reserved' = IF reserved = c THEN NoConn ELSE reserved
    /\ Go(c, "idle")
    /\ UNCHANGED <<file, db>>

(* isTableModified looks into the transaction btrees, not at the flag of   *)
(* TransRootPage (BtCursorTrans.deleteAll is never set).                   *)
IsTableModified(c) == tx[c].ins # {} \/ tx[c].del # {}

(* exclusiveLockTables is refused sqlite_master, or the table. *)
CommitRefused(c) ==
    /\ tx[c].root # "none"
    /\ \/ \E d \in Conns \ {c} : pc[d] = "begin" \/ HoldsSchema(d)
       \/ IsTableModified(c) /\ Refused(c, EXCLSV, TRUE)

(* COMMIT, or the end of a statement outside a transaction: sqlite3VdbeHalt *)
(* gets the RESERVED lock of the file and sqlite3TransBtreeCommit calls     *)
(* exclusiveLockTables.                                                     *)
Commit(c) ==
    /\ pc[c] \in {"rows", "over"} \/ (pc[c] = "idle" /\ Turn(c))
    /\ tx[c].begun
    /\ reserved = NoConn
    /\ file.vers < bound.vers
    /\ reserved' = c
    /\ IF CommitRefused(c)
       THEN Go(c, "abort") /\ UNCHANGED lock
       ELSE /\ Go(c, "commit")
            /\ IF IsTableModified(c) THEN Granted(c, EXCLSV) ELSE UNCHANGED lock
    /\ UNCHANGED <<file, cache, holder, want, inTx, nStmt, db>>

Changed(c) == tx[c].root # "none" /\ (IsTableModified(c) \/ tx[c].deleteAll = 1)

(* transBtreeCommitTableDelete, then transBtreeCommitTableInsert. *)
Copied(c, page) ==
    [r \in Rows |->
        IF r \in tx[c].ins THEN c
        ELSE IF tx[c].deleteAll = 1 \/ r \in tx[c].del THEN Absent
        ELSE page[r]]

(* Mutant of CommitCache: the page the statements have read is used. *)
CommitCacheOld(c) == Loaded(cache[c])

(* The cache that the rows are copied to. *)
CommitCache(c) == Loaded(CacheReset(c))

(* The rest of sqlite3TransBtreeCommit: the changes are copied to the      *)
(* shared btree and everything is released.  The file is not written yet.  *)
CopyToShared(c) ==
    /\ pc[c] = "commit"
    /\ TransRollback(c)
    /\ IF Changed(c)
       THEN /\ cache' = [cache EXCEPT ![c] = [CommitCache(c) EXCEPT !.page = Copied(c, @)]]
            /\ db' = [now  |-> Copied(c, db.now),
                      ever |-> [r \in Rows |-> db.ever[r] \cup {Copied(c, db.now)[r]}]]
            /\ Go(c, "write")
            /\ UNCHANGED reserved
       ELSE /\ cache' = [cache EXCEPT ![c] = CacheReset(c)]
            /\ reserved' = NoConn
            /\ Go(c, "idle")
            /\ UNCHANGED db
    /\ UNCHANGED file

(* An error while the changes are copied, after some of them. *)
CopyFails(c) ==
    /\ pc[c] = "commit"
    /\ Changed(c)
    /\ cache' = [cache EXCEPT ![c] = [CommitCache(c) EXCEPT !.page = Copied(c, @)]]
    /\ Go(c, "abort")
    /\ UNCHANGED <<file, reserved, holder, lock, want, inTx, nStmt, db>>

(* sqlite3PagerCommitPhaseOne writes the dirty pages in order: page 1 with *)
(* the change counter, then the page of the table.  No EXCLUSIVE lock of   *)
(* the file is taken (ROWLOCK_WAIT_ON_EXCLUSIVE_LOCK).                     *)
WriteHeader(c) ==
    /\ pc[c] = "write"
    /\ file' = [file EXCEPT !.vers = @ + 1]
    /\ cache' = [cache EXCEPT ![c].vers = file.vers + 1]
    /\ Go(c, "page")
    /\ UNCHANGED <<reserved, holder, lock, want, inTx, nStmt, db>>

WritePage(c) ==
    /\ pc[c] = "page"
    /\ file' = [file EXCEPT !.page = cache[c].page]
    /\ reserved' = NoConn
    /\ Go(c, "idle")
    /\ UNCHANGED <<cache, holder, lock, want, inTx, nStmt, db>>

Stmt(c) ==
    \/ BeginStmt(c, READ) \/ BeginStmt(c, WRITE) \/ OpenStmt(c)
    \/ TableLock(c) \/ TableLockRefused(c) \/ OpenCursor(c) \/ RowRefused(c)
    \/ ClearTable(c) \/ ClearRefused(c) \/ EndStmt(c) \/ UndoStmt(c)
    \/ \E r \in Rows :
         Insert(c, r, TRUE) \/ Insert(c, r, FALSE) \/ DeleteShared(c, r) \/ DeleteOwn(c, r)

Trans(c) ==
    \/ Rollback(c) \/ Commit(c) \/ CopyToShared(c) \/ CopyFails(c)
    \/ WriteHeader(c) \/ WritePage(c) \/ Savepoint(c)
    \/ \E i \in 1 .. bound.saves : RollbackTo(c, i) \/ Release(c, i)

Next == (\E c \in Conns : Stmt(c) \/ Trans(c)) /\ UNCHANGED bound

Spec == Init /\ [][Next]_vars

------------------------------------------------------------------------------

Vals == Conns \cup {Old, Absent}
Pages == [Rows -> Vals]
Entry == [type : {"row", "new", "lock", "clear"}, prev : NOT_LOCKED .. EXCLSV, row : Rows \cup {NoConn}]

(* The types; a savepoint never points behind the end of the lock history, *)
(* which rowlockSavepoint cuts.                                            *)
TypeOK ==
    /\ file \in [vers : 0 .. bound.vers, page : Pages]
    /\ \A c \in Conns : cache[c].vers \in 0 .. bound.vers /\ cache[c].page \in Pages \cup {NoPage}
    /\ reserved \in Conns \cup {NoConn}
    /\ holder \in [Rows -> Conns \cup {NoConn}]
    /\ lock \in [Conns -> [level : NOT_LOCKED .. EXCLSV, inUse : BOOLEAN]]
    /\ want \in [Conns -> NOT_LOCKED .. WRITE]
    /\ tx \in [Conns -> [root : {"none", "flag", "btree"}, deleteAll : {0, 1},
                         ins : SUBSET Rows, del : SUBSET Rows, begun : BOOLEAN]]
    /\ \A c \in Conns : \A i \in 1 .. Len(hist[c]) : hist[c][i] \in Entry
    /\ \A c \in Conns : \A i \in 1 .. Len(saves[c]) : saves[c][i].n \in 0 .. Len(hist[c])
    /\ nStmt \in [Conns -> Nat]

(* "When user modifies record in a table, a record lock is acquired"       *)
(* (README.md:5): a row that a transaction has changed stays locked by it  *)
(* until the transaction ends, through failed statements and rollbacks to  *)
(* savepoints, its own and those of others.                                *)
RowsProtected == \A c \in Conns : \A r \in tx[c].ins \cup tx[c].del : holder[r] = c

(* Rolling back to a savepoint restores what the connection had then: its  *)
(* changes, its row locks and the level of its table lock.                 *)
SavepointExact ==
    [][\A c \in Conns :
         \/ UndoStmt(c) \/ \E i \in 1 .. bound.saves : RollbackTo(c, i)
         => \E sp \in {saves[c][Len(saves'[c]) + IF pc[c] = "undo" THEN 1 ELSE 0]} :
               /\ {r \in Rows : holder'[r] = c} = sp.rows
               /\ tx'[c].deleteAll = sp.deleteAll
               /\ lock'[c].level = sp.level]_vars

(* Read Committed (README.md): a connection reads, and the file holds, no  *)
(* row content that was never committed, whatever statements, commits and  *)
(* failed commits overlap.                                                 *)
NoDirtyRead ==
    \A r \in Rows :
        /\ file.page[r] \in db.ever[r]
        /\ \A c \in Conns : cache[c].page # NoPage /\ pc[c] # "abort" => cache[c].page[r] \in db.ever[r]

(* While a transaction has emptied the table, no other transaction has     *)
(* changes of its own in it (WRITEEX_LOCK in sqlite3TransBtreeClearTable). *)
ClearIsAlone ==
    \A c, d \in Conns :
        c # d /\ tx[c].deleteAll = 1 => tx[d].ins = {} /\ tx[d].del = {} /\ tx[d].deleteAll = 0

(* "assert( res==0 )" in transBtreeCommitTableDelete (rowlock.c:2800): a   *)
(* row that COMMIT deletes is in the shared btree, because its lock kept   *)
(* the others from deleting it first.                                      *)
DeleteFindsRow ==
    \A c \in Conns :
        pc[c] = "commit" /\ tx[c].deleteAll = 0 => tx[c].del \subseteq RowsIn(CommitCache(c).page)

(* Where transactions overlap but statements and commits do not, the row   *)
(* locks and the reload of the page in sqlite3TransBtreeCommit are enough: *)
(* every row that COMMIT deletes is there, and what was committed is in    *)
(* the file once nobody is writing; no commit writes back a page that      *)
(* misses the rows of another one.                                         *)
CommitsStay ==
    ~bound.overlap => DeleteFindsRow /\ (reserved = NoConn => file.page = db.now)
=============================================================================
