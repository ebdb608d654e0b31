------------------------------ MODULE TableLocks ------------------------------
(***************************************************************************)
(* How the connections of several processes use the table-lock area of     *)
(* IpcTable: statements lock tables one by one and give READ locks back    *)
(* when they end, COMMIT raises the lock of every modified table to EXCLSV *)
(* and the end of a transaction releases everything.  Every call is one    *)
(* step, except that unlocking moves elements one by one and that the      *)
(* scans of sqlite3rowlockIpcUnlockTablesProcCore go from element to       *)
(* element; both stay inside the mutex.                                    *)
(*                                                                         *)
(* pc of a connection:                                                     *)
(*   "idle"    between statements (in a transaction if nStmt > 0)          *)
(*   "begin"   sqlite3BtreeBeginTransAll checks the page cache under a     *)
(*             READ lock of sqlite_master                                  *)
(*   "stmt"    processing a statement                                      *)
(*   "undo"    a lock was refused; the statement savepoint is rolled back  *)
(*   "end"     the statement is over, its locks are not yet given back     *)
(*   "commit"  inside sqlite3TransBtreeCommit                              *)
(*   "revert"  the failure path of exclusiveLockTables                     *)
(*   "abort"   sqlite3RollbackAll comes next                               *)
(*   "vacuum"  inside VACUUM                                               *)
(*   "giveup"  the failure path of sqlite3rowlockExclusiveLockAllTables    *)
(*   "dead"    the process has gone                                        *)
(***************************************************************************)
EXTENDS IpcTable, SequencesExt

CONSTANTS PidOf,      \* the process of a connection
          Cleaner,    \* the sqlumdash_cleaner process
          Scenes      \* the values of the variable scene to explore

ASSUME LockConstants ==
    /\ Cleaner \notin Conns \cup {NoConn}
    /\ Scenes \subseteq [clean : BOOLEAN, die : BOOLEAN, stmts : Nat,
                         tables : SUBSET Tables]

VARIABLES area,
          mutex,   \* who unlocks inside the mutex
          hole,    \* while rowlockIpcDelete moves elements: its arguments
          scan,    \* locals of UnlockTablesProcCore
          pc,
          nStmt,   \* statements of the transaction so far
          using,   \* tables the running statement has locked
          hist,    \* of the statement savepoint: <<table, previous level>>
          cm,      \* locals of exclusiveLockTables
          scene    \* of this behaviour: whether the cleaner is run, whether
                   \* processes crash or unload the library, the bound of the
                   \* statements of the open transactions, and the tables

vars == <<area, mutex, hole, scan, pc, nStmt, using, hist, cm, scene>>

NoHole == [start |-> 0, del |-> 0, end |-> 0]
NoScan == [who |-> {}, match |-> {}, trans |-> FALSE, idx |-> 0, start |-> 0]
NoCommit == [todo |-> {}, done |-> {}, prev |-> [t \in AllTables |-> NOT_LOCKED]]

Init ==
    /\ area = InitArea
    /\ mutex = NoConn
    /\ hole = NoHole
    /\ scan = NoScan
    /\ pc = [c \in Conns |-> "idle"]
    /\ nStmt = [c \in Conns |-> 0]
    /\ using = [c \in Conns |-> {}]
    /\ hist = [c \in Conns |-> <<>>]
    /\ cm = [c \in Conns |-> NoCommit]
    /\ scene \in Scenes

(* c makes a call to the area: nobody is inside the mutex. *)
At(c, s) == mutex = NoConn /\ pc[c] = s

Go(c, s) == pc' = [pc EXCEPT ![c] = s]

HoldsSchema(c) == LockTableQuery(area, SameOwner(c), SchemaRoot)

(* sqlite3BtreeBeginTransAll: the page cache is checked under a READ lock  *)
(* of sqlite_master, which is given back unless c held a lock before.      *)
BeginStmt(c) ==
    /\ At(c, "idle")
    /\ FoldFunction(+, 0, nStmt) < scene.stmts
    /\ nStmt' = [nStmt EXCEPT ![c] = @ + 1]
    /\ IF HoldsSchema(c) # NOT_LOCKED
       THEN Go(c, "stmt") /\ UNCHANGED area
       ELSE \E r \in {LockTable(area, c, SchemaRoot, READ, NORMAL)} :
                /\ area' = r.area
                /\ Go(c, IF r.rc = "OK" THEN "begin" ELSE "end")
    /\ UNCHANGED <<mutex, hole, scan, using, hist, cm>>

(* What a statement asks for: OP_TableLock once for every table it uses    *)
(* (EXCLSV in DDL), and WRITEEX for a delete-all of a table it writes.     *)
Request(c, t) ==
    IF t \in using[c]
    THEN IF t \in Tables /\ Level(area, c, t) = WRITE THEN {WRITEEX} ELSE {}
    ELSE IF t = SchemaRoot THEN {READ, WRITE} ELSE {READ, WRITE, EXCLSV}

(* A DDL statement, which also locks sqlite_master for writing. *)
IsDdl(c) == HoldsSchema(c) = WRITE \/ \E t \in Tables : Level(area, c, t) = EXCLSV

(* sqlite3rowlockIpcLockTableAndAddHistory.  A refused lock aborts the     *)
(* statement, and the whole transaction when sqlite3SetForceCommit finds   *)
(* that it is DDL.                                                         *)
StmtLock(c, t, l) ==
    /\ At(c, "stmt")
    /\ t \in scene.tables \cup {SchemaRoot}
    /\ l \in Request(c, t)
    /\ \E r \in {LockTable(area, c, t, l, NORMAL)} :
          /\ area' = r.area
          /\ IF r.rc = "OK"
             THEN /\ using' = [using EXCEPT ![c] = @ \cup {t}]
                  /\ hist' = [hist EXCEPT ![c] =
                                 @ \o SetToSeq({<<t, p>> : p \in {q \in r.prev : l > q}})]
                  /\ UNCHANGED pc
             ELSE /\ Go(c, IF HoldsSchema(c) = WRITE THEN "abort" ELSE "undo")
                  /\ UNCHANGED <<using, hist>>
    /\ UNCHANGED <<mutex, hole, scan, nStmt, cm>>

(* rowlockSavepoint(SAVEPOINT_ROLLBACK) for the statement savepoint: the   *)
(* latest entry of the history is undone.                                  *)
UndoLock(c) ==
    /\ At(c, "undo")
    /\ hist[c] # <<>>
    /\ area' = LockTable(area, c, Last(hist[c])[1], Last(hist[c])[2], FORCE).area
    /\ hist' = [hist EXCEPT ![c] = Front(@)]
    /\ UNCHANGED <<mutex, hole, scan, pc, nStmt, using, cm>>

UndoEnd(c) ==
    /\ At(c, "undo")
    /\ hist[c] = <<>>
    /\ Go(c, "end")
    /\ UNCHANGED <<area, mutex, hole, scan, nStmt, using, hist, cm>>

(* sqlite3TransBtreeCommit: exclusiveLockTables locks sqlite_master, then  *)
(* every table that the transaction has modified, which are tables it      *)
(* holds for writing.  (The branch without root pages is EndTrans.)        *)
Commit(c, modified) ==
    /\ At(c, "stmt") \/ (At(c, "idle") /\ nStmt[c] > 0)
    /\ \A t \in modified : Level(area, c, t) >= WRITE
    /\ \E r \in {LockTable(area, c, SchemaRoot, WRITE, COMMIT)} :
          /\ area' = r.area
          /\ IF r.rc = "OK"
             THEN /\ Go(c, "commit")
                  /\ cm' = [cm EXCEPT ![c].todo = modified,
                                      ![c].prev[SchemaRoot] = Max(r.prev \cup {NOT_LOCKED})]
             ELSE Go(c, "abort") /\ UNCHANGED cm
    /\ UNCHANGED <<mutex, hole, scan, nStmt, using, hist>>

CommitLock(c, t) ==
    /\ At(c, "commit")
    /\ t \in cm[c].todo
    /\ \E r \in {LockTable(area, c, t, EXCLSV, COMMIT)} :
          /\ area' = r.area
          /\ cm' = [cm EXCEPT ![c].todo = @ \ {t},
                              ![c].done = @ \cup {t},
                              ![c].prev[t] = Max(r.prev \cup {NOT_LOCKED})]
          /\ Go(c, IF r.rc = "OK" THEN "commit" ELSE "revert")
    /\ UNCHANGED <<mutex, hole, scan, nStmt, using, hist>>

(* The failure path of exclusiveLockTables.  The code passes FORCE as the  *)
(* level and the previous level as the mode.                               *)
Revert(c, t) ==
    /\ At(c, "revert")
    /\ t \in cm[c].done
    /\ area' = LockTable(area, c, t, FORCE, cm[c].prev[t]).area
    /\ cm' = [cm EXCEPT ![c].done = @ \ {t}]
    /\ UNCHANGED <<mutex, hole, scan, pc, nStmt, using, hist>>

RevertEnd(c) ==
    /\ At(c, "revert")
    /\ cm[c].done = {}
    /\ area' = LockTable(area, c, SchemaRoot, FORCE, cm[c].prev[SchemaRoot]).area
    /\ Go(c, "abort")
    /\ UNCHANGED <<mutex, hole, scan, nStmt, using, hist, cm>>

(* Inside the mutex: the operation of a returns, or goes on. *)
Leave == mutex' = NoConn /\ hole' = NoHole /\ scan' = NoScan
Stay(a) == mutex' = a

(* Mutant of Ahead: the loop ends one slot too early. *)
AheadShort(s, idx) == {i \in Index : Steps(i, idx) < Steps(IndexNext(s.start), idx)}

(* The slots that a scan s at idx has still to look at, going backwards,   *)
(* and the elements in scope among them.                                   *)
Ahead(s, idx) == {i \in Index : Steps(i, idx) <= Steps(IndexNext(s.start), idx)}
InScope(s, slots, idx) == {i \in Ahead(s, idx) : slots[i].conn \in s.who}

(* The outer loop goes on from idx to the next element in scope. *)
ScanFollow(a, s, slots, idx) ==
    IF InScope(s, slots, idx) = {} THEN Leave
    ELSE /\ scan' = [s EXCEPT !.idx = FirstBack(idx, InScope(s, slots, idx))]
         /\ hole' = NoHole
         /\ Stay(a)

(* At the end of a statement the inner loop is left when the flag of the   *)
(* slot, whatever element is there now, is 0.                              *)
ScanBreaks(slots) == ~scan.trans /\ slots[scan.idx].inUse = 0

(* UnlockTableCore returns to sqlite3rowlockIpcUnlockTable or to a scan. *)
CoreReturns(a, slots) ==
    IF scan.who = {} \/ (ScanBreaks(slots) /\ scan.idx = IndexNext(scan.start)) THEN Leave
    ELSE ScanFollow(a, scan, slots, IF ScanBreaks(slots) THEN IndexPrev(scan.idx) ELSE scan.idx)

(* One level of rowlockIpcDelete. *)
IpcDelete(a, slots, start, del, end) ==
    \E first \in {RunStart(slots, start, end)} :
        \/ /\ Movable(slots, first, del, end) = {}
           /\ area' = [slots |-> [slots EXCEPT ![del] = Cleared(@)], nLock |-> area.nLock - 1]
           /\ CoreReturns(a, area'.slots)
        \/ /\ Movable(slots, first, del, end) # {}
           /\ \E src \in {MoveSource(slots, first, del, end)} :
                 /\ area' = [area EXCEPT !.slots[del] = Copied(@, slots[src])]
                 /\ hole' = [start |-> first, del |-> src, end |-> end]
           /\ UNCHANGED scan
           /\ Stay(a)

(* sqlite3rowlockIpcUnlockTableCore for the first element of t that        *)
(* belongs to one of  match; trans stands for MODE_UNLOCK_TRANS.           *)
UnlockTableCore(a, slots, match, t, trans) ==
    \E found \in {Search(slots, Hash[t], Entries(slots, t, match))} :
        \/ /\ found.rc # "LOCKED"
           /\ UNCHANGED area
           /\ CoreReturns(a, slots)
        \/ /\ found.rc = "LOCKED"
           /\ Deletes(slots[found.idx], trans)
           /\ \E end \in {IndexPrev(EmptyAfter(slots, Hash[t], found.idx))} :
                 IpcDelete(a, slots, Hash[t], found.idx, end)
        \/ /\ found.rc = "LOCKED"
           /\ ~Deletes(slots[found.idx], trans)
           /\ area' = [area EXCEPT !.slots[found.idx] = Unused(@)]
           /\ CoreReturns(a, area'.slots)

(* The READ lock of sqlite_master is given back, and BeginTransAll is done. *)
UnlockSchema(c) ==
    /\ At(c, "begin")
    /\ Go(c, "stmt")
    /\ UnlockTableCore(c, area.slots, {c}, SchemaRoot, TRUE)
    /\ UNCHANGED <<nStmt, using, hist, cm>>

DeleteShift ==
    /\ hole # NoHole
    /\ IpcDelete(mutex, area.slots, hole.start, hole.del, hole.end)
    /\ UNCHANGED <<pc, nStmt, using, hist, cm>>

(* The empty element a scan starts from, searched from the end. *)
ScanFrom == FirstBack(nElement - 1, {i \in Index : ~IsValid(area.slots, i)} \cup {0})

(* A call of sqlite3rowlockIpcUnlockTablesProcCore.  It looks for elements *)
(* of  who; sqlite3rowlockIpcUnlockTableCore, which it calls for each,     *)
(* looks for an element of  match.                                         *)
NewScan(who, match, trans) ==
    [who |-> who, match |-> match, trans |-> trans, idx |-> ScanFrom, start |-> ScanFrom]

(* The scan of c at the end of a statement or of a transaction, which also *)
(* forgets the history and, in the second case, the root pages.  (The scan *)
(* of VDBE_HALT that follows the end of a transaction finds nothing.)      *)
End(c, trans) ==
    /\ \E s \in {NewScan({c}, {c}, trans)} : ScanFollow(c, s, area.slots, s.idx)
    /\ Go(c, "idle")
    /\ nStmt' = [nStmt EXCEPT ![c] = IF trans THEN 0 ELSE @]
    /\ using' = [using EXCEPT ![c] = {}]
    /\ hist' = [hist EXCEPT ![c] = <<>>]
    /\ cm' = [cm EXCEPT ![c] = NoCommit]
    /\ UNCHANGED area

(* The end of a statement: sqlite3BtreeUnlockStmtTableLock.  A statement   *)
(* that has changed the schema commits instead.                            *)
EndStmt(c) ==
    /\ At(c, "end") \/ (At(c, "stmt") /\ ~IsDdl(c))
    /\ End(c, FALSE)

(* The end of a transaction: sqlite3TransBtreeRollback, from ROLLBACK,     *)
(* from an error, from the COMMIT of a transaction that wrote nothing, or  *)
(* when sqlite3TransBtreeCommit has copied everything.                     *)
EndTrans(c) ==
    /\ \/ At(c, "stmt") \/ At(c, "abort") \/ (At(c, "idle") /\ nStmt[c] > 0)
       \/ ((At(c, "commit") \/ At(c, "vacuum")) /\ cm[c].todo = {})
    /\ End(c, TRUE)

(* sqlite3rowlockExclusiveLockAllTables: VACUUM, outside a transaction,    *)
(* locks sqlite_master and then every table, in the mode of a COMMIT.      *)
Vacuum(c) ==
    /\ At(c, "idle")
    /\ nStmt[c] = 0
    /\ \E r \in {LockTable(area, c, SchemaRoot, WRITE, COMMIT)} :
          /\ r.rc = "OK"
          /\ area' = r.area
    /\ Go(c, "vacuum")
    /\ cm' = [cm EXCEPT ![c].todo = scene.tables]
    /\ UNCHANGED <<mutex, hole, scan, nStmt, using, hist>>

VacuumLock(c, t) ==
    /\ At(c, "vacuum")
    /\ t \in cm[c].todo
    /\ \E r \in {LockTable(area, c, t, EXCLSV, COMMIT)} :
          /\ area' = r.area
          /\ IF r.rc = "OK"
             THEN /\ cm' = [cm EXCEPT ![c].todo = @ \ {t}, ![c].done = @ \cup {t}]
                  /\ UNCHANGED pc
             ELSE Go(c, "giveup") /\ UNCHANGED cm
    /\ UNCHANGED <<mutex, hole, scan, nStmt, using, hist>>

(* Its failure path unlocks the tables locked so far, then sqlite_master. *)
VacuumUnlock(c, t) ==
    /\ At(c, "giveup")
    /\ t \in cm[c].done
    /\ UnlockTableCore(c, area.slots, {c}, t, TRUE)
    /\ cm' = [cm EXCEPT ![c].done = @ \ {t}]
    /\ UNCHANGED <<pc, nStmt, using, hist>>

VacuumFailed(c) ==
    /\ At(c, "giveup")
    /\ cm[c].done = {}
    /\ UnlockTableCore(c, area.slots, {c}, SchemaRoot, TRUE)
    /\ Go(c, "abort")
    /\ UNCHANGED <<nStmt, using, hist, cm>>

(* The loops of a scan: the call for an element in scope. *)
ScanUnlock ==
    /\ scan.who # {}
    /\ hole = NoHole
    /\ area.slots[scan.idx].conn \in scan.who
    /\ UnlockTableCore(mutex, area.slots, scan.match, area.slots[scan.idx].key, scan.trans)
    /\ UNCHANGED <<pc, nStmt, using, hist, cm>>

(* A scan for a whole process or for the cleaner begins. *)
ScanStart ==
    /\ scan.who # {}
    /\ hole = NoHole
    /\ area.slots[scan.idx].conn \notin scan.who
    /\ ScanFollow(mutex, scan, area.slots, scan.idx)
    /\ UNCHANGED <<area, pc, nStmt, using, hist, cm>>

ConnsOf(p) == {c \in Conns : PidOf[c] = p}

Gone(p) ==
    /\ pc' = [c \in Conns |-> IF PidOf[c] = p THEN "dead" ELSE pc[c]]
    /\ nStmt' = [c \in Conns |-> IF PidOf[c] = p THEN 0 ELSE nStmt[c]]
    /\ using' = [c \in Conns |-> IF PidOf[c] = p THEN {} ELSE using[c]]
    /\ hist' = [c \in Conns |-> IF PidOf[c] = p THEN <<>> ELSE hist[c]]
    /\ cm' = [c \in Conns |-> IF PidOf[c] = p THEN NoCommit ELSE cm[c]]

(* Process p unloads the library: rowlockIpcUnlockTablesProc with owner 0. *)
Unload(c) ==
    /\ scene.die
    /\ mutex = NoConn
    /\ pc[c] # "dead"
    /\ mutex' = c
    /\ scan' = NewScan(ConnsOf(PidOf[c]), ConnsOf(PidOf[c]), TRUE)
    /\ Gone(PidOf[c])
    /\ UNCHANGED <<area, hole>>

(* Process p dies and leaves its elements; the mutex is taken over. *)
Crash(c) ==
    /\ scene.die
    /\ pc[c] # "dead"
    /\ Gone(PidOf[c])
    /\ IF mutex \in ConnsOf(PidOf[c])
       THEN mutex' = NoConn /\ hole' = NoHole /\ scan' = NoScan
       ELSE UNCHANGED <<mutex, hole, scan>>
    /\ UNCHANGED area

(* sqlumdash_cleaner: sqlite3rowlockIpcUnlockTablesAll looks for elements  *)
(* of any process, but UnlockTableCore for elements of the process it runs *)
(* in, which has none.                                                     *)
Clean ==
    /\ scene.clean
    /\ mutex = NoConn
    /\ mutex' = Cleaner
    /\ scan' = NewScan(Conns, {}, TRUE)
    /\ UNCHANGED <<area, hole, pc, nStmt, using, hist, cm>>

Stmt(c) ==
    \/ BeginStmt(c) \/ UnlockSchema(c) \/ UndoLock(c) \/ UndoEnd(c) \/ EndStmt(c)
    \/ \E t \in AllTables, l \in READ .. EXCLSV : StmtLock(c, t, l)

Trans(c) ==
    \/ EndTrans(c) \/ RevertEnd(c) \/ Vacuum(c) \/ VacuumFailed(c)
    \/ \E modified \in SUBSET Tables : Commit(c, modified)
    \/ \E t \in Tables : CommitLock(c, t) \/ Revert(c, t) \/ VacuumLock(c, t) \/ VacuumUnlock(c, t)

Mutexed == mutex # NoConn /\ (DeleteShift \/ ScanStart \/ ScanUnlock)

Inside == Mutexed /\ UNCHANGED scene

Next ==
    \/ (\E c \in Conns : Stmt(c) \/ Trans(c) \/ Unload(c) \/ Crash(c)) /\ UNCHANGED scene
    \/ Clean /\ UNCHANGED scene
    \/ Inside

Spec == Init /\ [][Next]_vars

(* A thread inside the mutex that has not died keeps running. *)
FairSpec == Spec /\ WF_vars(Inside)

------------------------------------------------------------------------------

(* The types of the shared memory and of what each connection is doing. *)
TypeOK ==
    /\ area.slots \in [Index -> Slot]
    /\ area.nLock \in 0 .. nElement
    /\ mutex \in Conns \cup {Cleaner, NoConn}
    /\ hole \in [start : Index, del : Index, end : Index]
    /\ scan \in [who : SUBSET Conns, match : SUBSET Conns, trans : BOOLEAN,
                 idx : Index, start : Index]
    /\ pc \in [Conns -> {"idle", "begin", "stmt", "undo", "end", "commit",
                         "revert", "abort", "vacuum", "giveup", "dead"}]
    /\ nStmt \in [Conns -> 0 .. scene.stmts]
    /\ using \in [Conns -> SUBSET AllTables]
    /\ hist \in [Conns -> Seq(AllTables \X Levels)]
    /\ cm \in [Conns -> [todo : SUBSET Tables, done : SUBSET Tables,
                         prev : [AllTables -> Levels]]]

(* Every element can be found by probing from its hash. *)
Probing ==
    \A i, j \in Index :
        /\ IsValid(area.slots, i)
        /\ Steps(area.slots[i].hash, j) <= Steps(area.slots[i].hash, i)
        => IsValid(area.slots, j)

(* Unless a process died inside the mutex, a connection has at most one    *)
(* element per table, and nLock counts the elements: LockTable finds the   *)
(* element to upgrade wherever deletions have moved it, and the query      *)
(* returns the level of the caller, "Return a obtaining lock type"         *)
(* (rowlock_ipc_table.c:274).                                              *)
OneElement ==
    mutex = NoConn /\ (\A c \in Conns : pc[c] # "dead") =>
    /\ area.nLock = Cardinality({i \in Index : IsValid(area.slots, i)})
    /\ \A c \in Conns, t \in AllTables :
          /\ Cardinality(Entries(area.slots, t, {c})) <= 1
          /\ LockTableQuery(area, SameOwner(c), t) = Level(area, c, t)

(* The area implements the lock levels of TableLevels: all grants are      *)
(* compatible and nobody changes the level of another connection.          *)
Abstract == INSTANCE TableLevels WITH
    level <- [c \in Conns |-> [t \in AllTables |-> Level(area, c, t)]]
RefinesTableLevels == Abstract!Spec

(* Whoever writes sqlite_master is alone with it, a table has at most one  *)
(* EXCLSV_LOCK, and next to WRITEEX_LOCK there is no WRITE_LOCK or         *)
(* WRITEEX_LOCK, also after a level was set back by ROLLBACK TO, by a      *)
(* COMMIT or VACUUM that failed half-way, or by a scan of another process. *)
LevelsExclude ==
    \A t \in AllTables : \A c, d \in Conns :
        LET a == Level(area, c, t)
            b == Level(area, d, t)
        IN  c # d => IF t = SchemaRoot THEN a = WRITE => b = NOT_LOCKED
                     ELSE /\ a = EXCLSV => b # EXCLSV
                          /\ a = WRITEEX => b \notin {WRITE, WRITEEX}

(* When UnlockTablesProc returns, those it was called for hold no lock.    *)
TransReleasesAll ==
    [][/\ mutex \in Conns /\ mutex' = NoConn /\ pc'[mutex] = pc[mutex] /\ scan.trans
       => \A i \in Index : area'.slots[i].conn \notin scan.who]_vars

(* When UnlockTablesStmtProc returns, the connection has no READ lock left *)
(* and none of its elements is marked as in use.                           *)
StmtReleasesReads ==
    [][/\ mutex \in Conns /\ mutex' = NoConn /\ pc'[mutex] = pc[mutex]
       /\ scan.who # {} /\ ~scan.trans
       => \A i \in Index : area'.slots[i].conn = mutex =>
             area'.slots[i].eLock # READ /\ area'.slots[i].inUse = 0]_vars

(* Whoever scans the area comes to the end (rowlock_cleaner.c and the end  *)
(* of every statement and transaction).                                    *)
ScanTerminates == mutex # NoConn ~> mutex = NoConn

(* The scans of a connection, at the end of a statement, of a transaction  *)
(* or of a process (rowlock_ipc_table.c:444), come to the end, also over   *)
(* the elements of dead processes, if no connection has two elements for   *)
(* a table.  (Over two, which a process that dies between two moves leaves *)
(* behind, UnlockTableCore may find one and the loop stand on the other    *)
(* for ever.)                                                              *)
OwnScanTerminates ==
    /\ mutex \in Conns
    /\ \A c \in Conns, t \in AllTables : Cardinality(Entries(area.slots, t, {c})) <= 1
    ~> mutex = NoConn

(* "We can get exclusive lock even if someone has read lock and write      *)
(* lock.  But someone must has been finished a query processing"           *)
(* (rowlock_ipc_table.c:230): COMMIT does not get EXCLSV_LOCK on a table   *)
(* that a running statement of another connection has locked.              *)
CommitWaits ==
    [][\A c, d \in Conns, t \in Tables :
         /\ c # d /\ pc[c] = "commit"
         /\ Level(area, c, t) < EXCLSV /\ Level(area', c, t) = EXCLSV
         => t \notin using[d]]_vars
=============================================================================
