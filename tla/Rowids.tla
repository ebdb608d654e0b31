-------------------------------- MODULE Rowids --------------------------------
(***************************************************************************)
(* Automatic rowids.  The largest rowid of every table in use is cached in *)
(* the shared memory of the table locks, so that connections which insert  *)
(* at the same time get different rowids.  Each call on the cache is one   *)
(* step under the mutex, but OP_NewRowid and OP_Insert read the cache and  *)
(* write it in two calls.  A rowid that turns out to be locked makes       *)
(* sqlite3Step execute the statement again.                                *)
(*                                                                         *)
(* pc of a connection:                                                     *)
(*   "idle"    between statements                                          *)
(*   "open"    opening the cursor: the cache is read                       *)
(*   "last"    ... and set to the last rowid of the table                  *)
(*   "new"     OP_NewRowid reads the cache                                 *)
(*   "set"     ... and sets it                                             *)
(*   "update"  OP_Insert reads the cache                                   *)
(*   "compare" ... reads it again                                          *)
(*   "raise"   ... and sets it                                             *)
(*   "insert"  OP_Insert locks the row and inserts it                      *)
(*   "more"    the next row of the statement, or its end                   *)
(*   "again"   sqlite3Step executes the statement again                    *)
(***************************************************************************)
EXTENDS Integers, FiniteSets, FiniteSetsExt

CONSTANTS Tables,
          NoTable,   \* iTable = 0
          Conns,
          nElement,  \* elements of the cache
          Initial,   \* the rows of each table at the start
          MaxRetry,  \* SQLITE_MAX_ROWID_RETRY
          MaxRows,   \* bound: rows of a transaction
          MaxStmts,  \* bound: statements of a transaction
          MaxRowid,  \* bound: statements begin while the rowids are smaller
          Explicit   \* TRUE: a statement may name a rowid

ASSUME RowidConstants ==
    /\ NoTable \notin Tables
    /\ nElement \in Nat \ {0}
    /\ {MaxRetry, MaxRows, MaxStmts, MaxRowid} \subseteq Nat
    /\ Initial \in [Tables -> SUBSET (1 .. MaxRowid)]
    /\ Explicit \in BOOLEAN

VARIABLES elem,    \* the elements of the cache
          nCache,  \* how many are stored
          lock,    \* of each connection: the tables it has locked
          inUse,   \* of each connection: the tables locked with inUse = 1
          rows,    \* the committed rows of each table
          ins,     \* of each connection: its rows, which it has locked
          stmt,    \* of each connection: its statement
          pc,
          behind   \* history variable: the tables whose cached rowid has been
                   \* lowered, or is smaller than a row that was inserted

cacheVars == <<elem, nCache, behind>>
vars == <<elem, nCache, behind, lock, inUse, rows, ins, stmt, pc>>

Slots == 1 .. nElement
Empty == [iTable |-> NoTable, rowid |-> 0]

(* A statement inserts into table t, with automatic rowids or with the     *)
(* rowid v.  cnt counts its retries, n the statements of the transaction,  *)
(* and saved is what the statement savepoint restores.                     *)
NoStmt == [t |-> NoTable, auto |-> TRUE, v |-> 0, cnt |-> 0, n |-> 0,
           saved |-> [t \in Tables |-> {}]]

Init ==
    /\ elem = [i \in Slots |-> Empty]
    /\ nCache = 0
    /\ lock = [c \in Conns |-> {}]
    /\ inUse = [c \in Conns |-> {}]
    /\ rows = Initial
    /\ ins = [c \in Conns |-> [t \in Tables |-> {}]]
    /\ stmt = [c \in Conns |-> NoStmt]
    /\ pc = [c \in Conns |-> "idle"]
    /\ behind = {}

Go(c, s) == pc' = [pc EXCEPT ![c] = s]

------------------------------------------------------------------------------
(* The cache *)

Stored(t) == {i \in 1 .. nCache : elem[i].iTable = t}

(* sqlite3rowlockIpcCachedRowidGet *)
Get(t) == IF Stored(t) = {} THEN 0 ELSE elem[Min(Stored(t))].rowid

Lowered(t, rowid) == IF rowid < Get(t) THEN {t} ELSE {}

(* Mutant of Set: an empty element is taken first. *)
SetAppends(t, rowid) ==
    \E free \in {{i \in Slots : elem[i].iTable = NoTable}} :
        IF free = {} THEN UNCHANGED cacheVars
        ELSE /\ elem' = [elem EXCEPT ![Min(free)] = [iTable |-> t, rowid |-> rowid]]
             /\ nCache' = nCache + 1
             /\ behind' = behind \cup Lowered(t, rowid)

(* sqlite3rowlockIpcCachedRowidSet: the first element that is of the table *)
(* or empty.  SQLITE_NOMEM, when there is none, is ignored by the callers. *)
Set(t, rowid) ==
    \E fit \in {{i \in Slots : elem[i].iTable \in {t, NoTable}}} :
        IF fit = {} THEN UNCHANGED cacheVars
        ELSE /\ elem' = [elem EXCEPT ![Min(fit)] = [iTable |-> t, rowid |-> rowid]]
             /\ nCache' = IF elem[Min(fit)].iTable = NoTable THEN nCache + 1 ELSE nCache
             /\ behind' = behind \cup Lowered(t, rowid)

(* Mutant of DropCached: a table that is not cached is counted as deleted. *)
DropCachedAlways(t) ==
    /\ elem' = [elem EXCEPT ![Min(Stored(t) \cup {nElement})] = Empty]
    /\ nCache' = nCache - 1
    /\ behind' = behind \ {t}

(* sqlite3rowlockIpcCachedRowidDropTable: the last element moves into the  *)
(* place of the one deleted.                                               *)
DropCached(t) ==
    IF Stored(t) = {} THEN UNCHANGED cacheVars
    ELSE /\ elem' = [elem EXCEPT ![Min(Stored(t))] = elem[nCache], ![nCache] = Empty]
         /\ nCache' = nCache - 1
         /\ behind' = behind \ {t}

(* Mutant of Unused: the tables that the caller alone does not lock. *)
UnusedByCaller(c, lk) == Tables \ lk[c]

(* The tables that nobody has locked. *)
Unused(c, lk) == Tables \ UNION {lk[d] : d \in Conns}

(* sqlite3rowlockIpcCachedRowidReset goes from the last element to the     *)
(* first and replaces each one of an unused table by the tail.             *)
ResetStep(s, i, unused) ==
    IF s.elem[i].iTable \in unused
    THEN [elem |-> [s.elem EXCEPT ![i] = s.elem[s.tail], ![s.tail] = Empty], tail |-> s.tail - 1]
    ELSE s

ResetFrom(unused) ==
    LET f[i \in 0 .. nCache] ==
          IF i = nCache THEN [elem |-> elem, tail |-> nCache]
          ELSE ResetStep(f[i + 1], i + 1, unused)
    IN f[0]

Reset(unused) ==
    /\ elem' = ResetFrom(unused).elem
    /\ nCache' = ResetFrom(unused).tail
    /\ behind' = behind \ unused

------------------------------------------------------------------------------
(* Statements *)

View(c, t) == rows[t] \cup ins[c][t]

(* sqlite3BtreeLastAll; 0 if the table is empty. *)
LastAll(c, t) == Max({0} \cup View(c, t))

LockedBy(d, t, v) == v \in ins[d][t]
Locked(c, t, v) == \E d \in Conns \ {c} : LockedBy(d, t, v)

(* sqlite3BtreeLockTableForRowLock: inUse stays 0 if the transaction has   *)
(* locked the table before.                                                *)
LockTable(c, t) ==
    /\ lock' = [lock EXCEPT ![c] = @ \cup {t}]
    /\ inUse' = [inUse EXCEPT ![c] = @ \cup ({t} \ lock[c])]

(* An INSERT begins.  An explicit rowid is one that the connection does    *)
(* not see (OP_NotExists).                                                 *)
Begin(c, t, v) ==
    /\ pc[c] = "idle"
    /\ stmt[c].n < MaxStmts
    /\ Get(t) < MaxRowid /\ LastAll(c, t) < MaxRowid
    /\ v # 0 => Explicit /\ v \notin View(c, t)
    /\ LockTable(c, t)
    /\ stmt' = [stmt EXCEPT ![c] = [t |-> t, auto |-> v = 0, v |-> v, cnt |-> 0,
                                    n |-> @.n + 1, saved |-> ins[c]]]
    /\ Go(c, "open")
    /\ UNCHANGED <<cacheVars, rows, ins>>

AfterOpen(c) == IF stmt[c].auto THEN "new" ELSE "update"

(* sqlite3BtreeCachedRowidSetByOpenCursor *)
OpenCursor(c) ==
    /\ pc[c] = "open"
    /\ Go(c, IF Get(stmt[c].t) # 0 THEN AfterOpen(c) ELSE "last")
    /\ UNCHANGED <<cacheVars, lock, inUse, rows, ins, stmt>>

OpenCursorLast(c) ==
    /\ pc[c] = "last"
    /\ Set(stmt[c].t, LastAll(c, stmt[c].t))
    /\ Go(c, AfterOpen(c))
    /\ UNCHANGED <<lock, inUse, rows, ins, stmt>>

(* OP_NewRowid with ROWLOCK_CACHED_ROWID_NEW_ROWID, below MAX_ROWID. *)
NewRowid(c) ==
    /\ pc[c] = "new"
    /\ \E last \in {IF Get(stmt[c].t) # 0 THEN Get(stmt[c].t) ELSE LastAll(c, stmt[c].t)} :
          stmt' = [stmt EXCEPT ![c].v = last + 1]
    /\ Go(c, "set")
    /\ UNCHANGED <<cacheVars, lock, inUse, rows, ins>>

(* ROWLOCK_CACHED_ROWID_SET *)
NewRowidSet(c) ==
    /\ pc[c] = "set"
    /\ Set(stmt[c].t, stmt[c].v)
    /\ Go(c, "update")
    /\ UNCHANGED <<lock, inUse, rows, ins, stmt>>

(* ROWLOCK_CACHED_ROWID_UPDATE: two reads and a write. *)
Update(c) ==
    /\ pc[c] = "update"
    /\ Go(c, IF Get(stmt[c].t) # 0 THEN "compare" ELSE "insert")
    /\ UNCHANGED <<cacheVars, lock, inUse, rows, ins, stmt>>

UpdateCompare(c) ==
    /\ pc[c] = "compare"
    /\ Go(c, IF Get(stmt[c].t) <= stmt[c].v THEN "raise" ELSE "insert")
    /\ UNCHANGED <<cacheVars, lock, inUse, rows, ins, stmt>>

UpdateSet(c) ==
    /\ pc[c] = "raise"
    /\ Set(stmt[c].t, stmt[c].v)
    /\ Go(c, "insert")
    /\ UNCHANGED <<lock, inUse, rows, ins, stmt>>

(* sqlite3TransBtreeInsert, if the row can be locked. *)
Insert(c) ==
    /\ pc[c] = "insert"
    /\ ~Locked(c, stmt[c].t, stmt[c].v)
    /\ ins' = [ins EXCEPT ![c][stmt[c].t] = @ \cup {stmt[c].v}]
    /\ behind' = behind \cup IF stmt[c].v > Get(stmt[c].t) THEN {stmt[c].t} ELSE {}
    /\ Go(c, "more")
    /\ UNCHANGED <<elem, nCache, lock, inUse, rows, stmt>>

(* The next row of an INSERT ... SELECT. *)
NextRow(c) ==
    /\ pc[c] = "more"
    /\ stmt[c].auto
    /\ Cardinality(ins[c][stmt[c].t]) < MaxRows
    /\ Go(c, "new")
    /\ UNCHANGED <<cacheVars, lock, inUse, rows, ins, stmt>>

EndStmt(c) ==
    /\ pc[c] = "more"
    /\ inUse' = [inUse EXCEPT ![c] = {}]
    /\ stmt' = [stmt EXCEPT ![c] = [NoStmt EXCEPT !.n = stmt[c].n]]
    /\ Go(c, "idle")
    /\ UNCHANGED <<cacheVars, lock, rows, ins>>

------------------------------------------------------------------------------
(* Failures and the end of a transaction *)

(* The statement savepoint: the rows of the statement, and the table if    *)
(* the statement has locked it first, are unlocked.                        *)
UndoStmt(c) ==
    /\ ins' = [ins EXCEPT ![c] = stmt[c].saved]
    /\ lock' = [lock EXCEPT ![c] = @ \ inUse[c]]
    /\ inUse' = [inUse EXCEPT ![c] = {}]

(* sqlite3TransBtreeRollback *)
Release(c) ==
    /\ lock' = [lock EXCEPT ![c] = {}]
    /\ inUse' = [inUse EXCEPT ![c] = {}]
    /\ ins' = [ins EXCEPT ![c] = [t \in Tables |-> {}]]
    /\ Reset(Unused(c, [lock EXCEPT ![c] = {}]))

(* SQLITE_CORRUPT_ROWID: the statement is undone and executed again; if it *)
(* is the only one of its transaction, that may be rolled back as well.    *)
Retry(c) ==
    /\ pc[c] = "insert"
    /\ stmt[c].auto
    /\ Locked(c, stmt[c].t, stmt[c].v)
    /\ stmt[c].cnt < MaxRetry
    /\ stmt' = [stmt EXCEPT ![c].cnt = @ + 1]
    /\ Go(c, "again")
    /\ (UndoStmt(c) /\ UNCHANGED cacheVars) \/ (stmt[c].n = 1 /\ Release(c))
    /\ UNCHANGED rows

BeginAgain(c) ==
    /\ pc[c] = "again"
    /\ LockTable(c, stmt[c].t)
    /\ Go(c, "open")
    /\ UNCHANGED <<cacheVars, rows, ins, stmt>>

(* The row stays locked, or a constraint of the row fails. *)
Fail(c) ==
    /\ \/ pc[c] = "insert" /\ Locked(c, stmt[c].t, stmt[c].v) /\ (stmt[c].auto => stmt[c].cnt = MaxRetry)
       \/ pc[c] = "update"
    /\ UndoStmt(c)
    /\ stmt' = [stmt EXCEPT ![c] = [NoStmt EXCEPT !.n = stmt[c].n]]
    /\ Go(c, "idle")
    /\ UNCHANGED <<cacheVars, rows>>

Rollback(c) ==
    /\ pc[c] = "idle"
    /\ stmt[c].n > 0
    /\ Release(c)
    /\ stmt' = [stmt EXCEPT ![c] = NoStmt]
    /\ UNCHANGED <<rows, pc>>

(* Mutant of CommitGranted: COMMIT does not wait for statements. *)
CommitGrantedAlways(c) == TRUE

(* exclusiveLockTables: no statement of others uses a modified table. *)
CommitGranted(c) ==
    \A d \in Conns \ {c} : \A t \in inUse[d] : ins[c][t] = {}

Commit(c) ==
    /\ pc[c] = "idle"
    /\ stmt[c].n > 0
    /\ CommitGranted(c)
    /\ rows' = [t \in Tables |-> rows[t] \cup ins[c][t]]
    /\ Release(c)
    /\ stmt' = [stmt EXCEPT ![c] = NoStmt]
    /\ UNCHANGED pc

(* DROP TABLE, with EXCLSV_LOCK; a table with the same root page may be    *)
(* created later.                                                          *)
DropTable(c, t) ==
    /\ \A d \in Conns : pc[d] = "idle" /\ t \notin lock[d]
    /\ rows[t] # {}
    /\ rows' = [rows EXCEPT ![t] = {}]
    /\ DropCached(t)
    /\ UNCHANGED <<lock, inUse, ins, stmt, pc>>

Next ==
    \E c \in Conns :
        \/ OpenCursor(c) \/ OpenCursorLast(c) \/ NewRowid(c) \/ NewRowidSet(c)
        \/ Update(c) \/ UpdateCompare(c) \/ UpdateSet(c)
        \/ Insert(c) \/ NextRow(c) \/ EndStmt(c)
        \/ Retry(c) \/ BeginAgain(c) \/ Fail(c) \/ Rollback(c) \/ Commit(c)
        \/ \E t \in Tables : DropTable(c, t) \/ \E v \in 0 .. MaxRowid : Begin(c, t, v)

Spec == Init /\ [][Next]_vars

------------------------------------------------------------------------------

(* The types; nCache counts up to the number of elements and not below 0,  *)
(* whatever sequence of set, drop and reset the connections execute.       *)
TypeOK ==
    /\ elem \in [Slots -> [iTable : Tables \cup {NoTable}, rowid : Nat]]
    /\ nCache \in 0 .. nElement
    /\ lock \in [Conns -> SUBSET Tables]
    /\ inUse \in [Conns -> SUBSET Tables]
    /\ rows \in [Tables -> SUBSET Nat]
    /\ ins \in [Conns -> [Tables -> SUBSET Nat]]

(* "assert( i+1==pMeta->nCache )" in sqlite3rowlockIpcCachedRowidSet: the  *)
(* elements of the cache are the first nCache ones, each of another table, *)
(* whatever tables are dropped or reset in between.                        *)
CacheCompact ==
    /\ TypeOK
    /\ \A i \in Slots : elem[i].iTable = NoTable <=> i > nCache
    /\ \A i, j \in 1 .. nCache : elem[i].iTable = elem[j].iTable => i = j

(* "Reset CachedRowid if no one use the table" (rowlock_ipc_table.c:561):  *)
(* the element of a table does not vanish while a transaction that has     *)
(* locked the table goes on, though others commit, roll back or retry.     *)
CacheSurvives ==
    [][\A c \in Conns : \A t \in lock[c] \cap lock'[c] : Stored(t) # {} => Stored(t)' # {}]_vars

(* "The record number is not previously used as a key in the database      *)
(* table" (OP_NewRowid, sqlite/src/vdbe.c:4726): no row that the           *)
(* connection sees is replaced by an INSERT with an automatic rowid.       *)
NewRowidIsNew ==
    \A c \in Conns :
        pc[c] = "insert" /\ stmt[c].auto /\ ~Locked(c, stmt[c].t, stmt[c].v)
        => stmt[c].v \notin View(c, stmt[c].t)

(* What the cache and the retries do achieve: an automatic rowid is new if *)
(* the cached rowid is not behind and the statement has set inUse, though  *)
(* other connections read the same value, insert, retry, fail and commit   *)
(* meanwhile.                                                              *)
NewRowidIsNewIfCached ==
    \A c \in Conns :
        /\ pc[c] = "insert" /\ stmt[c].auto /\ ~Locked(c, stmt[c].t, stmt[c].v)
        /\ stmt[c].t \in inUse[c] \ behind
        => stmt[c].v \notin View(c, stmt[c].t)
===============================================================================
