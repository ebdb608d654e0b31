------------------------------- MODULE IpcTable -------------------------------
(***************************************************************************)
(* The table-lock area of rowlock_ipc_table.c: its elements, and the calls *)
(* that lock a table or ask for a lock, as operators from the area before  *)
(* the call to the area and the return code after it.  A call runs under   *)
(* the mutex of the area, so that other processes see it as one step.      *)
(* Unlocking, which can move many elements, is in TableLocks.              *)
(*                                                                         *)
(* An area is a record  [slots, nLock].  A slot is a TableElement: key is  *)
(* iTable and conn stands for the pair of pid and owner.                   *)
(***************************************************************************)
EXTENDS IpcHash, FiniteSetsExt

CONSTANTS Tables,      \* root pages of the ordinary tables
          SchemaRoot,  \* SCHEMA_ROOT, the root page of sqlite_master
          Conns,       \* lock owners: a process id and a Btree pointer
          NoConn,
          OwnerOf,     \* the Btree pointer of a connection
          Hash         \* tableClassCalcHash, any function into the index range

AllTables == Tables \cup {SchemaRoot}

ASSUME TableConstants ==
    /\ NoKey \notin AllTables
    /\ SchemaRoot \notin Tables
    /\ NoConn \notin Conns
    /\ Hash \in [AllTables -> Index]

(* NOT_LOCKED, READ_LOCK, WRITE_LOCK, WRITEEX_LOCK and EXCLSV_LOCK. *)
NOT_LOCKED == 0
READ == 1
WRITE == 2
WRITEEX == 3
EXCLSV == 4
Levels == NOT_LOCKED .. EXCLSV

(* MODE_LOCK_NORMAL, MODE_LOCK_COMMIT and MODE_LOCK_FORCE. *)
NORMAL == 0
COMMIT == 1
FORCE == 2

EmptySlot == [key |-> NoKey, conn |-> NoConn, hash |-> 0, eLock |-> NOT_LOCKED, inUse |-> 0]

Slot == [key : AllTables \cup {NoKey}, conn : Conns \cup {NoConn}, hash : Index,
         eLock : Levels, inUse : {0, 1}]

(* tableClassInitArea *)
InitArea == [slots |-> [i \in Index |-> EmptySlot], nLock |-> 0]

(* The elements of table t that belong to one of  who. *)
Entries(slots, t, who) == {i \in Index : slots[i].key = t /\ slots[i].conn \in who}

(* Mutant of Refuses: two writers of sqlite_master, and a delete-all next  *)
(* to a writer.                                                            *)
RefusesExclusiveOnly(e, t, eLock, mode) ==
    e.eLock = EXCLSV \/ (mode = COMMIT /\ e.inUse = 1)

(* Does the element of another owner refuse the request? *)
Refuses(e, t, eLock, mode) ==
    IF t = SchemaRoot
    THEN e.eLock = WRITE \/ (e.eLock = READ /\ eLock = WRITE)
    ELSE \/ e.eLock = EXCLSV
         \/ mode = NORMAL /\ e.eLock >= WRITE /\ eLock >= WRITEEX
         \/ mode = NORMAL /\ e.eLock >= WRITEEX /\ eLock >= WRITE
         \/ mode = COMMIT /\ e.inUse = 1

(* tableClassElemClear and tableClassElemCopy: neither touches inUse. *)
Cleared(dest) == [EmptySlot EXCEPT !.inUse = dest.inUse]
Copied(dest, src) == [src EXCEPT !.inUse = dest.inUse]

(* Mutant of Stored: the element to upgrade is forgotten. *)
StoredAtEmpty(idx, passed) == idx

(* The slot that LockTable fills: the last element of its own that the     *)
(* probe has passed, or the empty slot at its end.                         *)
Stored(idx, passed) == IF passed = {} THEN idx ELSE FirstBack(idx, passed)

(* Mutant of Counted: nLock is not incremented. *)
NotCounted(nLock, passed) == nLock

Counted(nLock, passed) == IF passed = {} THEN nLock + 1 ELSE nLock

(* Mutants of Deletes and Unused: READ locks outlive the statement, or the *)
(* flag does.                                                              *)
DeletesAtEnd(e, trans) == trans
StaysUsed(e) == e

(* sqlite3rowlockIpcUnlockTableCore deletes an element, or clears its flag *)
(* if it is only the end of a statement and the element is not a READ lock. *)
Deletes(e, trans) == trans \/ e.eLock = READ
Unused(e) == [e EXCEPT !.inUse = 0]

(* sqlite3rowlockIpcLockTable.  The probe from the hash of t ends at an    *)
(* element of c that answers the call, at one that refuses it, or at an    *)
(* empty slot; an element of c with a lower level is passed and upgraded.  *)
(* prev holds what is stored through prevLock, if anything is.             *)
LockTable(area, c, t, eLock, mode) ==
    LET slots  == area.slots
        own    == Entries(slots, t, {c})
        enough == {i \in own : mode = FORCE \/ slots[i].eLock >= eLock}
        refuse == {i \in Entries(slots, t, Conns \ {c}) : Refuses(slots[i], t, eLock, mode)}
        empty  == {i \in Index : ~IsValid(slots, i)}
        stops  == enough \cup refuse \cup empty
        idx    == FirstFrom(Hash[t], stops)
        passed == {i \in own : Steps(Hash[t], i) < Steps(Hash[t], idx)}
        iidx   == Stored(idx, passed)
        result(rc, a, prev) == [rc |-> rc, area |-> a, prev |-> prev]
    IN  CASE stops = {}     -> result("NOMEM", area, {})
          [] idx \in enough -> result("OK",
                                  IF mode = FORCE
                                  THEN [area EXCEPT !.slots[idx].eLock = eLock]
                                  ELSE area, {})
          [] idx \in refuse -> result("LOCKED", area, {})
          [] OTHER ->
             IF area.nLock >= nElement - 1 THEN result("NOMEM", area, {})
             ELSE result("OK",
                     [slots |-> [slots EXCEPT ![iidx] =
                          [key |-> t, conn |-> c, hash |-> Hash[t], eLock |-> eLock, inUse |-> 1]],
                      nLock |-> Counted(area.nLock, passed)],
                     {slots[iidx].eLock})

(* Mutant of LockTableQuery: the owner is not compared. *)
LockTableQueryAny(area, who, t) ==
    LET found == Search(area.slots, Hash[t], Entries(area.slots, t, Conns))
    IN  IF found.rc = "LOCKED" THEN area.slots[found.idx].eLock ELSE NOT_LOCKED

(* sqlite3rowlockIpcLockTableQuery.  The pid of the target is 0, so only   *)
(* the owners are compared: who is everyone with the owner of the caller,  *)
(* or everyone at all when sqlite3rowlockIpcCachedRowidReset calls it.     *)
LockTableQuery(area, who, t) ==
    LET found == Search(area.slots, Hash[t], Entries(area.slots, t, who))
    IN  IF found.rc = "LOCKED" THEN area.slots[found.idx].eLock ELSE NOT_LOCKED

SameOwner(c) == {d \in Conns : OwnerOf[d] = OwnerOf[c]}

(* The level at which c really holds t. *)
Level(area, c, t) ==
    LET own == Entries(area.slots, t, {c})
    IN  IF own = {} THEN NOT_LOCKED ELSE Max({area.slots[i].eLock : i \in own})
=============================================================================
