-------------------------------- MODULE IpcRow --------------------------------
(***************************************************************************)
(* The row-lock table of rowlock_ipc_row.c, at the granularity of its      *)
(* writes to shared memory.  Every operation runs under one robust mutex,  *)
(* so two operations never interleave; but a process may die between two   *)
(* writes, and the next one to enter the mutex (EOWNERDEAD, then           *)
(* pthread_mutex_consistent) finds the memory as it was left.              *)
(*                                                                         *)
(*   "idle"   nobody is inside the mutex                                   *)
(*   "inc"    LockRecord has set the element, count++ comes next           *)
(*   "shift"  rowlockIpcDelete has copied the element at hole.del back and *)
(*            calls itself for hole.del                                    *)
(*   "dec"    rowlockIpcDelete has cleared an element, count-- comes next  *)
(*   "scan"   UnlockRecordProcCore is at element scan.idx of its loop      *)
(***************************************************************************)
EXTENDS IpcHash, FiniteSets

CONSTANTS Keys,       \* rows, each a <<iTable, rowid>>
          Hash,       \* rowClassCalcHash, any function into the index range
          Conns,      \* lock owners: a process id and a Btree pointer
          PidOf,      \* the process of a connection
          NoConn,
          Cleaner,    \* the sqlumdash_cleaner process
          CrashSteps  \* the steps at which a process inside may die

ASSUME RowConstants ==
    /\ NoKey \notin Keys
    /\ NoConn \notin Conns \cup {Cleaner}
    /\ Cleaner \notin Conns
    /\ Hash \in [Keys -> Index]
    /\ CrashSteps \subseteq {"inc", "shift", "dec", "scan"}

VARIABLES slots,   \* RowElement[nElement]
          count,   \* RowMetaData.count
          mutex,   \* who is inside the mutex
          step,
          hole,    \* idxStart, idxDel and idxEnd of rowlockIpcDelete
          scan,    \* of UnlockRecordProcCore: the owners it releases, idx, idxStart
          dead     \* connections of processes that died

vars == <<slots, count, mutex, step, hole, scan, dead>>

EmptySlot == [key |-> NoKey, conn |-> NoConn, hash |-> 0]
Slot == [key : Keys, conn : Conns, hash : Index] \cup {EmptySlot}

(* The locals of an operation that is not running. *)
NoHole == [start |-> 0, del |-> 0, end |-> 0]
NoScan == [who |-> {}, idx |-> 0, start |-> 0]

(* The mapped file after rowClassInitArea. *)
Init ==
    /\ slots = [i \in Index |-> EmptySlot]
    /\ count = 0
    /\ mutex = NoConn
    /\ step = "idle"
    /\ hole = NoHole
    /\ scan = NoScan
    /\ dead = {}

(* Mutant of Locate: the row is looked for in its home slot only. *)
LocateHomeOnly(k) == Search(slots, Hash[k], {i \in {Hash[k]} : slots[i].key = k})

(* rowlockIpcSearch with rowClassElemIsTarget. *)
Locate(k) == Search(slots, Hash[k], {i \in Index : slots[i].key = k})

(* Mutants of LockResult: the last slot may be used too; the owner of the  *)
(* element found is not compared.                                          *)
LockResultFillsUp(c, k) ==
    LET found == Locate(k) IN
    CASE found.rc = "LOCKED" -> IF slots[found.idx].conn = c THEN "DONE" ELSE "LOCKED"
      [] found.rc = "NOMEM"  -> "NOMEM"
      [] found.rc = "OK"     -> IF count >= nElement THEN "NOMEM" ELSE "OK"

LockResultNoOwner(c, k) ==
    IF Locate(k).rc # "NOMEM" /\ count < nElement - 1 THEN "OK" ELSE "NOMEM"

(* What sqlite3rowlockIpcLockRecord returns to c. *)
LockResult(c, k) ==
    LET found == Locate(k) IN
    CASE found.rc = "LOCKED" -> IF slots[found.idx].conn = c THEN "DONE" ELSE "LOCKED"
      [] found.rc = "NOMEM"  -> "NOMEM"
      [] found.rc = "OK"     -> IF count >= nElement - 1 THEN "NOMEM" ELSE "OK"

(* Mutant of LockRecordQuery: the owner is not compared. *)
QueryNoOwner(c, k) == IF Locate(k).rc = "LOCKED" THEN "LOCKED" ELSE "OK"

(* What sqlite3rowlockIpcLockRecordQuery returns to c. *)
LockRecordQuery(c, k) ==
    LET found == Locate(k) IN
    IF found.rc = "LOCKED" /\ slots[found.idx].conn # c THEN "LOCKED" ELSE "OK"

Enter(a) ==
    /\ mutex = NoConn
    /\ a \notin dead
    /\ mutex' = a

Leave ==
    /\ mutex' = NoConn
    /\ step' = "idle"
    /\ hole' = NoHole
    /\ scan' = NoScan

LockRecord(c, k) ==
    /\ Enter(c)
    /\ LockResult(c, k) = "OK"
    /\ slots' = [slots EXCEPT ![Locate(k).idx] =
                    [key |-> k, conn |-> c, hash |-> Hash[k]]]
    /\ step' = "inc"
    /\ UNCHANGED <<count, hole, scan, dead>>

LockCount ==
    /\ step = "inc"
    /\ count' = count + 1
    /\ Leave
    /\ UNCHANGED <<slots, dead>>

(* One level of rowlockIpcDelete: clear the hole when nothing of the rest  *)
(* of the run may move into it, or fill it and go on with the element      *)
(* moved.  (\E x \in {e} binds x to the value of e.)                       *)
ElemClear(del) ==
    /\ slots' = [slots EXCEPT ![del] = EmptySlot]
    /\ step' = "dec"
    /\ hole' = NoHole

ElemCopy(first, del, end, src) ==
    /\ slots' = [slots EXCEPT ![del] = slots[src]]
    /\ step' = "shift"
    /\ hole' = [start |-> first, del |-> src, end |-> end]

IpcDelete(start, del, end) ==
    \E first \in {RunStart(slots, start, end)} :
        \/ /\ Movable(slots, first, del, end) = {}
           /\ ElemClear(del)
        \/ /\ Movable(slots, first, del, end) # {}
           /\ \E src \in {MoveSource(slots, first, del, end)} : ElemCopy(first, del, end, src)

(* sqlite3rowlockIpcUnlockRecord up to the first write; nothing happens    *)
(* when the row is not in the table.  The owner is not compared.           *)
Unlock(k) ==
    \E found \in {Locate(k)} :
        /\ found.rc = "LOCKED"
        /\ \E end \in {IndexPrev(EmptyAfter(slots, Hash[k], found.idx))} :
              IpcDelete(Hash[k], found.idx, end)

UnlockRecord(c, k) ==
    /\ Enter(c)
    /\ Unlock(k)
    /\ UNCHANGED <<count, scan, dead>>

DeleteShift ==
    /\ step = "shift"
    /\ IpcDelete(hole.start, hole.del, hole.end)
    /\ UNCHANGED <<count, mutex, scan, dead>>

(* Mutant of UnlockCount: the scan forgets count--. *)
UnlockCountNotInScan ==
    /\ step = "dec"
    /\ IF scan.who = {} THEN Leave /\ count' = count - 1
                        ELSE step' = "scan" /\ UNCHANGED <<count, mutex, hole, scan>>
    /\ UNCHANGED <<slots, dead>>

UnlockCount ==
    /\ step = "dec"
    /\ count' = count - 1
    /\ IF scan.who = {} THEN Leave
                        ELSE step' = "scan" /\ UNCHANGED <<mutex, hole, scan>>
    /\ UNCHANGED <<slots, dead>>

(* Mutants of ScanFrom: the scan starts past the area; it starts at the    *)
(* last slot, empty or not.                                                *)
ScanFromPastEnd == nElement
ScanFromLast == nElement - 1

(* The last empty element, searched from the end; 0 when it gets there.    *)
ScanFrom == FirstBack(nElement - 1, {i \in Index : ~IsValid(slots, i)} \cup {0})

(* sqlite3rowlockIpcUnlockRecordProcCore for actor a: who is {a} at the    *)
(* end of a transaction, the connections of a process that unloads the     *)
(* library, and all of them for the cleaner.                               *)
UnlockRecordProc(a, who) ==
    /\ Enter(a)
    /\ step' = "scan"
    /\ scan' = [who |-> who, idx |-> ScanFrom, start |-> ScanFrom]
    /\ UNCHANGED <<slots, count, hole, dead>>

(* The inner loop: the element is in scope, so unlock its row. *)
ScanUnlock ==
    /\ step = "scan"
    /\ slots[scan.idx].conn \in scan.who
    /\ Unlock(slots[scan.idx].key)
    /\ UNCHANGED <<count, mutex, scan, dead>>

ScanPrev ==
    /\ step = "scan"
    /\ slots[scan.idx].conn \notin scan.who
    /\ IF IndexPrev(scan.idx) = scan.start
       THEN Leave
       ELSE scan' = [scan EXCEPT !.idx = IndexPrev(@)] /\ UNCHANGED <<mutex, step, hole>>
    /\ UNCHANGED <<slots, count, dead>>

ConnsOf(p) == {c \in Conns : PidOf[c] = p}

(* Process p dies; if it is inside the mutex the memory stays as it is and *)
(* the next rowlockOsMutexEnter takes the mutex over.                      *)
Crash(p) ==
    /\ ~ ConnsOf(p) \subseteq dead
    /\ dead' = dead \cup ConnsOf(p)
    /\ IF mutex \in ConnsOf(p) THEN step \in CrashSteps /\ Leave
                               ELSE UNCHANGED <<mutex, step, hole, scan>>
    /\ UNCHANGED <<slots, count>>

Operation ==
    \/ \E c \in Conns, k \in Keys : LockRecord(c, k) \/ UnlockRecord(c, k)
    \/ \E c \in Conns : UnlockRecordProc(c, {c}) \/ UnlockRecordProc(c, ConnsOf(PidOf[c]))
    \/ UnlockRecordProc(Cleaner, Conns)

(* The steps of the operation that is inside the mutex. *)
Inside == LockCount \/ DeleteShift \/ UnlockCount \/ ScanUnlock \/ ScanPrev

Next == Operation \/ Inside \/ \E c \in Conns : Crash(PidOf[c])

Spec == Init /\ [][Next]_vars

(* A thread inside the mutex that has not died keeps running. *)
FairSpec == Spec /\ WF_vars(Inside)

------------------------------------------------------------------------------

(* The types of the shared memory and of what each connection is doing. *)
TypeOK ==
    /\ slots \in [Index -> Slot]
    /\ count \in Int
    /\ mutex \in Conns \cup {Cleaner, NoConn}
    /\ step \in {"idle", "inc", "shift", "dec", "scan"}
    /\ hole \in [start : Index, del : Index, end : Index]
    /\ scan \in [who : SUBSET Conns, idx : Index, start : Index]
    /\ dead \in SUBSET Conns

(* Every element can be found by probing: all slots from the one its hash  *)
(* names up to its own are occupied.  This is what rowlockIpcDelete moves  *)
(* elements back for.                                                      *)
Probing ==
    \A i, j \in Index :
        /\ IsValid(slots, i)
        /\ Steps(slots[i].hash, j) <= Steps(slots[i].hash, i)
        => IsValid(slots, j)

(* No row is ever locked by two connections, whoever died and wherever.    *)
OneHolder ==
    \A i, j \in Index :
        IsValid(slots, i) /\ slots[i].key = slots[j].key => slots[i].conn = slots[j].conn

(* The connection that holds row k. *)
Holder(k) ==
    IF \E i \in Index : slots[i].key = k
    THEN slots[CHOOSE i \in Index : slots[i].key = k].conn
    ELSE NoConn

(* LockRecord and LockRecordQuery answer for the holder: "DONE" to the     *)
(* holder, "LOCKED" to everyone else, and never "LOCKED" for a free row.   *)
AnswersAreExact ==
    mutex = NoConn =>
        \A c \in Conns, k \in Keys :
            /\ Holder(k) = c <=> LockResult(c, k) = "DONE"
            /\ Holder(k) \notin {c, NoConn} <=> LockResult(c, k) = "LOCKED"
            /\ LockRecordQuery(c, k) = "LOCKED" <=> LockResult(c, k) = "LOCKED"

(* The number of occupied elements. *)
Used == Cardinality({i \in Index : IsValid(slots, i)})

(* Outside the mutex, count is the number of occupied elements as long as  *)
(* no process died.                                                        *)
CountMatches == mutex = NoConn /\ dead = {} => count = Used

(* "At least 1 empty element is required" (rowlock_ipc_row.c:188). *)
OneEmpty == \E i \in Index : ~IsValid(slots, i)

(* When UnlockRecordProcCore returns, none of the owners it was called for *)
(* holds a row: no element slipped past the scan by being moved.           *)
ScanReleasesAll ==
    [][step = "scan" /\ step' = "idle" /\ dead' = dead
         => \A i \in Index : slots'[i].conn \notin scan.who]_vars

(* Whoever enters the mutex leaves it (or dies in it): no operation loops. *)
MutexIsLeft == mutex # NoConn ~> mutex = NoConn

(* The table implements the abstract row locks. *)
Abstract == INSTANCE RowLocks WITH holder <- [k \in Keys |-> Holder(k)]
RefinesRowLocks == Abstract!Spec
=============================================================================
