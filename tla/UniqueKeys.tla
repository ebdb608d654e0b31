------------------------------ MODULE UniqueKeys ------------------------------
(***************************************************************************)
(* The locks of unique keys, in memory that the processes share through    *)
(* the psmalloc library (rowlock_psm_lock.c, rowlock_psm_hash.c), and the  *)
(* statements that rely on them to keep a UNIQUE index unique while        *)
(* transactions overlap.                                                   *)
(*                                                                         *)
(* One table with one UNIQUE index.  An index record is a pair of a key    *)
(* and a rowid and stands for the row as well.  OP_NoConflict looks for a  *)
(* lock with the key alone, OP_IdxInsert and OP_IdxDelete lock the whole   *)
(* record.  The locked records are a hash table that is a plain list while *)
(* it is small.                                                            *)
(*                                                                         *)
(* pc of a connection:                                                     *)
(*   "closed"  not opened                                                  *)
(*   "wait"    in the loop of rowlockPsmInitLock                           *)
(*   "meta"    sqlite3rowlockPsmInit looks at the meta data                *)
(*   "set"     ... and has to create them                                  *)
(*   "idle"    between statements                                          *)
(*   "rows"    in a statement, before its next row or its end              *)
(*   "query"   before OP_NoConflict                                        *)
(*   "read"    sqlite3rowlockPsmLockRecordQuery has left the mutex         *)
(*   "index"   before OP_IdxInsert                                         *)
(*   "insert"  before OP_Insert                                            *)
(*   "delete"  before OP_Delete of a row of the shared btree               *)
(*   "forget"  before OP_Delete of a row of the transaction                *)
(*   "failed"  the statement is rolled back next                           *)
(*   "dead"    the process has gone                                        *)
(***************************************************************************)
EXTENDS Integers, Sequences, FiniteSetsExt

CONSTANTS Keys, Rowids,
          NoRowid,   \* the rowid of a key alone
          Conns, NoConn,
          HashOf,    \* blobHash, any function of the bytes of a record
          Initial,   \* the committed records at the start
          Scenes     \* the values of the variable scene to explore

Rec == Keys \X Rowids
KeyOnly(x) == <<x[1], NoRowid>>

ASSUME UniqueConstants ==
    /\ NoRowid \notin Rowids
    /\ Conns # {} /\ NoConn \notin Conns
    /\ HashOf \in [Keys \X (Rowids \cup {NoRowid}) -> Nat]
    /\ Initial \subseteq Rec
    /\ \A x, y \in Initial : x[1] = y[1] \/ x[2] = y[2] => x = y
    /\ Scenes \subseteq [overlap : BOOLEAN, opens : BOOLEAN, dies : BOOLEAN, saves : SUBSET Conns,
                         stmts : [Conns -> Nat], rows : Nat, rehash : Nat]

VARIABLES file,    \* who has created the file "-initlock"
          meta,    \* who has created the meta data
          handle,  \* of each connection: the meta data it uses
          list,    \* the indexes that have a hash table
          hash,    \* the hash table of the index
          holder,  \* of each rowid: the holder of its row lock (RowLocks)
          shared,  \* the committed records
          ins, del,\* of each connection: the records of its transaction btree
          hist,    \* of each connection: its lock history
          snap,    \* of each connection: its statement and named savepoint
          work,    \* of each connection: the row its statement is at
          found,   \* of each connection: pElem in LockRecordQuery
          count,   \* of each connection: its statements, and the rows of the last
          pc,
          ghost,   \* whether a change has been without its lock, and whether a
                   \* key has had two holders
          scene    \* of this behaviour: whether statements overlap, connections
                   \* are opened and processes die; who names a savepoint; the
                   \* bounds of statements in a transaction and of rows in a
                   \* statement; the size at which the list becomes a hash table
                   \* (10 in the code)

open == <<file, meta, handle>>
trans == <<ins, del, hist, snap>>
vars == <<open, list, hash, holder, shared, trans, work, found, count, pc, ghost, scene>>

Go(c, s) == pc' = [pc EXCEPT ![c] = s]

------------------------------------------------------------------------------
(* The hash table: its elements in the order in which a search meets them, *)
(* and the number of buckets, 0 while it is a list.                        *)

(* A list without its element i, and in the reverse order. *)
Without(s, i) == SubSeq(s, 1, i - 1) \o SubSeq(s, i + 1, Len(s))
Reversed(s) == [i \in 1 .. Len(s) |-> s[Len(s) + 1 - i]]

EmptyHash == [elems |-> <<>>, size |-> 0]
NoElem == [rec |-> <<>>, own |-> NoConn]
Freed == [rec |-> <<0>>, own |-> NoConn]

(* recordComparator: the fields that both records have are equal. *)
Equal(x, y) == x[1] = y[1] /\ (x[2] = y[2] \/ NoRowid \in {x[2], y[2]})

Bucket(h, x) == IF h.size = 0 THEN 0 ELSE HashOf[x] % h.size

Matches(h, x) == {i \in DOMAIN h.elems : /\ Equal(h.elems[i].rec, x)
                                         /\ Bucket(h, h.elems[i].rec) = Bucket(h, x)}

(* sqlite3HashBlobFind *)
HashBlobFind(h, x) == IF Matches(h, x) = {} THEN NoElem ELSE h.elems[Min(Matches(h, x))]

(* sqlite3HashBlobInsert without data: the element found is removed,       *)
(* whoever owns it, and an empty table becomes a list again.               *)
HashBlobRemove(h, x) ==
    IF Matches(h, x) = {} THEN h
    ELSE IF Len(h.elems) = 1 THEN EmptyHash
    ELSE [h EXCEPT !.elems = Without(@, Min(Matches(h, x)))]

(* Mutant of HashBlobInsert: the rowid is not part of the element. *)
HashBlobInsertKey(h, x, c) == [h EXCEPT !.elems = <<[rec |-> KeyOnly(x), own |-> c]>> \o @]

(* ... with data: rehashBlob links every element to the head of its new    *)
(* bucket, so that their order is reversed.  (Bound: it happens once       *)
(* between two times when the table is empty.)                             *)
HashBlobInsert(h, x, c) ==
    LET n == Len(h.elems) + 1
        e == [rec |-> x, own |-> c]
    IN  IF n >= scene.rehash /\ n > 2 * h.size
        THEN [elems |-> <<e>> \o Reversed(h.elems), size |-> 2 * n]
        ELSE [h EXCEPT !.elems = <<e>> \o @]

(* A loop over records that removes those at the positions in at. *)
RemoveEach(h, recs, at) ==
    LET left[i \in 0 .. Len(recs)] ==
            IF i = 0 THEN h
            ELSE IF i \in at THEN HashBlobRemove(left[i - 1], recs[i])
            ELSE left[i - 1]
    IN  left[Len(recs)]

HashBlobRelease(h, c) ==
    RemoveEach(h, [i \in 1 .. Len(h.elems) |-> h.elems[i].rec],
               {i \in 1 .. Len(h.elems) : h.elems[i].own = c})

(* What the connections have found, when the elements of h are left. *)
Left(h) == [d \in Conns |-> IF found[d] \in Range(h.elems) \cup {NoElem} THEN found[d] ELSE Freed]

(* Every record that a transaction has inserted or deleted is locked by    *)
(* it, and so is its row when the statement is over.                       *)
ChangesLocked ==
    \A c \in Conns : \A x \in ins[c] \cup del[c] :
        /\ [rec |-> x, own |-> c] \in Range(hash.elems)
        /\ pc[c] = "idle" => holder[x[2]] = c

(* No two connections have locked records with the same key. *)
OneHolder ==
    \A d, e \in Range(hash.elems) : d.rec[1] = e.rec[1] => d.own = e.own

(* The ghost variable watches every step, and the scene does not change. *)
Watch ==
    /\ ghost' = [bare |-> ghost.bare \/ ~ChangesLocked', twice |-> ghost.twice \/ ~OneHolder']
    /\ scene' = scene

------------------------------------------------------------------------------
(* sqlite3rowlockPsmInit *)

Snapshot(c) == [n |-> Len(hist[c]), ins |-> ins[c], del |-> del[c]]
NoSnap == [n |-> -1, ins |-> {}, del |-> {}]

Init ==
    /\ scene \in Scenes
    /\ file = NoConn
    /\ meta = IF scene.opens THEN NoConn ELSE CHOOSE c \in Conns : TRUE
    /\ handle = [c \in Conns |-> meta]
    /\ list = {}
    /\ hash = EmptyHash
    /\ holder = [r \in Rowids |-> NoConn]
    /\ shared = Initial
    /\ ins = [c \in Conns |-> {}]
    /\ del = [c \in Conns |-> {}]
    /\ hist = [c \in Conns |-> <<>>]
    /\ snap = [c \in Conns |-> [stmt |-> NoSnap, save |-> NoSnap]]
    /\ work = [c \in Conns |-> <<>>]
    /\ found = [c \in Conns |-> NoElem]
    /\ count = [c \in Conns |-> [stmts |-> 0, rows |-> 0]]
    /\ pc = [c \in Conns |-> IF scene.opens THEN "closed" ELSE "idle"]
    /\ ghost = [bare |-> FALSE, twice |-> FALSE]

Opening(c, s, t) ==
    /\ pc[c] = s
    /\ Go(c, t)
    /\ UNCHANGED <<hash, holder, shared, trans, work, found, count>>
    /\ Watch

Open(c) == Opening(c, "closed", "wait") /\ UNCHANGED <<open, list>>

(* Mutant of InitLock: open() without O_EXCL. *)
InitLockShared(c) ==
    /\ Opening(c, "wait", "meta")
    /\ file' = c
    /\ UNCHANGED <<meta, handle, list>>

(* rowlockPsmInitLock: the loop ends when the file does not exist. *)
InitLock(c) ==
    /\ file = NoConn
    /\ Opening(c, "wait", "meta")
    /\ file' = c
    /\ UNCHANGED <<meta, handle, list>>

(* One turn of the loop: the file exists. *)
InitSleep(c) == pc[c] = "wait" /\ file # NoConn /\ UNCHANGED vars

(* Not the first opener, which has left the meta data there. *)
InitJoin(c) ==
    /\ meta # NoConn
    /\ Opening(c, "meta", "idle")
    /\ handle' = [handle EXCEPT ![c] = meta]
    /\ file' = NoConn
    /\ UNCHANGED <<meta, list>>

InitFirst(c) ==
    /\ meta = NoConn
    /\ Opening(c, "meta", "set")
    /\ UNCHANGED <<open, list>>

(* Mutant of InitMeta: the file is not removed. *)
InitMetaLocked(c) ==
    /\ Opening(c, "set", "idle")
    /\ meta' = c
    /\ handle' = [handle EXCEPT ![c] = c]
    /\ list' = {}
    /\ UNCHANGED file

InitMeta(c) ==
    /\ Opening(c, "set", "idle")
    /\ meta' = c
    /\ handle' = [handle EXCEPT ![c] = c]
    /\ list' = {}
    /\ file' = NoConn

------------------------------------------------------------------------------
(* Statements *)

View(c) == (shared \ del[c]) \cup ins[c]

(* A statement begins: its savepoint is created and, when it is the first  *)
(* of its transaction to open the index, sqlite3rowlockPsmCreateTable is   *)
(* called and recorded (RLH_NEW_INDEX).  Unless the scene lets statements  *)
(* overlap, they are executed in turn.                                     *)
Begin(c) ==
    /\ pc[c] = "idle"
    /\ count[c].stmts < scene.stmts[c]
    /\ scene.overlap \/ \A d \in Conns \ {c} : pc[d] \in {"closed", "wait", "idle", "dead"}
    /\ count' = [count EXCEPT ![c] = [stmts |-> @.stmts + 1, rows |-> 0]]
    /\ snap' = [snap EXCEPT ![c].stmt = Snapshot(c)]
    /\ IF \E i \in DOMAIN hist[c] : hist[c][i][1] = "new" THEN UNCHANGED <<list, hist>>
       ELSE /\ list' = {"index"}
            /\ hist' = [hist EXCEPT ![c] = Append(@, <<"new", <<>>>>)]
    /\ Go(c, "rows")
    /\ UNCHANGED <<open, hash, holder, shared, ins, del, work, found>>
    /\ Watch

(* The statement turns to a row. *)
NextRow(c, x, s) ==
    /\ pc[c] = "rows"
    /\ count[c].rows < scene.rows
    /\ count' = [count EXCEPT ![c].rows = @ + 1]
    /\ work' = [work EXCEPT ![c] = x]
    /\ Go(c, s)

(* INSERT of a row whose rowid does not exist (OP_NotExists). *)
InsertRow(c, x) ==
    /\ \A y \in View(c) : y[2] # x[2]
    /\ NextRow(c, x, "query")
    /\ UNCHANGED <<open, list, hash, holder, shared, trans, found>>
    /\ Watch

(* Mutant of Query: the locks of others are not looked up. *)
QueryNothing(c) ==
    /\ pc[c] = "query"
    /\ Go(c, "read")
    /\ UNCHANGED <<open, list, hash, holder, shared, trans, work, found, count>>
    /\ Watch

(* OP_NoConflict: the search of LockRecordQuery for the key.  Without a    *)
(* lock the key is looked up in the index.                                 *)
Query(c) ==
    /\ pc[c] = "query"
    /\ found' = [found EXCEPT ![c] = HashBlobFind(hash, KeyOnly(work[c]))]
    /\ Go(c, "read")
    /\ UNCHANGED <<open, list, hash, holder, shared, trans, work, count>>
    /\ Watch

Conflict(c) == \E y \in View(c) : y[1] = work[c][1]

(* The rest of it reads the element outside the mutex.  An element that    *)
(* has been freed meanwhile may hold anything.                             *)
QueryRead(c) ==
    /\ pc[c] = "read"
    /\ \E mine \in IF found[c] = NoElem THEN {TRUE}
                   ELSE IF found[c] = Freed THEN BOOLEAN
                   ELSE {found[c].own = c} :
          Go(c, IF mine /\ ~Conflict(c) THEN "index" ELSE "failed")
    /\ found' = [found EXCEPT ![c] = NoElem]
    /\ UNCHANGED <<open, list, hash, holder, shared, trans, work, count>>
    /\ Watch

(* Mutant of LockRecord: an element of one's own is not noticed. *)
LockRecordAgain(c, x) ==
    /\ HashBlobFind(hash, x).own \in {c, NoConn}
    /\ hash' = HashBlobInsert(hash, x, c)
    /\ hist' = [hist EXCEPT ![c] = Append(@, <<"index", x>>)]

(* sqlite3rowlockPsmLockRecord, when it does not answer SQLITE_LOCKED, and *)
(* the history.                                                            *)
LockRecord(c, x) ==
    \/ /\ HashBlobFind(hash, x).own = c
       /\ UNCHANGED <<hash, hist>>
    \/ /\ HashBlobFind(hash, x) = NoElem
       /\ hash' = HashBlobInsert(hash, x, c)
       /\ hist' = [hist EXCEPT ![c] = Append(@, <<"index", x>>)]

(* SQLITE_CONSTRAINT: the record is locked by another connection. *)
LockRefused(c) ==
    /\ pc[c] = "index"
    /\ HashBlobFind(hash, work[c]).own \notin {c, NoConn}
    /\ Go(c, "failed")
    /\ UNCHANGED <<open, list, hash, holder, shared, trans, work, found, count>>
    /\ Watch

(* OP_IdxInsert: sqlite3TransBtreeInsert on the index. *)
IdxInsert(c) ==
    /\ pc[c] = "index"
    /\ LockRecord(c, work[c])
    /\ Go(c, "insert")
    /\ ins' = [ins EXCEPT ![c] = @ \cup {work[c]}]
    /\ UNCHANGED <<open, list, holder, shared, del, snap, work, found, count>>
    /\ Watch

(* The row lock of sqlite3TransBtreeInsert and sqlite3TransBtreeDelete on  *)
(* the table, the last step for a row.                                     *)
RowLock(c) ==
    /\ pc[c] \in {"insert", "delete"}
    /\ holder[work[c][2]] \in {c, NoConn}
    /\ holder' = [holder EXCEPT ![work[c][2]] = c]
    /\ hist' = IF holder[work[c][2]] = c THEN hist
               ELSE [hist EXCEPT ![c] = Append(@, <<"row", work[c]>>)]
    /\ Go(c, "rows")
    /\ UNCHANGED <<open, list, hash, shared, ins, del, snap, work, found, count>>
    /\ Watch

RowRefused(c) ==
    /\ pc[c] \in {"insert", "delete"}
    /\ holder[work[c][2]] \notin {c, NoConn}
    /\ Go(c, "failed")
    /\ UNCHANGED <<open, list, hash, holder, shared, trans, work, found, count>>
    /\ Watch

(* DELETE of a row.  OP_IdxDelete of a record of the transaction unlocks   *)
(* it; a record of the shared btree is locked.                             *)
DeleteOwn(c, x) ==
    /\ x \in ins[c]
    /\ NextRow(c, x, "forget")
    /\ hash' = HashBlobRemove(hash, x)
    /\ found' = Left(hash')
    /\ ins' = [ins EXCEPT ![c] = @ \ {x}]
    /\ UNCHANGED <<open, list, holder, shared, del, hist, snap>>
    /\ Watch

DeleteShared(c, x) ==
    /\ x \in shared \ (del[c] \cup ins[c])
    /\ NextRow(c, x, "delete")
    /\ LockRecord(c, x)
    /\ del' = [del EXCEPT ![c] = @ \cup {x}]
    /\ UNCHANGED <<open, list, holder, shared, ins, snap, found>>
    /\ Watch

DeleteRefused(c, x) ==
    /\ x \in shared \ (del[c] \cup ins[c])
    /\ HashBlobFind(hash, x).own \notin {c, NoConn}
    /\ NextRow(c, x, "failed")
    /\ UNCHANGED <<open, list, hash, holder, shared, trans, found>>
    /\ Watch

(* OP_Delete of a row of the transaction: it is unlocked, whoever holds    *)
(* it, unless the transaction has deleted a shared row with the rowid.     *)
Forget(c) ==
    /\ pc[c] = "forget"
    /\ holder' = IF \E y \in del[c] : y[2] = work[c][2] THEN holder
                 ELSE [holder EXCEPT ![work[c][2]] = NoConn]
    /\ Go(c, "rows")
    /\ UNCHANGED <<open, list, hash, shared, trans, work, found, count>>
    /\ Watch

EndStmt(c) ==
    /\ pc[c] = "rows"
    /\ count[c].rows > 0
    /\ snap' = [snap EXCEPT ![c].stmt = NoSnap]
    /\ work' = [work EXCEPT ![c] = <<>>]
    /\ Go(c, "idle")
    /\ UNCHANGED <<open, list, hash, holder, shared, ins, del, hist, found, count>>
    /\ Watch

------------------------------------------------------------------------------
(* Savepoints *)

(* Mutant of PsmDropTable: the list is not counted. *)
PsmDropTableAlways(l) == l \ {"index"}

(* sqlite3rowlockPsmDropTable, "if no one uses it": the list is counted,   *)
(* which has at least the entry that is to be dropped.                     *)
PsmDropTable(l) == IF l = {} THEN l \ {"index"} ELSE l

(* Mutant of Undone: index keys are not unlocked. *)
UndoneNoIndex(c, s) == {}

(* The entries of the history that a rollback to s unlocks in the index. *)
Undone(c, s) == {i \in DOMAIN hist[c] : i > s.n /\ hist[c][i][1] = "index"}

(* rowlockSavepoint(SAVEPOINT_ROLLBACK): what was locked after s is        *)
(* unlocked, the last one first and whoever holds it now, and the pager    *)
(* restores the records.                                                   *)
UndoTo(c, s) ==
    LET later(type) == {i \in DOMAIN hist[c] : i > s.n /\ hist[c][i][1] = type}
        back(i) == Len(hist[c]) + 1 - i
    IN  /\ hash' = RemoveEach(hash, [i \in 1 .. Len(hist[c]) |-> hist[c][back(i)][2]],
                              {i \in 1 .. Len(hist[c]) : back(i) \in Undone(c, s)})
        /\ found' = Left(hash')
        /\ holder' = [r \in Rowids |->
                         IF \E i \in later("row") : hist[c][i][2][2] = r THEN NoConn ELSE holder[r]]
        /\ list' = IF later("new") = {} THEN list ELSE PsmDropTable(list)
        /\ hist' = [hist EXCEPT ![c] = SubSeq(@, 1, s.n)]
        /\ ins' = [ins EXCEPT ![c] = s.ins]
        /\ del' = [del EXCEPT ![c] = s.del]

(* The statement fails, for a reason above or another one. *)
Fail(c) ==
    /\ pc[c] = "rows"
    /\ count[c].rows > 0
    /\ Go(c, "failed")
    /\ UNCHANGED <<open, list, hash, holder, shared, trans, work, found, count>>
    /\ Watch

UndoStmt(c) ==
    /\ pc[c] = "failed"
    /\ UndoTo(c, snap[c].stmt)
    /\ snap' = [snap EXCEPT ![c].stmt = NoSnap]
    /\ work' = [work EXCEPT ![c] = <<>>]
    /\ Go(c, "idle")
    /\ UNCHANGED <<open, shared, count>>
    /\ Watch

Savepoint(c) ==
    /\ pc[c] = "idle"
    /\ c \in scene.saves
    /\ snap[c].save = NoSnap
    /\ snap' = [snap EXCEPT ![c].save = Snapshot(c)]
    /\ UNCHANGED <<open, list, hash, holder, shared, ins, del, hist, work, found, count, pc>>
    /\ Watch

RollbackTo(c) ==
    /\ pc[c] = "idle"
    /\ snap[c].save \notin {NoSnap, Snapshot(c)}
    /\ UndoTo(c, snap[c].save)
    /\ UNCHANGED <<open, shared, snap, work, count, pc>>
    /\ Watch

------------------------------------------------------------------------------
(* The end of a transaction *)

(* sqlite3rowlockPsmUnlockRecordProc *)
Released(c) == HashBlobRelease(hash, c)

End(c) ==
    /\ hash' = Released(c)
    /\ found' = Left(hash')
    /\ holder' = [r \in Rowids |-> IF holder[r] = c THEN NoConn ELSE holder[r]]
    /\ ins' = [ins EXCEPT ![c] = {}]
    /\ del' = [del EXCEPT ![c] = {}]
    /\ hist' = [hist EXCEPT ![c] = <<>>]
    /\ snap' = [snap EXCEPT ![c] = [stmt |-> NoSnap, save |-> NoSnap]]
    /\ count' = [count EXCEPT ![c] = [stmts |-> 0, rows |-> 0]]

Rollback(c) ==
    /\ pc[c] = "idle"
    /\ count[c].stmts > 0
    /\ End(c)
    /\ UNCHANGED <<open, list, shared, work, pc>>
    /\ Watch

(* Mutant of Commit: it does not wait for the statements of others. *)
CommitAtOnce(c) ==
    /\ pc[c] = "idle"
    /\ count[c].stmts > 0
    /\ shared' = View(c)
    /\ End(c)
    /\ UNCHANGED <<open, list, work, pc>>
    /\ Watch

(* COMMIT waits for the statements of others, which use the table. *)
Commit(c) ==
    /\ pc[c] = "idle"
    /\ count[c].stmts > 0
    /\ \A d \in Conns \ {c} : pc[d] \in {"closed", "wait", "meta", "set", "idle", "dead"}
    /\ shared' = View(c)
    /\ End(c)
    /\ UNCHANGED <<open, list, work, pc>>
    /\ Watch

(* The process of c dies.  What it has locked stays locked.  (Bound: one   *)
(* process survives.)                                                      *)
Crash(c) ==
    /\ scene.dies
    /\ pc[c] # "dead"
    /\ \E d \in Conns \ {c} : pc[d] # "dead"
    /\ Go(c, "dead")
    /\ ins' = [ins EXCEPT ![c] = {}]
    /\ del' = [del EXCEPT ![c] = {}]
    /\ hist' = [hist EXCEPT ![c] = <<>>]
    /\ snap' = [snap EXCEPT ![c] = [stmt |-> NoSnap, save |-> NoSnap]]
    /\ work' = [work EXCEPT ![c] = <<>>]
    /\ found' = [found EXCEPT ![c] = NoElem]
    /\ count' = [count EXCEPT ![c] = [stmts |-> 0, rows |-> 0]]
    /\ UNCHANGED <<open, list, hash, holder, shared>>
    /\ Watch

(* sqlumdash_cleaner, when no transaction is open; sqlite3rowlockPsmInit   *)
(* makes it wait for the file as well.                                     *)
Clean ==
    /\ \E c \in Conns : pc[c] = "dead"
    /\ \A c \in Conns : count[c].stmts = 0
    /\ file = NoConn
    /\ hash # EmptyHash \/ \E r \in Rowids : holder[r] # NoConn
    /\ hash' = EmptyHash
    /\ holder' = [r \in Rowids |-> NoConn]
    /\ UNCHANGED <<open, list, shared, trans, work, found, count, pc>>
    /\ Watch

OpenStep(c) == InitLock(c) \/ InitJoin(c) \/ InitFirst(c) \/ InitMeta(c)

Next ==
    \/ \E c \in Conns :
          \/ Open(c) \/ InitSleep(c) \/ OpenStep(c)
          \/ Begin(c) \/ Query(c) \/ QueryRead(c) \/ LockRefused(c) \/ IdxInsert(c)
          \/ RowLock(c) \/ RowRefused(c) \/ Forget(c) \/ EndStmt(c)
          \/ \E x \in Rec : InsertRow(c, x) \/ DeleteOwn(c, x) \/ DeleteShared(c, x) \/ DeleteRefused(c, x)
          \/ Fail(c) \/ UndoStmt(c) \/ Savepoint(c) \/ RollbackTo(c)
          \/ Rollback(c) \/ Commit(c) \/ Crash(c)
    \/ Clean

Spec == Init /\ [][Next]_vars

(* A process that is opening the database goes on. *)
FairSpec == Spec /\ \A c \in Conns : WF_vars(OpenStep(c))

------------------------------------------------------------------------------

(* The types. *)
TypeOK ==
    /\ file \in Conns \cup {NoConn}
    /\ meta \in Conns \cup {NoConn}
    /\ handle \in [Conns -> Conns \cup {NoConn}]
    /\ list \subseteq {"index"}
    /\ \A i \in DOMAIN hash.elems : hash.elems[i] \in [rec : Rec, own : Conns]
    /\ hash.size \in Nat
    /\ holder \in [Rowids -> Conns \cup {NoConn}]
    /\ shared \subseteq Rec
    /\ ins \in [Conns -> SUBSET Rec]
    /\ del \in [Conns -> SUBSET Rec]

(* The types, and "assert( !pElem )" in sqlite3rowlockPsmLockRecord: a     *)
(* record is locked once, though the hash table is searched with parts of  *)
(* records and is rebuilt under the locks it holds.                        *)
OneElement ==
    TypeOK /\ \A i, j \in DOMAIN hash.elems : hash.elems[i].rec = hash.elems[j].rec => i = j

(* While statements are executed in turn, the locked records are a list    *)
(* and no change has lost its lock, the query of OP_NoConflict by key      *)
(* keeps two transactions from locking the same key with different rowids. *)
KeyHasOneHolder ==
    ~scene.overlap /\ hash.size = 0 /\ ~ghost.bare => OneHolder

(* The committed rows have different keys and different rowids, whatever   *)
(* the interleaving of statements, commits, rollbacks, savepoints and      *)
(* deaths, as long as no change has been without its lock and no key has   *)
(* been locked by two transactions.                                        *)
UniqueCommitted ==
    ~ghost.bare /\ ~ghost.twice => \A x, y \in shared : x[1] = y[1] \/ x[2] = y[2] => x = y

(* A lock of a connection that is between statements is for a change of    *)
(* its transaction: statements and savepoints that are rolled back, and    *)
(* transactions that end, leave no lock behind.                            *)
NoSpareLock ==
    \A e \in Range(hash.elems) : pc[e.own] = "idle" => e.rec \in ins[e.own] \cup del[e.own]

(* "assert( pTable )" in the functions of rowlock_psm_lock.c: the hash     *)
(* table of the index is there during every statement, though a rollback   *)
(* of another connection calls sqlite3rowlockPsmDropTable.                 *)
TableThere ==
    \A c \in Conns : pc[c] \in {"rows", "query", "index", "forget", "failed"} => list # {}

(* All connections use the meta data of the first opener. *)
OneMeta == \A c, d \in Conns : NoConn \notin {handle[c], handle[d]} => handle[c] = handle[d]

(* The loop of rowlockPsmInitLock ends, unless a process dies. *)
OpenTerminates ==
    \A c \in Conns : pc[c] = "wait" ~> pc[c] # "wait" \/ \E d \in Conns : pc[d] = "dead"
===============================================================================
