--------------------------- MODULE UniqueKeysProof ---------------------------
(***************************************************************************)
(* The locks of unique keys, for any number of connections, keys and       *)
(* rowids, any hash function and any size at which the list is rehashed:   *)
(* OneMeta, TableThere, OneElement, NoSpareLock and UniqueCommitted of     *)
(* UniqueKeys.                                                             *)
(*                                                                         *)
(* IInv is about the opening.  The file "-initlock" is a lock: whoever     *)
(* looks at the meta data has created it, so that only one process at a    *)
(* time finds that there are none.  The list of hash tables is emptied by  *)
(* the creator of the meta data, before anybody is open, and never again:  *)
(* this is what keeps a hash table under the statements that use it.       *)
(*                                                                         *)
(* TInv is about the locks of each connection.  Those that are not for a   *)
(* change from before a savepoint are in the lock history after it, so     *)
(* that a rollback to it takes them away.  The loops over the hash table   *)
(* and over the history are followed by an induction that takes the first  *)
(* turn at which the claim would fail.                                     *)
(*                                                                         *)
(* UInv is about the records.  What each connection sees is unique, and    *)
(* would be after a rollback to a savepoint whose changes are still        *)
(* locked, as long as no change has been without its lock and no key has   *)
(* had two holders; then two transactions have no key and no rowid in      *)
(* common, and either may be committed first.                              *)
(***************************************************************************)
EXTENDS UniqueKeys, TLAPS

(* The types of what the proof is about, as far as it needs them. *)
PartTypes ==
    /\ file \in Conns \cup {NoConn}
    /\ meta \in Conns \cup {NoConn}
    /\ handle \in [Conns -> Conns \cup {NoConn}]
    /\ pc \in [Conns -> {"closed", "wait", "meta", "set", "idle", "rows", "query", "read",
                         "index", "insert", "delete", "forget", "failed", "dead"}]
    /\ list \subseteq {"index"}
    /\ hist = [c \in Conns |-> hist[c]]
    /\ snap = [c \in Conns |-> [stmt |-> snap[c].stmt, save |-> snap[c].save]]

(* The O_EXCL file protects the creation of the meta data. *)
FileLock ==
    \A c \in Conns :
        /\ pc[c] \in {"meta", "set"} => file = c
        /\ pc[c] = "set" => meta = NoConn

(* A handle points to the meta data there are. *)
Handles == \A c \in Conns : handle[c] # NoConn => handle[c] = meta

(* Before the meta data exist nobody is open and there is no hash table. *)
NotOpen ==
    meta = NoConn =>
        /\ list = {}
        /\ \A c \in Conns : pc[c] \in {"closed", "wait", "meta", "set", "dead"}

(* Without a hash table nobody is in a statement, and nobody can go back   *)
(* to a history that records one.                                          *)
Unused ==
    list = {} => \A c \in Conns :
        /\ pc[c] \in {"closed", "wait", "meta", "set", "idle", "dead"}
        /\ hist[c] = <<>>
        /\ {snap[c].stmt.n, snap[c].save.n} \subseteq {-1, 0}

IInv == PartTypes /\ FileLock /\ Handles /\ NotOpen /\ Unused

(* What a connection is at inside a statement. *)
Busy == {"rows", "query", "read", "index", "insert", "delete", "forget", "failed"}

LEMMA InitInv == Init => IInv
<1> SUFFICES ASSUME Init PROVE IInv
    BY Zenon
<1> USE UniqueConstants
<1>1. meta \in Conns \cup {NoConn}
  <2>1. (CHOOSE c \in Conns : TRUE) \in Conns
    BY Zenon
  <2> QED
    BY <2>1, Zenon DEF Init
<1>2. PartTypes
    BY <1>1, Zenon DEF Init, PartTypes
<1>3. FileLock /\ Handles
    BY Zenon DEF Init, FileLock, Handles
<1>4. NotOpen
    BY Zenon DEF Init, NotOpen
<1>5. Unused
    BY Zenon DEF Init, Unused, NoSnap
<1> QED
    BY <1>2, <1>3, <1>4, <1>5, Zenon DEF IInv

(* A step inside a statement leaves the opening and the list alone. *)
LEMMA Kept ==
    ASSUME IInv, NEW c \in Conns, NEW s \in Busy \cup {"idle", "dead"},
           UNCHANGED <<file, meta, handle, list>>,
           pc[c] \in Busy, pc' = [pc EXCEPT ![c] = s],
           hist' = [d \in Conns |-> hist'[d]],
           snap' = [d \in Conns |-> [stmt |-> snap'[d].stmt, save |-> snap'[d].save]]
    PROVE  IInv'
<1>1. list # {} /\ meta # NoConn
    BY Zenon DEF IInv, Unused, NotOpen, Busy
<1>2. FileLock' /\ Handles'
    BY Zenon DEF IInv, FileLock, Handles, Busy, PartTypes
<1>3. PartTypes'
    BY Zenon DEF IInv, PartTypes, Busy
<1> QED
    BY <1>1, <1>2, <1>3, Zenon DEF IInv, NotOpen, Unused

(* An assignment to an element keeps the shape of the history *)
LEMMA Shapes ==
    ASSUME PartTypes, NEW c \in Conns, NEW v
    PROVE  [hist EXCEPT ![c] = v] = [d \in Conns |-> IF d = c THEN v ELSE hist[d]]
<1>1. hist = [d \in Conns |-> hist[d]]
    BY Zenon DEF PartTypes
<1> QED
    BY <1>1, Zenon

(* ... and the one of the savepoints. *)
LEMMA ShapesKept ==
    ASSUME PartTypes, NEW c \in Conns,
           hist' = hist \/ \E v : hist' = [hist EXCEPT ![c] = v],
           snap' = snap \/ \E v : snap' = [snap EXCEPT ![c].stmt = v]
    PROVE  /\ hist' = [d \in Conns |-> hist'[d]]
           /\ snap' = [d \in Conns |-> [stmt |-> snap'[d].stmt, save |-> snap'[d].save]]
<1>1. hist' = [d \in Conns |-> hist'[d]]
  <2>1. CASE hist' = hist
    BY <2>1, Zenon DEF PartTypes
  <2>2. ASSUME NEW v, hist' = [hist EXCEPT ![c] = v] PROVE hist' = [d \in Conns |-> hist'[d]]
    BY <2>2, Shapes, Zenon
  <2> QED
    BY <2>1, <2>2, Zenon
<1>2. snap' = [d \in Conns |-> [stmt |-> snap'[d].stmt, save |-> snap'[d].save]]
  <2>1. CASE snap' = snap
    BY <2>1, Zenon DEF PartTypes
  <2>2. ASSUME NEW v, snap' = [snap EXCEPT ![c].stmt = v]
        PROVE  snap' = [d \in Conns |-> [stmt |-> snap'[d].stmt, save |-> snap'[d].save]]
    <3>1. snap' = [d \in Conns |-> [stmt |-> IF d = c THEN v ELSE snap[d].stmt,
                                    save |-> snap[d].save]]
      <4>1. snap = [d \in Conns |-> [stmt |-> snap[d].stmt, save |-> snap[d].save]]
        BY Zenon DEF PartTypes
      <4>2. snap' = [snap EXCEPT ![c] = [snap[c] EXCEPT !.stmt = v]]
        BY <2>2, Zenon
      <4> QED
        BY <4>1, <4>2, Zenon
    <3>2. \A d \in Conns : snap'[d] = [stmt |-> snap'[d].stmt, save |-> snap'[d].save]
      BY <3>1, Zenon
    <3> QED
      BY <3>1, <3>2, Zenon
  <2> QED
    BY <2>1, <2>2, Zenon
<1> QED
    BY <1>1, <1>2, Zenon

(* The steps of a statement, from its first row to its end. *)
LEMMA RowSteps ==
    ASSUME IInv, NEW c \in Conns,
           \/ Query(c) \/ QueryRead(c) \/ LockRefused(c) \/ IdxInsert(c) \/ RowLock(c)
           \/ RowRefused(c) \/ Forget(c) \/ EndStmt(c) \/ Fail(c)
           \/ \E x \in Rec : InsertRow(c, x) \/ DeleteOwn(c, x) \/ DeleteShared(c, x)
                            \/ DeleteRefused(c, x)
    PROVE  IInv'
<1> USE DEF Go, trans, open, NextRow
<1>1. UNCHANGED <<file, meta, handle, list>>
    BY Zenon DEF Query, QueryRead, LockRefused, IdxInsert, RowLock, RowRefused, Forget, EndStmt, Fail,
           InsertRow, DeleteOwn, DeleteShared, DeleteRefused
<1>2. pc[c] \in Busy /\ \E s \in Busy \cup {"idle", "dead"} : pc' = [pc EXCEPT ![c] = s]
    BY Zenon DEF Query, QueryRead, LockRefused, IdxInsert, RowLock, RowRefused, Forget, EndStmt, Fail,
           InsertRow, DeleteOwn, DeleteShared, DeleteRefused, Busy
<1>3. hist' = hist \/ \E v : hist' = [hist EXCEPT ![c] = v]
    BY Zenon DEF Query, QueryRead, LockRefused, IdxInsert, RowLock, RowRefused, Forget, EndStmt, Fail,
           InsertRow, DeleteOwn, DeleteShared, DeleteRefused, LockRecord
<1>4. snap' = snap \/ \E v : snap' = [snap EXCEPT ![c].stmt = v]
    BY Zenon DEF Query, QueryRead, LockRefused, IdxInsert, RowLock, RowRefused, Forget, EndStmt, Fail,
           InsertRow, DeleteOwn, DeleteShared, DeleteRefused
<1>5. /\ hist' = [d \in Conns |-> hist'[d]]
      /\ snap' = [d \in Conns |-> [stmt |-> snap'[d].stmt, save |-> snap'[d].save]]
    BY <1>3, <1>4, ShapesKept, Zenon DEF IInv
<1> QED
    BY <1>1, <1>2, <1>5, Kept, Zenon

(* sqlite3rowlockPsmDropTable leaves the list as it is. *)
LEMMA DropNothing == PartTypes => PsmDropTable(list) = list
BY Zenon DEF PsmDropTable, PartTypes

(* The rollback of a statement. *)
LEMMA UndoStmtStep ==
    ASSUME IInv, NEW c \in Conns, UndoStmt(c) PROVE IInv'
<1>1. UNCHANGED <<file, meta, handle, list>>
    BY DropNothing, Zenon DEF UndoStmt, UndoTo, open, IInv
<1>2. pc[c] \in Busy /\ pc' = [pc EXCEPT ![c] = "idle"]
    BY Zenon DEF UndoStmt, Go, Busy
<1>3. /\ hist' = [hist EXCEPT ![c] = SubSeq(@, 1, snap[c].stmt.n)]
      /\ snap' = [snap EXCEPT ![c].stmt = NoSnap]
    BY Zenon DEF UndoStmt, UndoTo
<1>4. /\ hist' = [d \in Conns |-> hist'[d]]
      /\ snap' = [d \in Conns |-> [stmt |-> snap'[d].stmt, save |-> snap'[d].save]]
    BY <1>3, ShapesKept, Zenon DEF IInv
<1> QED
    BY <1>1, <1>2, <1>4, Kept, Zenon

------------------------------------------------------------------------------
(* Between statements *)

(* Begin: sqlite3rowlockPsmCreateTable has been called before the first    *)
(* row, by this statement or by an earlier one of the transaction.         *)
LEMMA BeginStep ==
    ASSUME IInv, NEW c \in Conns, Begin(c) PROVE IInv'
<1>1. /\ pc[c] = "idle" /\ pc' = [pc EXCEPT ![c] = "rows"]
      /\ UNCHANGED <<file, meta, handle>>
    BY Zenon DEF Begin, Go, open
<1>2. list' = {"index"}
  <2>1. CASE list = {}
    <3>1. hist[c] = <<>>
      BY <2>1, Zenon DEF IInv, Unused
    <3> QED
      BY <3>1 DEF Begin
  <2>2. CASE list # {}
    BY <2>2 DEF Begin, IInv, PartTypes
  <2> QED
    BY <2>1, <2>2, Zenon
<1>3. /\ hist' = [d \in Conns |-> hist'[d]]
      /\ snap' = [d \in Conns |-> [stmt |-> snap'[d].stmt, save |-> snap'[d].save]]
  <2>1. hist' = hist \/ \E v : hist' = [hist EXCEPT ![c] = v]
    BY Zenon DEF Begin
  <2>2. \E v : snap' = [snap EXCEPT ![c].stmt = v]
    BY Zenon DEF Begin
  <2> QED
    BY <2>1, <2>2, ShapesKept, Zenon DEF IInv
<1>4. meta # NoConn
    BY <1>1, Zenon DEF IInv, NotOpen
<1>5. PartTypes'
    BY <1>1, <1>2, <1>3, Zenon DEF IInv, PartTypes
<1>6. FileLock' /\ Handles'
    BY <1>1, <1>4, Zenon DEF IInv, PartTypes, FileLock, Handles
<1> QED
    BY <1>1, <1>2, <1>4, <1>5, <1>6, Zenon DEF IInv, NotOpen, Unused

(* The steps that change the history and the savepoints of an idle         *)
(* connection only.                                                        *)
LEMMA KeptIdle ==
    ASSUME IInv, NEW c \in Conns, UNCHANGED <<file, meta, handle, list, pc>>,
           hist' = [d \in Conns |-> hist'[d]],
           snap' = [d \in Conns |-> [stmt |-> snap'[d].stmt, save |-> snap'[d].save]],
           \A d \in Conns \ {c} : hist'[d] = hist[d] /\ snap'[d] = snap[d],
           list = {} => hist'[c] = <<>> /\ {snap'[c].stmt.n, snap'[c].save.n} \subseteq {-1, 0}
    PROVE  IInv'
<1>1. PartTypes' /\ FileLock' /\ Handles' /\ NotOpen'
    BY Zenon DEF IInv, PartTypes, FileLock, Handles, NotOpen
<1>2. Unused'
    BY DEF IInv, Unused
<1> QED
    BY <1>1, <1>2, Zenon DEF IInv

LEMMA SavepointStep ==
    ASSUME IInv, NEW c \in Conns, Savepoint(c) PROVE IInv'
<1>1. UNCHANGED <<file, meta, handle, list, pc>> /\ hist' = hist
    BY Zenon DEF Savepoint, open
<1>2. hist' = [d \in Conns |-> hist'[d]]
    BY <1>1, Zenon DEF IInv, PartTypes
<1>3. snap' = [d \in Conns |-> [stmt |-> snap[d].stmt,
                                save |-> IF d = c THEN Snapshot(c) ELSE snap[d].save]]
  <2> DEFINE v == Snapshot(c)
  <2>1. snap' = [snap EXCEPT ![c].save = v]
    BY Zenon DEF Savepoint
  <2> HIDE DEF v
  <2>2. snap = [d \in Conns |-> [stmt |-> snap[d].stmt, save |-> snap[d].save]]
    BY Zenon DEF IInv, PartTypes
  <2>3. snap' = [d \in Conns |-> [stmt |-> snap[d].stmt,
                                   save |-> IF d = c THEN v ELSE snap[d].save]]
    <3>1. snap' = [snap EXCEPT ![c] = [snap[c] EXCEPT !.save = v]]
      BY <2>1, Zenon
    <3> QED
      BY <2>2, <3>1
  <2> QED
    BY <2>3, Zenon DEF v
<1>4. /\ snap' = [d \in Conns |-> [stmt |-> snap'[d].stmt, save |-> snap'[d].save]]
      /\ snap'[c].stmt = snap[c].stmt /\ snap'[c].save = Snapshot(c)
    BY <1>3, Zenon
<1>5. \A d \in Conns \ {c} : hist'[d] = hist[d] /\ snap'[d] = snap[d]
    BY <1>1, <1>3, Zenon DEF IInv, PartTypes
<1>6. list = {} => hist'[c] = <<>> /\ {snap'[c].stmt.n, snap'[c].save.n} \subseteq {-1, 0}
    BY <1>1, <1>4 DEF IInv, Unused, Snapshot
<1> QED
    BY <1>1, <1>2, <1>4, <1>5, <1>6, KeptIdle, Zenon

LEMMA RollbackToStep ==
    ASSUME IInv, NEW c \in Conns, RollbackTo(c) PROVE IInv'
<1>1. UNCHANGED <<file, meta, handle, list, pc>> /\ snap' = snap
    BY DropNothing, Zenon DEF RollbackTo, UndoTo, open, IInv
<1>2. hist' = [d \in Conns |-> IF d = c THEN SubSeq(hist[c], 1, snap[c].save.n) ELSE hist[d]]
    BY Shapes, Zenon DEF RollbackTo, UndoTo, IInv
<1>3. /\ hist' = [d \in Conns |-> hist'[d]]
      /\ snap' = [d \in Conns |-> [stmt |-> snap'[d].stmt, save |-> snap'[d].save]]
    BY <1>1, <1>2, Zenon DEF IInv, PartTypes
<1>4. \A d \in Conns \ {c} : hist'[d] = hist[d] /\ snap'[d] = snap[d]
    BY <1>1, <1>2, Zenon
<1>5. ASSUME list = {}
      PROVE  hist'[c] = <<>> /\ {snap'[c].stmt.n, snap'[c].save.n} \subseteq {-1, 0}
  <2>1. hist[c] = <<>> /\ snap[c].save.n \in {-1, 0} /\ {snap[c].stmt.n, snap[c].save.n} \subseteq {-1, 0}
    BY <1>5, Zenon DEF IInv, Unused
  <2>2. SubSeq(<<>>, 1, snap[c].save.n) = <<>>
    BY <2>1
  <2> QED
    BY <1>1, <1>2, <2>1, <2>2, Zenon
<1> QED
    BY <1>1, <1>3, <1>4, <1>5, KeptIdle, Zenon

(* ROLLBACK and COMMIT. *)
LEMMA EndStep ==
    ASSUME IInv, NEW c \in Conns, Rollback(c) \/ Commit(c) PROVE IInv'
<1>1. UNCHANGED <<file, meta, handle, list, pc>>
    BY Zenon DEF Rollback, Commit, open
<1>2. hist' = [d \in Conns |-> IF d = c THEN <<>> ELSE hist[d]]
    BY Shapes, Zenon DEF Rollback, Commit, End, IInv
<1>3. snap' = [d \in Conns |-> IF d = c THEN [stmt |-> NoSnap, save |-> NoSnap] ELSE snap[d]]
    BY Zenon DEF Rollback, Commit, End, IInv, PartTypes
<1>4. /\ hist' = [d \in Conns |-> hist'[d]]
      /\ snap' = [d \in Conns |-> [stmt |-> snap'[d].stmt, save |-> snap'[d].save]]
    BY <1>2, <1>3, Zenon DEF IInv, PartTypes
<1>5. \A d \in Conns \ {c} : hist'[d] = hist[d] /\ snap'[d] = snap[d]
    BY <1>2, <1>3, Zenon
<1>6. hist'[c] = <<>> /\ {snap'[c].stmt.n, snap'[c].save.n} \subseteq {-1, 0}
    BY <1>2, <1>3, Zenon DEF NoSnap
<1> QED
    BY <1>1, <1>4, <1>5, <1>6, KeptIdle, Zenon

------------------------------------------------------------------------------
(* Opening, dying and cleaning *)

(* What sqlite3rowlockPsmInit leaves alone. *)
LEMMA OpeningKeeps ==
    ASSUME NEW c \in Conns, NEW s, NEW t, Opening(c, s, t)
    PROVE  pc[c] = s /\ pc' = [pc EXCEPT ![c] = t] /\ UNCHANGED <<hist, snap>>
BY Zenon DEF Opening, Go, trans

LEMMA OpenSteps ==
    ASSUME IInv, NEW c \in Conns, Open(c) \/ OpenStep(c) PROVE IInv'
<1> USE DEF open
<1>1. CASE Open(c)
  <2>1. pc[c] = "closed" /\ pc' = [pc EXCEPT ![c] = "wait"] /\ UNCHANGED <<file, meta, handle, list, hist, snap>>
    BY <1>1, OpeningKeeps, Zenon DEF Open
  <2>2. PartTypes' /\ FileLock' /\ Handles'
    BY <2>1, Zenon DEF IInv, PartTypes, FileLock, Handles
  <2> QED
    BY <2>1, <2>2 DEF IInv, PartTypes, NotOpen, Unused
<1>2. CASE InitLock(c)
  <2>1. /\ file = NoConn /\ file' = c /\ pc[c] = "wait" /\ pc' = [pc EXCEPT ![c] = "meta"]
        /\ UNCHANGED <<meta, handle, list, hist, snap>>
    BY <1>2, OpeningKeeps, Zenon DEF InitLock
  <2>2. PartTypes' /\ FileLock' /\ Handles'
    BY <2>1, UniqueConstants, Zenon DEF IInv, PartTypes, FileLock, Handles
  <2> QED
    BY <2>1, <2>2 DEF IInv, PartTypes, NotOpen, Unused
<1>3. CASE InitJoin(c)
  <2>1. /\ meta # NoConn /\ file' = NoConn /\ handle' = [handle EXCEPT ![c] = meta]
        /\ pc[c] = "meta" /\ pc' = [pc EXCEPT ![c] = "idle"]
        /\ UNCHANGED <<meta, list, hist, snap>>
    BY <1>3, OpeningKeeps, Zenon DEF InitJoin
  <2>2. PartTypes' /\ FileLock' /\ Handles'
    BY <2>1, UniqueConstants, Zenon DEF IInv, PartTypes, FileLock, Handles
  <2> QED
    BY <2>1, <2>2 DEF IInv, PartTypes, NotOpen, Unused
<1>4. CASE InitFirst(c)
  <2>1. /\ meta = NoConn /\ pc[c] = "meta" /\ pc' = [pc EXCEPT ![c] = "set"]
        /\ UNCHANGED <<file, meta, handle, list, hist, snap>>
    BY <1>4, OpeningKeeps, Zenon DEF InitFirst
  <2>2. PartTypes' /\ FileLock' /\ Handles'
    BY <2>1, UniqueConstants, Zenon DEF IInv, PartTypes, FileLock, Handles
  <2> QED
    BY <2>1, <2>2 DEF IInv, PartTypes, NotOpen, Unused
<1>5. CASE InitMeta(c)
  <2>1. /\ meta' = c /\ file' = NoConn /\ handle' = [handle EXCEPT ![c] = c] /\ list' = {}
        /\ pc[c] = "set" /\ pc' = [pc EXCEPT ![c] = "idle"]
        /\ UNCHANGED <<hist, snap>>
    BY <1>5, OpeningKeeps, Zenon DEF InitMeta
  <2>2. meta = NoConn /\ list = {}
    BY <2>1, Zenon DEF IInv, FileLock, NotOpen
  <2>3. PartTypes' /\ FileLock' /\ Handles'
    BY <2>1, <2>2, UniqueConstants, ZenonT(30) DEF IInv, PartTypes, FileLock, Handles
  <2> QED
    BY <2>1, <2>2, <2>3, UniqueConstants DEF IInv, PartTypes, NotOpen, Unused
<1> QED
    BY <1>1, <1>2, <1>3, <1>4, <1>5, Zenon DEF OpenStep

LEMMA CrashStep ==
    ASSUME IInv, NEW c \in Conns, Crash(c) PROVE IInv'
<1>1. /\ UNCHANGED <<file, meta, handle, list>> /\ pc' = [pc EXCEPT ![c] = "dead"]
      /\ hist' = [hist EXCEPT ![c] = <<>>]
      /\ snap' = [snap EXCEPT ![c] = [stmt |-> NoSnap, save |-> NoSnap]]
    BY Zenon DEF Crash, Go, open
<1>2. hist' = [d \in Conns |-> IF d = c THEN <<>> ELSE hist[d]]
    BY <1>1, Zenon DEF IInv, PartTypes
<1>3. snap' = [d \in Conns |-> IF d = c THEN [stmt |-> NoSnap, save |-> NoSnap] ELSE snap[d]]
    BY <1>1, Zenon DEF IInv, PartTypes
<1>4. /\ hist' = [d \in Conns |-> hist'[d]]
      /\ snap' = [d \in Conns |-> [stmt |-> snap'[d].stmt, save |-> snap'[d].save]]
    BY <1>2, <1>3, Zenon DEF IInv, PartTypes
<1>5. PartTypes' /\ FileLock' /\ Handles' /\ NotOpen'
    BY <1>1, <1>4, Zenon DEF IInv, PartTypes, FileLock, Handles, NotOpen
<1>6. Unused'
    BY <1>1, <1>2, <1>3 DEF IInv, PartTypes, Unused, NoSnap
<1> QED
    BY <1>5, <1>6, Zenon DEF IInv

LEMMA Unchanged ==
    ASSUME IInv, UNCHANGED <<file, meta, handle, list, hist, snap, pc>> PROVE IInv'
BY Zenon DEF IInv, PartTypes, FileLock, Handles, NotOpen, Unused

(* Every step keeps the invariant. *)
LEMMA NextInv == IInv /\ [Next]_vars => IInv'
<1> SUFFICES ASSUME IInv, [Next]_vars PROVE IInv'
    BY Zenon
<1>1. CASE UNCHANGED vars
    BY <1>1, Unchanged, Zenon DEF vars, open, trans
<1>2. CASE Clean
    BY <1>2, Unchanged, Zenon DEF Clean, open, trans
<1>3. ASSUME NEW c \in Conns, InitSleep(c) PROVE IInv'
    BY <1>3, Unchanged, Zenon DEF InitSleep, vars, open, trans
<1> QED
    BY <1>1, <1>2, <1>3, OpenSteps, BeginStep, RowSteps, UndoStmtStep, SavepointStep,
       RollbackToStep, EndStep, CrashStep, Zenon DEF Next

(* ... and so the behaviours have it. *)
LEMMA InvHolds == Spec => []IInv
BY InitInv, NextInv, PTL DEF Spec

------------------------------------------------------------------------------
(* The hash table *)

(* The natural numbers are well-ordered.  The lemmas that need it have it  *)
(* as an assumption, which Smallest discharges.                            *)
Least == \A S \in SUBSET Nat : S # {} => \E m \in S : \A n \in S : m <= n

(* Induction from 0 to n over a set of numbers. *)
LEMMA UpTo ==
    ASSUME Least,
           NEW n \in Nat, NEW S, 0 \in S, \A k \in 0 .. n - 1 : k \in S => k + 1 \in S
    PROVE  0 .. n \subseteq S
<1> SUFFICES ASSUME (0 .. n) \ S # {} PROVE FALSE
    BY Zenon
<1>1. PICK m \in (0 .. n) \ S : \A k \in (0 .. n) \ S : m <= k
  <2>1. (0 .. n) \ S \in SUBSET Nat
    OBVIOUS
  <2> QED
    BY <2>1, Zenon DEF Least
<1> QED
    BY <1>1

(* A hash table in which no record is locked twice. *)
Elem == [rec : Rec, own : Conns]
Good(h) ==
    /\ h \in [elems : Seq(Elem), size : Nat]
    /\ \A i, j \in DOMAIN h.elems : h.elems[i].rec = h.elems[j].rec => i = j

LEMMA ElemTypes ==
    ASSUME NEW h, Good(h)
    PROVE  \A i \in DOMAIN h.elems : i \in Nat /\ h.elems[i].rec \in Rec /\ h.elems[i].own \in Conns
<1>1. h.elems \in Seq(Elem)
    BY Zenon DEF Good
<1>2. ASSUME NEW s \in Seq(Elem), NEW i \in DOMAIN s PROVE i \in Nat /\ s[i] \in Elem
    OBVIOUS
<1> QED
    BY <1>1, <1>2, Zenon DEF Elem

(* A sequence without one of its elements. *)
LEMMA RemovedAt ==
    ASSUME NEW T, NEW s \in Seq(T), NEW k \in 1 .. Len(s)
    PROVE  /\ Without(s, k) \in Seq(T) /\ Len(Without(s, k)) = Len(s) - 1
           /\ \A i \in 1 .. Len(s) - 1 : Without(s, k)[i] = IF i < k THEN s[i] ELSE s[i + 1]
<1> DEFINE a == SubSeq(s, 1, k - 1)
           b == SubSeq(s, k + 1, Len(s))
<1>0. Len(s) \in Nat /\ k \in Nat /\ 1 <= k /\ k <= Len(s)
    OBVIOUS
<1>1. a \in Seq(T) /\ Len(a) = k - 1 /\ \A i \in 1 .. k - 1 : a[i] = s[i]
    OBVIOUS
<1>2. b \in Seq(T) /\ Len(b) = Len(s) - k /\ \A i \in 1 .. Len(s) - k : b[i] = s[k + i]
    OBVIOUS
<1>3. Without(s, k) = a \o b
    BY Zenon DEF Without
<1> HIDE DEF a, b
<1>4. a \o b \in Seq(T) /\ Len(a \o b) = Len(s) - 1
  <2>1. ASSUME NEW u \in Seq(T), NEW v \in Seq(T)
        PROVE  u \o v \in Seq(T) /\ Len(u \o v) = Len(u) + Len(v)
    OBVIOUS
  <2>2. a \o b \in Seq(T) /\ Len(a \o b) = Len(a) + Len(b)
    BY <1>1, <1>2, <2>1, Zenon
  <2>3. k - 1 + (Len(s) - k) = Len(s) - 1
    BY <1>0
  <2> QED
    BY <1>1, <1>2, <2>2, <2>3, Zenon
<1>5. ASSUME NEW i \in 1 .. Len(s) - 1 PROVE (a \o b)[i] = IF i < k THEN s[i] ELSE s[i + 1]
  <2>1. CASE i < k
    BY <1>1, <1>2, <2>1
  <2>2. CASE i >= k
    <3>1. (a \o b)[i] = b[i - (k - 1)]
      BY <1>1, <1>2, <2>2
    <3>2. i - (k - 1) \in 1 .. Len(s) - k /\ k + (i - (k - 1)) = i + 1
      BY <2>2
    <3> QED
      BY <1>2, <2>2, <3>1, <3>2
  <2>3. i < k \/ i >= k
    BY <1>0
  <2> QED
    BY <2>1, <2>2, <2>3, Zenon
<1> QED
    BY <1>3, <1>4, <1>5, Zenon

LEMMA InRange ==
    ASSUME NEW f
    PROVE  /\ \A i \in DOMAIN f : f[i] \in Range(f)
           /\ \A e \in Range(f) : \E i \in DOMAIN f : f[i] = e
BY Zenon DEF Range

(* It is searched with a whole record: the element found has the record. *)
LEMMA MatchesIs ==
    ASSUME NEW h, Good(h), NEW x \in Rec
    PROVE  \A i : i \in Matches(h, x) <=> i \in DOMAIN h.elems /\ h.elems[i].rec = x
<1>1. ASSUME NEW i \in DOMAIN h.elems PROVE h.elems[i].rec \in Rec
    BY ElemTypes, Zenon
<1>2. \A y \in Rec : y = <<y[1], y[2]>> /\ y[2] \in Rowids
    BY DEF Rec
<1>3. \A y \in Rec : Equal(y, x) <=> y = x
    BY <1>2, UniqueConstants, Zenon DEF Equal
<1> QED
    BY <1>1, <1>3, Zenon DEF Matches

LEMMA MatchOne ==
    ASSUME NEW h, Good(h), NEW x \in Rec, Matches(h, x) # {}
    PROVE  /\ Min(Matches(h, x)) \in DOMAIN h.elems
           /\ h.elems[Min(Matches(h, x))].rec = x
           /\ \A i \in DOMAIN h.elems : h.elems[i].rec = x <=> i = Min(Matches(h, x))
<1>1. PICK i \in DOMAIN h.elems : h.elems[i].rec = x
    BY MatchesIs, Zenon
<1>2. Matches(h, x) = {i}
  <2>1. \A j : j \in Matches(h, x) <=> j \in DOMAIN h.elems /\ h.elems[j].rec = x
    BY MatchesIs, Zenon
  <2>2. \A j \in DOMAIN h.elems : h.elems[j].rec = x => j = i
    BY <1>1, Zenon DEF Good
  <2>3. \A j : j \in Matches(h, x) <=> j = i
    BY <1>1, <2>1, <2>2, Zenon
  <2> QED
    BY <2>3, Zenon
<1>3. i \in Nat
    BY ElemTypes, Zenon
<1>4. Min({i}) = i
    BY <1>3 DEF Min
<1> QED
    BY <1>1, <1>2, <1>4, Zenon DEF Good

LEMMA FindIs ==
    ASSUME NEW h, Good(h), NEW x \in Rec
    PROVE  \/ /\ HashBlobFind(h, x) = NoElem
              /\ \A e \in Range(h.elems) : e.rec # x
           \/ /\ HashBlobFind(h, x) \in Range(h.elems)
              /\ HashBlobFind(h, x).rec = x /\ HashBlobFind(h, x).own \in Conns
              /\ HashBlobFind(h, x) # NoElem
<1>1. CASE Matches(h, x) = {}
  <2>1. HashBlobFind(h, x) = NoElem
    BY <1>1, Zenon DEF HashBlobFind
  <2>2. \A e \in Range(h.elems) : e.rec # x
    <3> TAKE e \in Range(h.elems)
    <3>1. PICK i \in DOMAIN h.elems : h.elems[i] = e
      BY InRange, Zenon
    <3> QED
      BY <1>1, <3>1, MatchesIs, Zenon
  <2> QED
    BY <2>1, <2>2, Zenon
<1>2. CASE Matches(h, x) # {}
  <2> DEFINE i == Min(Matches(h, x))
  <2>1. i \in DOMAIN h.elems /\ h.elems[i].rec = x
    BY <1>2, MatchOne, Zenon
  <2>2. HashBlobFind(h, x) = h.elems[i]
    BY <1>2, Zenon DEF HashBlobFind
  <2> HIDE DEF i
  <2>3. NoElem.own = NoConn
    BY Zenon DEF NoElem
  <2>4. h.elems[i].own \in Conns
    BY <2>1, ElemTypes, Zenon
  <2>5. h.elems[i] # NoElem
    BY <2>3, <2>4, UniqueConstants, Zenon
  <2> QED
    BY <2>1, <2>2, <2>4, <2>5, Zenon DEF Range
<1> QED
    BY <1>1, <1>2, Zenon

LEMMA RemoveIs ==
    ASSUME NEW h, Good(h), NEW x \in Rec
    PROVE  /\ Good(HashBlobRemove(h, x))
           /\ \A e : e \in Range(HashBlobRemove(h, x).elems) <=> e \in Range(h.elems) /\ e.rec # x
<1> DEFINE g == HashBlobRemove(h, x)
           s == h.elems
           k == Min(Matches(h, x))
<1>1. CASE Matches(h, x) = {}
  <2>1. g = h
    BY <1>1, Zenon DEF HashBlobRemove
  <2>2. \A e \in Range(h.elems) : e.rec # x
    <3> TAKE e \in Range(h.elems)
    <3>1. PICK i \in DOMAIN h.elems : h.elems[i] = e
      BY InRange, Zenon
    <3> QED
      BY <1>1, <3>1, MatchesIs, Zenon
  <2> QED
    BY <2>1, <2>2, Zenon
<1>2. CASE Matches(h, x) # {}
  <2>1. /\ k \in DOMAIN s /\ s[k].rec = x
        /\ \A i \in DOMAIN s : s[i].rec = x <=> i = k
    BY <1>2, MatchOne, Zenon
  <2>2. s \in Seq(Elem) /\ h.size \in Nat /\ DOMAIN s = 1 .. Len(s) /\ Len(s) \in Nat
    BY DEF Good
  <2>3. \A i, j \in DOMAIN s : s[i].rec = s[j].rec => i = j
    BY Zenon DEF Good
  <2>4. CASE Len(s) = 1
    <3>1. g = EmptyHash
      BY <1>2, <2>4, Zenon DEF HashBlobRemove
    <3>2. EmptyHash.elems = <<>> /\ Good(EmptyHash) /\ Range(<<>>) = {}
      BY DEF EmptyHash, Good, Range
    <3>3. \A e \in Range(s) : e.rec = x
      <4> HIDE DEF k, s
      <4>1. \A i \in DOMAIN s : i = k
        BY <2>1, <2>2, <2>4
      <4> QED
        BY <2>1, <4>1, Zenon DEF Range
    <3> QED
      BY <3>1, <3>2, <3>3, Zenon
  <2>5. CASE Len(s) # 1
    <3> DEFINE r == Without(s, k)
    <3>1. g = [h EXCEPT !.elems = r]
      BY <1>2, <2>5, Zenon DEF HashBlobRemove
    <3>2. g = [elems |-> r, size |-> h.size]
      BY <3>1, Zenon DEF Good
    <3>4. /\ r \in Seq(Elem) /\ Len(r) = Len(s) - 1
          /\ \A i \in 1 .. Len(s) - 1 : r[i] = IF i < k THEN s[i] ELSE s[i + 1]
      <4> HIDE DEF k, s
      <4> QED
        BY <2>1, <2>2, RemovedAt, Zenon
    <3> HIDE DEF k, s, r
    <3>5. DOMAIN r = 1 .. Len(s) - 1
      BY <3>4
    <3>6. ASSUME NEW i \in DOMAIN r
          PROVE  \E j \in DOMAIN s : j # k /\ r[i] = s[j] /\ j = IF i < k THEN i ELSE i + 1
      BY <2>1, <2>2, <3>4, <3>5
    <3>7. ASSUME NEW j \in DOMAIN s, j # k PROVE \E i \in DOMAIN r : r[i] = s[j]
      <4>1. CASE j < k
        BY <2>1, <2>2, <3>4, <3>5, <4>1
      <4>2. CASE j > k
        <5>1. j - 1 \in DOMAIN r /\ r[j - 1] = s[j]
          BY <2>1, <2>2, <3>4, <3>5, <4>2
        <5> QED
          BY <5>1, Zenon
      <4> QED
        BY <2>1, <2>2, <3>7, <4>1, <4>2
    <3>8. ASSUME NEW i \in DOMAIN r, NEW j \in DOMAIN r, r[i].rec = r[j].rec PROVE i = j
      <4>1. (IF i < k THEN i ELSE i + 1) = (IF j < k THEN j ELSE j + 1)
        BY <2>3, <3>6, <3>8, Zenon
      <4> QED
        BY <2>1, <2>2, <3>5, <4>1
    <3>9. Good([elems |-> r, size |-> h.size])
      BY <2>2, <3>4, <3>8, Zenon DEF Good
    <3>10. \A e : e \in Range(r) <=> e \in Range(s) /\ e.rec # x
      <4>1. ASSUME NEW e \in Range(r) PROVE e \in Range(s) /\ e.rec # x
        <5>1. PICK i \in DOMAIN r : r[i] = e
          BY InRange, Zenon
        <5>2. PICK j \in DOMAIN s : j # k /\ e = s[j]
          BY <3>6, <5>1, Zenon
        <5> QED
          BY <2>1, <5>2, InRange, Zenon
      <4>2. ASSUME NEW e \in Range(s), e.rec # x PROVE e \in Range(r)
        <5>1. PICK j \in DOMAIN s : s[j] = e
          BY InRange, Zenon
        <5>2. PICK i \in DOMAIN r : r[i] = e
          BY <2>1, <3>7, <4>2, <5>1, Zenon
        <5> QED
          BY <5>2, InRange, Zenon
      <4> QED
        BY <4>1, <4>2, Zenon
    <3>11. g.elems = r
      <4> HIDE DEF g
      <4> QED
        BY <3>2, Zenon
    <3> QED
      BY <3>2, <3>9, <3>10, <3>11, Zenon DEF s
  <2> QED
    BY <2>4, <2>5, Zenon
<1> QED
    BY <1>1, <1>2, Zenon

LEMMA InsertIs ==
    ASSUME NEW h, Good(h), NEW x \in Rec, NEW c \in Conns, \A e \in Range(h.elems) : e.rec # x
    PROVE  /\ Good(HashBlobInsert(h, x, c))
           /\ \A e : e \in Range(HashBlobInsert(h, x, c).elems) <=>
                      e \in Range(h.elems) \/ e = [rec |-> x, own |-> c]
<1> DEFINE s == h.elems
           e0 == [rec |-> x, own |-> c]
           g == HashBlobInsert(h, x, c)
<1>1. s \in Seq(Elem) /\ h.size \in Nat /\ Len(s) \in Nat /\ DOMAIN s = 1 .. Len(s)
    BY DEF Good
<1>2. e0 \in Elem /\ e0.rec = x
    BY Zenon DEF Elem
<1>3. PICK r, n : /\ r = s \/ r = Reversed(s)
                  /\ n \in Nat /\ g = [elems |-> <<e0>> \o r, size |-> n]
  <2>1. CASE Len(s) + 1 >= scene.rehash /\ Len(s) + 1 > 2 * h.size
    <3>1. g = [elems |-> <<e0>> \o Reversed(s), size |-> 2 * (Len(s) + 1)]
      BY <2>1, Zenon DEF HashBlobInsert
    <3>2. 2 * (Len(s) + 1) \in Nat
      BY <1>1
    <3> HIDE DEF s, e0, g
    <3> QED
      BY <3>1, <3>2, Zenon
  <2>2. CASE ~(Len(s) + 1 >= scene.rehash /\ Len(s) + 1 > 2 * h.size)
    <3>1. g = [h EXCEPT !.elems = <<e0>> \o @]
      BY <2>2, Zenon DEF HashBlobInsert
    <3>2. g = [elems |-> <<e0>> \o s, size |-> h.size]
      BY <3>1, Zenon DEF Good
    <3> HIDE DEF s, e0, g
    <3> QED
      BY <1>1, <3>2, Zenon
  <2> QED
    BY <2>1, <2>2, Zenon
<1>4. \A i, j \in DOMAIN s : s[i].rec = s[j].rec => i = j
    BY Zenon DEF Good
<1>5. \A i \in DOMAIN s : s[i].rec # x
    BY InRange, Zenon
<1>6. g.elems = <<e0>> \o r
  <2> HIDE DEF g
  <2> QED
    BY <1>3, Zenon
<1> HIDE DEF s, e0, g
<1>7. /\ r \in Seq(Elem) /\ Len(r) = Len(s) /\ Range(r) = Range(s)
      /\ \A i, j \in DOMAIN r : r[i].rec = r[j].rec => i = j
  <2>1. CASE r = s
    BY <1>1, <1>4, <2>1, Zenon
  <2>2. CASE r = Reversed(s)
    <3> DEFINE back(i) == Len(s) + 1 - i
    <3>1. r = [i \in 1 .. Len(s) |-> s[back(i)]]
      BY <2>2, Zenon DEF Reversed
    <3>2. \A i \in 1 .. Len(s) : back(i) \in 1 .. Len(s) /\ back(back(i)) = i
      BY <1>1
    <3>3. r \in Seq(Elem) /\ Len(r) = Len(s)
      BY <1>1, <3>1, <3>2
    <3> HIDE DEF back
    <3>4. \A e : e \in Range(r) <=> e \in Range(s)
      <4>1. ASSUME NEW e \in Range(r) PROVE e \in Range(s)
        <5>1. PICK i \in 1 .. Len(s) : r[i] = e
          BY <3>1, InRange, Zenon
        <5> QED
          BY <1>1, <3>1, <3>2, <5>1, InRange, Zenon
      <4>2. ASSUME NEW e \in Range(s) PROVE e \in Range(r)
        <5>1. PICK i \in 1 .. Len(s) : s[i] = e
          BY <1>1, InRange, Zenon
        <5>2. back(i) \in DOMAIN r /\ r[back(i)] = e
          BY <3>1, <3>2, <5>1, Zenon
        <5> QED
          BY <5>2, InRange, Zenon
      <4> QED
        BY <4>1, <4>2, Zenon
    <3>5. ASSUME NEW i \in DOMAIN r, NEW j \in DOMAIN r, r[i].rec = r[j].rec PROVE i = j
      <4>1. i \in 1 .. Len(s) /\ j \in 1 .. Len(s)
        BY <3>1, Zenon
      <4>2. back(i) = back(j)
        BY <1>1, <1>4, <3>1, <3>2, <3>5, <4>1, Zenon
      <4> QED
        BY <3>2, <4>1, <4>2, Zenon
    <3> QED
      BY <3>3, <3>4, <3>5, Zenon
  <2> QED
    BY <1>3, <2>1, <2>2, Zenon
<1> DEFINE q == <<e0>> \o r
<1>8. /\ q \in Seq(Elem) /\ DOMAIN q = 1 .. Len(r) + 1 /\ q[1] = e0
      /\ \A i \in 1 .. Len(r) : q[i + 1] = r[i]
    BY <1>2, <1>7
<1>9. DOMAIN r = 1 .. Len(r) /\ Len(r) \in Nat
    BY <1>7
<1> HIDE DEF q
<1>10. \A i \in DOMAIN q : i = 1 \/ \E j \in DOMAIN r : i = j + 1
  <2> TAKE i \in DOMAIN q
  <2>1. i = 1 \/ (i - 1 \in DOMAIN r /\ i = i - 1 + 1)
    BY <1>8, <1>9
  <2> QED
    BY <2>1, Zenon
<1>11. \A i \in DOMAIN r : i + 1 \in DOMAIN q /\ q[i + 1] = r[i] /\ r[i].rec # x
  <2>1. \A i \in DOMAIN r : i + 1 \in DOMAIN q /\ q[i + 1] = r[i]
    BY <1>8, <1>9
  <2>2. \A i \in DOMAIN r : r[i].rec # x
    <3> TAKE i \in DOMAIN r
    <3>0. r[i] \in Range(s)
      BY <1>7, InRange, Zenon
    <3>1. PICK j \in DOMAIN s : s[j] = r[i]
      BY <3>0, InRange, Zenon
    <3> QED
      BY <1>5, <3>1, Zenon
  <2> QED
    BY <2>1, <2>2, Zenon
<1>12. ASSUME NEW i \in DOMAIN q, NEW j \in DOMAIN q, q[i].rec = q[j].rec PROVE i = j
  <2>0. \A k \in DOMAIN q : k = 1 <=> q[k].rec = x
    <3> TAKE k \in DOMAIN q
    <3>1. CASE k = 1
      BY <1>2, <1>8, <3>1, Zenon
    <3>2. CASE k # 1
      <4>1. PICK l \in DOMAIN r : k = l + 1
        BY <1>10, <3>2, Zenon
      <4> QED
        BY <1>11, <3>2, <4>1, Zenon
    <3> QED
      BY <3>1, <3>2, Zenon
  <2>1. i = 1 <=> j = 1
    BY <1>12, <2>0, Zenon
  <2>3. CASE i # 1 /\ j # 1
    <3>1. PICK k \in DOMAIN r, l \in DOMAIN r : i = k + 1 /\ j = l + 1
      BY <1>10, <2>3, Zenon
    <3>2. r[k].rec = r[l].rec
      BY <1>11, <1>12, <3>1, Zenon
    <3> QED
      BY <1>7, <3>1, <3>2, Zenon
  <2> QED
    BY <2>1, <2>3, Zenon
<1>13. Good([elems |-> q, size |-> n])
    BY <1>3, <1>8, <1>12, Zenon DEF Good
<1>14. ASSUME NEW e \in Range(q) PROVE e \in Range(s) \/ e = e0
  <2>1. PICK i \in DOMAIN q : q[i] = e
    BY InRange, Zenon
  <2>2. CASE i = 1
    BY <1>8, <2>1, <2>2, Zenon
  <2>3. ASSUME NEW j \in DOMAIN r, i = j + 1 PROVE e \in Range(s)
    <3>1. e = r[j]
      BY <1>11, <2>1, <2>3, Zenon
    <3> QED
      BY <1>7, <3>1, InRange, Zenon
  <2> QED
    BY <1>10, <2>2, <2>3, Zenon
<1>15. ASSUME NEW e \in Range(s) PROVE e \in Range(q)
  <2>1. PICK i \in DOMAIN r : r[i] = e
    BY <1>7, InRange, Zenon
  <2> QED
    BY <1>11, <2>1, InRange, Zenon
<1>16. e0 \in Range(q)
  <2>1. 1 \in DOMAIN q
    BY <1>8, <1>9
  <2> QED
    BY <1>8, <2>1, InRange, Zenon
<1> QED
    BY <1>3, <1>6, <1>13, <1>14, <1>15, <1>16, Zenon DEF q, g, s, e0

(* f is the loop of RemoveEach as far as the record n. *)
Body(f, h, recs, at, i) ==
    IF i = 0 THEN h ELSE IF i \in at THEN HashBlobRemove(f[i - 1], recs[i]) ELSE f[i - 1]
Loop(f, h, recs, at, n) == f = [i \in 0 .. n |-> Body(f, h, recs, at, i)]

(* The recursion of RemoveEach is well defined. *)
LEMMA LoopExists ==
    ASSUME Least, NEW h, NEW recs, NEW at, NEW n \in Nat PROVE \E f : Loop(f, h, recs, at, n)
<1> DEFINE S == {k \in Nat : \E f : Loop(f, h, recs, at, k)}
<1>1. 0 \in S
  <2> DEFINE f == [i \in 0 .. 0 |-> h]
  <2>1. \A i \in 0 .. 0 : i = 0 /\ f[i] = h
    OBVIOUS
  <2>2. Loop(f, h, recs, at, 0)
    BY <2>1, Zenon DEF Loop, Body
  <2> HIDE DEF f
  <2> QED
    BY <2>2
<1>2. ASSUME NEW k \in 0 .. n - 1, k \in S PROVE k + 1 \in S
  <2>1. PICK g : Loop(g, h, recs, at, k)
    BY <1>2, Zenon
  <2>2. k \in Nat
    OBVIOUS
  <2> DEFINE f == [i \in 0 .. k + 1 |-> Body(g, h, recs, at, i)]
  <2>3. \A i \in 0 .. k : f[i] = g[i]
    <3>1. \A i \in 0 .. k : i \in 0 .. k + 1
      BY <2>2
    <3>2. \A i \in 0 .. k : g[i] = Body(g, h, recs, at, i)
      BY <2>1, Zenon DEF Loop
    <3> QED
      BY <3>1, <3>2, Zenon
  <2>4. ASSUME NEW i \in 0 .. k + 1 PROVE f[i] = Body(f, h, recs, at, i)
    <3>1. i # 0 => i - 1 \in 0 .. k
      BY <2>2
    <3>2. f[i] = Body(g, h, recs, at, i)
      BY Zenon
    <3> HIDE DEF f
    <3> QED
      BY <2>3, <3>1, <3>2, Zenon DEF Body
  <2>5. Loop(f, h, recs, at, k + 1)
    BY <2>4, Zenon DEF Loop
  <2> HIDE DEF f
  <2> QED
    BY <2>2, <2>5
<1>3. 0 .. n \subseteq S
  <2> HIDE DEF S
  <2> QED
    BY <1>1, <1>2, UpTo, Zenon
<1>4. n \in S
  <2> HIDE DEF S
  <2> QED
    BY <1>3
<1> QED
    BY <1>4, Zenon

(* What the loops of a rollback and of the end of a transaction leave. *)
LEMMA EachIs ==
    ASSUME Least, NEW h, Good(h), NEW recs, Len(recs) \in Nat, NEW at,
           at \subseteq 1 .. Len(recs), \A i \in at : recs[i] \in Rec
    PROVE  /\ Good(RemoveEach(h, recs, at))
           /\ \A e : e \in Range(RemoveEach(h, recs, at).elems) <=>
                      e \in Range(h.elems) /\ \A i \in at : e.rec # recs[i]
<1> DEFINE n == Len(recs)
           f == CHOOSE g : Loop(g, h, recs, at, n)
<1>1. Loop(f, h, recs, at, n)
    BY LoopExists, Zenon
<1>2. RemoveEach(h, recs, at) = f[n]
    BY Zenon DEF RemoveEach, Loop, Body
<1> HIDE DEF f
<1>3. \A i \in 0 .. n : f[i] = Body(f, h, recs, at, i)
    BY <1>1, Zenon DEF Loop
<1> DEFINE OK(k) == /\ Good(f[k])
                    /\ \A e : e \in Range(f[k].elems) <=>
                               e \in Range(h.elems) /\ \A i \in at : i <= k => e.rec # recs[i]
           S == {k \in 0 .. n : OK(k)}
<1>4. n \in Nat /\ 0 \in 0 .. n /\ n \in 0 .. n
    OBVIOUS
<1> HIDE DEF n
<1>5. \A i \in at : i \in 1 .. n
    BY Zenon DEF n
<1>6. 0 \in S
  <2>1. f[0] = h
    BY <1>3, <1>4, Zenon DEF Body
  <2>2. \A i \in at : ~(i <= 0)
    BY <1>4, <1>5
  <2>3. OK(0)
    BY <2>1, <2>2, Zenon
  <2> QED
    BY <1>4, <2>3, Zenon
<1>7. ASSUME NEW k \in 0 .. n - 1, k \in S PROVE k + 1 \in S
  <2>1. k + 1 \in 0 .. n /\ k + 1 # 0 /\ k + 1 - 1 = k
    BY <1>4
  <2>2. \A i \in at : i <= k + 1 <=> i <= k \/ i = k + 1
    BY <1>4, <1>5
  <2>3. OK(k)
    BY <1>7, Zenon
  <2>4. f[k + 1] = IF k + 1 \in at THEN HashBlobRemove(f[k], recs[k + 1]) ELSE f[k]
    <3> DEFINE m == k + 1
    <3>1. m \in 0 .. n /\ m # 0 /\ m - 1 = k
      BY <2>1
    <3> HIDE DEF m
    <3>2. f[m] = IF m \in at THEN HashBlobRemove(f[m - 1], recs[m]) ELSE f[m - 1]
      BY <1>3, <3>1, Zenon DEF Body
    <3> QED
      BY <3>1, <3>2, Zenon DEF m
  <2>5. OK(k + 1)
    <3>1. CASE k + 1 \in at
      <4>1. /\ Good(f[k + 1])
            /\ \A e : e \in Range(f[k + 1].elems) <=> e \in Range(f[k].elems) /\ e.rec # recs[k + 1]
        <5>1. PICK g, x : g = f[k] /\ x = recs[k + 1]
          BY Zenon
        <5>2. Good(g) /\ x \in Rec /\ f[k + 1] = HashBlobRemove(g, x)
          BY <2>3, <2>4, <3>1, <5>1, Zenon
        <5>3. /\ Good(HashBlobRemove(g, x))
              /\ \A e : e \in Range(HashBlobRemove(g, x).elems) <=> e \in Range(g.elems) /\ e.rec # x
          BY <5>2, RemoveIs, Zenon
        <5> QED
          BY <5>1, <5>2, <5>3, Zenon
      <4>2. ASSUME NEW e
            PROVE  (\A i \in at : i <= k + 1 => e.rec # recs[i]) <=>
                   e.rec # recs[k + 1] /\ \A i \in at : i <= k => e.rec # recs[i]
        BY <2>2, <3>1, Zenon
      <4>3. \A e : e \in Range(f[k].elems) <=>
                    e \in Range(h.elems) /\ \A i \in at : i <= k => e.rec # recs[i]
        BY <2>3, Zenon
      <4>4. ASSUME NEW e
            PROVE  e \in Range(f[k + 1].elems) <=>
                   e \in Range(h.elems) /\ \A i \in at : i <= k + 1 => e.rec # recs[i]
        BY <4>1, <4>2, <4>3, Zenon
      <4> QED
        BY <4>1, <4>4, Zenon
    <3>2. CASE k + 1 \notin at
      BY <2>2, <2>3, <2>4, <3>2, Zenon
    <3> QED
      BY <3>1, <3>2, Zenon
  <2> HIDE DEF OK
  <2> QED
    BY <2>1, <2>5, Zenon
<1>8. 0 .. n \subseteq S
  <2> HIDE DEF S
  <2> QED
    BY <1>4, <1>6, <1>7, UpTo, Zenon
<1>9. OK(n)
    BY <1>4, <1>8, Zenon
<1>10. \A i \in at : i <= n
    BY <1>4, <1>5
<1> QED
    BY <1>2, <1>9, <1>10, Zenon DEF n

------------------------------------------------------------------------------
(* The invariant of the connections *)

Outside == {"closed", "wait", "meta", "set", "dead"}
AtRow == {"query", "read", "index", "insert", "delete", "forget"}

(* The records that c has locked in the hash table h, and those whose lock *)
(* the history hs has after its first n entries.                           *)
Locked(h, c) == {x \in Rec : [rec |-> x, own |-> c] \in Range(h.elems)}
After(hs, n) == {x \in Rec : \E i \in n + 1 .. Len(hs) : hs[i] = <<"index", x>>}

Unique(S) == \A x, y \in S : x[1] = y[1] \/ x[2] = y[2] => x = y

Entry == ({"index", "row"} \X Rec) \cup {<<"new", <<>>>>}
Snap == [n : Int, ins : SUBSET Rec, del : SUBSET Rec]

Types ==
    /\ Good(hash)
    /\ holder \in [Rowids -> Conns \cup {NoConn}]
    /\ shared \in SUBSET Rec
    /\ ins \in [Conns -> SUBSET Rec]
    /\ del \in [Conns -> SUBSET Rec]
    /\ hist \in [Conns -> Seq(Entry)]
    /\ snap \in [Conns -> [stmt : Snap, save : Snap]]
    /\ work \in [Conns -> Rec \cup {<<>>}]

(* A savepoint points into the history. *)
Point(hs, s) == s = NoSnap \/ s.n \in 0 .. Len(hs)

(* What a connection has when its pc is p: inserted and deleted records i  *)
(* and dl, history hs, savepoints sp, row w.                               *)
PhaseOK(p, i, dl, hs, sp, w) ==
    /\ Point(hs, sp.stmt) /\ Point(hs, sp.save)
    /\ p \notin Busy => sp.stmt = NoSnap
    /\ p \in Busy => sp.stmt # NoSnap /\ sp.save.n <= sp.stmt.n
    /\ p \in Outside => i = {} /\ dl = {} /\ hs = <<>> /\ sp.save = NoSnap
    /\ p \in AtRow => w \in Rec

(* Of the locks L, those that are not for changes before the savepoint s   *)
(* are in the history after s: a rollback to s will find them.             *)
Need(L, hs, s) == s = NoSnap \/ L \subseteq (s.ins \cup s.del) \cup After(hs, s.n)

(* All locks L are for changes of the transaction. *)
SpareOK(p, L, i, dl, hs, sp) ==
    p # "dead" => L \subseteq i \cup dl /\ Need(L, hs, sp.stmt) /\ Need(L, hs, sp.save)

TInv ==
    /\ Types
    /\ \A c \in Conns :
          /\ PhaseOK(pc[c], ins[c], del[c], hist[c], snap[c], work[c])
          /\ SpareOK(pc[c], Locked(hash, c), ins[c], del[c], hist[c], snap[c])

(* The step gives c the values i ... p and leaves the other connections alone. *)
Private(c, i, dl, hs, sp, w, p) ==
    /\ ins' = [ins EXCEPT ![c] = i]
    /\ del' = [del EXCEPT ![c] = dl]
    /\ hist' = [hist EXCEPT ![c] = hs]
    /\ snap' = [snap EXCEPT ![c] = sp]
    /\ work' = [work EXCEPT ![c] = w]
    /\ pc' = [pc EXCEPT ![c] = p]

NewValues(c, i, dl, hs, sp, w, p) ==
    /\ \A d \in Conns \ {c} : /\ ins'[d] = ins[d] /\ del'[d] = del[d] /\ hist'[d] = hist[d]
                              /\ snap'[d] = snap[d] /\ work'[d] = work[d] /\ pc'[d] = pc[d]
    /\ ins'[c] = i /\ del'[c] = dl /\ hist'[c] = hs /\ snap'[c] = sp /\ work'[c] = w /\ pc'[c] = p

ValuesOK(i, dl, hs, sp, w) ==
    /\ i \in SUBSET Rec /\ dl \in SUBSET Rec /\ hs \in Seq(Entry)
    /\ sp \in [stmt : Snap, save : Snap] /\ w \in Rec \cup {<<>>}

LEMMA Assigned ==
    ASSUME NEW S, NEW f, f = [d \in S |-> f[d]], NEW c \in S, NEW v, NEW g, g = [f EXCEPT ![c] = v]
    PROVE  g[c] = v /\ \A d \in S \ {c} : g[d] = f[d]
<1>1. g = [d \in S |-> IF d = c THEN v ELSE f[d]]
    BY Zenon
<1> QED
    BY <1>1, Zenon

LEMMA PrivateStep ==
    ASSUME Types, PartTypes, NEW c \in Conns, NEW i, NEW dl, NEW hs, NEW sp, NEW w, NEW p,
           Private(c, i, dl, hs, sp, w, p)
    PROVE  NewValues(c, i, dl, hs, sp, w, p)
<1>1. /\ ins = [d \in Conns |-> ins[d]] /\ del = [d \in Conns |-> del[d]]
      /\ hist = [d \in Conns |-> hist[d]] /\ snap = [d \in Conns |-> snap[d]]
      /\ work = [d \in Conns |-> work[d]] /\ pc = [d \in Conns |-> pc[d]]
    BY Zenon DEF Types, PartTypes
<1>2. ins'[c] = i /\ \A d \in Conns \ {c} : ins'[d] = ins[d]
    BY <1>1, Assigned, Zenon DEF Private
<1>3. del'[c] = dl /\ \A d \in Conns \ {c} : del'[d] = del[d]
    BY <1>1, Assigned, Zenon DEF Private
<1>4. hist'[c] = hs /\ \A d \in Conns \ {c} : hist'[d] = hist[d]
    BY <1>1, Assigned, Zenon DEF Private
<1>5. snap'[c] = sp /\ \A d \in Conns \ {c} : snap'[d] = snap[d]
    BY <1>1, Assigned, Zenon DEF Private
<1>6. work'[c] = w /\ \A d \in Conns \ {c} : work'[d] = work[d]
    BY <1>1, Assigned, Zenon DEF Private
<1>7. pc'[c] = p /\ \A d \in Conns \ {c} : pc'[d] = pc[d]
    BY <1>1, Assigned, Zenon DEF Private
<1> QED
    BY <1>2, <1>3, <1>4, <1>5, <1>6, <1>7, Zenon DEF NewValues

LEMMA TypesStep ==
    ASSUME Types, NEW c \in Conns, NEW i, NEW dl, NEW hs, NEW sp, NEW w, NEW p,
           Private(c, i, dl, hs, sp, w, p), ValuesOK(i, dl, hs, sp, w),
           Good(hash'), holder' \in [Rowids -> Conns \cup {NoConn}], shared' \in SUBSET Rec
    PROVE  Types'
<1>1. ASSUME NEW S, NEW T, NEW f \in [S -> T], NEW a \in S, NEW v \in T
      PROVE  [f EXCEPT ![a] = v] \in [S -> T]
    BY Zenon
<1>2. ins' \in [Conns -> SUBSET Rec] /\ del' \in [Conns -> SUBSET Rec]
    BY <1>1, Zenon DEF Types, Private, ValuesOK
<1>3. hist' \in [Conns -> Seq(Entry)]
    BY <1>1, Zenon DEF Types, Private, ValuesOK
<1>4. snap' \in [Conns -> [stmt : Snap, save : Snap]]
    BY <1>1, Zenon DEF Types, Private, ValuesOK
<1>5. work' \in [Conns -> Rec \cup {<<>>}]
    BY <1>1, Zenon DEF Types, Private, ValuesOK
<1> QED
    BY <1>2, <1>3, <1>4, <1>5, Zenon DEF Types

(* A step of c keeps the invariant of the other connections, whose locks   *)
(* it can only take away.                                                  *)
LEMMA OwnStep ==
    ASSUME TInv, PartTypes, NEW c \in Conns, NEW i, NEW dl, NEW hs, NEW sp, NEW w, NEW p,
           Private(c, i, dl, hs, sp, w, p), ValuesOK(i, dl, hs, sp, w),
           Good(hash'), holder' \in [Rowids -> Conns \cup {NoConn}], shared' \in SUBSET Rec,
           \A d \in Conns \ {c} : Locked(hash', d) \subseteq Locked(hash, d),
           PhaseOK(p, i, dl, hs, sp, w), SpareOK(p, Locked(hash', c), i, dl, hs, sp)
    PROVE  TInv'
<1>1. Types'
    BY TypesStep, Zenon DEF TInv
<1>2. NewValues(c, i, dl, hs, sp, w, p)
    BY PrivateStep, Zenon DEF TInv
<1>3. ASSUME NEW d \in Conns \ {c}
      PROVE  /\ PhaseOK(pc'[d], ins'[d], del'[d], hist'[d], snap'[d], work'[d])
             /\ SpareOK(pc'[d], Locked(hash', d), ins'[d], del'[d], hist'[d], snap'[d])
  <2>1. /\ PhaseOK(pc[d], ins[d], del[d], hist[d], snap[d], work[d])
        /\ SpareOK(pc[d], Locked(hash, d), ins[d], del[d], hist[d], snap[d])
    BY Zenon DEF TInv
  <2>2. SpareOK(pc[d], Locked(hash', d), ins[d], del[d], hist[d], snap[d])
    BY <2>1, Zenon DEF SpareOK, Need
  <2> QED
    BY <1>2, <2>1, <2>2, Zenon DEF NewValues
<1>4. /\ PhaseOK(pc'[c], ins'[c], del'[c], hist'[c], snap'[c], work'[c])
      /\ SpareOK(pc'[c], Locked(hash', c), ins'[c], del'[c], hist'[c], snap'[c])
    BY <1>2, Zenon DEF NewValues
<1> QED
    BY <1>1, <1>3, <1>4, Zenon DEF TInv

(* After a rollback to the savepoint s that leaves its changes locked, the  *)
(* rows that the connection sees are unique.                                *)
Back(S, L, hs, s) ==
    s = NoSnap \/ ~(s.ins \cup s.del \subseteq L \ After(hs, s.n)) \/ Unique((S \ s.del) \cup s.ins)

UniqOK(p, S, L, i, dl, hs, sp, w) ==
    /\ Unique((S \ dl) \cup i)
    /\ p \in {"query", "read", "index"} => \A y \in (S \ dl) \cup i : y[2] # w[2]
    /\ p = "index" => \A y \in (S \ dl) \cup i : y[1] # w[1]
    /\ Back(S, L, hs, sp.stmt) /\ Back(S, L, hs, sp.save)

Calm == ~ghost.bare /\ ~ghost.twice

UInv ==
    /\ ~ghost.bare => ChangesLocked
    /\ ~ghost.twice => OneHolder
    /\ Calm => Unique(shared) /\ \A c \in Conns :
                   UniqOK(pc[c], shared, Locked(hash, c), ins[c], del[c], hist[c], snap[c], work[c])

LEMMA WatchStep ==
    ASSUME Watch
    PROVE  /\ ~ghost'.bare => ~ghost.bare /\ ChangesLocked'
           /\ ~ghost'.twice => ~ghost.twice /\ OneHolder'
<1>1. /\ ghost'.bare = (ghost.bare \/ ~ChangesLocked')
      /\ ghost'.twice = (ghost.twice \/ ~OneHolder')
    BY Zenon DEF Watch
<1> QED
    BY <1>1, Zenon

LEMMA UniqStep ==
    ASSUME TInv, PartTypes, UInv, Watch,
           NEW c \in Conns, NEW i, NEW dl, NEW hs, NEW sp, NEW w, NEW p,
           Private(c, i, dl, hs, sp, w, p), shared' = shared,
           \A d \in Conns \ {c} : Locked(hash', d) \subseteq Locked(hash, d),
           Calm /\ Calm' => UniqOK(p, shared, Locked(hash', c), i, dl, hs, sp, w)
    PROVE  UInv'
<1>1. NewValues(c, i, dl, hs, sp, w, p)
    BY PrivateStep, Zenon DEF TInv
<1>2. /\ ~ghost'.bare => ~ghost.bare /\ ChangesLocked'
      /\ ~ghost'.twice => ~ghost.twice /\ OneHolder'
    BY WatchStep, Zenon
<1>3. ASSUME Calm' PROVE Calm
    BY <1>2, <1>3, Zenon DEF Calm
<1>4. ASSUME Calm', NEW d \in Conns \ {c}
      PROVE  UniqOK(pc'[d], shared', Locked(hash', d), ins'[d], del'[d], hist'[d], snap'[d], work'[d])
  <2>1. UniqOK(pc[d], shared, Locked(hash, d), ins[d], del[d], hist[d], snap[d], work[d])
    BY <1>3, <1>4, Zenon DEF UInv
  <2>2. ASSUME NEW s, Back(shared, Locked(hash, d), hist[d], s)
        PROVE  Back(shared, Locked(hash', d), hist[d], s)
    BY <2>2, Zenon DEF Back
  <2>3. UniqOK(pc[d], shared, Locked(hash', d), ins[d], del[d], hist[d], snap[d], work[d])
    BY <2>1, <2>2, Zenon DEF UniqOK
  <2> QED
    BY <1>1, <2>3, Zenon DEF NewValues
<1>5. ASSUME Calm'
      PROVE  UniqOK(pc'[c], shared', Locked(hash', c), ins'[c], del'[c], hist'[c], snap'[c], work'[c])
    BY <1>1, <1>3, <1>5, Zenon DEF NewValues
<1>6. Calm' => Unique(shared')
    BY <1>3, Zenon DEF UInv
<1> QED
    BY <1>2, <1>4, <1>5, <1>6, Zenon DEF UInv

------------------------------------------------------------------------------
(* Locks and the history *)

(* The locks that an unlocked record leaves *)
LEMMA RemoveLocks ==
    ASSUME Good(hash), NEW x \in Rec, hash' = HashBlobRemove(hash, x)
    PROVE  Good(hash') /\ \A c \in Conns : Locked(hash', c) = Locked(hash, c) \ {x}
<1>1. /\ Good(hash')
      /\ \A e : e \in Range(hash'.elems) <=> e \in Range(hash.elems) /\ e.rec # x
    BY RemoveIs, Zenon
<1>2. ASSUME NEW c \in Conns PROVE \A y : y \in Locked(hash', c) <=> y \in Locked(hash, c) \ {x}
  <2> TAKE y
  <2>1. [rec |-> y, own |-> c].rec = y
    BY Zenon
  <2> QED
    BY <1>1, <2>1, Zenon DEF Locked
<1> QED
    BY <1>1, <1>2, Zenon

(* ... and a locked one adds. *)
LEMMA LockStep ==
    ASSUME Types, NEW c \in Conns, NEW x \in Rec, LockRecord(c, x)
    PROVE  /\ Good(hash')
           /\ \A d \in Conns \ {c} : Locked(hash', d) = Locked(hash, d)
           /\ Locked(hash', c) = Locked(hash, c) \cup {x}
           /\ \/ x \in Locked(hash, c) /\ hist' = hist
              \/ hist' = [hist EXCEPT ![c] = Append(@, <<"index", x>>)]
<1>0. Good(hash)
    BY Zenon DEF Types
<1>1. CASE HashBlobFind(hash, x).own = c /\ UNCHANGED <<hash, hist>>
  <2>1. NoElem.own # c
    BY UniqueConstants, Zenon DEF NoElem
  <2>2. PICK e \in Range(hash.elems) : e.rec = x /\ e.own = c
    BY <1>0, <1>1, <2>1, FindIs, Zenon
  <2>3. e = [rec |-> x, own |-> c]
    <3>1. \A i \in DOMAIN hash.elems : hash.elems[i] \in Elem
      <4>1. hash.elems \in Seq(Elem)
        BY <1>0, Zenon DEF Good
      <4> QED
        BY <4>1
    <3>2. e \in Elem
      BY <3>1, InRange, Zenon
    <3> QED
      BY <2>2, <3>2, Zenon DEF Elem
  <2>4. x \in Locked(hash, c)
    BY <2>2, <2>3, Zenon DEF Locked
  <2> QED
    BY <1>0, <1>1, <2>4, Zenon
<1>2. CASE /\ HashBlobFind(hash, x) = NoElem /\ hash' = HashBlobInsert(hash, x, c)
           /\ hist' = [hist EXCEPT ![c] = Append(@, <<"index", x>>)]
  <2>1. \A e \in Range(hash.elems) : e.rec # x
    BY <1>0, <1>2, FindIs, Zenon
  <2>2. /\ Good(hash')
        /\ \A e : e \in Range(hash'.elems) <=> e \in Range(hash.elems) \/ e = [rec |-> x, own |-> c]
    BY <1>0, <1>2, <2>1, InsertIs, Zenon
  <2>3. ASSUME NEW d \in Conns, NEW y
        PROVE  [rec |-> y, own |-> d] = [rec |-> x, own |-> c] <=> y = x /\ d = c
    <3>1. [rec |-> y, own |-> d].rec = y /\ [rec |-> y, own |-> d].own = d
      BY Zenon
    <3>2. [rec |-> x, own |-> c].rec = x /\ [rec |-> x, own |-> c].own = c
      BY Zenon
    <3> QED
      BY <3>1, <3>2, Zenon
  <2>4. ASSUME NEW d \in Conns \ {c} PROVE \A y : y \in Locked(hash', d) <=> y \in Locked(hash, d)
    BY <2>2, <2>3, Zenon DEF Locked
  <2>5. \A y : y \in Locked(hash', c) <=> y \in Locked(hash, c) \cup {x}
    BY <2>2, <2>3, Zenon DEF Locked
  <2> QED
    BY <1>2, <2>2, <2>4, <2>5, Zenon
<1> QED
    BY <1>1, <1>2, Zenon DEF LockRecord

LEMMA LastFirst ==
    ASSUME NEW n \in Nat
    PROVE  \A i \in 1 .. n : n + 1 - i \in 1 .. n /\ n + 1 - (n + 1 - i) = i
OBVIOUS

(* A rollback to s unlocks what the history has after s. *)
LEMMA UndoStep ==
    ASSUME Least, Types, NEW c \in Conns, NEW s, s.n \in 0 .. Len(hist[c]), UndoTo(c, s)
    PROVE  /\ Good(hash')
           /\ \A d \in Conns : Locked(hash', d) = Locked(hash, d) \ After(hist[c], s.n)
<1> DEFINE hs == hist[c]
           back(i) == Len(hs) + 1 - i
           recs == [i \in 1 .. Len(hs) |-> hs[back(i)][2]]
           at == {i \in 1 .. Len(hs) : back(i) \in Undone(c, s)}
<1>1. hash' = RemoveEach(hash, recs, at)
    BY Zenon DEF UndoTo
<1>2. hs \in Seq(Entry) /\ Good(hash)
    BY Zenon DEF Types
<1>3. Len(hs) \in Nat /\ DOMAIN hs = 1 .. Len(hs) /\ \A i \in 1 .. Len(hs) : hs[i] \in Entry
    BY <1>2
<1>4. \A i \in 1 .. Len(hs) : back(i) \in 1 .. Len(hs) /\ back(back(i)) = i
    BY <1>3, LastFirst, Zenon
<1>5. Len(recs) = Len(hs)
    BY <1>3
<1>6. \A i : i \in Undone(c, s) <=> i \in s.n + 1 .. Len(hs) /\ hs[i][1] = "index"
  <2>1. \A i : i \in 1 .. Len(hs) /\ i > s.n <=> i \in s.n + 1 .. Len(hs)
    BY <1>3
  <2> QED
    BY <1>3, <2>1, Zenon DEF Undone
<1>7. \A e \in Entry : e[1] = "index" => e = <<"index", e[2]>> /\ e[2] \in Rec
    BY DEF Entry
<1>8. s.n + 1 .. Len(hs) \subseteq 1 .. Len(hs)
    BY <1>3
<1> HIDE DEF hs, back
<1>9. \A i \in at : recs[i] \in Rec
    BY <1>3, <1>4, <1>6, <1>7, <1>8, Zenon
<1>10. \A x \in Rec : x \in After(hs, s.n) <=> \E i \in at : recs[i] = x
  <2> TAKE x \in Rec
  <2>1. ASSUME x \in After(hs, s.n) PROVE \E i \in at : recs[i] = x
    <3>1. PICK j \in s.n + 1 .. Len(hs) : hs[j] = <<"index", x>>
      BY <2>1, Zenon DEF After
    <3>2. hs[j][1] = "index" /\ hs[j][2] = x
      BY <3>1
    <3>3. back(j) \in at /\ recs[back(j)] = x
      BY <1>4, <1>6, <1>8, <3>2, Zenon
    <3> QED
      BY <3>3, Zenon
  <2>2. ASSUME NEW i \in at, recs[i] = x PROVE x \in After(hs, s.n)
    <3>1. back(i) \in s.n + 1 .. Len(hs) /\ hs[back(i)] = <<"index", x>>
      BY <1>3, <1>4, <1>6, <1>7, <2>2, Zenon
    <3> QED
      BY <3>1, Zenon DEF After
  <2> QED
    BY <2>1, <2>2, Zenon
<1>11. /\ Good(hash')
       /\ \A e : e \in Range(hash'.elems) <=>
                 e \in Range(hash.elems) /\ \A i \in at : e.rec # recs[i]
  <2>1. at \subseteq 1 .. Len(recs) /\ Len(recs) \in Nat
    BY <1>3, <1>5, Zenon
  <2> HIDE DEF at, recs
  <2>2. /\ Good(RemoveEach(hash, recs, at))
        /\ \A e : e \in Range(RemoveEach(hash, recs, at).elems) <=>
                   e \in Range(hash.elems) /\ \A i \in at : e.rec # recs[i]
    BY <1>2, <1>9, <2>1, EachIs, Zenon
  <2> QED
    BY <1>1, <2>2, Zenon
<1> HIDE DEF at, recs
<1>12. ASSUME NEW d \in Conns
       PROVE  \A y : y \in Locked(hash', d) <=> y \in Locked(hash, d) \ After(hs, s.n)
  <2> TAKE y
  <2>1. [rec |-> y, own |-> d].rec = y
    BY Zenon
  <2>2. CASE y \in Rec
    <3>1. [rec |-> y, own |-> d] \in Range(hash'.elems) <=>
              [rec |-> y, own |-> d] \in Range(hash.elems) /\ y \notin After(hs, s.n)
      BY <1>10, <1>11, <2>1, <2>2, Zenon
    <3> QED
      BY <3>1, Zenon DEF Locked
  <2>3. CASE y \notin Rec
    BY <2>3, Zenon DEF Locked
  <2> QED
    BY <2>2, <2>3, Zenon
<1> QED
    BY <1>11, <1>12, Zenon DEF hs

(* The end of a transaction unlocks all it has locked, and nothing else. *)
LEMMA ReleaseStep ==
    ASSUME Least, Types, NEW c \in Conns, hash' = Released(c)
    PROVE  /\ Good(hash') /\ Locked(hash', c) = {}
           /\ \A d \in Conns \ {c} : Locked(hash', d) = Locked(hash, d)
<1> DEFINE s == hash.elems
           recs == [i \in 1 .. Len(s) |-> s[i].rec]
           at == {i \in 1 .. Len(s) : s[i].own = c}
<1>1. hash' = RemoveEach(hash, recs, at)
    BY Zenon DEF Released, HashBlobRelease
<1>2. Good(hash) /\ s \in Seq(Elem)
    BY Zenon DEF Types, Good
<1>3. Len(s) \in Nat /\ DOMAIN s = 1 .. Len(s) /\ Len(recs) = Len(s)
    BY <1>2
<1>4. \A i \in DOMAIN s : s[i].rec \in Rec
    BY <1>2, ElemTypes, Zenon
<1>5. /\ Good(hash')
      /\ \A e : e \in Range(hash'.elems) <=>
                e \in Range(hash.elems) /\ \A i \in at : e.rec # recs[i]
  <2>1. at \subseteq 1 .. Len(recs) /\ Len(recs) \in Nat /\ \A i \in at : recs[i] \in Rec
    BY <1>3, <1>4, Zenon
  <2> HIDE DEF at, recs
  <2>2. /\ Good(RemoveEach(hash, recs, at))
        /\ \A e : e \in Range(RemoveEach(hash, recs, at).elems) <=>
                   e \in Range(hash.elems) /\ \A i \in at : e.rec # recs[i]
    BY <1>2, <2>1, EachIs, Zenon
  <2> QED
    BY <1>1, <2>2, Zenon
<1>6. ASSUME NEW e \in Range(s) PROVE (\A i \in at : e.rec # recs[i]) <=> e.own # c
  <2>1. PICK j \in DOMAIN s : s[j] = e
    BY InRange, Zenon
  <2>2. ASSUME e.own = c PROVE \E i \in at : e.rec = recs[i]
    BY <1>3, <2>1, <2>2, Zenon
  <2>3. ASSUME NEW i \in at, e.rec = recs[i] PROVE e.own = c
    <3>1. i \in DOMAIN s /\ s[i].rec = s[j].rec /\ s[i].own = c
      BY <1>3, <2>1, <2>3, Zenon
    <3>2. i = j
      BY <1>2, <2>1, <3>1, Zenon DEF Good
    <3> QED
      BY <2>1, <3>1, <3>2, Zenon
  <2> QED
    BY <2>2, <2>3, Zenon
<1> HIDE DEF at, recs
<1>7. \A e : e \in Range(hash'.elems) <=> e \in Range(hash.elems) /\ e.own # c
    BY <1>5, <1>6, Zenon
<1>8. ASSUME NEW d \in Conns
      PROVE  \A y : y \in Locked(hash', d) <=> y \in Locked(hash, d) /\ d # c
  <2> TAKE y
  <2>1. [rec |-> y, own |-> d].own = d
    BY Zenon
  <2> QED
    BY <1>7, <2>1, Zenon DEF Locked
<1> QED
    BY <1>5, <1>8, Zenon

LEMMA OneMore ==
    ASSUME NEW k \in Nat, NEW n \in 0 .. k
    PROVE  /\ k + 1 \in n + 1 .. k + 1
           /\ \A i \in n + 1 .. k : i \in n + 1 .. k + 1 /\ i \in 1 .. k
           /\ \A i \in n + 1 .. k + 1 : i = k + 1 \/ i \in n + 1 .. k
OBVIOUS

LEMMA TwoParts ==
    ASSUME NEW k \in Nat, NEW m \in 0 .. k, NEW n \in 0 .. m
    PROVE  \A i \in n + 1 .. k : i \in m + 1 .. k \/ (i \in n + 1 .. m /\ i \in 1 .. m)
OBVIOUS

(* The history: one entry more *)
LEMMA AfterAppend ==
    ASSUME NEW hs \in Seq(Entry), NEW e \in Entry, NEW n \in 0 .. Len(hs)
    PROVE  /\ Append(hs, e) \in Seq(Entry) /\ Len(Append(hs, e)) = Len(hs) + 1 /\ Len(hs) \in Nat
           /\ \A x : x \in After(Append(hs, e), n) <=>
                     x \in After(hs, n) \/ (x \in Rec /\ e = <<"index", x>>)
<1> DEFINE g == Append(hs, e)
<1>1. /\ g \in Seq(Entry) /\ Len(g) = Len(hs) + 1 /\ Len(hs) \in Nat
      /\ g[Len(hs) + 1] = e /\ \A i \in 1 .. Len(hs) : g[i] = hs[i]
    OBVIOUS
<1> HIDE DEF g
<1>2. /\ Len(hs) + 1 \in n + 1 .. Len(g)
      /\ \A i \in n + 1 .. Len(hs) : i \in n + 1 .. Len(g) /\ g[i] = hs[i]
      /\ \A i \in n + 1 .. Len(g) : i = Len(hs) + 1 \/ (i \in n + 1 .. Len(hs) /\ g[i] = hs[i])
  <2>1. /\ Len(hs) + 1 \in n + 1 .. Len(hs) + 1
        /\ \A i \in n + 1 .. Len(hs) : i \in n + 1 .. Len(hs) + 1 /\ i \in 1 .. Len(hs)
        /\ \A i \in n + 1 .. Len(hs) + 1 : i = Len(hs) + 1 \/ i \in n + 1 .. Len(hs)
    BY <1>1, OneMore, Zenon
  <2> QED
    BY <1>1, <2>1, Zenon
<1>3. \A x : x \in After(g, n) <=> x \in After(hs, n) \/ (x \in Rec /\ e = <<"index", x>>)
  <2> TAKE x
  <2>1. ASSUME x \in After(g, n) PROVE x \in After(hs, n) \/ (x \in Rec /\ e = <<"index", x>>)
    <3>1. x \in Rec /\ \E i \in n + 1 .. Len(g) : g[i] = <<"index", x>>
      BY <2>1, Zenon DEF After
    <3>2. PICK i \in n + 1 .. Len(g) : g[i] = <<"index", x>>
      BY <3>1, Zenon
    <3>3. CASE i = Len(hs) + 1
      BY <1>1, <3>1, <3>2, <3>3, Zenon
    <3>4. CASE i \in n + 1 .. Len(hs) /\ g[i] = hs[i]
      BY <3>1, <3>2, <3>4, Zenon DEF After
    <3> QED
      BY <1>2, <3>3, <3>4, Zenon
  <2>2. ASSUME x \in After(hs, n) PROVE x \in After(g, n)
    BY <1>2, <2>2, Zenon DEF After
  <2>3. ASSUME x \in Rec, e = <<"index", x>> PROVE x \in After(g, n)
    BY <1>1, <1>2, <2>3, Zenon DEF After
  <2> QED
    BY <2>1, <2>2, <2>3, Zenon
<1> QED
    BY <1>1, <1>3, Zenon DEF g

(* ... or cut after m. *)
LEMMA AfterCut ==
    ASSUME NEW hs \in Seq(Entry), NEW m \in 0 .. Len(hs), NEW n \in 0 .. m
    PROVE  /\ SubSeq(hs, 1, m) \in Seq(Entry) /\ Len(SubSeq(hs, 1, m)) = m
           /\ \A x : x \in After(hs, n) => x \in After(SubSeq(hs, 1, m), n) \/ x \in After(hs, m)
<1> DEFINE g == SubSeq(hs, 1, m)
<1>1. g \in Seq(Entry) /\ Len(g) = m /\ \A i \in 1 .. m : g[i] = hs[i]
    OBVIOUS
<1> HIDE DEF g
<1>2. \A i \in n + 1 .. Len(hs) : i \in m + 1 .. Len(hs) \/ (i \in n + 1 .. Len(g) /\ g[i] = hs[i])
  <2>1. Len(hs) \in Nat
    OBVIOUS
  <2>2. \A i \in n + 1 .. Len(hs) : i \in m + 1 .. Len(hs) \/ (i \in n + 1 .. m /\ i \in 1 .. m)
    BY <2>1, TwoParts, Zenon
  <2> QED
    BY <1>1, <2>2, Zenon
<1>3. ASSUME NEW x \in After(hs, n) PROVE x \in After(g, n) \/ x \in After(hs, m)
  <2>1. x \in Rec /\ \E i \in n + 1 .. Len(hs) : hs[i] = <<"index", x>>
    BY Zenon DEF After
  <2>2. PICK i \in n + 1 .. Len(hs) : hs[i] = <<"index", x>>
    BY <2>1, Zenon
  <2>3. CASE i \in m + 1 .. Len(hs)
    BY <2>1, <2>2, <2>3, Zenon DEF After
  <2>4. CASE i \in n + 1 .. Len(g) /\ g[i] = hs[i]
    BY <2>1, <2>2, <2>4, Zenon DEF After
  <2> QED
    BY <1>2, <2>3, <2>4, Zenon
<1> QED
    BY <1>1, <1>3, Zenon DEF g

(* What keeps the part of the invariant about a savepoint s. *)
Keeps(L, hs, M, gs, s) ==
    s = NoSnap \/ \A x \in M : x \notin After(gs, s.n) => x \in L /\ x \notin After(hs, s.n)

LEMMA KeepsBoth ==
    ASSUME NEW L, NEW hs, NEW M, NEW gs, NEW s, Keeps(L, hs, M, gs, s), NEW S
    PROVE  /\ Need(L, hs, s) => Need(M, gs, s)
           /\ Back(S, L, hs, s) => Back(S, M, gs, s)
<1>1. Need(L, hs, s) => Need(M, gs, s)
    BY Zenon DEF Keeps, Need
<1>2. Back(S, L, hs, s) => Back(S, M, gs, s)
    BY Zenon DEF Keeps, Back
<1> QED
    BY <1>1, <1>2, Zenon

------------------------------------------------------------------------------
(* The steps of a statement *)

JInv == IInv /\ TInv /\ UInv

(* A history that is kept or gets one entry more. *)
Longer(hs, e, gs) == hs \in Seq(Entry) /\ e \in Entry /\ gs \in {hs, Append(hs, e)}

(* The locks M are among the locks L, but for the one the new entry is of. *)
Recorded(L, M, hs, e, gs) ==
    \A x \in M : x \in L \/ (x \in Rec /\ e = <<"index", x>> /\ gs = Append(hs, e))

LEMMA LongerKeeps ==
    ASSUME NEW hs, NEW e, NEW gs, Longer(hs, e, gs), NEW L, NEW M, NEW s, Point(hs, s),
           Recorded(L, M, hs, e, gs)
    PROVE  gs \in Seq(Entry) /\ Point(gs, s) /\ Keeps(L, hs, M, gs, s)
<1>1. hs \in Seq(Entry) /\ e \in Entry
    BY Zenon DEF Longer
<1>2. CASE gs # Append(hs, e)
    BY <1>1, <1>2, Zenon DEF Keeps, Recorded, Longer
<1>3. CASE gs = Append(hs, e)
  <2>1. gs \in Seq(Entry) /\ Len(gs) = Len(hs) + 1 /\ Len(hs) \in Nat
    BY <1>1, <1>3
  <2>2. CASE s = NoSnap
    BY <2>1, <2>2, Zenon DEF Keeps, Point
  <2>3. CASE s # NoSnap
    <3>1. s.n \in 0 .. Len(hs)
      BY <2>3, Zenon DEF Point
    <3>2. s.n \in 0 .. Len(gs)
      BY <2>1, <3>1
    <3>3. \A x : x \in After(gs, s.n) <=> x \in After(hs, s.n) \/ (x \in Rec /\ e = <<"index", x>>)
      BY <1>1, <1>3, <3>1, AfterAppend, Zenon
    <3> QED
      BY <2>1, <3>2, <3>3, Zenon DEF Keeps, Point, Recorded
  <2> QED
    BY <2>2, <2>3, Zenon
<1> QED
    BY <1>2, <1>3, Zenon DEF Longer

(* What c has not changed is what it was. *)
LEMMA Same ==
    ASSUME Types, PartTypes, NEW c \in Conns
    PROVE  /\ ins = [ins EXCEPT ![c] = ins[c]] /\ del = [del EXCEPT ![c] = del[c]]
           /\ hist = [hist EXCEPT ![c] = hist[c]] /\ snap = [snap EXCEPT ![c] = snap[c]]
           /\ work = [work EXCEPT ![c] = work[c]] /\ pc = [pc EXCEPT ![c] = pc[c]]
<1>1. ASSUME NEW S, NEW f, f = [d \in S |-> f[d]], NEW a \in S PROVE f = [f EXCEPT ![a] = f[a]]
    BY <1>1, Zenon
<1>2. ins = [d \in Conns |-> ins[d]] /\ del = [d \in Conns |-> del[d]]
    BY Zenon DEF Types
<1>3. hist = [d \in Conns |-> hist[d]] /\ snap = [d \in Conns |-> snap[d]]
    BY Zenon DEF Types
<1>4. work = [d \in Conns |-> work[d]] /\ pc = [d \in Conns |-> pc[d]]
    BY Zenon DEF Types, PartTypes
<1> QED
    BY <1>1, <1>2, <1>3, <1>4, Zenon

LEMMA TypesOf ==
    ASSUME Types, NEW c \in Conns
    PROVE  ValuesOK(ins[c], del[c], hist[c], snap[c], work[c])
BY Zenon DEF Types, ValuesOK

(* A step inside a statement: c may lock or unlock records, and may record *)
(* a lock in its history.                                                  *)
LEMMA StmtStep ==
    ASSUME JInv, Watch, NEW c \in Conns, NEW i, NEW dl, NEW e, NEW gs, NEW w, NEW p,
           Private(c, i, dl, gs, snap[c], w, p), i \in SUBSET Rec, dl \in SUBSET Rec,
           Longer(hist[c], e, gs), w \in Rec \cup {<<>>}, p \in AtRow => w \in Rec,
           pc[c] \in Busy, p \in Busy,
           shared' = shared, holder' \in [Rowids -> Conns \cup {NoConn}], Good(hash'),
           \A d \in Conns \ {c} : Locked(hash', d) \subseteq Locked(hash, d),
           Recorded(Locked(hash, c), Locked(hash', c), hist[c], e, gs),
           Locked(hash', c) \subseteq i \cup dl,
           Calm => Unique((shared \ dl) \cup i),
           Calm /\ p \in {"query", "read", "index"} => \A y \in (shared \ dl) \cup i : y[2] # w[2],
           Calm /\ p = "index" => \A y \in (shared \ dl) \cup i : y[1] # w[1]
    PROVE  TInv' /\ UInv'
<1>0. TInv /\ UInv /\ PartTypes /\ Types
    BY Zenon DEF JInv, IInv, TInv
<1> DEFINE L == Locked(hash, c)
           M == Locked(hash', c)
<1>1. /\ PhaseOK(pc[c], ins[c], del[c], hist[c], snap[c], work[c])
      /\ SpareOK(pc[c], L, ins[c], del[c], hist[c], snap[c])
    BY <1>0, Zenon DEF TInv
<1>2. Point(hist[c], snap[c].stmt) /\ Point(hist[c], snap[c].save)
    BY <1>1, Zenon DEF PhaseOK
<1>3. gs \in Seq(Entry) /\ Point(gs, snap[c].stmt) /\ Keeps(L, hist[c], M, gs, snap[c].stmt)
    BY <1>2, LongerKeeps, Zenon
<1>4. Point(gs, snap[c].save) /\ Keeps(L, hist[c], M, gs, snap[c].save)
    BY <1>2, LongerKeeps, Zenon
<1>5. pc[c] # "dead" /\ p # "dead" /\ p \notin Outside
    BY Zenon DEF Busy, Outside
<1>6. PhaseOK(p, i, dl, gs, snap[c], w)
    BY <1>1, <1>3, <1>4, <1>5, Zenon DEF PhaseOK
<1>7. SpareOK(p, M, i, dl, gs, snap[c])
  <2>1. Need(L, hist[c], snap[c].stmt) /\ Need(L, hist[c], snap[c].save)
    BY <1>1, <1>5, Zenon DEF SpareOK
  <2>2. Need(M, gs, snap[c].stmt) /\ Need(M, gs, snap[c].save)
    BY <1>3, <1>4, <2>1, KeepsBoth, Zenon
  <2> QED
    BY <2>2, Zenon DEF SpareOK
<1>8. ValuesOK(i, dl, gs, snap[c], w)
    BY <1>0, <1>3, TypesOf, Zenon DEF ValuesOK
<1>9. shared' \in SUBSET Rec
    BY <1>0, Zenon DEF Types
<1>10. TInv'
    BY <1>0, <1>6, <1>7, <1>8, <1>9, OwnStep, Zenon
<1>11. ASSUME Calm PROVE UniqOK(p, shared, M, i, dl, gs, snap[c], w)
  <2>1. Back(shared, L, hist[c], snap[c].stmt) /\ Back(shared, L, hist[c], snap[c].save)
    BY <1>0, <1>11, Zenon DEF UInv, UniqOK
  <2>2. Back(shared, M, gs, snap[c].stmt) /\ Back(shared, M, gs, snap[c].save)
    BY <1>3, <1>4, <2>1, KeepsBoth, Zenon
  <2> QED
    BY <1>11, <2>2, Zenon DEF UniqOK
<1>12. UInv'
    BY <1>0, <1>11, UniqStep, Zenon
<1> QED
    BY <1>10, <1>12, Zenon

(* A step inside a statement that changes neither records nor locks of     *)
(* keys.                                                                   *)
LEMMA QuietStep ==
    ASSUME JInv, Watch, NEW c \in Conns, NEW gs, NEW w, NEW p,
           Private(c, ins[c], del[c], gs, snap[c], w, p),
           gs = hist[c] \/ \E x \in Rec : gs = Append(hist[c], <<"row", x>>),
           w \in Rec \cup {<<>>}, p \in AtRow => w \in Rec, pc[c] \in Busy, p \in Busy,
           UNCHANGED <<hash, shared>>, holder' \in [Rowids -> Conns \cup {NoConn}],
           Calm /\ p \in {"query", "read", "index"} => \A y \in View(c) : y[2] # w[2],
           Calm /\ p = "index" => \A y \in View(c) : y[1] # w[1]
    PROVE  TInv' /\ UInv'
<1>0. TInv /\ UInv /\ PartTypes /\ Types
    BY Zenon DEF JInv, IInv, TInv
<1>1. PICK e \in Entry : Longer(hist[c], e, gs)
  <2>1. hist[c] \in Seq(Entry)
    BY <1>0, Zenon DEF Types
  <2>2. <<"new", <<>>>> \in Entry /\ \A x \in Rec : <<"row", x>> \in Entry
    BY DEF Entry
  <2>3. CASE gs = hist[c]
    BY <2>1, <2>2, <2>3, Zenon DEF Longer
  <2>4. ASSUME NEW x \in Rec, gs = Append(hist[c], <<"row", x>>)
        PROVE  Longer(hist[c], <<"row", x>>, gs)
    BY <2>1, <2>2, <2>4, Zenon DEF Longer
  <2> QED
    BY <2>2, <2>3, <2>4, Zenon
<1>2. Locked(hash', c) \subseteq ins[c] \cup del[c]
  <2>1. SpareOK(pc[c], Locked(hash, c), ins[c], del[c], hist[c], snap[c]) /\ pc[c] # "dead"
    BY <1>0, Zenon DEF TInv, Busy
  <2> QED
    BY <2>1, Zenon DEF SpareOK
<1>3. Recorded(Locked(hash, c), Locked(hash', c), hist[c], e, gs)
    BY Zenon DEF Recorded
<1>4. Good(hash') /\ ins[c] \in SUBSET Rec /\ del[c] \in SUBSET Rec
    BY <1>0, Zenon DEF Types
<1>5. Calm => Unique((shared \ del[c]) \cup ins[c])
    BY <1>0, Zenon DEF UInv, UniqOK
<1>6. \A d \in Conns \ {c} : Locked(hash', d) \subseteq Locked(hash, d)
    BY Zenon
<1> QED
    BY <1>1, <1>2, <1>3, <1>4, <1>5, <1>6, StmtStep, Zenon DEF View

LEMMA QuietSteps ==
    ASSUME JInv, NEW c \in Conns,
           \/ Query(c) \/ QueryRead(c) \/ LockRefused(c) \/ RowLock(c) \/ RowRefused(c)
           \/ Forget(c) \/ Fail(c)
           \/ \E x \in Rec : InsertRow(c, x) \/ DeleteRefused(c, x)
    PROVE  TInv' /\ UInv'
<1>0. TInv /\ UInv /\ PartTypes /\ Types
    BY Zenon DEF JInv, IInv, TInv
<1>1. PhaseOK(pc[c], ins[c], del[c], hist[c], snap[c], work[c])
    BY <1>0, Zenon DEF TInv
<1>2. pc[c] \in AtRow => work[c] \in Rec
    BY <1>1, Zenon DEF PhaseOK
<1>3. work[c] \in Rec \cup {<<>>} /\ holder \in [Rowids -> Conns \cup {NoConn}]
    BY <1>0, Zenon DEF Types
<1>4. Calm => UniqOK(pc[c], shared, Locked(hash, c), ins[c], del[c], hist[c], snap[c], work[c])
    BY <1>0, Zenon DEF UInv
<1>5. /\ ins = [ins EXCEPT ![c] = ins[c]] /\ del = [del EXCEPT ![c] = del[c]]
      /\ hist = [hist EXCEPT ![c] = hist[c]] /\ snap = [snap EXCEPT ![c] = snap[c]]
      /\ work = [work EXCEPT ![c] = work[c]]
    BY <1>0, Same, Zenon
<1>6. ASSUME NEW p \in Busy, pc[c] \in Busy, pc' = [pc EXCEPT ![c] = p],
             UNCHANGED <<hash, shared, ins, del, hist, snap, work>>, Watch,
             holder' \in [Rowids -> Conns \cup {NoConn}],
             p \in AtRow => pc[c] \in AtRow,
             Calm /\ p \in {"query", "read", "index"} => \A y \in View(c) : y[2] # work[c][2],
             Calm /\ p = "index" => \A y \in View(c) : y[1] # work[c][1]
      PROVE  TInv' /\ UInv'
  <2>1. Private(c, ins[c], del[c], hist[c], snap[c], work[c], p)
    BY <1>5, <1>6, Zenon DEF Private
  <2> QED
    BY <1>2, <1>3, <1>6, <2>1, QuietStep, Zenon
<1> USE DEF Go, trans
<1>7. CASE Query(c)
  <2>1. Calm => \A y \in View(c) : y[2] # work[c][2]
    BY <1>4, <1>7, Zenon DEF Query, UniqOK, View
  <2>2. /\ pc' = [pc EXCEPT ![c] = "read"] /\ pc[c] = "query" /\ Watch
        /\ UNCHANGED <<hash, shared, ins, del, hist, snap, work, holder>>
    BY <1>7, Zenon DEF Query
  <2> QED
    BY <1>3, <1>6, <2>1, <2>2, Zenon DEF Busy, AtRow
<1>8. CASE QueryRead(c)
  <2>1. /\ pc[c] = "read" /\ Watch
        /\ UNCHANGED <<hash, shared, ins, del, hist, snap, work, holder>>
    BY <1>8, Zenon DEF QueryRead
  <2>2. PICK p \in {"index", "failed"} : pc' = [pc EXCEPT ![c] = p] /\ (p = "index" => ~Conflict(c))
    BY <1>8, Zenon DEF QueryRead
  <2>3. Calm => \A y \in View(c) : y[2] # work[c][2]
    BY <1>4, <2>1, Zenon DEF UniqOK, View
  <2>4. p = "index" => \A y \in View(c) : y[1] # work[c][1]
    BY <2>2, Zenon DEF Conflict
  <2>5. p \in Busy /\ pc[c] \in Busy /\ pc[c] \in AtRow
    BY <2>1, <2>2, Zenon DEF Busy, AtRow
  <2> QED
    BY <1>3, <1>6, <2>1, <2>2, <2>3, <2>4, <2>5, Zenon
<1>9. CASE LockRefused(c) \/ RowRefused(c) \/ Fail(c)
  <2>1. /\ pc[c] \in Busy /\ pc' = [pc EXCEPT ![c] = "failed"] /\ Watch
        /\ UNCHANGED <<hash, shared, ins, del, hist, snap, work, holder>>
    BY <1>9, Zenon DEF LockRefused, RowRefused, Fail, Busy
  <2> QED
    BY <1>3, <1>6, <2>1, Zenon DEF Busy, AtRow
<1>10. CASE Forget(c)
  <2>1. /\ pc[c] = "forget" /\ pc' = [pc EXCEPT ![c] = "rows"] /\ Watch
        /\ UNCHANGED <<hash, shared, ins, del, hist, snap, work>>
        /\ holder' = holder \/ holder' = [holder EXCEPT ![work[c][2]] = NoConn]
    BY <1>10, Zenon DEF Forget
  <2>2. holder' \in [Rowids -> Conns \cup {NoConn}]
    BY <1>3, <2>1, Zenon
  <2> QED
    BY <1>6, <2>1, <2>2, Zenon DEF Busy, AtRow
<1>11. CASE RowLock(c)
  <2>1. /\ pc[c] \in {"insert", "delete"} /\ pc' = [pc EXCEPT ![c] = "rows"] /\ Watch
        /\ UNCHANGED <<hash, shared, ins, del, snap, work>>
        /\ holder' = [holder EXCEPT ![work[c][2]] = c]
        /\ hist' = hist \/ hist' = [hist EXCEPT ![c] = Append(@, <<"row", work[c]>>)]
    BY <1>11, Zenon DEF RowLock
  <2>2. holder' \in [Rowids -> Conns \cup {NoConn}]
    BY <1>3, <2>1, Zenon
  <2>3. work[c] \in Rec /\ pc[c] \in Busy
    BY <1>2, <2>1, Zenon DEF AtRow, Busy
  <2>4. PICK gs : /\ gs = hist[c] \/ gs = Append(hist[c], <<"row", work[c]>>)
                  /\ hist' = [hist EXCEPT ![c] = gs]
    BY <1>5, <2>1, Zenon
  <2>5. Private(c, ins[c], del[c], gs, snap[c], work[c], "rows")
    BY <1>5, <2>1, <2>4, Zenon DEF Private
  <2>6. gs = hist[c] \/ \E x \in Rec : gs = Append(hist[c], <<"row", x>>)
    BY <2>3, <2>4, Zenon
  <2>7. "rows" \in Busy /\ "rows" \notin AtRow /\ "rows" \notin {"query", "read", "index"}
    BY Zenon DEF Busy, AtRow
  <2>8. Watch /\ UNCHANGED <<hash, shared>>
    BY <2>1, Zenon
  <2> QED
    BY <1>3, <2>2, <2>3, <2>5, <2>6, <2>7, <2>8, QuietStep, Zenon
<1>12. ASSUME NEW x \in Rec, InsertRow(c, x) \/ DeleteRefused(c, x) PROVE TInv' /\ UInv'
  <2>1. PICK p \in {"query", "failed"} :
          /\ pc[c] = "rows" /\ pc' = [pc EXCEPT ![c] = p] /\ Watch
          /\ work' = [work EXCEPT ![c] = x]
          /\ UNCHANGED <<hash, shared, ins, del, hist, snap, holder>>
          /\ p = "query" => \A y \in View(c) : y[2] # x[2]
    BY <1>12, Zenon DEF InsertRow, DeleteRefused, NextRow
  <2>2. Private(c, ins[c], del[c], hist[c], snap[c], x, p)
    BY <1>5, <2>1, Zenon DEF Private
  <2>3. p \in Busy /\ pc[c] \in Busy /\ p # "index"
    BY <2>1, Zenon DEF Busy
  <2>4. \A y \in View(c) : p \in {"query", "read", "index"} => y[2] # x[2]
    BY <2>1, Zenon
  <2>5. x \in Rec \cup {<<>>} /\ holder' \in [Rowids -> Conns \cup {NoConn}]
    BY <1>3, <2>1, Zenon
  <2> QED
    BY <2>1, <2>2, <2>3, <2>4, <2>5, QuietStep, Zenon
<1> QED
    BY <1>7, <1>8, <1>9, <1>10, <1>11, <1>12, Zenon

(* The steps that lock and unlock records. *)
LEMMA LockSteps ==
    ASSUME JInv, NEW c \in Conns,
           IdxInsert(c) \/ \E x \in Rec : DeleteShared(c, x) \/ DeleteOwn(c, x)
    PROVE  TInv' /\ UInv'
<1>0. TInv /\ UInv /\ PartTypes /\ Types
    BY Zenon DEF JInv, IInv, TInv
<1>1. /\ PhaseOK(pc[c], ins[c], del[c], hist[c], snap[c], work[c])
      /\ SpareOK(pc[c], Locked(hash, c), ins[c], del[c], hist[c], snap[c])
    BY <1>0, Zenon DEF TInv
<1>2. pc[c] \in AtRow => work[c] \in Rec
    BY <1>1, Zenon DEF PhaseOK
<1>3. /\ work[c] \in Rec \cup {<<>>} /\ holder \in [Rowids -> Conns \cup {NoConn}] /\ Good(hash)
      /\ ins[c] \in SUBSET Rec /\ del[c] \in SUBSET Rec /\ hist[c] \in Seq(Entry)
    BY <1>0, Zenon DEF Types
<1>4. Calm => UniqOK(pc[c], shared, Locked(hash, c), ins[c], del[c], hist[c], snap[c], work[c])
    BY <1>0, Zenon DEF UInv
<1>5. /\ ins = [ins EXCEPT ![c] = ins[c]] /\ del = [del EXCEPT ![c] = del[c]]
      /\ hist = [hist EXCEPT ![c] = hist[c]] /\ snap = [snap EXCEPT ![c] = snap[c]]
      /\ work = [work EXCEPT ![c] = work[c]]
    BY <1>0, Same, Zenon
<1>6. \A x \in Rec : <<"index", x>> \in Entry
    BY DEF Entry
<1>7. Calm => Unique((shared \ del[c]) \cup ins[c])
    BY <1>4, Zenon DEF UniqOK
<1>8. pc[c] \in Busy => Locked(hash, c) \subseteq ins[c] \cup del[c]
    BY <1>1, Zenon DEF SpareOK, Busy
<1>9. ASSUME NEW x \in Rec, LockRecord(c, x)
      PROVE  /\ Good(hash') /\ \A d \in Conns \ {c} : Locked(hash', d) \subseteq Locked(hash, d)
             /\ Locked(hash', c) = Locked(hash, c) \cup {x}
             /\ \E gs : /\ hist' = [hist EXCEPT ![c] = gs] /\ Longer(hist[c], <<"index", x>>, gs)
                        /\ Recorded(Locked(hash, c), Locked(hash', c), hist[c], <<"index", x>>, gs)
  <2>1. /\ Good(hash') /\ \A d \in Conns \ {c} : Locked(hash', d) = Locked(hash, d)
        /\ Locked(hash', c) = Locked(hash, c) \cup {x}
        /\ \/ x \in Locked(hash, c) /\ hist' = hist
           \/ hist' = [hist EXCEPT ![c] = Append(@, <<"index", x>>)]
    BY <1>0, <1>9, LockStep, Zenon
  <2>2. CASE x \in Locked(hash, c) /\ hist' = hist
    <3>1. Longer(hist[c], <<"index", x>>, hist[c])
      BY <1>3, <1>6, Zenon DEF Longer
    <3>2. Recorded(Locked(hash, c), Locked(hash', c), hist[c], <<"index", x>>, hist[c])
      BY <2>1, <2>2, Zenon DEF Recorded
    <3> QED
      BY <1>5, <2>1, <2>2, <3>1, <3>2, Zenon
  <2>3. CASE hist' = [hist EXCEPT ![c] = Append(@, <<"index", x>>)]
    <3> DEFINE gs == Append(hist[c], <<"index", x>>)
    <3>1. Longer(hist[c], <<"index", x>>, gs)
      BY <1>3, <1>6, Zenon DEF Longer
    <3>2. Recorded(Locked(hash, c), Locked(hash', c), hist[c], <<"index", x>>, gs)
      BY <2>1, Zenon DEF Recorded
    <3>3. hist' = [hist EXCEPT ![c] = gs]
      BY <2>3, Zenon
    <3> HIDE DEF gs
    <3> QED
      BY <2>1, <3>1, <3>2, <3>3, Zenon
  <2> QED
    BY <2>1, <2>2, <2>3, Zenon
<1>10. CASE IdxInsert(c)
  <2>1. /\ pc[c] = "index" /\ LockRecord(c, work[c]) /\ pc' = [pc EXCEPT ![c] = "insert"] /\ Watch
        /\ ins' = [ins EXCEPT ![c] = @ \cup {work[c]}]
        /\ UNCHANGED <<holder, shared, del, snap, work>>
    BY <1>10, Zenon DEF IdxInsert, Go
  <2>2. work[c] \in Rec /\ pc[c] \in Busy /\ "insert" \in Busy
    BY <1>2, <2>1, Zenon DEF AtRow, Busy
  <2> DEFINE i == ins[c] \cup {work[c]}
             e == <<"index", work[c]>>
  <2>3. PICK gs : /\ hist' = [hist EXCEPT ![c] = gs] /\ Longer(hist[c], e, gs)
                  /\ Recorded(Locked(hash, c), Locked(hash', c), hist[c], e, gs)
    BY <1>9, <2>1, <2>2, Zenon
  <2>4. /\ Good(hash') /\ \A d \in Conns \ {c} : Locked(hash', d) \subseteq Locked(hash, d)
        /\ Locked(hash', c) = Locked(hash, c) \cup {work[c]}
    BY <1>9, <2>1, <2>2, Zenon
  <2>5. Private(c, i, del[c], gs, snap[c], work[c], "insert")
    BY <1>5, <2>1, <2>3, Zenon DEF Private
  <2>6. i \in SUBSET Rec /\ Locked(hash', c) \subseteq i \cup del[c]
    BY <1>3, <1>8, <2>2, <2>4, Zenon
  <2>7. Calm => Unique((shared \ del[c]) \cup i)
    BY <1>4, <2>1, Zenon DEF UniqOK, Unique
  <2>8. holder' \in [Rowids -> Conns \cup {NoConn}] /\ work[c] \in Rec \cup {<<>>}
    BY <1>3, <2>1, Zenon
  <2> HIDE DEF i, e
  <2> QED
    BY <1>3, <2>1, <2>2, <2>3, <2>4, <2>5, <2>6, <2>7, <2>8, StmtStep, Zenon
<1>11. ASSUME NEW x \in Rec, DeleteShared(c, x) PROVE TInv' /\ UInv'
  <2>1. /\ pc[c] = "rows" /\ LockRecord(c, x) /\ pc' = [pc EXCEPT ![c] = "delete"] /\ Watch
        /\ del' = [del EXCEPT ![c] = @ \cup {x}] /\ work' = [work EXCEPT ![c] = x]
        /\ UNCHANGED <<holder, shared, ins, snap>>
    BY <1>11, Zenon DEF DeleteShared, NextRow, Go
  <2>2. pc[c] \in Busy /\ "delete" \in Busy
    BY <2>1, Zenon DEF Busy
  <2> DEFINE dl == del[c] \cup {x}
             e == <<"index", x>>
  <2>3. PICK gs : /\ hist' = [hist EXCEPT ![c] = gs] /\ Longer(hist[c], e, gs)
                  /\ Recorded(Locked(hash, c), Locked(hash', c), hist[c], e, gs)
    BY <1>9, <2>1, Zenon
  <2>4. /\ Good(hash') /\ \A d \in Conns \ {c} : Locked(hash', d) \subseteq Locked(hash, d)
        /\ Locked(hash', c) = Locked(hash, c) \cup {x}
    BY <1>9, <2>1, Zenon
  <2>5. Private(c, ins[c], dl, gs, snap[c], x, "delete")
    BY <1>5, <2>1, <2>3, Zenon DEF Private
  <2>6. dl \in SUBSET Rec /\ Locked(hash', c) \subseteq ins[c] \cup dl
    BY <1>3, <1>8, <2>2, <2>4, Zenon
  <2>7. Calm => Unique((shared \ dl) \cup ins[c])
    BY <1>7, Zenon DEF Unique
  <2>8. holder' \in [Rowids -> Conns \cup {NoConn}] /\ x \in Rec \cup {<<>>}
    BY <1>3, <2>1, Zenon
  <2> HIDE DEF dl, e
  <2> QED
    BY <1>3, <2>1, <2>2, <2>3, <2>4, <2>5, <2>6, <2>7, <2>8, StmtStep, Zenon
<1>12. ASSUME NEW x \in Rec, DeleteOwn(c, x) PROVE TInv' /\ UInv'
  <2>1. /\ pc[c] = "rows" /\ hash' = HashBlobRemove(hash, x) /\ pc' = [pc EXCEPT ![c] = "forget"]
        /\ Watch /\ ins' = [ins EXCEPT ![c] = @ \ {x}] /\ work' = [work EXCEPT ![c] = x]
        /\ UNCHANGED <<holder, shared, del, hist, snap>>
    BY <1>12, Zenon DEF DeleteOwn, NextRow, Go
  <2>2. pc[c] \in Busy /\ "forget" \in Busy
    BY <2>1, Zenon DEF Busy
  <2> DEFINE i == ins[c] \ {x}
             e == <<"index", x>>
  <2>3. Good(hash') /\ \A d \in Conns : Locked(hash', d) = Locked(hash, d) \ {x}
    BY <1>3, <2>1, RemoveLocks, Zenon
  <2>4. PICK gs : /\ hist' = [hist EXCEPT ![c] = gs] /\ Longer(hist[c], e, gs)
                  /\ Recorded(Locked(hash, c), Locked(hash', c), hist[c], e, gs)
    <3>1. Longer(hist[c], e, hist[c])
      BY <1>3, <1>6, Zenon DEF Longer
    <3>2. Recorded(Locked(hash, c), Locked(hash', c), hist[c], e, hist[c])
      BY <2>3, Zenon DEF Recorded
    <3> HIDE DEF e
    <3> QED
      BY <1>5, <2>1, <3>1, <3>2, Zenon
  <2>5. Private(c, i, del[c], gs, snap[c], x, "forget")
    BY <1>5, <2>1, <2>4, Zenon DEF Private
  <2>6. i \in SUBSET Rec /\ Locked(hash', c) \subseteq i \cup del[c]
    BY <1>3, <1>8, <2>2, <2>3, Zenon
  <2>7. Calm => Unique((shared \ del[c]) \cup i)
    BY <1>7, Zenon DEF Unique
  <2>8. holder' \in [Rowids -> Conns \cup {NoConn}] /\ x \in Rec \cup {<<>>}
    BY <1>3, <2>1, Zenon
  <2>9. /\ Good(hash') /\ Watch /\ shared' = shared /\ "forget" \notin {"query", "read", "index"}
        /\ \A d \in Conns \ {c} : Locked(hash', d) \subseteq Locked(hash, d)
    BY <2>1, <2>3, Zenon
  <2> HIDE DEF i, e
  <2> QED
    BY <1>3, <2>2, <2>4, <2>5, <2>6, <2>7, <2>8, <2>9, StmtStep, Zenon
<1> QED
    BY <1>10, <1>11, <1>12, Zenon

------------------------------------------------------------------------------
(* The ends of statements, and savepoints *)

LEMMA SnapSet ==
    ASSUME Types, NEW c \in Conns, NEW v
    PROVE  /\ [snap EXCEPT ![c].stmt = v] = [snap EXCEPT ![c] = [stmt |-> v, save |-> snap[c].save]]
           /\ [snap EXCEPT ![c].save = v] = [snap EXCEPT ![c] = [stmt |-> snap[c].stmt, save |-> v]]
<1>1. snap[c] \in [stmt : Snap, save : Snap]
    BY Zenon DEF Types
<1>2. /\ [snap[c] EXCEPT !.stmt = v] = [stmt |-> v, save |-> snap[c].save]
      /\ [snap[c] EXCEPT !.save = v] = [stmt |-> snap[c].stmt, save |-> v]
  <2>1. ASSUME NEW T, NEW r \in [stmt : T, save : T]
        PROVE  /\ [r EXCEPT !.stmt = v] = [stmt |-> v, save |-> r.save]
               /\ [r EXCEPT !.save = v] = [stmt |-> r.stmt, save |-> v]
    OBVIOUS
  <2> QED
    BY <1>1, <2>1, Zenon
<1>3. /\ [snap EXCEPT ![c].stmt = v] = [snap EXCEPT ![c] = [snap[c] EXCEPT !.stmt = v]]
      /\ [snap EXCEPT ![c].save = v] = [snap EXCEPT ![c] = [snap[c] EXCEPT !.save = v]]
    BY Zenon
<1> QED
    BY <1>2, <1>3, Zenon

LEMMA SnapTypes ==
    ASSUME Types, NEW c \in Conns
    PROVE  /\ Snapshot(c) \in Snap /\ NoSnap \in Snap /\ snap[c].stmt \in Snap /\ snap[c].save \in Snap
           /\ Snapshot(c) # NoSnap
           /\ Snapshot(c).n = Len(hist[c]) /\ Snapshot(c).ins = ins[c] /\ Snapshot(c).del = del[c]
<1>1. hist[c] \in Seq(Entry) /\ ins[c] \in SUBSET Rec /\ del[c] \in SUBSET Rec
    BY Zenon DEF Types
<1>2. Len(hist[c]) \in Nat /\ Len(hist[c]) # -1 /\ Len(hist[c]) \in Int /\ -1 \in Int
    BY <1>1
<1>3. NoSnap.n = -1 /\ Snapshot(c).n = Len(hist[c])
    BY Zenon DEF NoSnap, Snapshot
<1>4. Snapshot(c) \in Snap /\ NoSnap \in Snap
    BY <1>1, <1>2, Zenon DEF Snap, Snapshot, NoSnap
<1>5. snap[c].stmt \in Snap /\ snap[c].save \in Snap
    BY Zenon DEF Types
<1>6. Snapshot(c).ins = ins[c] /\ Snapshot(c).del = del[c]
    BY Zenon DEF Snapshot
<1> QED
    BY <1>2, <1>3, <1>4, <1>5, <1>6, Zenon

(* The invariant of c. *)
Owns(c) ==
    /\ PhaseOK(pc[c], ins[c], del[c], hist[c], snap[c], work[c])
    /\ SpareOK(pc[c], Locked(hash, c), ins[c], del[c], hist[c], snap[c])
    /\ Calm => UniqOK(pc[c], shared, Locked(hash, c), ins[c], del[c], hist[c], snap[c], work[c])

LEMMA Parts ==
    ASSUME JInv, NEW c \in Conns
    PROVE  TInv /\ UInv /\ PartTypes /\ Types /\ Owns(c)
<1>1. TInv /\ UInv /\ PartTypes /\ Types
    BY Zenon DEF JInv, IInv, TInv
<1>2. Owns(c)
    BY <1>1, Zenon DEF Owns, TInv, UInv
<1> QED
    BY <1>1, <1>2, Zenon

(* Both parts of a step of c that leaves the committed records. *)
LEMMA BothStep ==
    ASSUME JInv, Watch, NEW c \in Conns, NEW i, NEW dl, NEW hs, NEW sp, NEW w, NEW p,
           Private(c, i, dl, hs, sp, w, p), ValuesOK(i, dl, hs, sp, w),
           Good(hash'), holder' \in [Rowids -> Conns \cup {NoConn}], shared' = shared,
           \A d \in Conns \ {c} : Locked(hash', d) \subseteq Locked(hash, d),
           PhaseOK(p, i, dl, hs, sp, w), SpareOK(p, Locked(hash', c), i, dl, hs, sp),
           Calm /\ Calm' => UniqOK(p, shared, Locked(hash', c), i, dl, hs, sp, w)
    PROVE  TInv' /\ UInv'
<1>1. TInv /\ UInv /\ PartTypes /\ shared' \in SUBSET Rec
    BY Parts, Zenon DEF Types
<1>2. TInv'
    BY <1>1, OwnStep, Zenon
<1>3. UInv'
    BY <1>1, UniqStep, Zenon
<1> QED
    BY <1>2, <1>3, Zenon

(* A statement begins. *)
LEMMA BeginKeeps ==
    ASSUME JInv, NEW c \in Conns, Begin(c) PROVE TInv' /\ UInv'
<1> DEFINE L == Locked(hash, c)
           e == <<"new", <<>>>>
           sp == [stmt |-> Snapshot(c), save |-> snap[c].save]
<1>0. TInv /\ UInv /\ PartTypes /\ Types /\ Owns(c)
    BY Parts, Zenon
<1>1. /\ pc[c] = "idle" /\ pc' = [pc EXCEPT ![c] = "rows"] /\ Watch
      /\ UNCHANGED <<hash, holder, shared, ins, del, work>>
      /\ snap' = [snap EXCEPT ![c].stmt = Snapshot(c)]
      /\ hist' = hist \/ hist' = [hist EXCEPT ![c] = Append(@, e)]
    BY Zenon DEF Begin, Go
<1>2. hist[c] \in Seq(Entry) /\ e \in Entry /\ Good(hash') /\ holder' \in [Rowids -> Conns \cup {NoConn}]
    BY <1>0, <1>1, Zenon DEF Types, Entry
<1>3. PICK gs : hist' = [hist EXCEPT ![c] = gs] /\ Longer(hist[c], e, gs)
  <2>1. Longer(hist[c], e, hist[c]) /\ Longer(hist[c], e, Append(hist[c], e))
    BY <1>2, Zenon DEF Longer
  <2>2. hist = [hist EXCEPT ![c] = hist[c]]
    BY <1>0, Same, Zenon
  <2> HIDE DEF e
  <2> QED
    BY <1>1, <2>1, <2>2, Zenon
<1> HIDE DEF e
<1>4. Private(c, ins[c], del[c], gs, sp, work[c], "rows")
  <2>1. snap' = [snap EXCEPT ![c] = sp]
    BY <1>0, <1>1, SnapSet, Zenon
  <2> HIDE DEF sp
  <2> QED
    BY <1>0, <1>1, <1>3, <2>1, Same, Zenon DEF Private
<1>5. /\ Snapshot(c) \in Snap /\ snap[c].save \in Snap /\ Snapshot(c) # NoSnap
      /\ Snapshot(c).n = Len(hist[c]) /\ Snapshot(c).ins = ins[c] /\ Snapshot(c).del = del[c]
    BY <1>0, SnapTypes, Zenon
<1>6. sp.stmt = Snapshot(c) /\ sp.save = snap[c].save /\ sp \in [stmt : Snap, save : Snap]
    BY <1>5, Zenon
<1> HIDE DEF sp
<1>7. Point(hist[c], snap[c].save)
    BY <1>0, Zenon DEF Owns, PhaseOK
<1>8. gs \in Seq(Entry) /\ Point(gs, sp.save) /\ Keeps(L, hist[c], L, gs, sp.save)
  <2>1. Recorded(L, L, hist[c], e, gs)
    BY Zenon DEF Recorded
  <2> QED
    BY <1>3, <1>6, <1>7, <2>1, LongerKeeps, Zenon
<1>9. Point(gs, sp.stmt) /\ sp.save.n <= sp.stmt.n
  <2>1. Len(gs) \in {Len(hist[c]), Len(hist[c]) + 1} /\ Len(hist[c]) \in Nat
    <3>1. Len(Append(hist[c], e)) = Len(hist[c]) + 1 /\ Len(hist[c]) \in Nat
      BY <1>2
    <3> QED
      BY <1>3, <3>1, Zenon DEF Longer
  <2>2. Snapshot(c).n \in 0 .. Len(gs)
    BY <1>5, <2>1
  <2>3. snap[c].save.n <= Len(hist[c])
    <3>1. CASE snap[c].save = NoSnap
      <4>1. NoSnap.n = -1
        BY Zenon DEF NoSnap
      <4> QED
        BY <2>1, <3>1, <4>1
    <3>2. CASE snap[c].save.n \in 0 .. Len(hist[c])
      BY <2>1, <3>2
    <3> QED
      BY <1>7, <3>1, <3>2, Zenon DEF Point
  <2> QED
    BY <1>5, <1>6, <2>2, <2>3, Zenon DEF Point
<1>10. PhaseOK("rows", ins[c], del[c], gs, sp, work[c])
    BY <1>5, <1>6, <1>8, <1>9, Zenon DEF PhaseOK, Busy, Outside, AtRow
<1>11. L \subseteq ins[c] \cup del[c] /\ Need(L, hist[c], snap[c].save)
    BY <1>0, <1>1, Zenon DEF Owns, SpareOK
<1>12. SpareOK("rows", L, ins[c], del[c], gs, sp)
  <2>1. Need(L, gs, sp.save)
    BY <1>6, <1>8, <1>11, KeepsBoth, Zenon
  <2>2. Need(L, gs, sp.stmt)
    BY <1>5, <1>6, <1>11, Zenon DEF Need
  <2> QED
    BY <1>11, <2>1, <2>2, Zenon DEF SpareOK
<1>13. ASSUME Calm PROVE UniqOK("rows", shared, L, ins[c], del[c], gs, sp, work[c])
  <2>1. Unique((shared \ del[c]) \cup ins[c]) /\ Back(shared, L, hist[c], snap[c].save)
    BY <1>0, <1>13, Zenon DEF Owns, UniqOK
  <2>2. Back(shared, L, gs, sp.save)
    BY <1>6, <1>8, <2>1, KeepsBoth, Zenon
  <2>3. Back(shared, L, gs, sp.stmt)
    BY <1>5, <1>6, <2>1, Zenon DEF Back
  <2> QED
    BY <2>1, <2>2, <2>3, Zenon DEF UniqOK
<1>14. ValuesOK(ins[c], del[c], gs, sp, work[c])
    BY <1>0, <1>6, <1>8, TypesOf, Zenon DEF ValuesOK
<1>15. Watch /\ shared' = shared /\ hash' = hash
    BY <1>1, Zenon
<1> QED
    BY <1>2, <1>4, <1>10, <1>12, <1>13, <1>14, <1>15, BothStep, Zenon

(* A step that leaves records, locks and history and may change savepoints *)
(* of a connection that is then idle.                                      *)
LEMMA IdleStep ==
    ASSUME JInv, Watch, NEW c \in Conns, NEW v, NEW w,
           Private(c, ins[c], del[c], hist[c], [stmt |-> NoSnap, save |-> v], w, "idle"),
           UNCHANGED <<hash, shared, holder>>,
           pc[c] # "dead", v \in {snap[c].save, Snapshot(c)}, w \in Rec \cup {<<>>}
    PROVE  TInv' /\ UInv'
<1> DEFINE L == Locked(hash, c)
           sp == [stmt |-> NoSnap, save |-> v]
<1>0. TInv /\ UInv /\ PartTypes /\ Types /\ Owns(c)
    BY Parts, Zenon
<1>1. /\ Snapshot(c) \in Snap /\ NoSnap \in Snap /\ snap[c].save \in Snap
      /\ Snapshot(c).n = Len(hist[c]) /\ Snapshot(c).ins = ins[c] /\ Snapshot(c).del = del[c]
    BY <1>0, SnapTypes, Zenon
<1>2. sp.stmt = NoSnap /\ sp.save = v /\ sp \in [stmt : Snap, save : Snap]
    BY <1>1, Zenon
<1> HIDE DEF sp
<1>3. L \subseteq ins[c] \cup del[c] /\ Need(L, hist[c], snap[c].save)
    BY <1>0, Zenon DEF Owns, SpareOK
<1>4. Point(hist[c], v)
  <2>1. Len(hist[c]) \in 0 .. Len(hist[c])
    <3>1. hist[c] \in Seq(Entry)
      BY <1>0, Zenon DEF Types
    <3> QED
      BY <3>1
  <2>2. Point(hist[c], snap[c].save)
    BY <1>0, Zenon DEF Owns, PhaseOK
  <2>3. Point(hist[c], Snapshot(c))
    BY <1>1, <2>1, Zenon DEF Point
  <2> QED
    BY <2>2, <2>3, Zenon
<1>5. PhaseOK("idle", ins[c], del[c], hist[c], sp, w)
    BY <1>2, <1>4, Zenon DEF PhaseOK, Point, Busy, Outside, AtRow
<1>6. SpareOK("idle", L, ins[c], del[c], hist[c], sp)
    BY <1>1, <1>2, <1>3, Zenon DEF SpareOK, Need
<1>7. ASSUME Calm PROVE UniqOK("idle", shared, L, ins[c], del[c], hist[c], sp, w)
  <2>1. Unique((shared \ del[c]) \cup ins[c]) /\ Back(shared, L, hist[c], snap[c].save)
    BY <1>0, <1>7, Zenon DEF Owns, UniqOK
  <2>2. Back(shared, L, hist[c], v)
    BY <1>1, <2>1, Zenon DEF Back
  <2> QED
    BY <1>2, <2>1, <2>2, Zenon DEF UniqOK, Back
<1>8. ValuesOK(ins[c], del[c], hist[c], sp, w)
    BY <1>0, <1>2, TypesOf, Zenon DEF ValuesOK
<1>9. Good(hash') /\ holder' \in [Rowids -> Conns \cup {NoConn}] /\ hash' = hash /\ shared' = shared
    BY <1>0, Zenon DEF Types
<1>10. Private(c, ins[c], del[c], hist[c], sp, w, "idle")
    BY Zenon DEF sp
<1> QED
    BY <1>5, <1>6, <1>7, <1>8, <1>9, <1>10, BothStep, Zenon

LEMMA IdleSteps ==
    ASSUME JInv, NEW c \in Conns, EndStmt(c) \/ Savepoint(c) PROVE TInv' /\ UInv'
<1>0. TInv /\ UInv /\ PartTypes /\ Types /\ Owns(c)
    BY Parts, Zenon
<1>1. /\ ins = [ins EXCEPT ![c] = ins[c]] /\ del = [del EXCEPT ![c] = del[c]]
      /\ hist = [hist EXCEPT ![c] = hist[c]] /\ work = [work EXCEPT ![c] = work[c]]
      /\ pc = [pc EXCEPT ![c] = pc[c]]
    BY <1>0, Same, Zenon
<1>2. CASE EndStmt(c)
  <2>1. /\ pc[c] = "rows" /\ Watch /\ UNCHANGED <<hash, shared, holder, ins, del, hist>>
        /\ snap' = [snap EXCEPT ![c].stmt = NoSnap] /\ work' = [work EXCEPT ![c] = <<>>]
        /\ pc' = [pc EXCEPT ![c] = "idle"]
    BY <1>2, Zenon DEF EndStmt, Go
  <2>2. snap' = [snap EXCEPT ![c] = [stmt |-> NoSnap, save |-> snap[c].save]]
    BY <1>0, <2>1, SnapSet, Zenon
  <2>3. Private(c, ins[c], del[c], hist[c], [stmt |-> NoSnap, save |-> snap[c].save], <<>>, "idle")
    BY <1>1, <2>1, <2>2, Zenon DEF Private
  <2> QED
    BY <2>1, <2>3, IdleStep, Zenon
<1>3. CASE Savepoint(c)
  <2>1. /\ pc[c] = "idle" /\ Watch /\ UNCHANGED <<hash, shared, holder, ins, del, hist, work, pc>>
        /\ snap' = [snap EXCEPT ![c].save = Snapshot(c)]
    BY <1>3, Zenon DEF Savepoint
  <2>2. snap[c].stmt = NoSnap
    BY <1>0, <2>1, Zenon DEF Owns, PhaseOK, Busy
  <2>3. snap' = [snap EXCEPT ![c] = [stmt |-> NoSnap, save |-> Snapshot(c)]]
    BY <1>0, <2>1, <2>2, SnapSet, Zenon
  <2>4. Private(c, ins[c], del[c], hist[c], [stmt |-> NoSnap, save |-> Snapshot(c)], work[c], "idle")
    BY <1>1, <2>1, <2>3, Zenon DEF Private
  <2>5. work[c] \in Rec \cup {<<>>}
    BY <1>0, Zenon DEF Types
  <2> QED
    BY <2>1, <2>4, <2>5, IdleStep, Zenon
<1> QED
    BY <1>2, <1>3, Zenon

(* rowlockSavepoint goes back to s. *)
GoesBack(c, s, w) ==
    /\ s \in {snap[c].stmt, snap[c].save} /\ s # NoSnap /\ snap[c].save.n <= s.n
    /\ w \in Rec \cup {<<>>}
    /\ UndoTo(c, s)
    /\ Private(c, s.ins, s.del, SubSeq(hist[c], 1, s.n), [stmt |-> NoSnap, save |-> snap[c].save], w, "idle")

LEMMA BackStep ==
    ASSUME Least, JInv, Watch, NEW c \in Conns, NEW s, NEW w, GoesBack(c, s, w),
           shared' = shared, pc[c] # "dead"
    PROVE  TInv' /\ UInv'
<1> DEFINE L == Locked(hash, c)
           M == Locked(hash', c)
           hs == hist[c]
           gs == SubSeq(hs, 1, s.n)
           sp == [stmt |-> NoSnap, save |-> snap[c].save]
<1>0. TInv /\ UInv /\ PartTypes /\ Types /\ Owns(c)
    BY Parts, Zenon
<1> /\ s \in {snap[c].stmt, snap[c].save} /\ s # NoSnap /\ snap[c].save.n <= s.n
    /\ w \in Rec \cup {<<>>} /\ UndoTo(c, s)
    BY Zenon DEF GoesBack
<1>1. Point(hs, s) /\ Point(hs, snap[c].save) /\ Need(L, hs, s) /\ Need(L, hs, snap[c].save)
    BY <1>0, Zenon DEF Owns, PhaseOK, SpareOK
<1>2. s.n \in 0 .. Len(hs)
    BY <1>1, Zenon DEF Point
<1>3. /\ s \in Snap /\ NoSnap \in Snap /\ snap[c].save \in Snap
    BY <1>0, SnapTypes, Zenon
<1>4. sp.stmt = NoSnap /\ sp.save = snap[c].save /\ sp \in [stmt : Snap, save : Snap]
    BY <1>3, Zenon
<1>5. Good(hash') /\ \A d \in Conns : Locked(hash', d) = Locked(hash, d) \ After(hs, s.n)
    BY <1>0, <1>2, UndoStep, Zenon
<1>6. hs \in Seq(Entry) /\ holder \in [Rowids -> Conns \cup {NoConn}]
    BY <1>0, Zenon DEF Types
<1>7. holder' \in [Rowids -> Conns \cup {NoConn}]
  <2>1. \A r \in Rowids : holder[r] \in Conns \cup {NoConn}
    BY <1>6, Zenon
  <2>2. DOMAIN holder' = Rowids /\ \A r \in Rowids : holder'[r] = NoConn \/ holder'[r] = holder[r]
    BY Zenon DEF UndoTo
  <2>3. holder' = [r \in Rowids |-> holder'[r]]
    BY Zenon DEF UndoTo
  <2> QED
    BY <2>1, <2>2, <2>3, Zenon
<1>8. 0 \in 0 .. s.n /\ (snap[c].save = NoSnap \/ snap[c].save.n \in 0 .. s.n)
  <2>1. s.n \in Nat
    BY <1>2
  <2>2. ASSUME snap[c].save # NoSnap PROVE snap[c].save.n \in 0 .. s.n
    <3>1. snap[c].save.n \in 0 .. Len(hs) /\ snap[c].save.n <= s.n
      BY <1>1, <2>2, Zenon DEF Point
    <3> HIDE DEF hs
    <3> QED
      BY <1>2, <3>1
  <2> QED
    BY <2>1, <2>2
<1>9. gs \in Seq(Entry) /\ Len(gs) = s.n
    BY <1>2, <1>6, <1>8, AfterCut, Zenon
<1> HIDE DEF L, M, hs, gs, sp
<1>10. Keeps(L, hs, M, gs, snap[c].save)
  <2>1. CASE snap[c].save = NoSnap
    BY <2>1, Zenon DEF Keeps
  <2>2. CASE snap[c].save.n \in 0 .. s.n
    <3>1. \A x : x \in After(hs, snap[c].save.n) => x \in After(gs, snap[c].save.n) \/ x \in After(hs, s.n)
      BY <1>2, <1>6, <2>2, AfterCut, Zenon DEF gs
    <3> QED
      BY <1>5, <3>1, Zenon DEF Keeps, L, M
  <2> QED
    BY <1>8, <2>1, <2>2, Zenon
<1>11. PhaseOK("idle", s.ins, s.del, gs, sp, w)
    BY <1>4, <1>8, <1>9, Zenon DEF PhaseOK, Point, Busy, Outside, AtRow
<1>12. SpareOK("idle", M, s.ins, s.del, gs, sp)
  <2>1. M \subseteq s.ins \cup s.del
    BY <1>1, <1>5, Zenon DEF Need, L, M
  <2>2. Need(M, gs, sp.save)
    BY <1>1, <1>4, <1>10, KeepsBoth, Zenon
  <2> QED
    BY <1>4, <2>1, <2>2, Zenon DEF SpareOK, Need
<1>13. ValuesOK(s.ins, s.del, gs, sp, w)
    BY <1>3, <1>4, <1>9, Zenon DEF ValuesOK, Snap
<1>14. Private(c, s.ins, s.del, gs, sp, w, "idle")
    BY Zenon DEF GoesBack, gs, sp, hs
<1>15. ASSUME Calm, Calm' PROVE UniqOK("idle", shared, M, s.ins, s.del, gs, sp, w)
  <2>1. Back(shared, L, hs, s) /\ Back(shared, L, hs, snap[c].save)
    BY <1>0, <1>15, Zenon DEF Owns, UniqOK, L, hs
  <2>2. Back(shared, M, gs, sp.save)
    BY <1>4, <1>10, <2>1, KeepsBoth, Zenon
  <2>3. s.ins \cup s.del \subseteq M
    <3>1. ChangesLocked'
      BY <1>15, WatchStep, Zenon DEF Calm
    <3>2. ins'[c] = s.ins /\ del'[c] = s.del
      <4>1. NewValues(c, s.ins, s.del, gs, sp, w, "idle")
        BY <1>0, <1>14, PrivateStep, Zenon
      <4> QED
        BY <4>1, Zenon DEF NewValues
    <3>3. s.ins \in SUBSET Rec /\ s.del \in SUBSET Rec
      BY <1>3, Zenon DEF Snap
    <3>4. \A x \in s.ins \cup s.del : [rec |-> x, own |-> c] \in Range(hash'.elems)
      BY <3>1, <3>2, Zenon DEF ChangesLocked
    <3> QED
      BY <3>3, <3>4, Zenon DEF Locked, M
  <2>4. Unique((shared \ s.del) \cup s.ins)
    BY <1>5, <2>1, <2>3, Zenon DEF Back, L, M
  <2> QED
    BY <1>4, <2>2, <2>4, Zenon DEF UniqOK, Back
<1>16. \A d \in Conns \ {c} : Locked(hash', d) \subseteq Locked(hash, d)
    BY <1>5, Zenon
<1> QED
    BY <1>5, <1>7, <1>11, <1>12, <1>13, <1>14, <1>15, <1>16, BothStep, Zenon DEF M

LEMMA BackSteps ==
    ASSUME Least, JInv, NEW c \in Conns, UndoStmt(c) \/ RollbackTo(c) PROVE TInv' /\ UInv'
<1>0. TInv /\ UInv /\ PartTypes /\ Types /\ Owns(c)
    BY Parts, Zenon
<1>1. work = [work EXCEPT ![c] = work[c]] /\ pc = [pc EXCEPT ![c] = pc[c]]
      /\ snap = [snap EXCEPT ![c] = snap[c]]
    BY <1>0, Same, Zenon
<1>2. CASE UndoStmt(c)
  <2> DEFINE sp == [stmt |-> NoSnap, save |-> snap[c].save]
  <2>0. PICK s : s = snap[c].stmt
    BY Zenon
  <2>1. /\ pc[c] = "failed" /\ Watch /\ shared' = shared
        /\ snap' = [snap EXCEPT ![c].stmt = NoSnap] /\ work' = [work EXCEPT ![c] = <<>>]
        /\ pc' = [pc EXCEPT ![c] = "idle"]
    BY <1>2, Zenon DEF UndoStmt, Go
  <2>2. snap' = [snap EXCEPT ![c] = sp]
    BY <1>0, <2>1, SnapSet, Zenon
  <2>3. s # NoSnap /\ snap[c].save.n <= s.n
    BY <1>0, <2>0, <2>1, Zenon DEF Owns, PhaseOK, Busy
  <2>4. s \in {snap[c].stmt, snap[c].save}
    BY <2>0, Zenon
  <2>5. pc[c] # "dead" /\ <<>> \in Rec \cup {<<>>}
    BY <2>1, Zenon
  <2>6. UndoTo(c, s)
    BY <1>2, <2>0, Zenon DEF UndoStmt, UndoTo, Undone
  <2>7. GoesBack(c, s, <<>>)
    <3>1. /\ hist' = [hist EXCEPT ![c] = SubSeq(@, 1, s.n)] /\ ins' = [ins EXCEPT ![c] = s.ins]
          /\ del' = [del EXCEPT ![c] = s.del]
      BY <1>2, <2>0, Zenon DEF UndoStmt, UndoTo
    <3> QED
      BY <2>1, <2>2, <2>3, <2>4, <2>5, <2>6, <3>1, Zenon DEF GoesBack, Private
  <2> QED
    BY <2>1, <2>7, BackStep, Zenon
<1>3. CASE RollbackTo(c)
  <2> DEFINE sp == [stmt |-> NoSnap, save |-> snap[c].save]
  <2>0. PICK s : s = snap[c].save
    BY Zenon
  <2>1. /\ pc[c] = "idle" /\ Watch /\ shared' = shared /\ s # NoSnap
        /\ UNCHANGED <<snap, work, pc>>
    BY <1>3, <2>0, Zenon DEF RollbackTo
  <2>2. snap[c] = sp
    <3>1. snap[c].stmt = NoSnap
      BY <1>0, <2>1, Zenon DEF Owns, PhaseOK, Busy
    <3>2. snap[c] \in [stmt : Snap, save : Snap]
      BY <1>0, Zenon DEF Types
    <3>3. ASSUME NEW T, NEW r \in [stmt : T, save : T] PROVE r = [stmt |-> r.stmt, save |-> r.save]
      OBVIOUS
    <3> QED
      BY <3>1, <3>2, <3>3, Zenon
  <2>3. s.n <= s.n
    <3>1. s \in Snap
      BY <1>0, <2>0, SnapTypes, Zenon
    <3>2. s.n \in Int
      BY <3>1, Zenon DEF Snap
    <3> QED
      BY <3>2
  <2>4. snap' = [snap EXCEPT ![c] = sp] /\ work' = [work EXCEPT ![c] = work[c]]
        /\ pc' = [pc EXCEPT ![c] = "idle"]
    BY <1>1, <2>1, <2>2, Zenon
  <2>5. work[c] \in Rec \cup {<<>>} /\ pc[c] # "dead"
    BY <1>0, <2>1, Zenon DEF Types
  <2>6. s \in {snap[c].stmt, snap[c].save} /\ snap[c].save.n <= s.n
    BY <2>0, <2>3, Zenon
  <2>7. UndoTo(c, s)
    BY <1>3, <2>0, Zenon DEF RollbackTo, UndoTo, Undone
  <2>8. GoesBack(c, s, work[c])
    <3>1. /\ hist' = [hist EXCEPT ![c] = SubSeq(@, 1, s.n)] /\ ins' = [ins EXCEPT ![c] = s.ins]
          /\ del' = [del EXCEPT ![c] = s.del]
      BY <1>3, <2>0, Zenon DEF RollbackTo, UndoTo
    <3> QED
      BY <2>1, <2>4, <2>5, <2>6, <2>7, <3>1, Zenon DEF GoesBack, Private
  <2> QED
    BY <2>1, <2>5, <2>8, BackStep, Zenon
<1> QED
    BY <1>2, <1>3, Zenon

------------------------------------------------------------------------------
(* The ends of transactions, opening and cleaning *)

LEMMA EmptyElems == EmptyHash.elems = <<>> /\ Good(EmptyHash) /\ Range(<<>>) = {}
BY DEF EmptyHash, Good, Range

LEMMA EmptyIs == Good(EmptyHash) /\ \A d : Locked(EmptyHash, d) = {}
BY EmptyElems, Zenon DEF Locked

(* What the end of a transaction leaves to its connection. *)
Ended(c, w, p) == Private(c, {}, {}, <<>>, [stmt |-> NoSnap, save |-> NoSnap], w, p)

LEMMA EndedValues ==
    ASSUME NEW w \in Rec \cup {<<>>}, NEW p \in {"idle", "dead"}, NEW L, p = "idle" => L = {}
    PROVE  /\ ValuesOK({}, {}, <<>>, [stmt |-> NoSnap, save |-> NoSnap], w)
           /\ PhaseOK(p, {}, {}, <<>>, [stmt |-> NoSnap, save |-> NoSnap], w)
           /\ SpareOK(p, L, {}, {}, <<>>, [stmt |-> NoSnap, save |-> NoSnap])
           /\ \A S : Unique(S) => UniqOK(p, S, L, {}, {}, <<>>, [stmt |-> NoSnap, save |-> NoSnap], w)
<1> DEFINE sp == [stmt |-> NoSnap, save |-> NoSnap]
<1>1. NoSnap \in Snap
  <2>1. -1 \in Int
    OBVIOUS
  <2> QED
    BY <2>1, Zenon DEF Snap, NoSnap
<1>2. sp.stmt = NoSnap /\ sp.save = NoSnap /\ sp \in [stmt : Snap, save : Snap]
    BY <1>1, Zenon
<1> HIDE DEF sp
<1>3. ValuesOK({}, {}, <<>>, sp, w)
  <2>1. <<>> \in Seq(Entry)
    OBVIOUS
  <2> QED
    BY <1>2, <2>1, Zenon DEF ValuesOK
<1>4. PhaseOK(p, {}, {}, <<>>, sp, w)
    BY <1>2, Zenon DEF PhaseOK, Point, Busy, Outside, AtRow
<1>5. SpareOK(p, L, {}, {}, <<>>, sp)
    BY <1>2, Zenon DEF SpareOK, Need
<1>6. ASSUME NEW S, Unique(S) PROVE UniqOK(p, S, L, {}, {}, <<>>, sp, w)
  <2>1. (S \ {}) \cup {} = S
    BY Zenon
  <2>2. Unique((S \ {}) \cup {})
    BY <1>6, <2>1, Zenon
  <2> QED
    BY <1>2, <2>2, Zenon DEF UniqOK, Back
<1> QED
    BY <1>3, <1>4, <1>5, <1>6, Zenon DEF sp

(* ROLLBACK, and the death of a process. *)
LEMMA EndedStep ==
    ASSUME JInv, Watch, NEW c \in Conns, NEW w \in Rec \cup {<<>>}, NEW p \in {"idle", "dead"},
           Ended(c, w, p), Good(hash'), holder' \in [Rowids -> Conns \cup {NoConn}], shared' = shared,
           \A d \in Conns \ {c} : Locked(hash', d) \subseteq Locked(hash, d),
           p = "idle" => Locked(hash', c) = {}
    PROVE  TInv' /\ UInv'
<1> DEFINE sp == [stmt |-> NoSnap, save |-> NoSnap]
           M == Locked(hash', c)
<1>1. /\ ValuesOK({}, {}, <<>>, sp, w) /\ PhaseOK(p, {}, {}, <<>>, sp, w) /\ SpareOK(p, M, {}, {}, <<>>, sp)
      /\ \A S : Unique(S) => UniqOK(p, S, M, {}, {}, <<>>, sp, w)
    BY EndedValues, Zenon
<1>2. Private(c, {}, {}, <<>>, sp, w, p)
    BY Zenon DEF Ended
<1>3. Calm => UniqOK(p, shared, M, {}, {}, <<>>, sp, w)
    BY <1>1, Parts, Zenon DEF UInv
<1> HIDE DEF sp
<1> QED
    BY <1>1, <1>2, <1>3, BothStep, Zenon

LEMMA HolderEnd ==
    ASSUME Types, NEW c, holder' = [r \in Rowids |-> IF holder[r] = c THEN NoConn ELSE holder[r]]
    PROVE  holder' \in [Rowids -> Conns \cup {NoConn}]
<1>1. \A r \in Rowids : holder[r] \in Conns \cup {NoConn}
    BY Zenon DEF Types
<1> QED
    BY <1>1, Zenon

LEMMA EndedSteps ==
    ASSUME Least, JInv, NEW c \in Conns, Rollback(c) \/ Crash(c) PROVE TInv' /\ UInv'
<1>0. TInv /\ UInv /\ PartTypes /\ Types /\ work[c] \in Rec \cup {<<>>}
    BY Parts, Zenon DEF Types
<1>1. CASE Rollback(c)
  <2>1. /\ pc[c] = "idle" /\ Watch /\ hash' = Released(c) /\ UNCHANGED <<shared, work, pc>>
        /\ holder' = [r \in Rowids |-> IF holder[r] = c THEN NoConn ELSE holder[r]]
        /\ ins' = [ins EXCEPT ![c] = {}] /\ del' = [del EXCEPT ![c] = {}]
        /\ hist' = [hist EXCEPT ![c] = <<>>]
        /\ snap' = [snap EXCEPT ![c] = [stmt |-> NoSnap, save |-> NoSnap]]
    BY <1>1, Zenon DEF Rollback, End
  <2>2. work = [work EXCEPT ![c] = work[c]] /\ pc = [pc EXCEPT ![c] = "idle"]
    BY <1>0, <2>1, Same, Zenon
  <2>3. Ended(c, work[c], "idle")
    BY <2>1, <2>2, Zenon DEF Ended, Private
  <2>4. /\ Good(hash') /\ Locked(hash', c) = {}
        /\ \A d \in Conns \ {c} : Locked(hash', d) = Locked(hash, d)
    BY <1>0, <2>1, ReleaseStep, Zenon
  <2>5. holder' \in [Rowids -> Conns \cup {NoConn}]
    BY <1>0, <2>1, HolderEnd, Zenon
  <2>6. \A d \in Conns \ {c} : Locked(hash', d) \subseteq Locked(hash, d)
    BY <2>4, Zenon
  <2> QED
    BY <1>0, <2>1, <2>3, <2>4, <2>5, <2>6, EndedStep, Zenon
<1>2. CASE Crash(c)
  <2>1. /\ Watch /\ UNCHANGED <<hash, holder, shared>>
        /\ ins' = [ins EXCEPT ![c] = {}] /\ del' = [del EXCEPT ![c] = {}]
        /\ hist' = [hist EXCEPT ![c] = <<>>]
        /\ snap' = [snap EXCEPT ![c] = [stmt |-> NoSnap, save |-> NoSnap]]
        /\ work' = [work EXCEPT ![c] = <<>>] /\ pc' = [pc EXCEPT ![c] = "dead"]
    BY <1>2, Zenon DEF Crash, Go
  <2>2. Ended(c, <<>>, "dead")
    BY <2>1, Zenon DEF Ended, Private
  <2>3. /\ Good(hash') /\ holder' \in [Rowids -> Conns \cup {NoConn}]
        /\ \A d \in Conns \ {c} : Locked(hash', d) \subseteq Locked(hash, d)
    BY <1>0, <2>1, Zenon DEF Types
  <2>4. <<>> \in Rec \cup {<<>>} /\ "dead" # "idle"
    BY Zenon
  <2> QED
    BY <2>1, <2>2, <2>3, <2>4, EndedStep, Zenon
<1> QED
    BY <1>1, <1>2, Zenon

(* The steps of sqlite3rowlockPsmInit, and sqlumdash_cleaner. *)
LEMMA OutsideStep ==
    ASSUME JInv, Watch, NEW c \in Conns, NEW p,
           Private(c, ins[c], del[c], hist[c], snap[c], work[c], p),
           p = pc[c] \/ (pc[c] \in Outside \ {"dead"} /\ p \in (Outside \ {"dead"}) \cup {"idle"}),
           Good(hash'), holder' \in [Rowids -> Conns \cup {NoConn}], shared' = shared,
           \A d \in Conns : Locked(hash', d) \subseteq Locked(hash, d)
    PROVE  TInv' /\ UInv'
<1> DEFINE L == Locked(hash, c)
           M == Locked(hash', c)
<1>0. Types /\ Owns(c)
    BY Parts, Zenon
<1>1. ValuesOK(ins[c], del[c], hist[c], snap[c], work[c])
    BY <1>0, TypesOf, Zenon
<1>2. M \subseteq L
    BY Zenon
<1> HIDE DEF M
<1>3. PhaseOK(p, ins[c], del[c], hist[c], snap[c], work[c])
    BY <1>0, Zenon DEF Owns, PhaseOK, Busy, Outside, AtRow
<1>4. SpareOK(p, M, ins[c], del[c], hist[c], snap[c])
  <2>1. SpareOK(p, L, ins[c], del[c], hist[c], snap[c])
    BY <1>0, Zenon DEF Owns, SpareOK
  <2> QED
    BY <1>2, <2>1, Zenon DEF SpareOK, Need
<1>5. ASSUME Calm PROVE UniqOK(p, shared, M, ins[c], del[c], hist[c], snap[c], work[c])
  <2>1. UniqOK(pc[c], shared, L, ins[c], del[c], hist[c], snap[c], work[c])
    BY <1>0, <1>5, Zenon DEF Owns
  <2>2. UniqOK(p, shared, L, ins[c], del[c], hist[c], snap[c], work[c])
    BY <2>1, Zenon DEF UniqOK, Outside
  <2>3. \A s : Back(shared, L, hist[c], s) => Back(shared, M, hist[c], s)
    BY <1>2, Zenon DEF Back
  <2> QED
    BY <2>2, <2>3, Zenon DEF UniqOK
<1>6. \A d \in Conns \ {c} : Locked(hash', d) \subseteq Locked(hash, d)
    BY Zenon
<1> QED
    BY <1>1, <1>3, <1>4, <1>5, <1>6, BothStep, Zenon DEF M

LEMMA OutsideSteps ==
    ASSUME JInv, NEW c \in Conns, Open(c) \/ OpenStep(c) PROVE TInv' /\ UInv'
<1>0. PartTypes /\ Types
    BY Parts, Zenon
<1>1. PICK s \in Outside \ {"dead"}, t \in (Outside \ {"dead"}) \cup {"idle"} : Opening(c, s, t)
    BY Zenon DEF Open, OpenStep, InitLock, InitJoin, InitFirst, InitMeta, Outside
<1>2. /\ pc[c] = s /\ pc' = [pc EXCEPT ![c] = t] /\ Watch
      /\ UNCHANGED <<hash, holder, shared, ins, del, hist, snap, work>>
    BY <1>1, Zenon DEF Opening, Go, trans
<1>3. Private(c, ins[c], del[c], hist[c], snap[c], work[c], t)
    BY <1>0, <1>2, Same, Zenon DEF Private
<1>4. /\ Good(hash') /\ holder' \in [Rowids -> Conns \cup {NoConn}]
      /\ \A d \in Conns : Locked(hash', d) \subseteq Locked(hash, d)
    BY <1>0, <1>2, Zenon DEF Types
<1>5. pc[c] \in Outside \ {"dead"}
    BY <1>2, Zenon
<1> QED
    BY <1>2, <1>3, <1>4, <1>5, OutsideStep, Zenon

LEMMA CleanStep ==
    ASSUME JInv, Clean PROVE TInv' /\ UInv'
<1>1. PICK c \in Conns : TRUE
    BY UniqueConstants, Zenon
<1>2. PartTypes /\ Types
    BY Parts, Zenon
<1>3. /\ hash' = EmptyHash /\ holder' = [r \in Rowids |-> NoConn] /\ Watch
      /\ UNCHANGED <<shared, ins, del, hist, snap, work, pc>>
    BY Zenon DEF Clean, trans
<1>4. Private(c, ins[c], del[c], hist[c], snap[c], work[c], pc[c])
    BY <1>2, <1>3, Same, Zenon DEF Private
<1>5. Good(hash') /\ \A d \in Conns : Locked(hash', d) = {}
    BY <1>3, EmptyIs, Zenon
<1>6. holder' \in [Rowids -> Conns \cup {NoConn}]
    BY <1>3, Zenon
<1>7. \A d \in Conns : Locked(hash', d) \subseteq Locked(hash, d)
    BY <1>5, Zenon
<1> QED
    BY <1>3, <1>4, <1>5, <1>6, <1>7, OutsideStep, Zenon

------------------------------------------------------------------------------
(* COMMIT *)

(* The committed records of c beside the changes i and dl of d: a key or a *)
(* rowid of both would have two holders.                                   *)
LEMMA CommitBeside ==
    ASSUME JInv, Calm, NEW c \in Conns, NEW d \in Conns \ {c}, pc[c] = "idle",
           pc[d] \in Outside \cup {"idle"}, NEW i, NEW dl,
           i \subseteq ins[d] \cup del[d], i \subseteq Locked(hash, d),
           Unique((shared \ dl) \cup i)
    PROVE  Unique((View(c) \ dl) \cup i)
<1>1. UInv /\ Types /\ Owns(c) /\ Owns(d)
    BY Parts, Zenon
<1>2. ChangesLocked /\ OneHolder
    BY <1>1, Zenon DEF UInv, Calm
<1>3. Unique(View(c))
    BY <1>1, Zenon DEF Owns, UniqOK, View
<1>4. ASSUME NEW x \in i, NEW y \in ins[c] PROVE x[1] # y[1] /\ x[2] # y[2]
  <2>1. pc[d] = "idle"
    BY <1>1, <1>4, Zenon DEF Owns, PhaseOK
  <2>2. holder[x[2]] = d /\ holder[y[2]] = c
    BY <1>2, <1>4, <2>1, Zenon DEF ChangesLocked
  <2>3. [rec |-> x, own |-> d] \in Range(hash.elems) /\ [rec |-> y, own |-> c] \in Range(hash.elems)
    BY <1>2, <1>4, Zenon DEF ChangesLocked
  <2>4. ASSUME x[1] = y[1] PROVE FALSE
    <3> DEFINE a == [rec |-> x, own |-> d]
               b == [rec |-> y, own |-> c]
    <3>1. a.rec = x /\ b.rec = y /\ a.own = d /\ b.own = c
      BY Zenon
    <3> HIDE DEF a, b
    <3>2. a \in Range(hash.elems) /\ b \in Range(hash.elems)
      BY <2>3, Zenon DEF a, b
    <3>3. a.rec[1] = b.rec[1]
      BY <2>4, <3>1, Zenon
    <3> QED
      BY <1>2, <3>1, <3>2, <3>3, Zenon DEF OneHolder
  <2> QED
    BY <2>2, <2>4, Zenon
<1>5. ASSUME NEW x \in (View(c) \ dl) \cup i
      PROVE  x \in (shared \ dl) \cup i \/ x \in ins[c]
    BY <1>5, Zenon DEF View
<1>6. ASSUME NEW x \in (View(c) \ dl) \cup i, NEW y \in (View(c) \ dl) \cup i, x[1] = y[1] \/ x[2] = y[2]
      PROVE  x = y
  <2>1. CASE x \in View(c) /\ y \in View(c)
    BY <1>3, <1>6, <2>1, Zenon DEF Unique
  <2>2. CASE x \in (shared \ dl) \cup i /\ y \in (shared \ dl) \cup i
    BY <1>6, <2>2, Zenon DEF Unique
  <2>3. CASE x \in i /\ y \in ins[c]
    BY <1>4, <1>6, <2>3, Zenon
  <2>4. CASE x \in ins[c] /\ y \in i
    BY <1>4, <1>6, <2>4, Zenon
  <2> QED
    BY <1>5, <1>6, <2>1, <2>2, <2>3, <2>4, Zenon DEF View
<1> QED
    BY <1>6, Zenon DEF Unique

LEMMA CommitOther ==
    ASSUME JInv, Calm, NEW c \in Conns, NEW d \in Conns \ {c}, pc[c] = "idle",
           pc[d] \in Outside \cup {"idle"}
    PROVE  UniqOK(pc[d], View(c), Locked(hash, d), ins[d], del[d], hist[d], snap[d], work[d])
<1>1. UInv /\ Types /\ Owns(d)
    BY Parts, Zenon
<1>2. UniqOK(pc[d], shared, Locked(hash, d), ins[d], del[d], hist[d], snap[d], work[d])
    BY <1>1, Zenon DEF Owns
<1>3. ins[d] \subseteq Locked(hash, d) /\ ins[d] \subseteq ins[d] \cup del[d]
  <2>1. \A x \in ins[d] : x \in Rec /\ [rec |-> x, own |-> d] \in Range(hash.elems)
    BY <1>1, Zenon DEF UInv, Calm, ChangesLocked, Types
  <2> QED
    BY <2>1, Zenon DEF Locked
<1>4. Unique((View(c) \ del[d]) \cup ins[d])
  <2>1. Unique((shared \ del[d]) \cup ins[d])
    BY <1>2, Zenon DEF UniqOK
  <2> QED
    BY <1>3, <2>1, CommitBeside, Zenon
<1>5. snap[d].stmt = NoSnap /\ pc[d] \notin {"query", "read", "index"}
    BY <1>1, Zenon DEF Owns, PhaseOK, Busy, Outside
<1>6. Back(View(c), Locked(hash, d), hist[d], snap[d].save)
  <2>1. PICK s : s = snap[d].save
    BY Zenon
  <2>2. SUFFICES ASSUME s # NoSnap, s.ins \cup s.del \subseteq Locked(hash, d) \ After(hist[d], s.n)
                 PROVE  Unique((View(c) \ s.del) \cup s.ins)
    BY <2>1, Zenon DEF Back
  <2>3. Unique((shared \ s.del) \cup s.ins)
    BY <1>2, <2>1, <2>2, Zenon DEF UniqOK, Back
  <2>4. s.ins \subseteq Locked(hash, d)
    BY <2>2, Zenon
  <2>5. pc[d] # "dead"
    BY <1>1, <2>1, <2>2, Zenon DEF Owns, PhaseOK, Outside
  <2>6. s.ins \subseteq ins[d] \cup del[d]
    BY <1>1, <2>4, <2>5, Zenon DEF Owns, SpareOK
  <2> QED
    BY <2>3, <2>4, <2>6, CommitBeside, Zenon
<1> QED
    BY <1>4, <1>5, <1>6, Zenon DEF UniqOK, Back

(* COMMIT puts the changes of c into the shared btree. *)
LEMMA CommitStep ==
    ASSUME Least, JInv, NEW c \in Conns, Commit(c) PROVE TInv' /\ UInv'
<1> DEFINE sp == [stmt |-> NoSnap, save |-> NoSnap]
<1>0. TInv /\ UInv /\ PartTypes /\ Types /\ Owns(c) /\ work[c] \in Rec \cup {<<>>}
    BY Parts, Zenon DEF Types
<1>1. /\ pc[c] = "idle" /\ Watch /\ hash' = Released(c) /\ UNCHANGED <<work, pc>> /\ shared' = View(c)
      /\ holder' = [r \in Rowids |-> IF holder[r] = c THEN NoConn ELSE holder[r]]
      /\ ins' = [ins EXCEPT ![c] = {}] /\ del' = [del EXCEPT ![c] = {}]
      /\ hist' = [hist EXCEPT ![c] = <<>>] /\ snap' = [snap EXCEPT ![c] = sp]
    BY Zenon DEF Commit, End
<1>2. \A d \in Conns \ {c} : pc[d] \in Outside \cup {"idle"}
    BY Zenon DEF Commit, Outside
<1>3. work = [work EXCEPT ![c] = work[c]] /\ pc = [pc EXCEPT ![c] = "idle"]
    BY <1>0, <1>1, Same, Zenon
<1>4. Private(c, {}, {}, <<>>, sp, work[c], "idle")
    BY <1>1, <1>3, Zenon DEF Private
<1>5. /\ Good(hash') /\ Locked(hash', c) = {}
      /\ \A d \in Conns \ {c} : Locked(hash', d) = Locked(hash, d)
    BY <1>0, <1>1, ReleaseStep, Zenon
<1>6. holder' \in [Rowids -> Conns \cup {NoConn}]
    BY <1>0, <1>1, HolderEnd, Zenon
<1>7. \A d \in Conns \ {c} : Locked(hash', d) \subseteq Locked(hash, d)
    BY <1>5, Zenon
<1>8. shared' \in SUBSET Rec
    BY <1>0, <1>1, Zenon DEF Types, View
<1> DEFINE M == Locked(hash', c)
<1>9. /\ ValuesOK({}, {}, <<>>, sp, work[c]) /\ PhaseOK("idle", {}, {}, <<>>, sp, work[c])
      /\ SpareOK("idle", M, {}, {}, <<>>, sp)
      /\ \A S : Unique(S) => UniqOK("idle", S, M, {}, {}, <<>>, sp, work[c])
    BY <1>0, <1>5, EndedValues, Zenon
<1> HIDE DEF sp
<1>10. TInv'
    BY <1>0, <1>4, <1>5, <1>6, <1>7, <1>8, <1>9, OwnStep, Zenon
<1>11. NewValues(c, {}, {}, <<>>, sp, work[c], "idle")
    BY <1>0, <1>4, PrivateStep, Zenon
<1>12. /\ ~ghost'.bare => ~ghost.bare /\ ChangesLocked'
       /\ ~ghost'.twice => ~ghost.twice /\ OneHolder'
    BY <1>1, WatchStep, Zenon
<1>13. ASSUME Calm' PROVE Calm
    BY <1>12, <1>13, Zenon DEF Calm
<1>14. ASSUME Calm' PROVE Unique(shared')
    BY <1>0, <1>1, <1>13, <1>14, Zenon DEF Owns, UniqOK, View
<1>15. ASSUME Calm', NEW d \in Conns
       PROVE  UniqOK(pc'[d], shared', Locked(hash', d), ins'[d], del'[d], hist'[d], snap'[d], work'[d])
  <2>1. CASE d = c
    <3>1. UniqOK("idle", shared', M, {}, {}, <<>>, sp, work[c])
      BY <1>9, <1>14, <1>15, Zenon
    <3> QED
      BY <1>11, <2>1, <3>1, Zenon DEF NewValues, M
  <2>2. CASE d # c
    <3>1. UniqOK(pc[d], View(c), Locked(hash, d), ins[d], del[d], hist[d], snap[d], work[d])
      BY <1>1, <1>2, <1>13, <1>15, <2>2, CommitOther, Zenon
    <3> QED
      BY <1>1, <1>5, <1>11, <2>2, <3>1, Zenon DEF NewValues
  <2> QED
    BY <2>1, <2>2, Zenon
<1>16. UInv'
    BY <1>12, <1>14, <1>15, Zenon DEF UInv
<1> QED
    BY <1>10, <1>16, Zenon

------------------------------------------------------------------------------
(* The whole invariant *)

LEMMA InitAll == Init => JInv
<1> SUFFICES ASSUME Init PROVE JInv
    BY Zenon
<1> DEFINE sp == [stmt |-> NoSnap, save |-> NoSnap]
<1>1. hash = EmptyHash /\ shared = Initial /\ holder = [r \in Rowids |-> NoConn]
    BY Zenon DEF Init
<1>2. Good(hash) /\ \A d : Locked(hash, d) = {}
    BY <1>1, EmptyIs, Zenon
<1>3. \A c \in Conns : /\ ins[c] = {} /\ del[c] = {} /\ hist[c] = <<>> /\ snap[c] = sp /\ work[c] = <<>>
                       /\ pc[c] \in {"closed", "idle"}
    BY Zenon DEF Init
<1>4. ValuesOK({}, {}, <<>>, sp, <<>>)
  <2>1. <<>> \in Rec \cup {<<>>} /\ "dead" # "idle" /\ "dead" \in {"idle", "dead"}
    BY Zenon
  <2> QED
    BY <2>1, EndedValues, Zenon
<1>5. sp.stmt = NoSnap /\ sp.save = NoSnap
    BY Zenon
<1> HIDE DEF sp
<1>6. Types
  <2>1. /\ {} \in SUBSET Rec /\ <<>> \in Seq(Entry) /\ sp \in [stmt : Snap, save : Snap]
        /\ <<>> \in Rec \cup {<<>>}
    BY <1>4, Zenon DEF ValuesOK
  <2>2. /\ ins = [c \in Conns |-> {}] /\ del = [c \in Conns |-> {}] /\ hist = [c \in Conns |-> <<>>]
        /\ snap = [c \in Conns |-> sp] /\ work = [c \in Conns |-> <<>>]
    BY Zenon DEF Init, sp
  <2>3. shared \in SUBSET Rec
    BY <1>1, UniqueConstants, Zenon
  <2>4. holder \in [Rowids -> Conns \cup {NoConn}]
    BY <1>1, Zenon
  <2> QED
    BY <1>2, <2>1, <2>2, <2>3, <2>4, Zenon DEF Types
<1>7. ASSUME NEW p \in {"closed", "idle"}
      PROVE  PhaseOK(p, {}, {}, <<>>, sp, <<>>) /\ SpareOK(p, {}, {}, {}, <<>>, sp)
    BY <1>5, Zenon DEF PhaseOK, SpareOK, Point, Need, Busy, Outside, AtRow
<1>8. TInv
  <2>1. ASSUME NEW c \in Conns
        PROVE  /\ PhaseOK(pc[c], ins[c], del[c], hist[c], snap[c], work[c])
               /\ SpareOK(pc[c], Locked(hash, c), ins[c], del[c], hist[c], snap[c])
    BY <1>2, <1>3, <1>7, Zenon
  <2> QED
    BY <1>6, <2>1, Zenon DEF TInv
<1>9. Unique(shared)
    BY <1>1, UniqueConstants, Zenon DEF Unique
<1>10. ASSUME NEW p \in {"closed", "idle"} PROVE UniqOK(p, shared, {}, {}, {}, <<>>, sp, <<>>)
  <2>1. (shared \ {}) \cup {} = shared
    BY Zenon
  <2>2. Unique((shared \ {}) \cup {})
    BY <1>9, <2>1, Zenon
  <2> QED
    BY <1>5, <2>2, Zenon DEF UniqOK, Back
<1>11. \A c \in Conns : UniqOK(pc[c], shared, Locked(hash, c), ins[c], del[c], hist[c], snap[c], work[c])
    BY <1>2, <1>3, <1>10, Zenon
<1>12. ChangesLocked
    BY <1>3, Zenon DEF ChangesLocked
<1>13. OneHolder
  <2>1. hash.elems = <<>> /\ Range(<<>>) = {}
    BY <1>1, EmptyElems, Zenon
  <2> QED
    BY <2>1, Zenon DEF OneHolder
<1>14. UInv
    BY <1>9, <1>11, <1>12, <1>13, Zenon DEF UInv
<1> QED
    BY <1>8, <1>14, InitInv, Zenon DEF JInv

LEMMA StutterStep ==
    ASSUME JInv, UNCHANGED vars PROVE TInv' /\ UInv'
<1>1. UNCHANGED <<hash, holder, shared, ins, del, hist, snap, work, pc, ghost>>
    BY Zenon DEF vars, trans
<1>2. TInv /\ UInv
    BY Zenon DEF JInv
<1>3. TInv'
    BY <1>1, <1>2, Zenon DEF TInv, Types
<1>4. UInv'
  <2>1. (ChangesLocked => ChangesLocked') /\ (OneHolder => OneHolder') /\ (Calm' => Calm)
    BY <1>1, Zenon DEF ChangesLocked, OneHolder, Calm
  <2> QED
    BY <1>1, <1>2, <2>1, Zenon DEF UInv
<1> QED
    BY <1>3, <1>4, Zenon

(* Every step keeps the whole invariant. *)
LEMMA NextAll == ASSUME Least PROVE JInv /\ [Next]_vars => JInv'
<1> SUFFICES ASSUME JInv, [Next]_vars PROVE JInv'
    BY Zenon
<1>1. SUFFICES TInv' /\ UInv'
  <2>1. IInv'
    BY NextInv, Zenon DEF JInv
  <2> QED
    BY <2>1, Zenon DEF JInv
<1>2. CASE UNCHANGED vars
    BY <1>2, StutterStep, Zenon
<1>3. CASE Clean
    BY <1>3, CleanStep, Zenon
<1>4. ASSUME NEW c \in Conns, InitSleep(c) PROVE TInv' /\ UInv'
    BY <1>4, StutterStep, Zenon DEF InitSleep
<1> QED
    BY <1>2, <1>3, <1>4, OutsideSteps, BeginKeeps, QuietSteps, LockSteps, IdleSteps, BackSteps,
       EndedSteps, CommitStep, Zenon DEF Next

(* ... and so the behaviours have it. *)
LEMMA AllHolds == ASSUME Least PROVE Spec => []JInv
BY InitAll, NextAll, PTL DEF Spec

(* What it says of the properties. *)
LEMMA OneElementFrom == JInv => OneElement
<1> SUFFICES ASSUME JInv PROVE OneElement
    BY Zenon
<1>1. Types /\ PartTypes /\ Good(hash)
    BY Zenon DEF JInv, TInv, IInv, Types
<1>2. hash.size \in Nat /\ \A i, j \in DOMAIN hash.elems : hash.elems[i].rec = hash.elems[j].rec => i = j
    BY <1>1, Zenon DEF Good
<1>3. \A i \in DOMAIN hash.elems : hash.elems[i] \in [rec : Rec, own : Conns]
  <2>1. hash.elems \in Seq(Elem)
    BY <1>1, Zenon DEF Good
  <2>2. ASSUME NEW s \in Seq(Elem), NEW i \in DOMAIN s PROVE s[i] \in Elem
    OBVIOUS
  <2> QED
    BY <2>1, <2>2, Zenon DEF Elem
<1>4. TypeOK
    BY <1>1, <1>2, <1>3, Zenon DEF TypeOK, Types, PartTypes
<1> QED
    BY <1>2, <1>4, Zenon DEF OneElement

LEMMA NoSpareLockFrom == JInv => NoSpareLock
<1> SUFFICES ASSUME JInv, NEW e \in Range(hash.elems), pc[e.own] = "idle"
             PROVE  e.rec \in ins[e.own] \cup del[e.own]
    BY Zenon DEF NoSpareLock
<1>1. TInv /\ Good(hash)
    BY Zenon DEF JInv, TInv, Types
<1>2. e.rec \in Rec /\ e.own \in Conns /\ e = [rec |-> e.rec, own |-> e.own]
  <2>1. PICK i \in DOMAIN hash.elems : hash.elems[i] = e
    BY InRange, Zenon
  <2>2. e \in Elem
    <3>1. ASSUME NEW s \in Seq(Elem), NEW j \in DOMAIN s PROVE s[j] \in Elem
      OBVIOUS
    <3> QED
      BY <1>1, <2>1, <3>1, Zenon DEF Good
  <2>3. ASSUME NEW R, NEW C, NEW f \in [rec : R, own : C]
        PROVE  f.rec \in R /\ f.own \in C /\ f = [rec |-> f.rec, own |-> f.own]
    OBVIOUS
  <2> QED
    BY <2>2, <2>3, Zenon DEF Elem
<1>3. e.rec \in Locked(hash, e.own)
    BY <1>2, Zenon DEF Locked
<1>4. SpareOK(pc[e.own], Locked(hash, e.own), ins[e.own], del[e.own], hist[e.own], snap[e.own])
    BY <1>1, <1>2, Zenon DEF TInv
<1> QED
    BY <1>3, <1>4, Zenon DEF SpareOK

LEMMA UniqueCommittedFrom == JInv => UniqueCommitted
BY Zenon DEF JInv, UInv, Calm, Unique, UniqueCommitted

LEMMA OneElementFollows == ASSUME Least PROVE Spec => []OneElement
BY OneElementFrom, AllHolds, PTL

LEMMA NoSpareLockFollows == ASSUME Least PROVE Spec => []NoSpareLock
BY NoSpareLockFrom, AllHolds, PTL

LEMMA UniqueCommittedFollows == ASSUME Least PROVE Spec => []UniqueCommitted
BY UniqueCommittedFrom, AllHolds, PTL

------------------------------------------------------------------------------
INSTANCE WellFoundedInduction

(* A nonempty set of naturals has a least member. *)
LEMMA Smallest == Least
<1> SUFFICES ASSUME NEW S \in SUBSET Nat, S # {}
             PROVE  \E m \in S : \A n \in S : m <= n
    BY Zenon DEF Least
<1>1. PICK R : IsWellFoundedOn(R, Nat) /\ \A x, y \in Nat : <<x, y>> \in R <=> x < y
    BY NatLessThanWellFounded DEF OpToRel
<1>2. PICK x \in S : \A y \in S : ~ (<<y, x>> \in R)
  <2>2. IsWellFoundedOn(R, Nat)
    BY <1>1, Zenon
  <2> QED
    BY <2>2, WFMin, Zenon
<1>3. \A y \in S : ~ (y < x)
    BY <1>1, <1>2, Zenon
<1> QED
    BY <1>2, <1>3

(* "assert( !pElem )" of sqlite3rowlockPsmLockRecord, and the types: a      *)
(* record is in the hash table at most once, whatever statements,           *)
(* rollbacks, commits, deaths and rehashes there have been, although        *)
(* sqlite3HashBlobInsert removes elements whoever owns them.                *)
THEOREM OneElementHolds == Spec => []OneElement
    BY Smallest, OneElementFollows, PTL

(* A lock in the hash table of a connection between statements is for a     *)
(* change of its transaction: the history that rowlockSavepoint walks has   *)
(* every lock since the savepoint, and sqlite3rowlockPsmUnlockRecordProc    *)
(* finds all the elements of a connection while it removes them.            *)
THEOREM NoSpareLockHolds == Spec => []NoSpareLock
    BY Smallest, NoSpareLockFollows, PTL

(* The committed records of a UNIQUE index have different keys and rowids,  *)
(* for any interleaving of statements, commits, rollbacks, savepoints and   *)
(* deaths, as long as every change has had its lock and no key has been     *)
(* locked by two transactions: OP_NoConflict looks at the transaction's own *)
(* view only, and the locks of OP_IdxInsert and OP_Insert do the rest when  *)
(* sqlite3TransBtreeCommit adds the changes of one to those of another.     *)
THEOREM UniqueCommittedHolds == Spec => []UniqueCommitted
    BY Smallest, UniqueCommittedFollows, PTL


(* For any number of connections that open the database together, that     *)
(* die while they do and that are cleaned up after: all of them use the    *)
(* meta data that the first opener has created (rowlockPsmInitLock and     *)
(* sqlite3rowlockPsmInit).                                                 *)
THEOREM OneMetaHolds == Spec => []OneMeta
<1>1. IInv => OneMeta
    BY Zenon DEF IInv, Handles, OneMeta
<1> QED
    BY <1>1, InvHolds, PTL

(* "assert( pTable )" of rowlock_psm_lock.c, for any number of connections *)
(* and records and any size at which the list is rehashed: the index has   *)
(* its hash table during every statement, whoever rolls back, dies or      *)
(* opens the database meanwhile.                                           *)
THEOREM TableThereHolds == Spec => []TableThere
<1>1. IInv => TableThere
    BY Zenon DEF IInv, Unused, TableThere
<1> QED
    BY <1>1, InvHolds, PTL
==============================================================================
