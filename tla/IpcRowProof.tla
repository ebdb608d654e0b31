------------------------------ MODULE IpcRowProof ------------------------------
(***************************************************************************)
(* Theorems about the row-lock table, for any number of slots, rows and    *)
(* connections and any hash function.                                      *)
(***************************************************************************)
EXTENDS IpcRow, IpcHashProof, FiniteSetTheorems

(* The types of the index computations. *)
LEMMA ZeroIsIndex == 0 \in Index /\ nElement - 1 \in Index
BY ElementCount DEF Index

LEMMA EmptyAfterType ==
    ASSUME NEW S, NEW h \in Index, NEW del \in Index
    PROVE  EmptyAfter(S, h, del) \in Index
<1> DEFINE first == IndexNext(del)
           stops == {i \in Index : ~IsValid(S, i) \/ (i = h /\ i # first)}
<1>1. first \in Index /\ stops \in SUBSET Index
  BY IndexSteps, Zenon
<1>2. stops # {} => FirstFrom(first, stops) \in stops
  BY <1>1, FirstFromIsFirst, Zenon
<1>3. QED
  BY <1>1, <1>2, Zenon DEF EmptyAfter

LEMMA RunStartType ==
    ASSUME NEW S, NEW h \in Index, NEW end \in Index
    PROVE  RunStart(S, h, end) \in Index
<1> DEFINE last  == IndexPrev(h)
           stops == {i \in Index : ~IsValid(S, i) \/ (i = end /\ i # last)}
<1>1. last \in Index /\ stops \in SUBSET Index
  BY IndexSteps, Zenon
<1>2. stops # {} => FirstBack(last, stops) \in stops
  BY <1>1, FirstBackIsFirst, Zenon
<1>3. (IF stops = {} THEN end ELSE FirstBack(last, stops)) \in Index
  BY <1>1, <1>2, Zenon
<1>4. QED
  BY <1>3, IndexSteps, Zenon DEF RunStart

LEMMA MoveSourceType ==
    ASSUME NEW S, NEW a, NEW del, NEW end \in Index, Movable(S, a, del, end) # {}
    PROVE  MoveSource(S, a, del, end) \in Index
<1>1. Movable(S, a, del, end) \in SUBSET Index
  BY Zenon DEF Movable
<1>2. QED
  BY <1>1, FirstBackIsFirst, Zenon DEF MoveSource

LEMMA ScanFromType == ScanFrom \in Index
<1> DEFINE E == {i \in Index : ~IsValid(slots, i)} \cup {0}
<1>1. E \in SUBSET Index /\ E # {}
  BY ZeroIsIndex, Zenon
<1>2. QED
  BY <1>1, ZeroIsIndex, FirstBackIsFirst, Zenon DEF ScanFrom

LEMMA SlotType ==
    /\ EmptySlot \in Slot
    /\ EmptySlot.key = NoKey
    /\ EmptySlot.conn = NoConn
    /\ \A s \in Slot : /\ s.hash \in Index
                       /\ s.key \in Keys \cup {NoKey}
                       /\ s.conn \in Conns \cup {NoConn}
                       /\ s.key = NoKey <=> s.conn = NoConn
    /\ \A c \in Conns, k \in Keys : [key |-> k, conn |-> c, hash |-> Hash[k]] \in Slot
BY RowConstants, ZeroIsIndex DEF Slot, EmptySlot

(* What Locate returns: SearchStops for a row. *)
LEMMA LocateStops ==
    ASSUME TypeOK, NEW k \in Keys
    PROVE  /\ Locate(k).rc \in {"OK", "LOCKED", "NOMEM"}
           /\ Locate(k).rc = "NOMEM" => \A i \in Index : IsValid(slots, i)
           /\ Locate(k).rc # "NOMEM" =>
                 /\ Locate(k).idx \in Index
                 /\ \A j \in Index : Steps(Hash[k], j) < Steps(Hash[k], Locate(k).idx)
                                        => IsValid(slots, j) /\ slots[j].key # k
           /\ Locate(k).rc = "OK" => ~IsValid(slots, Locate(k).idx)
           /\ Locate(k).rc = "LOCKED" => slots[Locate(k).idx].key = k
<1> DEFINE T == {i \in Index : slots[i].key = k}
<1>1. Hash[k] \in Index /\ T \in SUBSET Index /\ \A i \in T : IsValid(slots, i)
  BY RowConstants, Zenon DEF IsValid
<1>2. Locate(k) = Search(slots, Hash[k], T)
  BY Zenon DEF Locate
<1> DEFINE r == Locate(k)
<1> HIDE DEF r
<1>3. /\ r.rc \in {"OK", "LOCKED", "NOMEM"}
      /\ r.rc = "NOMEM" => T = {} /\ \A i \in Index : IsValid(slots, i)
      /\ r.rc # "NOMEM" =>
            /\ r.idx \in Index
            /\ \A j \in Index : Steps(Hash[k], j) < Steps(Hash[k], r.idx)
                                   => IsValid(slots, j) /\ j \notin T
      /\ r.rc = "OK" => ~IsValid(slots, r.idx)
      /\ r.rc = "LOCKED" => IsValid(slots, r.idx) /\ r.idx \in T
  BY <1>1, <1>2, SearchStops DEF r
<1>4. QED
  BY <1>3, Zenon DEF r

------------------------------------------------------------------------------
(* Type correctness *)

LEMMA DeleteType ==
    ASSUME TypeOK, NEW start \in Index, NEW del \in Index, NEW end \in Index,
           IpcDelete(start, del, end)
    PROVE  /\ slots' \in [Index -> Slot]
           /\ step' \in {"shift", "dec"}
           /\ hole' \in [start : Index, del : Index, end : Index]
<1> DEFINE a == RunStart(slots, start, end)
<1>1. a \in Index
  BY RunStartType, Zenon
<1> HIDE DEF a
<1>2. CASE Movable(slots, a, del, end) = {} /\ ElemClear(del)
  BY <1>2, SlotType, ZeroIsIndex, Zenon DEF TypeOK, ElemClear, NoHole
<1>3. CASE /\ Movable(slots, a, del, end) # {}
           /\ ElemCopy(a, del, end, MoveSource(slots, a, del, end))
  <2>1. MoveSource(slots, a, del, end) \in Index
    BY <1>3, MoveSourceType, Zenon
  <2>2. QED
    BY <1>1, <1>3, <2>1, Zenon DEF TypeOK, ElemCopy
<1>4. QED
  BY <1>2, <1>3, Zenon DEF IpcDelete, a

LEMMA UnlockType ==
    ASSUME TypeOK, NEW k \in Keys, Unlock(k)
    PROVE  /\ slots' \in [Index -> Slot]
           /\ step' \in {"shift", "dec"}
           /\ hole' \in [start : Index, del : Index, end : Index]
<1> DEFINE found == Locate(k)
           end   == IndexPrev(EmptyAfter(slots, Hash[k], found.idx))
<1>1. found.rc = "LOCKED" /\ IpcDelete(Hash[k], found.idx, end)
  BY Zenon DEF Unlock
<1>2. Hash[k] \in Index /\ found.idx \in Index
  BY <1>1, LocateStops, RowConstants, Zenon
<1>3. end \in Index
  BY <1>2, EmptyAfterType, IndexSteps, Zenon
<1>4. QED
  BY <1>1, <1>2, <1>3, DeleteType, Zenon

LEMMA LeaveType ==
    ASSUME Leave
    PROVE  /\ mutex' = NoConn
           /\ step' = "idle"
           /\ hole' \in [start : Index, del : Index, end : Index]
           /\ scan' \in [who : SUBSET Conns, idx : Index, start : Index]
BY ZeroIsIndex, Zenon DEF Leave, NoHole, NoScan

LEMMA TypeStep == TypeOK /\ [Next]_vars => TypeOK'
<1> SUFFICES ASSUME TypeOK, [Next]_vars
             PROVE  TypeOK'
  BY Zenon
<1>1. ASSUME NEW c \in Conns, NEW k \in Keys, LockRecord(c, k)
      PROVE  TypeOK'
  <2>1. Locate(k).rc = "OK"
    BY <1>1, LocateStops, Zenon DEF LockRecord, LockResult
  <2>2. Locate(k).idx \in Index
    BY <2>1, LocateStops, Zenon
  <2>3. QED
    BY <1>1, <2>2, SlotType, Zenon DEF TypeOK, LockRecord, Enter
<1>2. ASSUME NEW c \in Conns, NEW k \in Keys, UnlockRecord(c, k)
      PROVE  TypeOK'
  BY <1>2, UnlockType, Zenon DEF TypeOK, UnlockRecord, Enter
<1>3. ASSUME NEW a \in Conns \cup {Cleaner}, NEW who \in SUBSET Conns, UnlockRecordProc(a, who)
      PROVE  TypeOK'
  BY <1>3, ScanFromType, Zenon DEF TypeOK, UnlockRecordProc, Enter
<1>4. CASE LockCount
  BY <1>4, LeaveType DEF TypeOK, LockCount
<1>5. CASE DeleteShift
  <2>1. hole.start \in Index /\ hole.del \in Index /\ hole.end \in Index
    BY Zenon DEF TypeOK
  <2>2. QED
    BY <1>5, <2>1, DeleteType, Zenon DEF TypeOK, DeleteShift
<1>6. CASE UnlockCount
  BY <1>6, LeaveType DEF TypeOK, UnlockCount
<1>7. CASE ScanUnlock
  <2>1. slots[scan.idx] \in Slot /\ slots[scan.idx].conn \in Conns
    BY <1>7, Zenon DEF TypeOK, ScanUnlock
  <2>2. slots[scan.idx].key \in Keys
    BY <2>1, SlotType, RowConstants, Zenon
  <2>3. QED
    BY <1>7, <2>2, UnlockType, Zenon DEF TypeOK, ScanUnlock
<1>8. CASE ScanPrev
  <2>1. IndexPrev(scan.idx) \in Index
    BY IndexSteps, Zenon DEF TypeOK
  <2>2. QED
    BY <1>8, <2>1, LeaveType, Zenon DEF TypeOK, ScanPrev
<1>9. ASSUME NEW c \in Conns, Crash(PidOf[c])
      PROVE  TypeOK'
  BY <1>9, LeaveType, Zenon DEF TypeOK, Crash, ConnsOf
<1>10. CASE UNCHANGED vars
  BY <1>10, Zenon DEF TypeOK, vars
<1>11. QED
  BY <1>1, <1>2, <1>3, <1>4, <1>5, <1>6, <1>7, <1>8, <1>9, <1>10, Zenon
     DEF Next, Operation, Inside, ConnsOf

(* The shared area, the mutex and the locals of an operation keep their    *)
(* types whatever the operations and wherever a process dies: no index     *)
(* that rowlock_ipc.c or rowlock_ipc_row.c computes leaves the area.       *)
THEOREM TypeCorrect == Spec => []TypeOK
<1>1. Init => TypeOK
  BY SlotType, ZeroIsIndex DEF Init, TypeOK, NoHole, NoScan
<1>2. QED
  BY <1>1, TypeStep, PTL DEF Spec

------------------------------------------------------------------------------
(* The inductive invariant *)

(* The hash stored with an element is the hash of its row. *)
WellHashed == \A i \in Index : IsValid(slots, i) => slots[i].hash = Hash[slots[i].key]

(* count is never too small for the elements in the area, the element that *)
(* is being added or removed taken into account: this is what keeps one    *)
(* slot empty.                                                             *)
Room ==
    /\ step = "inc" => Used <= count + 1
    /\ step = "dec" => Used + 1 <= count
    /\ step \notin {"inc", "dec"} => Used <= count

(* The mutex is held exactly while an operation is under way. *)
MutexHeld == mutex = NoConn <=> step = "idle"

(* Between two levels of rowlockIpcDelete the hole lies in a whole run. *)
HoleInRun ==
    step = "shift" =>
        /\ WholeRun(slots, hole.start, hole.end)
        /\ Steps(hole.start, hole.del) <= Steps(hole.start, hole.end)

(* What the memory satisfies between any two writes. *)
AreaInv == Probing /\ OneHolder /\ WellHashed /\ OneEmpty

IInv == TypeOK /\ AreaInv /\ Room /\ MutexHeld /\ HoleInRun

(* Used counts a finite set. *)
Occ == {i \in Index : IsValid(slots, i)}

LEMMA OccFinite ==
    /\ IsFiniteSet(Index)
    /\ Cardinality(Index) = nElement
    /\ IsFiniteSet(Occ)
    /\ Used = Cardinality(Occ)
    /\ Used \in Nat
<1>1. IsFiniteSet(Index) /\ Cardinality(Index) = nElement
  BY FS_Interval, ElementCount DEF Index
<1>2. IsFiniteSet(Occ)
  BY <1>1, FS_Subset, Zenon DEF Occ
<1>3. QED
  BY <1>1, <1>2, FS_CardinalityType, Zenon DEF Used, Occ

(* Probing in terms of the table in memory. *)
LEMMA ProbingIsReachable ==
    /\ Probing <=> Reachable(slots)
    /\ Probing' <=> Reachable(slots')
BY Zenon DEF Probing, Reachable

LEMMA AreaIsTable == ASSUME TypeOK PROVE IsTable(slots)
BY SlotType, Zenon DEF TypeOK, IsTable

(* One level of rowlockIpcDelete in an area that satisfies AreaInv. *)
LEMMA DeleteStep ==
    ASSUME TypeOK, AreaInv, NEW start \in Index, NEW del \in Index, NEW end \in Index,
           Occupied(slots, start, end),
           Steps(start, del) <= Steps(start, end),
           ~IsValid(slots, IndexNext(end)),
           IpcDelete(start, del, end)
    PROVE  /\ AreaInv'
           /\ \/ step' = "dec" /\ Used' + 1 = Used
              \/ /\ step' = "shift"
                 /\ Used' = Used
                 /\ WholeRun(slots', hole'.start, hole'.end)
                 /\ Steps(hole'.start, hole'.del) <= Steps(hole'.start, hole'.end)
<1> DEFINE a == RunStart(slots, start, end)
<1>1. WholeRun(slots, a, end) /\ Steps(a, del) <= Steps(a, end)
  BY RunStartStartsRun, Zenon
<1>2. a \in Index
  BY RunStartType, Zenon
<1>3. slots \in [Index -> Slot] /\ Reachable(slots) /\ IsTable(slots)
  BY ProbingIsReachable, AreaIsTable, Zenon DEF AreaInv, TypeOK
<1>4. IsValid(slots, del)
  BY Zenon DEF Occupied
<1>5. IndexNext(end) \in Index /\ IndexNext(end) # del
  BY <1>4, IndexSteps, Zenon
<1>6. \/ Movable(slots, a, del, end) = {} /\ ElemClear(del)
      \/ /\ Movable(slots, a, del, end) # {}
         /\ ElemCopy(a, del, end, MoveSource(slots, a, del, end))
  BY Zenon DEF IpcDelete
<1> HIDE DEF a
<1>7. CASE Movable(slots, a, del, end) = {} /\ ElemClear(del)
  <2>1. slots' = [slots EXCEPT ![del] = EmptySlot] /\ step' = "dec"
    BY <1>7, Zenon DEF ElemClear
  <2>2. /\ ~IsValid(slots', del)
        /\ \A i \in Index : i # del => slots'[i] = slots[i]
    BY <2>1, <1>3, SlotType, Zenon DEF IsValid
  <2>3. Probing'
    BY <1>1, <1>2, <1>3, <1>7, <2>1, SlotType, ClearKeepsReachable, ProbingIsReachable, Zenon
  <2>4. OneHolder' /\ WellHashed'
    BY <2>2 DEF AreaInv, OneHolder, WellHashed, IsValid
  <2>5. OneEmpty'
    BY <2>2, Zenon DEF OneEmpty
  <2>6. Occ' = Occ \ {del} /\ del \in Occ
    BY <1>4, <2>2, Zenon DEF Occ, IsValid
  <2>7. Used' = Cardinality(Occ')
    BY Zenon DEF Used, Occ
  <2>8. Cardinality(Occ \ {del}) = Cardinality(Occ) - 1
    BY <2>6, OccFinite, FS_RemoveElement, Zenon
  <2>9. Used' + 1 = Used
    BY <2>6, <2>7, <2>8, OccFinite
  <2>10. QED
    BY <2>1, <2>3, <2>4, <2>5, <2>9, Zenon DEF AreaInv
<1>8. CASE /\ Movable(slots, a, del, end) # {}
           /\ ElemCopy(a, del, end, MoveSource(slots, a, del, end))
  <2> DEFINE src == MoveSource(slots, a, del, end)
  <2>1. /\ slots' = [slots EXCEPT ![del] = slots[src]]
        /\ step' = "shift"
        /\ hole' = [start |-> a, del |-> src, end |-> end]
    BY <1>8, Zenon DEF ElemCopy
  <2>2. /\ src \in Index
        /\ src # del
        /\ Steps(a, src) <= Steps(a, end)
        /\ \A i \in Index : IsValid(slots', i) <=> IsValid(slots, i)
        /\ Reachable(slots')
        /\ WholeRun(slots', a, end)
    BY <1>1, <1>3, <1>8, <2>1, CopyKeepsReachable, Zenon
  <2> HIDE DEF src
  <2>3. /\ slots'[del] = slots[src]
        /\ \A i \in Index : i # del => slots'[i] = slots[i]
    BY <2>1, <1>3, Zenon
  <2>4. OneHolder' /\ WellHashed'
    BY <2>2, <2>3 DEF AreaInv, OneHolder, WellHashed, IsValid
  <2>5. OneEmpty'
    BY <1>5, <2>2, Zenon DEF OneEmpty
  <2>6. Occ' = Occ
    BY <2>2, Zenon DEF Occ
  <2>7. Used' = Used
    BY <2>6, Zenon DEF Used, Occ
  <2>8. QED
    BY <2>1, <2>2, <2>4, <2>5, <2>7, ProbingIsReachable, Zenon DEF AreaInv
<1>9. QED
  BY <1>6, <1>7, <1>8, Zenon

(* The first level, called for a row that is in the table. *)
LEMMA UnlockStep ==
    ASSUME TypeOK, AreaInv, NEW k \in Keys, Unlock(k)
    PROVE  /\ AreaInv'
           /\ \/ step' = "dec" /\ Used' + 1 = Used
              \/ /\ step' = "shift"
                 /\ Used' = Used
                 /\ WholeRun(slots', hole'.start, hole'.end)
                 /\ Steps(hole'.start, hole'.del) <= Steps(hole'.start, hole'.end)
<1> DEFINE h   == Hash[k]
           del == Locate(k).idx
           e   == EmptyAfter(slots, h, del)
           end == IndexPrev(e)
<1>1. Locate(k).rc = "LOCKED" /\ IpcDelete(h, del, end)
  BY Zenon DEF Unlock
<1>3. h \in Index /\ del \in Index /\ slots[del].key = k
  BY <1>1, LocateStops, RowConstants, Zenon
<1>4. IsValid(slots, del) /\ slots[del].hash = h
  BY <1>3, RowConstants, Zenon DEF IsValid, AreaInv, WellHashed
<1>5. Occupied(slots, h, del)
  BY <1>3, <1>4, Zenon DEF AreaInv, Probing, Occupied
<1>6. \E i \in Index : ~IsValid(slots, i)
  BY Zenon DEF AreaInv, OneEmpty
<1> HIDE DEF h, del
<1>7. /\ e \in Index
      /\ ~IsValid(slots, e)
      /\ Occupied(slots, h, end)
      /\ Steps(h, del) <= Steps(h, end)
  BY <1>3, <1>5, <1>6, EmptyAfterEndsRun, Zenon
<1>8. end \in Index /\ IndexNext(end) = e
  <2> HIDE DEF e
  <2>1. end \in Index /\ end = IF e = 0 THEN nElement - 1 ELSE e - 1
    BY <1>7, IndexSteps, Zenon
  <2>2. IndexNext(end) = IF end = nElement - 1 THEN 0 ELSE end + 1
    BY <2>1, IndexSteps, Zenon
  <2>3. QED
    BY <1>7, <2>1, <2>2, ElementCount DEF Index
<1> HIDE DEF e, end
<1>9. QED
  BY <1>1, <1>3, <1>7, <1>8, DeleteStep, Zenon

(* A step that leaves the memory and the locals of rowlockIpcDelete. *)
LEMMA AreaUnchanged ==
    ASSUME AreaInv, slots' = slots
    PROVE  AreaInv' /\ Used' = Used
BY Zenon DEF AreaInv, Probing, OneHolder, WellHashed, OneEmpty, Used

(* A probe that ends at an empty slot has met no element of the row because *)
(* there is none.                                                          *)
LEMMA RowAbsent ==
    ASSUME TypeOK, AreaInv, NEW k \in Keys, Locate(k).rc = "OK"
    PROVE  \A i \in Index : slots[i].key # k
<1> DEFINE h   == Hash[k]
           idx == Locate(k).idx
<1>1. /\ h \in Index
      /\ idx \in Index
      /\ ~IsValid(slots, idx)
      /\ \A j \in Index : Steps(h, j) < Steps(h, idx) => slots[j].key # k
  BY LocateStops, RowConstants, Zenon
<1> HIDE DEF idx
<1> SUFFICES ASSUME NEW i \in Index, slots[i].key = k
             PROVE  FALSE
  BY Zenon
<1>2. IsValid(slots, i) /\ slots[i].hash = h
  BY RowConstants, Zenon DEF IsValid, AreaInv, WellHashed
<1>3. ~ (Steps(h, idx) <= Steps(h, i))
  BY <1>1, <1>2, Zenon DEF AreaInv, Probing
<1> HIDE DEF h
<1>4. Steps(h, i) < Steps(h, idx)
  BY <1>1, <1>3, StepsType
<1>5. QED
  BY <1>1, <1>4, Zenon

(* LockRecord adds its element where the probe stopped. *)
LEMMA LockStep ==
    ASSUME IInv, NEW c \in Conns, NEW k \in Keys, LockRecord(c, k)
    PROVE  AreaInv' /\ Used' <= count + 1
<1> DEFINE h   == Hash[k]
           idx == Locate(k).idx
           x   == [key |-> k, conn |-> c, hash |-> h]
<1>1. TypeOK /\ AreaInv /\ step = "idle" /\ Used <= count
  BY Zenon DEF IInv, LockRecord, Enter, MutexHeld, Room
<1>2. Locate(k).rc = "OK" /\ ~ (count >= nElement - 1)
  BY <1>1, LocateStops, Zenon DEF LockRecord, LockResult
<1>3. /\ h \in Index
      /\ idx \in Index
      /\ ~IsValid(slots, idx)
      /\ \A j \in Index : Steps(h, j) < Steps(h, idx) => IsValid(slots, j) /\ slots[j].key # k
  BY <1>1, <1>2, LocateStops, RowConstants, Zenon
<1>4. slots' = [slots EXCEPT ![idx] = x]
  BY Zenon DEF LockRecord
<1>5. slots \in [Index -> Slot] /\ Reachable(slots) /\ IsTable(slots)
  BY <1>1, ProbingIsReachable, AreaIsTable, Zenon DEF AreaInv, TypeOK
<1>6. x.key = k /\ x.conn = c /\ x.hash = h /\ k # NoKey
  BY RowConstants, Zenon
<1>7. slots'[idx] = x /\ \A i \in Index : i # idx => slots'[i] = slots[i]
  BY <1>3, <1>4, <1>5, Zenon
<1> HIDE DEF h, idx, x
<1>8. Probing'
  BY <1>3, <1>4, <1>5, <1>6, SetKeepsReachable, ProbingIsReachable, Zenon
<1>9. \A i \in Index : slots[i].key # k
  BY <1>1, <1>2, RowAbsent, Zenon
<1>10. OneHolder' /\ WellHashed'
  BY <1>1, <1>6, <1>7, <1>9 DEF AreaInv, OneHolder, WellHashed, IsValid, h
<1>11. Occ' = Occ \cup {idx} /\ idx \notin Occ /\ idx \in Index
  BY <1>3, <1>6, <1>7, Zenon DEF Occ, IsValid
<1>12. Used' = Cardinality(Occ') /\ Cardinality(Occ') = Used + 1 /\ IsFiniteSet(Occ')
  <2>1. Cardinality(Occ \cup {idx}) = Cardinality(Occ) + 1 /\ IsFiniteSet(Occ \cup {idx})
    BY <1>11, OccFinite, FS_AddElement, Zenon
  <2>2. QED
    BY <2>1, <1>11, OccFinite, Zenon DEF Used, Occ
<1>13. Used' <= count + 1 /\ Used' <= nElement - 1
  BY <1>1, <1>2, <1>12, OccFinite, ElementCount DEF TypeOK
<1>14. OneEmpty'
  <2> SUFFICES ASSUME \A i \in Index : IsValid(slots', i)
               PROVE  FALSE
    BY Zenon DEF OneEmpty
  <2>1. Occ' = Index
    BY Zenon DEF Occ
  <2>2. QED
    BY <2>1, <1>12, <1>13, OccFinite, ElementCount
<1>15. QED
  BY <1>8, <1>10, <1>13, <1>14, Zenon DEF AreaInv

(* No process dies between ValueSet and count++ of LockRecord. *)
CountKeptUp == "inc" \notin CrashSteps

LEMMA InvStep ==
    ASSUME CountKeptUp, IInv, [Next]_vars
    PROVE  IInv'
<1>1. TypeOK'
  BY TypeStep, Zenon DEF IInv
<1>2. ASSUME NEW c \in Conns, NEW k \in Keys, LockRecord(c, k)
      PROVE  IInv'
  <2>1. AreaInv' /\ Used' <= count + 1
    BY <1>2, LockStep, Zenon
  <2>2. step' = "inc" /\ count' = count /\ mutex' = c
    BY <1>2, Zenon DEF LockRecord, Enter
  <2>3. QED
    BY <1>1, <2>1, <2>2, RowConstants, Zenon DEF IInv, Room, MutexHeld, HoleInRun
<1>3. ASSUME NEW k \in Keys, Unlock(k), Used <= count, count' = count, mutex' # NoConn
      PROVE  IInv'
  <2>1. /\ AreaInv'
        /\ \/ step' = "dec" /\ Used' + 1 = Used
           \/ /\ step' = "shift"
              /\ Used' = Used
              /\ WholeRun(slots', hole'.start, hole'.end)
              /\ Steps(hole'.start, hole'.del) <= Steps(hole'.start, hole'.end)
    BY <1>3, UnlockStep, Zenon DEF IInv
  <2>2. QED
    BY <1>1, <1>3, <2>1, Zenon DEF IInv, Room, MutexHeld, HoleInRun
<1>4. ASSUME NEW c \in Conns, NEW k \in Keys, UnlockRecord(c, k)
      PROVE  IInv'
  <2>1. Unlock(k) /\ count' = count /\ mutex' = c /\ step = "idle"
    BY <1>4, Zenon DEF UnlockRecord, Enter, IInv, MutexHeld
  <2>2. Used <= count
    BY <2>1, Zenon DEF IInv, Room
  <2>3. QED
    BY <1>3, <2>1, <2>2, RowConstants, Zenon
<1>5. ASSUME NEW a \in Conns \cup {Cleaner}, NEW who, UnlockRecordProc(a, who)
      PROVE  IInv'
  <2>1. /\ slots' = slots
        /\ count' = count
        /\ step = "idle"
        /\ step' = "scan"
        /\ mutex' # NoConn
    BY <1>5, RowConstants, Zenon DEF UnlockRecordProc, Enter, IInv, MutexHeld
  <2>2. AreaInv' /\ Used' = Used
    BY <2>1, AreaUnchanged, Zenon DEF IInv
  <2>3. QED
    BY <1>1, <2>1, <2>2, Zenon DEF IInv, Room, MutexHeld, HoleInRun
<1>6. CASE LockCount
  <2>1. /\ slots' = slots
        /\ count' = count + 1
        /\ step = "inc"
        /\ step' = "idle"
        /\ mutex' = NoConn
    BY <1>6, Zenon DEF LockCount, Leave
  <2>2. AreaInv' /\ Used' = Used
    BY <2>1, AreaUnchanged, Zenon DEF IInv
  <2>3. QED
    BY <1>1, <2>1, <2>2, Zenon DEF IInv, Room, MutexHeld, HoleInRun
<1>7. CASE DeleteShift
  <2>1. /\ step = "shift"
        /\ IpcDelete(hole.start, hole.del, hole.end)
        /\ count' = count
        /\ mutex' = mutex
    BY <1>7, Zenon DEF DeleteShift
  <2>2. /\ TypeOK
        /\ AreaInv
        /\ WholeRun(slots, hole.start, hole.end)
        /\ Steps(hole.start, hole.del) <= Steps(hole.start, hole.end)
        /\ Used <= count
        /\ mutex # NoConn
    BY <2>1, Zenon DEF IInv, HoleInRun, Room, MutexHeld
  <2>3. hole.start \in Index /\ hole.del \in Index /\ hole.end \in Index
    BY <2>2, Zenon DEF TypeOK
  <2>4. /\ AreaInv'
        /\ \/ step' = "dec" /\ Used' + 1 = Used
           \/ /\ step' = "shift"
              /\ Used' = Used
              /\ WholeRun(slots', hole'.start, hole'.end)
              /\ Steps(hole'.start, hole'.del) <= Steps(hole'.start, hole'.end)
    BY <2>1, <2>2, <2>3, DeleteStep, Zenon DEF WholeRun
  <2>5. QED
    BY <1>1, <2>1, <2>2, <2>4, Zenon DEF IInv, Room, MutexHeld, HoleInRun
<1>8. CASE UnlockCount
  <2>1. /\ slots' = slots
        /\ count' = count - 1
        /\ step = "dec"
        /\ \/ step' = "idle" /\ mutex' = NoConn
           \/ step' = "scan" /\ mutex' = mutex
    BY <1>8, Zenon DEF UnlockCount, Leave
  <2>2. AreaInv' /\ Used' = Used
    BY <2>1, AreaUnchanged, Zenon DEF IInv
  <2>3. Used <= count - 1 /\ mutex # NoConn
    BY <2>1, OccFinite DEF IInv, Room, MutexHeld, TypeOK
  <2>4. QED
    BY <1>1, <2>1, <2>2, <2>3, Zenon DEF IInv, Room, MutexHeld, HoleInRun
<1>9. CASE ScanUnlock
  <2>1. /\ step = "scan"
        /\ slots[scan.idx].conn \in scan.who
        /\ Unlock(slots[scan.idx].key)
        /\ count' = count
        /\ mutex' = mutex
    BY <1>9, Zenon DEF ScanUnlock
  <2>2. slots[scan.idx] \in Slot /\ slots[scan.idx].conn \in Conns
    BY <2>1, Zenon DEF IInv, TypeOK
  <2>3. slots[scan.idx].key \in Keys
    BY <2>2, SlotType, RowConstants, Zenon
  <2>4. Used <= count /\ mutex # NoConn
    BY <2>1, Zenon DEF IInv, Room, MutexHeld
  <2>5. QED
    BY <1>3, <2>1, <2>3, <2>4, Zenon
<1>10. CASE ScanPrev
  <2>1. /\ slots' = slots
        /\ count' = count
        /\ step = "scan"
        /\ \/ step' = "idle" /\ mutex' = NoConn
           \/ step' = "scan" /\ mutex' = mutex
    BY <1>10, Zenon DEF ScanPrev, Leave
  <2>2. AreaInv' /\ Used' = Used
    BY <2>1, AreaUnchanged, Zenon DEF IInv
  <2>3. QED
    BY <1>1, <2>1, <2>2, Zenon DEF IInv, Room, MutexHeld, HoleInRun
<1>11. ASSUME NEW p, Crash(p)
       PROVE  IInv'
  <2>1. slots' = slots /\ count' = count
    BY <1>11, Zenon DEF Crash
  <2>2. AreaInv' /\ Used' = Used
    BY <2>1, AreaUnchanged, Zenon DEF IInv
  <2>3. CASE step \in CrashSteps /\ Leave
    <3>1. step # "inc" /\ step' = "idle" /\ mutex' = NoConn
      BY <2>3, Zenon DEF CountKeptUp, Leave
    <3>2. Used <= count
      BY <3>1, OccFinite DEF IInv, Room, TypeOK
    <3>3. QED
      BY <1>1, <2>1, <2>2, <3>1, <3>2, Zenon DEF IInv, Room, MutexHeld, HoleInRun
  <2>4. CASE UNCHANGED <<mutex, step, hole, scan>>
    BY <1>1, <2>1, <2>2, <2>4, Zenon DEF IInv, Room, MutexHeld, HoleInRun
  <2>5. QED
    BY <1>11, <2>3, <2>4, Zenon DEF Crash
<1>12. CASE UNCHANGED vars
  <2>1. AreaInv' /\ Used' = Used
    BY <1>12, AreaUnchanged, Zenon DEF IInv, vars
  <2>2. QED
    BY <1>1, <1>12, <2>1, Zenon DEF IInv, Room, MutexHeld, HoleInRun, vars
<1>13. QED
  BY <1>2, <1>4, <1>5, <1>6, <1>7, <1>8, <1>9, <1>10, <1>11, <1>12, Zenon
     DEF Next, Operation, Inside

LEMMA InvInit == Init => IInv
<1> SUFFICES ASSUME Init
             PROVE  IInv
  BY Zenon
<1>1. TypeOK
  BY SlotType, ZeroIsIndex DEF Init, TypeOK, NoHole, NoScan
<1>2. \A i \in Index : ~IsValid(slots, i)
  BY SlotType, Zenon DEF Init, IsValid
<1>3. AreaInv
  BY <1>2, ZeroIsIndex, Zenon DEF AreaInv, Probing, OneHolder, WellHashed, OneEmpty
<1>4. Used = 0
  <2>1. Occ = {}
    BY <1>2, Zenon DEF Occ
  <2>2. QED
    BY <2>1, OccFinite, FS_EmptySet, Zenon
<1>5. QED
  BY <1>1, <1>3, <1>4 DEF IInv, Init, Room, MutexHeld, HoleInRun

LEMMA Invariance == CountKeptUp => (Spec => []IInv)
<1> SUFFICES ASSUME CountKeptUp
             PROVE  Spec => []IInv
  BY Zenon
<1>1. IInv /\ [Next]_vars => IInv'
  BY InvStep, Zenon
<1>2. QED
  BY <1>1, InvInit, PTL DEF Spec

------------------------------------------------------------------------------
(* The safety properties *)

(* No row is ever locked by two connections, although operations of other  *)
(* connections moved its element, and although processes died inside the   *)
(* mutex, as long as none died between ValueSet and count++.               *)
THEOREM OneHolderHolds == CountKeptUp => (Spec => []OneHolder)
<1>1. IInv => OneHolder
  BY Zenon DEF IInv, AreaInv
<1>2. QED
  BY <1>1, Invariance, PTL

(* Under the same assumption rowlockIpcSearch always finds an element that *)
(* is in the table: no deletion cuts its probe path.                       *)
THEOREM ProbingHolds == CountKeptUp => (Spec => []Probing)
<1>1. IInv => Probing
  BY Zenon DEF IInv, AreaInv
<1>2. QED
  BY <1>1, Invariance, PTL

(* Under the same assumption the area never fills up completely, which is  *)
(* what ends the probing loops.                                            *)
THEOREM OneEmptyHolds == CountKeptUp => (Spec => []OneEmpty)
<1>1. IInv => OneEmpty
  BY Zenon DEF IInv, AreaInv
<1>2. QED
  BY <1>1, Invariance, PTL

(* The holder of a row as LockRecord and LockRecordQuery find it. *)
LEMMA HolderLocated ==
    ASSUME IInv, NEW k \in Keys
    PROVE  /\ Locate(k).rc \in {"OK", "LOCKED"}
           /\ Locate(k).rc = "OK" => Holder(k) = NoConn
           /\ Locate(k).rc = "LOCKED" =>
                 Holder(k) = slots[Locate(k).idx].conn /\ Holder(k) \in Conns
<1>1. TypeOK /\ AreaInv
  BY Zenon DEF IInv
<1>2. Locate(k).rc \in {"OK", "LOCKED"}
  BY <1>1, LocateStops, Zenon DEF AreaInv, OneEmpty
<1>3. ASSUME Locate(k).rc = "OK"
      PROVE  Holder(k) = NoConn
  BY <1>1, <1>3, RowAbsent, Zenon DEF Holder
<1>4. ASSUME Locate(k).rc = "LOCKED"
      PROVE  Holder(k) = slots[Locate(k).idx].conn /\ Holder(k) \in Conns
  <2> DEFINE idx == Locate(k).idx
             any == CHOOSE i \in Index : slots[i].key = k
  <2>1. idx \in Index /\ slots[idx].key = k
    BY <1>1, <1>4, LocateStops, Zenon
  <2> HIDE DEF idx
  <2>2. any \in Index /\ slots[any].key = k /\ Holder(k) = slots[any].conn
    BY <2>1, Zenon DEF Holder
  <2> HIDE DEF any
  <2>3. IsValid(slots, any)
    BY <2>2, RowConstants, Zenon DEF IsValid
  <2>4. slots[any].conn = slots[idx].conn
    BY <1>1, <2>1, <2>2, <2>3, Zenon DEF AreaInv, OneHolder
  <2>5. slots[any] \in Slot
    BY <1>1, <2>2, Zenon DEF TypeOK
  <2>6. slots[any].conn \in Conns
    BY <2>2, <2>5, SlotType, RowConstants, Zenon
  <2>7. QED
    BY <2>2, <2>4, <2>6, Zenon DEF idx
<1>5. QED
  BY <1>2, <1>3, <1>4, Zenon

(* Under the same assumption LockRecord and LockRecordQuery answer for the *)
(* holder of the row, to every connection.                                 *)
THEOREM AnswersHold == CountKeptUp => (Spec => []AnswersAreExact)
<1>1. IInv => AnswersAreExact
  <2> SUFFICES ASSUME IInv, NEW c \in Conns, NEW k \in Keys
               PROVE  /\ Holder(k) = c <=> LockResult(c, k) = "DONE"
                      /\ Holder(k) \notin {c, NoConn} <=> LockResult(c, k) = "LOCKED"
                      /\ LockRecordQuery(c, k) = "LOCKED" <=> LockResult(c, k) = "LOCKED"
    BY Zenon DEF AnswersAreExact
  <2>1. c # NoConn
    BY RowConstants, Zenon
  <2>2. CASE Locate(k).rc = "OK"
    <3>1. Holder(k) = NoConn
      BY <2>2, HolderLocated, Zenon
    <3>2. LockResult(c, k) \in {"OK", "NOMEM"}
      BY <2>2, Zenon DEF LockResult
    <3>3. LockRecordQuery(c, k) = "OK"
      BY <2>2, Zenon DEF LockRecordQuery
    <3>4. QED
      BY <2>1, <3>1, <3>2, <3>3, Zenon
  <2>3. CASE Locate(k).rc = "LOCKED"
    <3>1. Holder(k) = slots[Locate(k).idx].conn /\ Holder(k) \in Conns
      BY <2>3, HolderLocated, Zenon
    <3>2. LockResult(c, k) = IF Holder(k) = c THEN "DONE" ELSE "LOCKED"
      BY <2>3, <3>1, Zenon DEF LockResult
    <3>3. LockRecordQuery(c, k) = IF Holder(k) # c THEN "LOCKED" ELSE "OK"
      BY <2>3, <3>1, Zenon DEF LockRecordQuery
    <3>4. QED
      BY <2>1, <3>1, <3>2, <3>3, RowConstants, Zenon
  <2>4. QED
    BY <2>2, <2>3, HolderLocated, Zenon
<1>2. QED
  BY <1>1, Invariance, PTL

------------------------------------------------------------------------------
(* The table implements the abstract row locks *)

(* Holder and OneHolder for the contents S of the area. *)
HolderIn(S, k) ==
    IF \E i \in Index : S[i].key = k
    THEN S[CHOOSE i \in Index : S[i].key = k].conn
    ELSE NoConn

OneHolderIn(S) ==
    \A i, j \in Index : IsValid(S, i) /\ S[i].key = S[j].key => S[i].conn = S[j].conn

LEMMA HolderInFacts ==
    ASSUME NEW S, OneHolderIn(S), NEW k \in Keys
    PROVE  /\ \A i \in Index : S[i].key = k => HolderIn(S, k) = S[i].conn
           /\ (\A i \in Index : S[i].key # k) => HolderIn(S, k) = NoConn
<1> DEFINE any == CHOOSE i \in Index : S[i].key = k
<1>1. ASSUME NEW i \in Index, S[i].key = k
      PROVE  HolderIn(S, k) = S[i].conn
  <2>1. any \in Index /\ S[any].key = k /\ HolderIn(S, k) = S[any].conn
    BY <1>1, Zenon DEF HolderIn
  <2> HIDE DEF any
  <2>2. QED
    BY <1>1, <2>1, RowConstants, Zenon DEF OneHolderIn, IsValid
<1>2. QED
  BY <1>1, Zenon DEF HolderIn

(* Overwriting one element with another one, or with an empty one, leaves  *)
(* every other row its holder.                                             *)
LEMMA OverwriteHolder ==
    ASSUME NEW S, NEW S2, OneHolderIn(S), OneHolderIn(S2),
           NEW del \in Index,
           \A i \in Index : i # del => S2[i] = S[i],
           \/ S2[del].key = NoKey
           \/ \E src \in Index : src # del /\ S2[del] = S[src]
    PROVE  /\ \A k \in Keys : k # S[del].key => HolderIn(S2, k) = HolderIn(S, k)
           /\ S[del].key \in Keys =>
                 HolderIn(S2, S[del].key) \in {HolderIn(S, S[del].key), NoConn}
<1>1. ASSUME NEW k \in Keys, k # S[del].key
      PROVE  HolderIn(S2, k) = HolderIn(S, k)
  <2>1. CASE \E i \in Index : S[i].key = k
    <3>1. PICK i \in Index : S[i].key = k
      BY <2>1, Zenon
    <3>2. i # del /\ S2[i] = S[i]
      BY <1>1, <3>1, Zenon
    <3>3. QED
      BY <3>1, <3>2, HolderInFacts
  <2>2. CASE \A i \in Index : S[i].key # k
    <3>1. \A i \in Index : S2[i].key # k
      BY <2>2, RowConstants, Zenon
    <3>2. QED
      BY <2>2, <3>1, HolderInFacts
  <2>3. QED
    BY <2>1, <2>2, Zenon
<1>2. ASSUME S[del].key \in Keys
      PROVE  HolderIn(S2, S[del].key) \in {HolderIn(S, S[del].key), NoConn}
  <2> DEFINE k == S[del].key
  <2>1. CASE \A i \in Index : S2[i].key # k
    BY <1>2, <2>1, HolderInFacts, Zenon
  <2>2. CASE \E i \in Index : S2[i].key = k
    <3>1. PICK i \in Index : S2[i].key = k
      BY <2>2, Zenon
    <3>2. \E j \in Index : S2[i] = S[j]
      BY <1>2, <3>1, RowConstants, Zenon
    <3>3. PICK j \in Index : S2[i] = S[j]
      BY <3>2, Zenon
    <3>4. HolderIn(S2, k) = S2[i].conn /\ HolderIn(S, k) = S[j].conn
      BY <1>2, <3>1, <3>3, HolderInFacts
    <3>5. QED
      BY <3>3, <3>4, Zenon
  <2>3. QED
    BY <2>1, <2>2, Zenon
<1>3. QED
  BY <1>1, <1>2, Zenon

(* One level of rowlockIpcDelete releases the row of the hole, or nothing. *)
LEMMA DeleteRefines ==
    ASSUME TypeOK, OneHolder, OneHolder', NEW start \in Index, NEW del \in Index,
           NEW end \in Index, IsValid(slots, del), IpcDelete(start, del, end)
    PROVE  \/ \A k \in Keys : Holder(k)' = Holder(k)
           \/ \E k \in Keys : Abstract!Release(k)
<1> DEFINE a == RunStart(slots, start, end)
<1>1. \/ slots' = [slots EXCEPT ![del] = EmptySlot]
      \/ \E src \in Index : slots' = [slots EXCEPT ![del] = slots[src]]
  BY MoveSourceType, Zenon DEF IpcDelete, ElemClear, ElemCopy
<1>2. slots \in [Index -> Slot] /\ slots[del].key \in Keys
  BY SlotType, Zenon DEF TypeOK, IsValid
<1>3. \A i \in Index : i # del => slots'[i] = slots[i]
  BY <1>1, <1>2, Zenon
<1>4. \/ slots'[del].key = NoKey
      \/ \E src \in Index : src # del /\ slots'[del] = slots[src]
      \/ slots' = slots
  BY <1>1, <1>2, SlotType
<1>5. /\ \A k \in Keys : Holder(k) = HolderIn(slots, k)
      /\ \A k \in Keys : Holder(k)' = HolderIn(slots', k)
      /\ OneHolderIn(slots)
      /\ OneHolderIn(slots')
  BY Zenon DEF Holder, HolderIn, OneHolder, OneHolderIn
<1>6. CASE slots' = slots
  BY <1>5, <1>6, Zenon
<1>7. CASE slots' # slots
  <2>0. PICK kd \in Keys : kd = slots[del].key
    BY <1>2, Zenon
  <2>1. /\ \A k \in Keys : k # kd => Holder(k)' = Holder(k)
        /\ Holder(kd)' \in {Holder(kd), NoConn}
    <3>1. /\ \A k \in Keys : k # kd => HolderIn(slots', k) = HolderIn(slots, k)
          /\ HolderIn(slots', kd) \in {HolderIn(slots, kd), NoConn}
      BY <1>3, <1>4, <1>5, <1>7, <2>0, OverwriteHolder
    <3>2. QED
      BY <1>5, <2>0, <3>1, Zenon
  <2>2. CASE Holder(kd)' = Holder(kd)
    BY <2>1, <2>2, Zenon
  <2>3. CASE Holder(kd)' = NoConn
    <3>1. [k \in Keys |-> Holder(k)'] = [[k \in Keys |-> Holder(k)] EXCEPT ![kd] = NoConn]
      BY <2>0, <2>1, <2>3, Zenon
    <3>2. Abstract!Release(kd)
      BY <3>1, Zenon DEF Abstract!Release
    <3>3. QED
      BY <1>2, <3>2, Zenon
  <2>4. QED
    BY <2>1, <2>2, <2>3, Zenon
<1>8. QED
  BY <1>6, <1>7, Zenon

LEMMA UnlockRefines ==
    ASSUME TypeOK, OneHolder, OneHolder', NEW k \in Keys, Unlock(k)
    PROVE  \/ \A j \in Keys : Holder(j)' = Holder(j)
           \/ \E j \in Keys : Abstract!Release(j)
<1> DEFINE del == Locate(k).idx
           end == IndexPrev(EmptyAfter(slots, Hash[k], del))
<1>1. Locate(k).rc = "LOCKED" /\ IpcDelete(Hash[k], del, end)
  BY Zenon DEF Unlock
<1>2. Hash[k] \in Index /\ del \in Index /\ IsValid(slots, del)
  BY <1>1, LocateStops, RowConstants DEF IsValid
<1>3. end \in Index
  BY <1>2, EmptyAfterType, IndexSteps, Zenon
<1>4. QED
  BY <1>1, <1>2, <1>3, DeleteRefines, Zenon

LEMMA HolderUnchanged ==
    ASSUME slots' = slots
    PROVE  \A k \in Keys : Holder(k)' = Holder(k)
BY Zenon DEF Holder

LEMMA RefineStep ==
    ASSUME IInv, IInv', [Next]_vars
    PROVE  [Abstract!Next]_([k \in Keys |-> Holder(k)])
<1> DEFINE Same == \A k \in Keys : Holder(k)' = Holder(k)
<1>1. TypeOK /\ AreaInv /\ OneHolder /\ OneHolder'
  BY Zenon DEF IInv, AreaInv
<1>2. ASSUME NEW c \in Conns, NEW k \in Keys, LockRecord(c, k)
      PROVE  Abstract!Acquire(c, k)
  <2> DEFINE idx == Locate(k).idx
             x   == [key |-> k, conn |-> c, hash |-> Hash[k]]
  <2>1. Locate(k).rc = "OK" /\ slots' = [slots EXCEPT ![idx] = x]
    BY <1>1, <1>2, LocateStops, Zenon DEF LockRecord, LockResult
  <2>2. idx \in Index /\ ~IsValid(slots, idx) /\ slots \in [Index -> Slot]
    BY <1>1, <2>1, LocateStops, Zenon DEF TypeOK
  <2>3. slots'[idx].key = k /\ slots'[idx].conn = c
    BY <2>1, <2>2, Zenon
  <2>4. PICK d \in Index : d = idx
    BY <2>2, Zenon
  <2>5. \A i \in Index : i # d => slots'[i] = slots[i]
    BY <2>1, <2>2, <2>4, Zenon
  <2>6. /\ \A j \in Keys : Holder(j) = HolderIn(slots, j)
        /\ \A j \in Keys : Holder(j)' = HolderIn(slots', j)
        /\ OneHolderIn(slots)
        /\ OneHolderIn(slots')
    BY <1>1, Zenon DEF Holder, HolderIn, OneHolder, OneHolderIn
  <2>7. slots[d].key = NoKey /\ slots'[d].key = k /\ slots'[d].conn = c
    BY <2>2, <2>3, <2>4, Zenon DEF IsValid
  <2> HIDE DEF idx, x
  <2>8. Holder(k) = NoConn
    BY <2>1, HolderLocated, Zenon
  <2>9. Holder(k)' = c
    BY <2>6, <2>7, HolderInFacts, Zenon
  <2>10. ASSUME NEW j \in Keys, j # k
         PROVE  Holder(j)' = Holder(j)
    <3>1. \A i \in Index : slots'[i].key = j <=> slots[i].key = j
      BY <2>5, <2>7, <2>10, RowConstants, Zenon
    <3>2. \A i \in Index : slots[i].key = j => slots'[i] = slots[i]
      BY <2>5, <2>7, <2>10, RowConstants, Zenon
    <3>3. HolderIn(slots', j) = HolderIn(slots, j)
      BY <2>6, <3>1, <3>2, HolderInFacts
    <3>4. QED
      BY <2>6, <3>3, Zenon
  <2>11. [j \in Keys |-> Holder(j)'] = [[j \in Keys |-> Holder(j)] EXCEPT ![k] = c]
    BY <2>9, <2>10, Zenon
  <2>12. QED
    BY <2>8, <2>11, Zenon DEF Abstract!Acquire
<1>3. ASSUME NEW c \in Conns, NEW k \in Keys, UnlockRecord(c, k)
      PROVE  Same \/ \E j \in Keys : Abstract!Release(j)
  BY <1>1, <1>3, UnlockRefines, Zenon DEF UnlockRecord
<1>4. CASE DeleteShift
  <2>1. hole.start \in Index /\ hole.del \in Index /\ hole.end \in Index
    BY <1>1, Zenon DEF TypeOK
  <2>2. IsValid(slots, hole.del)
    BY <1>4, <2>1, Zenon DEF DeleteShift, IInv, HoleInRun, WholeRun, Occupied
  <2>3. IpcDelete(hole.start, hole.del, hole.end)
    BY <1>4, Zenon DEF DeleteShift
  <2>4. PICK s \in Index, d \in Index, e \in Index :
            s = hole.start /\ d = hole.del /\ e = hole.end
    BY <2>1, Zenon
  <2>5. IpcDelete(s, d, e) /\ IsValid(slots, d)
    BY <2>2, <2>3, <2>4, Zenon
  <2>6. Same \/ \E j \in Keys : Abstract!Release(j)
    BY <1>1, <2>5, DeleteRefines, Zenon
  <2>7. QED
    BY <2>6, Zenon DEF Abstract!Next
<1>5. CASE ScanUnlock
  <2>1. slots[scan.idx] \in Slot /\ slots[scan.idx].conn \in Conns
    BY <1>1, <1>5, Zenon DEF TypeOK, ScanUnlock
  <2>2. PICK k \in Keys : k = slots[scan.idx].key
    BY <2>1, SlotType, RowConstants, Zenon
  <2>3. Unlock(k)
    BY <1>5, <2>2, Zenon DEF ScanUnlock
  <2>4. Same \/ \E j \in Keys : Abstract!Release(j)
    BY <1>1, <2>3, UnlockRefines, Zenon
  <2>5. QED
    BY <2>4, Zenon DEF Abstract!Next
<1>6. CASE slots' = slots
  BY <1>6, HolderUnchanged, Zenon
<1>7. \/ \E c \in Conns, k \in Keys : LockRecord(c, k) \/ UnlockRecord(c, k)
      \/ DeleteShift
      \/ ScanUnlock
      \/ slots' = slots
  BY Zenon DEF Next, Operation, Inside, UnlockRecordProc, LockCount, UnlockCount, ScanPrev,
         Crash, vars
<1>8. QED
  BY <1>2, <1>3, <1>4, <1>5, <1>6, <1>7, Zenon DEF Abstract!Next

(* Under the same assumption the table in shared memory implements the     *)
(* abstract row locks: a lock is granted only while the row is free and    *)
(* changes hands only through being free.                                  *)
THEOREM Refinement == CountKeptUp => (Spec => RefinesRowLocks)
<1> SUFFICES ASSUME CountKeptUp
             PROVE  Spec => RefinesRowLocks
  BY Zenon
<1>1. Init => Abstract!Init
  BY SlotType, RowConstants, Zenon DEF Init, Abstract!Init, Holder
<1>2. IInv /\ IInv' /\ [Next]_vars => [Abstract!Next]_([k \in Keys |-> Holder(k)])
  BY RefineStep, Zenon
<1>3. QED
  BY <1>1, <1>2, Invariance, PTL DEF Spec, RefinesRowLocks, Abstract!Spec
=============================================================================
