------------------------------- MODULE IpcHash -------------------------------
(***************************************************************************)
(* The open-addressing table that rowlock_ipc.c keeps in a memory-mapped   *)
(* file: linear probing over nElement slots, deletion by moving later      *)
(* elements of the run back into the hole.  The row-lock table and the     *)
(* table-lock table are two classes of it.                                 *)
(*                                                                         *)
(* A slot is a record with at least the fields  key  and  hash; a slot     *)
(* whose iTable is 0 is a slot whose key is NoKey.  The operators take the *)
(* slots as an argument and have no state of their own.  The loops of the  *)
(* code are written as the index at which they stop.                       *)
(***************************************************************************)
EXTENDS Integers

CONSTANTS nElement,   \* number of slots of the mapped area
          NoKey       \* the key of an empty slot (iTable = 0)

ASSUME ElementCount == nElement \in Nat \ {0}

Index == 0 .. nElement - 1

IndexNext(i) == (i + 1) % nElement

(* Mutant of IndexPrev: no wrap-around. *)
IndexPrevNoWrap(i) == IF i = 0 THEN 0 ELSE i - 1

IndexPrev(i) == (i + nElement - 1) % nElement

(* xElemIsValid *)
IsValid(slots, i) == slots[i].key # NoKey

(* The number of IndexNext steps that lead from i to j. *)
Steps(i, j) == IF i <= j THEN j - i ELSE j - i + nElement

(* The member of S that IndexNext reaches first from i, i included, and    *)
(* the one that IndexPrev reaches first.                                   *)
FirstFrom(i, S) == CHOOSE j \in S : \A k \in S : Steps(i, j) <= Steps(i, k)
FirstBack(i, S) == CHOOSE j \in S : \A k \in S : Steps(j, i) <= Steps(k, i)

(* rowlockIpcSearch: probe from  hash  until a slot is empty ("OK") or is  *)
(* one of  targets  ("LOCKED"); "NOMEM" when the probe comes round.        *)
Search(slots, hash, targets) ==
    LET stops == {i \in Index : ~IsValid(slots, i) \/ i \in targets}
        idx   == FirstFrom(hash, stops)
    IN  IF stops = {}
        THEN [rc |-> "NOMEM", idx |-> hash]
        ELSE [rc |-> IF IsValid(slots, idx) THEN "LOCKED" ELSE "OK", idx |-> idx]

(* The search of UnlockRecord and UnlockTableCore for the empty slot that  *)
(* ends the run holding  del; it gives up when it comes round to  hash.    *)
EmptyAfter(slots, hash, del) ==
    LET first == IndexNext(del)
        stops == {i \in Index : ~IsValid(slots, i) \/ (i = hash /\ i # first)}
    IN  IF stops = {} THEN hash ELSE FirstFrom(first, stops)

(* The first slot of the run, as rowlockIpcDelete looks for it: backwards  *)
(* from idxStart to an empty slot, or to idxEnd when there is none.        *)
RunStart(slots, idxStart, idxEnd) ==
    LET last  == IndexPrev(idxStart)
        stops == {i \in Index : ~IsValid(slots, i) \/ (i = idxEnd /\ i # last)}
    IN  IndexNext(IF stops = {} THEN idxEnd ELSE FirstBack(last, stops))

(* isTargetPattern1and2, isTargetPattern3 and the choice between them: may *)
(* an element with hash value  hash  move back into  idxDel ?              *)
PatternApplies12(idxStart, idxDel, idxEnd) ==
    \/ idxStart <= idxDel /\ idxDel <= idxEnd
    \/ idxEnd <= idxStart /\ idxStart <= idxDel

(* Mutant of IsTargetPattern: pattern 3, a run that wraps, is forgotten. *)
IsTargetNoWrap(idxStart, idxDel, idxEnd, hash) ==
    idxStart <= hash /\ hash <= idxDel

IsTargetPattern(idxStart, idxDel, idxEnd, hash) ==
    IF PatternApplies12(idxStart, idxDel, idxEnd)
    THEN idxStart <= hash /\ hash <= idxDel
    ELSE hash <= idxDel \/ idxStart <= hash

(* The elements of the searching range (idxDel, idxEnd] that may move.     *)
Movable(slots, idxStart, idxDel, idxEnd) ==
    {i \in Index : /\ i # idxDel
                   /\ Steps(idxDel, i) <= Steps(idxDel, idxEnd)
                   /\ IsTargetPattern(idxStart, idxDel, idxEnd, slots[i].hash)}

(* The one the loop of rowlockIpcDelete meets first, coming from idxEnd.   *)
MoveSource(slots, idxStart, idxDel, idxEnd) ==
    FirstBack(idxEnd, Movable(slots, idxStart, idxDel, idxEnd))
=============================================================================
