----------------------------- MODULE IpcHashProof -----------------------------
(***************************************************************************)
(* What the loops of rowlock_ipc.c return, for a table of any size: where  *)
(* a probe stops, where a run starts and ends, which elements may move     *)
(* back, and that a move or a clearing leaves every element reachable.     *)
(***************************************************************************)
EXTENDS IpcHash, TLAPS, WellFoundedInduction

(* A table whose elements carry hash values in the index range. *)
IsTable(S) == \A i \in Index : S[i].hash \in Index

(* Every element is reached by probing from the slot its hash names. *)
Reachable(S) ==
    \A i, j \in Index :
        /\ IsValid(S, i)
        /\ Steps(S[i].hash, j) <= Steps(S[i].hash, i)
        => IsValid(S, j)

(* The slots from a on to b are all occupied. *)
Occupied(S, a, b) ==
    \A j \in Index : Steps(a, j) <= Steps(a, b) => IsValid(S, j)

(* a .. b is a whole run: occupied, with an empty slot on both sides. *)
WholeRun(S, a, b) ==
    /\ a \in Index
    /\ b \in Index
    /\ Occupied(S, a, b)
    /\ ~IsValid(S, IndexPrev(a))
    /\ ~IsValid(S, IndexNext(b))

------------------------------------------------------------------------------

(* A nonempty set of naturals has a least member. *)
LEMMA Least ==
    ASSUME NEW S \in SUBSET Nat, S # {}
    PROVE  \E m \in S : \A n \in S : m <= n
<1>1. PICK R : IsWellFoundedOn(R, Nat) /\ \A x, y \in Nat : <<x, y>> \in R <=> x < y
  <2>1. IsWellFoundedOn(OpToRel(<, Nat), Nat)
    BY NatLessThanWellFounded, Zenon
  <2>2. \A x, y \in Nat : <<x, y>> \in OpToRel(<, Nat) <=> x < y
    BY Zenon DEF OpToRel
  <2>3. QED
    BY <2>1, <2>2, Zenon
<1>2. PICK x \in S : \A y \in S : ~ (<<y, x>> \in R)
  <2>1. S \subseteq Nat
    BY Zenon
  <2>2. IsWellFoundedOn(R, Nat)
    BY <1>1, Zenon
  <2>3. QED
    BY <2>1, <2>2, WFMin, Zenon
<1>3. \A y \in S : ~ (y < x)
  BY <1>1, <1>2, Zenon
<1>4. QED
  BY <1>2, <1>3

(* The two index steps without the modulus. *)
LEMMA IndexSteps ==
    ASSUME NEW i \in Index
    PROVE  /\ IndexNext(i) = IF i = nElement - 1 THEN 0 ELSE i + 1
           /\ IndexPrev(i) = IF i = 0 THEN nElement - 1 ELSE i - 1
           /\ IndexNext(i) \in Index
           /\ IndexPrev(i) \in Index
BY ElementCount DEF Index, IndexNext, IndexPrev

LEMMA StepsType ==
    ASSUME NEW i \in Index, NEW j \in Index
    PROVE  Steps(i, j) \in Nat /\ Steps(i, j) < nElement
BY ElementCount DEF Index, Steps

(* FirstFrom and FirstBack find a member of S, and no member is nearer. *)
LEMMA FirstFromIsFirst ==
    ASSUME NEW i \in Index, NEW S \in SUBSET Index, S # {}
    PROVE  /\ FirstFrom(i, S) \in S
           /\ \A k \in S : Steps(i, FirstFrom(i, S)) <= Steps(i, k)
<1> DEFINE D == {Steps(i, k) : k \in S}
<1>1. D \in SUBSET Nat /\ D # {}
  <2>1. \A k \in S : Steps(i, k) \in Nat
    BY StepsType, Zenon
  <2>2. QED
    BY <2>1, Zenon
<1>2. \E m \in D : \A n \in D : m <= n
  BY <1>1, Least, Zenon
<1>3. \E j \in S : \A k \in S : Steps(i, j) <= Steps(i, k)
  BY <1>2, Zenon
<1>4. QED
  BY <1>3, Zenon DEF FirstFrom

LEMMA FirstBackIsFirst ==
    ASSUME NEW i \in Index, NEW S \in SUBSET Index, S # {}
    PROVE  /\ FirstBack(i, S) \in S
           /\ \A k \in S : Steps(FirstBack(i, S), i) <= Steps(k, i)
<1> DEFINE D == {Steps(k, i) : k \in S}
<1>1. D \in SUBSET Nat /\ D # {}
  <2>1. \A k \in S : Steps(k, i) \in Nat
    BY StepsType, Zenon
  <2>2. QED
    BY <2>1, Zenon
<1>2. \E m \in D : \A n \in D : m <= n
  BY <1>1, Least, Zenon
<1>3. \E j \in S : \A k \in S : Steps(j, i) <= Steps(k, i)
  BY <1>2, Zenon
<1>4. QED
  BY <1>3, Zenon DEF FirstBack

------------------------------------------------------------------------------

(* rowlockIpcSearch stops at the first slot that is empty or a target. *)
LEMMA SearchStops ==
    ASSUME NEW S, NEW h \in Index, NEW T \in SUBSET Index,
           \A i \in T : IsValid(S, i),
           NEW r, r = Search(S, h, T)
    PROVE  /\ r.rc \in {"OK", "LOCKED", "NOMEM"}
           /\ r.rc = "NOMEM" => T = {} /\ \A i \in Index : IsValid(S, i)
           /\ r.rc # "NOMEM" =>
                 /\ r.idx \in Index
                 /\ \A j \in Index : Steps(h, j) < Steps(h, r.idx)
                                        => IsValid(S, j) /\ j \notin T
           /\ r.rc = "OK" => ~IsValid(S, r.idx)
           /\ r.rc = "LOCKED" => IsValid(S, r.idx) /\ r.idx \in T
<1> DEFINE stops == {i \in Index : ~IsValid(S, i) \/ i \in T}
           idx   == FirstFrom(h, stops)
<1>1. r = IF stops = {} THEN [rc |-> "NOMEM", idx |-> h]
          ELSE [rc |-> IF IsValid(S, idx) THEN "LOCKED" ELSE "OK", idx |-> idx]
  BY Zenon DEF Search
<1>2. CASE stops = {}
  BY <1>1, <1>2
<1>3. CASE stops # {}
  <2>1. idx \in stops /\ \A k \in stops : Steps(h, idx) <= Steps(h, k)
    BY <1>3, FirstFromIsFirst, Zenon
  <2>2. \A j \in Index : Steps(h, j) < Steps(h, idx) => j \notin stops
    BY <2>1, StepsType
  <2>3. r.idx = idx /\ r.rc = IF IsValid(S, idx) THEN "LOCKED" ELSE "OK"
    BY <1>1, <1>3
  <2> HIDE DEF idx
  <2>4. QED
    BY <2>1, <2>2, <2>3, Zenon
<1>4. QED
  BY <1>2, <1>3, Zenon

(* The run that holds del ends before the first empty slot after it. *)
LEMMA EmptyAfterEndsRun ==
    ASSUME NEW S, NEW h \in Index, NEW del \in Index,
           Occupied(S, h, del),
           \E i \in Index : ~IsValid(S, i),
           NEW e, e = EmptyAfter(S, h, del)
    PROVE  /\ e \in Index
           /\ ~IsValid(S, e)
           /\ Occupied(S, h, IndexPrev(e))
           /\ Steps(h, del) <= Steps(h, IndexPrev(e))
<1> DEFINE first == IndexNext(del)
           stops == {i \in Index : ~IsValid(S, i) \/ (i = h /\ i # first)}
<1>1. stops # {} /\ stops \in SUBSET Index /\ first \in Index
  BY IndexSteps, Zenon
<1>2. e = FirstFrom(first, stops)
  BY <1>1, Zenon DEF EmptyAfter
<1>3. e \in stops /\ \A k \in stops : Steps(first, e) <= Steps(first, k)
  BY <1>1, <1>2, FirstFromIsFirst, Zenon
<1>4. \A j \in Index : Steps(first, j) < Steps(first, e) => IsValid(S, j)
  <2> SUFFICES ASSUME NEW j \in Index, Steps(first, j) < Steps(first, e), ~IsValid(S, j)
               PROVE  FALSE
    BY Zenon
  <2>1. Steps(first, e) <= Steps(first, j)
    BY <1>3, Zenon
  <2>2. QED
    BY <2>1, <1>1, <1>3, StepsType
<1> HIDE DEF stops
<1>5. first = IF del = nElement - 1 THEN 0 ELSE del + 1
  BY IndexSteps, Zenon
<1>6. ~IsValid(S, e)
  <2> SUFFICES ASSUME IsValid(S, e)
               PROVE  FALSE
    BY Zenon
  <2>1. e = h /\ h # first
    BY <1>3, Zenon DEF stops
  <2>2. PICK i \in Index : ~IsValid(S, i)
    BY Zenon
  <2>3. ~ (Steps(h, i) <= Steps(h, del))
    BY <2>2, Zenon DEF Occupied
  <2>4. ~ (Steps(first, i) < Steps(first, h))
    BY <2>1, <2>2, <1>4, Zenon
  <2>5. QED
    BY <2>1, <2>3, <2>4, <1>5, ElementCount DEF Index, Steps
<1>7. e \in Index /\ IndexPrev(e) = IF e = 0 THEN nElement - 1 ELSE e - 1
  BY <1>1, <1>3, IndexSteps, Zenon
<1>8. ~ (Steps(h, e) <= Steps(h, del))
  BY <1>6, <1>7, Zenon DEF Occupied
<1>9. Steps(h, del) <= Steps(h, IndexPrev(e))
  BY <1>7, <1>8, ElementCount DEF Index, Steps
<1>10. Occupied(S, h, IndexPrev(e))
  <2> SUFFICES ASSUME NEW j \in Index, Steps(h, j) <= Steps(h, IndexPrev(e))
               PROVE  IsValid(S, j)
    BY Zenon DEF Occupied
  <2>1. Steps(h, j) <= Steps(h, del) \/ Steps(first, j) < Steps(first, e)
    BY <1>5, <1>7, <1>8, ElementCount DEF Index, Steps
  <2>2. QED
    BY <2>1, <1>4, Zenon DEF Occupied
<1>11. QED
  BY <1>6, <1>7, <1>9, <1>10, Zenon

(* rowlockIpcDelete finds the first slot of the run. *)
LEMMA RunStartStartsRun ==
    ASSUME NEW S, NEW h \in Index, NEW end \in Index, NEW del \in Index,
           Occupied(S, h, end),
           Steps(h, del) <= Steps(h, end),
           ~IsValid(S, IndexNext(end)),
           NEW a, a = RunStart(S, h, end)
    PROVE  /\ WholeRun(S, a, end)
           /\ Steps(a, del) <= Steps(a, end)
<1> DEFINE last  == IndexPrev(h)
           stops == {i \in Index : ~IsValid(S, i) \/ (i = end /\ i # last)}
           b     == FirstBack(last, stops)
<1>1. IndexNext(end) \in stops /\ stops \in SUBSET Index /\ last \in Index
  BY IndexSteps, Zenon
<1>2. a = IndexNext(b)
  BY <1>1, Zenon DEF RunStart
<1>3. b \in stops /\ \A k \in stops : Steps(b, last) <= Steps(k, last)
  BY <1>1, FirstBackIsFirst, Zenon
<1>4. Steps(b, last) <= Steps(IndexNext(end), last)
  BY <1>1, <1>3, Zenon
<1> DEFINE past == IndexNext(end)
<1>5. /\ last = IF h = 0 THEN nElement - 1 ELSE h - 1
      /\ past = IF end = nElement - 1 THEN 0 ELSE end + 1
      /\ past \in Index
  BY IndexSteps, Zenon
<1>6. ~ (Steps(h, past) <= Steps(h, end))
  BY <1>5, Zenon DEF Occupied
<1>7. \A j \in Index : Steps(j, last) < Steps(b, last) => IsValid(S, j)
  <2> SUFFICES ASSUME NEW j \in Index, Steps(j, last) < Steps(b, last), ~IsValid(S, j)
               PROVE  FALSE
    BY Zenon
  <2>1. Steps(b, last) <= Steps(j, last)
    BY <1>3, Zenon
  <2>2. QED
    BY <2>1, <1>1, <1>3, StepsType
<1>8. b \in Index
  BY <1>3, Zenon
<1>9. b # end
  BY <1>4, <1>5, <1>6, <1>8, ElementCount DEF Index, Steps
<1>10. ~IsValid(S, b)
  BY <1>3, <1>9, Zenon
<1> HIDE DEF b, stops, last, past
<1>11. /\ a = IF b = nElement - 1 THEN 0 ELSE b + 1
       /\ a \in Index
       /\ IndexPrev(a) = b
  <2>1. a = (IF b = nElement - 1 THEN 0 ELSE b + 1) /\ a \in Index
    BY <1>2, <1>8, IndexSteps, Zenon
  <2>2. IndexPrev(a) = IF a = 0 THEN nElement - 1 ELSE a - 1
    BY <2>1, IndexSteps, Zenon
  <2>3. QED
    BY <2>1, <2>2, <1>8, ElementCount DEF Index
<1>12. ~ (Steps(h, b) <= Steps(h, end))
  BY <1>8, <1>10, Zenon DEF Occupied
<1>13. Occupied(S, a, end)
  <2> SUFFICES ASSUME NEW j \in Index, Steps(a, j) <= Steps(a, end)
               PROVE  IsValid(S, j)
    BY Zenon DEF Occupied
  <2>1. Steps(h, j) <= Steps(h, end) \/ Steps(j, last) < Steps(b, last)
    BY <1>4, <1>5, <1>6, <1>8, <1>11, <1>12, ElementCount DEF Index, Steps, past
  <2>2. QED
    BY <2>1, <1>7, Zenon DEF Occupied
<1>14. Steps(a, del) <= Steps(a, end)
  BY <1>5, <1>8, <1>11, <1>12, ElementCount DEF Index, Steps
<1>15. QED
  BY <1>10, <1>11, <1>13, <1>14, Zenon DEF WholeRun

(* Distances on the ring: what comes before what, seen from a.             *)
LEMMA BehindInRun ==
    ASSUME NEW a \in Index, NEW b \in Index, NEW d \in Index, NEW s \in Index, s # d,
           Steps(a, d) <= Steps(a, b), Steps(d, s) <= Steps(d, b)
    PROVE  Steps(a, s) <= Steps(a, b) /\ Steps(a, d) < Steps(a, s)
  BY ElementCount DEF Index, Steps

LEMMA BetweenInRun ==
    ASSUME NEW a \in Index, NEW b \in Index, NEW d \in Index, NEW h \in Index, NEW j \in Index,
           Steps(a, d) <= Steps(a, b), Steps(a, h) <= Steps(a, d), Steps(h, j) <= Steps(h, d)
    PROVE  Steps(a, j) <= Steps(a, b)
  BY ElementCount DEF Index, Steps

LEMMA BeforeInRun ==
    ASSUME NEW a \in Index, NEW b \in Index, NEW d \in Index, NEW h \in Index, NEW i \in Index,
           i # d, Steps(h, d) <= Steps(h, i), Steps(a, i) <= Steps(a, b), Steps(a, h) <= Steps(a, i)
    PROVE  Steps(d, i) <= Steps(d, b) /\ Steps(a, h) <= Steps(a, d)
  BY ElementCount DEF Index, Steps

LEMMA NotBehind ==
    ASSUME NEW h \in Index, NEW i \in Index, NEW j \in Index, Steps(h, j) <= Steps(h, i)
    PROVE  j = i \/ Steps(h, j) < Steps(h, i)
  BY ElementCount DEF Index, Steps

(* isTargetPattern accepts the elements whose hash lies in the run up to   *)
(* the hole, however the run wraps round the end of the area.              *)
LEMMA PatternMeansBefore ==
    ASSUME NEW a \in Index, NEW b \in Index, NEW del \in Index, NEW h \in Index,
           Steps(a, del) <= Steps(a, b),
           Steps(a, h) <= Steps(a, b)
    PROVE  IsTargetPattern(a, del, b, h) <=> Steps(a, h) <= Steps(a, del)
BY ElementCount DEF Index, Steps, IsTargetPattern, PatternApplies12

(* Probing from the hash of an element never leaves the element's run. *)
LEMMA HashInRun ==
    ASSUME NEW S, Reachable(S), IsTable(S),
           NEW a, NEW b, WholeRun(S, a, b),
           NEW i \in Index, IsValid(S, i), Steps(a, i) <= Steps(a, b)
    PROVE  /\ Steps(a, S[i].hash) <= Steps(a, b)
           /\ Steps(a, S[i].hash) <= Steps(a, i)
<1> DEFINE h == S[i].hash
           p == IndexPrev(a)
<1>1. h \in Index /\ a \in Index /\ b \in Index
  BY Zenon DEF IsTable, WholeRun
<1>2. p \in Index /\ p = IF a = 0 THEN nElement - 1 ELSE a - 1
  BY <1>1, IndexSteps, Zenon
<1>3. ~ (Steps(h, p) <= Steps(h, i))
  BY <1>2, Zenon DEF Reachable, WholeRun
<1> HIDE DEF h, p
<1>4. Steps(a, h) <= Steps(a, i) /\ Steps(a, h) <= Steps(a, b)
  BY <1>1, <1>2, <1>3, ElementCount DEF Index, Steps
<1>5. QED
  BY <1>4, Zenon DEF h

------------------------------------------------------------------------------

(* ValueSet on the empty slot where the probe from the new element's hash  *)
(* stopped leaves every element reachable.                                 *)
LEMMA SetKeepsReachable ==
    ASSUME NEW R, NEW S \in [Index -> R], Reachable(S), IsTable(S),
           NEW x, x.key # NoKey, x.hash \in Index,
           NEW idx \in Index,
           \A j \in Index : Steps(x.hash, j) < Steps(x.hash, idx) => IsValid(S, j)
    PROVE  Reachable([S EXCEPT ![idx] = x])
<1> DEFINE S2 == [S EXCEPT ![idx] = x]
<1>1. S2[idx] = x /\ \A i \in Index : i # idx => S2[i] = S[i]
  BY Zenon
<1>2. IsValid(S2, idx) /\ \A i \in Index : IsValid(S, i) => IsValid(S2, i)
  BY <1>1, Zenon DEF IsValid
<1> SUFFICES ASSUME NEW i \in Index, NEW j \in Index, IsValid(S2, i),
                    Steps(S2[i].hash, j) <= Steps(S2[i].hash, i)
             PROVE  IsValid(S2, j)
  BY Zenon DEF Reachable
<1> HIDE DEF S2
<1>3. CASE i = idx
  <2>1. j = idx \/ Steps(x.hash, j) < Steps(x.hash, idx)
    BY <1>1, <1>3, NotBehind, Zenon
  <2>2. QED
    BY <2>1, <1>2, Zenon
<1>4. CASE i # idx
  <2>1. IsValid(S, i) /\ S2[i] = S[i]
    BY <1>1, <1>4, Zenon DEF IsValid
  <2>2. QED
    BY <2>1, <1>2, Zenon DEF Reachable
<1>5. QED
  BY <1>3, <1>4, Zenon

(* Clearing the hole when nothing behind it may move into it leaves every  *)
(* element reachable.                                                      *)
LEMMA ClearKeepsReachable ==
    ASSUME NEW R, NEW S \in [Index -> R], Reachable(S), IsTable(S),
           NEW a, NEW b, WholeRun(S, a, b),
           NEW del \in Index, Steps(a, del) <= Steps(a, b),
           Movable(S, a, del, b) = {},
           NEW x, x.key = NoKey
    PROVE  Reachable([S EXCEPT ![del] = x])
<1> DEFINE S2 == [S EXCEPT ![del] = x]
<1>1. S2[del] = x /\ \A i \in Index : i # del => S2[i] = S[i]
  BY Zenon
<1> SUFFICES ASSUME NEW i \in Index, NEW j \in Index, IsValid(S2, i),
                    Steps(S2[i].hash, j) <= Steps(S2[i].hash, i), ~IsValid(S2, j)
             PROVE  FALSE
  BY Zenon DEF Reachable
<1> HIDE DEF S2
<1>2. i # del /\ S2[i] = S[i] /\ IsValid(S, i)
  BY <1>1, Zenon DEF IsValid
<1>3. j = del
  BY <1>1, <1>2, Zenon DEF Reachable, IsValid
<1> DEFINE h == S[i].hash
           q == IndexNext(b)
<1>4. a \in Index /\ b \in Index /\ h \in Index
  BY Zenon DEF WholeRun, IsTable
<1>5. q \in Index /\ q = (IF b = nElement - 1 THEN 0 ELSE b + 1) /\ ~IsValid(S, q)
  BY <1>4, IndexSteps, Zenon DEF WholeRun
<1>6. Steps(h, del) <= Steps(h, i)
  BY <1>2, <1>3, Zenon
<1>7. ~ (Steps(h, q) <= Steps(h, i))
  BY <1>2, <1>5, Zenon DEF Reachable
<1> HIDE DEF q
<1>8. Steps(a, i) <= Steps(a, b)
  <2> HIDE DEF h
  <2>1. QED
    BY <1>4, <1>5, <1>6, <1>7, ElementCount DEF Index, Steps
<1>9. Steps(a, h) <= Steps(a, b) /\ Steps(a, h) <= Steps(a, i)
  BY <1>2, <1>8, HashInRun, Zenon
<1>10. i \notin Movable(S, a, del, b)
  BY Zenon
<1>11. ~ (Steps(del, i) <= Steps(del, b)) \/ ~ (Steps(a, h) <= Steps(a, del))
  BY <1>2, <1>4, <1>9, <1>10, PatternMeansBefore, Zenon DEF Movable
<1> HIDE DEF h
<1>12. QED
  BY <1>2, <1>4, <1>6, <1>8, <1>9, <1>11, BeforeInRun, Zenon

(* Copying the movable element over the hole leaves every element          *)
(* reachable; the next hole, the element's old slot, is in the same run,   *)
(* behind the first one.                                                   *)
LEMMA CopyKeepsReachable ==
    ASSUME NEW R, NEW S \in [Index -> R], Reachable(S), IsTable(S),
           NEW a, NEW b, WholeRun(S, a, b),
           NEW del \in Index, Steps(a, del) <= Steps(a, b),
           Movable(S, a, del, b) # {},
           NEW src, src = MoveSource(S, a, del, b)
    PROVE  /\ src \in Index
           /\ src # del
           /\ Steps(a, src) <= Steps(a, b)
           /\ IsValid(S, src)
           /\ \A i \in Index : IsValid([S EXCEPT ![del] = S[src]], i) <=> IsValid(S, i)
           /\ Reachable([S EXCEPT ![del] = S[src]])
           /\ WholeRun([S EXCEPT ![del] = S[src]], a, b)
<1> DEFINE S2 == [S EXCEPT ![del] = S[src]]
<1>1. a \in Index /\ b \in Index /\ IndexPrev(a) \in Index /\ IndexNext(b) \in Index
  BY IndexSteps, Zenon DEF WholeRun
<1>2. src \in Movable(S, a, del, b)
  <2>1. Movable(S, a, del, b) \in SUBSET Index
    BY Zenon DEF Movable
  <2>2. QED
    BY <2>1, <1>1, FirstBackIsFirst, Zenon DEF MoveSource
<1>3. /\ src \in Index
      /\ src # del
      /\ Steps(del, src) <= Steps(del, b)
      /\ IsTargetPattern(a, del, b, S[src].hash)
  BY <1>2, Zenon DEF Movable
<1>4. Steps(a, src) <= Steps(a, b) /\ Steps(a, del) < Steps(a, src)
  <2>1. a \in Index /\ b \in Index
    BY <1>1, Zenon
  <2>2. src \in Index /\ src # del /\ Steps(del, src) <= Steps(del, b)
    BY <1>3, Zenon
  <2>3. QED
    BY <2>1, <2>2, BehindInRun, Zenon
<1>5. IsValid(S, src) /\ IsValid(S, del)
  BY <1>3, <1>4, Zenon DEF WholeRun, Occupied
<1>6. S2[del] = S[src] /\ \A i \in Index : i # del => S2[i] = S[i]
  BY Zenon
<1>7. \A i \in Index : IsValid(S2, i) <=> IsValid(S, i)
  BY <1>5, <1>6, Zenon DEF IsValid
<1> HIDE DEF S2
<1> DEFINE h == S[src].hash
<1>8. h \in Index /\ Steps(a, h) <= Steps(a, b) /\ Steps(a, h) <= Steps(a, del)
  BY <1>1, <1>3, <1>4, <1>5, HashInRun, PatternMeansBefore, Zenon DEF IsTable
<1>9. Reachable(S2)
  <2> SUFFICES ASSUME NEW i \in Index, NEW j \in Index, IsValid(S2, i),
                      Steps(S2[i].hash, j) <= Steps(S2[i].hash, i)
               PROVE  IsValid(S, j)
    BY <1>7, Zenon DEF Reachable
  <2>1. CASE i = del
    <3>1. Steps(h, j) <= Steps(h, del)
      BY <2>1, <1>6, Zenon
    <3> HIDE DEF h
    <3>2. Steps(a, j) <= Steps(a, b)
      BY <3>1, <1>1, <1>8, BetweenInRun, Zenon
    <3>3. QED
      BY <3>2, Zenon DEF WholeRun, Occupied
  <2>2. CASE i # del
    BY <2>2, <1>6, <1>7, Zenon DEF Reachable
  <2>3. QED
    BY <2>1, <2>2, Zenon
<1>10. WholeRun(S2, a, b)
  BY <1>1, <1>7, Zenon DEF WholeRun, Occupied
<1>11. QED
  BY <1>3, <1>4, <1>5, <1>7, <1>9, <1>10, Zenon DEF S2

=============================================================================
