----------------------------- MODULE RowidsProof -----------------------------
(***************************************************************************)
(* Theorems about Rowids, for any number of tables, connections and        *)
(* elements of the cache: its elements stay compact and different, the     *)
(* element of a table survives while the table is locked, and an automatic *)
(* rowid is new unless the cached rowid is behind or another COMMIT may    *)
(* come between.                                                           *)
(*                                                                         *)
(* The reset at the end of a transaction is a loop from the last element   *)
(* to the first.  What it computes is found by an induction that takes the *)
(* first step at which the claim would fail.                               *)
(***************************************************************************)
EXTENDS Rowids, TLAPS, WellFoundedInduction

(* A nonempty set of naturals has a least member. *)
LEMMA Smallest ==
    ASSUME NEW S \in SUBSET Nat, S # {}
    PROVE  \E m \in S : \A n \in S : m <= n
<1>1. PICK R : IsWellFoundedOn(R, Nat) /\ \A x, y \in Nat : <<x, y>> \in R <=> x < y
  <2>1. IsWellFoundedOn(OpToRel(<, Nat), Nat)
    BY NatLessThanWellFounded, Zenon
  <2>2. \A x, y \in Nat : <<x, y>> \in OpToRel(<, Nat) <=> x < y
    BY Zenon DEF OpToRel
  <2> QED
    BY <2>1, <2>2, Zenon
<1>2. PICK x \in S : \A y \in S : ~ (<<y, x>> \in R)
  <2>1. S \subseteq Nat
    BY Zenon
  <2>2. IsWellFoundedOn(R, Nat)
    BY <1>1, Zenon
  <2> QED
    BY <2>1, <2>2, WFMin, Zenon
<1>3. \A y \in S : ~ (y < x)
    BY <1>1, <1>2, Zenon
<1> QED
    BY <1>2, <1>3

(* Induction from 0 to n over a set of numbers. *)
LEMMA UpTo ==
    ASSUME NEW n \in Nat, NEW S, 0 \in S, \A k \in 0 .. n - 1 : k \in S => k + 1 \in S
    PROVE  0 .. n \subseteq S
<1> SUFFICES ASSUME (0 .. n) \ S # {} PROVE FALSE
    BY Zenon
<1>1. PICK m \in (0 .. n) \ S : \A k \in (0 .. n) \ S : m <= k
  <2>1. (0 .. n) \ S \in SUBSET Nat
    OBVIOUS
  <2> QED
    BY <2>1, Smallest, Zenon
<1>2. m # 0 /\ m - 1 \in 0 .. n - 1
    BY <1>1
<1>3. m - 1 \in S
    BY <1>1, <1>2
<1> QED
    BY <1>1, <1>2, <1>3

(* Min returns the least member. *)
LEMMA MinIn ==
    ASSUME NEW S \in SUBSET Nat, S # {}
    PROVE  Min(S) \in S /\ \A y \in S : Min(S) <= y
<1>1. PICK m \in S : \A y \in S : m <= y
    BY Smallest, Zenon
<1> QED
    BY <1>1, Zenon DEF Min

(* The finite sets of rowids, as sets with a bound. *)
RowSet == {S \in SUBSET Nat : \E b \in Nat : \A x \in S : x <= b}

LEMMA RowSets ==
    /\ {} \in RowSet
    /\ \A S, T \in RowSet : S \cup T \in RowSet
    /\ \A S \in RowSet : \A v \in Nat : S \cup {v} \in RowSet
<1>1. {} \in RowSet
    BY Zenon DEF RowSet
<1>2. ASSUME NEW S \in RowSet, NEW T \in RowSet PROVE S \cup T \in RowSet
  <2>1. PICK a \in Nat : \A x \in S : x <= a
    BY Zenon DEF RowSet
  <2>2. PICK b \in Nat : \A x \in T : x <= b
    BY Zenon DEF RowSet
  <2>3. a + b \in Nat /\ S \cup T \in SUBSET Nat
    BY DEF RowSet
  <2>4. \A x \in S \cup T : x <= a + b
    BY <2>1, <2>2, <2>3
  <2> QED
    BY <2>3, <2>4, Zenon DEF RowSet
<1>3. ASSUME NEW v \in Nat PROVE {v} \in RowSet
    BY DEF RowSet
<1> QED
    BY <1>1, <1>2, <1>3, Zenon

(* sqlite3BtreeLastAll returns a rowid, or 0. *)
LEMMA MaxIn ==
    ASSUME NEW S \in RowSet
    PROVE  Max({0} \cup S) \in Nat /\ \A x \in S : x <= Max({0} \cup S)
<1> DEFINE T == {0} \cup S
           B == {b \in Nat : \A x \in T : x <= b}
<1>1. T \in SUBSET Nat /\ B \in SUBSET Nat
    BY DEF RowSet
<1>2. B # {}
  <2>1. PICK b \in Nat : \A x \in S : x <= b
    BY Zenon DEF RowSet
  <2>2. b \in B
    BY <2>1
  <2> QED
    BY <2>2, Zenon
<1>3. PICK m \in B : \A n \in B : m <= n
    BY <1>1, <1>2, Smallest, Zenon
<1>4. m \in T
  <2>1. CASE m = 0
    BY <2>1, Zenon
  <2>2. CASE m # 0 /\ m \notin T
    <3>1. m - 1 \in Nat
      BY <2>2, <1>1
    <3>2. \A x \in T : x <= m - 1
      BY <1>1, <1>3, <2>2
    <3>3. m - 1 \in B
      BY <3>1, <3>2, Zenon
    <3>4. m <= m - 1 /\ m \in Nat
      BY <3>3, <1>3, Zenon
    <3> QED
      BY <3>4
  <2> QED
    BY <2>1, <2>2, Zenon
<1>5. \A x \in T : m >= x
    BY <1>1, <1>3, Zenon
<1>6. Max(T) \in T /\ \A x \in T : Max(T) >= x
    BY <1>4, <1>5, Zenon DEF Max
<1> QED
    BY <1>1, <1>6, Zenon

------------------------------------------------------------------------------
(* The cache *)

Elem == [iTable : Tables \cup {NoTable}, rowid : Nat]

(* The elements e, of which the first n are stored. *)
Compact(e, n) ==
    /\ e \in [Slots -> Elem]
    /\ n \in 0 .. nElement
    /\ \A i \in Slots : e[i].iTable = NoTable <=> i > n
    /\ \A i, j \in 1 .. n : e[i].iTable = e[j].iTable => i = j

(* The elements that are stored. *)
In(e, n) == {e[i] : i \in 1 .. n}

(* The elements of S that are not of table t. *)
Without(S, t) == {x \in S : x.iTable # t}

(* One element is deleted and the last one takes its place. *)
Deleted(d, e, n, i) == d = [e EXCEPT ![i] = e[n], ![n] = Empty]
Moved(d, e, n, i) == \A k \in 1 .. n - 1 : d[k] = IF k = i THEN e[n] ELSE e[k]

LEMMA DeleteOne ==
    ASSUME NEW e, NEW n, Compact(e, n), NEW i \in 1 .. n, NEW d, Deleted(d, e, n, i)
    PROVE  /\ Compact(d, n - 1)
           /\ Moved(d, e, n, i)
           /\ In(d, n - 1) = Without(In(e, n), e[i].iTable)
<1>1. n \in Slots /\ i \in Slots /\ n - 1 \in 0 .. nElement /\ n \in Nat /\ nElement \in Nat
    BY RowidConstants DEF Compact, Slots
<1>2. Empty \in Elem /\ Empty.iTable = NoTable
    BY Zenon DEF Empty, Elem
<1>3. d \in [Slots -> Elem]
    BY <1>1, <1>2, Zenon DEF Compact, Deleted
<1>4. \A k \in Slots : d[k] = IF k = n THEN Empty ELSE IF k = i THEN e[n] ELSE e[k]
    BY <1>1, <1>2, Zenon DEF Compact, Deleted
<1>5. \A k \in Slots : d[k].iTable = NoTable <=> k > n - 1
    BY <1>1, <1>2, <1>4 DEF Compact, Slots
<1>6. \A k \in 1 .. n - 1 : k \in Slots /\ k \in 1 .. n /\ k # n
    BY <1>1 DEF Slots
<1>7. \A k \in 1 .. n - 1 : d[k] = IF k = i THEN e[n] ELSE e[k]
    BY <1>4, <1>6, Zenon
<1>8. \A k, j \in 1 .. n - 1 : d[k].iTable = d[j].iTable => k = j
  <2>1. n \in 1 .. n
    BY <1>1
  <2> QED
    BY <1>6, <1>7, <2>1, Zenon DEF Compact
<1>9. ASSUME NEW x \in In(d, n - 1) PROVE x \in In(e, n) /\ x.iTable # e[i].iTable
  <2>1. PICK k \in 1 .. n - 1 : x = d[k]
    BY Zenon DEF In
  <2>2. PICK j \in 1 .. n : x = e[j] /\ j # i
    <3>1. CASE k = i
      <4>1. n \in 1 .. n /\ n # i
        BY <1>1, <1>6, <3>1
      <4>2. x = e[n]
        BY <1>7, <2>1, <3>1, Zenon
      <4> QED
        BY <4>1, <4>2, Zenon
    <3>2. CASE k # i
      BY <1>6, <1>7, <2>1, <3>2, Zenon
    <3> QED
      BY <3>1, <3>2, Zenon
  <2> QED
    BY <2>2, Zenon DEF In, Compact
<1>10. ASSUME NEW x \in In(e, n), x.iTable # e[i].iTable PROVE x \in In(d, n - 1)
  <2>1. PICK j \in 1 .. n : x = e[j]
    BY Zenon DEF In
  <2>2. j # i
    BY <1>10, <2>1, Zenon
  <2>3. CASE j = n
    <3>1. i \in 1 .. n - 1
      BY <1>1, <2>2, <2>3
    <3>2. d[i] = x
      BY <1>7, <2>1, <2>3, <3>1, Zenon
    <3> QED
      BY <3>1, <3>2, Zenon DEF In
  <2>4. CASE j # n
    <3>1. j \in 1 .. n - 1
      BY <1>1, <2>4
    <3>2. d[j] = x
      BY <1>7, <2>1, <2>2, <3>1, Zenon
    <3> QED
      BY <3>1, <3>2, Zenon DEF In
  <2> QED
    BY <2>3, <2>4, Zenon
<1>11. In(d, n - 1) = Without(In(e, n), e[i].iTable)
    BY <1>9, <1>10, Zenon DEF Without
<1>12. Compact(d, n - 1)
    BY <1>1, <1>3, <1>5, <1>8, Zenon DEF Compact
<1> QED
    BY <1>7, <1>11, <1>12, Zenon DEF Moved

(* sqlite3rowlockIpcCachedRowidSet *)
LEMMA SetKeeps ==
    ASSUME Compact(elem, nCache), NEW t \in Tables, NEW v \in Nat, Set(t, v)
    PROVE  /\ Compact(elem', nCache')
           /\ \/ UNCHANGED <<elem, nCache, behind>>
              \/ /\ In(elem', nCache') = Without(In(elem, nCache), t)
                                            \cup {[iTable |-> t, rowid |-> v]}
                 /\ behind' = behind \cup Lowered(t, v)
<1> DEFINE fit == {i \in Slots : elem[i].iTable \in {t, NoTable}}
           m == Min(fit)
           w == [iTable |-> t, rowid |-> v]
<1>1. CASE fit = {}
    BY <1>1, Zenon DEF Set, cacheVars
<1>2. CASE fit # {}
  <2>1. /\ elem' = [elem EXCEPT ![m] = w]
        /\ nCache' = IF elem[m].iTable = NoTable THEN nCache + 1 ELSE nCache
        /\ behind' = behind \cup Lowered(t, v)
    BY <1>2, Zenon DEF Set
  <2>2. fit \in SUBSET Nat
    BY DEF Slots
  <2>3. m \in fit /\ \A y \in fit : m <= y
    BY <1>2, <2>2, MinIn, Zenon
  <2> HIDE DEF m
  <2>4. m \in Slots /\ nElement \in Nat /\ nCache \in 0 .. nElement
    BY <2>3, RowidConstants, Zenon DEF Compact
  <2>5. t # NoTable /\ w \in Elem /\ w.iTable = t
    BY RowidConstants, Zenon DEF Elem
  <2> HIDE DEF w
  <2>6. elem' \in [Slots -> Elem]
    BY <2>1, <2>4, <2>5, Zenon DEF Compact
  <2>7. \A k \in Slots : elem'[k] = IF k = m THEN w ELSE elem[k]
    BY <2>1, <2>4, Zenon DEF Compact
  <2>8. CASE elem[m].iTable = NoTable
    <3>1. m = nCache + 1
      <4>1. m > nCache /\ nCache + 1 \in Slots
        BY <2>4, <2>8 DEF Compact, Slots
      <4>2. elem[nCache + 1].iTable = NoTable
        BY <2>4, <4>1 DEF Compact
      <4>3. nCache + 1 \in fit
        BY <4>1, <4>2, Zenon
      <4> QED
        BY <2>3, <2>4, <4>1, <4>3 DEF Slots
    <3>2. nCache' = m
      BY <2>1, <2>8, <3>1, Zenon
    <3>3. \A k \in Slots : elem'[k].iTable = NoTable <=> k > m
      BY <2>4, <2>5, <2>7, <3>1 DEF Compact, Slots
    <3>4. \A k \in 1 .. nCache : elem[k].iTable # t /\ k \in Slots /\ k # m /\ k \in 1 .. m
      BY <2>3, <2>4, <3>1 DEF Slots
    <3>5. \A k \in 1 .. m : k \in Slots /\ (k = m \/ k \in 1 .. nCache)
      BY <2>4, <3>1 DEF Slots
    <3>6. \A k, j \in 1 .. m : elem'[k].iTable = elem'[j].iTable => k = j
      BY <2>5, <2>7, <3>4, <3>5, Zenon DEF Compact
    <3>7. m \in 0 .. nElement /\ m \in 1 .. m
      BY <2>4 DEF Slots
    <3>8. In(elem', m) = Without(In(elem, nCache), t) \cup {w}
      BY <2>4, <2>7, <3>4, <3>5, <3>7, Zenon DEF In, Without
    <3> QED
      BY <2>1, <2>6, <3>2, <3>3, <3>6, <3>7, <3>8, Zenon DEF Compact, w
  <2>9. CASE elem[m].iTable # NoTable
    <3>1. elem[m].iTable = t /\ nCache' = nCache /\ m \in 1 .. nCache
      BY <2>1, <2>3, <2>4, <2>9 DEF Compact, Slots
    <3>2. \A k \in Slots : elem'[k].iTable = elem[k].iTable
      BY <2>5, <2>7, <3>1, Zenon
    <3>3. 1 .. nCache \subseteq Slots
      BY <2>4 DEF Slots
    <3>4. \A k \in 1 .. nCache : elem[k].iTable = t <=> k = m
      BY <3>1, Zenon DEF Compact
    <3>5. In(elem', nCache) = Without(In(elem, nCache), t) \cup {w}
      BY <2>7, <3>1, <3>3, <3>4 DEF In, Without
    <3>6. elem' \in [Slots -> Elem] /\ nCache \in 0 .. nElement
      BY <2>6, <3>1, Zenon DEF Compact
    <3>7. /\ \A k \in Slots : elem'[k].iTable = NoTable <=> k > nCache
          /\ \A j, k \in 1 .. nCache : elem'[j].iTable = elem'[k].iTable => j = k
      BY <3>1, <3>2, <3>3, Zenon DEF Compact
    <3>8. Compact(elem', nCache') /\ nCache' = nCache
      BY <3>1, <3>6, <3>7, Zenon DEF Compact
    <3>9. behind' = behind \cup Lowered(t, v)
      BY <2>1, Zenon
    <3> QED
      BY <3>5, <3>8, <3>9, Zenon DEF w
  <2> QED
    BY <2>8, <2>9, Zenon
<1> QED
    BY <1>1, <1>2, Zenon

------------------------------------------------------------------------------
(* sqlite3rowlockIpcCachedRowidReset *)

(* What the loop has done when it comes to the element i. *)
ResetInv(s, i, u) ==
    /\ Compact(s.elem, s.tail)
    /\ s.tail >= i
    /\ In(s.elem, s.tail) \subseteq In(elem, nCache)
    /\ \A x \in In(elem, nCache) : x.iTable \notin u => x \in In(s.elem, s.tail)
    /\ \A k \in 1 .. s.tail : k > i => s.elem[k].iTable \notin u

LEMMA ResetStepKeeps ==
    ASSUME NEW u \in SUBSET Tables, NEW i \in Nat, NEW s, ResetInv(s, i + 1, u)
    PROVE  ResetInv(ResetStep(s, i + 1, u), i, u)
<1> DEFINE r == ResetStep(s, i + 1, u)
<1>1. Compact(s.elem, s.tail) /\ s.tail \in Nat /\ s.tail >= i + 1 /\ s.tail <= nElement
      /\ nElement \in Nat
    BY RowidConstants DEF ResetInv, Compact
<1>2. CASE s.elem[i + 1].iTable \notin u
  <2>1. \A k \in 1 .. s.tail : k > i => k = i + 1 \/ k > i + 1
    OBVIOUS
  <2> QED
    BY <1>1, <1>2, <2>1 DEF ResetStep, ResetInv
<1>3. CASE s.elem[i + 1].iTable \in u
  <2>1. r.elem = [s.elem EXCEPT ![i + 1] = s.elem[s.tail], ![s.tail] = Empty] /\ r.tail = s.tail - 1
    BY <1>3, Zenon DEF ResetStep
  <2>2. i + 1 \in 1 .. s.tail
    BY <1>1
  <2> HIDE DEF r
  <2>3. /\ Compact(r.elem, s.tail - 1)
        /\ \A k \in 1 .. s.tail - 1 : r.elem[k] = IF k = i + 1 THEN s.elem[s.tail] ELSE s.elem[k]
        /\ In(r.elem, s.tail - 1) = {x \in In(s.elem, s.tail) : x.iTable # s.elem[i + 1].iTable}
    <3>1. Deleted(r.elem, s.elem, s.tail, i + 1)
      BY <2>1, Zenon DEF Deleted
    <3>2. /\ Compact(r.elem, s.tail - 1)
          /\ Moved(r.elem, s.elem, s.tail, i + 1)
          /\ In(r.elem, s.tail - 1) = Without(In(s.elem, s.tail), s.elem[i + 1].iTable)
      BY <1>1, <2>2, <3>1, DeleteOne, Zenon
    <3> QED
      BY <3>2, Zenon DEF Moved, Without
  <2>4. r.tail >= i
    BY <1>1, <2>1
  <2>5. ASSUME NEW k \in 1 .. s.tail - 1, k > i PROVE r.elem[k].iTable \notin u
    <3>1. CASE k = i + 1
      <4>1. s.tail \in 1 .. s.tail /\ s.tail > i + 1
        BY <1>1, <3>1
      <4> QED
        BY <2>3, <3>1, <4>1, Zenon DEF ResetInv
    <3>2. CASE k # i + 1
      <4>1. k \in 1 .. s.tail /\ k > i + 1
        BY <1>1, <2>5, <3>2
      <4> QED
        BY <2>3, <3>2, <4>1, Zenon DEF ResetInv
    <3> QED
      BY <3>1, <3>2, Zenon
  <2>6. ResetInv(r, i, u)
    BY <1>3, <2>1, <2>3, <2>4, <2>5, Zenon DEF ResetInv
  <2> QED
    BY <2>6, Zenon DEF r
<1> QED
    BY <1>2, <1>3, Zenon

(* f is the loop from the last element down to the element k. *)
Body(f, i, u) ==
    IF i = nCache THEN [elem |-> elem, tail |-> nCache] ELSE ResetStep(f[i + 1], i + 1, u)

Loop(f, k, u) == f = [i \in k .. nCache |-> Body(f, i, u)]

(* The recursion of ResetFrom is well defined. *)
LEMMA LoopExists ==
    ASSUME NEW u, nCache \in Nat PROVE \E f : Loop(f, 0, u)
<1> DEFINE S == {n \in 0 .. nCache : \E f : Loop(f, nCache - n, u)}
<1>1. 0 \in S
  <2> DEFINE f == [i \in nCache .. nCache |-> [elem |-> elem, tail |-> nCache]]
  <2>1. \A i \in nCache .. nCache : Body(f, i, u) = [elem |-> elem, tail |-> nCache]
    BY DEF Body
  <2>2. Loop(f, nCache - 0, u)
    BY <2>1 DEF Loop
  <2> HIDE DEF f
  <2> QED
    BY <2>2
<1>2. ASSUME NEW n \in 0 .. nCache - 1, n \in S PROVE n + 1 \in S
  <2> DEFINE k == nCache - (n + 1)
  <2>1. k \in Nat /\ k < nCache /\ k + 1 = nCache - n
    OBVIOUS
  <2>2. PICK g : Loop(g, k + 1, u)
    BY <1>2, <2>1, Zenon
  <2> HIDE DEF k
  <2> DEFINE f == [i \in k .. nCache |-> IF i = k THEN ResetStep(g[k + 1], k + 1, u) ELSE g[i]]
  <2>3. \A i \in k .. nCache : f[i] = Body(f, i, u)
    <3> SUFFICES ASSUME NEW i \in k .. nCache PROVE f[i] = Body(f, i, u)
      BY Zenon
    <3>1. CASE i = k
      <4>1. k + 1 \in k .. nCache /\ k + 1 # k /\ k # nCache
        BY <2>1
      <4>2. f[k + 1] = g[k + 1]
        BY <4>1, Zenon
      <4> QED
        BY <3>1, <4>1, <4>2, Zenon DEF Body
    <3>2. CASE i # k
      <4>1. i \in k + 1 .. nCache /\ f[i] = g[i]
        BY <2>1, <3>2
      <4>2. g[i] = Body(g, i, u)
        BY <2>2, <4>1, Zenon DEF Loop
      <4>3. i # nCache => f[i + 1] = g[i + 1]
        <5>1. i # nCache => i + 1 \in k .. nCache /\ i + 1 # k
          BY <2>1, <4>1
        <5> QED
          BY <5>1, Zenon
      <4> QED
        BY <4>1, <4>2, <4>3, Zenon DEF Body
    <3> QED
      BY <3>1, <3>2, Zenon
  <2>4. Loop(f, k, u)
    BY <2>3, Zenon DEF Loop
  <2> HIDE DEF f
  <2> QED
    BY <2>1, <2>4 DEF k
<1>3. 0 .. nCache \subseteq S
  <2> HIDE DEF S
  <2> QED
    BY <1>1, <1>2, UpTo, Zenon
<1>4. nCache \in S
    BY <1>3
<1> QED
    BY <1>4

(* The whole loop. *)
LEMMA ResetKeeps ==
    ASSUME NEW u \in SUBSET Tables, Compact(elem, nCache), Reset(u)
    PROVE  /\ Compact(elem', nCache')
           /\ In(elem', nCache') = {x \in In(elem, nCache) : x.iTable \notin u}
<1>1. nCache \in Nat
    BY RowidConstants DEF Compact
<1> DEFINE f == CHOOSE g : Loop(g, 0, u)
<1>2. Loop(f, 0, u)
    BY <1>1, LoopExists, Zenon
<1>3. ResetFrom(u) = f[0]
    BY Zenon DEF ResetFrom, Loop, Body
<1> HIDE DEF f
<1>4. \A i \in 0 .. nCache : f[i] = Body(f, i, u)
    BY <1>2, Zenon DEF Loop
<1> DEFINE S == {n \in 0 .. nCache : ResetInv(f[nCache - n], nCache - n, u)}
<1>5. 0 \in S
  <2>1. f[nCache] = [elem |-> elem, tail |-> nCache]
    BY <1>1, <1>4 DEF Body
  <2>2. ResetInv(f[nCache], nCache, u)
    BY <1>1, <2>1 DEF ResetInv
  <2> QED
    BY <1>1, <2>2
<1>6. ASSUME NEW n \in 0 .. nCache - 1, n \in S PROVE n + 1 \in S
  <2> DEFINE k == nCache - (n + 1)
  <2>1. k \in Nat /\ k \in 0 .. nCache /\ k # nCache /\ k + 1 = nCache - n
    BY <1>1
  <2>2. ResetInv(f[k + 1], k + 1, u)
    BY <1>6, <2>1, Zenon
  <2>3. f[k] = ResetStep(f[k + 1], k + 1, u)
    BY <1>4, <2>1, Zenon DEF Body
  <2> HIDE DEF k
  <2>4. ResetInv(f[k], k, u)
    BY <2>1, <2>2, <2>3, ResetStepKeeps, Zenon
  <2> QED
    BY <1>1, <2>4 DEF k
<1>7. 0 .. nCache \subseteq S
  <2> HIDE DEF S
  <2> QED
    BY <1>1, <1>5, <1>6, UpTo, Zenon
<1>8. ResetInv(f[0], 0, u)
    BY <1>1, <1>7
<1>9. elem' = f[0].elem /\ nCache' = f[0].tail
    BY <1>3, Zenon DEF Reset
<1>10. \A x \in In(elem', nCache') : x.iTable \notin u
    BY <1>8, <1>9 DEF ResetInv, In
<1> QED
    BY <1>8, <1>9, <1>10, Zenon DEF ResetInv

(* sqlite3rowlockIpcCachedRowidDropTable *)
LEMMA DropKeeps ==
    ASSUME Compact(elem, nCache), NEW t \in Tables, DropCached(t)
    PROVE  /\ Compact(elem', nCache')
           /\ In(elem', nCache') = Without(In(elem, nCache), t)
<1>1. CASE Stored(t) = {}
    BY <1>1, Zenon DEF DropCached, cacheVars, Stored, In, Without
<1>2. CASE Stored(t) # {}
  <2> DEFINE m == Min(Stored(t))
  <2>1. Deleted(elem', elem, nCache, m) /\ nCache' = nCache - 1
    BY <1>2, Zenon DEF DropCached, Deleted
  <2>2. Stored(t) \in SUBSET Nat
    BY DEF Stored
  <2>3. m \in Stored(t)
    BY <1>2, <2>2, MinIn, Zenon
  <2>4. m \in 1 .. nCache /\ elem[m].iTable = t
    BY <2>3, Zenon DEF Stored
  <2> HIDE DEF m
  <2>5. /\ Compact(elem', nCache - 1)
        /\ In(elem', nCache - 1) = Without(In(elem, nCache), elem[m].iTable)
    BY <2>1, <2>4, DeleteOne, Zenon
  <2> QED
    BY <2>1, <2>4, <2>5, Zenon
<1> QED
    BY <1>1, <1>2, Zenon

(* sqlite3rowlockIpcCachedRowidGet: the rowid of the one element of the    *)
(* table, or 0.                                                            *)
StoredAt(e, n, t) == {i \in 1 .. n : e[i].iTable = t}
GetAt(e, n, t) == IF StoredAt(e, n, t) = {} THEN 0 ELSE e[Min(StoredAt(e, n, t))].rowid

LEMMA GetIs ==
    ASSUME NEW e, NEW n, Compact(e, n), NEW t
    PROVE  /\ GetAt(e, n, t) \in Nat
           /\ StoredAt(e, n, t) = {} <=> \A x \in In(e, n) : x.iTable # t
           /\ StoredAt(e, n, t) = {} => GetAt(e, n, t) = 0
           /\ \A x \in In(e, n) : x.iTable = t => x.rowid = GetAt(e, n, t)
<1>1. StoredAt(e, n, t) = {} <=> \A x \in In(e, n) : x.iTable # t
    BY Zenon DEF StoredAt, In
<1>2. CASE StoredAt(e, n, t) = {}
    BY <1>1, <1>2, Zenon DEF GetAt
<1>3. CASE StoredAt(e, n, t) # {}
  <2> DEFINE m == Min(StoredAt(e, n, t))
  <2>1. StoredAt(e, n, t) \in SUBSET Nat /\ StoredAt(e, n, t) \subseteq Slots
    BY RowidConstants DEF StoredAt, Slots, Compact
  <2>2. m \in StoredAt(e, n, t) /\ GetAt(e, n, t) = e[m].rowid
    BY <1>3, <2>1, MinIn, Zenon DEF GetAt
  <2> HIDE DEF m
  <2>3. GetAt(e, n, t) \in Nat
    BY <2>1, <2>2, Zenon DEF Compact, Elem
  <2>4. \A i \in 1 .. n : e[i].iTable = t => i = m
    BY <2>2, Zenon DEF StoredAt, Compact
  <2> QED
    BY <1>1, <1>3, <2>2, <2>3, <2>4, Zenon DEF In
<1> QED
    BY <1>2, <1>3, Zenon

(* The same of this state and of the next one. *)
LEMMA GetNow ==
    ASSUME NEW t
    PROVE  /\ Get(t) = GetAt(elem, nCache, t) /\ Get(t)' = GetAt(elem', nCache', t)
           /\ Stored(t) = StoredAt(elem, nCache, t) /\ Stored(t)' = StoredAt(elem', nCache', t)
BY Zenon DEF Get, GetAt, Stored, StoredAt

(* A cached rowid is a number, and 0 if there is none. *)
LEMMA GetType == ASSUME Compact(elem, nCache), NEW t PROVE Get(t) \in Nat
<1>1. Get(t) = GetAt(elem, nCache, t)
    BY GetNow, Zenon
<1>2. GetAt(elem, nCache, t) \in Nat
    BY GetIs, Zenon
<1> QED
    BY <1>1, <1>2, Zenon

(* What a connection sees of the cache of table t does not change. *)
SameCache(t) == Get(t)' = Get(t) /\ (Stored(t)' = {} <=> Stored(t) = {})

LEMMA SameElement ==
    ASSUME Compact(elem, nCache), Compact(elem', nCache'), NEW t,
           \A x : x.iTable = t => (x \in In(elem, nCache) <=> x \in In(elem', nCache'))
    PROVE  SameCache(t)
<1>1. CASE StoredAt(elem, nCache, t) = {}
  <2>1. \A x \in In(elem', nCache') : x.iTable # t
    BY <1>1, GetIs
  <2>2. StoredAt(elem', nCache', t) = {}
    BY <2>1, GetIs, Zenon
  <2> QED
    BY <1>1, <2>2, GetIs, GetNow DEF SameCache
<1>2. CASE StoredAt(elem, nCache, t) # {}
  <2>1. PICK x \in In(elem, nCache) : x.iTable = t
    BY <1>2, GetIs, Zenon
  <2>2. x \in In(elem', nCache')
    BY <2>1, Zenon
  <2>3. StoredAt(elem', nCache', t) # {} /\ GetAt(elem', nCache', t) = x.rowid
    BY <2>1, <2>2, GetIs
  <2>4. GetAt(elem, nCache, t) = x.rowid
    BY <2>1, GetIs
  <2> QED
    BY <1>2, <2>3, <2>4, GetNow, Zenon DEF SameCache
<1> QED
    BY <1>1, <1>2, Zenon

(* Set changes the cached rowid of one table, or nothing if the cache is   *)
(* full, ...                                                               *)
LEMMA SetEffect ==
    ASSUME Compact(elem, nCache), NEW t \in Tables, NEW v \in Nat, Set(t, v)
    PROVE  /\ Compact(elem', nCache')
           /\ behind \subseteq behind'
           /\ \A u \in Tables \ {t} : SameCache(u)
           /\ \/ SameCache(t)
              \/ Get(t)' = v /\ Stored(t)' # {} /\ (t \notin behind' => Get(t) <= v)
<1> DEFINE w == [iTable |-> t, rowid |-> v]
<1>1. w.iTable = t /\ w.rowid = v
    BY Zenon
<1>2. Compact(elem', nCache')
    BY SetKeeps, Zenon
<1>3. CASE UNCHANGED <<elem, nCache, behind>>
  <2>1. \A u : SameCache(u)
    BY <1>3, Zenon DEF SameCache, Get, Stored
  <2> QED
    BY <1>2, <1>3, <2>1, Zenon
<1>4. CASE /\ In(elem', nCache') = Without(In(elem, nCache), t) \cup {w}
           /\ behind' = behind \cup Lowered(t, v)
  <2> HIDE DEF w
  <2>1. ASSUME NEW u \in Tables \ {t} PROVE SameCache(u)
    <3>1. \A x : x.iTable = u => (x \in In(elem, nCache) <=> x \in In(elem', nCache'))
      BY <1>1, <1>4, Zenon DEF Without
    <3> QED
      BY <1>2, <3>1, SameElement, Zenon
  <2>2. w \in In(elem', nCache')
    BY <1>4, Zenon
  <2>3. StoredAt(elem', nCache', t) # {} /\ GetAt(elem', nCache', t) = v
    BY <1>1, <1>2, <2>2, GetIs
  <2>4. Get(t) \in Nat
    BY GetIs, GetNow
  <2>5. t \notin behind' => Get(t) <= v
    BY <1>4, <2>4 DEF Lowered
  <2> QED
    BY <1>2, <1>4, <2>1, <2>3, <2>5, GetNow, Zenon
<1> QED
    BY <1>3, <1>4, SetKeeps, Zenon

(* ... and the reset forgets the tables u. *)
LEMMA ResetEffect ==
    ASSUME NEW u \in SUBSET Tables, Compact(elem, nCache), Reset(u)
    PROVE  /\ Compact(elem', nCache')
           /\ behind' = behind \ u
           /\ \A t \in Tables \ u : SameCache(t)
<1>1. /\ Compact(elem', nCache')
      /\ In(elem', nCache') = {x \in In(elem, nCache) : x.iTable \notin u}
    BY ResetKeeps, Zenon
<1>2. ASSUME NEW t \in Tables \ u PROVE SameCache(t)
  <2>1. \A x : x.iTable = t => (x \in In(elem, nCache) <=> x \in In(elem', nCache'))
    BY <1>1, Zenon
  <2> QED
    BY <1>1, <2>1, SameElement, Zenon
<1> QED
    BY <1>1, <1>2, Zenon DEF Reset

LEMMA ResetForgets ==
    ASSUME NEW u \in SUBSET Tables, Compact(elem, nCache), Reset(u), NEW t \in u
    PROVE  Stored(t)' = {} /\ Get(t)' = 0
<1>1. /\ Compact(elem', nCache')
      /\ \A x \in In(elem', nCache') : x.iTable # t
    BY ResetKeeps
<1> QED
    BY <1>1, GetIs, GetNow

LEMMA DropEffect ==
    ASSUME Compact(elem, nCache), NEW t \in Tables, DropCached(t)
    PROVE  /\ Compact(elem', nCache')
           /\ behind \ {t} \subseteq behind'
           /\ \A u \in Tables \ {t} : SameCache(u)
           /\ Stored(t)' = {} /\ Get(t)' = 0
<1>1. Compact(elem', nCache') /\ In(elem', nCache') = Without(In(elem, nCache), t)
    BY DropKeeps, Zenon
<1>2. ASSUME NEW u \in Tables \ {t} PROVE SameCache(u)
  <2>1. \A x : x.iTable = u => (x \in In(elem, nCache) <=> x \in In(elem', nCache'))
    BY <1>1, Zenon DEF Without
  <2> QED
    BY <1>1, <2>1, SameElement, Zenon
<1>3. \A x \in In(elem', nCache') : x.iTable # t
    BY <1>1, Zenon DEF Without
<1>4. Stored(t)' = {} /\ Get(t)' = 0
    BY <1>1, <1>3, GetIs, GetNow
<1>5. behind \ {t} \subseteq behind'
    BY Zenon DEF DropCached, cacheVars
<1> QED
    BY <1>1, <1>2, <1>4, <1>5, Zenon

------------------------------------------------------------------------------
(* The cache is compact, the sets of rows are finite, and a statement has  *)
(* a table.                                                                *)

Stmt == [t : Tables \cup {NoTable}, auto : BOOLEAN, v : Nat, cnt : Nat, n : Nat,
         saved : [Tables -> RowSet]]

(* The types of all variables but the cache. *)
Types ==
    /\ lock \in [Conns -> SUBSET Tables]
    /\ inUse \in [Conns -> SUBSET Tables]
    /\ rows \in [Tables -> RowSet]
    /\ ins \in [Conns -> [Tables -> RowSet]]
    /\ stmt \in [Conns -> Stmt]
    /\ pc \in [Conns -> {"idle", "open", "last", "new", "set", "update", "compare", "raise",
                         "insert", "more", "again"}]
    /\ \A c \in Conns : pc[c] # "idle" => stmt[c].t \in Tables

Base == Compact(elem, nCache) /\ Types

LEMMA LastAllType ==
    ASSUME Types, NEW c \in Conns, NEW t \in Tables
    PROVE  LastAll(c, t) \in Nat /\ \A x \in View(c, t) : x <= LastAll(c, t)
<1>1. View(c, t) \in RowSet
    BY RowSets, Zenon DEF Types, View
<1> QED
    BY <1>1, MaxIn, Zenon DEF LastAll

LEMMA InitBase == Init => Base
<1> SUFFICES ASSUME Init PROVE Base
    BY Zenon
<1>1. Compact(elem, nCache)
    BY RowidConstants DEF Init, Compact, Elem, Empty, Slots
<1>2. Initial \in [Tables -> RowSet]
  <2>1. MaxRowid \in Nat
    BY RowidConstants, Zenon
  <2>2. \A S \in SUBSET (1 .. MaxRowid) : S \in RowSet
    BY <2>1 DEF RowSet
  <2> QED
    BY <2>2, RowidConstants, Zenon
<1>3. NoStmt \in Stmt
    BY RowSets, Zenon DEF NoStmt, Stmt
<1>4. Types
    BY <1>2, <1>3, RowSets, Zenon DEF Init, Types
<1> QED
    BY <1>1, <1>4, Zenon DEF Base

(* What CacheSurvives says of a step. *)
Survives == \A c \in Conns : \A t \in lock[c] \cap lock'[c] : Stored(t) # {} => Stored(t)' # {}

(* A step that leaves the cache alone or sets a rowid, ... *)
LEMMA CacheSet ==
    ASSUME Base, \/ UNCHANGED <<elem, nCache>>
                 \/ \E t \in Tables : \E v \in Nat : Set(t, v)
    PROVE  Compact(elem', nCache') /\ Survives
<1>1. \A c \in Conns : lock[c] \subseteq Tables
    BY Zenon DEF Base, Types
<1>2. CASE UNCHANGED <<elem, nCache>>
    BY <1>2, Zenon DEF Base, Survives, Stored
<1>3. ASSUME NEW t \in Tables, NEW v \in Nat, Set(t, v)
      PROVE  Compact(elem', nCache') /\ Survives
  <2>1. /\ Compact(elem', nCache')
        /\ \A u \in Tables : SameCache(u) \/ Stored(u)' # {}
    BY <1>3, SetEffect, Zenon DEF Base
  <2> QED
    BY <1>1, <2>1, Zenon DEF Survives, SameCache
<1> QED
    BY <1>2, <1>3, Zenon

(* ... one at the end of a transaction, ... *)
LEMMA ReleaseEffect ==
    ASSUME Base, NEW c \in Conns, Release(c)
    PROVE  \E u \in SUBSET Tables :
               /\ Reset(u)
               /\ \A t \in Tables : t \in u <=> \A d \in Conns : t \notin lock'[d]
<1> DEFINE u == Unused(c, [lock EXCEPT ![c] = {}])
<1>1. u \in SUBSET Tables /\ Reset(u)
    BY Zenon DEF Release, Unused
<1>2. \A t \in Tables : t \in u <=> \A d \in Conns : t \notin lock'[d]
    BY Zenon DEF Release, Unused, Base, Types
<1> HIDE DEF u
<1> QED
    BY <1>1, <1>2, Zenon

LEMMA CacheRelease ==
    ASSUME Base, NEW c \in Conns, Release(c)
    PROVE  Compact(elem', nCache') /\ Survives
<1>1. PICK u \in SUBSET Tables :
               /\ Reset(u)
               /\ \A t \in Tables : t \in u <=> \A d \in Conns : t \notin lock'[d]
    BY ReleaseEffect, Zenon
<1>2. \A d \in Conns : lock[d] \subseteq Tables
    BY Zenon DEF Base, Types
<1>3. Compact(elem', nCache') /\ \A t \in Tables \ u : SameCache(t)
    BY <1>1, ResetEffect, Zenon DEF Base
<1> QED
    BY <1>1, <1>2, <1>3, Zenon DEF Survives, SameCache

(* ... and DROP TABLE. *)
LEMMA CacheDrop ==
    ASSUME Base, NEW c \in Conns, NEW t \in Tables, DropTable(c, t)
    PROVE  Compact(elem', nCache') /\ Survives
<1>1. DropCached(t) /\ \A d \in Conns : t \notin lock[d]
    BY Zenon DEF DropTable
<1>2. \A d \in Conns : lock[d] \subseteq Tables
    BY Zenon DEF Base, Types
<1>3. Compact(elem', nCache') /\ \A u \in Tables \ {t} : SameCache(u)
    BY <1>1, DropEffect, Zenon DEF Base
<1> QED
    BY <1>1, <1>2, <1>3, Zenon DEF Survives, SameCache

------------------------------------------------------------------------------
(* The steps *)

(* The steps that only move the statement on. *)
LEMMA MoveSteps ==
    ASSUME Base, NEW c \in Conns,
           \/ OpenCursor(c) \/ OpenCursorLast(c) \/ NewRowidSet(c) \/ Update(c)
           \/ UpdateCompare(c) \/ UpdateSet(c) \/ NextRow(c)
    PROVE  Base' /\ Survives
<1>1. /\ UNCHANGED <<lock, inUse, rows, ins, stmt>>
      /\ pc[c] # "idle"
      /\ \E s \in {"last", "new", "set", "update", "compare", "raise", "insert"} :
             pc' = [pc EXCEPT ![c] = s]
    BY Zenon DEF OpenCursor, OpenCursorLast, NewRowidSet, Update, UpdateCompare, UpdateSet, NextRow,
           Go, AfterOpen
<1>2. Types'
    BY <1>1, Zenon DEF Base, Types
<1>3. stmt[c].t \in Tables /\ stmt[c].v \in Nat
    BY <1>1, Zenon DEF Base, Types, Stmt
<1>4. LastAll(c, stmt[c].t) \in Nat
    BY <1>3, LastAllType, Zenon DEF Base
<1>5. UNCHANGED <<elem, nCache>> \/ \E t \in Tables : \E v \in Nat : Set(t, v)
    BY <1>3, <1>4, Zenon DEF OpenCursor, OpenCursorLast, NewRowidSet, Update, UpdateCompare, UpdateSet,
           NextRow, cacheVars
<1> QED
    BY <1>2, <1>5, CacheSet, Zenon DEF Base

LEMMA BeginStep ==
    ASSUME Base, NEW c \in Conns, NEW t \in Tables, NEW v \in 0 .. MaxRowid, Begin(c, t, v)
    PROVE  Base' /\ Survives
<1>1. v \in Nat
    BY SMTT(30), RowidConstants
<1>2. UNCHANGED <<elem, nCache, rows, ins>> /\ pc' = [pc EXCEPT ![c] = "open"]
    BY Zenon DEF Begin, cacheVars, Go
<1>3. lock' \in [Conns -> SUBSET Tables] /\ inUse' \in [Conns -> SUBSET Tables]
    BY Zenon DEF Begin, LockTable, Base, Types
<1>4. stmt' \in [Conns -> Stmt] /\ \A d \in Conns : stmt'[d].t = IF d = c THEN t ELSE stmt[d].t
  <2> DEFINE s == [t |-> t, auto |-> v = 0, v |-> v, cnt |-> 0, n |-> stmt[c].n + 1, saved |-> ins[c]]
  <2>1. stmt' = [stmt EXCEPT ![c] = s]
    BY Zenon DEF Begin
  <2>2. stmt[c].n \in Nat /\ ins[c] \in [Tables -> RowSet]
    BY Zenon DEF Base, Types, Stmt
  <2>3. (v = 0) \in BOOLEAN
    BY Zenon
  <2>4. s \in Stmt /\ s.t = t
    BY <1>1, <2>2, <2>3 DEF Stmt
  <2> HIDE DEF s
  <2> QED
    BY <2>1, <2>4, Zenon DEF Base, Types
<1>5. Types'
    BY <1>2, <1>3, <1>4, Zenon DEF Base, Types
<1> QED
    BY <1>2, <1>5, CacheSet, Zenon DEF Base

LEMMA BeginAgainStep ==
    ASSUME Base, NEW c \in Conns, BeginAgain(c) PROVE Base' /\ Survives
<1>1. /\ UNCHANGED <<elem, nCache, rows, ins, stmt>>
      /\ pc[c] # "idle" /\ pc' = [pc EXCEPT ![c] = "open"]
    BY Zenon DEF BeginAgain, cacheVars, Go
<1>2. stmt[c].t \in Tables
    BY <1>1, Zenon DEF Base, Types
<1>3. lock' \in [Conns -> SUBSET Tables] /\ inUse' \in [Conns -> SUBSET Tables]
    BY <1>2, Zenon DEF BeginAgain, LockTable, Base, Types
<1>4. Types'
    BY <1>1, <1>3, Zenon DEF Base, Types
<1> QED
    BY <1>1, <1>4, CacheSet, Zenon DEF Base

LEMMA StmtParts ==
    ASSUME Types, NEW c \in Conns, NEW w \in Nat
    PROVE  /\ [stmt[c] EXCEPT !.v = w] \in Stmt /\ [stmt[c] EXCEPT !.v = w].t = stmt[c].t
           /\ [stmt[c] EXCEPT !.cnt = w] \in Stmt /\ [stmt[c] EXCEPT !.cnt = w].t = stmt[c].t
           /\ [NoStmt EXCEPT !.n = w] \in Stmt
<1>1. stmt[c] \in Stmt
    BY Zenon DEF Types
<1>2. NoStmt \in Stmt
    BY RowSets, Zenon DEF NoStmt, Stmt
<1> QED
    BY <1>1, <1>2, Zenon DEF Stmt

LEMMA NewRowidStep ==
    ASSUME Base, NEW c \in Conns, NewRowid(c) PROVE Base' /\ Survives
<1>1. /\ UNCHANGED <<elem, nCache, lock, inUse, rows, ins>>
      /\ pc[c] # "idle" /\ pc' = [pc EXCEPT ![c] = "set"]
    BY Zenon DEF NewRowid, cacheVars, Go
<1>2. stmt[c].t \in Tables
    BY <1>1, Zenon DEF Base, Types
<1>3. Get(stmt[c].t) \in Nat /\ LastAll(c, stmt[c].t) \in Nat
    BY <1>2, GetType, LastAllType, Zenon DEF Base
<1> DEFINE last == IF Get(stmt[c].t) # 0 THEN Get(stmt[c].t) ELSE LastAll(c, stmt[c].t)
           r == [stmt[c] EXCEPT !.v = last + 1]
<1>4. stmt' = [stmt EXCEPT ![c] = r]
    BY Zenon DEF NewRowid
<1>5. last + 1 \in Nat
    BY <1>3
<1> HIDE DEF last
<1>6. r \in Stmt /\ r.t = stmt[c].t
    BY <1>5, StmtParts, Zenon DEF Base
<1> HIDE DEF r
<1>7. stmt' \in [Conns -> Stmt] /\ \A d \in Conns : stmt'[d].t = stmt[d].t
    BY <1>4, <1>6, Zenon DEF Base, Types
<1>8. Types'
    BY <1>1, <1>7, Zenon DEF Base, Types
<1> QED
    BY <1>1, <1>8, CacheSet, Zenon DEF Base

LEMMA InsertStep ==
    ASSUME Base, NEW c \in Conns, Insert(c) PROVE Base' /\ Survives
<1>1. /\ UNCHANGED <<elem, nCache, lock, inUse, rows, stmt>>
      /\ pc[c] # "idle" /\ pc' = [pc EXCEPT ![c] = "more"]
      /\ ins' = [ins EXCEPT ![c][stmt[c].t] = @ \cup {stmt[c].v}]
    BY Zenon DEF Insert, Go
<1>2. stmt[c].t \in Tables /\ stmt[c].v \in Nat
    BY <1>1, Zenon DEF Base, Types, Stmt
<1>3. ins[c][stmt[c].t] \cup {stmt[c].v} \in RowSet
  <2>1. ins[c][stmt[c].t] \in RowSet
    BY <1>2, Zenon DEF Base, Types
  <2> QED
    BY <1>2, <2>1, RowSets, Zenon
<1>4. ins' \in [Conns -> [Tables -> RowSet]]
  <2> DEFINE r == [ins[c] EXCEPT ![stmt[c].t] = ins[c][stmt[c].t] \cup {stmt[c].v}]
  <2>1. ins' = [ins EXCEPT ![c] = r]
    BY <1>1, Zenon
  <2>2. ins[c] \in [Tables -> RowSet]
    BY Zenon DEF Base, Types
  <2>3. r \in [Tables -> RowSet]
    BY <1>3, <2>2, Zenon
  <2> HIDE DEF r
  <2> QED
    BY <2>1, <2>3, Zenon DEF Base, Types
<1>5. Types'
    BY <1>1, <1>4, Zenon DEF Base, Types
<1> QED
    BY <1>1, <1>5, CacheSet, Zenon DEF Base

LEMMA EndStmtStep ==
    ASSUME Base, NEW c \in Conns, EndStmt(c) PROVE Base' /\ Survives
<1>1. UNCHANGED <<elem, nCache, lock, rows, ins>> /\ pc' = [pc EXCEPT ![c] = "idle"]
    BY Zenon DEF EndStmt, cacheVars, Go
<1> DEFINE r == [NoStmt EXCEPT !.n = stmt[c].n]
<1>2. stmt' = [stmt EXCEPT ![c] = r] /\ inUse' = [inUse EXCEPT ![c] = {}]
    BY Zenon DEF EndStmt
<1>3. stmt[c].n \in Nat
    BY Zenon DEF Base, Types, Stmt
<1>4. r \in Stmt
    BY <1>3, StmtParts, Zenon DEF Base
<1> HIDE DEF r
<1>5. Types'
    BY <1>1, <1>2, <1>4, Zenon DEF Base, Types
<1> QED
    BY <1>1, <1>5, CacheSet, Zenon DEF Base

(* The types after the statement savepoint, or the transaction, is undone. *)
LEMMA UndoTypes ==
    ASSUME Types, NEW c \in Conns, UndoStmt(c) \/ Release(c)
    PROVE  /\ lock' \in [Conns -> SUBSET Tables]
           /\ inUse' \in [Conns -> SUBSET Tables]
           /\ ins' \in [Conns -> [Tables -> RowSet]]
<1>1. stmt[c].saved \in [Tables -> RowSet]
    BY Zenon DEF Types, Stmt
<1>2. [t \in Tables |-> {}] \in [Tables -> RowSet]
    BY RowSets, Zenon
<1>3. CASE UndoStmt(c)
    BY <1>1, <1>3, Zenon DEF Types, UndoStmt
<1>4. CASE Release(c)
    BY <1>2, <1>4, Zenon DEF Types, Release
<1> QED
    BY <1>3, <1>4, Zenon

LEMMA RetryStep ==
    ASSUME Base, NEW c \in Conns, Retry(c) PROVE Base' /\ Survives
<1>1. rows' = rows /\ pc[c] # "idle" /\ pc' = [pc EXCEPT ![c] = "again"]
    BY Zenon DEF Retry, Go
<1> DEFINE r == [stmt[c] EXCEPT !.cnt = stmt[c].cnt + 1]
<1>2. stmt' = [stmt EXCEPT ![c] = r]
    BY Zenon DEF Retry
<1>3. stmt[c].cnt + 1 \in Nat
    BY DEF Base, Types, Stmt
<1>4. r \in Stmt /\ r.t = stmt[c].t
    BY <1>3, StmtParts, Zenon DEF Base
<1> HIDE DEF r
<1>5. /\ lock' \in [Conns -> SUBSET Tables]
      /\ inUse' \in [Conns -> SUBSET Tables]
      /\ ins' \in [Conns -> [Tables -> RowSet]]
    BY UndoTypes, Zenon DEF Retry, Base
<1>6. Types'
    BY <1>1, <1>2, <1>4, <1>5, Zenon DEF Base, Types
<1>7. Compact(elem', nCache') /\ Survives
    BY CacheSet, CacheRelease, Zenon DEF Retry, cacheVars
<1> QED
    BY <1>6, <1>7, Zenon DEF Base

LEMMA FailStep ==
    ASSUME Base, NEW c \in Conns, Fail(c) PROVE Base' /\ Survives
<1>1. UNCHANGED <<elem, nCache, rows>> /\ pc' = [pc EXCEPT ![c] = "idle"] /\ UndoStmt(c)
    BY Zenon DEF Fail, cacheVars, Go
<1> DEFINE r == [NoStmt EXCEPT !.n = stmt[c].n]
<1>2. stmt' = [stmt EXCEPT ![c] = r]
    BY Zenon DEF Fail
<1>3. stmt[c].n \in Nat
    BY Zenon DEF Base, Types, Stmt
<1>4. r \in Stmt
    BY <1>3, StmtParts, Zenon DEF Base
<1> HIDE DEF r
<1>5. /\ lock' \in [Conns -> SUBSET Tables]
      /\ inUse' \in [Conns -> SUBSET Tables]
      /\ ins' \in [Conns -> [Tables -> RowSet]]
    BY <1>1, UndoTypes, Zenon DEF Base
<1>6. Types'
    BY <1>1, <1>2, <1>4, <1>5, Zenon DEF Base, Types
<1> QED
    BY <1>1, <1>6, CacheSet, Zenon DEF Base

(* ROLLBACK and COMMIT. *)
LEMMA EndStep ==
    ASSUME Base, NEW c \in Conns, Rollback(c) \/ Commit(c) PROVE Base' /\ Survives
<1>1. pc[c] = "idle" /\ pc' = pc /\ Release(c) /\ stmt' = [stmt EXCEPT ![c] = NoStmt]
    BY Zenon DEF Rollback, Commit
<1>2. rows' \in [Tables -> RowSet]
  <2>1. CASE Rollback(c)
    BY <2>1, Zenon DEF Rollback, Base, Types
  <2>2. CASE Commit(c)
    <3>1. \A t \in Tables : rows[t] \cup ins[c][t] \in RowSet
      BY RowSets, Zenon DEF Base, Types
    <3> QED
      BY <2>2, <3>1, Zenon DEF Commit
  <2> QED
    BY <2>1, <2>2, Zenon
<1>3. NoStmt \in Stmt
    BY RowSets, Zenon DEF NoStmt, Stmt
<1>4. /\ lock' \in [Conns -> SUBSET Tables]
      /\ inUse' \in [Conns -> SUBSET Tables]
      /\ ins' \in [Conns -> [Tables -> RowSet]]
    BY <1>1, UndoTypes, Zenon DEF Base
<1>5. Types'
    BY <1>1, <1>2, <1>3, <1>4, Zenon DEF Base, Types
<1> QED
    BY <1>1, <1>5, CacheRelease, Zenon DEF Base

LEMMA DropTableStep ==
    ASSUME Base, NEW c \in Conns, NEW t \in Tables, DropTable(c, t) PROVE Base' /\ Survives
<1>1. UNCHANGED <<lock, inUse, ins, stmt, pc>> /\ rows' = [rows EXCEPT ![t] = {}]
    BY Zenon DEF DropTable
<1>2. Types'
    BY <1>1, RowSets, Zenon DEF Base, Types
<1> QED
    BY <1>2, CacheDrop, Zenon DEF Base

(* Base is inductive by itself. *)
LEMMA NextBase == ASSUME Base, Next PROVE Base' /\ Survives
BY MoveSteps, BeginStep, BeginAgainStep, NewRowidStep, InsertStep, EndStmtStep, RetryStep,
   FailStep, EndStep, DropTableStep, Zenon DEF Next

LEMMA BaseHolds == Spec => []Base
<1>1. ASSUME Base, UNCHANGED vars PROVE Base'
    BY <1>1, Zenon DEF vars, Base, Types
<1>2. Base /\ [Next]_vars => Base'
    BY <1>1, NextBase, Zenon
<1> QED
    BY <1>2, InitBase, PTL DEF Spec

------------------------------------------------------------------------------

(* For any number of elements, tables, connections and rows: nCache stays  *)
(* between 0 and nElement and the assertion of                             *)
(* sqlite3rowlockIpcCachedRowidSet holds, whatever sequence of set, drop   *)
(* and reset the connections execute.                                      *)
THEOREM CacheCompactHolds == Spec => []CacheCompact
<1>1. Base => CacheCompact
  <2>1. RowSet \subseteq SUBSET Nat
    BY Zenon DEF RowSet
  <2>2. ASSUME Types
        PROVE  rows \in [Tables -> SUBSET Nat] /\ ins \in [Conns -> [Tables -> SUBSET Nat]]
    <3>1. rows \in [Tables -> RowSet] /\ ins \in [Conns -> [Tables -> RowSet]]
      BY <2>2, Zenon DEF Types
    <3>2. [Tables -> RowSet] \subseteq [Tables -> SUBSET Nat]
      BY <2>1, Zenon
    <3> QED
      BY <3>1, <3>2, Zenon
  <2>3. Base => TypeOK
    BY <2>2, Zenon DEF Base, Compact, Elem, Types, TypeOK
  <2> QED
    BY <2>3, Zenon DEF Base, Compact, CacheCompact
<1> QED
    BY <1>1, BaseHolds, PTL

(* Resetting the cache at the end of a transaction and dropping a table    *)
(* never delete the element of a table that a transaction has locked and   *)
(* goes on to lock.                                                        *)
THEOREM CacheSurvivesHolds == Spec => CacheSurvives
<1>1. Base /\ [Next]_vars => [Survives]_vars
    BY NextBase, Zenon
<1> QED
    BY <1>1, BaseHolds, PTL DEF Spec, CacheSurvives, Survives

------------------------------------------------------------------------------
(* Who owns what: rows and inUse are of tables that the connection has     *)
(* locked, and what a statement restores is what its transaction had       *)
(* before.                                                                 *)
Owns(locked, used, own, st, at) ==
    /\ used \subseteq locked
    /\ at = "idle" => used = {}
    /\ at \notin {"idle", "again"} => st.t \in locked
    /\ \A t \in Tables : own[t] # {} => t \in locked
    /\ st.n = 0 => \A t \in Tables : own[t] = {}
    /\ at # "idle" =>
          /\ \A t \in Tables : st.saved[t] \subseteq own[t]
          /\ \A t \in used : st.saved[t] = {}
          /\ st.n # 0
          /\ st.n = 1 => \A t \in Tables : st.saved[t] = {}

OwnedBy(c) == Owns(lock[c], inUse[c], ins[c], stmt[c], pc[c])

Owned == \A c \in Conns : OwnedBy(c)

(* A step of c leaves the others as they are. *)
Frame(c) ==
    \A d \in Conns \ {c} : /\ lock'[d] = lock[d] /\ inUse'[d] = inUse[d] /\ ins'[d] = ins[d]
                           /\ stmt'[d] = stmt[d] /\ pc'[d] = pc[d]

LEMMA OwnedFrame ==
    ASSUME Owned, NEW c \in Conns, Frame(c), OwnedBy(c)' PROVE Owned'
<1>1. \A d \in Conns \ {c} : OwnedBy(d)'
    BY Zenon DEF Owned, OwnedBy, Frame
<1> QED
    BY <1>1, Zenon DEF Owned

(* The steps in which c only moves on. *)
Moves(c) ==
    \/ OpenCursor(c) \/ OpenCursorLast(c) \/ NewRowidSet(c) \/ Update(c)
    \/ UpdateCompare(c) \/ UpdateSet(c) \/ NextRow(c)

LEMMA OwnedMoves ==
    ASSUME Base, Owned, NEW c \in Conns, Moves(c) PROVE Owned' /\ Frame(c)
<1>1. /\ UNCHANGED <<lock, inUse, rows, ins, stmt>>
      /\ pc[c] \notin {"idle", "again"}
      /\ \E s \in {"last", "new", "set", "update", "compare", "raise", "insert"} :
             pc' = [pc EXCEPT ![c] = s]
    BY Zenon DEF Moves, OpenCursor, OpenCursorLast, NewRowidSet, Update, UpdateCompare, UpdateSet,
           NextRow, Go, AfterOpen
<1>2. Frame(c)
    BY <1>1, Zenon DEF Frame, Base, Types
<1>3. OwnedBy(c) /\ pc'[c] \notin {"idle", "again"}
    BY <1>1, Zenon DEF Base, Types, Owned
<1>4. OwnedBy(c)'
    BY <1>1, <1>3, Zenon DEF OwnedBy, Owns
<1> QED
    BY <1>2, <1>4, OwnedFrame, Zenon

LEMMA OwnedNewRowid ==
    ASSUME Base, Owned, NEW c \in Conns, NewRowid(c) PROVE Owned' /\ Frame(c)
<1>1. /\ UNCHANGED <<lock, inUse, rows, ins>>
      /\ pc[c] = "new" /\ pc' = [pc EXCEPT ![c] = "set"]
      /\ \E w : stmt' = [stmt EXCEPT ![c] = [stmt[c] EXCEPT !.v = w]]
    BY Zenon DEF NewRowid, Go
<1>2. /\ stmt'[c].t = stmt[c].t /\ stmt'[c].n = stmt[c].n /\ stmt'[c].saved = stmt[c].saved
      /\ \A d \in Conns \ {c} : stmt'[d] = stmt[d]
    BY <1>1 DEF Base, Types, Stmt
<1>3. Frame(c)
    BY <1>1, <1>2, Zenon DEF Frame, Base, Types
<1>4. OwnedBy(c)'
    BY <1>1, <1>2 DEF Base, Types, Owned, OwnedBy, Owns
<1> QED
    BY <1>3, <1>4, OwnedFrame, Zenon

LEMMA OwnedInsert ==
    ASSUME Base, Owned, NEW c \in Conns, Insert(c)
    PROVE  /\ Owned' /\ Frame(c)
           /\ \A t \in Tables : ins'[c][t] = IF t = stmt[c].t THEN ins[c][t] \cup {stmt[c].v}
                                                              ELSE ins[c][t]
<1>1. /\ UNCHANGED <<lock, inUse, rows, stmt>>
      /\ pc[c] = "insert" /\ pc' = [pc EXCEPT ![c] = "more"]
    BY Zenon DEF Insert, Go
<1>2. /\ \A t \in Tables : ins'[c][t] = IF t = stmt[c].t THEN ins[c][t] \cup {stmt[c].v}
                                                         ELSE ins[c][t]
      /\ \A d \in Conns \ {c} : ins'[d] = ins[d]
    BY Zenon DEF Insert, Base, Types
<1>3. Frame(c)
    BY <1>1, <1>2, Zenon DEF Frame, Base, Types
<1>4. pc'[c] = "more" /\ OwnedBy(c)
    BY <1>1, Zenon DEF Base, Types, Owned
<1>5. /\ \A t \in Tables : ins[c][t] \subseteq ins'[c][t]
      /\ \A t \in Tables : ins'[c][t] # {} => t \in lock[c]
    BY <1>1, <1>2, <1>4, Zenon DEF OwnedBy, Owns
<1>6. OwnedBy(c)'
    BY <1>1, <1>4, <1>5, Zenon DEF OwnedBy, Owns
<1> QED
    BY <1>2, <1>3, <1>6, OwnedFrame, Zenon

LEMMA OwnedBegin ==
    ASSUME Base, Owned, NEW c \in Conns, NEW t \in Tables, NEW v \in 0 .. MaxRowid, Begin(c, t, v)
    PROVE  Owned' /\ Frame(c)
<1> DEFINE s == [t |-> t, auto |-> v = 0, v |-> v, cnt |-> 0, n |-> stmt[c].n + 1, saved |-> ins[c]]
<1>1. /\ UNCHANGED <<rows, ins>> /\ pc[c] = "idle" /\ pc' = [pc EXCEPT ![c] = "open"]
      /\ lock' = [lock EXCEPT ![c] = lock[c] \cup {t}]
      /\ inUse' = [inUse EXCEPT ![c] = inUse[c] \cup ({t} \ lock[c])]
      /\ stmt' = [stmt EXCEPT ![c] = s]
    BY Zenon DEF Begin, LockTable, Go
<1>2. s.t = t /\ s.n = stmt[c].n + 1 /\ s.saved = ins[c] /\ stmt[c].n \in Nat
    BY Zenon DEF Base, Types, Stmt
<1> HIDE DEF s
<1>3. Frame(c)
    BY <1>1, Zenon DEF Frame, Base, Types
<1>4. /\ lock'[c] = lock[c] \cup {t} /\ inUse'[c] = inUse[c] \cup ({t} \ lock[c]) /\ stmt'[c] = s
      /\ pc'[c] = "open" /\ ins'[c] = ins[c]
    BY <1>1, Zenon DEF Base, Types
<1>5. OwnedBy(c)
    BY Zenon DEF Owned
<1>6. stmt[c].n + 1 # 0 /\ (stmt[c].n + 1 = 1 => stmt[c].n = 0)
    BY <1>2
<1>7. /\ inUse[c] = {}
      /\ \A u \in Tables : ins[c][u] # {} => u \in lock[c]
      /\ stmt[c].n = 0 => \A u \in Tables : ins[c][u] = {}
    BY <1>1, <1>5, Zenon DEF OwnedBy, Owns
<1>8. inUse'[c] \subseteq lock'[c] /\ \A u \in inUse'[c] : ins[c][u] = {}
    BY <1>4, <1>7, Zenon
<1>9. OwnedBy(c)'
    BY <1>2, <1>4, <1>6, <1>7, <1>8, Zenon DEF OwnedBy, Owns
<1> QED
    BY <1>3, <1>9, OwnedFrame, Zenon

LEMMA OwnedBeginAgain ==
    ASSUME Base, Owned, NEW c \in Conns, BeginAgain(c) PROVE Owned' /\ Frame(c)
<1> DEFINE t == stmt[c].t
<1>1. /\ UNCHANGED <<rows, ins, stmt>> /\ pc[c] = "again" /\ pc' = [pc EXCEPT ![c] = "open"]
      /\ lock' = [lock EXCEPT ![c] = lock[c] \cup {t}]
      /\ inUse' = [inUse EXCEPT ![c] = inUse[c] \cup ({t} \ lock[c])]
    BY Zenon DEF BeginAgain, LockTable, Go
<1>2. t \in Tables
    BY <1>1, Zenon DEF Base, Types
<1>3. Frame(c)
    BY <1>1, Zenon DEF Frame, Base, Types
<1>4. /\ lock'[c] = lock[c] \cup {t} /\ inUse'[c] = inUse[c] \cup ({t} \ lock[c])
      /\ pc'[c] = "open"
    BY <1>1, Zenon DEF Base, Types
<1>5. OwnedBy(c)
    BY Zenon DEF Owned
<1>6. OwnedBy(c)'
    BY <1>1, <1>2, <1>4, <1>5, Zenon DEF OwnedBy, Owns
<1> QED
    BY <1>3, <1>6, OwnedFrame, Zenon

LEMMA OwnedEndStmt ==
    ASSUME Base, Owned, NEW c \in Conns, EndStmt(c) PROVE Owned' /\ Frame(c)
<1> DEFINE r == [NoStmt EXCEPT !.n = stmt[c].n]
<1>1. /\ UNCHANGED <<lock, rows, ins>> /\ pc[c] = "more" /\ pc' = [pc EXCEPT ![c] = "idle"]
      /\ stmt' = [stmt EXCEPT ![c] = r] /\ inUse' = [inUse EXCEPT ![c] = {}]
    BY Zenon DEF EndStmt, Go
<1>2. r.n = stmt[c].n
    BY Zenon DEF NoStmt
<1> HIDE DEF r
<1>3. Frame(c)
    BY <1>1, Zenon DEF Frame, Base, Types
<1>4. pc'[c] = "idle" /\ inUse'[c] = {} /\ stmt'[c].n = stmt[c].n /\ OwnedBy(c)
    BY <1>1, <1>2, Zenon DEF Base, Types, Owned
<1>5. OwnedBy(c)'
    BY <1>1, <1>4, Zenon DEF OwnedBy, Owns
<1> QED
    BY <1>3, <1>5, OwnedFrame, Zenon

(* What the end of a statement or of a transaction leaves. *)
LEMMA UndoLeaves ==
    ASSUME Base, NEW c \in Conns, UndoStmt(c)
    PROVE  /\ lock'[c] = lock[c] \ inUse[c] /\ inUse'[c] = {} /\ ins'[c] = stmt[c].saved
           /\ \A d \in Conns \ {c} : lock'[d] = lock[d] /\ inUse'[d] = inUse[d] /\ ins'[d] = ins[d]
BY Zenon DEF UndoStmt, Base, Types

LEMMA ReleaseLeaves ==
    ASSUME Base, NEW c \in Conns, Release(c)
    PROVE  /\ lock'[c] = {} /\ inUse'[c] = {} /\ \A t \in Tables : ins'[c][t] = {}
           /\ \A d \in Conns \ {c} : lock'[d] = lock[d] /\ inUse'[d] = inUse[d] /\ ins'[d] = ins[d]
BY Zenon DEF Release, Base, Types

LEMMA OwnedFail ==
    ASSUME Base, Owned, NEW c \in Conns, Fail(c) PROVE Owned' /\ Frame(c)
<1> DEFINE r == [NoStmt EXCEPT !.n = stmt[c].n]
<1>1. /\ UndoStmt(c) /\ pc[c] # "idle" /\ pc' = [pc EXCEPT ![c] = "idle"]
      /\ stmt' = [stmt EXCEPT ![c] = r]
    BY Zenon DEF Fail, Go
<1>2. r.n = stmt[c].n
    BY Zenon DEF NoStmt
<1> HIDE DEF r
<1>3. Frame(c)
    BY <1>1, UndoLeaves, Zenon DEF Frame, Base, Types
<1>4. pc'[c] = "idle" /\ stmt'[c].n = stmt[c].n /\ OwnedBy(c)
    BY <1>1, <1>2, Zenon DEF Base, Types, Owned
<1>5. OwnedBy(c)'
    BY <1>1, <1>4, UndoLeaves, Zenon DEF OwnedBy, Owns
<1> QED
    BY <1>3, <1>5, OwnedFrame, Zenon

LEMMA OwnedRetry ==
    ASSUME Base, Owned, NEW c \in Conns, Retry(c) PROVE Owned' /\ Frame(c)
<1> DEFINE r == [stmt[c] EXCEPT !.cnt = stmt[c].cnt + 1]
<1>1. /\ pc[c] = "insert" /\ pc' = [pc EXCEPT ![c] = "again"]
      /\ stmt' = [stmt EXCEPT ![c] = r]
      /\ UndoStmt(c) \/ (stmt[c].n = 1 /\ Release(c))
    BY Zenon DEF Retry, Go
<1>2. r.t = stmt[c].t /\ r.n = stmt[c].n /\ r.saved = stmt[c].saved
    BY Zenon DEF Base, Types, Stmt
<1> HIDE DEF r
<1>3. Frame(c)
  <2>1. \A d \in Conns \ {c} : lock'[d] = lock[d] /\ inUse'[d] = inUse[d] /\ ins'[d] = ins[d]
    BY <1>1, UndoLeaves, ReleaseLeaves, Zenon
  <2>2. \A d \in Conns \ {c} : stmt'[d] = stmt[d] /\ pc'[d] = pc[d]
    BY <1>1, Zenon DEF Base, Types
  <2> QED
    BY <2>1, <2>2, Zenon DEF Frame
<1>4. /\ pc'[c] = "again" /\ stmt'[c].n = stmt[c].n /\ stmt'[c].saved = stmt[c].saved
      /\ OwnedBy(c)
    BY <1>1, <1>2, Zenon DEF Base, Types, Owned
<1>5. CASE UndoStmt(c)
  <2>1. lock'[c] = lock[c] \ inUse[c] /\ inUse'[c] = {} /\ ins'[c] = stmt[c].saved
    BY <1>5, UndoLeaves, Zenon
  <2>2. /\ \A t \in Tables : ins'[c][t] # {} => t \in lock'[c]
        /\ stmt[c].n # 0 /\ (stmt[c].n = 1 => \A t \in Tables : ins'[c][t] = {})
    BY <1>1, <1>4, <2>1, Zenon DEF OwnedBy, Owns
  <2>3. OwnedBy(c)'
    BY <1>4, <2>1, <2>2, Zenon DEF OwnedBy, Owns
  <2> QED
    BY <1>3, <2>3, OwnedFrame, Zenon
<1>6. CASE stmt[c].n = 1 /\ Release(c)
  <2>1. OwnedBy(c)'
    BY <1>1, <1>4, <1>6, ReleaseLeaves, Zenon DEF OwnedBy, Owns
  <2> QED
    BY <1>3, <2>1, OwnedFrame, Zenon
<1> QED
    BY <1>1, <1>5, <1>6, Zenon

LEMMA OwnedEnd ==
    ASSUME Base, Owned, NEW c \in Conns, Rollback(c) \/ Commit(c) PROVE Owned' /\ Frame(c)
<1>1. pc[c] = "idle" /\ pc' = pc /\ Release(c) /\ stmt' = [stmt EXCEPT ![c] = NoStmt]
    BY Zenon DEF Rollback, Commit
<1>2. Frame(c)
    BY <1>1, ReleaseLeaves, Zenon DEF Frame, Base, Types
<1>3. OwnedBy(c)'
    BY <1>1, ReleaseLeaves, Zenon DEF OwnedBy, Owns
<1> QED
    BY <1>2, <1>3, OwnedFrame, Zenon

------------------------------------------------------------------------------
(* What the cached rowid says, unless it is behind: no transaction has     *)
(* inserted a larger rowid and, if the table is stored, nobody has         *)
(* committed one.                                                          *)
CoveredAt(t) ==
    t \notin behind =>
        /\ \A c \in Conns : \A x \in ins[c][t] : x <= Get(t)
        /\ Stored(t) # {} => \A x \in rows[t] : x <= Get(t)

Covered == \A t \in Tables : CoveredAt(t)

(* A statement that goes to change the cache has read it, and an automatic *)
(* rowid is above every row that its connection sees.                      *)
FreshFor(c) ==
    /\ pc[c] \in {"new", "set"} => stmt[c].auto
    /\ pc[c] \in {"compare", "raise"} => Stored(stmt[c].t) # {}
    /\ pc[c] = "set" /\ stmt[c].t \notin behind /\ Stored(stmt[c].t) = {}
       => \A x \in rows[stmt[c].t] : x <= stmt[c].v
    /\ /\ pc[c] \in {"set", "update", "compare", "raise", "insert"}
       /\ stmt[c].auto
       /\ stmt[c].t \in inUse[c]
       /\ stmt[c].t \notin behind
       => \A x \in View(c, stmt[c].t) : x < stmt[c].v

Fresh == \A c \in Conns : FreshFor(c)

(* The inductive invariant: CacheCompact needs only Base, but that a rowid *)
(* is new needs to know what the cached rowid is worth (Covered), and this *)
(* in turn that only tables without uncommitted rows are reset (Owned).    *)
IInv == Base /\ Owned /\ Covered /\ Fresh

LEMMA InitInv == Init => IInv
<1> SUFFICES ASSUME Init PROVE IInv
    BY Zenon
<1>1. Base
    BY InitBase, Zenon
<1>2. Owned
    BY Zenon DEF Init, Owned, OwnedBy, Owns, NoStmt
<1>3. Covered
  <2>1. \A t \in Tables : Stored(t) = {} /\ \A c \in Conns : ins[c][t] = {}
    BY DEF Init, Stored
  <2> QED
    BY <2>1, Zenon DEF Covered, CoveredAt
<1>4. Fresh
    BY Zenon DEF Init, Fresh, FreshFor
<1> QED
    BY <1>1, <1>2, <1>3, <1>4, Zenon DEF IInv

(* The others keep their rowids if the commit of c respects inUse and adds *)
(* no row that the cache does not cover.                                   *)
LEMMA FreshOthers ==
    ASSUME Base, Base', Owned, Fresh, NEW c \in Conns, Frame(c), Survives,
           \A d \in Conns \ {c} : \A t \in lock[d] : t \in behind => t \in behind',
           \A t \in Tables : \A x \in rows'[t] : x \in rows[t] \/ t \in behind \/ x <= Get(t),
           \A d \in Conns \ {c} : \A t \in inUse[d] : rows'[t] = rows[t],
           NEW d \in Conns \ {c}
    PROVE  FreshFor(d)'
<1>1. PICK t, v : t = stmt[d].t /\ v = stmt[d].v
    BY Zenon
<1>2. /\ lock'[d] = lock[d] /\ inUse'[d] = inUse[d] /\ ins'[d] = ins[d]
      /\ stmt'[d] = stmt[d] /\ pc'[d] = pc[d]
    BY Zenon DEF Frame
<1>3. FreshFor(d) /\ OwnedBy(d)
    BY Zenon DEF Fresh, Owned
<1>4. pc[d] \in {"new", "set"} => stmt[d].auto
    BY <1>3, Zenon DEF FreshFor
<1>5. CASE pc[d] \in {"idle", "again"}
    BY <1>2, <1>5, Zenon DEF FreshFor
<1>6. CASE pc[d] \notin {"idle", "again"}
  <2>1. t \in lock[d] /\ t \in Tables /\ v \in Nat
    BY <1>1, <1>3, <1>6, Zenon DEF OwnedBy, Owns, Base, Types, Stmt
  <2>2. Stored(t) # {} => Stored(t)' # {}
    BY <1>2, <2>1, Zenon DEF Survives
  <2>3. t \notin behind' => t \notin behind
    BY <2>1, Zenon
  <2>4. Stored(t)' = {} => Stored(t) = {} /\ Get(t) = 0
    BY <2>2, Zenon DEF Get
  <2>5. ASSUME pc[d] = "set", t \notin behind', Stored(t)' = {}
        PROVE  \A x \in rows'[t] : x <= v
    <3>1. \A x \in rows[t] : x <= v
      BY <1>1, <1>3, <2>3, <2>4, <2>5, Zenon DEF FreshFor
    <3>2. \A x \in rows'[t] : x \in rows[t] \/ x <= 0
      BY <2>1, <2>3, <2>4, <2>5, Zenon
    <3>3. rows'[t] \in RowSet
      BY <2>1, Zenon DEF Base, Types
    <3>4. ASSUME NEW x \in rows'[t] PROVE x <= v
      <4>1. x \in Nat /\ (x <= v \/ x <= 0)
        BY <3>1, <3>2, <3>3, Zenon DEF RowSet
      <4> QED
        BY <2>1, <4>1
    <3> QED
      BY <3>4, Zenon
  <2>6. ASSUME pc[d] \in {"set", "update", "compare", "raise", "insert"}, stmt[d].auto,
               t \in inUse[d], t \notin behind'
        PROVE  \A x \in rows'[t] \cup ins'[d][t] : x < v
    <3>1. \A x \in View(d, t) : x < v
      BY <1>1, <1>3, <2>3, <2>6, Zenon DEF FreshFor
    <3> QED
      BY <1>2, <2>6, <3>1, Zenon DEF View
  <2>7. pc[d] \in {"compare", "raise"} => Stored(t)' # {}
    BY <1>1, <1>3, <2>2, Zenon DEF FreshFor
  <2>8. stmt'[d].t = t /\ stmt'[d].v = v
    BY <1>1, <1>2, Zenon
  <2>9. Stored(stmt[d].t)' = Stored(t)' /\ View(d, stmt[d].t)' = rows'[t] \cup ins'[d][t]
    BY <2>8, Zenon DEF Stored, View
  <2> QED
    BY <1>2, <1>4, <2>5, <2>6, <2>7, <2>8, <2>9, Zenon DEF FreshFor
<1> QED
    BY <1>5, <1>6, Zenon

(* Steps that leave the cache and the committed rows alone. *)
LEMMA CoveredSame ==
    ASSUME Covered, UNCHANGED <<elem, nCache, behind, rows>>,
           \A c \in Conns : \A t \in Tables : ins'[c][t] \subseteq ins[c][t]
    PROVE  Covered'
<1>1. \A t \in Tables : Get(t)' = Get(t) /\ Stored(t)' = Stored(t)
    BY Zenon DEF Get, Stored
<1> QED
    BY <1>1, Zenon DEF Covered, CoveredAt

(* The rest of such a step: what it does to the statement of c. *)
LEMMA StillInv ==
    ASSUME IInv, Base', Survives, Owned', NEW c \in Conns, Frame(c),
           UNCHANGED <<elem, nCache, behind, rows>>,
           \A t \in Tables : ins'[c][t] \subseteq ins[c][t], FreshFor(c)'
    PROVE  IInv'
<1>1. \A d \in Conns : \A t \in Tables : ins'[d][t] \subseteq ins[d][t]
    BY Zenon DEF Frame
<1>2. Covered'
    BY <1>1, CoveredSame, Zenon DEF IInv
<1>3. \A d \in Conns \ {c} : FreshFor(d)'
    BY FreshOthers, Zenon DEF IInv
<1>4. Fresh'
    BY <1>3, Zenon DEF Fresh
<1> QED
    BY <1>2, <1>4, Zenon DEF IInv

(* The steps that leave the cache and the rows alone. *)
LEMMA StillSteps ==
    ASSUME IInv, Base', Survives, NEW c \in Conns,
           \/ OpenCursor(c) \/ Update(c) \/ UpdateCompare(c) \/ NextRow(c)
    PROVE  IInv'
<1>1. Moves(c)
    BY Zenon DEF Moves
<1>2. Owned' /\ Frame(c)
    BY <1>1, OwnedMoves, Zenon DEF IInv
<1>3. UNCHANGED <<elem, nCache, behind, lock, inUse, rows, ins, stmt>>
    BY Zenon DEF OpenCursor, Update, UpdateCompare, NextRow, cacheVars
<1>4. FreshFor(c)
    BY Zenon DEF IInv, Fresh
<1>5. /\ Get(stmt[c].t) # 0 => Stored(stmt[c].t) # {}
      /\ Stored(stmt[c].t)' = Stored(stmt[c].t) /\ View(c, stmt[c].t)' = View(c, stmt[c].t)
    BY <1>3, Zenon DEF Get, Stored, View
<1>6. pc'[c] \in {"last", "new", "update", "compare", "raise", "insert"}
    BY Zenon DEF OpenCursor, Update, UpdateCompare, NextRow, Go, AfterOpen, IInv, Base, Types
<1>7. /\ pc'[c] = "new" => stmt[c].auto
      /\ pc'[c] = "compare" => Get(stmt[c].t) # 0
      /\ pc'[c] = "raise" => pc[c] = "compare"
      /\ pc'[c] \in {"update", "compare", "raise", "insert"} /\ stmt[c].auto
         => pc[c] \in {"update", "compare"}
    BY Zenon DEF OpenCursor, Update, UpdateCompare, NextRow, Go, AfterOpen, IInv, Base, Types
<1>8. FreshFor(c)'
    BY <1>3, <1>4, <1>5, <1>6, <1>7, Zenon DEF FreshFor
<1> QED
    BY <1>2, <1>3, <1>8, StillInv, Zenon

(* The steps that begin a statement, or end it but not its transaction. *)
LEMMA EndsStmt ==
    ASSUME IInv, Base', Survives, NEW c \in Conns,
           \/ BeginAgain(c) \/ EndStmt(c) \/ Fail(c) \/ (Retry(c) /\ UndoStmt(c) /\ UNCHANGED cacheVars)
           \/ \E t \in Tables : \E v \in 0 .. MaxRowid : Begin(c, t, v)
    PROVE  IInv'
<1>1. Owned' /\ Frame(c)
    BY OwnedBeginAgain, OwnedEndStmt, OwnedFail, OwnedRetry, OwnedBegin, Zenon DEF IInv
<1>2. UNCHANGED <<elem, nCache, behind, rows>>
    BY Zenon DEF BeginAgain, EndStmt, Fail, Retry, Begin, cacheVars
<1>3. pc'[c] \in {"open", "idle", "again"}
    BY Zenon DEF BeginAgain, EndStmt, Fail, Retry, Begin, Go, IInv, Base, Types
<1>4. FreshFor(c)'
    BY <1>3, Zenon DEF FreshFor
<1>5. \A t \in Tables : ins'[c][t] \subseteq ins[c][t]
  <2>1. CASE UndoStmt(c) /\ pc[c] # "idle"
    BY <2>1, UndoLeaves, Zenon DEF IInv, Owned, OwnedBy, Owns
  <2>2. CASE ins' = ins
    BY <2>2, Zenon
  <2> QED
    BY <2>1, <2>2, Zenon DEF BeginAgain, EndStmt, Fail, Retry, Begin
<1> QED
    BY <1>1, <1>2, <1>4, <1>5, StillInv, Zenon

(* OP_NewRowid *)
LEMMA NewRowidFresh ==
    ASSUME IInv, Base', Survives, NEW c \in Conns, NewRowid(c) PROVE IInv'
<1>1. Owned' /\ Frame(c)
    BY OwnedNewRowid, Zenon DEF IInv
<1>2. UNCHANGED <<elem, nCache, behind, lock, inUse, rows, ins>> /\ pc[c] = "new" /\ pc'[c] = "set"
    BY Zenon DEF NewRowid, cacheVars, Go, IInv, Base, Types
<1>3. PICK t : t = stmt[c].t
    BY Zenon
<1>4. PICK last : last = IF Get(t) # 0 THEN Get(t) ELSE LastAll(c, t)
    BY Zenon
<1>5. stmt'[c].t = t /\ stmt'[c].auto = stmt[c].auto /\ stmt'[c].v = last + 1
  <2>1. stmt' = [stmt EXCEPT ![c] = [stmt[c] EXCEPT !.v = last + 1]]
    BY <1>3, <1>4, Zenon DEF NewRowid
  <2> QED
    BY <1>3, <2>1 DEF IInv, Base, Types, Stmt
<1>6. t \in Tables /\ stmt[c].auto
    BY <1>2, <1>3, Zenon DEF IInv, Base, Types, Fresh, FreshFor
<1>7. Get(t) \in Nat /\ LastAll(c, t) \in Nat /\ \A x \in View(c, t) : x <= LastAll(c, t)
    BY <1>6, GetType, LastAllType, Zenon DEF IInv, Base
<1>8. View(c, t) \subseteq Nat /\ last \in Nat /\ rows[t] \subseteq View(c, t)
    BY <1>4, <1>6, <1>7, Zenon DEF IInv, Base, Types, RowSet, View
<1>9. ASSUME t \notin behind PROVE \A x \in View(c, t) : x <= last
  <2>1. CASE Get(t) = 0
    BY <1>4, <1>7, <2>1, Zenon
  <2>2. CASE Get(t) # 0
    <3>1. Stored(t) # {}
      BY <2>2, Zenon DEF Get
    <3>2. CoveredAt(t)
      BY <1>6, Zenon DEF IInv, Covered
    <3>3. \A x \in rows[t] \cup ins[c][t] : x <= Get(t)
      BY <1>9, <3>1, <3>2, Zenon DEF CoveredAt
    <3> QED
      BY <1>4, <2>2, <3>3, Zenon DEF View
  <2> QED
    BY <2>1, <2>2, Zenon
<1>10. t \notin behind => \A x \in View(c, t) : x < last + 1 /\ x <= last + 1
    BY <1>8, <1>9
<1>11. View(c, stmt[c].t)' = View(c, t) /\ rows'[t] \subseteq View(c, t)
    BY <1>2, <1>5, <1>8, Zenon DEF View
<1>12. FreshFor(c)'
    BY <1>2, <1>5, <1>6, <1>10, <1>11, Zenon DEF FreshFor
<1> QED
    BY <1>1, <1>2, <1>12, StillInv, Zenon

(* The cached rowid may be set to v: no committed row exceeds it, unless   *)
(* the table is stored already.                                            *)
MaySet(t, v) == t \in behind \/ Stored(t) # {} \/ \A x \in rows[t] : x <= v

LEMMA CoveredSet ==
    ASSUME IInv, NEW t \in Tables, NEW v \in Nat, Set(t, v), UNCHANGED <<rows, ins>>, MaySet(t, v)
    PROVE  Covered' /\ behind \subseteq behind'
<1>1. /\ behind \subseteq behind'
      /\ \A u \in Tables \ {t} : SameCache(u)
      /\ \/ SameCache(t)
         \/ Get(t)' = v /\ Stored(t)' # {} /\ (t \notin behind' => Get(t) <= v)
    BY SetEffect, Zenon DEF IInv, Base
<1>2. ASSUME NEW u \in Tables, SameCache(u) PROVE CoveredAt(u)'
    BY <1>1, <1>2, Zenon DEF IInv, Covered, CoveredAt, SameCache
<1>3. ASSUME Get(t)' = v, t \notin behind', Get(t) <= v
      PROVE  CoveredAt(t)'
  <2>1. Get(t) \in Nat
    BY GetType, Zenon DEF IInv, Base
  <2>2. t \notin behind /\ CoveredAt(t)
    BY <1>1, <1>3, Zenon DEF IInv, Covered
  <2>3. ASSUME NEW c \in Conns, NEW x \in ins[c][t] PROVE x <= v
    <3>1. ins[c][t] \in RowSet
      BY Zenon DEF IInv, Base, Types
    <3>2. x \in Nat /\ x <= Get(t)
      BY <2>2, <3>1, Zenon DEF CoveredAt, RowSet
    <3> QED
      BY <1>3, <2>1, <3>2
  <2>4. ASSUME NEW x \in rows[t] PROVE x <= v
    <3>1. rows[t] \in RowSet
      BY Zenon DEF IInv, Base, Types
    <3>2. x \in Nat
      BY <3>1, Zenon DEF RowSet
    <3>3. CASE Stored(t) # {}
      <4>1. x <= Get(t)
        BY <2>2, <3>3, Zenon DEF CoveredAt
      <4> QED
        BY <1>3, <2>1, <3>2, <4>1
    <3>4. CASE Stored(t) = {}
      BY <2>2, <3>4, Zenon DEF MaySet
    <3> QED
      BY <3>3, <3>4, Zenon
  <2> QED
    BY <1>3, <2>3, <2>4, Zenon DEF CoveredAt
<1>4. ASSUME t \in behind' PROVE CoveredAt(t)'
    BY <1>4, Zenon DEF CoveredAt
<1> QED
    BY <1>1, <1>2, <1>3, <1>4, Zenon DEF Covered

(* The three steps that set the cached rowid. *)
LEMMA SetSteps ==
    ASSUME IInv, Base', Survives, NEW c \in Conns,
           OpenCursorLast(c) \/ NewRowidSet(c) \/ UpdateSet(c)
    PROVE  IInv'
<1>1. Moves(c)
    BY Zenon DEF Moves
<1>2. Owned' /\ Frame(c)
    BY <1>1, OwnedMoves, Zenon DEF IInv
<1>3. UNCHANGED <<lock, inUse, rows, ins, stmt>> /\ pc[c] \in {"last", "set", "raise"}
    BY Zenon DEF OpenCursorLast, NewRowidSet, UpdateSet
<1>4. PICK t : t = stmt[c].t
    BY Zenon
<1>5. FreshFor(c) /\ t \in Tables /\ stmt[c].v \in Nat
    BY <1>3, <1>4, Zenon DEF IInv, Fresh, Base, Types, Stmt
<1>6. LastAll(c, t) \in Nat /\ \A x \in rows[t] : x <= LastAll(c, t)
    BY <1>5, LastAllType, Zenon DEF IInv, Base, View
<1>7. PICK v \in Nat : Set(t, v) /\ MaySet(t, v)
  <2>1. CASE OpenCursorLast(c)
    BY <1>4, <1>6, <2>1, Zenon DEF OpenCursorLast, MaySet
  <2>2. CASE NewRowidSet(c)
    BY <1>4, <1>5, <2>2, Zenon DEF NewRowidSet, FreshFor, MaySet
  <2>3. CASE UpdateSet(c)
    BY <1>4, <1>5, <2>3, Zenon DEF UpdateSet, FreshFor, MaySet
  <2> QED
    BY <2>1, <2>2, <2>3, Zenon
<1>8. Covered' /\ behind \subseteq behind'
    BY <1>3, <1>5, <1>7, CoveredSet, Zenon
<1>9. \A d \in Conns \ {c} : FreshFor(d)'
    BY <1>2, <1>3, <1>8, FreshOthers, Zenon DEF IInv
<1>10. /\ pc'[c] \in {"new", "update", "insert"}
       /\ pc'[c] = "new" => stmt[c].auto
       /\ pc'[c] # "new" /\ stmt[c].auto => pc[c] \in {"set", "raise"}
    BY Zenon DEF OpenCursorLast, NewRowidSet, UpdateSet, Go, AfterOpen, IInv, Base, Types
<1>11. View(c, stmt[c].t)' = View(c, stmt[c].t)
    BY <1>3, Zenon DEF View
<1>12. FreshFor(c)'
    BY <1>3, <1>5, <1>8, <1>10, <1>11, Zenon DEF FreshFor
<1>13. Fresh'
    BY <1>9, <1>12, Zenon DEF Fresh
<1> QED
    BY <1>2, <1>8, <1>13, Zenon DEF IInv

LEMMA InsertCovered ==
    ASSUME IInv, Base', Survives, NEW c \in Conns, Insert(c) PROVE IInv'
<1>1. PICK t, v : t = stmt[c].t /\ v = stmt[c].v
    BY Zenon
<1>2. /\ Owned' /\ Frame(c)
      /\ \A u \in Tables : ins'[c][u] = IF u = t THEN ins[c][u] \cup {v} ELSE ins[c][u]
    BY <1>1, OwnedInsert, Zenon DEF IInv
<1>3. /\ UNCHANGED <<elem, nCache, rows>> /\ pc'[c] = "more"
      /\ behind' = behind \cup IF v > Get(t) THEN {t} ELSE {}
    BY <1>1, Zenon DEF Insert, Go, IInv, Base, Types
<1>4. v \in Nat /\ Get(t) \in Nat
  <2>1. Get(t) \in Nat
    BY GetType, Zenon DEF IInv, Base
  <2> QED
    BY <1>1, <2>1, Zenon DEF IInv, Base, Types, Stmt
<1>5. ASSUME NEW u \in Tables, u \notin behind'
      PROVE  /\ \A d \in Conns : \A x \in ins'[d][u] : x <= Get(u)
             /\ Stored(u) # {} => \A x \in rows[u] : x <= Get(u)
  <2>1. u \notin behind /\ (u = t => v <= Get(u))
    BY <1>3, <1>4, <1>5
  <2>2. /\ \A d \in Conns : \A x \in ins[d][u] : x <= Get(u)
        /\ Stored(u) # {} => \A x \in rows[u] : x <= Get(u)
    BY <2>1, Zenon DEF IInv, Covered, CoveredAt
  <2>3. ASSUME NEW d \in Conns, NEW x \in ins'[d][u] PROVE x \in ins[d][u] \/ (u = t /\ x = v)
    BY <1>2, <2>3, Zenon DEF Frame
  <2> QED
    BY <2>1, <2>2, <2>3, Zenon
<1>6. \A u \in Tables : Get(u)' = Get(u) /\ Stored(u)' = Stored(u)
    BY <1>3, Zenon DEF Get, Stored
<1>7. Covered'
    BY <1>3, <1>5, <1>6, Zenon DEF Covered, CoveredAt
<1>8. \A d \in Conns \ {c} : FreshFor(d)'
    BY <1>2, <1>3, FreshOthers, Zenon DEF IInv
<1>9. Fresh'
    BY <1>3, <1>8, Zenon DEF Fresh, FreshFor
<1> QED
    BY <1>2, <1>7, <1>9, Zenon DEF IInv

(* The end of a transaction: rows is as before, or has the rows of c too.  *)
LEMMA ReleaseCovered ==
    ASSUME IInv, NEW c \in Conns, Release(c),
           \A t \in Tables : rows'[t] = rows[t] \/ rows'[t] = rows[t] \cup ins[c][t]
    PROVE  /\ Covered'
           /\ \A d \in Conns \ {c} : \A t \in lock[d] : t \in behind => t \in behind'
           /\ \A t \in Tables : \A x \in rows'[t] : x \in rows[t] \/ t \in behind \/ x <= Get(t)
<1>1. PICK u \in SUBSET Tables :
               /\ Reset(u)
               /\ \A t \in Tables : t \in u <=> \A d \in Conns : t \notin lock'[d]
    BY ReleaseEffect, Zenon DEF IInv
<1>2. /\ behind' = behind \ u
      /\ \A t \in Tables \ u : SameCache(t)
    BY <1>1, ResetEffect, Zenon DEF IInv, Base
<1>3. /\ \A t \in Tables : ins'[c][t] = {}
      /\ \A d \in Conns \ {c} : lock'[d] = lock[d] /\ ins'[d] = ins[d]
    BY ReleaseLeaves, Zenon DEF IInv
<1>4. \A t \in Tables : \A x \in rows'[t] : x \in rows[t] \/ t \in behind \/ x <= Get(t)
    BY Zenon DEF IInv, Covered, CoveredAt
<1>5. ASSUME NEW t \in u PROVE CoveredAt(t)'
  <2>1. t \in Tables /\ Stored(t)' = {}
    BY <1>1, ResetForgets, Zenon DEF IInv, Base
  <2>2. \A d \in Conns \ {c} : t \notin lock[d]
    BY <1>1, <1>3, <2>1, Zenon
  <2>3. \A d \in Conns : ins[d][t] # {} => t \in lock[d]
    BY <2>1, Zenon DEF IInv, Owned, OwnedBy, Owns
  <2>4. \A d \in Conns : ins'[d][t] = {}
    BY <1>3, <2>1, <2>2, <2>3, Zenon
  <2> QED
    BY <2>1, <2>4, Zenon DEF CoveredAt
<1>6. ASSUME NEW t \in Tables \ u PROVE CoveredAt(t)'
  <2>1. SameCache(t) /\ (t \notin behind' => t \notin behind)
    BY <1>2, Zenon
  <2>2. \A d \in Conns : ins'[d][t] \subseteq ins[d][t]
    BY <1>3, Zenon
  <2>3. CoveredAt(t)
    BY Zenon DEF IInv, Covered
  <2> QED
    BY <1>4, <2>1, <2>2, <2>3, Zenon DEF CoveredAt, SameCache
<1>7. \A d \in Conns \ {c} : \A t \in lock[d] : t \in behind => t \in behind'
    BY <1>1, <1>2, <1>3, Zenon
<1> QED
    BY <1>4, <1>5, <1>6, <1>7, Zenon DEF Covered

(* The steps that end a transaction. *)
LEMMA ReleaseSteps ==
    ASSUME IInv, Base', Survives, NEW c \in Conns,
           Rollback(c) \/ Commit(c) \/ (Retry(c) /\ Release(c))
    PROVE  IInv'
<1>1. Owned' /\ Frame(c)
    BY OwnedEnd, OwnedRetry, Zenon DEF IInv
<1>2. Release(c) /\ pc'[c] \in {"idle", "again"}
    BY Zenon DEF Rollback, Commit, Retry, Go, IInv, Base, Types
<1>3. \A t \in Tables : rows'[t] = rows[t] \/ rows'[t] = rows[t] \cup ins[c][t]
    BY Zenon DEF Rollback, Commit, Retry
<1>4. \A d \in Conns \ {c} : \A t \in inUse[d] : rows'[t] = rows[t]
  <2>1. CASE rows' = rows
    BY <2>1, Zenon
  <2>2. CASE Commit(c)
    <3>1. \A d \in Conns \ {c} : \A t \in inUse[d] : t \in Tables /\ ins[c][t] = {}
      BY <2>2, Zenon DEF Commit, CommitGranted, IInv, Base, Types
    <3> QED
      BY <1>3, <3>1, Zenon
  <2> QED
    BY <2>1, <2>2, Zenon DEF Rollback, Retry
<1>5. /\ Covered'
      /\ \A d \in Conns \ {c} : \A t \in lock[d] : t \in behind => t \in behind'
      /\ \A t \in Tables : \A x \in rows'[t] : x \in rows[t] \/ t \in behind \/ x <= Get(t)
    BY <1>2, <1>3, ReleaseCovered, Zenon
<1>6. \A d \in Conns \ {c} : FreshFor(d)'
    BY <1>1, <1>4, <1>5, FreshOthers, Zenon DEF IInv
<1>7. Fresh'
    BY <1>2, <1>6, Zenon DEF Fresh, FreshFor
<1> QED
    BY <1>1, <1>5, <1>7, Zenon DEF IInv

(* A table is dropped when nobody uses it. *)
LEMMA DropCovered ==
    ASSUME IInv, Base', NEW c \in Conns, NEW t \in Tables, DropTable(c, t) PROVE IInv'
<1>1. /\ UNCHANGED <<lock, inUse, ins, stmt, pc>> /\ rows' = [rows EXCEPT ![t] = {}]
      /\ DropCached(t) /\ \A d \in Conns : pc[d] = "idle" /\ t \notin lock[d]
    BY Zenon DEF DropTable
<1>2. Owned'
    BY <1>1, Zenon DEF IInv, Owned, OwnedBy, Owns
<1>3. Fresh'
    BY <1>1, Zenon DEF Fresh, FreshFor
<1>4. /\ behind \ {t} \subseteq behind'
      /\ \A u \in Tables \ {t} : SameCache(u)
      /\ Stored(t)' = {}
    BY <1>1, DropEffect, Zenon DEF IInv, Base
<1>5. CoveredAt(t)'
  <2>1. \A d \in Conns : ins[d][t] # {} => t \in lock[d]
    BY Zenon DEF IInv, Owned, OwnedBy, Owns
  <2>2. \A d \in Conns : ins'[d][t] = {}
    BY <1>1, <2>1, Zenon
  <2> QED
    BY <1>4, <2>2, Zenon DEF CoveredAt
<1>6. ASSUME NEW u \in Tables \ {t} PROVE CoveredAt(u)'
  <2>1. rows'[u] = rows[u] /\ CoveredAt(u) /\ SameCache(u) /\ (u \notin behind' => u \notin behind)
    BY <1>1, <1>4, Zenon DEF IInv, Covered, Base, Types
  <2> QED
    BY <1>1, <2>1, Zenon DEF CoveredAt, SameCache
<1>7. Covered'
    BY <1>5, <1>6, Zenon DEF Covered
<1> QED
    BY <1>2, <1>3, <1>7, Zenon DEF IInv

(* Every action keeps the inductive invariant. *)
LEMMA NextInv == ASSUME IInv, Next PROVE IInv'
<1>1. Base' /\ Survives
    BY NextBase, Zenon DEF IInv
<1>2. ASSUME NEW c \in Conns, Retry(c) PROVE IInv'
    BY <1>1, <1>2, EndsStmt, ReleaseSteps, Zenon DEF Retry
<1> QED
    BY <1>1, <1>2, StillSteps, SetSteps, NewRowidFresh, InsertCovered, EndsStmt, ReleaseSteps,
       DropCovered, Zenon DEF Next

LEMMA InvHolds == Spec => []IInv
<1>1. ASSUME IInv, UNCHANGED vars PROVE IInv'
  <2>1. Base'
    BY <1>1, Zenon DEF vars, IInv, Base, Types
  <2>2. Owned'
    BY <1>1, Zenon DEF vars, IInv, Owned, OwnedBy
  <2>3. \A t : Get(t)' = Get(t) /\ Stored(t)' = Stored(t)
    BY <1>1, Zenon DEF vars, Get, Stored
  <2>4. \A t \in Tables : CoveredAt(t) => CoveredAt(t)'
    BY <1>1, <2>3, Zenon DEF vars, CoveredAt
  <2>5. \A c \in Conns : FreshFor(c) => FreshFor(c)'
    BY <1>1, <2>3, Zenon DEF vars, FreshFor, View
  <2> QED
    BY <1>1, <2>1, <2>2, <2>4, <2>5, Zenon DEF IInv, Covered, Fresh
<1>2. IInv /\ [Next]_vars => IInv'
    BY <1>1, NextInv, Zenon
<1> QED
    BY <1>2, InitInv, PTL DEF Spec

------------------------------------------------------------------------------

(* An automatic rowid is new if the cached rowid is not behind and the     *)
(* statement has set inUse, for any number of connections, tables,         *)
(* statements of a transaction, retries and elements of the cache.         *)
THEOREM NewRowidIsNewHolds == Spec => []NewRowidIsNewIfCached
<1>0. \A x \in Nat : ~ (x < x)
    OBVIOUS
<1>1. IInv => NewRowidIsNewIfCached
  <2> SUFFICES ASSUME IInv, NEW c \in Conns, pc[c] = "insert", stmt[c].auto,
                      stmt[c].t \in inUse[c] \ behind
               PROVE  stmt[c].v \notin View(c, stmt[c].t)
    BY Zenon DEF NewRowidIsNewIfCached
  <2>1. \A x \in View(c, stmt[c].t) : x < stmt[c].v
    BY Zenon DEF IInv, Fresh, FreshFor
  <2>2. stmt[c].v \in Nat
    BY Zenon DEF IInv, Base, Types, Stmt
  <2> QED
    BY <1>0, <2>1, <2>2, Zenon
<1> QED
    BY <1>1, InvHolds, PTL
=============================================================================
