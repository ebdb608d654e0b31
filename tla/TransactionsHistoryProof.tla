---------------------- MODULE TransactionsHistoryProof -----------------------
(***************************************************************************)
(* Lemmas for TransactionsProof about lock histories and savepoints: what  *)
(* the loop of rowlockSavepoint leaves of a transaction, what an entry     *)
(* that is added to a history changes for the savepoints before it, and    *)
(* when going back to a savepoint restores the table lock and the flag of  *)
(* DELETE without WHERE.  Nothing here is about steps.                     *)
(***************************************************************************)
EXTENDS Transactions, TLAPS

USE DEF NOT_LOCKED, READ, WRITE, WRITEEX, EXCLSV

(* The natural numbers are well-ordered.  The lemmas that need it have it  *)
(* as an assumption; TransactionsProof discharges it.                      *)
Least == \A S \in SUBSET Nat : S # {} => \E m \in S : \A n \in S : m <= n

(* Induction from 0 to n over a set of numbers. *)
LEMMA UpTo ==
    ASSUME Least,
           NEW n \in Nat, NEW S, 0 \in S, \A k \in 0 .. n - 1 : k \in S => k + 1 \in S
    PROVE  0 .. n \subseteq S
<1> SUFFICES ASSUME (0 .. n) \ S # {} PROVE FALSE
    BY Zenon
<1>1. PICK m \in (0 .. n) \ S : \A k \in (0 .. n) \ S : m <= k
  <2>1. (0 .. n) \ S \in SUBSET Nat
    OBVIOUS
  <2> QED
    BY <2>1, Zenon DEF Least
<1> QED
    BY <1>1

------------------------------------------------------------------------------
(* Transactions, locks, savepoints and history entries *)

Tx == [root : {"none", "flag", "btree"}, deleteAll : {0, 1},
       ins : SUBSET Rows, del : SUBSET Rows, begun : BOOLEAN]
Lock == [level : NOT_LOCKED .. EXCLSV, inUse : BOOLEAN]
SaveRec == [n : Nat, ins : SUBSET Rows, del : SUBSET Rows, deleteAll : {0, 1},
            level : NOT_LOCKED .. EXCLSV, rows : SUBSET Rows]

(* A history entry of a flag remembers a flag. *)
Event == {e \in Entry : e.type = "clear" => e.prev \in {0, 1}}

(* Entries of the history. *)
NewEntry == [type |-> "new", prev |-> 0, row |-> NoConn]
LevelEntry(lv) == [type |-> "lock", prev |-> lv, row |-> NoConn]
RowEntry(r) == [type |-> "row", prev |-> 0, row |-> r]
ClearEntry(da) == [type |-> "clear", prev |-> da, row |-> NoConn]
Levels == NOT_LOCKED .. EXCLSV

LEMMA EntryTypes ==
    /\ NewEntry \in Event
    /\ \A r \in Rows : RowEntry(r) \in Event
    /\ \A lv \in NOT_LOCKED .. EXCLSV : LevelEntry(lv) \in Event
    /\ \A da \in {0, 1} : ClearEntry(da) \in Event
BY DEF NewEntry, LevelEntry, RowEntry, ClearEntry, Event, Entry

LEMMA EntryFields ==
    /\ NewEntry.type = "new" /\ NewEntry.prev = 0
    /\ \A r : RowEntry(r).type = "row" /\ RowEntry(r).row = r
    /\ \A lv : LevelEntry(lv).type = "lock" /\ LevelEntry(lv).prev = lv
    /\ \A da : ClearEntry(da).type = "clear" /\ ClearEntry(da).prev = da
BY Zenon DEF NewEntry, RowEntry, LevelEntry, ClearEntry

LEMMA SaveFields ==
    ASSUME NEW sp \in SaveRec
    PROVE  sp.n \in Nat /\ sp.level \in Levels /\ sp.deleteAll \in {0, 1} /\ sp.rows \subseteq Rows
BY Zenon DEF SaveRec, Levels

------------------------------------------------------------------------------
(* Sequences *)

LEMMA Appended ==
    ASSUME NEW S, NEW s \in Seq(S), NEW e \in S
    PROVE  /\ Append(s, e) \in Seq(S) /\ Len(Append(s, e)) = Len(s) + 1
           /\ \A i \in 1 .. Len(s) : Append(s, e)[i] = s[i]
           /\ Append(s, e)[Len(s) + 1] = e
           /\ s \o <<>> = s /\ s \o <<e>> = Append(s, e)
OBVIOUS

LEMMA Cut ==
    ASSUME NEW S, NEW s \in Seq(S), NEW k \in 0 .. Len(s)
    PROVE  /\ SubSeq(s, 1, k) \in Seq(S) /\ Len(SubSeq(s, 1, k)) = k
           /\ \A i \in 1 .. k : SubSeq(s, 1, k)[i] = s[i]
OBVIOUS

LEMMA SavesAre ==
    ASSUME NEW s \in Seq(SaveRec), NEW i \in 1 .. Len(s) PROVE s[i] \in SaveRec /\ s[i].n \in Nat
<1>1. s[i] \in SaveRec
    OBVIOUS
<1> QED
    BY <1>1, Zenon DEF SaveRec

(* The savepoints are marks in the history, in their order. *)
Marks(s, h) ==
    \A i \in 1 .. Len(s) : s[i].n <= Len(h) /\ \A j \in 1 .. Len(s) : i <= j => s[i].n <= s[j].n

LEMMA MarksCut ==
    ASSUME NEW s \in Seq(SaveRec), NEW h \in Seq(Event), Marks(s, h), NEW k \in 0 .. Len(s)
    PROVE  Marks(SubSeq(s, 1, k), h)
BY Cut DEF Marks

LEMMA MarksBack ==
    ASSUME NEW s \in Seq(SaveRec), NEW h \in Seq(Event), Marks(s, h), NEW k \in 1 .. Len(s)
    PROVE  /\ s[k].n \in 0 .. Len(h)
           /\ Marks(SubSeq(s, 1, k), SubSeq(h, 1, s[k].n))
           /\ Marks(SubSeq(s, 1, k - 1), SubSeq(h, 1, s[k].n))
<1>1. Len(h) \in Nat /\ Len(s) \in Nat /\ k \in 0 .. Len(s) /\ k - 1 \in 0 .. Len(s)
    OBVIOUS
<1>2. s[k].n \in 0 .. Len(h)
    BY <1>1, SavesAre DEF Marks
<1>4. ASSUME NEW m \in 0 .. Len(s), m <= k PROVE Marks(SubSeq(s, 1, m), SubSeq(h, 1, s[k].n))
    BY SMTT(30), <1>1, <1>2, <1>4, Cut DEF Marks
<1> QED
    BY <1>1, <1>2, <1>4

LEMMA MarksAppend ==
    ASSUME NEW s \in Seq(SaveRec), NEW h \in Seq(Event), Marks(s, h), NEW sp \in SaveRec, sp.n = Len(h)
    PROVE  Marks(Append(s, sp), h)
BY Appended DEF Marks, SaveRec

LEMMA MarksLonger ==
    ASSUME NEW s \in Seq(SaveRec), NEW h \in Seq(Event), Marks(s, h), NEW g \in Seq(Event), Len(h) <= Len(g)
    PROVE  Marks(s, g)
<1> QED
    BY SavesAre DEF Marks

LEMMA SaveAt ==
    ASSUME NEW s \in Seq(SaveRec), NEW h \in Seq(Event), Marks(s, h), NEW i \in 1 .. Len(s)
    PROVE  s[i] \in SaveRec /\ s[i].n \in 0 .. Len(h)
BY SavesAre, MarksBack, Zenon

------------------------------------------------------------------------------
(* Undoing the history *)

None(h, n, T) == \A i \in n + 1 .. Len(h) : h[i].type \notin T
First(h, n, T, i) ==
    /\ i \in n + 1 .. Len(h)
    /\ h[i].type \in T
    /\ \A j \in n + 1 .. i - 1 : h[j].type \notin T
Locking == {"lock", "new"}
Flagging == {"clear", "new"}

(* Row r has been locked after the first n entries. *)
Released(h, n, r) == \E i \in n + 1 .. Len(h) : h[i].type = "row" /\ h[i].row = r
Result == [root : {"none", "flag", "btree"}, deleteAll : {0, 1}, level : NOT_LOCKED .. EXCLSV,
           free : SUBSET (Rows \cup {NoConn})]

(* What is left of the entries after the first n of history h, where the   *)
(* transaction had root, da and level lv: u.                               *)
Undoes(u, h, n, root, da, lv) ==
    /\ u \in Result
    /\ u.root = IF None(h, n, {"new"}) THEN root ELSE "none"
    /\ None(h, n, Locking) => u.level = lv
    /\ \A i \in 1 .. Len(h) : First(h, n, Locking, i) => u.level = h[i].prev
    /\ None(h, n, Flagging) => u.deleteAll = da
    /\ \A i \in 1 .. Len(h) : First(h, n, Flagging, i) =>
          \/ h[i].type = "new" /\ u.deleteAll = 0
          \/ h[i].type = "clear" /\ (u.deleteAll = h[i].prev \/ (u.deleteAll = 0 /\ u.root = "none"))
    /\ \A r : r \in u.free <=> Released(h, n, r)

LEMMA UndoesEnd ==
    ASSUME NEW h \in Seq(Event), NEW t \in Tx, NEW l \in NOT_LOCKED .. EXCLSV
    PROVE  Undoes([root |-> t.root, deleteAll |-> t.deleteAll, level |-> l, free |-> {}],
                  h, Len(h), t.root, t.deleteAll, l)
<1> QED
    BY DEF Undoes, Result, Tx, None, First, Released

(* One entry more: what None, First and Released say from n on. *)
LEMMA OneBefore ==
    ASSUME NEW h \in Seq(Event), NEW n \in 0 .. Len(h) - 1, NEW T
    PROVE  /\ None(h, n, T) <=> h[n + 1].type \notin T /\ None(h, n + 1, T)
           /\ \A i \in 1 .. Len(h) : First(h, n, T, i) =>
                 \/ i = n + 1 /\ h[i].type \in T
                 \/ h[n + 1].type \notin T /\ First(h, n + 1, T, i)
           /\ \A r : Released(h, n, r) <=>
                 (h[n + 1].type = "row" /\ h[n + 1].row = r) \/ Released(h, n + 1, r)
<1>1. Len(h) \in Nat /\ n \in Nat
    OBVIOUS
<1>2. \A i \in n + 1 .. Len(h) : i = n + 1 \/ i \in n + 1 + 1 .. Len(h)
    BY <1>1
<1>6. ASSUME NEW i \in 1 .. Len(h), First(h, n, T, i), i # n + 1
      PROVE  h[n + 1].type \notin T /\ First(h, n + 1, T, i)
    BY <1>1, <1>2, <1>6 DEF First
<1> QED
    BY SMTT(30), <1>1, <1>2, <1>6 DEF First, None, Released

LEMMA UndoesOne ==
    ASSUME NEW h \in Seq(Event), NEW n \in 0 .. Len(h) - 1, NEW root, NEW da, NEW lv,
           NEW u, Undoes(u, h, n + 1, root, da, lv)
    PROVE  Undoes(UndoEntry(u, h[n + 1]), h, n, root, da, lv)
<1> DEFINE e == h[n + 1]
           v == UndoEntry(u, e)
<1>2. u \in Result
    BY Zenon DEF Undoes
<1>3. /\ e.type \in {"row", "new", "lock", "clear"} /\ e.prev \in NOT_LOCKED .. EXCLSV
      /\ e.row \in Rows \cup {NoConn} /\ (e.type = "clear" => e.prev \in {0, 1})
    BY DEF Event, Entry
<1>4. /\ v \in Result
      /\ v.root = IF e.type = "new" THEN "none" ELSE u.root
      /\ v.level = IF e.type \in Locking THEN e.prev ELSE u.level
      /\ v.deleteAll = IF e.type = "new" THEN 0
                       ELSE IF e.type = "clear" THEN (IF u.root = "none" THEN 0 ELSE e.prev)
                       ELSE u.deleteAll
      /\ v.free = IF e.type = "row" THEN u.free \cup {e.row} ELSE u.free
  <2> HIDE DEF e
  <2>1. CASE e.type = "row"
    BY <1>2, <1>3, <2>1, Zenon DEF UndoEntry, Result, Locking
  <2>2. CASE e.type = "new"
    BY <1>2, <1>3, <2>2, Zenon DEF UndoEntry, Result, Locking
  <2>3. CASE e.type = "lock"
    BY <1>2, <1>3, <2>3, Zenon DEF UndoEntry, Result, Locking
  <2>4. CASE e.type = "clear"
    BY <1>2, <1>3, <2>4, Zenon DEF UndoEntry, Result, Locking
  <2> QED
    BY <1>3, <2>1, <2>2, <2>3, <2>4, Zenon
<1> HIDE DEF v
<1>8. None(h, n, Flagging) => v.deleteAll = da
    BY <1>4, OneBefore DEF Undoes, Flagging
<1>9. ASSUME NEW i \in 1 .. Len(h), First(h, n, Flagging, i)
      PROVE  \/ h[i].type = "new" /\ v.deleteAll = 0
             \/ h[i].type = "clear" /\ (v.deleteAll = h[i].prev \/ (v.deleteAll = 0 /\ v.root = "none"))
  <2>1. CASE i = n + 1 /\ e.type \in Flagging
    BY <1>3, <1>4, <2>1, Zenon DEF Flagging
  <2>2. CASE e.type \notin Flagging /\ First(h, n + 1, Flagging, i)
    BY <1>4, <2>2, Zenon DEF Undoes, Flagging
  <2> QED
    BY <1>9, <2>1, <2>2, OneBefore, Zenon
<1>10. \A r : r \in v.free <=> Released(h, n, r)
    BY <1>4, OneBefore, ZenonT(30) DEF Undoes
<1> QED
    BY <1>4, <1>8, <1>9, <1>10, OneBefore, Zenon DEF Undoes, v

(* f is the loop from the end of the history h down to its entry k + 1. *)
Body(f, h, u, i) == IF i = Len(h) THEN u ELSE UndoEntry(f[i + 1], h[i + 1])
Loop(f, h, u, k) == f = [i \in k .. Len(h) |-> Body(f, h, u, i)]

(* The recursion of Undone is well defined. *)
LEMMA LoopExists ==
    ASSUME Least,
           NEW h \in Seq(Event), NEW u, NEW n \in 0 .. Len(h) PROVE \E f : Loop(f, h, u, n)
<1> DEFINE m == Len(h) - n
           S == {j \in 0 .. m : \E f : Loop(f, h, u, Len(h) - j)}
<1>0. Len(h) \in Nat /\ m \in Nat /\ Len(h) - m = n
    OBVIOUS
<1>1. 0 \in S
  <2> DEFINE f == [i \in Len(h) .. Len(h) |-> u]
  <2>2. Loop(f, h, u, Len(h) - 0)
    BY <1>0 DEF Loop, Body
  <2> HIDE DEF f
  <2> QED
    BY <1>0, <2>2
<1>2. ASSUME NEW j \in 0 .. m - 1, j \in S PROVE j + 1 \in S
  <2> DEFINE k == Len(h) - (j + 1)
  <2>1. k \in Nat /\ k < Len(h) /\ k + 1 = Len(h) - j
    BY <1>0
  <2>2. PICK g : Loop(g, h, u, k + 1)
    BY <1>2, <2>1, Zenon
  <2> HIDE DEF k
  <2> DEFINE f == [i \in k .. Len(h) |-> IF i = k THEN UndoEntry(g[k + 1], h[k + 1]) ELSE g[i]]
  <2>3. ASSUME NEW i \in k .. Len(h) PROVE f[i] = Body(f, h, u, i)
    <3>1. CASE i = k
      <4>1. k + 1 \in k .. Len(h) /\ k + 1 # k /\ k # Len(h)
        BY <1>0, <2>1
      <4>2. f[k + 1] = g[k + 1] /\ f[k] = UndoEntry(g[k + 1], h[k + 1])
        BY <2>1, <4>1
      <4> HIDE DEF f
      <4> QED
        BY <3>1, <4>1, <4>2, Zenon DEF Body
    <3>2. CASE i # k
      <4>1. i \in k + 1 .. Len(h) /\ f[i] = g[i]
        BY <1>0, <2>1, <3>2
      <4>3. i # Len(h) => f[i + 1] = g[i + 1]
        BY <1>0, <2>1, <4>1
      <4> HIDE DEF f
      <4> QED
        BY <2>2, <4>1, <4>3, Zenon DEF Body, Loop
    <3> QED
      BY <3>1, <3>2, Zenon
  <2>4. Loop(f, h, u, k)
    BY <2>3, Zenon DEF Loop
  <2> HIDE DEF f
  <2> QED
    BY <1>0, <2>1, <2>4 DEF k
<1>3. 0 .. m \subseteq S
  <2> HIDE DEF S, m
  <2> QED
    BY <1>0, <1>1, <1>2, UpTo, Zenon
<1>4. m \in S
  <2> HIDE DEF S, m
  <2> QED
    BY <1>0, <1>3
<1> QED
    BY <1>0, <1>4, Zenon

(* What rowlockSavepoint computes when it goes back to savepoint sp. *)
LEMMA UndoneIs ==
    ASSUME Least, NEW c \in Conns, hist[c] \in Seq(Event), tx[c] \in Tx, lock[c] \in Lock,
           NEW sp, sp.n \in 0 .. Len(hist[c])
    PROVE  Undoes(Undone(c, sp), hist[c], sp.n, tx[c].root, tx[c].deleteAll, lock[c].level)
<1> DEFINE u == [root |-> tx[c].root, deleteAll |-> tx[c].deleteAll, level |-> lock[c].level,
                 free |-> {}]
           f == CHOOSE g : Loop(g, hist[c], u, sp.n)
<1>1. Loop(f, hist[c], u, sp.n)
  <2> HIDE DEF u
  <2> QED
    BY LoopExists, Zenon
<1>2. Undone(c, sp) = f[sp.n]
    BY Zenon DEF Undone, Loop, Body
<1> HIDE DEF f
<1>3. PICK h \in Seq(Event), n \in 0 .. Len(hist[c]) : h = hist[c] /\ n = sp.n
    BY Zenon
<1>4. \A i \in n .. Len(h) : f[i] = Body(f, h, u, i)
    BY <1>1, <1>3, Zenon DEF Loop
<1>5. Undoes(u, h, Len(h), tx[c].root, tx[c].deleteAll, lock[c].level)
    BY UndoesEnd, ZenonT(30) DEF Lock
<1> HIDE DEF u
<1> DEFINE OK(k) == Undoes(f[k], h, k, tx[c].root, tx[c].deleteAll, lock[c].level)
           m == Len(h) - n
           S == {j \in 0 .. m : OK(Len(h) - j)}
<1>6. Len(h) \in Nat /\ n \in Nat /\ m \in Nat /\ n <= Len(h) /\ Len(h) - m = n
    BY <1>3
<1>7. 0 \in S
    BY <1>4, <1>5, <1>6 DEF Body
<1>8. ASSUME NEW j \in 0 .. m - 1, j \in S PROVE j + 1 \in S
  <2> DEFINE k == Len(h) - (j + 1)
  <2>1. k \in 0 .. Len(h) - 1 /\ k \in n .. Len(h) /\ k # Len(h) /\ k + 1 = Len(h) - j
    BY <1>6
  <2> HIDE DEF k
  <2>4. OK(k)
    BY <1>4, <1>8, <2>1, UndoesOne, Zenon DEF Body
  <2> QED
    BY <1>6, <2>4 DEF k
<1>9. 0 .. m \subseteq S
  <2> HIDE DEF S, m
  <2> QED
    BY <1>6, <1>7, <1>8, UpTo, Zenon
<1>10. OK(n)
  <2>1. m \in S
    <3> HIDE DEF S, m
    <3> QED
      BY <1>6, <1>9
  <2> HIDE DEF m
  <2> QED
    BY <1>6, <2>1, Zenon
<1> QED
    BY <1>2, <1>3, <1>10, Zenon

LEMMA AppendFirst ==
    ASSUME NEW h \in Seq(Event), NEW e \in Event, NEW n \in 0 .. Len(h), NEW T
    PROVE  /\ None(Append(h, e), n, T) <=> None(h, n, T) /\ e.type \notin T
           /\ \A i : First(Append(h, e), n, T, i) =>
                 \/ First(h, n, T, i) /\ i \in 1 .. Len(h) /\ Append(h, e)[i] = h[i]
                 \/ i = Len(h) + 1 /\ None(h, n, T) /\ e.type \in T /\ Append(h, e)[i] = e
<1> DEFINE g == Append(h, e)
<1>1. /\ Len(g) = Len(h) + 1 /\ Len(h) \in Nat /\ g[Len(h) + 1] = e
      /\ \A i \in 1 .. Len(h) : g[i] = h[i]
    BY Appended
<1> HIDE DEF g
<1>3. ASSUME NEW i, First(g, n, T, i)
      PROVE  \/ First(h, n, T, i) /\ i \in 1 .. Len(h) /\ g[i] = h[i]
             \/ i = Len(h) + 1 /\ None(h, n, T) /\ e.type \in T /\ g[i] = e
  <2>1. i \in n + 1 .. Len(h) + 1 /\ g[i].type \in T /\ \A j \in n + 1 .. i - 1 : g[j].type \notin T
    BY <1>1, <1>3, Zenon DEF First
  <2>2. CASE i = Len(h) + 1
    BY <1>1, <2>1, <2>2 DEF None
  <2>3. CASE i # Len(h) + 1
    BY SMTT(30), <1>1, <2>1, <2>3 DEF First
  <2> QED
    BY <2>2, <2>3, Zenon
<1> QED
    BY <1>1, <1>3 DEF g, None

LEMMA FirstExists ==
    ASSUME Least, NEW h \in Seq(Event), NEW n \in Nat, NEW T, ~None(h, n, T)
    PROVE  \E i \in 1 .. Len(h) : First(h, n, T, i)
<1> DEFINE S == {i \in n + 1 .. Len(h) : h[i].type \in T}
<1>1. S # {} /\ S \in SUBSET Nat
    BY DEF None
<1>2. PICK i \in S : \A j \in S : i <= j
  <2> HIDE DEF S
  <2> QED
    BY <1>1, Zenon DEF Least
<1> QED
    BY <1>2 DEF First

(* The first m entries of a history. *)
LEMMA CutFirst ==
    ASSUME NEW h \in Seq(Event), NEW m \in 0 .. Len(h), NEW n \in 0 .. m, NEW T
    PROVE  /\ \A i : First(SubSeq(h, 1, m), n, T, i) =>
                        i \in 1 .. Len(h) /\ First(h, n, T, i) /\ SubSeq(h, 1, m)[i] = h[i]
           /\ None(h, n, T) => None(SubSeq(h, 1, m), n, T) /\ None(h, m, T)
           /\ None(SubSeq(h, 1, m), n, T) /\ None(h, m, T) => None(h, n, T)
           /\ None(SubSeq(h, 1, m), n, T) => \A i : First(h, m, T, i) => First(h, n, T, i)
<1> DEFINE g == SubSeq(h, 1, m)
<1>1. Len(g) = m /\ Len(h) \in Nat /\ \A i \in 1 .. m : g[i] = h[i]
    BY Cut
<1> HIDE DEF g
<1>2. ASSUME NEW i, First(g, n, T, i) PROVE i \in 1 .. Len(h) /\ First(h, n, T, i) /\ g[i] = h[i]
    BY <1>1, <1>2 DEF First
<1>3. None(h, n, T) => None(g, n, T) /\ None(h, m, T)
    BY SMTT(30), <1>1 DEF None
<1>4. None(g, n, T) /\ None(h, m, T) => None(h, n, T)
    BY <1>1 DEF None
<1>5. ASSUME None(g, n, T), NEW i, First(h, m, T, i) PROVE First(h, n, T, i)
    BY <1>1, <1>5 DEF None, First
<1> QED
    BY <1>2, <1>3, <1>4, <1>5, Zenon DEF g

LEMMA ReleasedAppend ==
    ASSUME NEW h \in Seq(Event), NEW e \in Event, NEW n \in Nat, NEW r
    PROVE  /\ Released(h, n, r) => Released(Append(h, e), n, r)
           /\ n <= Len(h) /\ e.type = "row" /\ e.row = r => Released(Append(h, e), n, r)
<1> DEFINE g == Append(h, e)
<1> HIDE DEF g
<1> QED
    BY Appended DEF g, Released

LEMMA ReleasedCut ==
    ASSUME NEW h \in Seq(Event), NEW m \in 0 .. Len(h), NEW n \in Nat, NEW r, Released(h, n, r)
    PROVE  Released(h, m, r) \/ Released(SubSeq(h, 1, m), n, r)
<1>1. Len(SubSeq(h, 1, m)) = m /\ Len(h) \in Nat /\ \A i \in 1 .. m : SubSeq(h, 1, m)[i] = h[i]
    BY Cut
<1>2. PICK i \in n + 1 .. Len(h) : h[i].type = "row" /\ h[i].row = r
    BY Zenon DEF Released
<1>3. CASE i <= m
    BY <1>1, <1>2, <1>3 DEF Released
<1>4. CASE ~(i <= m)
    BY <1>1, <1>2, <1>4 DEF Released
<1> QED
    BY <1>3, <1>4, Zenon

------------------------------------------------------------------------------
(* What the history from savepoint sp on tells about the time of sp *)

(* The level lv of now, or the first change since, is the level of then,   *)
(* unless a table that had been emptied then has been opened since.        *)
RecallsLevel(sp, h, lv) ==
    /\ None(h, sp.n, Locking) => lv = sp.level
    /\ \A i \in 1 .. Len(h) : First(h, sp.n, Locking, i) =>
          h[i].prev = sp.level \/ (h[i].type = "new" /\ sp.deleteAll = 1)
RecallsFlag(sp, h, da) ==
    /\ None(h, sp.n, Flagging) => da = sp.deleteAll
    /\ \A i \in 1 .. Len(h) : First(h, sp.n, Flagging, i) /\ h[i].type = "clear" => h[i].prev = sp.deleteAll
RecallsRoot(sp, h, root) ==
    sp.level >= WRITE /\ sp.deleteAll = 0 => root = "btree" /\ None(h, sp.n, {"new"})

(* A level that fits the changes. *)
Fits(ins, del, da, lv) == (da = 1 => lv >= WRITEEX) /\ (ins \cup del # {} => lv >= WRITE)
SaveOK(sp, h, lv, da, root) ==
    /\ RecallsLevel(sp, h, lv) /\ RecallsFlag(sp, h, da) /\ RecallsRoot(sp, h, root)
    /\ Fits(sp.ins, sp.del, sp.deleteAll, sp.level)
    /\ sp.level # READ
    /\ sp.level <= lv /\ sp.deleteAll <= da

LEMMA AfterRow ==
    ASSUME NEW h \in Seq(Event), NEW sp \in SaveRec, sp.n \in 0 .. Len(h), NEW lv, NEW da, NEW root,
           SaveOK(sp, h, lv, da, root), NEW r \in Rows
    PROVE  SaveOK(sp, Append(h, RowEntry(r)), lv, da, root)
<1> DEFINE e == RowEntry(r)
           g == Append(h, e)
<1>1. e \in Event /\ e.type = "row"
    BY EntryTypes, EntryFields, Zenon
<1> HIDE DEF e
<1> HIDE DEF g
<1>3. e.type \notin Locking /\ e.type \notin Flagging /\ e.type \notin {"new"}
    BY <1>1, Zenon DEF Locking, Flagging
<1> QED
    BY <1>1, <1>3, AppendFirst, ZenonT(30) DEF SaveOK, g, e, RecallsLevel, RecallsFlag, RecallsRoot

LEMMA AfterLevel ==
    ASSUME NEW h \in Seq(Event), NEW sp \in SaveRec, sp.n \in 0 .. Len(h), NEW lv \in Levels, NEW da, NEW root,
           SaveOK(sp, h, lv, da, root), NEW up \in Levels, lv <= up
    PROVE  SaveOK(sp, Append(h, LevelEntry(lv)), up, da, root)
<1> DEFINE e == LevelEntry(lv)
           g == Append(h, e)
<1>1. e \in Event /\ e.type = "lock" /\ e.prev = lv
    BY EntryTypes, EntryFields, Zenon DEF Levels
<1> HIDE DEF e
<1> HIDE DEF g
<1>3. e.type \in Locking /\ e.type \notin Flagging /\ e.type \notin {"new"}
    BY <1>1, Zenon DEF Locking, Flagging
<1> QED
    BY <1>1, <1>3, AppendFirst, SaveFields
       DEF SaveOK, g, e, RecallsLevel, RecallsFlag, RecallsRoot, Levels

LEMMA AfterNew ==
    ASSUME NEW h \in Seq(Event), NEW sp \in SaveRec, sp.n \in 0 .. Len(h), NEW lv, NEW da, NEW root,
           SaveOK(sp, h, lv, da, root), root # "btree"
    PROVE  SaveOK(sp, Append(h, NewEntry), lv, da, "btree")
<1> DEFINE e == NewEntry
           g == Append(h, e)
<1>1. e \in Event /\ e.type = "new" /\ e.prev = 0
    BY EntryTypes, EntryFields, Zenon
<1> HIDE DEF e
<1> HIDE DEF g
<1>3. e.type \in Locking /\ e.type \in Flagging
    BY <1>1, Zenon DEF Locking, Flagging
<1> QED
    BY <1>1, <1>3, AppendFirst, SaveFields
       DEF SaveOK, g, e, RecallsLevel, RecallsFlag, RecallsRoot, Levels

LEMMA AfterClear ==
    ASSUME NEW h \in Seq(Event), NEW sp \in SaveRec, sp.n \in 0 .. Len(h), NEW lv, NEW da \in {0, 1}, NEW root,
           SaveOK(sp, h, lv, da, root), NEW to, root = "btree" => to = "btree"
    PROVE  SaveOK(sp, Append(h, ClearEntry(da)), lv, 1, to)
<1> DEFINE e == ClearEntry(da)
           g == Append(h, e)
<1>1. e \in Event /\ e.type = "clear" /\ e.prev = da
    BY EntryTypes, EntryFields, Zenon
<1> HIDE DEF e
<1> HIDE DEF g
<1>3. e.type \notin Locking /\ e.type \in Flagging /\ e.type \notin {"new"}
    BY <1>1, Zenon DEF Locking, Flagging
<1> QED
    BY <1>1, <1>3, AppendFirst, SaveFields DEF SaveOK, g, e, RecallsLevel, RecallsFlag, RecallsRoot

(* A savepoint that is set now. *)
LEMMA AfterSave ==
    ASSUME NEW h \in Seq(Event), NEW sp \in SaveRec, sp.n = Len(h), NEW root,
           Fits(sp.ins, sp.del, sp.deleteAll, sp.level), sp.level # READ,
           sp.level >= WRITE /\ sp.deleteAll = 0 => root = "btree"
    PROVE  SaveOK(sp, h, sp.level, sp.deleteAll, root)
<1> QED
    BY SaveFields DEF SaveOK, RecallsLevel, RecallsFlag, RecallsRoot, None, First, Levels

(* Going back to savepoint sp restores the level of the table lock and the *)
(* flag of DELETE without WHERE.                                           *)
LEMMA BackExact ==
    ASSUME Least,
           NEW h \in Seq(Event), NEW sp \in SaveRec, sp.n \in 0 .. Len(h), NEW lv \in Levels, NEW da \in {0, 1},
           NEW root, SaveOK(sp, h, lv, da, root),
           NEW u, Undoes(u, h, sp.n, root, da, lv), ~(sp.deleteAll = 1 /\ u.root = "none")
    PROVE  /\ u.level = sp.level /\ u.deleteAll = sp.deleteAll
           /\ sp.level >= WRITE /\ sp.deleteAll = 0 => u.root = "btree"
           /\ ~None(h, sp.n, {"new"}) => sp.deleteAll = 0
<1>0. sp.n \in Nat /\ sp.deleteAll \in {0, 1}
    BY SaveFields, Zenon
<1>1. u.root = IF None(h, sp.n, {"new"}) THEN root ELSE "none"
    BY Zenon DEF Undoes
<1>2. \A i \in 1 .. Len(h) : i \in sp.n + 1 .. Len(h) /\ h[i].type = "new" => u.root = "none"
    BY <1>1, Zenon DEF None
<1>3. u.level = sp.level
  <2>1. CASE None(h, sp.n, Locking)
    BY <2>1, Zenon DEF Undoes, SaveOK, RecallsLevel
  <2>2. CASE ~None(h, sp.n, Locking)
    <3>1. PICK i \in 1 .. Len(h) : First(h, sp.n, Locking, i)
      BY <1>0, <2>2, FirstExists, Zenon
    <3> QED
      BY <1>2, <3>1, Zenon DEF Undoes, SaveOK, RecallsLevel, First
  <2> QED
    BY <2>1, <2>2, Zenon
<1>4. u.deleteAll = sp.deleteAll
  <2>1. CASE None(h, sp.n, Flagging)
    BY <2>1, Zenon DEF Undoes, SaveOK, RecallsFlag
  <2>2. CASE ~None(h, sp.n, Flagging)
    <3>1. PICK i \in 1 .. Len(h) : First(h, sp.n, Flagging, i)
      BY <1>0, <2>2, FirstExists, Zenon
    <3> QED
      BY <1>0, <1>2, <3>1, Zenon DEF Undoes, SaveOK, RecallsFlag, First
  <2> QED
    BY <2>1, <2>2, Zenon
<1> QED
    BY <1>0, <1>1, <1>3, <1>4, Zenon DEF SaveOK, RecallsRoot

(* An earlier savepoint sp after going back to savepoint at. *)
LEMMA BackOther ==
    ASSUME Least,
           NEW h \in Seq(Event), NEW at \in SaveRec, at.n \in 0 .. Len(h), NEW sp \in SaveRec, sp.n <= at.n,
           NEW lv \in Levels, NEW da \in {0, 1}, NEW root, NEW u, Undoes(u, h, at.n, root, da, lv),
           SaveOK(at, h, lv, da, root), SaveOK(sp, h, lv, da, root),
           ~(at.deleteAll = 1 /\ u.root = "none"), sp.level <= at.level, sp.deleteAll <= at.deleteAll
    PROVE  SaveOK(sp, SubSeq(h, 1, at.n), at.level, at.deleteAll, u.root)
<1> DEFINE g == SubSeq(h, 1, at.n)
<1>0. /\ at.n \in Nat /\ sp.n \in 0 .. at.n /\ sp.deleteAll \in {0, 1} /\ at.deleteAll \in {0, 1}
      /\ Len(g) = at.n
    BY SaveFields, Cut
<1>1. \A T : /\ \A i : First(g, sp.n, T, i) => i \in 1 .. Len(h) /\ First(h, sp.n, T, i) /\ g[i] = h[i]
             /\ None(h, sp.n, T) => None(g, sp.n, T) /\ None(h, at.n, T)
             /\ None(g, sp.n, T) /\ None(h, at.n, T) => None(h, sp.n, T)
             /\ None(g, sp.n, T) => \A i : First(h, at.n, T, i) => First(h, sp.n, T, i)
    BY <1>0, CutFirst, Zenon
<1> HIDE DEF g
<1>2. \A i \in 1 .. Len(h) : i \in at.n + 1 .. Len(h) /\ h[i].type = "new" => at.deleteAll = 0 /\ sp.deleteAll = 0
    BY <1>0, BackExact DEF None
<1>3. RecallsLevel(sp, g, at.level)
  <2>1. ASSUME None(g, sp.n, Locking) PROVE at.level = sp.level
    <3>1. CASE None(h, at.n, Locking)
      BY <1>1, <2>1, <3>1, Zenon DEF SaveOK, RecallsLevel
    <3>2. CASE ~None(h, at.n, Locking)
      <4>1. PICK i \in 1 .. Len(h) : First(h, at.n, Locking, i)
        BY <1>0, <3>2, FirstExists, Zenon
      <4>3. i \in at.n + 1 .. Len(h)
        BY <4>1, Zenon DEF First
      <4> QED
        BY <1>1, <1>2, <2>1, <4>1, <4>3 DEF SaveOK, RecallsLevel
    <3> QED
      BY <3>1, <3>2, Zenon
  <2> QED
    BY <1>0, <1>1, <2>1, ZenonT(30) DEF SaveOK, RecallsLevel
<1>4. RecallsFlag(sp, g, at.deleteAll)
  <2>1. ASSUME None(g, sp.n, Flagging) PROVE at.deleteAll = sp.deleteAll
    <3>1. CASE None(h, at.n, Flagging)
      BY <1>1, <2>1, <3>1, Zenon DEF SaveOK, RecallsFlag
    <3>2. CASE ~None(h, at.n, Flagging)
      <4>1. PICK i \in 1 .. Len(h) : First(h, at.n, Flagging, i)
        BY <1>0, <3>2, FirstExists, Zenon
      <4>3. i \in at.n + 1 .. Len(h) /\ h[i].type \in {"clear", "new"}
        BY <4>1, Zenon DEF First, Flagging
      <4> QED
        BY <1>1, <1>2, <2>1, <4>1, <4>3, Zenon DEF SaveOK, RecallsFlag
    <3> QED
      BY <3>1, <3>2, Zenon
  <2> QED
    BY <1>0, <1>1, <2>1 DEF SaveOK, RecallsFlag
<1> QED
    BY <1>1, <1>3, <1>4, Zenon DEF SaveOK, g, RecallsRoot, Undoes

------------------------------------------------------------------------------
(* All savepoints of a transaction *)

(* Later savepoints have higher levels. *)
Rising(s) == \A i, j \in 1 .. Len(s) : i <= j => s[i].level <= s[j].level /\ s[i].deleteAll <= s[j].deleteAll
SavesOK(s, h, lv, da, root) == (\A i \in 1 .. Len(s) : SaveOK(s[i], h, lv, da, root)) /\ Rising(s)

LEMMA SavesAfter ==
    ASSUME NEW s \in Seq(SaveRec), NEW h \in Seq(Event), Marks(s, h), NEW lv \in Levels, NEW da \in {0, 1},
           NEW root, SavesOK(s, h, lv, da, root)
    PROVE  /\ \A r \in Rows : SavesOK(s, Append(h, RowEntry(r)), lv, da, root)
           /\ \A up \in Levels : lv <= up => SavesOK(s, Append(h, LevelEntry(lv)), up, da, root)
           /\ root # "btree" => SavesOK(s, Append(h, NewEntry), lv, da, "btree")
           /\ \A to : (root = "btree" => to = "btree") => SavesOK(s, Append(h, ClearEntry(da)), lv, 1, to)
<1>0. \A i \in 1 .. Len(s) : SaveOK(s[i], h, lv, da, root) /\ s[i] \in SaveRec /\ s[i].n \in 0 .. Len(h)
    BY SaveAt, Zenon DEF SavesOK
<1>1. Rising(s)
    BY Zenon DEF SavesOK
<1>2. ASSUME NEW r \in Rows PROVE SavesOK(s, Append(h, RowEntry(r)), lv, da, root)
    BY <1>0, <1>1, AfterRow, Zenon DEF SavesOK
<1>3. ASSUME NEW up \in Levels, lv <= up PROVE SavesOK(s, Append(h, LevelEntry(lv)), up, da, root)
    BY <1>0, <1>1, <1>3, AfterLevel, Zenon DEF SavesOK
<1>4. ASSUME root # "btree" PROVE SavesOK(s, Append(h, NewEntry), lv, da, "btree")
    BY <1>0, <1>1, <1>4, AfterNew, Zenon DEF SavesOK
<1>5. ASSUME NEW to, root = "btree" => to = "btree" PROVE SavesOK(s, Append(h, ClearEntry(da)), lv, 1, to)
    BY <1>0, <1>1, <1>5, AfterClear, Zenon DEF SavesOK
<1> QED
    BY <1>2, <1>3, <1>4, <1>5, Zenon

LEMMA SavesMore ==
    ASSUME NEW s \in Seq(SaveRec), NEW h \in Seq(Event), NEW sp \in SaveRec, NEW root,
           SavesOK(s, h, sp.level, sp.deleteAll, root), SaveOK(sp, h, sp.level, sp.deleteAll, root)
    PROVE  SavesOK(Append(s, sp), h, sp.level, sp.deleteAll, root)
<1> DEFINE z == Append(s, sp)
<1>1. Len(z) = Len(s) + 1 /\ Len(s) \in Nat /\ z[Len(s) + 1] = sp /\ \A i \in 1 .. Len(s) : z[i] = s[i]
    BY Appended
<1> HIDE DEF z
<1>2. \A i \in 1 .. Len(z) : SaveOK(z[i], h, sp.level, sp.deleteAll, root)
    BY <1>1 DEF SavesOK
<1>3. ASSUME NEW i \in 1 .. Len(z), NEW j \in 1 .. Len(z), i <= j
      PROVE  z[i].level <= z[j].level /\ z[i].deleteAll <= z[j].deleteAll
  <2>1. CASE j = Len(s) + 1
    BY <1>1, <1>2, <2>1, Zenon DEF SaveOK
  <2>2. CASE j # Len(s) + 1
    BY <1>1, <1>3, <2>2 DEF SavesOK, Rising
  <2> QED
    BY <2>1, <2>2, Zenon
<1> QED
    BY <1>2, <1>3, Zenon DEF SavesOK, Rising, z

LEMMA SavesCut ==
    ASSUME NEW s \in Seq(SaveRec), NEW h, NEW lv, NEW da, NEW root, SavesOK(s, h, lv, da, root),
           NEW k \in 0 .. Len(s)
    PROVE  SavesOK(SubSeq(s, 1, k), h, lv, da, root)
<1> QED
    BY SMTT(30), Cut DEF SavesOK, Rising

LEMMA SavesBack ==
    ASSUME Least,
           NEW s \in Seq(SaveRec), NEW h \in Seq(Event), Marks(s, h), NEW lv \in Levels, NEW da \in {0, 1},
           NEW root, SavesOK(s, h, lv, da, root), NEW k \in 1 .. Len(s), NEW m \in 0 .. k,
           NEW u, Undoes(u, h, s[k].n, root, da, lv), ~(s[k].deleteAll = 1 /\ u.root = "none")
    PROVE  SavesOK(SubSeq(s, 1, m), SubSeq(h, 1, s[k].n), s[k].level, s[k].deleteAll, u.root)
<1>3. ASSUME NEW i \in 1 .. Len(s), i <= k
      PROVE  SaveOK(s[i], SubSeq(h, 1, s[k].n), s[k].level, s[k].deleteAll, u.root)
    BY <1>3, BackOther, SaveAt, Zenon DEF SavesOK, Rising, Marks
<1> QED
    BY SMTT(30), <1>3, Cut DEF SavesOK, Rising

(* The end of a statement releases a READ lock, which no savepoint has. *)
LEMMA SavesUnlocked ==
    ASSUME NEW s \in Seq(SaveRec), NEW h, NEW da, NEW root, SavesOK(s, h, READ, da, root)
    PROVE  SavesOK(s, h, NOT_LOCKED, da, root)
<1>1. ASSUME NEW i \in 1 .. Len(s) PROVE SaveOK(s[i], h, NOT_LOCKED, da, root)
  <2>1. SaveOK(s[i], h, READ, da, root) /\ s[i].level \in Levels
    BY SavesAre, SaveFields, Zenon DEF SavesOK
  <2> QED
    BY <2>1 DEF SaveOK, RecallsLevel, Levels
<1> QED
    BY <1>1, Zenon DEF SavesOK

(* A row that c has locked was locked when the savepoint was set, or the   *)
(* history since then has an entry for it.                                 *)
Accounts(s, h, lk, c) ==
    \A i \in 1 .. Len(s) : \A r \in Rows : lk[r] = c => r \in s[i].rows \/ Released(h, s[i].n, r)

LEMMA AccountsCut ==
    ASSUME NEW s \in Seq(SaveRec), NEW h, NEW lk, NEW c, Accounts(s, h, lk, c), NEW k \in 0 .. Len(s)
    PROVE  Accounts(SubSeq(s, 1, k), h, lk, c)
<1> QED
    BY Cut DEF Accounts

(* What a transaction, or one of its savepoints, deletes is there. *)
Deletes(t, s, now) ==
    /\ t.del \subseteq RowsIn(now)
    /\ \A i \in 1 .. Len(s) : /\ s[i].del \subseteq t.del
                              /\ \A j \in 1 .. Len(s) : i <= j => s[i].del \subseteq s[j].del

LEMMA DeletesCut ==
    ASSUME NEW t, NEW s \in Seq(SaveRec), NEW now, Deletes(t, s, now), NEW k \in 0 .. Len(s)
    PROVE  Deletes(t, SubSeq(s, 1, k), now)
<1> QED
    BY Cut DEF Deletes

(* What a savepoint remembers was locked when it was set. *)
Covers(s) == \A i \in 1 .. Len(s) : s[i].ins \cup s[i].del \subseteq s[i].rows

LEMMA CoversAppend ==
    ASSUME NEW s \in Seq(SaveRec), Covers(s), NEW sp \in SaveRec, sp.ins \cup sp.del \subseteq sp.rows
    PROVE  Covers(Append(s, sp))
BY Appended DEF Covers

LEMMA CoversCut ==
    ASSUME NEW s \in Seq(SaveRec), Covers(s), NEW k \in 0 .. Len(s)
    PROVE  Covers(SubSeq(s, 1, k))
BY Cut DEF Covers
=============================================================================
