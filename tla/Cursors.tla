------------------------------ MODULE Cursors ------------------------------
(***************************************************************************)
(* The cursors of one rowid table inside a transaction (src/src/rowlock.c).*)
(* A transaction never writes the shared btree before it commits.  The     *)
(* rows it inserts or updates go to a private btree ("ins"), the keys of   *)
(* the shared rows it deletes or updates to a second one ("del"), and a    *)
(* cursor is three btree cursors, pCur, pCurIns and pCurDel, whose         *)
(* positions are merged on every move.  The table the statement must see   *)
(* is Merged: the shared rows that are not deleted, and the inserted ones. *)
(*                                                                         *)
(* The btrees themselves (src/sqlite/src/btree.c) are external: a btree is *)
(* the set of its keys.  A search that misses its key may stop on either   *)
(* neighbour, depending on the shape of the tree, so the side is an input. *)
(*                                                                         *)
(* Modelled are cursors that have the two private cursors: those of a      *)
(* statement that writes, and all cursors once the connection has written. *)
(***************************************************************************)
EXTENDS Integers, FiniteSets, FiniteSetsExt

CONSTANTS
  Keys,       \* the rowids rows may have
  Cursor,     \* the cursors the transaction may have open at once
  Reader,     \* those of them whose statement only walks the table
  Scenes,     \* bounds: which rowids, cursors and seeks occur together
  Width,      \* the width of i64 in bits, for the differences of rowids
  NoRow,      \* a move that found no row
  Corrupt     \* a move that returned SQLITE_CORRUPT

VARIABLES
  shared, ins, del, \* the keys of the shared, insert and delete btree
  deleteAll,        \* pRootPage->deleteAll
  cur,              \* the open cursors: positions and use state
  stmt,             \* what the statement of each cursor may do next
  dropped,          \* the transaction ended while cursors were open
  scene,            \* the bounds of this behaviour
  wraps             \* how the build evaluates a difference that overflows

vars == <<shared, ins, del, deleteAll, cur, stmt, dropped, scene, wraps>>
fixed == <<scene, wraps>>

Sides == {-1, 1}
Forward == 1    \* sqlite3BtreeNext
Backward == -1  \* sqlite3BtreePrevious
(* The position of one btree cursor: eState with the key it stands at.  A  *)
(* cursor whose row was deleted under it, or that another cursor's write   *)
(* made to save its position, is "saved" (CURSOR_REQUIRESEEK, _SKIPNEXT).  *)
Valid(k) == [at |-> "valid", key |-> k]
Saved(k) == [at |-> "saved", key |-> k]
Invalid == [at |-> "invalid", key |-> 0]
Save(p) == IF p.at = "valid" THEN Saved(p.key) ELSE p

(***************************************************************************)
(* The btree operations the code calls.                                    *)
(***************************************************************************)
Nearest(S, d) == IF d = Forward THEN Min(S) ELSE Max(S)

(* sqlite3BtreeFirst, sqlite3BtreeLast: the end a walk in direction d      *)
(* starts from.                                                            *)
BtreeEnd(S, d) == IF S = {} THEN Invalid ELSE Valid(Nearest(S, d))

(* sqlite3BtreeNext, sqlite3BtreePrevious; a saved cursor is restored.     *)
BtreeStep(S, p, d) ==
  LET ahead == {x \in S : d * (x - p.key) > 0}
  IN  IF p.at = "invalid" \/ ahead = {} THEN Invalid
      ELSE Valid(Nearest(ahead, d))

(* sqlite3BtreeMovetoUnpacked: the position and *pRes.                     *)
BtreeMoveto(S, k, side) ==
  LET before == {x \in S : x < k}
      after == {x \in S : x > k}
  IN  IF S = {} THEN [pos |-> Invalid, res |-> -1]
      ELSE IF k \in S THEN [pos |-> Valid(k), res |-> 0]
      ELSE IF after = {} \/ (before # {} /\ side = -1)
           THEN [pos |-> Valid(Max(before)), res |-> -1]
           ELSE [pos |-> Valid(Min(after)), res |-> 1]

(* sqlite3BtreeCursorRestore: a saved cursor whose key is gone stays in    *)
(* CURSOR_SKIPNEXT and is still not pointing.                              *)
BtreeRestore(S, p) ==
  IF p.at # "saved" THEN p
  ELSE IF p.key \in S THEN Valid(p.key)
  ELSE IF S = {} THEN Invalid ELSE p

btreeCursorIsPointing(p) == p.at = "valid"

(***************************************************************************)
(* Comparing keys.  Rowids are compared by their difference, an i64; a     *)
(* difference out of range is undefined, and a build either wraps it or    *)
(* compares the operands.                                                  *)
(***************************************************************************)
Half == 2 ^ (Width - 1)
btreeKeyCompareCursors(p, q) ==
  LET diff == p.key - q.key
  IN  IF wraps THEN ((diff + Half) % (2 * Half)) - Half ELSE diff

(* Mutant of btreeValidTableKey: keys always have to ascend.               *)
ValidAscendingKey(p, prev, d) ==
  prev = 0 \/ btreeKeyCompareCursors(p, [key |-> prev]) > 0
(* btreeValidTableKey: FALSE is SQLITE_CORRUPT; prev = 0 means not set.    *)
btreeValidTableKey(p, prev, d) ==
  prev = 0 \/ d * btreeKeyCompareCursors(p, [key |-> prev]) > 0
Remember(p, prev) == IF prev = 0 THEN p.key ELSE prev

(***************************************************************************)
(* Merging the three cursors.  A cursor record c has the positions sh, ins *)
(* and del and the set of btrees in use.                                   *)
(***************************************************************************)
SharedIsUsed(c) == "shared" \in c.state
TransIsUsed(c) == "trans" \in c.state

(* sqlite3BtreeIntegerKeyAll: the row the statement reads.                 *)
IntegerKeyAll(c) == IF TransIsUsed(c) THEN c.ins.key ELSE c.sh.key

(* btreeSeekToExist: move pCur in direction d to a row that is not         *)
(* deleted; ok is FALSE when the keys pCur meets are not ordered.          *)
RECURSIVE SkipDeleted(_, _, _)
SkipDeleted(c, d, prev) ==
  LET cmp == btreeKeyCompareCursors(c.sh, c.del)
      next == BtreeStep(shared, c.sh, d)
  IN  IF ~btreeCursorIsPointing(c.sh) \/ ~btreeCursorIsPointing(c.del)
        THEN [c |-> c, ok |-> TRUE]
      ELSE IF d * cmp > 0
        THEN SkipDeleted([c EXCEPT !.del = BtreeStep(del, @, d)], d, prev)
      ELSE IF cmp # 0 THEN [c |-> c, ok |-> TRUE]
      ELSE IF btreeCursorIsPointing(next) /\ ~btreeValidTableKey(next, prev, d)
        THEN [c |-> [c EXCEPT !.sh = next], ok |-> FALSE]
      ELSE SkipDeleted([c EXCEPT !.sh = next], d,
             IF btreeCursorIsPointing(next) THEN Remember(next, prev) ELSE prev)

btreeSeekToExist(c, d) ==
  SkipDeleted([c EXCEPT !.del = BtreeRestore(del, @)], d,
              IF btreeCursorIsPointing(c.sh) THEN c.sh.key ELSE 0)

(* Mutant of UseNearer: a cursor at its end is not noticed.                *)
UseSharedAtEnd(c, d) ==
  LET inTrans == btreeCursorIsPointing(c.ins)
      before == d * btreeKeyCompareCursors(c.sh, c.ins) <= 0
  IN  IF inTrans => before
      THEN [c |-> [c EXCEPT !.state = {"shared"}], row |-> c.sh.key]
      ELSE [c |-> [c EXCEPT !.state = {"trans"}], row |-> c.ins.key]
(* btreeSeekToExistAll: then use the nearer of pCur and pCurIns.           *)
UseNearer(c, d) ==
  LET inShared == btreeCursorIsPointing(c.sh)
      inTrans == btreeCursorIsPointing(c.ins)
      before == d * btreeKeyCompareCursors(c.sh, c.ins) <= 0
  IN  CASE inShared /\ (inTrans => before) ->
             [c |-> [c EXCEPT !.state = {"shared"}], row |-> c.sh.key]
        [] inTrans /\ ~(inShared /\ before) ->
             [c |-> [c EXCEPT !.state = {"trans"}], row |-> c.ins.key]
        [] ~inShared /\ ~inTrans -> [c |-> c, row |-> NoRow]

Existing(r, d) == IF r.ok THEN UseNearer(r.c, d) ELSE [c |-> r.c, row |-> Corrupt]
btreeSeekToExistAll(c, d) == Existing(btreeSeekToExist(c, d), d)

(* Mutant of sqlite3BtreeEndAll: deleteAll is not looked at.              *)
EndAllIgnoresClear(c, d) ==
  btreeSeekToExistAll(
    [c EXCEPT !.sh = BtreeEnd(shared, d), !.ins = BtreeEnd(ins, d),
              !.del = BtreeEnd(del, d)], d)
(* sqlite3BtreeFirstAll (d = Forward) and sqlite3BtreeLastAll.             *)
sqlite3BtreeEndAll(c, d) ==
  btreeSeekToExistAll(
    [c EXCEPT !.sh = IF deleteAll THEN Invalid ELSE BtreeEnd(shared, d),
              !.ins = BtreeEnd(ins, d), !.del = BtreeEnd(del, d)], d)

(* The loop at the head of sqlite3BtreeAdvanceAll: the cursor that is not  *)
(* in use must not lag behind the one that is.                             *)
RECURSIVE CorrectPosition(_, _)
CorrectPosition(c, d) ==
  LET cmp == btreeKeyCompareCursors(c.sh, c.ins)
      insMoved == [c EXCEPT !.ins = BtreeStep(ins, @, d)]
      shMoved == [c EXCEPT !.sh = BtreeStep(shared, @, d)]
  IN  IF ~btreeCursorIsPointing(c.sh) \/ ~btreeCursorIsPointing(c.ins) THEN c
      ELSE IF SharedIsUsed(c)
        THEN IF d * cmp <= 0 THEN c
             ELSE IF TransIsUsed(c) THEN insMoved ELSE CorrectPosition(insMoved, d)
        ELSE IF d * cmp >= 0 THEN c ELSE CorrectPosition(shMoved, d)

(* Mutant of AdvanceTrans: pCur is always moved by sqlite3BtreeNext.       *)
AdvanceTransForward(c, d) ==
  IF ~(dropped /\ c.ins.at = "saved")
    THEN [c EXCEPT !.ins = BtreeStep(ins, @, d)]
  ELSE [c EXCEPT !.ins = Invalid,
                 !.sh = CASE c.sh.at = "saved" -> BtreeRestore(shared, c.sh)
                          [] c.sh.at = "invalid" -> BtreeStep(shared, c.ins, Forward)
                          [] OTHER -> c.sh]
(* sqlite3BtreeAdvanceAll.  dropped is isBtreeEmpty(pCurIns->pBtree): the  *)
(* transaction ended under the cursor, and its private btrees are gone.    *)
AdvanceTrans(c, d) ==
  IF ~(dropped /\ c.ins.at = "saved")
    THEN [c EXCEPT !.ins = BtreeStep(ins, @, d)]
  ELSE [c EXCEPT !.ins = Invalid,
                 !.sh = CASE c.sh.at = "saved" -> BtreeRestore(shared, c.sh)
                          [] c.sh.at = "invalid" -> BtreeStep(shared, c.ins, d)
                          [] OTHER -> c.sh]

AdvanceShared(c, prev, d) ==
  LET next == IF SharedIsUsed(c) THEN BtreeStep(shared, c.sh, d) ELSE c.sh
  IN  [c |-> [c EXCEPT !.sh = next],
       ok |-> ~(SharedIsUsed(c) /\ btreeCursorIsPointing(next))
              \/ btreeValidTableKey(next, prev, d)]

AdvanceRest(r, d) ==
  IF ~r.ok THEN [c |-> r.c, row |-> Corrupt]
  ELSE btreeSeekToExistAll(IF TransIsUsed(r.c) THEN AdvanceTrans(r.c, d) ELSE r.c, d)

sqlite3BtreeAdvanceAll(c, d) ==
  AdvanceRest(AdvanceShared(CorrectPosition(c, d),
                            IF btreeCursorIsPointing(c.sh) THEN c.sh.key ELSE 0, d), d)

(***************************************************************************)
(* Searching for a key.  opc is the opcode, side gives the neighbour each  *)
(* btree search stops on when it misses.                                   *)
(***************************************************************************)
SeekForward == {"SeekGE", "SeekGT"}
SeekBackward == {"SeekLE", "SeekLT"}
SeekOps == SeekForward \cup SeekBackward
Direction(opc) == IF opc \in SeekForward THEN Forward ELSE Backward
SideChoices == [sh : Sides, ins : Sides, del : Sides]

(* Mutant of btreeIsDeleted: the delete btree is not searched.             *)
NeverDeleted(c, side) == [pos |-> c.del, res |-> -1]
(* btreeIsDeleted: moves pCurDel to the key of pCur.                       *)
btreeIsDeleted(c, side) ==
  IF btreeCursorIsPointing(c.sh) THEN BtreeMoveto(del, c.sh.key, side)
  ELSE [pos |-> c.del, res |-> -1]

(* The shared half of sqlite3BtreeMovetoUnpackedAll: a deleted row is left *)
(* for the next row that exists or, when there is none, for the previous.  *)
LeaveBackward(r) == [c |-> r.c, res |-> -1, ok |-> r.ok]
LeaveForward(r, p) ==
  IF ~r.ok \/ btreeCursorIsPointing(r.c.sh) THEN [c |-> r.c, res |-> 1, ok |-> r.ok]
  ELSE LeaveBackward(
         btreeSeekToExist([r.c EXCEPT !.sh = BtreeStep(shared, p, Backward)], Backward))

NotDeleted(c, res, gone) ==
  IF gone.res # 0 THEN [c |-> [c EXCEPT !.del = gone.pos], res |-> res, ok |-> TRUE]
  ELSE LeaveForward(
         btreeSeekToExist([c EXCEPT !.sh = BtreeStep(shared, @, Forward),
                                    !.del = gone.pos], Forward), c.sh)

Landed(c, m, side) == NotDeleted(c, m.res, btreeIsDeleted(c, side))
MovetoShared(c, k, side) ==
  LET m == BtreeMoveto(shared, k, side.sh)
  IN  IF deleteAll THEN [c |-> [c EXCEPT !.sh = Invalid], res |-> -1, ok |-> TRUE]
      ELSE Landed([c EXCEPT !.sh = m.pos], m, side.del)

(* sqlite3BtreeMovetoSameSide: neither btree has the key; bring both       *)
(* cursors to the side the opcode asks for, and choose one of them.        *)
Choose(r, d, res, split, target) ==
  LET lost == split /\ ~btreeCursorIsPointing(IF target = "shared" THEN r.c.sh ELSE r.c.ins)
      towards == d * btreeKeyCompareCursors(r.c.sh, r.c.ins) < 0
  IN  [c |-> [r.c EXCEPT !.state =
                IF lost THEN {"shared", "trans"} \ {target}
                ELSE IF towards = (split \/ res < 0) THEN {"trans"} ELSE {"shared"}],
       res |-> IF split THEN d ELSE res, ok |-> r.ok]

sqlite3BtreeMovetoSameSide(c, d, res, resIns) ==
  LET split == res * resIns < 0
      target == IF d * res < 0 THEN "shared" ELSE "trans"
  IN  Choose(IF ~split THEN [c |-> c, ok |-> TRUE]
             ELSE IF target = "shared"
               THEN btreeSeekToExist([c EXCEPT !.sh = BtreeStep(shared, @, d)], d)
               ELSE [c |-> [c EXCEPT !.ins = BtreeStep(ins, @, d)], ok |-> TRUE],
             d, res, split, target)

(* The rest of sqlite3BtreeMovetoUnpackedAll: judge which cursor to use.   *)
Judge(c, res, resIns, opc, side) ==
  LET d == Direction(opc)
      Wrong(r) == opc \in SeekOps /\ d * r < 0
      Use(cc, t, r) == [c |-> [cc EXCEPT !.state = {t}], res |-> r, ok |-> TRUE]
      both == btreeCursorIsPointing(c.sh) /\ btreeCursorIsPointing(c.ins)
  IN  CASE resIns = 0 ->
             Use([c EXCEPT !.sh = IF Wrong(res) THEN BtreeStep(shared, @, d) ELSE @],
                 "trans", 0)
        [] resIns # 0 /\ res = 0 ->
             Use([c EXCEPT !.ins = IF Wrong(resIns) THEN BtreeStep(ins, @, d) ELSE @],
                 "shared", 0)
        [] resIns # 0 /\ res # 0 /\ both /\ opc \in SeekOps ->
             sqlite3BtreeMovetoSameSide([c EXCEPT !.del = btreeIsDeleted(c, side).pos],
                                        d, res, resIns)
        [] resIns # 0 /\ res # 0 /\ ~(both /\ opc \in SeekOps) ->
             IF btreeCursorIsPointing(c.sh) THEN Use(c, "shared", res)
             ELSE Use(c, "trans", resIns)

DelAgain(r, k, opc, side) ==
  [r EXCEPT !.c.del = IF opc = "SeekGE" /\ @.at = "invalid"
                      THEN BtreeMoveto(del, k, side).pos ELSE @]

MovetoTrans(s, k, opc, side) ==
  LET i == BtreeMoveto(ins, k, side.ins)
  IN  IF ~s.ok THEN s
      ELSE DelAgain(Judge([s.c EXCEPT !.ins = i.pos], s.res, i.res, opc, side.del),
                    k, opc, side.del)

(* sqlite3BtreeMovetoUnpackedAll for a rowid table (no pIdxKey).           *)
sqlite3BtreeMovetoUnpackedAll(c, k, opc, side) ==
  MovetoTrans(MovetoShared(c, k, side), k, opc, side)

(* Mutants of StepOff: the row that was asked for is stepped over, and the *)
(* end test of OP_SeekLE is made for OP_SeekGE as well.                    *)
StepOffStrictly(m, d, strict) ==
  IF ~m.ok THEN [c |-> m.c, row |-> Corrupt]
  ELSE IF d * m.res <= 0 THEN sqlite3BtreeAdvanceAll(m.c, d)
  ELSE [c |-> m.c,
        row |-> IF d = Backward /\ ~btreeCursorIsPointing(m.c.sh) THEN NoRow
                ELSE IntegerKeyAll(m.c)]
StepOffAtEof(m, d, strict) ==
  IF ~m.ok THEN [c |-> m.c, row |-> Corrupt]
  ELSE IF d * m.res < 0 \/ (m.res = 0 /\ strict) THEN sqlite3BtreeAdvanceAll(m.c, d)
  ELSE [c |-> m.c,
        row |-> IF (d = Backward \/ m.res # 0) /\ ~btreeCursorIsPointing(m.c.sh) THEN NoRow
                ELSE IntegerKeyAll(m.c)]
(* OP_SeekGE and its kin on a rowid table: search, then step off a row on  *)
(* the wrong side.  The end test, sqlite3BtreeEof, looks at pCur alone.    *)
StepOff(m, d, strict) ==
  IF ~m.ok THEN [c |-> m.c, row |-> Corrupt]
  ELSE IF d * m.res < 0 \/ (m.res = 0 /\ strict) THEN sqlite3BtreeAdvanceAll(m.c, d)
  ELSE [c |-> m.c,
        row |-> IF d = Backward /\ ~btreeCursorIsPointing(m.c.sh) THEN NoRow
                ELSE IntegerKeyAll(m.c)]
OpSeek(c, k, opc, side) ==
  StepOff(sqlite3BtreeMovetoUnpackedAll(c, k, opc, side), Direction(opc),
          opc \in {"SeekGT", "SeekLT"})

(***************************************************************************)
(* Statements.  stmt[c] is how far the program that owns cursor c has got: *)
(*   closed   the cursor is not open;                                      *)
(*   scan     it stands on row, in a walk in direction dir;                *)
(*   gone     it deleted that row, and the walk goes on from there;        *)
(*   found    a search for row found it;                                   *)
(*   missing  a search for row did not, and the row may be inserted;       *)
(*   deleted  the row found was deleted, and another may take its place;   *)
(*   idle     the cursor is open and the next step positions it;           *)
(*   failed   a move returned SQLITE_CORRUPT, and the statement ends.        *)
(* how tells what the last move was: "end" a walk from an end of the       *)
(* table, "hit" a search for a row that is there, "seek" another search,   *)
(* "after" the walk after a search, "key" a lookup.  due is the row that   *)
(* move had to find, by the reference definitions below.  other says that  *)
(* another statement has written the table since the walk started; writes  *)
(* that the statement itself wrote.                                        *)
(***************************************************************************)
Modes == {"closed", "idle", "failed", "scan", "gone", "found", "missing", "deleted"}
NoStmt == [mode |-> "closed", row |-> NoRow, due |-> NoRow, dir |-> Forward,
           how |-> "none", other |-> FALSE, writes |-> FALSE]
NoCursor == [sh |-> Invalid, ins |-> Invalid, del |-> Invalid, state |-> {"shared"}]

Merged == ((IF deleteAll THEN {} ELSE shared) \ del) \cup ins
IsOpen(c) == stmt[c].mode # "closed"

(* The reference: the rows a statement must find, in the merged table.     *)
RowOf(S, d) == IF S = {} THEN NoRow ELSE Nearest(S, d)
Beyond(k, d) == {x \in Merged : d * (x - k) > 0}
Accepts(opc, k) == opc \in {"SeekGE", "SeekLE"} /\ k \in Merged
Target(k, opc) ==
  Beyond(k, Direction(opc)) \cup (IF Accepts(opc, k) THEN {k} ELSE {})

Others(c) == {o \in Cursor \ {c} : IsOpen(o)}

Init ==
  /\ scene \in Scenes
  /\ shared \in SUBSET scene.keys
  /\ ins = {} /\ del = {} /\ deleteAll = FALSE
  /\ cur = [c \in Cursor |-> NoCursor]
  /\ stmt = [c \in Cursor |-> NoStmt]
  /\ dropped = FALSE
  /\ wraps \in IF \A a, b \in scene.keys : a - b < Half THEN {FALSE} ELSE BOOLEAN

(* sqlite3BtreeCursorAll, and sqlite3BtreeCloseCursorAll: a statement may  *)
(* end at any time, a refused row lock included.  That it takes its own    *)
(* writes back when it fails leads to a state from before it started.      *)
OpenCursor(c) ==
  /\ ~IsOpen(c) /\ ~dropped /\ c \in scene.cursors
  /\ cur' = [cur EXCEPT ![c] = NoCursor]
  /\ stmt' = [stmt EXCEPT ![c].mode = "idle"]
  /\ UNCHANGED <<shared, ins, del, deleteAll, dropped, fixed>>

CloseCursor(c) ==
  /\ IsOpen(c)
  /\ cur' = [cur EXCEPT ![c] = NoCursor]
  /\ stmt' = [stmt EXCEPT ![c] = NoStmt]
  /\ dropped' = (dropped /\ Others(c) # {})
  /\ UNCHANGED <<shared, ins, del, deleteAll, fixed>>

(* The outcome of a move: a walk goes on while it finds rows.              *)
Walked(c, outcome, due, d, how, other) ==
  /\ \E r \in {outcome} :
       /\ cur' = [cur EXCEPT ![c] = r.c]
       /\ stmt' = [stmt EXCEPT ![c] =
            [mode |-> CASE r.row = NoRow -> "idle"
                        [] r.row = Corrupt -> "failed"
                        [] OTHER -> "scan", row |-> r.row,
             due |-> due, dir |-> d, how |-> how, other |-> other, writes |-> @.writes]]
  /\ UNCHANGED <<shared, ins, del, deleteAll, dropped, fixed>>

(* OP_Rewind and OP_Last.                                                  *)
Rewind(c, d) ==
  /\ stmt[c].mode = "idle" /\ ~dropped
  /\ Walked(c, sqlite3BtreeEndAll(cur[c], d), RowOf(Merged, d), d, "end", FALSE)

(* OP_SeekGE, OP_SeekGT, OP_SeekLE, OP_SeekLT.                             *)
Seek(c, k, opc, side) ==
  /\ stmt[c].mode = "idle" /\ ~dropped /\ c \notin Reader
  /\ Walked(c, OpSeek(cur[c], k, opc, side), RowOf(Target(k, opc), Direction(opc)),
            Direction(opc), IF Accepts(opc, k) THEN "hit" ELSE "seek", FALSE)

(* OP_Next and OP_Prev.                                                    *)
Advance(c) ==
  /\ stmt[c].mode \in {"scan", "gone"}
  /\ LET w == stmt[c] IN
     Walked(c, sqlite3BtreeAdvanceAll(cur[c], w.dir), RowOf(Beyond(w.row, w.dir), w.dir),
            w.dir, IF w.how = "end" THEN "end" ELSE "after", w.other)

(* OP_NotExists.                                                           *)
NotExists(c, k, side) ==
  /\ stmt[c].mode \in {"idle", "found", "missing"} /\ ~dropped /\ c \notin Reader
  /\ \E m \in {sqlite3BtreeMovetoUnpackedAll(cur[c], k, "NotExists", side)} :
       /\ cur' = [cur EXCEPT ![c] = m.c]
       /\ stmt' = [stmt EXCEPT ![c] =
            [mode |-> CASE ~m.ok -> "failed"
                        [] m.ok /\ m.res = 0 -> "found"
                        [] OTHER -> "missing",
             row |-> IF m.ok THEN k ELSE Corrupt, due |-> IF k \in Merged THEN k ELSE NoRow, dir |-> Forward,
             how |-> "key", other |-> FALSE, writes |-> @.writes]]
  /\ UNCHANGED <<shared, ins, del, deleteAll, dropped, fixed>>

(***************************************************************************)
(* Writes.  A write makes the other cursors on the btrees it touches save  *)
(* their positions.  The key saveCursorKey stores for pCur comes from      *)
(* sqlite3BtreeIntegerKey, which this build redefines: it is the key of    *)
(* the row in use, that of pCurIns if the row is the transaction's own.    *)
(***************************************************************************)
SaveShared(c) ==
  IF c.sh.at = "valid" THEN [c EXCEPT !.sh = Saved(IntegerKeyAll(c))] ELSE c

SaveOthers(c, mine, trees) ==
  [o \in Cursor |->
     IF o = c THEN mine
     ELSE [SaveShared(cur[o]) EXCEPT !.ins = IF "ins" \in trees THEN Save(@) ELSE @,
                                     !.del = IF "del" \in trees THEN Save(@) ELSE @]]

Wrote(c, mine) ==
  stmt' = [o \in Cursor |-> IF o = c THEN [mine EXCEPT !.writes = TRUE]
                            ELSE [stmt[o] EXCEPT !.other = @ \/ IsOpen(o)]]

(* sqlite3TransBtreeInsert.  check is FALSE in the append case: the flag   *)
(* OPFLAG_APPEND, or a search that did not find the key.  A page split     *)
(* leaves no trace here, both cursors of the transaction are moved to k.   *)
sqlite3TransBtreeInsert(c, k, check, side, next) ==
  LET isUpdate == check /\ SharedIsUsed(cur[c]) /\ k \in shared
      isTransUpdate == check /\ TransIsUsed(cur[c]) /\ k \in ins
      moved == BtreeMoveto(shared, k, side).pos
      mine == [sh |-> IF (check /\ SharedIsUsed(cur[c])) \/ ~(isUpdate \/ isTransUpdate)
                      THEN moved ELSE cur[c].sh,
               ins |-> Valid(k),
               del |-> IF isUpdate THEN Valid(k) ELSE cur[c].del,
               state |-> IF isTransUpdate THEN {"trans"} ELSE {"shared", "trans"}]
  IN  /\ ins' = ins \cup {k}
      /\ del' = IF isUpdate THEN del \cup {k} ELSE del
      /\ cur' = SaveOthers(c, mine, {"ins"} \cup (IF isUpdate THEN {"del"} ELSE {}))
      /\ Wrote(c, next)
      /\ UNCHANGED <<shared, deleteAll, dropped, fixed>>

(* Mutant of UpdateRow: the update passes OPFLAG_APPEND.                   *)
UpdateAppends(c, side) ==
  /\ stmt[c].mode \in {"scan", "found"} /\ ~dropped /\ c \notin Reader
  /\ sqlite3TransBtreeInsert(c, IntegerKeyAll(cur[c]), FALSE, side,
       [stmt[c] EXCEPT !.mode = IF @ = "scan" THEN "scan" ELSE "idle"])
(* An UPDATE that keeps the rowid, in place during a walk or after a       *)
(* search; the walk goes on from the row.                                  *)
UpdateRow(c, side) ==
  /\ stmt[c].mode \in {"scan", "found"} /\ ~dropped /\ c \notin Reader
  /\ sqlite3TransBtreeInsert(c, IntegerKeyAll(cur[c]), TRUE, side,
       [stmt[c] EXCEPT !.mode = IF @ = "scan" THEN "scan" ELSE "idle"])

(* An INSERT whose rowid was searched for, or is a new one after all rows. *)
InsertRow(c, k, side) ==
  /\ ~dropped /\ c \notin Reader
  /\ \/ stmt[c].mode = "missing" /\ k = stmt[c].row
     \/ stmt[c].mode = "idle" /\ \A x \in shared \cup ins : x < k
  /\ sqlite3TransBtreeInsert(c, k, FALSE, side, [NoStmt EXCEPT !.mode = "idle"])

(* The second half of a REPLACE or of an UPDATE of the rowid.              *)
ReinsertRow(c, k, side) ==
  /\ stmt[c].mode = "deleted" /\ ~dropped
  /\ k \notin Merged
  /\ sqlite3TransBtreeInsert(c, k, TRUE, side, [NoStmt EXCEPT !.mode = "idle"])

(* sqlite3TransBtreeDelete.  A row of the insert btree is removed from it; *)
(* in a walk its position is kept, after a search it is anywhere.  A       *)
(* shared row is recorded in the delete btree, and pCurDel is invalid if   *)
(* that btree was empty.                                                   *)
sqlite3TransBtreeDelete(c, side) ==
  LET k == IntegerKeyAll(cur[c])
      walking == stmt[c].mode = "scan"
      next == [stmt[c] EXCEPT !.mode = IF walking THEN "gone" ELSE "deleted"]
  IN  /\ stmt[c].mode \in {"scan", "found"} /\ ~dropped /\ c \notin Reader
      /\ Wrote(c, next)
      /\ \/ /\ TransIsUsed(cur[c])
            /\ ins' = ins \ {k}
            /\ \E p \in IF walking THEN {Saved(k)}
                        ELSE {Invalid} \cup {Valid(x) : x \in ins \ {k}} :
                 cur' = SaveOthers(c, [cur[c] EXCEPT !.ins = p,
                                         !.del = BtreeMoveto(del, k, side).pos],
                                   {"ins"})
            /\ UNCHANGED del
         \/ /\ ~TransIsUsed(cur[c])
            /\ del' = del \cup {k}
            /\ cur' = SaveOthers(c, [cur[c] EXCEPT !.del =
                                       IF del = {} THEN Invalid ELSE Valid(k)],
                                 {"del"})
            /\ UNCHANGED ins
      /\ UNCHANGED <<shared, deleteAll, dropped, fixed>>

(* Mutant of CountAll: deleteAll is not looked at.                         *)
CountAllIgnoresClear == Cardinality(shared) + Cardinality(ins) - Cardinality(del)
(* sqlite3BtreeCountAll: count( * ) does not walk the rows.                *)
CountAll ==
  IF deleteAll THEN Cardinality(ins)
  ELSE Cardinality(shared) + Cardinality(ins) - Cardinality(del)

(* sqlite3TransBtreeClearTable: a DELETE of every row opens no cursor.     *)
sqlite3TransBtreeClearTable ==
  /\ ~dropped
  /\ ins' = {} /\ deleteAll' = TRUE
  /\ cur' = [o \in Cursor |-> [cur[o] EXCEPT !.ins = Save(@)]]
  /\ stmt' = [o \in Cursor |-> [stmt[o] EXCEPT !.other = @ \/ IsOpen(o)]]
  /\ UNCHANGED <<shared, del, dropped, fixed>>

(* sqlite3TransBtreeCommit and sqlite3TransBtreeRollback: the private      *)
(* btrees are dropped.  Statements that only read may go on; a commit is   *)
(* refused while one writes, a rollback ends it.  Bound: until the         *)
(* surviving cursors are closed the connection starts nothing new.         *)
EndTransaction(rows) ==
  /\ ~dropped
  /\ shared' = rows
  /\ ins' = {} /\ del' = {} /\ deleteAll' = FALSE
  /\ cur' = [o \in Cursor |-> IF stmt[o].writes THEN NoCursor
       ELSE [SaveShared(cur[o]) EXCEPT !.ins = Save(@), !.del = Save(@)]]
  /\ stmt' = [o \in Cursor |-> IF stmt[o].writes THEN NoStmt ELSE stmt[o]]
  /\ dropped' = (\E c \in Cursor : IsOpen(c) /\ ~stmt[c].writes)
  /\ UNCHANGED fixed
Commit == (\A c \in Cursor : ~stmt[c].writes) /\ EndTransaction(Merged)
Rollback == EndTransaction(shared)

(* Another connection commits the insertion or the deletion of a row this  *)
(* transaction has not locked; it waits for the statements that read.      *)
OtherCommit(k) ==
  /\ \A c \in Cursor : ~IsOpen(c)
  /\ ~deleteAll /\ k \notin ins \cup del
  /\ shared' = IF k \in shared THEN shared \ {k} ELSE shared \cup {k}
  /\ UNCHANGED <<ins, del, deleteAll, cur, stmt, dropped, fixed>>

Next ==
  \/ \E c \in Cursor :
       \/ OpenCursor(c)
       \/ CloseCursor(c)
       \/ \E d \in {Forward, Backward} : Rewind(c, d)
       \/ \E k \in scene.keys, opc \in scene.seeks, side \in SideChoices : Seek(c, k, opc, side)
       \/ Advance(c)
       \/ \E k \in scene.keys, side \in SideChoices : NotExists(c, k, side)
       \/ \E side \in Sides : UpdateRow(c, side)
       \/ \E k \in scene.keys, side \in Sides : InsertRow(c, k, side)
       \/ \E k \in scene.keys, side \in Sides : ReinsertRow(c, k, side)
       \/ \E side \in Sides : sqlite3TransBtreeDelete(c, side)
  \/ sqlite3TransBtreeClearTable
  \/ Commit
  \/ Rollback
  \/ \E k \in scene.keys : OtherCommit(k)

Spec == Init /\ [][Next]_vars

(***************************************************************************)
(* Properties.                                                             *)
(***************************************************************************)
(* The btrees hold keys, and a statement is told of rows that exist, of    *)
(* the end of the table or of SQLITE_CORRUPT: no move leaves the cursor in *)
(* use on a btree cursor that stands nowhere.                              *)
TypeOK ==
  /\ shared \subseteq Keys /\ ins \subseteq Keys /\ del \subseteq Keys
  /\ deleteAll \in BOOLEAN /\ dropped \in BOOLEAN /\ wraps \in BOOLEAN
  /\ \A c \in Cursor : /\ stmt[c].mode \in Modes
                      /\ stmt[c].row \in Keys \cup {NoRow, Corrupt}

(* The private btrees stay a correct difference to the shared one whatever *)
(* mixture of updates, deletes and re-inserts, by walks and by searches, a *)
(* transaction performs and whatever others commit meanwhile: only shared  *)
(* rows are recorded as deleted (the assert( res==0 ) of a commit relies   *)
(* on it), and an own row shadows a shared one only if that is recorded.   *)
(* So sqlite3BtreeCountAll, which adds and subtracts the sizes of the      *)
(* three btrees, gives the number of rows a walk would meet.               *)
BtreesAgree ==
  /\ ~deleteAll => del \subseteq shared /\ ins \cap shared \subseteq del
  /\ CountAll = Cardinality(Merged)

(* OP_NotExists is exact: it finds a rowid if and only if the row is in    *)
(* the merged table, and leaves the cursor on it for the read, update or   *)
(* delete that follows.  Keys are compared inside the btrees alone, so     *)
(* this holds for any build and any distance of the rowids.                *)
LookupIsExact ==
  \A c \in Cursor :
    /\ stmt[c].mode = "found" => /\ stmt[c].due = stmt[c].row
                                 /\ stmt[c].other \/ IntegerKeyAll(cur[c]) = stmt[c].row
    /\ stmt[c].mode = "missing" => stmt[c].due = NoRow

(* A walk from either end of the table, OP_Rewind or OP_Last and then      *)
(* OP_Next or OP_Prev, visits every row of the merged table, in order and  *)
(* once, while its own statement updates and deletes the rows it visits.   *)
WalkIsExact ==
  \A c \in Cursor :
    stmt[c].how = "end" /\ ~stmt[c].other /\ ~dropped /\ ~wraps
      => stmt[c].row = stmt[c].due

(* OP_SeekGE and OP_SeekLE find the row with the key they are given when   *)
(* there is one.  The exception is OP_SeekLE without a shared row: the end *)
(* test looks at pCur alone and may report an empty table.  OP_SeekGE and  *)
(* OP_SeekGT report that no row follows only if none does.                 *)
SeekFinds ==
  ~wraps => \A c \in Cursor :
    /\ stmt[c].how = "hit" =>
         \/ stmt[c].row = stmt[c].due
         \/ stmt[c].row = NoRow /\ stmt[c].dir = Backward
    /\ stmt[c].how = "seek" /\ stmt[c].dir = Forward /\ stmt[c].row = NoRow
         => stmt[c].due = NoRow

(* The check for keys that are not ordered never reports SQLITE_CORRUPT on *)
(* an undamaged table, in either direction and next to deleted rows.       *)
NoFalseCorruption == \A c \in Cursor : stmt[c].row = Corrupt => wraps

(* A reader whose transaction is committed or rolled back under it reads   *)
(* on in the shared btree: it never goes back, and it never shows a row    *)
(* that is not there.                                                      *)
OrphanReads ==
  [][\A c \in Cursor :
       LET w == stmt[c] IN
       (/\ dropped /\ w.how = "end" /\ w.mode = "scan" /\ ~w.other
        /\ stmt'[c] \notin {w, NoStmt}) =>
         \/ stmt'[c].row \in {NoRow, Corrupt}
         \/ stmt'[c].row \in shared /\ (wraps \/ w.dir * (stmt'[c].row - w.row) >= 0)]_vars
=============================================================================
