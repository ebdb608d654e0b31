------------------------------ MODULE MCCursors ------------------------------
(* Two scenes.  One statement, which may search, on three rowids, two of   *)
(* them next to each other and the third so far away that its distance to  *)
(* the others does not fit in Width bits.  And a statement that writes     *)
(* next to one that reads, on two rowids.                                  *)
EXTENDS Cursors

CONSTANTS writer, reader

MCKeys == {1, 2, 40}
MCCursor == {writer, reader}
MCReader == {reader}
MCScenes ==
  {[keys |-> MCKeys, cursors |-> {writer}, seeks |-> SeekOps],
   [keys |-> {1, 2}, cursors |-> MCCursor, seeks |-> {}]}
==============================================================================
