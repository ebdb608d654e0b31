------------------------------- MODULE MCIpcRow -------------------------------
(* Small instances of IpcRow: keys that collide and keys whose runs join, *)
(* one of them wrapping around the end of the table.                      *)
EXTENDS IpcRow, TLC

CONSTANTS k1, k2, k3, k4, c1, c2, c3

MCKeys == {k1, k2, k3, k4}
MCConns == {c1, c2, c3}

(* c1 and c2 are two connections of one process. *)
MCPidOf == (c1 :> 1) @@ (c2 :> 1) @@ (c3 :> 2)

(* k1 and k2 collide in the last slot but one; k3 lives in the last slot   *)
(* and k4 in the first: one run that wraps, where a deletion can move      *)
(* several elements, and not always the nearest one first.                 *)
MCHash == (k1 :> nElement - 2) @@ (k2 :> nElement - 2) @@ (k3 :> nElement - 1) @@ (k4 :> 0)

(* All keys live in slot 1, so that slot 0 is the last one to be used. *)
MCHashFull == [k \in MCKeys |-> 1]
=============================================================================
