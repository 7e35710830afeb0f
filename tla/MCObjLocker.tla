------------------------------ MODULE MCObjLocker ------------------------------
(* ObjLocker for TLC: two of three ids share a map. *)
EXTENDS ObjLocker, TLC

CONSTANTS i1, i2, i3, m1, m2
SharedMap == (i1 :> m1) @@ (i2 :> m1) @@ (i3 :> m2)
=============================================================================
