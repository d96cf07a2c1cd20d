---------------------------- MODULE MCStorageUsage ----------------------------
(***************************************************************************)
(* Instances of StorageUsage for TLC.                                      *)
(***************************************************************************)
EXTENDS StorageUsage, TLC

CONSTANTS u1, u2, a1, r1, r2, c1, c2, p1, p2, p3

\* Two users upload one content; the first of them has another file as well.
MCSizeOf == c1 :> 2 @@ c2 :> 3
MCUploaderOf == p1 :> u1 @@ p2 :> u2 @@ p3 :> u1
MCAskedFor == r1 :> {c1, c2} @@ r2 :> {c1}
MCWhoOf == a1 :> u1
MCContentOf == p1 :> c1 @@ p2 :> c1 @@ p3 :> c2
=============================================================================
