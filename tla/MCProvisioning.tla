--------------------------- MODULE MCProvisioning ---------------------------
(* Instances of Provisioning for TLC. *)
EXTENDS Provisioning, TLC

CONSTANTS p1, p2, p3, f1, f2, t1, t2

Shared == (p1 :> f1) @@ (p2 :> f1) @@ (p3 :> NoForum)
OwnerOf == (t1 :> p1) @@ (t2 :> p1)
Ages == (t1 :> 1) @@ (t2 :> 2)

\* The commands list fewer tasks than the views, these fewer than rebuild.
Limits == [op \in AllOps |-> IF op \in {"archive_cmd", "unarchive_cmd"} THEN 1 ELSE 2]
Symmetry == Permutations(Actors)
=============================================================================
