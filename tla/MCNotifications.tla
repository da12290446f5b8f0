--------------------------- MODULE MCNotifications ---------------------------
(* Two devices, of which one fills the guard and its bucket.  No definition *)
(* tells two ids apart.  compute_hash does not tell c2 from c3, nor c1 from *)
(* cIn, which differs from it in a field that the hash leaves out.          *)
EXTENDS Notifications, TLC

CONSTANTS o1, o2, c1, c2, c3, cOut, cIn, h1, h2, h3

MCMaxSequence == (o1 :> 4) @@ (o2 :> 1)
MCHashOf == (c1 :> h1) @@ (cIn :> h1) @@ (c2 :> h2) @@ (c3 :> h2) @@ (cOut :> h3)
MCSymmetry == Permutations(Ids)
=============================================================================
