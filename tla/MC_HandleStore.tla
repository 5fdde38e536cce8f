--------------------------- MODULE MC_HandleStore ---------------------------
(***************************************************************************)
(* Two queries: h1 reads the edge k1 and, while it is open, the row k2; h2 *)
(* reads the row k2.  A change of k2 reloads both behind one barrier.      *)
(***************************************************************************)
EXTENDS HandleStore, TLC

CONSTANTS h1, h2, k1, k2, u1, u2

Roots == (h1 :> k1 @@ h2 :> k2)
Links == (h1 :> {k2} @@ h2 :> {})
Either == {(k1 :> r @@ k2 :> 0) : r \in {0, 1}}
Watches == (u1 :> h1 @@ u2 :> h2)
=============================================================================
