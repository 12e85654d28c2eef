------------------------------ MODULE MCBundle ------------------------------
(***************************************************************************)
(* Instances of Bundle: two checkouts, a remote the user may have          *)
(* configured before, three packages, one of which is foreign.             *)
(***************************************************************************)
EXTENDS Bundle, TLC

CONSTANTS A, B, d1, d2, dx, c1, c2

MCOff == (d1 :> {c2}) @@ (d2 :> {}) @@ (dx :> {})
MCMarkets == {None} \cup {[src |-> Git, digest |-> d] : d \in {d1}}
MCContents == [Dirs \cup {Git} -> {d1}]
MCAll == {"install", "update", "uninstall", "reconcile"}
=============================================================================
