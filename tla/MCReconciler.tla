---------------------------- MODULE MCReconciler ----------------------------
(***************************************************************************)
(* Bounded instance of Reconciler: two registries, one proxy, two          *)
(* configurations that work and one that builds no wrapper.                *)
(***************************************************************************)
EXTENDS Reconciler, TLC

CONSTANTS r1, r2, h1, h2, p1, c1, c2, bad

MCHostOf == r1 :> h1 @@ r2 :> h2
\* A proxy that builds no wrapper comes with the first registry alone.
MCBridge ==
    {[registries |-> r1 :> x @@ r2 :> y, proxies |-> p1 :> z] :
        x \in {None, c1, c2}, y \in {None, bad, c1}, z \in {None, c1}}
    \cup
    {[registries |-> r1 :> x @@ r2 :> None, proxies |-> p1 :> bad] : x \in {None, c1, c2}}
\* The same without proxies.
MCRegistriesOnly == {b \in MCBridge : b.proxies[p1] = None}
=============================================================================
