-------------------------- MODULE MCLoadBalancers --------------------------
(* The requests of LeastRequest are interchangeable, and so are its hosts. *)
EXTENDS LoadBalancers, TLC

\* Two conversations that begin alike, one that swaps the turns of another, one that continues it.
Conversations == {<<"hi">>, <<"hi", "more">>, <<"more", "hi">>}

Pods ==
    {[waiting |-> 0, cache |-> 1, active |-> {}, limit |-> 1],
     [waiting |-> 1, cache |-> 0, active |-> {"other"}, limit |-> 1],
     [waiting |-> 2, cache |-> 1, active |-> {"asked"}, limit |-> 1],
     [waiting |-> 4, cache |-> 0, active |-> {"asked"}, limit |-> 1]}

Half == <<1, 2>>

Symmetry == Permutations(Request) \cup Permutations(Host)
=============================================================================
