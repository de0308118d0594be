------------------------- MODULE MCRegistryWatchers -------------------------
EXTENDS RegistryWatchers

CONSTANTS s1, s2, i1, i2

Services == {s1, s2}
Proxies == {s1}
Contents == {{i1}, {i2}, {i1, i2}}
ListedServices == {s1}
ZkWorlds ==
    {[children |-> [s \in {s1} |-> {i1, i2}], listeners |-> 2, events |-> 3],
     [children |-> [s \in {s1, s2} |-> {i1}], listeners |-> 2, events |-> 2]}
=============================================================================
