-------------------------- MODULE MCBoundedRuntime --------------------------
(* A batch of two keys with a single request of the first key: the keys    *)
(* belong to two builds, and there are deployments of both.                *)
EXTENDS BoundedRuntime

CONSTANTS k1, k2, d1, d2, d3

MCMembers == 1..3
MCGroupOf == <<"pair", "pair", "late">>
MCGroups == {"pair", "late"}
MCKeys == {k1, k2}
MCKeyOf == <<k1, k2, k1>>

MCTwoBuildsOfKeys == [k \in MCKeys |-> IF k = k1 THEN "first" ELSE "second"]
MCThreeDeployments == {d1, d2, d3}
MCTwoBuilds == [d \in MCThreeDeployments |-> IF d = d3 THEN "second" ELSE "first"]
=============================================================================
