--------------------------- MODULE MCRouteRegistry ---------------------------
(* Instances of RouteRegistry for TLC. *)
EXTENDS RouteRegistry, TLC

CONSTANTS a, b, com, p, q, x, pl1, pl2, pl3, pl4, pl5

MCLabel == {Star, a, b, com, p, q}
Host == <<a, com>>

(* A route above two others, one of them two levels below it. *)
BranchUri == {<<Host>>, <<Host, <<p>>, <<q>>>>, <<Host, <<q>>>>}

(* A single branch. *)
NestedUri == {<<Host>>, <<Host, <<p>>>>, <<Host, <<p>>, <<q>>>>}

(* Routes with and without a wildcard host. *)
WildUri == {<<<<b, a, com>>>>, <<<<b, a, com>>, <<p>>>>, <<<<Star, a, com>>>>,
            <<<<Star, com>>, <<p>>>>}

(* One pool per uri, and one for each request that may hold on to another. *)
ThreePools == {pl1, pl2, pl3}
FivePools == {pl1, pl2, pl3, pl4, pl5}
PoolSymmetry == Permutations(Pool)

OneEndpoint == {x}
AtOnce == [ep \in Endpoint |-> 0]
=============================================================================
