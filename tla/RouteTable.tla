------------------------------ MODULE RouteTable ------------------------------
(***************************************************************************)
(* What the route registry promises, without the trie, the pools or the    *)
(* pruning walk: a table that holds, for each route and endpoint, the age  *)
(* of the registration.  A registration or an unregistration concerns one  *)
(* endpoint of one route; pruning takes all stale endpoints from a route,  *)
(* and no others.                                                          *)
(***************************************************************************)
EXTENDS Integers

CONSTANTS Uri, Endpoint, StaleAfter, MaxThreshold, nil

VARIABLE routes   \* uri -> endpoint -> age of the registration, or nil

Init == routes = [u \in Uri |-> [ep \in Endpoint |-> nil]]

Register(u, ep) == routes' = [routes EXCEPT ![u][ep] = 0]

Unregister(u, ep) == routes' = [routes EXCEPT ![u][ep] = nil]

Expired(ep, age) == IF age # nil /\ age > StaleAfter[ep] THEN nil ELSE age

Expire(u) ==
  routes' = [routes EXCEPT ![u] = [ep \in Endpoint |-> Expired(ep, routes[u][ep])]]

Older(age) == IF age = nil \/ age > MaxThreshold THEN age ELSE age + 1

Tick == routes' = [u \in Uri |-> [ep \in Endpoint |-> Older(routes[u][ep])]]

Next ==
  \/ \E u \in Uri, ep \in Endpoint : Register(u, ep) \/ Unregister(u, ep)
  \/ \E u \in Uri : Expire(u)
  \/ Tick

Spec == Init /\ [][Next]_routes
=============================================================================
