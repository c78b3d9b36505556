----------------------------- MODULE MCRoutePool -----------------------------
(* Instances of RoutePool for TLC. *)
EXTENDS RoutePool, TLC

CONSTANTS a1, a2, a3, x, y, e1, e2, e3

Ep(ptr, addr, id, stale) ==
  [ptr |-> ptr, addr |-> addr, id |-> id, staleThreshold |-> stale]

MCAddr == {a1, a2, a3}
MCId == {NoId, x, y}
MCElem == {e1, e2, e3}
ElemSymmetry == Permutations(MCElem)

(* Ids that are shared, that change and that are missing; thresholds below
   and above the default, and -1 (not sent). *)
MCEndpoint == {Ep(1, a1, x, -1), Ep(2, a1, y, -1), Ep(1, a2, x, 1),
               Ep(1, a3, NoId, 5)}
=============================================================================
