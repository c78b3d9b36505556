------------------------- MODULE MCRoutePoolBalance -------------------------
(* An instance of RoutePoolBalance for TLC. *)
EXTENDS RoutePoolBalance, TLC

CONSTANTS a1, a2, a3, x, e1, e2, e3

Ep(ptr, addr, id, stale) ==
  [ptr |-> ptr, addr |-> addr, id |-> id, staleThreshold |-> stale]

MCAddr == {a1, a2, a3}
MCId == {NoId, x}
MCElem == {e1, e2, e3}
ElemSymmetry == Permutations(MCElem)

(* Two instances share an id, one has none. *)
SelectEndpoint == {Ep(1, a1, x, -1), Ep(1, a2, x, -1), Ep(1, a3, NoId, -1)}
=============================================================================
