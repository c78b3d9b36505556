-------------------------- MODULE RoutePoolBalance --------------------------
(***************************************************************************)
(* How evenly a pool's round-robin spreads requests.  A history variable,  *)
(* added to RoutePool, counts for each element the selections that passed  *)
(* it over since it was last selected.                                     *)
(***************************************************************************)
EXTENDS RoutePool

VARIABLE passed   \* selections of other elements since an element's turn

balanceVars == <<endpoints, index, elem, nextIdx, prune, iter, passed>>

(* The element whose endpoint the step hands to t through next(). *)
Selected(t) == index[iter'[t].last.addr]

(* The count of an element starts anew when it is selected, when it is new or
   in its failure window, and when a removal has re-ordered the list. *)
StartsAnew(e) ==
  \/ ~Listed(e)'
  \/ InFailureWindow(e)'
  \/ Len(endpoints') < Len(endpoints)

CountSelection(t) ==
  passed' = [e \in Elem |->
    IF StartsAnew(e) \/ endpoints = <<>> THEN 0
    ELSE IF e = Selected(t) THEN 0 ELSE passed[e] + 1]

CountNothing == passed' = [e \in Elem |-> IF StartsAnew(e) THEN 0 ELSE passed[e]]

BalanceInit == Init /\ passed = [e \in Elem |-> 0]

SelectionStep == \E t \in Iterator : NextRoundRobin(t) /\ CountSelection(t)

NonSelectionStep ==
  /\ \/ \E ep \in Endpoint : Put(ep) \/ Remove(ep)
     \/ Pruning
     \/ \E age \in 0 .. DefaultThreshold + 1 : MarkUpdated(age)
     \/ \E t \in Iterator :
          \/ \E initial \in Key : Endpoints(t, initial)
          \/ NextInitial(t)
          \/ EndpointFailed(t)
          \/ Release(t)
     \/ Tick
  /\ CountNothing

BalanceSpec == BalanceInit /\ [][SelectionStep \/ NonSelectionStep]_balanceVars

(* While the list only grows, a usable endpoint is passed over by next() fewer
   times than the pool has endpoints before its turn comes, however other
   endpoints fail, recover and are re-registered meanwhile: the rotation
   starves nobody. *)
EveryEndpointGetsItsTurn ==
  \A e \in Elem : Listed(e) => passed[e] < Len(endpoints)
=============================================================================
