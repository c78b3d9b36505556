----------------------------- MODULE EndpointPool -----------------------------
(***************************************************************************)
(* What a route's pool promises its users, without the list, the map, the  *)
(* failure marks or the pruning loop: at most one endpoint per address is  *)
(* registered, and a request is only ever handed an endpoint that is       *)
(* registered at that moment, or nil when no endpoint is registered.       *)
(***************************************************************************)
CONSTANTS Addr, Endpoint, Iterator, nil

VARIABLES
  members,  \* the endpoint registered at each address, or nil
  handed    \* {what each request was last handed}, {} if nothing yet

poolVars == <<members, handed>>

Init ==
  /\ members = [a \in Addr |-> nil]
  /\ handed = [t \in Iterator |-> {}]

Register(ep) ==
  /\ members' = [members EXCEPT ![ep.addr] = ep]
  /\ UNCHANGED handed

(* An unregistration, or the pruning of a stale endpoint. *)
Drop(a) ==
  /\ members' = [members EXCEPT ![a] = nil]
  /\ UNCHANGED handed

Hand(t) ==
  /\ \/ \E a \in Addr : /\ members[a] # nil
                        /\ handed' = [handed EXCEPT ![t] = {members[a]}]
     \/ /\ \A a \in Addr : members[a] = nil
        /\ handed' = [handed EXCEPT ![t] = {nil}]
  /\ UNCHANGED members

(* A request begins or ends. *)
Forget(t) ==
  /\ handed' = [handed EXCEPT ![t] = {}]
  /\ UNCHANGED members

Next ==
  \/ \E ep \in Endpoint : Register(ep)
  \/ \E a \in Addr : Drop(a)
  \/ \E t \in Iterator : Hand(t) \/ Forget(t)

Spec == Init /\ [][Next]_poolVars
=============================================================================
