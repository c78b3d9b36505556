------------------------------ MODULE RoutePool ------------------------------
(***************************************************************************)
(* The pool of endpoints registered for one route (src/route/pool.go): the *)
(* list that round-robin selection walks, the map that finds an element by *)
(* canonical address or by private instance id, the pruning of stale       *)
(* endpoints, and the iterators through which requests draw endpoints.     *)
(*                                                                         *)
(* Every method of Pool runs under the pool's lock and is one action, with *)
(* two exceptions: pruning walks its loop one element per step, holding    *)
(* the lock, and endpointIterator.Next takes the lock twice (findById,     *)
(* then next), so other callers may run in between.                        *)
(*                                                                         *)
(* Times are kept as ages, counted in ticks and saturating just above the  *)
(* longest threshold they are compared with.                               *)
(***************************************************************************)
EXTENDS Integers, Sequences

CONSTANTS
  Addr,               \* canonical addresses, "host:port"
  Id,                 \* private instance ids
  NoId,               \* the empty string, as an id
  Endpoint,           \* Endpoint objects; equal records are one pointer
  Elem,               \* heap cells for endpointElem objects
  Iterator,           \* iterators held by requests in flight
  DefaultThreshold,   \* droplet stale threshold, in ticks
  RetryAfterFailure,  \* how long a failed endpoint is avoided, in ticks
  nil

Key == Addr \cup Id

(* Endpoints differ in "ptr" when they are distinct objects with equal
   contents.  Addresses and ids share the pool's map; they never collide. *)
ASSUME EndpointAssumption ==
  /\ Endpoint \subseteq [ptr : Nat, addr : Addr, id : Id, staleThreshold : Int]
  /\ nil \notin Endpoint

ASSUME KeyAssumption == Addr \cap Id = {} /\ NoId \in Id

ASSUME ElemAssumption == nil \notin Elem /\ nil \notin Int

ASSUME TimeAssumption == DefaultThreshold \in Nat /\ RetryAfterFailure \in Nat

VARIABLES
  endpoints,  \* Pool.endpoints: the list, as a sequence of Elem
  index,      \* Pool.index: address or id -> Elem or nil
  elem,       \* the contents of each endpointElem
  nextIdx,    \* Pool.nextIdx, 0-based, -1 before the first selection
  prune,      \* the pruning loop: active while it holds the lock, i, last
  iter        \* the state of each endpointIterator

vars == <<endpoints, index, elem, nextIdx, prune, iter>>

Blank == [endpoint |-> nil, index |-> 0, updated |-> 0, failedAt |-> nil]

IdleIter == [pc |-> "idle", initial |-> NoId, last |-> nil]

NotPruning == [active |-> FALSE, i |-> 0, last |-> 0]

PruningAt(i, last) == [active |-> TRUE, i |-> i, last |-> last]

TypeOK ==
  /\ endpoints \in Seq(Elem)
  /\ index \in [Key -> Elem \cup {nil}]
  /\ elem \in [Elem -> [endpoint : Endpoint \cup {nil}, index : Nat,
                        updated  : 0 .. DefaultThreshold + 1,
                        failedAt : (0 .. RetryAfterFailure + 1) \cup {nil}]]
  /\ nextIdx \in Nat \cup {-1}
  /\ prune \in [active : BOOLEAN, i : Nat, last : Nat]
  /\ iter \in [Iterator -> [pc : {"idle", "ready", "next", "held"}, initial : Key,
                            last : Endpoint \cup {nil}]]

(* NewPool *)
Init ==
  /\ endpoints = <<>>
  /\ index = [k \in Key |-> nil]
  /\ elem = [e \in Elem |-> Blank]
  /\ nextIdx = -1
  /\ prune = NotPruning
  /\ iter = [t \in Iterator |-> IdleIter]

LockFree == ~prune.active

Listed(e) == \E j \in 1 .. Len(endpoints) : endpoints[j] = e

-----------------------------------------------------------------------------
(* Registration. *)

(* Put of a pointer the pool already holds for that address: it returns
   before the time stamp is refreshed. *)
PutSame(ep) ==
  /\ LockFree
  /\ index[ep.addr] # nil
  /\ elem[index[ep.addr]].endpoint = ep
  /\ UNCHANGED vars

(* Put of another endpoint object for a known address: it takes over the
   element, its place in the list and its failure mark. *)
PutReplace(ep) ==
  LET e == index[ep.addr]
      oldId == elem[e].endpoint.id
  IN
  /\ LockFree
  /\ e # nil
  /\ elem[e].endpoint # ep
  /\ elem' = [elem EXCEPT ![e].endpoint = ep, ![e].updated = 0]
  /\ index' = IF oldId = ep.id THEN index
              ELSE [index EXCEPT ![oldId] = nil, ![ep.id] = e]
  /\ UNCHANGED <<endpoints, nextIdx, prune, iter>>

(* Put of an unknown address: a new element at the end of the list. *)
PutNew(ep) ==
  /\ LockFree
  /\ index[ep.addr] = nil
  /\ \E e \in Elem :
       /\ ~Listed(e)
       /\ \A k \in Key : index[k] # e
       /\ elem' = [elem EXCEPT ![e] = [endpoint |-> ep, index |-> Len(endpoints),
                                       updated |-> 0, failedAt |-> nil]]
       /\ endpoints' = Append(endpoints, e)
       /\ index' = [index EXCEPT ![ep.addr] = e, ![ep.id] = e]
  /\ UNCHANGED <<nextIdx, prune, iter>>

Put(ep) == PutSame(ep) \/ PutReplace(ep) \/ PutNew(ep)

-----------------------------------------------------------------------------
(* Removal: the last element moves into the freed place. *)

(* Mutant of removeEndpoint: the moved element keeps its old position. *)
removeEndpointUnindexed(e) ==
  LET i == elem[e].index
      last == Len(endpoints)
      ep == elem[e].endpoint
  IN
  /\ endpoints' = [j \in 1 .. last - 1 |->
                     IF j = i + 1 THEN endpoints[last] ELSE endpoints[j]]
  /\ elem' = [elem EXCEPT ![e] = Blank]
  /\ index' = [index EXCEPT ![ep.addr] = nil, ![ep.id] = nil]

(* Mutant of removeEndpoint: the id stays in the map, and leads to the
   removed element. *)
removeEndpointKeepsId(e) ==
  LET i == elem[e].index
      last == Len(endpoints)
      moved == endpoints[last]
  IN
  /\ endpoints' = [j \in 1 .. last - 1 |->
                     IF j = i + 1 THEN moved ELSE endpoints[j]]
  /\ elem' = [elem EXCEPT ![moved].index = i]
  /\ index' = [index EXCEPT ![elem[e].endpoint.addr] = nil]

removeEndpoint(e) ==
  LET i     == elem[e].index
      last  == Len(endpoints)
      moved == endpoints[last]
      ep    == elem[e].endpoint
  IN
  /\ endpoints' = [j \in 1 .. last - 1 |->
                     IF j = i + 1 THEN moved ELSE endpoints[j]]
  /\ elem' = [elem EXCEPT ![moved].index = i, ![e] = Blank]
  /\ index' = [index EXCEPT ![ep.addr] = nil, ![ep.id] = nil]

Remove(ep) ==
  /\ LockFree
  /\ Len(endpoints) > 0
  /\ index[ep.addr] # nil
  /\ removeEndpoint(index[ep.addr])
  /\ UNCHANGED <<nextIdx, prune, iter>>

-----------------------------------------------------------------------------
(* PruneEndpoints: the loop over the list, under the lock.  It compares with
   the one "now" it read at its start, so no tick happens meanwhile. *)

StaleAfter(ep) ==
  IF ep.staleThreshold > 0 /\ ep.staleThreshold < DefaultThreshold
    THEN ep.staleThreshold
    ELSE DefaultThreshold

Stale(e) == elem[e].updated > StaleAfter(elem[e].endpoint)

PruneStart ==
  /\ LockFree
  /\ prune' = PruningAt(0, Len(endpoints))
  /\ UNCHANGED <<endpoints, index, elem, nextIdx, iter>>

(* Mutant of PruneRemove: the element moved into slot i is skipped. *)
PruneRemoveSkips ==
  /\ prune.active
  /\ prune.i < prune.last
  /\ Stale(endpoints[prune.i + 1])
  /\ removeEndpoint(endpoints[prune.i + 1])
  /\ prune' = PruningAt(prune.i + 1, prune.last - 1)
  /\ UNCHANGED <<nextIdx, iter>>

PruneRemove ==
  /\ prune.active
  /\ prune.i < prune.last
  /\ Stale(endpoints[prune.i + 1])
  /\ removeEndpoint(endpoints[prune.i + 1])
  /\ prune' = PruningAt(prune.i, prune.last - 1)
  /\ UNCHANGED <<nextIdx, iter>>

(* Mutant of PruneKeep: the pass gives up at the first fresh element, as if
   the list were sorted by age. *)
PruneKeepStops ==
  /\ prune.active
  /\ prune.i < prune.last
  /\ ~Stale(endpoints[prune.i + 1])
  /\ prune' = NotPruning
  /\ UNCHANGED <<endpoints, index, elem, nextIdx, iter>>

PruneKeep ==
  /\ prune.active
  /\ prune.i < prune.last
  /\ ~Stale(endpoints[prune.i + 1])
  /\ prune' = PruningAt(prune.i + 1, prune.last)
  /\ UNCHANGED <<endpoints, index, elem, nextIdx, iter>>

PruneEnd ==
  /\ prune.active
  /\ prune.i >= prune.last
  /\ prune' = NotPruning
  /\ UNCHANGED <<endpoints, index, elem, nextIdx, iter>>

(* MarkUpdated: every time stamp is set to one given time. *)
MarkUpdated(age) ==
  /\ LockFree
  /\ elem' = [e \in Elem |-> IF Listed(e) THEN [elem[e] EXCEPT !.updated = age]
                                          ELSE elem[e]]
  /\ UNCHANGED <<endpoints, index, nextIdx, prune, iter>>

-----------------------------------------------------------------------------
(* Selection. *)

(* An iterator whose Next has returned ep: it has no initial endpoint left. *)
HandedOut(ep) == [pc |-> "held", initial |-> NoId, last |-> ep]

(* The element failed less than retryAfterFailure ago. *)
InFailureWindow(e) ==
  /\ elem[e].failedAt # nil
  /\ elem[e].failedAt <= RetryAfterFailure

(* Where next() starts: a random place the first time, the front again when
   removals have left nextIdx past the end. *)
StartIdx ==
  CASE nextIdx = -1 -> 0 .. Len(endpoints) - 1
    [] nextIdx >= Len(endpoints) -> {0}
    [] OTHER -> {nextIdx}

(* The element n places, cyclically, after the 0-based place start. *)
ElemAt(start, n) == endpoints[((start + n) % Len(endpoints)) + 1]

(* Mutant of SelectUsable: the failure window is not looked at. *)
SelectUsableBlindly(t, start, n) ==
  LET e == ElemAt(start, n) IN
  /\ n = 0
  /\ elem' = [elem EXCEPT ![e].failedAt = nil]
  /\ nextIdx' = (start + n + 1) % Len(endpoints)
  /\ iter' = [iter EXCEPT ![t] = HandedOut(elem[e].endpoint)]

(* Mutant of SelectUsable: the rotation resumes at the element just taken. *)
SelectUsableStays(t, start, n) ==
  LET e == ElemAt(start, n) IN
  /\ ~InFailureWindow(e)
  /\ \A m \in 0 .. n - 1 : InFailureWindow(ElemAt(start, m))
  /\ elem' = [elem EXCEPT ![e].failedAt = nil]
  /\ nextIdx' = (start + n) % Len(endpoints)
  /\ iter' = [iter EXCEPT ![t] = HandedOut(elem[e].endpoint)]

(* next() on a non-empty pool when some endpoint is usable: the first element
   that is not in its failure window; its expired mark, if any, is cleared. *)
SelectUsable(t, start, n) ==
  LET e == ElemAt(start, n) IN
  /\ ~InFailureWindow(e)
  /\ \A m \in 0 .. n - 1 : InFailureWindow(ElemAt(start, m))
  /\ elem' = [elem EXCEPT ![e].failedAt = nil]
  /\ nextIdx' = (start + n + 1) % Len(endpoints)
  /\ iter' = [iter EXCEPT ![t] = HandedOut(elem[e].endpoint)]

(* next() when the loop came round with every element failed: all marks are
   reset and the element it started from is taken. *)
SelectAfterReset(t, start) ==
  /\ \A m \in 0 .. Len(endpoints) - 1 : InFailureWindow(ElemAt(start, m))
  /\ elem' = [e \in Elem |-> IF Listed(e) THEN [elem[e] EXCEPT !.failedAt = nil]
                                          ELSE elem[e]]
  /\ nextIdx' = (start + 1) % Len(endpoints)
  /\ iter' = [iter EXCEPT ![t] = HandedOut(elem[ElemAt(start, 0)].endpoint)]

(* Pool.next, reached with no initial endpoint or after findById missed. *)
NextRoundRobin(t) ==
  /\ LockFree
  /\ \/ iter[t].pc \in {"next", "held"}
     \/ iter[t].pc = "ready" /\ iter[t].initial = NoId
  /\ \/ /\ Len(endpoints) = 0
        /\ iter' = [iter EXCEPT ![t] = HandedOut(nil)]
        /\ UNCHANGED <<elem, nextIdx>>
     \/ /\ Len(endpoints) > 0
        /\ \E start \in StartIdx :
             \/ \E n \in 0 .. Len(endpoints) - 1 : SelectUsable(t, start, n)
             \/ SelectAfterReset(t, start)
  /\ UNCHANGED <<endpoints, index, prune>>

(* Pool.Endpoints: a request asks for an iterator, with the instance its
   sticky session names or with the empty string. *)
Endpoints(t, initial) ==
  /\ iter[t].pc = "idle"
  /\ iter' = [iter EXCEPT ![t] = [pc |-> "ready", initial |-> initial, last |-> nil]]
  /\ UNCHANGED <<endpoints, index, elem, nextIdx, prune>>

(* The first half of iterator.Next when an initial endpoint is set. *)
NextInitial(t) ==
  LET e == index[iter[t].initial] IN
  /\ LockFree
  /\ iter[t].pc = "ready"
  /\ iter[t].initial # NoId
  /\ iter' = [iter EXCEPT ![t] =
       IF e = nil THEN [pc |-> "next", initial |-> NoId, last |-> nil]
                  ELSE HandedOut(elem[e].endpoint)]
  /\ UNCHANGED <<endpoints, index, elem, nextIdx, prune>>

(* EndpointFailed marks whatever element now has the failed one's address. *)
EndpointFailed(t) ==
  LET e == index[iter[t].last.addr] IN
  /\ LockFree
  /\ iter[t].pc = "held"
  /\ iter[t].last # nil
  /\ e # nil
  /\ elem' = [elem EXCEPT ![e].failedAt = 0]
  /\ UNCHANGED <<endpoints, index, nextIdx, prune, iter>>

(* The request is over and drops its iterator. *)
Release(t) ==
  /\ iter[t].pc \in {"ready", "held"}
  /\ iter' = [iter EXCEPT ![t] = IdleIter]
  /\ UNCHANGED <<endpoints, index, elem, nextIdx, prune>>

-----------------------------------------------------------------------------

Older(age, limit) == IF age <= limit THEN age + 1 ELSE age

Tick ==
  /\ LockFree
  /\ elem' = [e \in Elem |->
       IF Listed(e)
         THEN [elem[e] EXCEPT
                 !.updated  = Older(@, DefaultThreshold),
                 !.failedAt = IF @ = nil THEN nil ELSE Older(@, RetryAfterFailure)]
         ELSE elem[e]]
  /\ UNCHANGED <<endpoints, index, nextIdx, prune, iter>>

Pruning == PruneStart \/ PruneRemove \/ PruneKeep \/ PruneEnd

Next ==
  \/ \E ep \in Endpoint : Put(ep) \/ Remove(ep)
  \/ Pruning
  \/ \E age \in 0 .. DefaultThreshold + 1 : MarkUpdated(age)
  \/ \E t \in Iterator :
       \/ \E initial \in Key : Endpoints(t, initial)
       \/ NextInitial(t)
       \/ NextRoundRobin(t)
       \/ EndpointFailed(t)
       \/ Release(t)
  \/ Tick

Spec == Init /\ [][Next]_vars

(* The registry's ticker starts a pruning pass again and again, and a pass
   that has started runs to its end. *)
PruningFairness ==
  /\ WF_vars(PruneStart)
  /\ WF_vars(PruneRemove)
  /\ WF_vars(PruneKeep)
  /\ WF_vars(PruneEnd)

LiveSpec == Spec /\ PruningFairness

-----------------------------------------------------------------------------
(* Properties. *)

(* Every list element records its own position: the swap in removeEndpoint
   and the append in Put keep elem.index in step with the list. *)
PositionsCorrect ==
  \A j \in 1 .. Len(endpoints) : elem[endpoints[j]].index = j - 1

(* Every listed element holds an endpoint and is found under its address, so
   Put never lists an address twice and Remove always finds it. *)
AddressesIndexed ==
  \A j \in 1 .. Len(endpoints) :
    LET e == endpoints[j] IN
    /\ elem[e].endpoint # nil
    /\ index[elem[e].endpoint.addr] = e

(* The map never leads to an element that has left the list, nor to one whose
   endpoint has neither that address nor that id: findById and
   endpointFailed act on the instance that was asked for. *)
IndexSound ==
  \A k \in Key :
    index[k] # nil =>
      /\ Listed(index[k])
      /\ k \in {elem[index[k]].endpoint.addr, elem[index[k]].endpoint.id}

(* The list and the map describe the same set of endpoints. *)
IndexConsistent == PositionsCorrect /\ AddressesIndexed /\ IndexSound

(* Round-robin weighs every instance once: no address is listed twice,
   whatever registrations, removals and pruning passes came before. *)
OnePlacePerAddress ==
  \A i, j \in 1 .. Len(endpoints) :
    elem[endpoints[i]].endpoint.addr = elem[endpoints[j]].endpoint.addr => i = j

(* A pruning pass that ends has examined every element, those that the
   re-ordering delete moved included: nothing stale is left. *)
PruneComplete == [][PruneEnd => \A e \in Elem : Listed(e) => ~Stale(e)]_vars

(* next() hands out nil only from an empty pool, and an endpoint that failed
   recently only when every endpoint of the pool failed recently. *)
SelectionAvoidsFailed ==
  [][\A t \in Iterator : NextRoundRobin(t) =>
       IF endpoints = <<>> THEN iter'[t].last = nil
       ELSE \E e \in Elem :
              /\ Listed(e)
              /\ elem[e].endpoint = iter'[t].last
              /\ \/ ~InFailureWindow(e)
                 \/ \A f \in Elem : Listed(f) => InFailureWindow(f)]_vars

(* An endpoint that is not registered again does not outlive its threshold
   for ever: it is eventually pruned, or refreshed by a new registration. *)
StaleEventuallyPruned ==
  \A e \in Elem : (Listed(e) /\ Stale(e)) ~> (~Listed(e) \/ ~Stale(e))

(* The endpoint registered at an address, read through the map. *)
Registered ==
  [a \in Addr |-> IF index[a] = nil THEN nil ELSE elem[index[a]].endpoint]

(* What Next last returned to each request. *)
Returned == [t \in Iterator |-> IF iter[t].pc = "held" THEN {iter[t].last} ELSE {}]

Abstract == INSTANCE EndpointPool WITH members <- Registered, handed <- Returned

(* The pool implements its promise. *)
ImplementsEndpointPool == Abstract!Spec

(* An endpoint registered with a custom staleness threshold is pruned only
   when it is older than that threshold. *)
CustomThresholdHonoured ==
  [][PruneRemove => LET e == endpoints[prune.i + 1] IN
                    elem[e].endpoint.staleThreshold > 0 =>
                      elem[e].updated > elem[e].endpoint.staleThreshold]_vars

=============================================================================
