--------------------------- MODULE RoutePoolProofs ---------------------------
(***************************************************************************)
(* Proofs about RoutePool for every set of addresses, ids, endpoints and   *)
(* iterators and every pair of thresholds, and about RoutePoolBalance.     *)
(***************************************************************************)
EXTENDS RoutePoolBalance, TLAPS

(* A function on 1..n is a sequence of length n. *)
LEMMA FunctionIsSeq ==
  ASSUME NEW S, NEW n \in Nat, NEW f \in [1 .. n -> S]
  PROVE  f \in Seq(S) /\ Len(f) = n
<1>1. f \in Seq(S)
  OBVIOUS
<1>2. DOMAIN f = 1 .. Len(f) /\ Len(f) \in Nat
  BY <1>1
<1>3. DOMAIN f = 1 .. n
  BY Zenon
<1>4. 1 .. n = 1 .. Len(f)
  BY <1>2, <1>3, Zenon
<1>5. Len(f) = n
  BY <1>4, <1>2
<1>. QED  BY <1>1, <1>5, Zenon

(* What the pruning loop knows while it holds the lock: the elements before
   position i have been found fresh. *)
PruneInv ==
  prune.active =>
    /\ prune.last = Len(endpoints)
    /\ prune.i <= prune.last
    /\ \A j \in 1 .. prune.i : ~Stale(endpoints[j])

Inv == TypeOK /\ IndexConsistent /\ PruneInv

(* An empty pool satisfies the invariant. *)
LEMMA InitInv == Init => Inv
<1>. SUFFICES ASSUME Init PROVE Inv
  BY Zenon
<1>1. endpoints = <<>> /\ Len(endpoints) = 0 /\ endpoints \in Seq(Elem)
  BY DEF Init
<1>2. Blank \in [endpoint : Endpoint \cup {nil}, index : Nat,
                 updated  : 0 .. DefaultThreshold + 1,
                 failedAt : (0 .. RetryAfterFailure + 1) \cup {nil}]
  BY TimeAssumption DEF Blank
<1>3. NoId \in Key
  BY KeyAssumption, Zenon DEF Key
<1>4. TypeOK
  BY <1>1, <1>2, <1>3, Zenon DEF Init, TypeOK, NotPruning, IdleIter
<1>5. IndexConsistent
  BY <1>1 DEF Init, IndexConsistent, PositionsCorrect, AddressesIndexed, IndexSound
<1>6. PruneInv
  BY Zenon DEF Init, PruneInv, NotPruning
<1>. QED  BY <1>4, <1>5, <1>6, Zenon DEF Inv

(* Steps that touch neither the list, nor the map, nor the endpoint or the
   position of an element keep list and map consistent. *)
LEMMA QuietStep ==
  ASSUME TypeOK, IndexConsistent,
         UNCHANGED <<endpoints, index>>,
         \A e \in Elem : /\ elem'[e].endpoint = elem[e].endpoint
                         /\ elem'[e].index = elem[e].index
  PROVE  IndexConsistent'
<1>1. \A j \in 1 .. Len(endpoints) : endpoints[j] \in Elem
  BY DEF TypeOK
<1>2. \A k \in Key : index[k] # nil => index[k] \in Elem
  BY Zenon DEF TypeOK
<1>3. PositionsCorrect'
  BY <1>1, Zenon DEF IndexConsistent, PositionsCorrect
<1>4. AddressesIndexed'
  BY <1>1 DEF IndexConsistent, AddressesIndexed
<1>5. IndexSound'
  BY <1>2, Zenon DEF IndexConsistent, IndexSound, Listed
<1>. QED  BY <1>3, <1>4, <1>5, Zenon DEF IndexConsistent

(* Facts about a pool in a consistent state that the steps below rest on. *)
LEMMA PoolFacts ==
  ASSUME TypeOK, IndexConsistent
  PROVE  /\ Len(endpoints) \in Nat
         /\ DOMAIN endpoints = 1 .. Len(endpoints)
         /\ \A j \in 1 .. Len(endpoints) : endpoints[j] \in Elem
         /\ \A i, j \in 1 .. Len(endpoints) : endpoints[i] = endpoints[j] => i = j
         /\ \A e \in Elem : Listed(e) =>
              /\ elem[e].endpoint \in Endpoint
              /\ elem[e].endpoint.addr \in Addr
              /\ elem[e].endpoint.id \in Id
              /\ index[elem[e].endpoint.addr] = e
              /\ elem[e].index + 1 \in 1 .. Len(endpoints)
              /\ endpoints[elem[e].index + 1] = e
         /\ \A k \in Key : index[k] # nil => index[k] \in Elem /\ Listed(index[k])
<1>1. Len(endpoints) \in Nat /\ DOMAIN endpoints = 1 .. Len(endpoints)
  BY DEF TypeOK
<1>2. \A j \in 1 .. Len(endpoints) : endpoints[j] \in Elem
  BY DEF TypeOK
<1>3. \A i, j \in 1 .. Len(endpoints) : endpoints[i] = endpoints[j] => i = j
  <2>. SUFFICES ASSUME NEW i \in 1 .. Len(endpoints), NEW j \in 1 .. Len(endpoints),
                       endpoints[i] = endpoints[j]
                PROVE  i = j
    BY Zenon
  <2>1. elem[endpoints[i]].index = i - 1 /\ elem[endpoints[j]].index = j - 1
    BY Zenon DEF IndexConsistent, PositionsCorrect
  <2>. QED  BY <2>1, <1>1
<1>4. ASSUME NEW e \in Elem, Listed(e)
      PROVE  /\ elem[e].endpoint \in Endpoint
             /\ elem[e].endpoint.addr \in Addr
             /\ elem[e].endpoint.id \in Id
             /\ index[elem[e].endpoint.addr] = e
             /\ elem[e].index + 1 \in 1 .. Len(endpoints)
             /\ endpoints[elem[e].index + 1] = e
  <2>1. PICK j \in 1 .. Len(endpoints) : endpoints[j] = e
    BY <1>4, Zenon DEF Listed
  <2>2. elem[e].index = j - 1
    BY <2>1, Zenon DEF IndexConsistent, PositionsCorrect
  <2>3. elem[e].endpoint # nil /\ index[elem[e].endpoint.addr] = e
    BY <2>1, Zenon DEF IndexConsistent, AddressesIndexed
  <2>4. elem[e].endpoint \in Endpoint
    BY <2>3, Zenon DEF TypeOK
  <2>5. elem[e].endpoint.addr \in Addr /\ elem[e].endpoint.id \in Id
    BY <2>4, EndpointAssumption, Zenon
  <2>6. elem[e].index + 1 \in 1 .. Len(endpoints) /\ endpoints[elem[e].index + 1] = e
    BY <2>1, <2>2, <1>1
  <2>. QED  BY <2>3, <2>4, <2>5, <2>6, Zenon
<1>5. \A k \in Key : index[k] # nil => index[k] \in Elem /\ Listed(index[k])
  BY Zenon DEF TypeOK, IndexConsistent, IndexSound
<1>. QED  BY <1>1, <1>2, <1>3, <1>4, <1>5, Zenon

(* The re-ordering delete keeps the pool consistent when it is applied to a
   listed element, and shortens the list by one. *)
LEMMA RemoveEndpointStep ==
  ASSUME TypeOK, IndexConsistent, NEW e \in Elem, Listed(e), removeEndpoint(e)
  PROVE  /\ endpoints' \in Seq(Elem)
         /\ index' \in [Key -> Elem \cup {nil}]
         /\ elem' \in [Elem -> [endpoint : Endpoint \cup {nil}, index : Nat,
                                updated  : 0 .. DefaultThreshold + 1,
                                failedAt : (0 .. RetryAfterFailure + 1) \cup {nil}]]
         /\ Len(endpoints') = Len(endpoints) - 1
         /\ \A j \in 1 .. Len(endpoints) - 1 :
              j # elem[e].index + 1 => endpoints'[j] = endpoints[j]
         /\ \A f \in Elem : f # e => /\ elem'[f].endpoint = elem[f].endpoint
                                     /\ elem'[f].updated = elem[f].updated
         /\ IndexConsistent'
<1> DEFINE i == elem[e].index
           last == Len(endpoints)
           moved == endpoints[last]
           ep == elem[e].endpoint
           Cell == [endpoint : Endpoint \cup {nil}, index : Nat,
                    updated  : 0 .. DefaultThreshold + 1,
                    failedAt : (0 .. RetryAfterFailure + 1) \cup {nil}]
<1>1. /\ last \in Nat \ {0}
      /\ i \in 0 .. last - 1
      /\ endpoints[i + 1] = e
      /\ moved \in Elem
      /\ ep \in Endpoint /\ ep.addr \in Key /\ ep.id \in Key
      /\ ep.addr # ep.id
      /\ index[ep.addr] = e
  BY PoolFacts, KeyAssumption, SMTT(30) DEF Key, TypeOK
<1>2. /\ endpoints' = [j \in 1 .. last - 1 |-> IF j = i + 1 THEN moved ELSE endpoints[j]]
      /\ elem' = [elem EXCEPT ![moved].index = i, ![e] = Blank]
      /\ index' = [index EXCEPT ![ep.addr] = nil, ![ep.id] = nil]
  BY Zenon DEF removeEndpoint
<1>3. endpoints' \in Seq(Elem) /\ Len(endpoints') = last - 1
  <2>1. endpoints' \in [1 .. last - 1 -> Elem]
    BY <1>1, <1>2, PoolFacts
  <2>. QED  BY <2>1, <1>1, FunctionIsSeq
<1>4. index' \in [Key -> Elem \cup {nil}]
  BY <1>1, <1>2, ZenonT(30) DEF TypeOK
<1>5. /\ elem' \in [Elem -> Cell]
      /\ \A f \in Elem : f # e => /\ elem'[f].endpoint = elem[f].endpoint
                                  /\ elem'[f].updated = elem[f].updated
                                  /\ elem'[f].index = IF f = moved THEN i ELSE elem[f].index
  <2>1. Blank \in Cell
    BY TimeAssumption DEF Blank
  <2>2. i \in Nat
    BY <1>1
  <2>3. elem \in [Elem -> Cell]
    BY Zenon DEF TypeOK
  <2> HIDE DEF i, moved
  <2>. QED  BY <1>1, <1>2, <2>1, <2>2, <2>3, ZenonT(30)
<1>6. \A j \in 1 .. last - 1 : /\ endpoints'[j] = IF j = i + 1 THEN moved ELSE endpoints[j]
                               /\ endpoints'[j] \in Elem
                               /\ endpoints'[j] # e
  BY <1>1, <1>2, PoolFacts
<1>7. PositionsCorrect'
  <2>. SUFFICES ASSUME NEW j \in 1 .. last - 1
                PROVE  elem'[endpoints'[j]].index = j - 1
    BY <1>3, Zenon DEF PositionsCorrect
  <2>1. CASE j = i + 1
    <3>1. endpoints'[j] = moved /\ moved # e
      BY <2>1, <1>6, Zenon
    <3>2. elem'[moved].index = i
      BY <3>1, <1>1, <1>5, Zenon
    <3>. QED  BY <2>1, <3>1, <3>2, <1>1
  <2>2. CASE j # i + 1
    <3>1. endpoints'[j] = endpoints[j] /\ endpoints[j] # moved
      BY <2>2, <1>1, <1>6, PoolFacts
    <3>2. elem[endpoints[j]].index = j - 1
      BY <1>1 DEF IndexConsistent, PositionsCorrect
    <3>. QED  BY <3>1, <3>2, <1>5, <1>6
  <2>. QED  BY <2>1, <2>2, Zenon
<1>8. AddressesIndexed'
  <2>. SUFFICES ASSUME NEW j \in 1 .. last - 1
                PROVE  /\ elem'[endpoints'[j]].endpoint # nil
                       /\ index'[elem'[endpoints'[j]].endpoint.addr] = endpoints'[j]
    BY <1>3, Zenon DEF AddressesIndexed
  <2> DEFINE f == endpoints'[j]
  <2>1. f \in Elem /\ f # e /\ Listed(f)
    BY <1>1, <1>6 DEF Listed
  <2>2. /\ elem'[f].endpoint = elem[f].endpoint
        /\ elem[f].endpoint \in Endpoint
        /\ elem[f].endpoint.addr \in Addr
        /\ index[elem[f].endpoint.addr] = f
    BY <2>1, <1>5, PoolFacts, Zenon
  <2>3. elem[f].endpoint.addr \in Key /\ elem[f].endpoint.addr # ep.id
    BY <2>2, PoolFacts, KeyAssumption, Zenon DEF Key
  <2>4. elem[f].endpoint.addr # ep.addr
    BY <2>1, <2>2, <1>1, Zenon
  <2>5. index'[elem[f].endpoint.addr] = index[elem[f].endpoint.addr]
    BY <1>2, <2>3, <2>4, ZenonT(30) DEF TypeOK
  <2>. QED  BY <2>2, <2>5, EndpointAssumption, Zenon
<1>9. IndexSound'
  <2>. SUFFICES ASSUME NEW k \in Key, index'[k] # nil
                PROVE  /\ \E m \in 1 .. Len(endpoints') : endpoints'[m] = index'[k]
                       /\ k \in {elem'[index'[k]].endpoint.addr, elem'[index'[k]].endpoint.id}
    BY Zenon DEF IndexSound, Listed
  <2>1. k # ep.addr /\ k # ep.id /\ index'[k] = index[k]
    BY <1>1, <1>2, Zenon DEF TypeOK
  <2>2. /\ index[k] \in Elem
        /\ Listed(index[k])
        /\ k \in {elem[index[k]].endpoint.addr, elem[index[k]].endpoint.id}
    BY <2>1, PoolFacts, Zenon DEF IndexConsistent, IndexSound
  <2>3. index[k] # e
    BY <2>1, <2>2, Zenon
  <2>4. PICK j \in 1 .. last : endpoints[j] = index[k]
    BY <2>2, Zenon DEF Listed
  <2>5. \E m \in 1 .. last - 1 : endpoints'[m] = index[k]
    <3>1. CASE j = last
      BY <3>1, <2>3, <2>4, <1>1, <1>6
    <3>2. CASE j # last
      BY <3>2, <2>3, <2>4, <1>1, <1>6
    <3>. QED  BY <3>1, <3>2, Zenon
  <2>. QED  BY <2>1, <2>2, <2>3, <2>5, <1>3, <1>5, ZenonT(30)
<1>. QED  BY <1>3, <1>4, <1>5, <1>6, <1>7, <1>8, <1>9, Zenon DEF IndexConsistent


(* Registration keeps the pool consistent. *)
LEMMA PutStep ==
  ASSUME Inv, NEW ep \in Endpoint, Put(ep)
  PROVE  Inv'
<1>. USE DEF Inv
<1> DEFINE Cell == [endpoint : Endpoint \cup {nil}, index : Nat,
                    updated  : 0 .. DefaultThreshold + 1,
                    failedAt : (0 .. RetryAfterFailure + 1) \cup {nil}]
<1>1. /\ ep.addr \in Addr /\ ep.id \in Id
      /\ ep.addr \in Key /\ ep.id \in Key
      /\ ep # nil /\ ep.addr # ep.id
  BY EndpointAssumption, KeyAssumption, Zenon DEF Key
<1>2. elem \in [Elem -> Cell] /\ 0 \in 0 .. DefaultThreshold + 1
  BY TimeAssumption DEF TypeOK
<1>3. CASE PutSame(ep)
  BY <1>3 DEF PutSame, vars, TypeOK, IndexConsistent, PositionsCorrect, AddressesIndexed,
              IndexSound, Listed, PruneInv, Stale
<1>4. CASE PutReplace(ep)
  <2> DEFINE e == index[ep.addr]
             oldId == elem[e].endpoint.id
  <2>1. /\ e \in Elem /\ Listed(e)
        /\ elem[e].endpoint \in Endpoint
        /\ elem[e].endpoint.addr = ep.addr
        /\ oldId \in Id /\ oldId \in Key
    <3>1. e # nil /\ e \in Elem /\ Listed(e)
      BY <1>1, <1>4, PoolFacts, Zenon DEF PutReplace
    <3>2. ep.addr \in {elem[e].endpoint.addr, elem[e].endpoint.id}
      BY <1>1, <3>1, Zenon DEF IndexConsistent, IndexSound
    <3>. QED  BY <1>1, <3>1, <3>2, PoolFacts, KeyAssumption, Zenon DEF Key
  <2>2. /\ elem' = [elem EXCEPT ![e].endpoint = ep, ![e].updated = 0]
        /\ index' = IF oldId = ep.id THEN index
                    ELSE [index EXCEPT ![oldId] = nil, ![ep.id] = e]
        /\ UNCHANGED <<endpoints, nextIdx, prune, iter>>
        /\ ~prune.active
    BY <1>4, Zenon DEF PutReplace, LockFree
  <2> HIDE DEF e
  <2>3. /\ elem' \in [Elem -> Cell]
        /\ elem'[e].endpoint = ep
        /\ \A f \in Elem : f # e => elem'[f] = elem[f]
        /\ \A f \in Elem : elem'[f].index = elem[f].index
    BY <1>2, <2>1, <2>2, ZenonT(30)
  <2> HIDE DEF Cell
  <2>4. /\ index' \in [Key -> Elem \cup {nil}]
        /\ \A k \in Key : k # oldId /\ k # ep.id => index'[k] = index[k]
        /\ oldId = ep.id => index' = index
        /\ oldId # ep.id => index'[oldId] = nil /\ index'[ep.id] = e
    BY <1>1, <2>1, <2>2, Zenon DEF TypeOK
  <2>5. TypeOK'
    BY <2>2, <2>3, <2>4, ZenonT(30) DEF TypeOK, Cell
  <2>6. PositionsCorrect'
    BY <2>2, <2>3, PoolFacts DEF IndexConsistent, PositionsCorrect
  <2>7. AddressesIndexed'
    <3>. SUFFICES ASSUME NEW j \in 1 .. Len(endpoints)
                  PROVE  /\ elem'[endpoints[j]].endpoint # nil
                         /\ index'[elem'[endpoints[j]].endpoint.addr] = endpoints[j]
      BY <2>2, ZenonT(30) DEF AddressesIndexed
    <3> DEFINE f == endpoints[j]
    <3>1. /\ f \in Elem /\ Listed(f)
          /\ elem[f].endpoint \in Endpoint
          /\ elem[f].endpoint.addr \in Addr
          /\ index[elem[f].endpoint.addr] = f
      BY PoolFacts, Zenon DEF Listed
    <3>2. elem'[f].endpoint # nil /\ elem'[f].endpoint.addr = elem[f].endpoint.addr
      BY <1>1, <2>1, <2>3, <3>1, EndpointAssumption, Zenon
    <3>3. index'[elem[f].endpoint.addr] = index[elem[f].endpoint.addr]
      BY <1>1, <2>1, <2>4, <3>1, KeyAssumption, Zenon DEF Key
    <3>. QED  BY <3>1, <3>2, <3>3, Zenon
  <2>8. IndexSound'
    <3>. SUFFICES ASSUME NEW k \in Key, index'[k] # nil
                  PROVE  /\ \E m \in 1 .. Len(endpoints) : endpoints[m] = index'[k]
                         /\ k \in {elem'[index'[k]].endpoint.addr, elem'[index'[k]].endpoint.id}
      BY <2>2, ZenonT(30) DEF IndexSound, Listed
    <3>1. CASE k = ep.id /\ oldId # ep.id
      BY <2>1, <2>3, <2>4, <3>1, Zenon DEF Listed
    <3>2. CASE ~(k = ep.id /\ oldId # ep.id)
      <4>1. index'[k] = index[k] /\ (k = oldId => oldId = ep.id)
        BY <2>4, <3>2, Zenon
      <4>2. /\ index[k] \in Elem /\ Listed(index[k])
            /\ k \in {elem[index[k]].endpoint.addr, elem[index[k]].endpoint.id}
        BY <4>1, PoolFacts, Zenon DEF IndexConsistent, IndexSound
      <4>. QED  BY <2>1, <2>3, <4>1, <4>2 DEF Listed
    <3>. QED  BY <3>1, <3>2, Zenon
  <2>9. PruneInv'
    BY <2>2, Zenon DEF PruneInv
  <2>. QED  BY <2>5, <2>6, <2>7, <2>8, <2>9, Zenon DEF IndexConsistent
<1>5. CASE PutNew(ep)
  <2>1. PICK e \in Elem :
          /\ ~Listed(e)
          /\ \A k \in Key : index[k] # e
          /\ elem' = [elem EXCEPT ![e] = [endpoint |-> ep, index |-> Len(endpoints),
                                          updated |-> 0, failedAt |-> nil]]
          /\ endpoints' = Append(endpoints, e)
          /\ index' = [index EXCEPT ![ep.addr] = e, ![ep.id] = e]
    BY <1>5, ZenonT(30) DEF PutNew
  <2>2. index[ep.addr] = nil /\ ~prune.active /\ UNCHANGED <<nextIdx, prune, iter>>
    BY <1>5, Zenon DEF PutNew, LockFree
  <2>3. /\ elem' \in [Elem -> Cell]
        /\ elem'[e].endpoint = ep /\ elem'[e].index = Len(endpoints)
        /\ \A f \in Elem : f # e => elem'[f] = elem[f]
    BY <1>2, <2>1, PoolFacts
  <2>4. /\ endpoints' \in Seq(Elem)
        /\ Len(endpoints') = Len(endpoints) + 1
        /\ \A j \in 1 .. Len(endpoints) : endpoints'[j] = endpoints[j]
        /\ endpoints'[Len(endpoints) + 1] = e
    BY <2>1 DEF TypeOK
  <2>5. /\ index' \in [Key -> Elem \cup {nil}]
        /\ index'[ep.addr] = e /\ index'[ep.id] = e
        /\ \A k \in Key : k # ep.addr /\ k # ep.id => index'[k] = index[k]
    BY <1>1, <2>1, ZenonT(30) DEF TypeOK
  <2>6. TypeOK'
    BY <2>2, <2>3, <2>4, <2>5, Zenon DEF TypeOK
  <2> HIDE DEF Cell
  <2>7. \A j \in 1 .. Len(endpoints') :
          \/ j = Len(endpoints) + 1 /\ endpoints'[j] = e
          \/ /\ j \in 1 .. Len(endpoints) /\ endpoints'[j] = endpoints[j]
             /\ endpoints[j] # e /\ endpoints[j] \in Elem
    BY <2>1, <2>4, PoolFacts DEF Listed
  <2>8. PositionsCorrect'
    BY <2>3, <2>7, PoolFacts DEF IndexConsistent, PositionsCorrect
  <2>9. AddressesIndexed'
    <3>. SUFFICES ASSUME NEW j \in 1 .. Len(endpoints')
                  PROVE  /\ elem'[endpoints'[j]].endpoint # nil
                         /\ index'[elem'[endpoints'[j]].endpoint.addr] = endpoints'[j]
      BY Zenon DEF AddressesIndexed
    <3>1. CASE endpoints'[j] = e
      BY <1>1, <2>3, <2>5, <3>1, Zenon
    <3>2. CASE j \in 1 .. Len(endpoints) /\ endpoints'[j] = endpoints[j]
               /\ endpoints[j] # e /\ endpoints[j] \in Elem
      <4> DEFINE f == endpoints[j]
      <4>1. /\ elem'[f] = elem[f]
            /\ elem[f].endpoint \in Endpoint
            /\ elem[f].endpoint.addr \in Addr
            /\ index[elem[f].endpoint.addr] = f
        BY <2>3, <3>2, PoolFacts, Zenon DEF Listed
      <4>2. elem[f].endpoint.addr \in Key /\ elem[f].endpoint.addr # ep.id
        BY <1>1, <4>1, KeyAssumption, Zenon DEF Key
      <4>3. elem[f].endpoint.addr # ep.addr
        BY <2>2, <3>2, <4>1, ElemAssumption, Zenon
      <4>. QED  BY <2>5, <3>2, <4>1, <4>2, <4>3, EndpointAssumption, Zenon
    <3>. QED  BY <2>7, <3>1, <3>2, Zenon
  <2>10. IndexSound'
    <3>. SUFFICES ASSUME NEW k \in Key, index'[k] # nil
                  PROVE  /\ \E m \in 1 .. Len(endpoints') : endpoints'[m] = index'[k]
                         /\ k \in {elem'[index'[k]].endpoint.addr, elem'[index'[k]].endpoint.id}
      BY Zenon DEF IndexSound, Listed
    <3>1. CASE k = ep.addr \/ k = ep.id
      BY <2>3, <2>4, <2>5, <3>1, PoolFacts
    <3>2. CASE k # ep.addr /\ k # ep.id
      <4>1. /\ index'[k] = index[k]
            /\ index[k] \in Elem /\ index[k] # e /\ Listed(index[k])
            /\ k \in {elem[index[k]].endpoint.addr, elem[index[k]].endpoint.id}
        BY <2>1, <2>5, <3>2, PoolFacts, Zenon DEF IndexConsistent, IndexSound
      <4>. QED  BY <2>3, <2>4, <4>1, PoolFacts DEF Listed
    <3>. QED  BY <3>1, <3>2, Zenon
  <2>11. PruneInv'
    BY <2>2, Zenon DEF PruneInv
  <2>. QED  BY <2>6, <2>8, <2>9, <2>10, <2>11, Zenon DEF IndexConsistent
<1>. QED  BY <1>3, <1>4, <1>5, Zenon DEF Put


(* Unregistration keeps the pool consistent. *)
LEMMA RemoveStep ==
  ASSUME Inv, NEW ep \in Endpoint, Remove(ep)
  PROVE  Inv'
<1>. USE DEF Inv
<1> DEFINE e == index[ep.addr]
<1>1. e \in Elem /\ Listed(e)
  BY EndpointAssumption, PoolFacts, Zenon DEF Remove, Key
<1>2. removeEndpoint(e) /\ ~prune.active /\ UNCHANGED <<nextIdx, prune, iter>>
  BY Zenon DEF Remove, LockFree
<1> HIDE DEF e
<1>3. TypeOK' /\ IndexConsistent'
  BY <1>1, <1>2, RemoveEndpointStep, ZenonT(30) DEF TypeOK
<1>4. PruneInv'
  BY <1>2, Zenon DEF PruneInv
<1>. QED  BY <1>3, <1>4, Zenon

(* Each step of the pruning loop keeps the pool consistent and the elements
   before position i fresh. *)
LEMMA PruningStep ==
  ASSUME Inv, Pruning
  PROVE  Inv'
<1>. USE DEF Inv
<1>1. Len(endpoints) \in Nat
  BY PoolFacts, Zenon
<1>2. CASE PruneStart
  <2>1. TypeOK' /\ IndexConsistent'
    BY <1>1, <1>2, QuietStep, Zenon DEF PruneStart, TypeOK, PruningAt
  <2>2. PruneInv'
    BY <1>1, <1>2 DEF PruneStart, PruneInv, PruningAt
  <2>. QED  BY <2>1, <2>2, Zenon
<1>3. CASE PruneRemove
  <2> DEFINE e == endpoints[prune.i + 1]
  <2>1. /\ prune.i \in Nat
        /\ prune.last = Len(endpoints)
        /\ prune.i < Len(endpoints)
        /\ \A j \in 1 .. prune.i : ~Stale(endpoints[j])
        /\ prune.i + 1 \in 1 .. Len(endpoints)
    BY <1>1, <1>3 DEF PruneRemove, PruneInv, TypeOK
  <2>2. e \in Elem /\ Listed(e) /\ elem[e].index = prune.i
    BY <2>1, PoolFacts DEF Listed, IndexConsistent, PositionsCorrect
  <2>3. /\ removeEndpoint(e)
        /\ prune' = PruningAt(prune.i, prune.last - 1)
        /\ UNCHANGED <<nextIdx, iter>>
    BY <1>3, Zenon DEF PruneRemove
  <2> HIDE DEF e
  <2>4. /\ prune' \in [active : BOOLEAN, i : Nat, last : Nat]
        /\ prune'.i = prune.i /\ prune'.last = Len(endpoints) - 1
    BY <1>1, <2>1, <2>3 DEF TypeOK, PruningAt
  <2>5. TypeOK' /\ IndexConsistent'
    BY <2>2, <2>3, <2>4, RemoveEndpointStep, ZenonT(30) DEF TypeOK
  <2>6. Len(endpoints') = Len(endpoints) - 1
    BY <2>2, <2>3, RemoveEndpointStep, Zenon
  <2>7. ASSUME NEW j \in 1 .. prune.i
        PROVE  ~Stale(endpoints[j])'
    <3>1. j \in 1 .. Len(endpoints) - 1 /\ j # prune.i + 1
      BY <1>1, <2>1
    <3>2. endpoints'[j] = endpoints[j]
      BY <2>2, <2>3, <3>1, RemoveEndpointStep, Zenon
    <3>3. endpoints[j] \in Elem /\ endpoints[j] # e
      BY <1>1, <2>1, <2>2, <3>1, PoolFacts DEF IndexConsistent, PositionsCorrect
    <3>4. /\ elem'[endpoints[j]].endpoint = elem[endpoints[j]].endpoint
          /\ elem'[endpoints[j]].updated = elem[endpoints[j]].updated
      BY <2>2, <2>3, <3>3, RemoveEndpointStep, Zenon
    <3>. QED  BY <2>1, <3>2, <3>4, Zenon DEF Stale
  <2>8. PruneInv'
    BY <1>1, <2>1, <2>4, <2>6, <2>7 DEF PruneInv
  <2>. QED  BY <2>5, <2>8, Zenon
<1>4. CASE PruneKeep
  <2>1. /\ prune.i \in Nat /\ prune.last \in Nat
        /\ prune' \in [active : BOOLEAN, i : Nat, last : Nat]
        /\ prune'.i = prune.i + 1 /\ prune'.last = prune.last
        /\ UNCHANGED <<endpoints, index, elem, nextIdx, iter>>
    BY <1>4 DEF PruneKeep, TypeOK, PruningAt
  <2>2. TypeOK' /\ IndexConsistent'
    BY <2>1, QuietStep, Zenon DEF TypeOK
  <2>3. PruneInv'
    BY <1>4, <2>1 DEF PruneKeep, PruneInv, Stale
  <2>. QED  BY <2>2, <2>3, Zenon
<1>5. CASE PruneEnd
  <2>1. TypeOK' /\ IndexConsistent'
    BY <1>5, QuietStep, Zenon DEF PruneEnd, TypeOK, NotPruning
  <2>2. PruneInv'
    BY <1>5, Zenon DEF PruneEnd, PruneInv, NotPruning
  <2>. QED  BY <2>1, <2>2, Zenon
<1>. QED  BY <1>2, <1>3, <1>4, <1>5, Zenon DEF Pruning

(* next() starts inside the list. *)
LEMMA StartInRange ==
  ASSUME TypeOK, Len(endpoints) \in Nat \ {0}
  PROVE  StartIdx \subseteq 0 .. Len(endpoints) - 1
<1>1. CASE nextIdx = -1
  BY <1>1 DEF StartIdx
<1>2. CASE nextIdx # -1 /\ nextIdx >= Len(endpoints)
  BY <1>2 DEF StartIdx
<1>3. CASE nextIdx # -1 /\ ~(nextIdx >= Len(endpoints))
  BY <1>3 DEF StartIdx, TypeOK
<1>. QED  BY <1>1, <1>2, <1>3, Zenon

(* The steps of requests and of time keep the pool consistent. *)
LEMMA OtherStep ==
  ASSUME Inv,
         \/ \E age \in 0 .. DefaultThreshold + 1 : MarkUpdated(age)
         \/ \E t \in Iterator :
              \/ \E initial \in Key : Endpoints(t, initial)
              \/ NextInitial(t)
              \/ NextRoundRobin(t)
              \/ EndpointFailed(t)
              \/ Release(t)
         \/ Tick
  PROVE  /\ Inv'
         /\ UNCHANGED <<endpoints, index>>
         /\ \A e \in Elem : /\ elem'[e].endpoint = elem[e].endpoint
                            /\ elem'[e].index = elem[e].index
<1>. USE DEF Inv
<1> DEFINE Cell == [endpoint : Endpoint \cup {nil}, index : Nat,
                    updated  : 0 .. DefaultThreshold + 1,
                    failedAt : (0 .. RetryAfterFailure + 1) \cup {nil}]
           Same == \A e \in Elem : /\ elem'[e].endpoint = elem[e].endpoint
                                   /\ elem'[e].index = elem[e].index
           Iter == [pc : {"idle", "ready", "next", "held"}, initial : Key,
                    last : Endpoint \cup {nil}]
<1>1. elem \in [Elem -> Cell] /\ iter \in [Iterator -> Iter] /\ NoId \in Key
  BY KeyAssumption, Zenon DEF TypeOK, Key
<1>2. SUFFICES /\ elem' \in [Elem -> Cell] /\ Same
               /\ iter' \in [Iterator -> Iter]
               /\ nextIdx' \in Nat \cup {-1}
               /\ UNCHANGED <<endpoints, index, prune>>
               /\ elem' = elem \/ ~prune.active
  <2>1. TypeOK' /\ IndexConsistent'
    BY <1>2, QuietStep, Zenon DEF TypeOK
  <2>2. PruneInv'
    BY <1>2, Zenon DEF PruneInv, Stale
  <2>. QED  BY <1>2, <2>1, <2>2, Zenon
<1>3. ASSUME NEW age \in 0 .. DefaultThreshold + 1, MarkUpdated(age)
      PROVE  elem' \in [Elem -> Cell] /\ Same
  BY <1>1, <1>3 DEF MarkUpdated
<1>4. CASE \E age \in 0 .. DefaultThreshold + 1 : MarkUpdated(age)
  <2>1. UNCHANGED <<endpoints, index, nextIdx, prune, iter>> /\ ~prune.active
    BY <1>4, Zenon DEF MarkUpdated, LockFree
  <2>. QED  BY <1>1, <1>3, <1>4, <2>1, Zenon DEF TypeOK
<1>5. ASSUME NEW t \in Iterator, NEW initial \in Key, Endpoints(t, initial)
      PROVE  iter' \in [Iterator -> Iter]
  BY <1>1, <1>5, Zenon DEF Endpoints
<1>6. CASE \E t \in Iterator : \E initial \in Key : Endpoints(t, initial)
  <2>1. UNCHANGED <<endpoints, index, elem, nextIdx, prune>>
    BY <1>6, Zenon DEF Endpoints
  <2>. QED  BY <1>1, <1>5, <1>6, <2>1, Zenon DEF TypeOK
<1>7. ASSUME NEW t \in Iterator, NextInitial(t)
      PROVE  iter' \in [Iterator -> Iter] /\ UNCHANGED <<endpoints, index, elem, nextIdx, prune>>
  <2> DEFINE e == index[iter[t].initial]
  <2>1. e # nil => elem[e].endpoint \in Endpoint \cup {nil}
    BY <1>1, Zenon DEF TypeOK
  <2>2. /\ iter' = [iter EXCEPT ![t] =
             IF e = nil THEN [pc |-> "next", initial |-> NoId, last |-> nil]
                        ELSE HandedOut(elem[e].endpoint)]
        /\ UNCHANGED <<endpoints, index, elem, nextIdx, prune>>
    BY <1>7, Zenon DEF NextInitial
  <2> HIDE DEF e
  <2>. QED  BY <1>1, <2>1, <2>2, Zenon DEF HandedOut
<1>8. CASE \E t \in Iterator : NextInitial(t)
  BY <1>1, <1>7, <1>8, Zenon DEF TypeOK
<1>9. ASSUME NEW t \in Iterator, EndpointFailed(t)
      PROVE  elem' \in [Elem -> Cell] /\ Same
  <2> DEFINE e == index[iter[t].last.addr]
  <2>1. e \in Elem
    <3>1. iter[t].last \in Endpoint
      BY <1>1, <1>9, ZenonT(30) DEF EndpointFailed
    <3>. QED  BY <1>9, <3>1, EndpointAssumption, ZenonT(30) DEF EndpointFailed, TypeOK, Key
  <2>2. elem' = [elem EXCEPT ![e].failedAt = 0]
    BY <1>9, Zenon DEF EndpointFailed
  <2>3. 0 \in 0 .. RetryAfterFailure + 1
    BY TimeAssumption
  <2> HIDE DEF e
  <2>. QED  BY <1>1, <2>1, <2>2, <2>3, SMTT(30)
<1>10. CASE \E t \in Iterator : EndpointFailed(t)
  <2>1. UNCHANGED <<endpoints, index, nextIdx, prune, iter>> /\ ~prune.active
    BY <1>10, ZenonT(30) DEF EndpointFailed, LockFree
  <2>. QED  BY <1>1, <1>9, <1>10, <2>1, Zenon DEF TypeOK
<1>11. ASSUME NEW t \in Iterator, Release(t)
       PROVE  iter' \in [Iterator -> Iter]
  BY <1>1, <1>11, Zenon DEF Release, IdleIter
<1>12. CASE \E t \in Iterator : Release(t)
  <2>1. UNCHANGED <<endpoints, index, elem, nextIdx, prune>>
    BY <1>12, Zenon DEF Release
  <2>. QED  BY <1>1, <1>11, <1>12, <2>1, Zenon DEF TypeOK
<1>13. ASSUME Tick
       PROVE  elem' \in [Elem -> Cell] /\ Same
  <2>1. ASSUME NEW age \in 0 .. DefaultThreshold + 1
        PROVE  Older(age, DefaultThreshold) \in 0 .. DefaultThreshold + 1
    BY TimeAssumption DEF Older
  <2>2. ASSUME NEW age \in 0 .. RetryAfterFailure + 1
        PROVE  Older(age, RetryAfterFailure) \in 0 .. RetryAfterFailure + 1
    BY TimeAssumption DEF Older
  <2>3. ASSUME NEW e \in Elem
        PROVE  [elem[e] EXCEPT
                  !.updated  = Older(@, DefaultThreshold),
                  !.failedAt = IF @ = nil THEN nil ELSE Older(@, RetryAfterFailure)] \in Cell
    BY <1>1, <2>1, <2>2, ZenonT(30)
  <2>. QED  BY <1>1, <1>13, <2>3, ZenonT(30) DEF Tick
<1>14. CASE Tick
  <2>1. UNCHANGED <<endpoints, index, nextIdx, prune, iter>> /\ ~prune.active
    BY <1>14, ZenonT(30) DEF Tick, LockFree
  <2>. QED  BY <1>1, <1>13, <1>14, <2>1, Zenon DEF TypeOK
<1>15. ASSUME NEW t \in Iterator, NextRoundRobin(t)
       PROVE  /\ elem' \in [Elem -> Cell] /\ Same
              /\ iter' \in [Iterator -> Iter]
              /\ nextIdx' \in Nat \cup {-1}
  <2>1. ASSUME NEW ep \in Endpoint \cup {nil},
               iter' = [iter EXCEPT ![t] = HandedOut(ep)]
        PROVE  iter' \in [Iterator -> Iter]
    BY <1>1, <2>1, Zenon DEF HandedOut
  <2>2. CASE Len(endpoints) = 0
    BY <1>1, <1>15, <2>1, <2>2 DEF NextRoundRobin, TypeOK
  <2>3. CASE Len(endpoints) # 0
    <3>1. /\ Len(endpoints) \in Nat \ {0}
          /\ \A j \in 1 .. Len(endpoints) : endpoints[j] \in Elem
      BY <2>3, PoolFacts, Zenon
    <3>2. PICK start \in StartIdx :
            \/ \E n \in 0 .. Len(endpoints) - 1 : SelectUsable(t, start, n)
            \/ SelectAfterReset(t, start)
      BY <1>15, <2>3, Zenon DEF NextRoundRobin
    <3>3. start \in 0 .. Len(endpoints) - 1
      BY <3>1, StartInRange, Zenon
    <3>4. ASSUME NEW n \in Nat
          PROVE  /\ ElemAt(start, n) \in Elem
                 /\ (start + n + 1) % Len(endpoints) \in Nat
      BY <3>1, <3>3 DEF ElemAt
    <3>5. ASSUME NEW n \in 0 .. Len(endpoints) - 1, SelectUsable(t, start, n)
          PROVE  /\ elem' \in [Elem -> Cell] /\ Same
                 /\ iter' \in [Iterator -> Iter]
                 /\ nextIdx' \in Nat \cup {-1}
      <4> DEFINE e == ElemAt(start, n)
      <4>1. /\ elem' = [elem EXCEPT ![e].failedAt = nil]
            /\ nextIdx' = (start + n + 1) % Len(endpoints)
            /\ iter' = [iter EXCEPT ![t] = HandedOut(elem[e].endpoint)]
        BY <3>5, Zenon DEF SelectUsable
      <4>2. n \in Nat /\ e \in Elem
        BY <3>1, <3>4
      <4>3. nextIdx' \in Nat \cup {-1}
        BY <3>4, <4>1, <4>2, Zenon
      <4> HIDE DEF e
      <4>4. elem[e].endpoint \in Endpoint \cup {nil}
        BY <1>1, <4>2, Zenon
      <4>5. iter' \in [Iterator -> Iter]
        BY <2>1, <4>1, <4>4, ZenonT(30)
      <4>6. elem' \in [Elem -> Cell] /\ Same
        BY <1>1, <4>1, <4>2, ZenonT(40)
      <4>. QED  BY <4>3, <4>5, <4>6, Zenon
    <3>6. ASSUME SelectAfterReset(t, start)
          PROVE  /\ elem' \in [Elem -> Cell] /\ Same
                 /\ iter' \in [Iterator -> Iter]
                 /\ nextIdx' \in Nat \cup {-1}
      <4> DEFINE e == ElemAt(start, 0)
      <4>1. /\ elem' = [f \in Elem |-> IF Listed(f) THEN [elem[f] EXCEPT !.failedAt = nil]
                                                    ELSE elem[f]]
            /\ nextIdx' = (start + 1) % Len(endpoints)
            /\ iter' = [iter EXCEPT ![t] = HandedOut(elem[e].endpoint)]
        BY <3>6, Zenon DEF SelectAfterReset
      <4>2. e \in Elem /\ nextIdx' \in Nat \cup {-1}
        BY <3>1, <3>3, <3>4, <4>1
      <4> HIDE DEF e
      <4>3. elem[e].endpoint \in Endpoint \cup {nil}
        BY <1>1, <4>2, Zenon
      <4>4. iter' \in [Iterator -> Iter]
        BY <2>1, <4>1, <4>3, ZenonT(30)
      <4>5. elem' \in [Elem -> Cell] /\ Same
        BY <1>1, <4>1, ZenonT(30)
      <4>. QED  BY <4>2, <4>4, <4>5, Zenon
    <3>. QED  BY <3>2, <3>5, <3>6, Zenon
  <2>. QED  BY <2>2, <2>3, Zenon
<1>16. CASE \E t \in Iterator : NextRoundRobin(t)
  <2>1. UNCHANGED <<endpoints, index, prune>> /\ ~prune.active
    BY <1>16, Zenon DEF NextRoundRobin, LockFree
  <2>. QED  BY <1>15, <1>16, <2>1, Zenon
<1>. QED  BY <1>4, <1>6, <1>8, <1>10, <1>12, <1>14, <1>16, Zenon

(* Every step of a pool keeps the invariant. *)
LEMMA NextInv == Inv /\ [Next]_vars => Inv'
<1>. SUFFICES ASSUME Inv, [Next]_vars PROVE Inv'
  BY Zenon
<1>1. CASE \E ep \in Endpoint : Put(ep)
  BY <1>1, PutStep, Zenon
<1>2. CASE \E ep \in Endpoint : Remove(ep)
  BY <1>2, RemoveStep, Zenon
<1>3. CASE Pruning
  BY <1>3, PruningStep, Zenon
<1>4. CASE UNCHANGED vars
  BY <1>4, Zenon DEF vars, Inv, TypeOK, IndexConsistent, PositionsCorrect, AddressesIndexed,
              IndexSound, Listed, PruneInv, Stale
<1>. QED  BY <1>1, <1>2, <1>3, <1>4, OtherStep, Zenon DEF Next

(* Inv is an invariant of every behaviour of the pool. *)
THEOREM PoolInvariant == Spec => []Inv
BY InitInv, NextInv, PTL DEF Spec

(* Type correctness of the pool. *)
THEOREM TypeCorrect == Spec => []TypeOK
<1>1. Inv => TypeOK
  BY Zenon DEF Inv
<1>. QED  BY <1>1, PoolInvariant, PTL

(* List and map agree, whatever is registered, removed and pruned. *)
THEOREM IndexConsistency == Spec => []IndexConsistent
<1>1. Inv => IndexConsistent
  BY Zenon DEF Inv
<1>. QED  BY <1>1, PoolInvariant, PTL

(* No address is in the round-robin list twice. *)
THEOREM AddressUniqueness == Spec => []OnePlacePerAddress
<1>1. ASSUME Inv, NEW i \in 1 .. Len(endpoints), NEW j \in 1 .. Len(endpoints),
             elem[endpoints[i]].endpoint.addr = elem[endpoints[j]].endpoint.addr
      PROVE  i = j
  BY <1>1, PoolFacts, SMTT(30) DEF Inv, IndexConsistent, AddressesIndexed
<1>2. Inv => OnePlacePerAddress
  BY <1>1, Zenon DEF OnePlacePerAddress
<1>. QED  BY <1>2, PoolInvariant, PTL

(* A finished pruning pass leaves nothing stale. *)
THEOREM PruningCompletes == Spec => PruneComplete
<1>1. Inv /\ PruneEnd => \A e \in Elem : Listed(e) => ~Stale(e)
  BY PoolFacts DEF Inv, TypeOK, PruneEnd, PruneInv, Listed
<1>. QED  BY <1>1, PoolInvariant, PTL DEF PruneComplete

(* next() hands out nil only from an empty pool, and a recently failed
   endpoint only when all have failed recently. *)
THEOREM SelectionIsSound == Spec => SelectionAvoidsFailed
<1> DEFINE Sound(t) ==
      IF endpoints = <<>> THEN iter'[t].last = nil
      ELSE \E e \in Elem :
             /\ Listed(e)
             /\ elem[e].endpoint = iter'[t].last
             /\ \/ ~InFailureWindow(e)
                \/ \A f \in Elem : Listed(f) => InFailureWindow(f)
<1>1. ASSUME Inv, NEW t \in Iterator, NextRoundRobin(t)
      PROVE  Sound(t)
  <2>1. iter \in [Iterator -> [pc : {"idle", "ready", "next", "held"}, initial : Key,
                               last : Endpoint \cup {nil}]]
    BY <1>1, Zenon DEF Inv, TypeOK
  <2>2. ASSUME NEW ep, iter' = [iter EXCEPT ![t] = HandedOut(ep)]
        PROVE  iter'[t].last = ep
    BY <2>1, <2>2, Zenon DEF HandedOut
  <2>3. CASE Len(endpoints) = 0
    <3>1. endpoints = <<>>
      BY <1>1, <2>3 DEF Inv, TypeOK
    <3>2. iter' = [iter EXCEPT ![t] = HandedOut(nil)]
      BY <1>1, <2>3 DEF NextRoundRobin
    <3>3. iter'[t].last = nil
      BY <2>2, <3>2, ZenonT(30)
    <3>. QED  BY <3>1, <3>3, Zenon
  <2>4. CASE Len(endpoints) # 0
    <3>1. /\ Len(endpoints) \in Nat \ {0} /\ endpoints # <<>>
          /\ \A j \in 1 .. Len(endpoints) : endpoints[j] \in Elem
      BY <1>1, <2>4, PoolFacts DEF Inv
    <3>2. PICK start \in StartIdx :
            \/ \E n \in 0 .. Len(endpoints) - 1 : SelectUsable(t, start, n)
            \/ SelectAfterReset(t, start)
      BY <1>1, <2>4, Zenon DEF NextRoundRobin
    <3>3. start \in 0 .. Len(endpoints) - 1
      BY <1>1, <3>1, StartInRange, Zenon DEF Inv
    <3>4. ASSUME NEW n \in Nat
          PROVE  ElemAt(start, n) \in Elem /\ Listed(ElemAt(start, n))
      BY <3>1, <3>3 DEF ElemAt, Listed
    <3>5. ASSUME NEW n \in 0 .. Len(endpoints) - 1, SelectUsable(t, start, n)
          PROVE  Sound(t)
      <4> DEFINE e == ElemAt(start, n)
      <4>1. /\ ~InFailureWindow(e)
            /\ iter' = [iter EXCEPT ![t] = HandedOut(elem[e].endpoint)]
        BY <3>5, Zenon DEF SelectUsable
      <4>2. n \in Nat /\ e \in Elem /\ Listed(e)
        BY <3>1, <3>4
      <4>3. iter'[t].last = elem[e].endpoint
        BY <2>2, <4>1, ZenonT(30)
      <4> HIDE DEF e
      <4>. QED  BY <3>1, <4>1, <4>2, <4>3, Zenon
    <3>6. ASSUME SelectAfterReset(t, start)
          PROVE  Sound(t)
      <4> DEFINE e == ElemAt(start, 0)
      <4>1. iter'[t].last = elem[e].endpoint
        BY <2>2, <3>6, ZenonT(30) DEF SelectAfterReset
      <4>2. e \in Elem /\ Listed(e)
        BY <3>4, Zenon
      <4>3. ASSUME NEW f \in Elem, Listed(f)
            PROVE  InFailureWindow(f)
        <5>1. PICK j \in 1 .. Len(endpoints) : endpoints[j] = f
          BY <4>3, Zenon DEF Listed
        <5>2. \E m \in 0 .. Len(endpoints) - 1 : ((start + m) % Len(endpoints)) + 1 = j
          <6>1. CASE j - 1 >= start
            <7>1. j - 1 - start \in 0 .. Len(endpoints) - 1
              BY <3>1, <3>3, <6>1
            <7>2. ((start + (j - 1 - start)) % Len(endpoints)) + 1 = j
              BY <3>1, <3>3, <6>1
            <7>. QED  BY <7>1, <7>2, Zenon
          <6>2. CASE j - 1 < start
            <7>1. j - 1 - start + Len(endpoints) \in 0 .. Len(endpoints) - 1
              BY <3>1, <3>3, <6>2
            <7>2. ((start + (j - 1 - start + Len(endpoints))) % Len(endpoints)) + 1 = j
              BY <3>1, <3>3, <6>2
            <7>. QED  BY <7>1, <7>2, Zenon
          <6>. QED  BY <3>1, <3>3, <6>1, <6>2
        <5>. QED  BY <3>6, <5>1, <5>2, Zenon DEF SelectAfterReset, ElemAt
      <4> HIDE DEF e
      <4>. QED  BY <3>1, <4>1, <4>2, <4>3, Zenon
    <3>. QED  BY <3>2, <3>5, <3>6, Zenon
  <2>. QED  BY <2>3, <2>4, Zenon
<1>2. Inv => \A t \in Iterator : NextRoundRobin(t) => Sound(t)
  BY <1>1, Zenon
<1>. QED  BY <1>2, PoolInvariant, PTL DEF SelectionAvoidsFailed


(* Every step of the pool is a step of its abstract specification, or leaves
   the registered and the handed-out endpoints as they are. *)
LEMMA StepRefines ==
  ASSUME Inv, Inv', [Next]_vars
  PROVE  [Abstract!Next]_(Abstract!poolVars)
<1>. USE DEF Inv
<1>1. SUFFICES \/ \E ep \in Endpoint : /\ Registered' = [Registered EXCEPT ![ep.addr] = ep]
                                        /\ Returned' = Returned
               \/ \E a \in Addr : /\ Registered' = [Registered EXCEPT ![a] = nil]
                                  /\ Returned' = Returned
               \/ \E t \in Iterator :
                    /\ \/ \E a \in Addr : /\ Registered[a] # nil
                                          /\ Returned' = [Returned EXCEPT ![t] = {Registered[a]}]
                       \/ /\ \A a \in Addr : Registered[a] = nil
                          /\ Returned' = [Returned EXCEPT ![t] = {nil}]
                       \/ Returned' = [Returned EXCEPT ![t] = {}]
                    /\ Registered' = Registered
               \/ Registered' = Registered /\ Returned' = Returned
  BY <1>1, Zenon DEF Abstract!Next, Abstract!poolVars, Abstract!Register, Abstract!Drop,
              Abstract!Hand, Abstract!Forget
<1>2. ASSUME UNCHANGED <<endpoints, index>>,
             \A e \in Elem : elem'[e].endpoint = elem[e].endpoint
      PROVE  Registered' = Registered
  <2>1. \A a \in Addr : index[a] # nil => index[a] \in Elem
    BY Zenon DEF TypeOK, Key
  <2>. QED  BY <1>2, <2>1, Zenon DEF Registered
<1>3. iter' = iter => Returned' = Returned
  BY Zenon DEF Returned
<1>4. ASSUME NEW e \in Elem, Listed(e), removeEndpoint(e)
      PROVE  \E a \in Addr : Registered' = [Registered EXCEPT ![a] = nil]
  <2> DEFINE ep == elem[e].endpoint
  <2>1. /\ ep \in Endpoint /\ ep.addr \in Addr /\ ep.id \in Id
        /\ index[ep.addr] = e
    BY <1>4, PoolFacts, Zenon
  <2>2. index' = [index EXCEPT ![ep.addr] = nil, ![ep.id] = nil]
    BY <1>4, Zenon DEF removeEndpoint
  <2>3. ASSUME NEW a \in Addr
        PROVE  Registered'[a] = IF a = ep.addr THEN nil ELSE Registered[a]
    <3>1. a \in Key /\ a # ep.id
      BY <2>1, KeyAssumption, Zenon DEF Key
    <3>2. index'[a] = IF a = ep.addr THEN nil ELSE index[a]
      BY <2>1, <2>2, <3>1, Zenon DEF TypeOK, Key
    <3>3. CASE a = ep.addr
      BY <3>2, <3>3, Zenon DEF Registered
    <3>4. CASE a # ep.addr /\ index[a] = nil
      BY <3>2, <3>4, Zenon DEF Registered
    <3>5. CASE a # ep.addr /\ index[a] # nil
      <4>1. index[a] \in Elem /\ Listed(index[a])
        BY <3>1, <3>5, PoolFacts, Zenon
      <4>2. a \in {elem[index[a]].endpoint.addr, elem[index[a]].endpoint.id}
        BY <3>1, <3>5, Zenon DEF IndexConsistent, IndexSound
      <4>3. index[a] # e
        BY <2>1, <3>1, <3>5, <4>2, Zenon
      <4>4. elem'[index[a]].endpoint = elem[index[a]].endpoint
        BY <1>4, <4>1, <4>3, RemoveEndpointStep, Zenon
      <4>. QED  BY <3>2, <3>5, <4>4, Zenon DEF Registered
    <3>. QED  BY <3>3, <3>4, <3>5, Zenon
  <2>. QED  BY <2>1, <2>3, ZenonT(30) DEF Registered
<1>5. CASE \E ep \in Endpoint : Put(ep)
  <2>1. PICK ep \in Endpoint : Put(ep)
    BY <1>5, Zenon
  <2>2. ep.addr \in Addr /\ ep.id \in Id /\ ep.addr \in Key /\ ep.id \in Key /\ ep # nil
    BY EndpointAssumption, Zenon DEF Key
  <2>3. iter' = iter
    BY <2>1, ZenonT(30) DEF Put, PutSame, PutReplace, PutNew, vars
  <2>4. CASE PutSame(ep)
    <3>1. Registered' = Registered
      BY <2>4, Zenon DEF PutSame, vars, Registered
    <3>. QED  BY <1>3, <2>3, <3>1, Zenon
  <2>5. CASE PutReplace(ep)
    <3> DEFINE e == index[ep.addr]
               oldId == elem[e].endpoint.id
    <3>1. /\ e # nil /\ e \in Elem /\ Listed(e) /\ oldId \in Id /\ oldId \in Key
          /\ elem[e].endpoint.addr \in Addr
      BY <2>2, <2>5, PoolFacts, Zenon DEF PutReplace, Key
    <3>2. ep.addr = elem[e].endpoint.addr
      BY <2>2, <3>1, KeyAssumption, Zenon DEF IndexConsistent, IndexSound
    <3>3. /\ elem' = [elem EXCEPT ![e].endpoint = ep, ![e].updated = 0]
          /\ index' = IF oldId = ep.id THEN index
                      ELSE [index EXCEPT ![oldId] = nil, ![ep.id] = e]
      BY <2>5, Zenon DEF PutReplace
    <3>4. ASSUME NEW a \in Addr
          PROVE  index'[a] = index[a]
      <4> HIDE DEF e, oldId
      <4>1. a \in Key /\ a # oldId /\ a # ep.id
        BY <2>2, <3>1, KeyAssumption, Zenon DEF Key
      <4>. QED  BY <3>3, <4>1, Zenon DEF TypeOK
    <3>5. ASSUME NEW a \in Addr
          PROVE  Registered'[a] = IF a = ep.addr THEN ep ELSE Registered[a]
      <4>1. CASE a = ep.addr
        <5>1. elem'[e].endpoint = ep
          <6> HIDE DEF e
          <6>. QED  BY <3>1, <3>3 DEF TypeOK
        <5>. QED  BY <3>1, <3>4, <4>1, <5>1, Zenon DEF Registered
      <4>2. CASE a # ep.addr /\ index[a] # nil
        <5>1. index[a] \in Elem /\ Listed(index[a]) /\ a \in Key
          BY <4>2, PoolFacts, Zenon DEF Key
        <5>2. index[a] # e
          <6>1. a \in {elem[index[a]].endpoint.addr, elem[index[a]].endpoint.id}
            BY <4>2, <5>1, Zenon DEF IndexConsistent, IndexSound
          <6>. QED  BY <3>1, <3>2, <4>2, <6>1, KeyAssumption, Zenon
        <5>3. elem'[index[a]] = elem[index[a]]
          <6> HIDE DEF e
          <6>. QED  BY <3>1, <3>3, <5>1, <5>2, Zenon DEF TypeOK
        <5>. QED  BY <3>4, <4>2, <5>3, Zenon DEF Registered
      <4>3. CASE a # ep.addr /\ index[a] = nil
        BY <3>4, <4>3, Zenon DEF Registered
      <4>. QED  BY <4>1, <4>2, <4>3, Zenon
    <3>6. Registered' = [Registered EXCEPT ![ep.addr] = ep]
      BY <2>2, <3>5, ZenonT(30) DEF Registered
    <3>. QED  BY <1>3, <2>3, <3>6, ZenonT(30)
  <2>6. CASE PutNew(ep)
    <3>1. PICK e \in Elem :
            /\ ~Listed(e)
            /\ \A k \in Key : index[k] # e
            /\ elem' = [elem EXCEPT ![e] = [endpoint |-> ep, index |-> Len(endpoints),
                                            updated |-> 0, failedAt |-> nil]]
            /\ index' = [index EXCEPT ![ep.addr] = e, ![ep.id] = e]
      BY <2>6, ZenonT(30) DEF PutNew
    <3>2. \A a \in Addr : index'[a] = IF a = ep.addr THEN e ELSE index[a]
      BY <2>2, <3>1, KeyAssumption, SMTT(30) DEF TypeOK, Key
    <3>3. elem'[e].endpoint = ep /\ \A f \in Elem : f # e => elem'[f] = elem[f]
      BY <3>1, Zenon DEF TypeOK
    <3>4. ASSUME NEW a \in Addr
          PROVE  Registered'[a] = IF a = ep.addr THEN ep ELSE Registered[a]
      <4>1. index[a] # e /\ (index[a] # nil => index[a] \in Elem) /\ e # nil
        BY <3>1, ElemAssumption, Zenon DEF TypeOK, Key
      <4>. QED  BY <3>2, <3>3, <4>1, Zenon DEF Registered
    <3>5. Registered' = [Registered EXCEPT ![ep.addr] = ep]
      BY <2>2, <3>4, ZenonT(30) DEF Registered
    <3>. QED  BY <1>3, <2>3, <3>5, ZenonT(30)
  <2>. QED  BY <2>1, <2>4, <2>5, <2>6, Zenon DEF Put
<1>6. CASE \E ep \in Endpoint : Remove(ep)
  <2>1. PICK ep \in Endpoint : Remove(ep)
    BY <1>6, Zenon
  <2>2. index[ep.addr] \in Elem /\ Listed(index[ep.addr]) /\ removeEndpoint(index[ep.addr])
    BY <2>1, EndpointAssumption, PoolFacts, Zenon DEF Remove, Key
  <2>3. iter' = iter
    BY <2>1, Zenon DEF Remove
  <2>. QED  BY <1>3, <1>4, <2>2, <2>3, Zenon
<1>7. CASE PruneRemove
  <2>1. Len(endpoints) \in Nat
    BY PoolFacts, Zenon
  <2>2. prune.i + 1 \in 1 .. Len(endpoints)
    <3>1. prune.i \in Nat
      BY Zenon DEF TypeOK
    <3>2. prune.i < Len(endpoints)
      BY <1>7, Zenon DEF PruneRemove, PruneInv
    <3>. QED  BY <2>1, <3>1, <3>2
  <2>3. /\ endpoints[prune.i + 1] \in Elem /\ Listed(endpoints[prune.i + 1])
        /\ removeEndpoint(endpoints[prune.i + 1]) /\ iter' = iter
    BY <1>7, <2>2, PoolFacts, Zenon DEF PruneRemove, Listed
  <2>. QED  BY <1>3, <1>4, <2>3, Zenon
<1>8. CASE PruneStart \/ PruneKeep \/ PruneEnd \/ UNCHANGED vars
  <2>1. Registered' = Registered /\ iter' = iter
    BY <1>8, Zenon DEF PruneStart, PruneKeep, PruneEnd, vars, Registered
  <2>. QED  BY <1>3, <2>1, Zenon
<1>9. CASE (\E age \in 0 .. DefaultThreshold + 1 : MarkUpdated(age)) \/ Tick
  <2>1. Registered' = Registered
    BY <1>2, <1>9, OtherStep, Zenon
  <2>2. iter' = iter
    BY <1>9, ZenonT(30) DEF MarkUpdated, Tick
  <2>. QED  BY <1>3, <2>1, <2>2, Zenon
<1>10. ASSUME NEW t \in Iterator,
              \/ \E initial \in Key : Endpoints(t, initial)
              \/ NextInitial(t)
              \/ NextRoundRobin(t)
              \/ EndpointFailed(t)
              \/ Release(t)
       PROVE  /\ \/ \E a \in Addr : /\ Registered[a] # nil
                                    /\ Returned' = [Returned EXCEPT ![t] = {Registered[a]}]
                 \/ /\ \A a \in Addr : Registered[a] = nil
                    /\ Returned' = [Returned EXCEPT ![t] = {nil}]
                 \/ Returned' = [Returned EXCEPT ![t] = {}]
                 \/ Returned' = Returned
              /\ Registered' = Registered
  <2>1. Registered' = Registered
    BY <1>2, <1>10, OtherStep, ZenonT(30)
  <2>2. iter \in [Iterator -> [pc : {"idle", "ready", "next", "held"}, initial : Key,
                               last : Endpoint \cup {nil}]]
    BY Zenon DEF TypeOK
  <2>3. ASSUME NEW pc, NEW initial, NEW ep,
               iter' = [iter EXCEPT ![t] = [pc |-> pc, initial |-> initial, last |-> ep]]
        PROVE  Returned' = [Returned EXCEPT ![t] = IF pc = "held" THEN {ep} ELSE {}]
    BY <2>2, <2>3, ZenonT(30) DEF Returned
  <2>10. ASSUME NEW pc \in {"idle", "ready", "next"}, NEW initial, NEW ep,
                iter' = [iter EXCEPT ![t] = [pc |-> pc, initial |-> initial, last |-> ep]]
         PROVE  Returned' = [Returned EXCEPT ![t] = {}]
    BY <2>2, <2>10, ZenonT(30) DEF Returned
  <2>4. ASSUME NEW e \in Elem, Listed(e)
        PROVE  \E a \in Addr : Registered[a] # nil /\ Registered[a] = elem[e].endpoint
    <3>1. /\ elem[e].endpoint \in Endpoint
          /\ elem[e].endpoint.addr \in Addr
          /\ index[elem[e].endpoint.addr] = e
      BY <2>4, PoolFacts, Zenon
    <3>2. Registered[elem[e].endpoint.addr] = elem[e].endpoint
      BY <3>1, ElemAssumption, Zenon DEF Registered
    <3>. QED  BY <3>1, <3>2, EndpointAssumption, Zenon
  <2>5. CASE \E initial \in Key : Endpoints(t, initial)
    <3>1. PICK initial \in Key : Endpoints(t, initial)
      BY <2>5, Zenon
    <3>2. Returned' = [Returned EXCEPT ![t] = {}]
      <4>1. iter' = [iter EXCEPT ![t] = [pc |-> "ready", initial |-> initial, last |-> nil]]
        BY <3>1, Zenon DEF Endpoints
      <4>. QED  BY <2>10, <4>1, ZenonT(30)
    <3>. QED  BY <2>1, <3>2, Zenon
  <2>6. CASE NextInitial(t)
    <3> DEFINE e == index[iter[t].initial]
    <3>1. iter' = [iter EXCEPT ![t] =
             IF e = nil THEN [pc |-> "next", initial |-> NoId, last |-> nil]
                        ELSE HandedOut(elem[e].endpoint)]
      BY <2>6, Zenon DEF NextInitial
    <3>2. CASE e = nil
      <4>1. Returned' = [Returned EXCEPT ![t] = {}]
        BY <2>10, <3>1, <3>2, ZenonT(30)
      <4>. QED  BY <2>1, <4>1, Zenon
    <3>3. CASE e # nil
      <4>1. e \in Elem /\ Listed(e)
        BY <2>2, <3>3, PoolFacts, Zenon
      <4>2. iter' = [iter EXCEPT ![t] = HandedOut(elem[e].endpoint)]
        BY <3>1, <3>3, Zenon
      <4>3. Returned' = [Returned EXCEPT ![t] = {elem[e].endpoint}]
        BY <2>3, <4>2, ZenonT(30) DEF HandedOut
      <4>. QED  BY <2>1, <2>4, <4>1, <4>3, ZenonT(30)
    <3>. QED  BY <3>2, <3>3, Zenon
  <2>7. CASE NextRoundRobin(t)
    <3>1. CASE Len(endpoints) = 0
      <4>1. Returned' = [Returned EXCEPT ![t] = {nil}]
        <5>1. iter' = [iter EXCEPT ![t] = HandedOut(nil)]
          BY <2>7, <3>1 DEF NextRoundRobin
        <5>. QED  BY <2>3, <5>1, ZenonT(30) DEF HandedOut
      <4>2. \A a \in Addr : Registered[a] = nil
        BY <3>1, PoolFacts DEF Registered, Listed, Key
      <4>. QED  BY <2>1, <4>1, <4>2, Zenon
    <3>2. CASE Len(endpoints) # 0
      <4>1. /\ Len(endpoints) \in Nat \ {0}
            /\ \A j \in 1 .. Len(endpoints) : endpoints[j] \in Elem
        BY <3>2, PoolFacts, Zenon
      <4>2. PICK start \in StartIdx :
              \/ \E n \in 0 .. Len(endpoints) - 1 : SelectUsable(t, start, n)
              \/ SelectAfterReset(t, start)
        BY <2>7, <3>2, Zenon DEF NextRoundRobin
      <4>3. start \in 0 .. Len(endpoints) - 1
        BY <4>1, StartInRange, Zenon
      <4>4. PICK n \in 0 .. Len(endpoints) - 1 :
              iter' = [iter EXCEPT ![t] = HandedOut(elem[ElemAt(start, n)].endpoint)]
        BY <4>1, <4>2 DEF SelectUsable, SelectAfterReset
      <4>5. ElemAt(start, n) \in Elem /\ Listed(ElemAt(start, n))
        BY <4>1, <4>3 DEF ElemAt, Listed
      <4>6. Returned' = [Returned EXCEPT ![t] = {elem[ElemAt(start, n)].endpoint}]
        BY <2>3, <4>4, ZenonT(30) DEF HandedOut
      <4>. QED  BY <2>1, <2>4, <4>5, <4>6, ZenonT(30)
    <3>. QED  BY <3>1, <3>2, Zenon
  <2>8. CASE EndpointFailed(t)
    <3>1. iter' = iter
      BY <2>8, Zenon DEF EndpointFailed
    <3>. QED  BY <1>3, <2>1, <3>1, Zenon
  <2>9. CASE Release(t)
    <3>1. Returned' = [Returned EXCEPT ![t] = {}]
      <4>1. iter' = [iter EXCEPT ![t] = IdleIter]
        BY <2>9, Zenon DEF Release
      <4>. QED  BY <2>10, <4>1, ZenonT(30) DEF IdleIter
    <3>. QED  BY <2>1, <3>1, Zenon
  <2>. QED  BY <1>10, <2>5, <2>6, <2>7, <2>8, <2>9, Zenon
<1>. QED  BY <1>5, <1>6, <1>7, <1>8, <1>9, <1>10, Zenon DEF Next, Pruning

(* The list, the map and the failure marks implement a plain set of
   registered endpoints: requests are handed registered endpoints only. *)
THEOREM Refinement == Spec => ImplementsEndpointPool
<1>1. Init => Abstract!Init
  BY KeyAssumption DEF Init, Abstract!Init, Registered, Returned, IdleIter, Key
<1>2. Spec => [][Abstract!Next]_(Abstract!poolVars)
  BY StepRefines, PoolInvariant, PTL DEF Spec
<1>. QED  BY <1>1, <1>2, PTL DEF Spec, ImplementsEndpointPool, Abstract!Spec

-----------------------------------------------------------------------------
(* The rotation starves nobody, for pools of any size. *)

(* How many places after the 0-based place p an element is, cyclically. *)
DistanceFrom(p, e) ==
  IF elem[e].index >= p THEN elem[e].index - p
                        ELSE elem[e].index - p + Len(endpoints)

(* An element has been passed over no more often than the distance from the
   front of the rotation leaves room for. *)
BalanceInv ==
  /\ passed \in [Elem -> Nat]
  /\ \A e \in Elem : ~Listed(e) => passed[e] = 0
  /\ \A e \in Elem : Listed(e) =>
       IF nextIdx = -1 \/ nextIdx >= Len(endpoints)
         THEN passed[e] = 0
         ELSE passed[e] + DistanceFrom(nextIdx, e) <= Len(endpoints) - 1

(* An empty pool has passed nobody over. *)
LEMMA BalanceInitInv == BalanceInit => BalanceInv
BY DEF BalanceInit, BalanceInv, Init, Listed

(* Remainders of numbers below twice the divisor. *)
LEMMA ModFacts ==
  ASSUME NEW n \in Nat \ {0}, NEW a \in 0 .. n - 1
  PROVE  a % n = a /\ (a + n) % n = a
OBVIOUS

(* An element, seen from a place of the list. *)
LEMMA DistanceFacts ==
  ASSUME Inv, NEW e \in Elem, Listed(e), NEW p \in 0 .. Len(endpoints) - 1
  PROVE  /\ DistanceFrom(p, e) \in 0 .. Len(endpoints) - 1
         /\ ElemAt(p, DistanceFrom(p, e)) = e
<1> DEFINE n == Len(endpoints)
           i == elem[e].index
<1>1. n \in Nat \ {0} /\ i \in 0 .. n - 1 /\ endpoints[i + 1] = e
  BY PoolFacts DEF Inv, TypeOK
<1>2. DistanceFrom(p, e) = IF i >= p THEN i - p ELSE i - p + n
  BY Zenon DEF DistanceFrom
<1>3. ElemAt(p, DistanceFrom(p, e)) = endpoints[((p + DistanceFrom(p, e)) % n) + 1]
  BY Zenon DEF ElemAt
<1> HIDE DEF n, i
<1>4. p \in 0 .. n - 1
  BY Zenon DEF n
<1>5. CASE i >= p
  <2>1. DistanceFrom(p, e) \in 0 .. n - 1 /\ p + DistanceFrom(p, e) = i
    BY <1>1, <1>2, <1>4, <1>5
  <2>2. (p + DistanceFrom(p, e)) % n = i
    BY <1>1, <2>1, ModFacts, Zenon
  <2>. QED  BY <1>1, <1>3, <2>1, <2>2, ZenonT(30) DEF n
<1>6. CASE ~(i >= p)
  <2>1. DistanceFrom(p, e) \in 0 .. n - 1 /\ p + DistanceFrom(p, e) = i + n
    BY <1>1, <1>2, <1>4, <1>6
  <2>2. (p + DistanceFrom(p, e)) % n = i
    BY <1>1, <2>1, ModFacts, Zenon
  <2>. QED  BY <1>1, <1>3, <2>1, <2>2, Zenon DEF n
<1>. QED  BY <1>5, <1>6, Zenon

(* Moving the front from p by m places brings every element that is further
   away than m nearer by m. *)
LEMMA DistanceAfterMove ==
  ASSUME NEW n \in Nat \ {0}, NEW i \in 0 .. n - 1, NEW p \in 0 .. n - 1,
         NEW m \in 1 .. n,
         m <= (IF i >= p THEN i - p ELSE i - p + n)
  PROVE  LET q == (p + m) % n IN
         /\ q \in 0 .. n - 1
         /\ (IF i >= q THEN i - q ELSE i - q + n)
              = (IF i >= p THEN i - p ELSE i - p + n) - m
<1>1. CASE p + m < n
  <2>1. (p + m) % n = p + m
    BY <1>1, ModFacts
  <2>. QED  BY <1>1, <2>1
<1>2. CASE p + m >= n
  <2>1. p + m - n \in 0 .. n - 1
    BY <1>2
  <2>2. ((p + m - n) + n) % n = p + m - n
    BY <2>1, ModFacts, Zenon
  <2>3. (p + m - n) + n = p + m
    OBVIOUS
  <2>4. (p + m) % n = p + m - n
    BY <2>2, <2>3, Zenon
  <2>. QED  BY <1>2, <2>1, <2>4
<1>. QED  BY <1>1, <1>2

(* Steps without a selection: an element that stays in the list keeps its
   place, unless a removal starts all counts anew. *)
LEMMA NoSelectionKeeps ==
  ASSUME Inv, Inv', BalanceInv, CountNothing, nextIdx' = nextIdx,
         Len(endpoints') >= Len(endpoints) =>
           \A e \in Elem : Listed(e) => elem'[e].index = elem[e].index
  PROVE  BalanceInv'
<1>1. Len(endpoints) \in Nat /\ Len(endpoints') \in Nat
  BY DEF Inv, TypeOK
<1>2. passed' \in [Elem -> Nat]
  BY Zenon DEF CountNothing, BalanceInv
<1>3. \A e \in Elem : ~Listed(e)' => passed'[e] = 0
  BY Zenon DEF CountNothing, StartsAnew
<1>4. ASSUME NEW e \in Elem, Listed(e)'
      PROVE  IF nextIdx' = -1 \/ nextIdx' >= Len(endpoints')
               THEN passed'[e] = 0
               ELSE passed'[e] + DistanceFrom(nextIdx, e)' <= Len(endpoints') - 1
  <2>1. elem'[e].index \in 0 .. Len(endpoints') - 1 /\ nextIdx \in Nat \cup {-1}
    <3>1. PICK j \in 1 .. Len(endpoints') : endpoints'[j] = e
      BY <1>4, Zenon DEF Listed
    <3>2. elem'[e].index = j - 1
      BY <3>1, Zenon DEF Inv, IndexConsistent, PositionsCorrect
    <3>. QED  BY <1>1, <3>1, <3>2 DEF Inv, TypeOK
  <2>2. DistanceFrom(nextIdx, e)' = IF elem'[e].index >= nextIdx THEN elem'[e].index - nextIdx
                                    ELSE elem'[e].index - nextIdx + Len(endpoints')
    BY Zenon DEF DistanceFrom
  <2>3. CASE passed'[e] = 0
    BY <1>1, <2>1, <2>2, <2>3
  <2>4. CASE passed'[e] # 0
    <3>1. ~StartsAnew(e) /\ passed'[e] = passed[e]
      BY <2>4, Zenon DEF CountNothing
    <3>2. Len(endpoints') >= Len(endpoints)
      BY <1>1, <3>1 DEF StartsAnew
    <3>3. Listed(e)
      BY <2>4, <3>1, Zenon DEF BalanceInv
    <3>4. elem'[e].index = elem[e].index /\ elem[e].index \in 0 .. Len(endpoints) - 1
      BY <3>2, <3>3, PoolFacts DEF Inv, TypeOK
    <3>5. /\ nextIdx # -1 /\ ~(nextIdx >= Len(endpoints))
          /\ passed[e] + DistanceFrom(nextIdx, e) <= Len(endpoints) - 1
      BY <2>4, <3>1, <3>3, Zenon DEF BalanceInv
    <3>6. DistanceFrom(nextIdx, e) = IF elem[e].index >= nextIdx THEN elem[e].index - nextIdx
                                     ELSE elem[e].index - nextIdx + Len(endpoints)
      BY Zenon DEF DistanceFrom
    <3>7. passed[e] \in Nat
      BY Zenon DEF BalanceInv
    <3>. QED  BY <1>1, <2>1, <2>2, <3>1, <3>2, <3>4, <3>5, <3>6, <3>7, SMTT(30)
  <2>. QED  BY <2>3, <2>4, Zenon
<1>. QED  BY <1>2, <1>3, <1>4, Zenon DEF BalanceInv

(* Steps other than a selection leave the rotation as it is, or start it anew. *)
LEMMA NonSelectionInv ==
  ASSUME Inv, Inv', BalanceInv, NonSelectionStep
  PROVE  BalanceInv'
<1> DEFINE SamePlaces == Len(endpoints') >= Len(endpoints) =>
             \A e \in Elem : Listed(e) => elem'[e].index = elem[e].index
<1>1. SUFFICES nextIdx' = nextIdx /\ SamePlaces
  BY NoSelectionKeeps, Zenon DEF NonSelectionStep
<1>2. elem \in [Elem -> [endpoint : Endpoint \cup {nil}, index : Nat,
                         updated  : 0 .. DefaultThreshold + 1,
                         failedAt : (0 .. RetryAfterFailure + 1) \cup {nil}]]
  BY Zenon DEF Inv, TypeOK
<1>3. ASSUME NEW e \in Elem, Listed(e), removeEndpoint(e)
      PROVE  SamePlaces
  <2>1. Len(endpoints) \in Nat /\ Len(endpoints') = Len(endpoints) - 1
    BY <1>3, RemoveEndpointStep, PoolFacts, ZenonT(30) DEF Inv
  <2>. QED  BY <2>1, SMTT(30)
<1>4. ASSUME NEW ep \in Endpoint, Put(ep)
      PROVE  nextIdx' = nextIdx /\ SamePlaces
  <2>1. CASE PutSame(ep)
    BY <2>1, Zenon DEF PutSame, vars
  <2>2. CASE PutReplace(ep)
    <3> DEFINE e == index[ep.addr]
    <3>1. elem' = [elem EXCEPT ![e].endpoint = ep, ![e].updated = 0] /\ nextIdx' = nextIdx
      BY <2>2, Zenon DEF PutReplace
    <3> HIDE DEF e
    <3>. QED  BY <1>2, <3>1, Zenon
  <2>3. CASE PutNew(ep)
    <3>1. PICK e \in Elem :
            /\ ~Listed(e)
            /\ elem' = [elem EXCEPT ![e] = [endpoint |-> ep, index |-> Len(endpoints),
                                            updated |-> 0, failedAt |-> nil]]
      BY <2>3, ZenonT(30) DEF PutNew
    <3>2. nextIdx' = nextIdx
      BY <2>3, Zenon DEF PutNew
    <3>. QED  BY <1>2, <3>1, <3>2, Zenon
  <2>. QED  BY <1>4, <2>1, <2>2, <2>3, Zenon DEF Put
<1>5. ASSUME NEW ep \in Endpoint, Remove(ep)
      PROVE  nextIdx' = nextIdx /\ SamePlaces
  <2>1. index[ep.addr] \in Elem /\ Listed(index[ep.addr]) /\ removeEndpoint(index[ep.addr])
    BY <1>5, EndpointAssumption, PoolFacts, Zenon DEF Inv, Remove, Key
  <2>2. nextIdx' = nextIdx
    BY <1>5, Zenon DEF Remove
  <2>. QED  BY <1>3, <2>1, <2>2, Zenon
<1>6. CASE PruneRemove
  <2>1. prune.i + 1 \in 1 .. Len(endpoints)
    <3>1. prune.i \in Nat /\ Len(endpoints) \in Nat
      BY PoolFacts, Zenon DEF Inv, TypeOK
    <3>2. prune.i < Len(endpoints)
      BY <1>6, Zenon DEF Inv, PruneRemove, PruneInv
    <3>. QED  BY <3>1, <3>2
  <2>2. /\ endpoints[prune.i + 1] \in Elem /\ Listed(endpoints[prune.i + 1])
        /\ removeEndpoint(endpoints[prune.i + 1]) /\ nextIdx' = nextIdx
    BY <1>6, <2>1, PoolFacts, Zenon DEF Inv, PruneRemove, Listed
  <2>. QED  BY <1>3, <2>2, Zenon
<1>7. CASE PruneStart \/ PruneKeep \/ PruneEnd
  BY <1>7, Zenon DEF PruneStart, PruneKeep, PruneEnd
<1>8. CASE \/ \E age \in 0 .. DefaultThreshold + 1 : MarkUpdated(age)
           \/ \E t \in Iterator :
                \/ \E initial \in Key : Endpoints(t, initial)
                \/ NextInitial(t)
                \/ EndpointFailed(t)
                \/ Release(t)
           \/ Tick
  <2>1. \A e \in Elem : elem'[e].index = elem[e].index
    BY <1>8, OtherStep, Zenon
  <2>2. nextIdx' = nextIdx
    BY <1>8, ZenonT(30) DEF MarkUpdated, Endpoints, NextInitial, EndpointFailed, Release, Tick
  <2>. QED  BY <2>1, <2>2, Zenon
<1>. QED  BY <1>4, <1>5, <1>6, <1>7, <1>8, Zenon DEF NonSelectionStep, Pruning

(* A selection moves the front past elements in their failure window and past
   the selected one, never past another usable element. *)
LEMMA SelectionInv ==
  ASSUME Inv, Inv', BalanceInv, NEW t \in Iterator, NextRoundRobin(t), CountSelection(t)
  PROVE  BalanceInv'
<1> DEFINE n == Len(endpoints)
<1>1. /\ endpoints' = endpoints /\ index' = index
      /\ \A e \in Elem : /\ elem'[e].endpoint = elem[e].endpoint
                         /\ elem'[e].index = elem[e].index
      /\ \A e \in Elem : Listed(e)' <=> Listed(e)
  <2>1. /\ UNCHANGED <<endpoints, index>>
        /\ \A e \in Elem : /\ elem'[e].endpoint = elem[e].endpoint
                           /\ elem'[e].index = elem[e].index
    BY OtherStep, Zenon
  <2>. QED  BY <2>1, Zenon DEF Listed
<1>2. passed' \in [Elem -> Nat]
  BY DEF CountSelection, BalanceInv
<1>3. \A e \in Elem : ~Listed(e)' => passed'[e] = 0
  BY Zenon DEF CountSelection, StartsAnew
<1>4. CASE n = 0
  BY <1>1, <1>2, <1>3, <1>4 DEF BalanceInv, Listed
<1>5. CASE n # 0
  <2>1. n \in Nat \ {0} /\ endpoints # <<>>
    BY <1>5, PoolFacts DEF Inv
  <2>2. PICK start \in StartIdx :
          \/ \E m \in 0 .. n - 1 : SelectUsable(t, start, m)
          \/ SelectAfterReset(t, start)
    BY <1>5, Zenon DEF NextRoundRobin
  <2>3. start \in 0 .. n - 1
    BY <2>1, StartInRange, Zenon DEF Inv
  <2>4. ASSUME NEW e \in Elem, Listed(e)
        PROVE  passed[e] + DistanceFrom(start, e) <= n - 1
    <3>1. DistanceFrom(start, e) \in 0 .. n - 1
      BY <2>3, <2>4, DistanceFacts, Zenon
    <3>2. CASE nextIdx = -1 \/ nextIdx >= n
      BY <2>1, <2>4, <3>1, <3>2 DEF BalanceInv
    <3>3. CASE ~(nextIdx = -1 \/ nextIdx >= n)
      <4>1. start = nextIdx
        BY <3>3, Zenon DEF StartIdx
      <4>. QED  BY <2>4, <3>3, <4>1, Zenon DEF BalanceInv
    <3>. QED  BY <3>2, <3>3, Zenon
  <2>5. PICK m \in 0 .. n - 1 :
          /\ nextIdx' = (start + (m + 1)) % n
          /\ iter' = [iter EXCEPT ![t] = HandedOut(elem[ElemAt(start, m)].endpoint)]
          /\ \A k \in 0 .. m - 1 : \A f \in Elem :
               f = ElemAt(start, k) => InFailureWindow(f)'
    <3>1. CASE \E m \in 0 .. n - 1 : SelectUsable(t, start, m)
      <4>1. PICK m \in 0 .. n - 1 : SelectUsable(t, start, m)
        BY <3>1, Zenon
      <4> DEFINE e == ElemAt(start, m)
      <4>2. /\ ~InFailureWindow(e)
            /\ \A k \in 0 .. m - 1 : InFailureWindow(ElemAt(start, k))
            /\ elem' = [elem EXCEPT ![e].failedAt = nil]
            /\ nextIdx' = (start + m + 1) % n
            /\ iter' = [iter EXCEPT ![t] = HandedOut(elem[e].endpoint)]
        BY <4>1, Zenon DEF SelectUsable
      <4>3. start + m + 1 = start + (m + 1)
        BY <2>1, <2>3
      <4> HIDE DEF e
      <4>4. ASSUME NEW f \in Elem, InFailureWindow(f)
            PROVE  InFailureWindow(f)'
        <5>1. f # e
          BY <4>2, <4>4, Zenon
        <5>2. elem'[f] = elem[f]
          BY <4>2, <5>1, Zenon DEF Inv, TypeOK
        <5>. QED  BY <4>4, <5>2, Zenon DEF InFailureWindow
      <4>5. ASSUME NEW k \in 0 .. m - 1, NEW f \in Elem, f = ElemAt(start, k)
            PROVE  InFailureWindow(f)'
        BY <4>2, <4>4, <4>5, Zenon
      <4>6. nextIdx' = (start + (m + 1)) % n
        BY <4>2, <4>3, Zenon
      <4>7. iter' = [iter EXCEPT ![t] = HandedOut(elem[ElemAt(start, m)].endpoint)]
        BY <4>2, Zenon DEF e
      <4>8. \A k \in 0 .. m - 1 : \A f \in Elem :
              f = ElemAt(start, k) => InFailureWindow(f)'
        BY <4>5, Zenon
      <4>. QED  BY <4>6, <4>7, <4>8, Zenon
    <3>2. CASE SelectAfterReset(t, start)
      <4>1. /\ nextIdx' = (start + (0 + 1)) % n
            /\ iter' = [iter EXCEPT ![t] = HandedOut(elem[ElemAt(start, 0)].endpoint)]
        BY <3>2 DEF SelectAfterReset
      <4>2. 0 \in 0 .. n - 1
        BY <2>1
      <4>3. \A k \in 0 .. 0 - 1 : \A f \in Elem :
              f = ElemAt(start, k) => InFailureWindow(f)'
        OBVIOUS
      <4>. QED  BY <4>1, <4>2, <4>3, Zenon
    <3>. QED  BY <2>2, <3>1, <3>2, ZenonT(30)
  <2> DEFINE s == ElemAt(start, m)
  <2>6. Selected(t) = s
    <3>1. s \in Elem /\ Listed(s)
      BY <2>1, <2>3, PoolFacts DEF ElemAt, Listed, Inv
    <3>2. index[elem[s].endpoint.addr] = s
      BY <3>1, PoolFacts, Zenon DEF Inv
    <3>3. iter'[t].last = elem[s].endpoint
      BY <2>5, Zenon DEF HandedOut, Inv, TypeOK
    <3>. QED  BY <3>2, <3>3, Zenon DEF Selected
  <2> HIDE DEF s
  <2>7. nextIdx' \in 0 .. n - 1 /\ m + 1 \in 1 .. n
    BY <2>1, <2>3, <2>5
  <2>8. ASSUME NEW e \in Elem, Listed(e)
        PROVE  passed'[e] + DistanceFrom(nextIdx, e)' <= n - 1
    <3> DEFINE i == elem[e].index
    <3>1. i \in 0 .. n - 1 /\ passed[e] \in Nat
      <4>1. i + 1 \in 1 .. n
        BY <2>8, PoolFacts, Zenon DEF Inv
      <4>3. i \in Nat
        BY Zenon DEF Inv, TypeOK
      <4>2. passed[e] \in Nat
        BY Zenon DEF BalanceInv
      <4> HIDE DEF i, n
      <4>. QED  BY <2>1, <4>1, <4>2, <4>3
    <3>2. DistanceFrom(nextIdx, e)' = IF i >= nextIdx' THEN i - nextIdx' ELSE i - nextIdx' + n
      BY <1>1, Zenon DEF DistanceFrom
    <3>3. DistanceFrom(start, e) = IF i >= start THEN i - start ELSE i - start + n
      BY Zenon DEF DistanceFrom
    <3>4. DistanceFrom(start, e) \in 0 .. n - 1 /\ ElemAt(start, DistanceFrom(start, e)) = e
      BY <2>3, <2>8, DistanceFacts, Zenon
    <3> HIDE DEF i, n
    <3>5. CASE passed'[e] = 0
      BY <2>1, <2>7, <3>1, <3>2, <3>5
    <3>6. CASE passed'[e] # 0
      <4>1. e # s /\ passed'[e] = passed[e] + 1 /\ ~InFailureWindow(e)'
        BY <2>6, <3>6, Zenon DEF CountSelection, StartsAnew
      <4>2. DistanceFrom(start, e) # m
        BY <3>4, <4>1, Zenon DEF s
      <4>3. DistanceFrom(start, e) \notin 0 .. m - 1
        BY <2>5, <3>4, <4>1, Zenon
      <4>4. m + 1 <= DistanceFrom(start, e)
        BY <2>1, <3>4, <4>2, <4>3
      <4>5. DistanceFrom(nextIdx, e)' = DistanceFrom(start, e) - (m + 1)
        <5> DEFINE k == m + 1
        <5>1. k <= (IF i >= start THEN i - start ELSE i - start + n)
          BY <3>3, <4>4, Zenon
        <5>2. nextIdx' = (start + k) % n /\ k \in 1 .. n
          BY <2>5, <2>7, Zenon
        <5> HIDE DEF k
        <5>3. (IF i >= nextIdx' THEN i - nextIdx' ELSE i - nextIdx' + n)
                = (IF i >= start THEN i - start ELSE i - start + n) - k
          <6>1. start \in 0 .. n - 1
            BY <2>3, Zenon DEF n
          <6>. QED  BY <2>1, <3>1, <5>1, <5>2, <6>1, DistanceAfterMove
        <5>. QED  BY <3>2, <3>3, <5>3, Zenon DEF k
      <4>6. passed[e] + DistanceFrom(start, e) <= n - 1
        BY <2>4, <2>8, Zenon
      <4>. QED  BY <2>1, <3>1, <3>4, <4>1, <4>5, <4>6
    <3>. QED  BY <3>5, <3>6, Zenon
  <2>9. nextIdx' # -1 /\ ~(nextIdx' >= n)
    BY <2>1, <2>7
  <2>. QED  BY <1>1, <1>2, <1>3, <2>8, <2>9, Zenon DEF BalanceInv
<1>. QED  BY <1>4, <1>5, Zenon


(* The rotation passes a usable endpoint over fewer times than the pool has
   endpoints, for pools of any size. *)
THEOREM NobodyStarves == BalanceSpec => []EveryEndpointGetsItsTurn
<1>1. BalanceInit => Inv /\ BalanceInv
  BY InitInv, BalanceInitInv, Zenon DEF BalanceInit
<1>2. Inv /\ BalanceInv /\ [SelectionStep \/ NonSelectionStep]_balanceVars
        => Inv' /\ BalanceInv'
  <2>. SUFFICES ASSUME Inv, BalanceInv, [SelectionStep \/ NonSelectionStep]_balanceVars
                PROVE  Inv' /\ BalanceInv'
    BY Zenon
  <2>1. [Next]_vars
    BY Zenon DEF SelectionStep, NonSelectionStep, Next, balanceVars, vars
  <2>2. Inv'
    BY <2>1, NextInv, Zenon
  <2>3. CASE SelectionStep
    BY <2>2, <2>3, SelectionInv, Zenon DEF SelectionStep
  <2>4. CASE NonSelectionStep
    BY <2>2, <2>4, NonSelectionInv, Zenon
  <2>5. CASE UNCHANGED balanceVars
    BY <2>2, <2>5, Zenon DEF balanceVars, BalanceInv, DistanceFrom, Listed
  <2>. QED  BY <2>2, <2>3, <2>4, <2>5, Zenon
<1>3. Inv /\ BalanceInv => EveryEndpointGetsItsTurn
  <2>. SUFFICES ASSUME Inv, BalanceInv, NEW e \in Elem, Listed(e)
                PROVE  passed[e] < Len(endpoints)
    BY Zenon DEF EveryEndpointGetsItsTurn
  <2>1. Len(endpoints) \in Nat \ {0} /\ passed[e] \in Nat /\ nextIdx \in Nat \cup {-1}
    BY PoolFacts DEF Inv, TypeOK, BalanceInv, Listed
  <2>2. CASE nextIdx = -1 \/ nextIdx >= Len(endpoints)
    BY <2>1, <2>2 DEF BalanceInv
  <2>3. CASE ~(nextIdx = -1 \/ nextIdx >= Len(endpoints))
    <3>1. nextIdx \in 0 .. Len(endpoints) - 1
      BY <2>1, <2>3
    <3>2. DistanceFrom(nextIdx, e) \in 0 .. Len(endpoints) - 1
      BY <3>1, DistanceFacts, Zenon
    <3>3. passed[e] + DistanceFrom(nextIdx, e) <= Len(endpoints) - 1
      BY <2>3, Zenon DEF BalanceInv
    <3>. QED  BY <2>1, <3>2, <3>3
  <2>. QED  BY <2>2, <2>3, Zenon
<1>. QED  BY <1>1, <1>2, <1>3, PTL DEF BalanceSpec

=============================================================================
