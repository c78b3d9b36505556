---------------------------- MODULE RouteRegistry ----------------------------
(***************************************************************************)
(* The route registry (src/registry/registry.go) and the trie it keeps its *)
(* pools in (src/registry/trie.go).                                        *)
(*                                                                         *)
(* A uri is the sequence of its "/"-separated segments and a segment the   *)
(* sequence of its "."-separated labels; letter case, query string and the *)
(* slashes at its ends have been taken off (route.Uri.RouteKey, String).   *)
(* A trie node is named by its path from the root; the trie is the         *)
(* function from the nodes that exist to their pools.                      *)
(*                                                                         *)
(* Of a pool the registry sees what EndpointPool promises, with the age of *)
(* each registration.  The registry's RWMutex makes Register, Unregister   *)
(* and Lookup one action each; a pruning pass holds it while it walks the  *)
(* trie, one node per step, and time passes during the walk.               *)
(***************************************************************************)
EXTENDS Integers, Sequences

CONSTANTS
  Label,             \* the labels of host names
  Star,              \* the label "*"
  Uri,               \* the uris that are registered and looked up
  MaxLabels,         \* no uri has more labels
  Endpoint,          \* endpoints, by canonical address
  StaleAfter,        \* the effective staleness threshold of each endpoint
  MaxThreshold,      \* no threshold is larger
  Pool,              \* heap cells for pools
  Request,           \* requests in flight
  nil

Path == Seq(Seq(Label))

Root == <<>>

ASSUME UriAssumption == Uri \subseteq Path \ {Root}

ASSUME LabelAssumption == Star \in Label /\ MaxLabels \in Nat

ASSUME ThresholdAssumption ==
  MaxThreshold \in Nat /\ StaleAfter \in [Endpoint -> 0 .. MaxThreshold]

ASSUME PoolAssumption == nil \notin Pool /\ nil \notin Int

VARIABLES
  trie,    \* path of a node -> its Pool or nil
  pool,    \* the contents of each pool
  req,     \* the pool each request holds: nil when it has none
  ticker,  \* the pruning ticker, and whether a tick waits in its channel
  prune    \* the pruning walk: active, node last visited, nodes to visit

vars == <<trie, pool, req, ticker, prune>>

Age == 0 .. MaxThreshold + 1

NoMember == [ep \in Endpoint |-> nil]

NewPool(contextPath) == [member |-> NoMember, contextPath |-> contextPath]

NotPruning == [active |-> FALSE, cursor |-> Root, todo |-> {}]

TypeOK ==
  /\ \A p \in DOMAIN trie : p \in Path /\ trie[p] \in Pool \cup {nil}
  /\ pool \in [Pool -> [member : [Endpoint -> Age \cup {nil}],
                        contextPath : Path]]
  /\ req \in [Request -> Pool \cup {nil}]
  /\ ticker.state \in {"none", "running", "stopped"}
  /\ ticker.fired \in BOOLEAN
  /\ prune.active \in BOOLEAN
  /\ prune.cursor \in Path
  /\ \A p \in prune.todo : p \in Path

(* NewRouteRegistry *)
Init ==
  /\ trie = [p \in {Root} |-> nil]
  /\ pool = [pl \in Pool |-> NewPool(Root)]
  /\ req = [r \in Request |-> nil]
  /\ ticker = [state |-> "none", fired |-> FALSE]
  /\ prune = NotPruning

LockFree == ~prune.active

-----------------------------------------------------------------------------
(* Paths and nodes. *)

(* p is a prefix of q: node p lies on the way from the root to node q. *)
OnPathTo(p, q) == Len(p) <= Len(q) /\ \A i \in 1 .. Len(p) : p[i] = q[i]

Prefixes(u) == {SubSeq(u, 1, k) : k \in 0 .. Len(u)}

Children(t, p) == {q \in DOMAIN t : Len(q) = Len(p) + 1 /\ OnPathTo(p, q)}

isLeaf(t, p) == Children(t, p) = {}

Without(t, removed) == [p \in DOMAIN t \ removed |-> t[p]]

IsEmpty(pools, pl) == \A ep \in Endpoint : pools[pl].member[ep] = nil

(* The nodes the walk along u passes: it ends at the first missing child. *)
Reached(u) ==
  {p \in DOMAIN trie : OnPathTo(p, u) /\
     \A q \in Prefixes(u) : OnPathTo(q, p) => q \in DOMAIN trie}

Find(u) == IF u \in Reached(u) THEN trie[u] ELSE nil

(* Mutant of MatchUri: the first pool on the walk is taken. *)
MatchUriFirst(u) ==
  LET withPool == {p \in Reached(u) : trie[p] # nil}
      first    == {p \in withPool : \A q \in withPool : Len(q) >= Len(p)}
  IN IF first = {} THEN nil ELSE trie[CHOOSE p \in first : TRUE]

(* The pool of the deepest node on the walk that has one. *)
MatchUri(u) ==
  LET withPool == {p \in Reached(u) : trie[p] # nil}
      deepest  == {p \in withPool : \A q \in withPool : Len(q) <= Len(p)}
  IN IF deepest = {} THEN nil ELSE trie[CHOOSE p \in deepest : TRUE]

Insert(u, pl) ==
  [p \in DOMAIN trie \cup Prefixes(u) |->
     IF p = u THEN pl ELSE IF p \in DOMAIN trie THEN trie[p] ELSE nil]

(* deleteEmptyNodes: from r down to u no node has a pool or a second child.
   nodeToRemove is the highest such r. *)
DeadBranch(t, r, u) ==
  /\ r # Root
  /\ OnPathTo(r, u)
  /\ \A s \in DOMAIN t : OnPathTo(r, s) /\ OnPathTo(s, u) =>
       t[s] = nil /\ \A c, d \in Children(t, s) : c = d

(* Mutant of deleteEmptyNodes: only the leaf is removed. *)
deleteLeafOnly(t, u) == IF isLeaf(t, u) THEN Without(t, {u}) ELSE t

deleteEmptyNodes(t, u) ==
  IF isLeaf(t, u)
    THEN Without(t, {p \in DOMAIN t : \E r \in DOMAIN t : DeadBranch(t, r, u) /\ OnPathTo(r, p)})
    ELSE t

Delete(t, u) == deleteEmptyNodes([t EXCEPT ![u] = nil], u)

(* Snip(n): r goes when r and all nodes below it on the way to n have no
   endpoint and no other child. *)
SnippedWith(t, pools, n, r) ==
  /\ r # Root
  /\ OnPathTo(r, n)
  /\ \A s \in DOMAIN t : OnPathTo(r, s) /\ OnPathTo(s, n) =>
       /\ t[s] = nil \/ IsEmpty(pools, t[s])
       /\ \A c \in Children(t, s) : OnPathTo(c, n)

(* Mutant of Snip: a node with a pool stays, even if the pool is empty. *)
SnipPoolless(t, pools, n) ==
  Without(t, {r \in DOMAIN t : t[r] = nil /\ SnippedWith(t, pools, n, r)})

Snip(t, pools, n) == Without(t, {r \in DOMAIN t : SnippedWith(t, pools, n, r)})

-----------------------------------------------------------------------------
(* The registry's operations. *)

Holding(pl, member) == [member |-> member, contextPath |-> pl.contextPath]

Put(pl, ep) == Holding(pl, [pl.member EXCEPT ![ep] = 0])

Remove(pl, ep) == Holding(pl, [pl.member EXCEPT ![ep] = nil])

Fresh(pl) == (\A p \in DOMAIN trie : trie[p] # pl) /\ (\A r \in Request : req[r] # pl)

(* Mutant of RegisterKnown: the time stamp belongs to the endpoint object, which
   a message registers under several uris, and not to its place in a pool. *)
RegisterKnownShared(u, ep) ==
  /\ LockFree
  /\ Find(u) # nil
  /\ pool' = [pl \in Pool |-> IF pl = Find(u) \/ pool[pl].member[ep] # nil
                               THEN Put(pool[pl], ep) ELSE pool[pl]]
  /\ UNCHANGED <<trie, req, ticker, prune>>

RegisterKnown(u, ep) ==
  /\ LockFree
  /\ Find(u) # nil
  /\ pool' = [pool EXCEPT ![Find(u)] = Put(@, ep)]
  /\ UNCHANGED <<trie, req, ticker, prune>>

(* parseContextPath: the uri without its host. *)
RegisterNew(u, ep) ==
  /\ LockFree
  /\ Find(u) = nil
  /\ \E pl \in Pool :
       /\ Fresh(pl)
       /\ trie' = Insert(u, pl)
       /\ pool' = [pool EXCEPT ![pl] = Put(NewPool(Tail(u)), ep)]
  /\ UNCHANGED <<req, ticker, prune>>

Register(u, ep) == RegisterKnown(u, ep) \/ RegisterNew(u, ep)

Unregister(u, ep) ==
  /\ LockFree
  /\ Find(u) # nil
  /\ pool' = [pool EXCEPT ![Find(u)] = Remove(@, ep)]
  /\ trie' = IF IsEmpty(pool', Find(u)) THEN Delete(trie, u) ELSE trie
  /\ UNCHANGED <<req, ticker, prune>>

(* Uri.NextWildcard: "*." and what follows the first "." of the uri, after a
   leading "*." has been dropped. *)
Unstarred(u) ==
  IF Len(u[1]) > 1 /\ u[1][1] = Star THEN [u EXCEPT ![1] = Tail(@)] ELSE u

Dotted(u) == {j \in 1 .. Len(u) : Len(Unstarred(u)[j]) > 1}

NextWildcard(u) ==
  LET j == CHOOSE i \in Dotted(u) : \A k \in Dotted(u) : i <= k
      v == Unstarred(u)
  IN <<<<Star>> \o Tail(v[j])>> \o SubSeq(v, j + 1, Len(v))

(* The uris Lookup tries in turn; the last is tried again when NextWildcard
   reports an error, and the loop ends. *)
Tried(u) ==
  LET w[k \in 0 .. MaxLabels] ==
        IF k = 0 THEN u
        ELSE IF Dotted(w[k - 1]) = {} THEN w[k - 1] ELSE NextWildcard(w[k - 1])
  IN w

LookupPool(u) ==
  LET hits  == {k \in 0 .. MaxLabels : MatchUri(Tried(u)[k]) # nil}
      first == {k \in hits : \A m \in hits : k <= m}
  IN IF first = {} THEN nil ELSE MatchUri(Tried(u)[CHOOSE k \in first : TRUE])

Lookup(r, u) ==
  /\ LockFree
  /\ req[r] = nil
  /\ req' = [req EXCEPT ![r] = LookupPool(u)]
  /\ UNCHANGED <<trie, pool, ticker, prune>>

(* The request that looked the pool up is over. *)
Finish(r) ==
  /\ req[r] # nil
  /\ req' = [req EXCEPT ![r] = nil]
  /\ UNCHANGED <<trie, pool, ticker, prune>>

-----------------------------------------------------------------------------
(* Pruning. *)

StartPruningCycle ==
  /\ LockFree
  /\ ticker.state = "none"
  /\ ticker' = [state |-> "running", fired |-> ticker.fired]
  /\ UNCHANGED <<trie, pool, req, prune>>

StopPruningCycle ==
  /\ LockFree
  /\ ticker.state = "running"
  /\ ticker' = [state |-> "stopped", fired |-> ticker.fired]
  /\ UNCHANGED <<trie, pool, req, prune>>

(* The ticker's channel holds one tick; stopping the ticker leaves it there. *)
TickerFires ==
  /\ ticker.state = "running"
  /\ ~ticker.fired
  /\ ticker' = [state |-> ticker.state, fired |-> TRUE]
  /\ UNCHANGED <<trie, pool, req, prune>>

PruneStart ==
  /\ LockFree
  /\ ticker.fired
  /\ ticker' = [state |-> ticker.state, fired |-> FALSE]
  /\ prune' = [active |-> TRUE, cursor |-> Root, todo |-> DOMAIN trie \ {Root}]
  /\ UNCHANGED <<trie, pool, req>>

(* EachNodeWithPool goes on, in any order, with the children of the deepest
   node above or at the one just visited that has children left. *)
ParentOnPathTo(p, q) == Len(p) - 1 <= Len(q) /\ \A i \in 1 .. Len(p) - 1 : p[i] = q[i]

NextToVisit ==
  {n \in prune.todo : ParentOnPathTo(n, prune.cursor) /\
     \A m \in prune.todo : ParentOnPathTo(m, prune.cursor) => Len(m) <= Len(n)}

Pruned(pl) ==
  Holding(pl, [ep \in Endpoint |->
    IF pl.member[ep] # nil /\ pl.member[ep] > StaleAfter[ep] THEN nil ELSE pl.member[ep]])

(* Mutant of PruneNode: only the leaves are pruned. *)
PruneLeaf(n) ==
  /\ prune.active
  /\ n \in NextToVisit
  /\ IF trie[n] = nil \/ ~isLeaf(trie, n)
       THEN UNCHANGED <<trie, pool>>
       ELSE /\ pool' = [pool EXCEPT ![trie[n]] = Pruned(@)]
            /\ trie' = Snip(trie, pool', n)
  /\ prune' = [active |-> TRUE, cursor |-> n, todo |-> prune.todo \ {n}]
  /\ UNCHANGED <<req, ticker>>

PruneNode(n) ==
  /\ prune.active
  /\ n \in NextToVisit
  /\ IF trie[n] = nil
       THEN UNCHANGED <<trie, pool>>
       ELSE /\ pool' = [pool EXCEPT ![trie[n]] = Pruned(@)]
            /\ trie' = Snip(trie, pool', n)
  /\ prune' = [active |-> TRUE, cursor |-> n, todo |-> prune.todo \ {n}]
  /\ UNCHANGED <<req, ticker>>

PruneEnd ==
  /\ prune.active
  /\ prune.todo = {}
  /\ prune' = NotPruning
  /\ UNCHANGED <<trie, pool, req, ticker>>

Older(age) == IF age = nil \/ age > MaxThreshold THEN age ELSE age + 1

Tick ==
  /\ pool' = [pl \in Pool |->
       Holding(pool[pl], [ep \in Endpoint |-> Older(pool[pl].member[ep])])]
  /\ UNCHANGED <<trie, req, ticker, prune>>

Pruning == PruneStart \/ (\E n \in prune.todo : PruneNode(n)) \/ PruneEnd

Next ==
  \/ \E u \in Uri, ep \in Endpoint : Register(u, ep) \/ Unregister(u, ep)
  \/ \E r \in Request : Finish(r) \/ \E u \in Uri : Lookup(r, u)
  \/ StartPruningCycle
  \/ StopPruningCycle
  \/ TickerFires
  \/ Pruning
  \/ Tick

Spec == Init /\ [][Next]_vars

(* While the ticker runs it keeps firing, the pruning goroutine takes every
   tick and finishes every pass. *)
LiveSpec == Spec /\ WF_vars(TickerFires) /\ WF_vars(Pruning)

-----------------------------------------------------------------------------
(* Properties. *)

(* Every node but the root hangs below an existing one: the walk of Find and
   MatchUri reaches it. *)
Connected == Root \in DOMAIN trie /\ \A p \in DOMAIN trie : Prefixes(p) \subseteq DOMAIN trie

(* Neither Delete nor Snip leaves a branch behind that leads to no pool. *)
NoDeadLeaves == \A p \in DOMAIN trie : p # Root /\ isLeaf(trie, p) => trie[p] # nil

(* A pool sits at one node, the one whose path it was created for. *)
PoolsInPlace ==
  /\ \A p, q \in DOMAIN trie : trie[p] # nil /\ trie[p] = trie[q] => p = q
  /\ \A p \in DOMAIN trie : trie[p] # nil => p # Root /\ pool[trie[p]].contextPath = Tail(p)

(* A pool that has left the trie has no endpoints: a request that looked it up
   before is refused, never sent to an endpoint that was unregistered. *)
DetachedPoolsEmpty ==
  \A pl \in Pool : (\A p \in DOMAIN trie : trie[p] # pl) => IsEmpty(pool, pl)

(* The walk of a pruning pass never comes to a node that a Snip earlier in the
   pass has taken out of the trie. *)
WalkStaysInTrie == prune.todo \subseteq DOMAIN trie

TrieConsistent == Connected /\ NoDeadLeaves /\ PoolsInPlace /\ DetachedPoolsEmpty /\ WalkStaysInTrie

(* The registrations of each uri. *)
Routes ==
  [u \in Uri |->
     IF u \in DOMAIN trie /\ trie[u] # nil THEN pool[trie[u]].member ELSE NoMember]

Table == INSTANCE RouteTable WITH routes <- Routes

(* The trie and its pools implement the table of routes: registering,
   unregistering and pruning never add, lose or refresh another registration,
   however nodes are inserted, deleted and snipped. *)
ImplementsRouteTable == Table!Spec

(* The route a uri should be served by, told from the set of routes alone: the
   longest one that is a prefix of the uri, or else, among the wildcard routes
   that fit the host, the longest path below the most specific host. *)
Routed == {p \in DOMAIN trie : trie[p] # nil}

WildcardFor(w, u) ==
  /\ \E k \in 1 .. Len(u[1]) - 1 : w[1] = <<Star>> \o SubSeq(u[1], k + 1, Len(u[1]))
  /\ OnPathTo(Tail(w), Tail(u))

MoreSpecific(p, q) ==
  Len(p[1]) > Len(q[1]) \/ (Len(p[1]) = Len(q[1]) /\ Len(p) > Len(q))

BestRoutes(u) ==
  LET exact == {p \in Routed : OnPathTo(p, u)}
      wild  == {p \in Routed : WildcardFor(p, u)}
  IN IF exact # {} THEN {p \in exact : \A q \in exact : Len(q) <= Len(p)}
     ELSE {p \in wild : \A q \in wild : ~MoreSpecific(q, p)}

(* Lookup finds that route, for uris without a "." in their path, whatever
   registrations, removals and pruning have done to the trie. *)
LookupMostSpecific ==
  \A u \in Uri : LookupPool(u) = (IF BestRoutes(u) = {} THEN nil
                                  ELSE trie[CHOOSE p \in BestRoutes(u) : TRUE])

(* While the pruning cycle runs, a registration that has become stale does not
   stay: it is pruned, refreshed or unregistered. *)
StaleEventuallyPruned ==
  \A pl \in Pool, ep \in Endpoint :
    LET stale == pool[pl].member[ep] # nil /\ pool[pl].member[ep] > StaleAfter[ep]
    IN stale ~> (~stale \/ ticker.state \in {"none", "stopped"})

(* While the pruning cycle runs, a leaf whose pool has become empty does not
   stay in the trie. *)
EmptyLeavesEventuallySnipped ==
  \A u \in Uri :
    LET emptyLeaf == /\ u \in DOMAIN trie
                     /\ isLeaf(trie, u)
                     /\ IsEmpty(pool, trie[u])
    IN emptyLeaf ~> (~emptyLeaf \/ ticker.state \in {"none", "stopped"})

(* When a pruning pass is over, no route without endpoints is left. *)
EmptyRoutesPruned == [][PruneEnd => \A p \in Routed : ~IsEmpty(pool, trie[p])]_vars
=============================================================================
