------------------------- MODULE RouteRegistryProofs -------------------------
(***************************************************************************)
(* Proofs about RouteRegistry, for any set of uris, endpoints, pools and   *)
(* requests.                                                               *)
(***************************************************************************)
EXTENDS RouteRegistry, WellFoundedInduction, TLAPS

(* Paths, ordered by OnPathTo, form a tree. *)
LEMMA PathOrder ==
  ASSUME NEW p \in Path, NEW q \in Path
  PROVE  /\ Len(p) \in Nat
         /\ OnPathTo(p, p)
         /\ OnPathTo(Root, p)
         /\ OnPathTo(p, q) => Len(p) <= Len(q)
         /\ OnPathTo(p, q) /\ Len(p) = Len(q) => p = q
         /\ Len(p) = 0 <=> p = Root
<1>1. Len(p) \in Nat /\ Len(q) \in Nat
  BY DEF Path
<1>2. OnPathTo(p, p) /\ (OnPathTo(p, q) => Len(p) <= Len(q))
  BY <1>1 DEF OnPathTo
<1>3. OnPathTo(p, q) /\ Len(p) = Len(q) => p = q
  <2>1. p \in [1 .. Len(p) -> Seq(Label)] /\ q \in [1 .. Len(q) -> Seq(Label)]
    BY DEF Path
  <2>. QED  BY <1>1, <2>1 DEF OnPathTo
<1>4. Len(p) = 0 <=> p = Root
  BY DEF Path, Root
<1>5. OnPathTo(Root, p)
  BY <1>1 DEF OnPathTo, Root
<1>. QED  BY <1>1, <1>2, <1>3, <1>4, <1>5, Zenon

(* Paths above a path above a node are above the node. *)
LEMMA PathTransitive ==
  ASSUME NEW p \in Path, NEW q \in Path, NEW r \in Path, OnPathTo(p, q), OnPathTo(q, r)
  PROVE  OnPathTo(p, r)
<1>1. Len(p) \in Nat /\ Len(q) \in Nat /\ Len(r) \in Nat
  BY DEF Path
<1>. QED  BY <1>1 DEF OnPathTo

(* Of two paths above a node the shorter is above the longer. *)
LEMMA PathLinear ==
  ASSUME NEW p \in Path, NEW q \in Path, NEW u \in Path,
         OnPathTo(p, u), OnPathTo(q, u), Len(p) <= Len(q)
  PROVE  OnPathTo(p, q)
<1>1. Len(p) \in Nat /\ Len(q) \in Nat /\ Len(u) \in Nat
  BY DEF Path
<1>. QED  BY <1>1 DEF OnPathTo

(* The prefixes of a path are the paths above it. *)
LEMMA PrefixesAbove ==
  ASSUME NEW u \in Path
  PROVE  Prefixes(u) = {p \in Path : OnPathTo(p, u)}
<1>1. Len(u) \in Nat /\ \A i \in 1 .. Len(u) : u[i] \in Seq(Label)
  BY DEF Path
<1>2. ASSUME NEW k \in 0 .. Len(u)
      PROVE  /\ SubSeq(u, 1, k) \in Path
             /\ Len(SubSeq(u, 1, k)) = k
             /\ OnPathTo(SubSeq(u, 1, k), u)
  <2>1. \A i \in 1 .. k : u[i] \in Seq(Label)
    BY <1>1
  <2>2. /\ SubSeq(u, 1, k) \in Path
        /\ Len(SubSeq(u, 1, k)) = IF 1 <= k THEN k - 1 + 1 ELSE 0
        /\ \A i \in 1 .. k - 1 + 1 : SubSeq(u, 1, k)[i] = u[1 + i - 1]
    BY <1>1, <2>1 DEF Path
  <2>. QED  BY <1>1, <2>2 DEF OnPathTo
<1>3. ASSUME NEW p \in Path, OnPathTo(p, u)
      PROVE  p \in Prefixes(u)
  <2>1. Len(p) \in 0 .. Len(u)
    BY <1>1, <1>3, PathOrder
  <2>2. /\ SubSeq(u, 1, Len(p)) \in Path
        /\ Len(SubSeq(u, 1, Len(p))) = Len(p)
        /\ OnPathTo(SubSeq(u, 1, Len(p)), u)
    BY <1>2, <2>1, Zenon
  <2>3. p = SubSeq(u, 1, Len(p))
    BY <1>3, <2>1, <2>2, PathLinear, PathOrder, ZenonT(30)
  <2>. QED  BY <2>1, <2>3, ZenonT(30) DEF Prefixes
<1>. QED  BY <1>2, <1>3, ZenonT(30) DEF Prefixes

(* Between p and a longer u there is the next node on the way. *)
LEMMA NextOnPath ==
  ASSUME NEW p \in Path, NEW u \in Path, OnPathTo(p, u), p # u
  PROVE  \E c \in Path : OnPathTo(p, c) /\ OnPathTo(c, u) /\ Len(c) = Len(p) + 1
<1>1. Len(p) \in Nat /\ Len(u) \in Nat /\ Len(p) + 1 \in 0 .. Len(u)
  BY PathOrder
<1> DEFINE c == SubSeq(u, 1, Len(p) + 1)
<1>2. c \in Prefixes(u)
  BY <1>1, Zenon DEF Prefixes
<1>3. c \in Path /\ OnPathTo(c, u)
  BY <1>2, PrefixesAbove, Zenon
<1>4. Len(c) = Len(p) + 1
  <2>1. \A i \in 1 .. Len(p) + 1 : u[i] \in Seq(Label)
    BY <1>1 DEF Path
  <2>. QED  BY <1>1, <2>1
<1> HIDE DEF c
<1>5. OnPathTo(p, c)
  BY <1>1, <1>3, <1>4, PathLinear
<1>. QED  BY <1>3, <1>4, <1>5, Zenon

(* Every path but the root has a parent. *)
LEMMA ParentOf ==
  ASSUME NEW q \in Path, q # Root
  PROVE  \E p \in Path : OnPathTo(p, q) /\ Len(q) = Len(p) + 1
<1>1. Len(q) \in Nat \ {0}
  BY PathOrder, Zenon
<1> DEFINE p == SubSeq(q, 1, Len(q) - 1)
<1>2. p \in Prefixes(q)
  BY <1>1 DEF Prefixes
<1>3. p \in Path /\ OnPathTo(p, q)
  BY <1>2, PrefixesAbove, Zenon
<1>4. Len(p) = Len(q) - 1
  <2>1. \A i \in 1 .. Len(q) - 1 : q[i] \in Seq(Label)
    BY <1>1 DEF Path
  <2>2. Len(p) = IF 1 <= Len(q) - 1 THEN (Len(q) - 1) - 1 + 1 ELSE 0
    BY <1>1, <2>1
  <2>3. CASE Len(q) = 1
    BY <2>2, <2>3
  <2>4. CASE Len(q) # 1
    <3>1. \A n \in Nat \ {0, 1} : 1 <= n - 1 /\ (n - 1) - 1 + 1 = n - 1
      OBVIOUS
    <3>2. Len(q) \in Nat \ {0, 1}
      BY <1>1, <2>4, Zenon
    <3> HIDE DEF p
    <3>. QED  BY <2>2, <3>1, <3>2, ZenonT(30)
  <2>. QED  BY <2>3, <2>4, Zenon
<1> HIDE DEF p
<1>. QED  BY <1>1, <1>3, <1>4

(* The least-number principle. *)
LEMMA LeastNumber ==
  ASSUME NEW T \in SUBSET Nat, T # {}
  PROVE  \E m \in T : \A k \in T : m <= k
<1> DEFINE R == {ss \in Nat \X Nat : ss[1] < ss[2]}
<1>1. IsWellFoundedOn(R, Nat)
  BY NatLessThanWellFounded, Zenon DEF OpToRel
<1>2. PICK m \in T : \A k \in T : ~(<<k, m>> \in R)
  <2> HIDE DEF R
  <2>. QED  BY <1>1, WFMin, Zenon
<1>3. \A k \in T : ~(k < m)
  BY <1>2, Zenon
<1>. QED  BY <1>3

(* Some path of a set is the shortest. *)
LEMMA ShortestPath ==
  ASSUME NEW S \in SUBSET Path, S # {}
  PROVE  \E q \in S : \A r \in S : Len(q) <= Len(r)
<1> DEFINE T == {Len(q) : q \in S}
<1>1. T \in SUBSET Nat /\ T # {}
  <2>1. \A q \in S : Len(q) \in Nat
    BY DEF Path
  <2>. QED  BY <2>1, Zenon
<1>2. PICK m \in T : \A k \in T : m <= k
  BY <1>1, LeastNumber, ZenonT(30)
<1>. QED  BY <1>2, ZenonT(30)

-----------------------------------------------------------------------------
(* What every trie looks like. *)

Tree(t) ==
  /\ \A p \in DOMAIN t : p \in Path
  /\ Root \in DOMAIN t
  /\ \A p \in DOMAIN t, q \in Path : OnPathTo(q, p) => q \in DOMAIN t

NoDeadLeafIn(t) == \A p \in DOMAIN t : p # Root /\ isLeaf(t, p) => t[p] # nil

(* Below a dead branch there is nothing but the way to the deleted leaf. *)
LEMMA DeadBranchIsChain ==
  ASSUME NEW t, Tree(t), NEW u \in DOMAIN t, isLeaf(t, u),
         NEW r \in DOMAIN t, DeadBranch(t, r, u), NEW p \in DOMAIN t, OnPathTo(r, p)
  PROVE  OnPathTo(p, u)
<1>. SUFFICES ASSUME ~OnPathTo(p, u)
              PROVE  FALSE
  BY Zenon
<1> DEFINE S == {q \in DOMAIN t : OnPathTo(r, q) /\ ~OnPathTo(q, u)}
<1>1. S \in SUBSET Path /\ S # {}
  BY Zenon DEF Tree
<1>2. PICK q \in S : \A s \in S : Len(q) <= Len(s)
  <2> HIDE DEF S
  <2>. QED  BY <1>1, ShortestPath, Zenon
<1>3. /\ q \in Path /\ r \in Path /\ u \in Path /\ q \in DOMAIN t
      /\ OnPathTo(r, q) /\ ~OnPathTo(q, u) /\ OnPathTo(r, u) /\ r # Root
  BY <1>2, Zenon DEF Tree, DeadBranch
<1>4. q # r /\ q # Root
  BY <1>3, PathOrder, Zenon
<1>5. PICK s \in Path : OnPathTo(s, q) /\ Len(q) = Len(s) + 1
  BY <1>3, <1>4, ParentOf, Zenon
<1>6. s \in DOMAIN t /\ Len(s) \in Nat /\ Len(r) \in Nat
  BY <1>3, <1>5, PathOrder, Zenon DEF Tree
<1>7. OnPathTo(r, s)
  <2>1. Len(r) <= Len(q) /\ Len(r) # Len(q)
    BY <1>3, <1>4, PathOrder, Zenon
  <2>. QED  BY <1>3, <1>5, <1>6, <2>1, PathLinear
<1>8. OnPathTo(s, u)
  <2>1. s \notin S
    BY <1>2, <1>5, <1>6
  <2>. QED  BY <1>6, <1>7, <2>1, Zenon
<1>9. q \in Children(t, s)
  BY <1>3, <1>5, Zenon DEF Children
<1>10. s # u
  BY <1>9, Zenon DEF isLeaf
<1>11. PICK c \in Path : OnPathTo(s, c) /\ OnPathTo(c, u) /\ Len(c) = Len(s) + 1
  BY <1>3, <1>8, <1>10, NextOnPath, Zenon
<1>12. c \in Children(t, s)
  BY <1>3, <1>11, Zenon DEF Children, Tree
<1>13. q = c
  BY <1>6, <1>7, <1>8, <1>9, <1>12, Zenon DEF DeadBranch
<1>. QED  BY <1>3, <1>11, <1>13, Zenon

(* Taking out nodes together with all nodes below them leaves a tree. *)
LEMMA WithoutIsTree ==
  ASSUME NEW t, Tree(t), NEW X \in SUBSET (DOMAIN t), Root \notin X,
         \A p \in X, q \in DOMAIN t : OnPathTo(p, q) => q \in X
  PROVE  Tree(Without(t, X))
BY Zenon DEF Tree, Without

(* Delete takes the pool of u out, and nodes without a pool only. *)
LEMMA DeleteFacts ==
  ASSUME NEW t, Tree(t), NoDeadLeafIn(t), NEW u \in DOMAIN t, u # Root
  PROVE  /\ Tree(Delete(t, u)) /\ NoDeadLeafIn(Delete(t, u))
         /\ DOMAIN Delete(t, u) \subseteq DOMAIN t
         /\ \A p \in DOMAIN Delete(t, u) : Delete(t, u)[p] = IF p = u THEN nil ELSE t[p]
         /\ \A p \in DOMAIN t \ DOMAIN Delete(t, u) : p = u \/ t[p] = nil
<1> DEFINE d == [t EXCEPT ![u] = nil]
<1>1. /\ DOMAIN d = DOMAIN t
      /\ \A p \in DOMAIN t : d[p] = IF p = u THEN nil ELSE t[p]
  BY Zenon
<1>2. Delete(t, u) = deleteEmptyNodes(d, u)
  BY Zenon DEF Delete
<1> HIDE DEF d
<1>3. Tree(d) /\ \A p : Children(d, p) = Children(t, p)
  BY <1>1, Zenon DEF Tree, Children
<1>4. CASE ~isLeaf(d, u)
  <2>1. Delete(t, u) = d
    BY <1>2, <1>4, Zenon DEF deleteEmptyNodes
  <2>2. NoDeadLeafIn(d)
    BY <1>1, <1>3, <1>4, Zenon DEF NoDeadLeafIn, isLeaf
  <2>. QED  BY <1>1, <1>3, <2>1, <2>2, Zenon
<1>5. CASE isLeaf(d, u)
  <2> DEFINE X == {p \in DOMAIN d : \E r \in DOMAIN d : DeadBranch(d, r, u) /\ OnPathTo(r, p)}
  <2>1. Delete(t, u) = Without(d, X)
    BY <1>2, <1>5, Zenon DEF deleteEmptyNodes
  <2>2. X \in SUBSET (DOMAIN d)
    BY Zenon
  <2>3. \A p \in X : OnPathTo(p, u) /\ d[p] = nil
    <3>. SUFFICES ASSUME NEW p \in X
                  PROVE  OnPathTo(p, u) /\ d[p] = nil
      BY Zenon
    <3>1. PICK r \in DOMAIN d : DeadBranch(d, r, u) /\ OnPathTo(r, p)
      BY Zenon
    <3>2. OnPathTo(p, u)
      BY <1>1, <1>3, <1>5, <3>1, DeadBranchIsChain, Zenon
    <3>. QED  BY <3>1, <3>2, Zenon DEF DeadBranch
  <2>4. Root \notin X
    <3>. SUFFICES ASSUME NEW r \in DOMAIN d, DeadBranch(d, r, u), OnPathTo(r, Root)
                  PROVE  FALSE
      BY Zenon
    <3>1. r \in Path /\ Root \in Path /\ r # Root
      BY <1>3, Zenon DEF Tree, DeadBranch
    <3>. QED  BY <3>1, PathOrder
  <2>5. \A p \in X, q \in DOMAIN d : OnPathTo(p, q) => q \in X
    BY <1>3, PathTransitive, Zenon DEF Tree
  <2>6. /\ DOMAIN Without(d, X) = DOMAIN d \ X
        /\ \A p \in DOMAIN d \ X : Without(d, X)[p] = d[p]
    BY Zenon DEF Without
  <2>7. Tree(Without(d, X))
    <3> HIDE DEF X
    <3>. QED  BY <1>3, <2>2, <2>4, <2>5, WithoutIsTree, Zenon
  <2>8. NoDeadLeafIn(Without(d, X))
    <3>. SUFFICES ASSUME NEW p \in DOMAIN d \ X, p # Root, isLeaf(Without(d, X), p), d[p] = nil
                  PROVE  FALSE
      BY <2>6, Zenon DEF NoDeadLeafIn
    <3>1. p \in Path /\ u \in Path /\ p \in DOMAIN t /\ Len(p) \in Nat
      BY <1>1, <1>3, PathOrder, Zenon DEF Tree
    <3>2. p # u
      <4>1. DeadBranch(d, u, u)
        <5>1. OnPathTo(u, u)
          BY <3>1, PathOrder, Zenon
        <5>2. \A s \in DOMAIN d : OnPathTo(u, s) /\ OnPathTo(s, u) => s = u
          <6>. SUFFICES ASSUME NEW s \in DOMAIN d, OnPathTo(u, s), OnPathTo(s, u)
                        PROVE  s = u
            BY Zenon
          <6>1. s \in Path /\ Len(s) <= Len(u) /\ Len(u) <= Len(s)
            BY <1>3, <3>1, PathOrder, Zenon DEF Tree
          <6>. QED  BY <3>1, <6>1, PathOrder
        <5>3. d[u] = nil /\ Children(d, u) = {}
          BY <1>1, <1>5, Zenon DEF isLeaf
        <5>. QED  BY <5>1, <5>2, <5>3, Zenon DEF DeadBranch
      <4>2. u \in X
        BY <1>1, <4>1, <3>1, PathOrder, Zenon
      <4>. QED  BY <4>2, Zenon
    <3>3. t[p] = nil
      BY <1>1, <3>1, <3>2, Zenon
    <3>4. PICK c \in Children(d, p) : c \in X
      <4>1. ~isLeaf(t, p)
        BY <3>1, <3>3, Zenon DEF NoDeadLeafIn
      <4>2. PICK c \in Children(d, p) : TRUE
        BY <1>3, <4>1, Zenon DEF isLeaf
      <4>3. c \in X
        BY <2>6, <4>2, ZenonT(30) DEF isLeaf, Children
      <4>. QED  BY <4>2, <4>3, Zenon
    <3>5. ASSUME NEW b \in Children(d, p), b \in X
          PROVE  DeadBranch(d, b, u)
      <4>1. PICK r \in DOMAIN d : DeadBranch(d, r, u) /\ OnPathTo(r, b)
        BY <3>5, Zenon
      <4>2. /\ b \in Path /\ r \in Path /\ OnPathTo(p, b) /\ Len(b) = Len(p) + 1
            /\ Len(r) \in Nat
        BY <1>3, <3>5, PathOrder, Zenon DEF Children, Tree
      <4>3. ~OnPathTo(r, p)
        BY <4>1, Zenon
      <4>4. ~(Len(r) <= Len(p))
        BY <3>1, <4>1, <4>2, <4>3, PathLinear, Zenon
      <4>5. Len(r) = Len(b)
        <5>1. Len(r) <= Len(b)
          BY <4>1, <4>2, PathOrder, Zenon
        <5>. QED  BY <3>1, <4>2, <4>4, <5>1
      <4>6. r = b
        BY <4>1, <4>2, <4>5, PathOrder, Zenon
      <4>. QED  BY <4>1, <4>6, Zenon
    <3>6. /\ DeadBranch(d, c, u) /\ OnPathTo(c, u) /\ OnPathTo(p, c)
          /\ c \in Path /\ Len(c) = Len(p) + 1
      BY <1>3, <3>4, <3>5, Zenon DEF DeadBranch, Children, Tree
    <3>7. OnPathTo(p, u) /\ ~DeadBranch(d, p, u)
      BY <3>1, <3>6, PathTransitive, PathOrder, Zenon
    <3>8. PICK s \in DOMAIN d : /\ OnPathTo(p, s) /\ OnPathTo(s, u)
                                /\ ~(d[s] = nil /\ \A a, b \in Children(d, s) : a = b)
      BY <3>7, Zenon DEF DeadBranch
    <3>9. s = p
      <4>1. s \in Path /\ Len(s) \in Nat
        BY <1>3, PathOrder, Zenon DEF Tree
      <4>2. ~OnPathTo(c, s)
        BY <3>6, <3>8, Zenon DEF DeadBranch
      <4>3. ~(Len(c) <= Len(s))
        BY <3>1, <3>6, <3>8, <4>1, <4>2, PathLinear, Zenon
      <4>4. Len(p) <= Len(s)
        BY <3>1, <3>8, <4>1, PathOrder, Zenon
      <4>. QED  BY <3>1, <3>6, <3>8, <4>1, <4>3, <4>4, PathOrder
    <3>10. PICK a, b \in Children(d, p) : a # b
      BY <3>8, <3>9, Zenon
    <3>11. a \in X /\ b \in X
      BY <2>6, ZenonT(30) DEF isLeaf, Children
    <3>12. OnPathTo(a, u) /\ OnPathTo(b, u)
      BY <2>3, <3>11, Zenon
    <3>13. a \in Path /\ b \in Path /\ Len(a) = Len(b) /\ Len(a) \in Nat
      BY <1>3, <3>1 DEF Children, Tree
    <3>. QED  BY <3>1, <3>10, <3>12, <3>13, PathLinear, PathOrder, Zenon
  <2>. QED  BY <1>1, <2>1, <2>3, <2>6, <2>7, <2>8, ZenonT(30)
<1>. QED  BY <1>4, <1>5, Zenon


(* Below a node that Snip takes out there is nothing but the way to n. *)
LEMMA SnippedIsChain ==
  ASSUME NEW t, NEW pools, Tree(t), NEW n \in DOMAIN t, NEW r \in DOMAIN t,
         SnippedWith(t, pools, n, r), NEW p \in DOMAIN t, OnPathTo(r, p)
  PROVE  OnPathTo(p, n)
<1>. SUFFICES ASSUME ~OnPathTo(p, n)
              PROVE  FALSE
  BY Zenon
<1> DEFINE S == {q \in DOMAIN t : OnPathTo(r, q) /\ ~OnPathTo(q, n)}
<1>1. S \in SUBSET Path /\ S # {}
  BY Zenon DEF Tree
<1>2. PICK q \in S : \A s \in S : Len(q) <= Len(s)
  <2> HIDE DEF S
  <2>. QED  BY <1>1, ShortestPath, Zenon
<1>3. /\ q \in Path /\ r \in Path /\ n \in Path /\ q \in DOMAIN t
      /\ OnPathTo(r, q) /\ ~OnPathTo(q, n) /\ OnPathTo(r, n) /\ r # Root
  BY <1>2, Zenon DEF Tree, SnippedWith
<1>4. q # r /\ q # Root
  BY <1>3, PathOrder, Zenon
<1>5. PICK s \in Path : OnPathTo(s, q) /\ Len(q) = Len(s) + 1
  BY <1>3, <1>4, ParentOf, Zenon
<1>6. s \in DOMAIN t /\ Len(s) \in Nat /\ Len(r) \in Nat
  BY <1>3, <1>5, PathOrder, Zenon DEF Tree
<1>7. OnPathTo(r, s)
  <2>1. Len(r) <= Len(q) /\ Len(r) # Len(q)
    BY <1>3, <1>4, PathOrder, Zenon
  <2>. QED  BY <1>3, <1>5, <1>6, <2>1, PathLinear
<1>8. OnPathTo(s, n)
  <2>1. s \notin S
    BY <1>2, <1>5, <1>6
  <2>. QED  BY <1>6, <1>7, <2>1, Zenon
<1>9. q \in Children(t, s)
  BY <1>3, <1>5, Zenon DEF Children
<1>. QED  BY <1>3, <1>6, <1>7, <1>8, <1>9, Zenon DEF SnippedWith

(* Snip takes out nodes above n, and none with an endpoint. *)
LEMMA SnipFacts ==
  ASSUME NEW t, NEW pools, Tree(t), NoDeadLeafIn(t), NEW n \in DOMAIN t
  PROVE  /\ Tree(Snip(t, pools, n)) /\ NoDeadLeafIn(Snip(t, pools, n))
         /\ DOMAIN Snip(t, pools, n) \subseteq DOMAIN t
         /\ \A p \in DOMAIN Snip(t, pools, n) : Snip(t, pools, n)[p] = t[p]
         /\ \A p \in DOMAIN t \ DOMAIN Snip(t, pools, n) :
              OnPathTo(p, n) /\ (t[p] = nil \/ IsEmpty(pools, t[p]))
<1> DEFINE X == {r \in DOMAIN t : SnippedWith(t, pools, n, r)}
<1>1. Snip(t, pools, n) = Without(t, X)
  BY Zenon DEF Snip
<1>2. X \in SUBSET (DOMAIN t) /\ Root \notin X
  BY Zenon DEF SnippedWith
<1>3. \A p \in X : OnPathTo(p, n) /\ (t[p] = nil \/ IsEmpty(pools, t[p]))
  BY PathOrder, Zenon DEF SnippedWith, Tree
<1>4. ASSUME NEW p \in X, NEW q \in DOMAIN t, OnPathTo(p, q)
      PROVE  q \in X
  <2>1. OnPathTo(q, n)
    BY <1>4, SnippedIsChain, Zenon
  <2>2. p \in Path /\ q \in Path /\ p # Root
    BY Zenon DEF Tree, SnippedWith
  <2>3. q # Root
    BY <1>4, <2>2, PathOrder
  <2>4. \A s \in DOMAIN t : OnPathTo(q, s) => OnPathTo(p, s)
    BY <1>4, <2>2, PathTransitive, Zenon DEF Tree
  <2>. QED  BY <2>1, <2>3, <2>4, Zenon DEF SnippedWith
<1>5. /\ DOMAIN Without(t, X) = DOMAIN t \ X
      /\ \A p \in DOMAIN t \ X : Without(t, X)[p] = t[p]
  BY Zenon DEF Without
<1> HIDE DEF X
<1>6. Tree(Without(t, X))
  BY <1>2, <1>4, WithoutIsTree, Zenon
<1>7. NoDeadLeafIn(Without(t, X))
  <2>. SUFFICES ASSUME NEW p \in DOMAIN t \ X, p # Root, isLeaf(Without(t, X), p), t[p] = nil
                PROVE  FALSE
    BY <1>5, Zenon DEF NoDeadLeafIn
  <2>1. p \in Path /\ n \in Path /\ Len(p) \in Nat
    BY PathOrder, Zenon DEF Tree
  <2>2. PICK c \in Children(t, p) : c \in X
    BY <1>5, Zenon DEF NoDeadLeafIn, isLeaf, Children
  <2>3. /\ SnippedWith(t, pools, n, c) /\ OnPathTo(c, n) /\ OnPathTo(p, c)
        /\ c \in Path /\ Len(c) = Len(p) + 1
    BY <2>2, Zenon DEF X, SnippedWith, Children, Tree
  <2>4. OnPathTo(p, n) /\ ~SnippedWith(t, pools, n, p)
    BY <2>1, <2>3, PathTransitive, Zenon DEF X
  <2>5. PICK s \in DOMAIN t : /\ OnPathTo(p, s) /\ OnPathTo(s, n)
                              /\ ~ /\ t[s] = nil \/ IsEmpty(pools, t[s])
                                   /\ \A a \in Children(t, s) : OnPathTo(a, n)
    BY <2>4, Zenon DEF SnippedWith
  <2>6. s = p
    <3>1. s \in Path /\ Len(s) \in Nat
      BY PathOrder, Zenon DEF Tree
    <3>2. ~OnPathTo(c, s)
      BY <2>3, <2>5, Zenon DEF SnippedWith
    <3>3. ~(Len(c) <= Len(s))
      BY <2>1, <2>3, <2>5, <3>1, <3>2, PathLinear, Zenon
    <3>4. Len(p) <= Len(s)
      BY <2>1, <2>5, <3>1, PathOrder, Zenon
    <3>. QED  BY <2>1, <2>3, <2>5, <3>1, <3>3, <3>4, PathOrder
  <2>7. PICK a \in Children(t, p) : ~OnPathTo(a, n)
    BY <2>5, <2>6, Zenon
  <2>8. a \in X
    BY <1>5, Zenon DEF isLeaf, Children
  <2>. QED  BY <1>3, <2>7, <2>8, Zenon
<1>. QED  BY <1>1, <1>2, <1>3, <1>5, <1>6, <1>7, Zenon

(* Insert adds the nodes on the way to u and sets the pool of u. *)
LEMMA InsertFacts ==
  ASSUME Tree(trie), NoDeadLeafIn(trie), NEW u \in Path, NEW pl \in Pool
  PROVE  /\ Tree(Insert(u, pl)) /\ NoDeadLeafIn(Insert(u, pl))
         /\ DOMAIN trie \subseteq DOMAIN Insert(u, pl)
         /\ u \in DOMAIN Insert(u, pl)
         /\ \A p \in DOMAIN Insert(u, pl) :
              Insert(u, pl)[p] = IF p = u THEN pl ELSE IF p \in DOMAIN trie THEN trie[p] ELSE nil
<1> DEFINE t == Insert(u, pl)
<1>1. /\ DOMAIN t = DOMAIN trie \cup {p \in Path : OnPathTo(p, u)}
      /\ \A p \in DOMAIN t : t[p] = IF p = u THEN pl ELSE IF p \in DOMAIN trie THEN trie[p] ELSE nil
  BY PrefixesAbove, Zenon DEF Insert
<1> HIDE DEF t
<1>2. Tree(t)
  BY <1>1, PathTransitive, Zenon DEF Tree
<1>3. u \in DOMAIN t
  BY <1>1, PathOrder, Zenon
<1>4. NoDeadLeafIn(t)
  <2>. SUFFICES ASSUME NEW p \in DOMAIN t, p # Root, isLeaf(t, p), t[p] = nil
                PROVE  FALSE
    BY Zenon DEF NoDeadLeafIn
  <2>1. p # u
    BY <1>1, PoolAssumption, Zenon
  <2>2. CASE OnPathTo(p, u)
    <3>1. p \in Path
      BY <1>2, Zenon DEF Tree
    <3>2. PICK c \in Path : OnPathTo(p, c) /\ OnPathTo(c, u) /\ Len(c) = Len(p) + 1
      BY <2>1, <2>2, <3>1, NextOnPath, Zenon
    <3>. QED  BY <1>1, <3>2, Zenon DEF isLeaf, Children
  <2>3. CASE ~OnPathTo(p, u)
    <3>1. p \in DOMAIN trie /\ trie[p] = nil
      BY <1>1, <2>1, <2>3, Zenon
    <3>2. isLeaf(trie, p)
      BY <1>1, Zenon DEF isLeaf, Children
    <3>. QED  BY <3>1, <3>2, Zenon DEF NoDeadLeafIn
  <2>. QED  BY <2>2, <2>3, Zenon
<1>. QED  BY <1>1, <1>2, <1>3, <1>4, Zenon DEF t

-----------------------------------------------------------------------------
(* The inductive invariant.  A pruning walk is never at or below a node it
   still has to visit, and has nothing to visit once the lock is free. *)

WalkInv ==
  /\ \A m \in prune.todo : ~OnPathTo(m, prune.cursor)
  /\ LockFree => prune.todo = {}

Inv ==
  /\ TypeOK
  /\ Tree(trie)
  /\ NoDeadLeafIn(trie)
  /\ PoolsInPlace
  /\ DetachedPoolsEmpty
  /\ WalkStaysInTrie
  /\ WalkInv

(* The invariant has the shape of the trie. *)
LEMMA InvImpliesTrieConsistent ==
  ASSUME Inv
  PROVE  TrieConsistent
<1>1. Connected
  <2>. SUFFICES ASSUME NEW p \in DOMAIN trie
                PROVE  Prefixes(p) \subseteq DOMAIN trie
    BY Zenon DEF Inv, Tree, Connected
  <2>. QED  BY PrefixesAbove, Zenon DEF Inv, Tree
<1>. QED  BY <1>1, Zenon DEF Inv, TrieConsistent, NoDeadLeaves, NoDeadLeafIn

(* In a tree the walk of Find gets to every node. *)
LEMMA FindFacts ==
  ASSUME Tree(trie), NEW u \in Path
  PROVE  Find(u) = IF u \in DOMAIN trie THEN trie[u] ELSE nil
<1>1. u \in DOMAIN trie => u \in Reached(u)
  BY PrefixesAbove, PathOrder DEF Reached, Tree
<1>2. u \in Reached(u) => u \in DOMAIN trie
  BY Zenon DEF Reached
<1>. QED  BY <1>1, <1>2, Zenon DEF Find

PoolRecord == [member : [Endpoint -> Age \cup {nil}], contextPath : Path]

(* A pool with other members is a pool for the same context path. *)
LEMMA HoldingType ==
  ASSUME NEW pl \in PoolRecord, NEW m \in [Endpoint -> Age \cup {nil}]
  PROVE  /\ Holding(pl, m) \in PoolRecord
         /\ Holding(pl, m).member = m
         /\ Holding(pl, m).contextPath = pl.contextPath
BY Zenon DEF PoolRecord, Holding

(* What the operations on a pool do to its endpoints. *)
LEMMA PoolFacts ==
  ASSUME NEW pl \in PoolRecord, NEW ep \in Endpoint
  PROVE  /\ Put(pl, ep) \in PoolRecord
         /\ Put(pl, ep).member = [pl.member EXCEPT ![ep] = 0]
         /\ Put(pl, ep).contextPath = pl.contextPath
         /\ Remove(pl, ep) \in PoolRecord
         /\ Remove(pl, ep).member = [pl.member EXCEPT ![ep] = nil]
         /\ Remove(pl, ep).contextPath = pl.contextPath
<1>1. pl.member \in [Endpoint -> Age \cup {nil}] /\ 0 \in Age
  BY ThresholdAssumption DEF PoolRecord, Age
<1>2. /\ [pl.member EXCEPT ![ep] = 0] \in [Endpoint -> Age \cup {nil}]
      /\ [pl.member EXCEPT ![ep] = nil] \in [Endpoint -> Age \cup {nil}]
  BY <1>1, Zenon
<1>. QED  BY <1>2, HoldingType, Zenon DEF Put, Remove

(* A pruned pool loses its stale members, and nothing else. *)
LEMMA PrunedFacts ==
  ASSUME NEW pl \in PoolRecord
  PROVE  /\ Pruned(pl) \in PoolRecord
         /\ Pruned(pl).contextPath = pl.contextPath
         /\ Pruned(pl).member = [ep \in Endpoint |->
               IF pl.member[ep] # nil /\ pl.member[ep] > StaleAfter[ep]
                 THEN nil ELSE pl.member[ep]]
<1> DEFINE m == [ep \in Endpoint |->
      IF pl.member[ep] # nil /\ pl.member[ep] > StaleAfter[ep] THEN nil ELSE pl.member[ep]]
<1>1. pl.member \in [Endpoint -> Age \cup {nil}]
  BY Zenon DEF PoolRecord
<1>2. m \in [Endpoint -> Age \cup {nil}]
  BY <1>1, Zenon
<1>3. Pruned(pl) = Holding(pl, m)
  BY Zenon DEF Pruned
<1> HIDE DEF m
<1>4. Pruned(pl) \in PoolRecord /\ Pruned(pl).contextPath = pl.contextPath /\ Pruned(pl).member = m
  BY <1>2, <1>3, HoldingType
<1>. QED  BY <1>4, Zenon DEF m

(* The empty trie satisfies the invariant. *)
LEMMA InitInv ==
  ASSUME Init
  PROVE  Inv
<1>1. NoMember \in [Endpoint -> Age \cup {nil}] /\ Root \in Path
  BY DEF NoMember, Path, Root
<1>2. TypeOK
  BY <1>1, Zenon DEF Init, TypeOK, NewPool, NotPruning
<1>3. Tree(trie)
  <2>1. ASSUME NEW q \in Path, OnPathTo(q, Root)
        PROVE  q = Root
    BY <1>1, <2>1, PathOrder
  <2>. QED  BY <1>1, <2>1, Zenon DEF Init, Tree
<1>4. NoDeadLeafIn(trie) /\ PoolsInPlace
  BY Zenon DEF Init, NoDeadLeafIn, PoolsInPlace
<1>5. DetachedPoolsEmpty
  BY Zenon DEF Init, DetachedPoolsEmpty, IsEmpty, NewPool, NoMember
<1>6. WalkStaysInTrie /\ WalkInv
  BY Zenon DEF Init, WalkStaysInTrie, WalkInv, NotPruning
<1>. QED  BY <1>2, <1>3, <1>4, <1>5, <1>6, Zenon DEF Inv

(* Registering at a node with a pool touches that pool only. *)
LEMMA RegisterKnownInv ==
  ASSUME Inv, NEW u \in Uri, NEW ep \in Endpoint, RegisterKnown(u, ep)
  PROVE  /\ Inv'
         /\ u \in DOMAIN trie /\ trie[u] \in Pool /\ trie' = trie
         /\ pool' = [pool EXCEPT ![trie[u]] = Put(pool[trie[u]], ep)]
<1>1. u \in Path /\ Find(u) # nil
  BY UriAssumption, Zenon DEF RegisterKnown
<1>2. u \in DOMAIN trie /\ trie[u] \in Pool /\ Find(u) = trie[u]
  BY <1>1, FindFacts, Zenon DEF Inv, TypeOK
<1>3. pool \in [Pool -> PoolRecord]
  BY Zenon DEF Inv, TypeOK, PoolRecord
<1>4. pool' = [pool EXCEPT ![trie[u]] = Put(pool[trie[u]], ep)]
  BY <1>2, Zenon DEF RegisterKnown
<1>5. /\ Put(pool[trie[u]], ep) \in PoolRecord
      /\ Put(pool[trie[u]], ep).contextPath = pool[trie[u]].contextPath
  BY <1>2, <1>3, PoolFacts, ZenonT(30)
<1>6. pool' \in [Pool -> PoolRecord] /\ \A pl \in Pool : pl # trie[u] => pool'[pl] = pool[pl]
  BY <1>2, <1>3, <1>4, <1>5, Zenon
<1>7. UNCHANGED <<trie, req, ticker, prune>>
  BY Zenon DEF RegisterKnown
<1>8. TypeOK'
  BY <1>6, <1>7, Zenon DEF Inv, TypeOK, PoolRecord
<1>9. PoolsInPlace'
  <2>1. \A pl \in Pool : pool'[pl].contextPath = pool[pl].contextPath
    BY <1>2, <1>3, <1>4, <1>5, <1>6, Zenon
  <2>. QED  BY <1>7, <2>1, Zenon DEF Inv, TypeOK, PoolsInPlace
<1>10. DetachedPoolsEmpty'
  BY <1>2, <1>6, <1>7 DEF Inv, DetachedPoolsEmpty, IsEmpty
<1>11. WalkStaysInTrie' /\ WalkInv'
  BY <1>7, Zenon DEF Inv, WalkStaysInTrie, WalkInv, LockFree
<1>. QED  BY <1>2, <1>4, <1>7, <1>8, <1>9, <1>10, <1>11, Zenon DEF Inv

(* Registering a new uri puts a fresh pool at its node. *)
LEMMA RegisterNewInv ==
  ASSUME Inv, NEW u \in Uri, NEW ep \in Endpoint, RegisterNew(u, ep)
  PROVE  /\ Inv'
         /\ u \in DOMAIN trie => trie[u] = nil
         /\ \E pl \in Pool : /\ Fresh(pl) /\ trie' = Insert(u, pl)
                             /\ pool' = [pool EXCEPT ![pl] = Put(NewPool(Tail(u)), ep)]
<1>1. u \in Path /\ u # Root /\ Find(u) = nil
  BY UriAssumption, Zenon DEF RegisterNew
<1>2. u \in DOMAIN trie => trie[u] = nil
  BY <1>1, FindFacts, Zenon DEF Inv
<1>3. pool \in [Pool -> PoolRecord]
  BY Zenon DEF Inv, TypeOK, PoolRecord
<1>4. PICK pl \in Pool : /\ Fresh(pl) /\ trie' = Insert(u, pl)
                         /\ pool' = [pool EXCEPT ![pl] = Put(NewPool(Tail(u)), ep)]
  BY ZenonT(30) DEF RegisterNew
<1>5. NewPool(Tail(u)) \in PoolRecord /\ NewPool(Tail(u)).contextPath = Tail(u)
  <2>1. Tail(u) \in Path
    BY <1>1 DEF Path, Root
  <2>. QED  BY <2>1, Zenon DEF NewPool, PoolRecord, NoMember
<1>6. /\ Put(NewPool(Tail(u)), ep) \in PoolRecord
      /\ Put(NewPool(Tail(u)), ep).contextPath = Tail(u)
  BY <1>5, PoolFacts, ZenonT(30)
<1>7. /\ pool' \in [Pool -> PoolRecord]
      /\ pool'[pl].contextPath = Tail(u)
      /\ \A x \in Pool : x # pl => pool'[x] = pool[x]
  BY <1>3, <1>4, <1>6, Zenon
<1>8. UNCHANGED <<req, ticker, prune>>
  BY Zenon DEF RegisterNew
<1>9. /\ Tree(trie') /\ NoDeadLeafIn(trie')
      /\ DOMAIN trie \subseteq DOMAIN trie' /\ u \in DOMAIN trie'
      /\ \A p \in DOMAIN trie' :
           trie'[p] = IF p = u THEN pl ELSE IF p \in DOMAIN trie THEN trie[p] ELSE nil
  BY <1>1, <1>4, InsertFacts DEF Inv
<1>10. TypeOK'
  <2>1. \A p \in DOMAIN trie' : p \in Path /\ trie'[p] \in Pool \cup {nil}
    BY <1>9, Zenon DEF Tree, Inv, TypeOK
  <2>. QED  BY <1>7, <1>8, <2>1, Zenon DEF Inv, TypeOK, PoolRecord
<1>11. PoolsInPlace'
  <2>1. \A p \in DOMAIN trie : trie[p] # pl
    BY <1>4, Zenon DEF Fresh
  <2>2. \A p, q \in DOMAIN trie' : trie'[p] # nil /\ trie'[p] = trie'[q] => p = q
    BY <1>9, <2>1, Zenon DEF Inv, PoolsInPlace
  <2>3. ASSUME NEW p \in DOMAIN trie', trie'[p] # nil
        PROVE  p # Root /\ pool'[trie'[p]].contextPath = Tail(p)
    <3>1. CASE p = u
      BY <1>1, <1>7, <1>9, <3>1, Zenon
    <3>2. CASE p # u
      <4>1. p \in DOMAIN trie /\ trie'[p] = trie[p] /\ trie[p] # pl /\ trie[p] \in Pool
        BY <1>9, <2>1, <2>3, <3>2, Zenon DEF Inv, TypeOK
      <4>2. pool'[trie'[p]] = pool[trie[p]]
        BY <1>7, <4>1, Zenon
      <4>. QED  BY <2>3, <4>1, <4>2, Zenon DEF Inv, PoolsInPlace
    <3>. QED  BY <3>1, <3>2, Zenon
  <2>. QED  BY <2>2, <2>3, Zenon DEF PoolsInPlace
<1>12. DetachedPoolsEmpty'
  <2>. SUFFICES ASSUME NEW x \in Pool, \A p \in DOMAIN trie' : trie'[p] # x
                PROVE  \A e \in Endpoint : pool'[x].member[e] = nil
    BY Zenon DEF DetachedPoolsEmpty, IsEmpty
  <2>1. x # pl /\ \A p \in DOMAIN trie : trie[p] # x
    BY <1>2, <1>9, PoolAssumption, Zenon
  <2>. QED  BY <1>7, <2>1 DEF Inv, DetachedPoolsEmpty, IsEmpty
<1>13. WalkStaysInTrie' /\ WalkInv'
  BY <1>8, <1>9, Zenon DEF Inv, WalkStaysInTrie, WalkInv, LockFree
<1>. QED  BY <1>2, <1>4, <1>9, <1>10, <1>11, <1>12, <1>13, ZenonT(30) DEF Inv

(* Unregistering empties the pool before its node loses it. *)
LEMMA UnregisterInv ==
  ASSUME Inv, NEW u \in Uri, NEW ep \in Endpoint, Unregister(u, ep)
  PROVE  /\ Inv'
         /\ u \in DOMAIN trie /\ trie[u] \in Pool
         /\ pool' = [pool EXCEPT ![trie[u]] = Remove(pool[trie[u]], ep)]
         /\ \A p \in DOMAIN trie' : p \in DOMAIN trie
         /\ \A p \in DOMAIN trie' : p # u => trie'[p] = trie[p]
         /\ \A p \in DOMAIN trie \ DOMAIN trie' : p # u => trie[p] = nil
         /\ u \in DOMAIN trie' /\ trie'[u] # nil => trie'[u] = trie[u]
         /\ u \notin DOMAIN trie' \/ trie'[u] = nil => IsEmpty(pool', trie[u])
<1>1. u \in Path /\ u # Root /\ Find(u) # nil
  BY UriAssumption, Zenon DEF Unregister
<1>2. u \in DOMAIN trie /\ trie[u] \in Pool /\ Find(u) = trie[u]
  BY <1>1, FindFacts, Zenon DEF Inv, TypeOK
<1>3. pool \in [Pool -> PoolRecord]
  BY Zenon DEF Inv, TypeOK, PoolRecord
<1>4. /\ pool' = [pool EXCEPT ![trie[u]] = Remove(pool[trie[u]], ep)]
      /\ trie' = IF IsEmpty(pool', trie[u]) THEN Delete(trie, u) ELSE trie
      /\ UNCHANGED <<req, ticker, prune>>
      /\ LockFree
  BY <1>2, Zenon DEF Unregister
<1>5. /\ Remove(pool[trie[u]], ep) \in PoolRecord
      /\ Remove(pool[trie[u]], ep).contextPath = pool[trie[u]].contextPath
  BY <1>2, <1>3, PoolFacts, ZenonT(30)
<1>6. /\ pool' \in [Pool -> PoolRecord]
      /\ \A pl \in Pool : pl # trie[u] => pool'[pl] = pool[pl]
      /\ \A pl \in Pool : pool'[pl].contextPath = pool[pl].contextPath
  BY <1>2, <1>3, <1>4, <1>5, Zenon
<1>7. /\ Tree(trie') /\ NoDeadLeafIn(trie')
      /\ \A p \in DOMAIN trie' : p \in DOMAIN trie
      /\ \A p \in DOMAIN trie' : p # u => trie'[p] = trie[p]
      /\ \A p \in DOMAIN trie \ DOMAIN trie' : p # u => trie[p] = nil
      /\ u \in DOMAIN trie' /\ trie'[u] # nil => trie'[u] = trie[u]
      /\ u \notin DOMAIN trie' \/ trie'[u] = nil => IsEmpty(pool', trie[u])
  <2>1. CASE IsEmpty(pool', trie[u])
    <3>1. trie' = Delete(trie, u)
      BY <1>4, <2>1, Zenon
    <3>2. Tree(trie) /\ NoDeadLeafIn(trie)
      BY Zenon DEF Inv
    <3>3. /\ Tree(trie') /\ NoDeadLeafIn(trie')
          /\ DOMAIN trie' \subseteq DOMAIN trie
          /\ \A p \in DOMAIN trie' : trie'[p] = IF p = u THEN nil ELSE trie[p]
          /\ \A p \in DOMAIN trie \ DOMAIN trie' : p = u \/ trie[p] = nil
      BY <1>1, <1>2, <3>1, <3>2, DeleteFacts
    <3>. QED  BY <2>1, <3>3, Zenon
  <2>2. CASE ~IsEmpty(pool', trie[u])
    <3>1. trie' = trie
      BY <1>4, <2>2, Zenon
    <3>2. trie[u] # nil
      BY <1>2, PoolAssumption, Zenon
    <3>. QED  BY <1>2, <3>1, <3>2, Zenon DEF Inv
  <2>. QED  BY <2>1, <2>2, Zenon
<1>8. \A p \in DOMAIN trie' : p \in DOMAIN trie /\ (trie'[p] # nil => trie'[p] = trie[p])
  BY <1>7, Zenon
<1>9. TypeOK'
  <2>1. \A p \in DOMAIN trie' : p \in Path /\ trie'[p] \in Pool \cup {nil}
    BY <1>8, Zenon DEF Inv, TypeOK
  <2>. QED  BY <1>4, <1>6, <2>1, ZenonT(30) DEF Inv, TypeOK, PoolRecord
<1>10. PoolsInPlace'
  <2>1. \A p, q \in DOMAIN trie' : trie'[p] # nil /\ trie'[p] = trie'[q] => p = q
    BY <1>8, Zenon DEF Inv, PoolsInPlace
  <2>2. ASSUME NEW p \in DOMAIN trie', trie'[p] # nil
        PROVE  p # Root /\ pool'[trie'[p]].contextPath = Tail(p)
    <3>1. p \in DOMAIN trie /\ trie'[p] = trie[p] /\ trie[p] \in Pool
      BY <1>8, <2>2, Zenon DEF Inv, TypeOK
    <3>. QED  BY <1>6, <2>2, <3>1, Zenon DEF Inv, PoolsInPlace
  <2>. QED  BY <2>1, <2>2, Zenon DEF PoolsInPlace
<1>11. DetachedPoolsEmpty'
  <2>. SUFFICES ASSUME NEW x \in Pool, \A p \in DOMAIN trie' : trie'[p] # x
                PROVE  IsEmpty(pool', x)
    BY Zenon DEF DetachedPoolsEmpty
  <2>1. CASE x = trie[u]
    BY <1>7, <2>1, Zenon
  <2>2. CASE x # trie[u]
    <3>1. \A p \in DOMAIN trie : trie[p] # x
      BY <1>7, <2>2, PoolAssumption, Zenon
    <3>. QED  BY <1>6, <2>2, <3>1 DEF Inv, DetachedPoolsEmpty, IsEmpty
  <2>. QED  BY <2>1, <2>2, Zenon
<1>12. WalkStaysInTrie' /\ WalkInv'
  BY <1>4, Zenon DEF Inv, WalkStaysInTrie, WalkInv, LockFree
<1>. QED  BY <1>2, <1>4, <1>7, <1>9, <1>10, <1>11, <1>12, ZenonT(30) DEF Inv

(* A visit prunes the pool of the node and snips only what is behind the walk. *)
LEMMA PruneNodeInv ==
  ASSUME Inv, NEW n \in prune.todo, PruneNode(n)
  PROVE  /\ Inv'
         /\ n \in DOMAIN trie
         /\ \/ trie[n] = nil /\ UNCHANGED <<trie, pool>>
            \/ /\ trie[n] \in Pool
               /\ pool' = [pool EXCEPT ![trie[n]] = Pruned(pool[trie[n]])]
               /\ \A p \in DOMAIN trie' : p \in DOMAIN trie /\ trie'[p] = trie[p]
               /\ \A p \in DOMAIN trie \ DOMAIN trie' :
                    trie[p] = nil \/ IsEmpty(pool', trie[p])
<1>1. /\ n \in DOMAIN trie /\ n \in Path /\ n \in NextToVisit /\ prune.active
      /\ \A m \in prune.todo : m \in Path
      /\ prune.cursor \in Path
  BY Zenon DEF Inv, TypeOK, WalkStaysInTrie, PruneNode
<1>2. prune' = [active |-> TRUE, cursor |-> n, todo |-> prune.todo \ {n}] /\ UNCHANGED <<req, ticker>>
  BY Zenon DEF PruneNode
<1>3. WalkInv'
  <2>. SUFFICES ASSUME NEW m \in prune.todo, m # n, OnPathTo(m, n)
                PROVE  FALSE
    BY <1>2, Zenon DEF WalkInv, LockFree
  <2>1. Len(m) \in Nat /\ Len(n) \in Nat /\ Len(m) <= Len(n) /\ Len(m) # Len(n)
    BY <1>1, PathOrder, Zenon
  <2>2. ParentOnPathTo(n, prune.cursor)
    BY <1>1, Zenon DEF NextToVisit
  <2>3. OnPathTo(m, prune.cursor)
    <3>1. Len(prune.cursor) \in Nat
      BY <1>1, PathOrder, Zenon
    <3>. QED  BY <2>1, <2>2, <3>1 DEF ParentOnPathTo, OnPathTo
  <2>. QED  BY <2>3, Zenon DEF Inv, WalkInv
<1>4. CASE trie[n] = nil
  <2>1. UNCHANGED <<trie, pool>>
    BY <1>4, Zenon DEF PruneNode
  <2>2. TypeOK'
    BY <1>1, <1>2, <2>1, Zenon DEF Inv, TypeOK
  <2>3. PoolsInPlace' /\ DetachedPoolsEmpty' /\ WalkStaysInTrie'
    BY <1>2, <2>1, Zenon DEF Inv, PoolsInPlace, DetachedPoolsEmpty, IsEmpty, WalkStaysInTrie
  <2>. QED  BY <1>1, <1>3, <1>4, <2>1, <2>2, <2>3, Zenon DEF Inv
<1>5. CASE trie[n] # nil
  <2>1. trie[n] \in Pool
    BY <1>1, <1>5, Zenon DEF Inv, TypeOK
  <2>2. pool \in [Pool -> PoolRecord]
    BY Zenon DEF Inv, TypeOK, PoolRecord
  <2>3. /\ pool' = [pool EXCEPT ![trie[n]] = Pruned(pool[trie[n]])]
        /\ trie' = Snip(trie, pool', n)
    BY <1>5, Zenon DEF PruneNode
  <2>4. /\ Pruned(pool[trie[n]]) \in PoolRecord
        /\ Pruned(pool[trie[n]]).contextPath = pool[trie[n]].contextPath
    BY <2>1, <2>2, PrunedFacts, ZenonT(30)
  <2>5. /\ pool' \in [Pool -> PoolRecord]
        /\ \A pl \in Pool : pl # trie[n] => pool'[pl] = pool[pl]
        /\ \A pl \in Pool : pool'[pl].contextPath = pool[pl].contextPath
    BY <2>1, <2>2, <2>3, <2>4, Zenon
  <2>6. /\ Tree(trie') /\ NoDeadLeafIn(trie')
        /\ \A p \in DOMAIN trie' : p \in DOMAIN trie /\ trie'[p] = trie[p]
        /\ \A p \in DOMAIN trie \ DOMAIN trie' :
             OnPathTo(p, n) /\ (trie[p] = nil \/ IsEmpty(pool', trie[p]))
    <3>1. Tree(trie) /\ NoDeadLeafIn(trie)
      BY Zenon DEF Inv
    <3>2. LET s == Snip(trie, pool', n) IN
          /\ Tree(s) /\ NoDeadLeafIn(s)
          /\ DOMAIN s \subseteq DOMAIN trie
          /\ \A p \in DOMAIN s : s[p] = trie[p]
          /\ \A p \in DOMAIN trie \ DOMAIN s :
               OnPathTo(p, n) /\ (trie[p] = nil \/ IsEmpty(pool', trie[p]))
      BY <1>1, <3>1, SnipFacts, Zenon
    <3>. QED  BY <2>3, <3>2, ZenonT(30)
  <2>7. TypeOK'
    <3>1. \A p \in DOMAIN trie' : p \in Path /\ trie'[p] \in Pool \cup {nil}
      BY <2>6, Zenon DEF Inv, TypeOK
    <3>. QED  BY <1>1, <1>2, <2>5, <3>1, ZenonT(30) DEF Inv, TypeOK, PoolRecord
  <2>8. PoolsInPlace'
    <3>1. \A p, q \in DOMAIN trie' : trie'[p] # nil /\ trie'[p] = trie'[q] => p = q
      BY <2>6, Zenon DEF Inv, PoolsInPlace
    <3>2. ASSUME NEW p \in DOMAIN trie', trie'[p] # nil
          PROVE  p # Root /\ pool'[trie'[p]].contextPath = Tail(p)
      <4>1. p \in DOMAIN trie /\ trie'[p] = trie[p] /\ trie[p] \in Pool
        BY <2>6, <3>2, Zenon DEF Inv, TypeOK
      <4>. QED  BY <2>5, <3>2, <4>1, Zenon DEF Inv, PoolsInPlace
    <3>. QED  BY <3>1, <3>2, Zenon DEF PoolsInPlace
  <2>9. DetachedPoolsEmpty'
    <3>. SUFFICES ASSUME NEW x \in Pool, \A p \in DOMAIN trie' : trie'[p] # x
                  PROVE  IsEmpty(pool', x)
      BY Zenon DEF DetachedPoolsEmpty
    <3>1. CASE \E p \in DOMAIN trie : trie[p] = x
      BY <2>6, <3>1, PoolAssumption, Zenon
    <3>2. CASE \A p \in DOMAIN trie : trie[p] # x
      <4>1. x # trie[n]
        BY <1>1, <3>2, Zenon
      <4>. QED  BY <2>5, <3>2, <4>1, SMTT(30) DEF Inv, DetachedPoolsEmpty, IsEmpty
    <3>. QED  BY <3>1, <3>2, Zenon
  <2>10. WalkStaysInTrie'
    <3>1. \A m \in prune'.todo : ~OnPathTo(m, n) /\ m \in DOMAIN trie
      BY <1>2, <1>3, Zenon DEF Inv, WalkInv, WalkStaysInTrie
    <3>. QED  BY <2>6, <3>1, Zenon DEF WalkStaysInTrie
  <2>. QED  BY <1>1, <1>3, <2>1, <2>3, <2>6, <2>7, <2>8, <2>9, <2>10, ZenonT(30) DEF Inv
<1>. QED  BY <1>4, <1>5, Zenon

(* So does one whose registrations grow older, ... *)
LEMMA TickInv ==
  ASSUME Inv, Tick
  PROVE  Inv'
<1>1. pool \in [Pool -> PoolRecord] /\ UNCHANGED <<trie, req, ticker, prune>>
  BY Zenon DEF Inv, TypeOK, PoolRecord, Tick
<1>2. \A age \in Age \cup {nil} : Older(age) \in Age \cup {nil} /\ (age = nil => Older(age) = nil)
  BY ThresholdAssumption, PoolAssumption DEF Older, Age
<1>3. ASSUME NEW pl \in Pool
      PROVE  /\ pool'[pl] \in PoolRecord
             /\ pool'[pl].contextPath = pool[pl].contextPath
             /\ \A ep \in Endpoint : pool[pl].member[ep] = nil => pool'[pl].member[ep] = nil
  <2> DEFINE m == [ep \in Endpoint |-> Older(pool[pl].member[ep])]
  <2>1. pool[pl] \in PoolRecord /\ pool[pl].member \in [Endpoint -> Age \cup {nil}]
    BY <1>1, Zenon DEF PoolRecord
  <2>2. m \in [Endpoint -> Age \cup {nil}]
    BY <1>2, <2>1, Zenon
  <2>3. pool'[pl] = Holding(pool[pl], m)
    BY Zenon DEF Tick
  <2>4. \A ep \in Endpoint : pool[pl].member[ep] = nil => m[ep] = nil
    BY <1>2, <2>1, Zenon
  <2> HIDE DEF m
  <2>. QED  BY <2>1, <2>2, <2>3, <2>4, HoldingType
<1>4. pool' \in [Pool -> PoolRecord]
  BY <1>3, Zenon DEF Tick
<1>5. TypeOK'
  BY <1>1, <1>4, Zenon DEF Inv, TypeOK, PoolRecord
<1>6. PoolsInPlace' /\ DetachedPoolsEmpty'
  BY <1>1, <1>3, Zenon DEF Inv, TypeOK, PoolsInPlace, DetachedPoolsEmpty, IsEmpty
<1>7. WalkStaysInTrie' /\ WalkInv'
  BY <1>1, Zenon DEF Inv, WalkStaysInTrie, WalkInv, LockFree
<1>. QED  BY <1>1, <1>5, <1>6, <1>7, Zenon DEF Inv

(* A match is a pool or nothing. *)
LEMMA MatchUriType ==
  ASSUME TypeOK, NEW u
  PROVE  MatchUri(u) \in Pool \cup {nil}
<1> DEFINE withPool == {p \in Reached(u) : trie[p] # nil}
           deepest  == {p \in withPool : \A q \in withPool : Len(q) <= Len(p)}
<1>1. MatchUri(u) = IF deepest = {} THEN nil ELSE trie[CHOOSE p \in deepest : TRUE]
  BY Zenon DEF MatchUri
<1>2. deepest # {} => (CHOOSE p \in deepest : TRUE) \in DOMAIN trie
  BY Zenon DEF Reached
<1> HIDE DEF deepest
<1>. QED  BY <1>1, <1>2, Zenon DEF TypeOK

(* So is what a lookup finds. *)
LEMMA LookupPoolType ==
  ASSUME TypeOK, NEW u \in Uri
  PROVE  LookupPool(u) \in Pool \cup {nil}
<1> DEFINE hits  == {k \in 0 .. MaxLabels : MatchUri(Tried(u)[k]) # nil}
           first == {k \in hits : \A m \in hits : k <= m}
           k0    == CHOOSE k \in first : TRUE
<1>1. LookupPool(u) = IF first = {} THEN nil ELSE MatchUri(Tried(u)[k0])
  BY Zenon DEF LookupPool
<1>2. MatchUri(Tried(u)[k0]) \in Pool \cup {nil}
  <2> HIDE DEF k0
  <2>. QED  BY MatchUriType, Zenon
<1> HIDE DEF first, k0
<1>. QED  BY <1>1, <1>2, Zenon

(* The steps that leave the trie and the pools alone. *)
LEMMA QuietInv ==
  ASSUME Inv, UNCHANGED <<trie, pool>>, TypeOK', WalkStaysInTrie', WalkInv'
  PROVE  Inv'
BY Zenon DEF Inv, PoolsInPlace, DetachedPoolsEmpty, IsEmpty

(* Lookups keep the invariant, ... *)
LEMMA LookupInv ==
  ASSUME Inv, NEW r \in Request, NEW u \in Uri, Lookup(r, u)
  PROVE  Inv'
<1>1. LookupPool(u) \in Pool \cup {nil} /\ req \in [Request -> Pool \cup {nil}]
  BY LookupPoolType, Zenon DEF Inv, TypeOK
<1>2. req' \in [Request -> Pool \cup {nil}] /\ UNCHANGED <<trie, pool, ticker, prune>>
  BY <1>1, Zenon DEF Lookup
<1>3. TypeOK' /\ WalkStaysInTrie' /\ WalkInv'
  BY <1>2, ZenonT(30) DEF Inv, TypeOK, WalkStaysInTrie, WalkInv, LockFree
<1>. QED  BY <1>2, <1>3, QuietInv, Zenon

(* ... and so does what leaves trie and pools alone. *)
LEMMA OtherInv ==
  ASSUME Inv,
         \/ \E r \in Request : Finish(r)
         \/ StartPruningCycle \/ StopPruningCycle \/ TickerFires
         \/ PruneStart \/ PruneEnd
         \/ UNCHANGED vars
  PROVE  Inv' /\ UNCHANGED <<trie, pool>>
<1>1. CASE \E r \in Request : Finish(r)
  <2>1. UNCHANGED <<trie, pool, ticker, prune>> /\ req' \in [Request -> Pool \cup {nil}]
    BY <1>1, Zenon DEF Inv, TypeOK, Finish
  <2>2. TypeOK' /\ WalkStaysInTrie' /\ WalkInv'
    BY <2>1, Zenon DEF Inv, TypeOK, WalkStaysInTrie, WalkInv, LockFree
  <2>. QED  BY <2>1, <2>2, QuietInv, Zenon
<1>2. CASE StartPruningCycle \/ StopPruningCycle \/ TickerFires
  <2>1. UNCHANGED <<trie, pool, req, prune>>
    BY <1>2, Zenon DEF StartPruningCycle, StopPruningCycle, TickerFires
  <2>2. ticker'.state \in {"none", "running", "stopped"} /\ ticker'.fired \in BOOLEAN
    <3>1. CASE StartPruningCycle
      <4>1. ticker'.state = "running" /\ ticker'.fired = ticker.fired
        BY <3>1, Zenon DEF StartPruningCycle
      <4>. QED  BY <4>1, Zenon DEF Inv, TypeOK
    <3>2. CASE StopPruningCycle
      <4>1. ticker'.state = "stopped" /\ ticker'.fired = ticker.fired
        BY <3>2, Zenon DEF StopPruningCycle
      <4>. QED  BY <4>1, Zenon DEF Inv, TypeOK
    <3>3. CASE TickerFires
      <4>1. ticker'.state = ticker.state /\ ticker'.fired = TRUE
        BY <3>3, Zenon DEF TickerFires
      <4>. QED  BY <4>1, ZenonT(30) DEF Inv, TypeOK
    <3>. QED  BY <1>2, <3>1, <3>2, <3>3, Zenon
  <2>3. TypeOK' /\ WalkStaysInTrie' /\ WalkInv'
    BY <2>1, <2>2, Zenon DEF Inv, TypeOK, WalkStaysInTrie, WalkInv, LockFree
  <2>. QED  BY <2>1, <2>3, QuietInv, Zenon
<1>3. CASE PruneStart
  <2>1. /\ UNCHANGED <<trie, pool, req>>
        /\ prune' = [active |-> TRUE, cursor |-> Root, todo |-> DOMAIN trie \ {Root}]
        /\ ticker' = [state |-> ticker.state, fired |-> FALSE]
    BY <1>3, Zenon DEF PruneStart
  <2>2. /\ \A p \in DOMAIN trie : p \in Path
        /\ Root \in Path
    BY Zenon  DEF Inv, Tree
  <2>3. TypeOK'
    BY <2>1, <2>2, Zenon DEF Inv, TypeOK
  <2>4. WalkStaysInTrie'
    BY <2>1, Zenon DEF WalkStaysInTrie
  <2>5. WalkInv'
    <3>1. ASSUME NEW m \in DOMAIN trie, m # Root, OnPathTo(m, Root)
          PROVE  FALSE
      BY <2>2, <3>1, PathOrder
    <3>. QED  BY <2>1, <3>1, Zenon DEF WalkInv, LockFree
  <2>. QED  BY <2>1, <2>3, <2>4, <2>5, QuietInv, Zenon
<1>4. CASE PruneEnd
  <2>1. UNCHANGED <<trie, pool, req, ticker>> /\ prune' = NotPruning
    BY <1>4, Zenon DEF PruneEnd
  <2>2. Root \in Path
    BY Zenon  DEF Inv, Tree
  <2>3. TypeOK' /\ WalkStaysInTrie' /\ WalkInv'
    BY <2>1, <2>2, ZenonT(30) DEF Inv, TypeOK, WalkStaysInTrie, WalkInv, LockFree, NotPruning
  <2>. QED  BY <2>1, <2>3, QuietInv, Zenon
<1>5. CASE UNCHANGED vars
  <2>1. UNCHANGED <<trie, pool, req, ticker, prune>>
    BY <1>5, Zenon DEF vars
  <2>2. TypeOK' /\ WalkStaysInTrie' /\ WalkInv'
    BY <2>1, Zenon DEF Inv, TypeOK, WalkStaysInTrie, WalkInv, LockFree
  <2>. QED  BY <2>1, <2>2, QuietInv, Zenon
<1>. QED  BY <1>1, <1>2, <1>3, <1>4, <1>5, Zenon

(* Every step of the registry keeps the invariant. *)
LEMMA NextInv ==
  ASSUME Inv, [Next]_vars
  PROVE  Inv'
<1>1. ASSUME NEW u \in Uri, NEW ep \in Endpoint, Register(u, ep) \/ Unregister(u, ep)
      PROVE  Inv'
  BY <1>1, RegisterKnownInv, RegisterNewInv, UnregisterInv, Zenon DEF Register
<1>2. ASSUME NEW r \in Request, NEW u \in Uri, Lookup(r, u)
      PROVE  Inv'
  BY <1>2, LookupInv, Zenon
<1>3. ASSUME NEW n \in prune.todo, PruneNode(n)
      PROVE  Inv'
  BY <1>3, PruneNodeInv, Zenon
<1>. QED  BY <1>1, <1>2, <1>3, TickInv, OtherInv, ZenonT(30) DEF Next, Pruning

(* The invariant that the theorems below rest on. *)
THEOREM RegistryInvariant == Spec => []Inv
<1>1. Init => Inv
  BY InitInv, Zenon
<1>2. Inv /\ [Next]_vars => Inv'
  BY NextInv, Zenon
<1>. QED  BY <1>1, <1>2, PTL DEF Spec

(* Every variable keeps its type, whatever the uris, endpoints and requests. *)
THEOREM TypeCorrect == Spec => []TypeOK
<1>1. Inv => TypeOK
  BY Zenon DEF Inv
<1>. QED  BY <1>1, RegistryInvariant, PTL

(* The trie stays connected and free of dead branches, its pools in place,
   what left it empty, and the pruning walk inside it. *)
THEOREM TrieConsistency == Spec => []TrieConsistent
<1>1. Inv => TrieConsistent
  BY InvImpliesTrieConsistent, Zenon
<1>. QED  BY <1>1, RegistryInvariant, PTL

-----------------------------------------------------------------------------
(* The trie implements the table of routes. *)

MembersAt(t, pools, u) == IF u \in DOMAIN t /\ t[u] # nil THEN pools[t[u]].member ELSE NoMember

(* The abstract table holds the members of the pools in the trie. *)
LEMMA RoutesAre ==
  /\ Routes = [u \in Uri |-> MembersAt(trie, pool, u)]
  /\ Routes' = [u \in Uri |-> MembersAt(trie', pool', u)]
BY Zenon DEF Routes, MembersAt

(* Members have ages. *)
LEMMA MembersType ==
  ASSUME Inv, NEW u \in Uri
  PROVE  MembersAt(trie, pool, u) \in [Endpoint -> Age \cup {nil}]
BY Zenon DEF Inv, TypeOK, MembersAt, NoMember

(* Equal registrations at every uri but one make an update of the table. *)
LEMMA TableUpdate ==
  ASSUME NEW u \in Uri, NEW m,
         MembersAt(trie', pool', u) = m,
         \A v \in Uri \ {u} : MembersAt(trie', pool', v) = MembersAt(trie, pool, v)
  PROVE  Routes' = [Routes EXCEPT ![u] = m]
BY RoutesAre, Zenon

(* An empty trie is an empty table. *)
LEMMA InitRefines ==
  ASSUME Init
  PROVE  Table!Init
<1>1. \A u \in Uri : MembersAt(trie, pool, u) = NoMember
  BY UriAssumption, Zenon DEF Init, MembersAt
<1>. QED  BY <1>1, RoutesAre, Zenon DEF Table!Init, NoMember

(* Register, whatever it does to the trie, adds one registration; ... *)
LEMMA RegisterRefines ==
  ASSUME Inv, NEW u \in Uri, NEW ep \in Endpoint, Register(u, ep)
  PROVE  Table!Register(u, ep)
<1> DEFINE old == MembersAt(trie, pool, u)
           Updated == /\ MembersAt(trie', pool', u) = [old EXCEPT ![ep] = 0]
                      /\ \A v \in Uri \ {u} : MembersAt(trie', pool', v) = MembersAt(trie, pool, v)
<1>1. pool \in [Pool -> PoolRecord] /\ u \in Path /\ u # Root
  BY UriAssumption, Zenon DEF Inv, TypeOK, PoolRecord
<1>2. ASSUME RegisterKnown(u, ep)
      PROVE  Updated
  <2>1. /\ u \in DOMAIN trie /\ trie[u] \in Pool /\ trie' = trie
        /\ pool' = [pool EXCEPT ![trie[u]] = Put(pool[trie[u]], ep)]
    BY <1>2, RegisterKnownInv, Zenon
  <2>2. trie[u] # nil /\ old = pool[trie[u]].member
    BY <2>1, PoolAssumption, Zenon DEF MembersAt
  <2>3. MembersAt(trie', pool', u) = [old EXCEPT ![ep] = 0]
    BY <1>1, <2>1, <2>2, PoolFacts, ZenonT(30) DEF MembersAt
  <2>4. \A v \in Uri \ {u} : MembersAt(trie', pool', v) = MembersAt(trie, pool, v)
    BY <1>1, <2>1, <2>2 DEF MembersAt, Inv, PoolsInPlace
  <2>. QED  BY <2>3, <2>4, Zenon
<1>3. ASSUME RegisterNew(u, ep)
      PROVE  Updated
  <2>1. u \in DOMAIN trie => trie[u] = nil
    BY <1>3, RegisterNewInv, Zenon
  <2>2. PICK pl \in Pool : /\ Fresh(pl) /\ trie' = Insert(u, pl)
                           /\ pool' = [pool EXCEPT ![pl] = Put(NewPool(Tail(u)), ep)]
    BY <1>3, RegisterNewInv, Zenon
  <2>3. /\ u \in DOMAIN trie' /\ DOMAIN trie \subseteq DOMAIN trie'
        /\ \A p \in DOMAIN trie' :
             trie'[p] = IF p = u THEN pl ELSE IF p \in DOMAIN trie THEN trie[p] ELSE nil
    BY <1>1, <2>2, InsertFacts, SMTT(30) DEF Inv
  <2>4. NewPool(Tail(u)) \in PoolRecord /\ NewPool(Tail(u)).member = NoMember
    <3>1. Tail(u) \in Path
      BY <1>1 DEF Path, Root
    <3>. QED  BY <3>1, Zenon DEF NewPool, PoolRecord, NoMember
  <2>5. Put(NewPool(Tail(u)), ep).member = [NoMember EXCEPT ![ep] = 0]
    BY <2>4, PoolFacts, ZenonT(30)
  <2>6. old = NoMember
    BY <2>1, Zenon DEF MembersAt
  <2>7. MembersAt(trie', pool', u) = [old EXCEPT ![ep] = 0]
    BY <1>1, <2>2, <2>3, <2>5, <2>6, PoolAssumption DEF MembersAt
  <2>8. ASSUME NEW v \in Uri \ {u}
        PROVE  MembersAt(trie', pool', v) = MembersAt(trie, pool, v)
    <3>1. CASE v \in DOMAIN trie
      <4>1. v \in DOMAIN trie' /\ trie'[v] = trie[v] /\ trie[v] # pl
        BY <2>2, <2>3, <3>1, Zenon DEF Fresh
      <4>2. trie[v] # nil => pool'[trie[v]] = pool[trie[v]]
        BY <1>1, <2>2, <3>1, <4>1, ZenonT(30) DEF Inv, TypeOK
      <4>. QED  BY <3>1, <4>1, <4>2, Zenon DEF MembersAt
    <3>2. CASE v \notin DOMAIN trie
      BY <2>3, <3>2, Zenon DEF MembersAt
    <3>. QED  BY <3>1, <3>2, Zenon
  <2>. QED  BY <2>7, <2>8, Zenon
<1>4. Routes' = [Routes EXCEPT ![u] = [old EXCEPT ![ep] = 0]]
  <2> DEFINE m == [old EXCEPT ![ep] = 0]
  <2>1. Updated
    BY <1>2, <1>3, Zenon DEF Register
  <2> HIDE DEF m
  <2>2. Routes' = [Routes EXCEPT ![u] = m]
    BY <2>1, TableUpdate, Zenon DEF m
  <2>. QED  BY <2>2, Zenon DEF m
<1>5. old = Routes[u]
  BY RoutesAre, Zenon
<1>. QED  BY <1>4, <1>5, Zenon DEF Table!Register

(* ... Unregister takes one out; ... *)
LEMMA UnregisterRefines ==
  ASSUME Inv, NEW u \in Uri, NEW ep \in Endpoint, Unregister(u, ep)
  PROVE  Table!Unregister(u, ep)
<1> DEFINE old == MembersAt(trie, pool, u)
           m   == [old EXCEPT ![ep] = nil]
<1>1. pool \in [Pool -> PoolRecord]
  BY Zenon DEF Inv, TypeOK, PoolRecord
<1>2. /\ u \in DOMAIN trie /\ trie[u] \in Pool
      /\ pool' = [pool EXCEPT ![trie[u]] = Remove(pool[trie[u]], ep)]
      /\ \A p \in DOMAIN trie' : p \in DOMAIN trie
      /\ \A p \in DOMAIN trie' : p # u => trie'[p] = trie[p]
      /\ \A p \in DOMAIN trie \ DOMAIN trie' : p # u => trie[p] = nil
      /\ u \in DOMAIN trie' /\ trie'[u] # nil => trie'[u] = trie[u]
      /\ u \notin DOMAIN trie' \/ trie'[u] = nil => IsEmpty(pool', trie[u])
  BY UnregisterInv, Zenon
<1>3. trie[u] # nil /\ old = pool[trie[u]].member /\ old \in [Endpoint -> Age \cup {nil}]
  BY <1>2, PoolAssumption, MembersType, ZenonT(30) DEF MembersAt
<1>4. pool'[trie[u]].member = m
  <2>1. pool'[trie[u]] = Remove(pool[trie[u]], ep) /\ pool[trie[u]] \in PoolRecord
    BY <1>1, <1>2, Zenon
  <2>2. Remove(pool[trie[u]], ep).member = [pool[trie[u]].member EXCEPT ![ep] = nil]
    BY <2>1, PoolFacts, ZenonT(30)
  <2>. QED  BY <1>3, <2>1, <2>2, Zenon
<1>5. MembersAt(trie', pool', u) = m
  <2>1. CASE u \in DOMAIN trie' /\ trie'[u] # nil
    BY <1>2, <1>4, <2>1, Zenon DEF MembersAt
  <2>2. CASE u \notin DOMAIN trie' \/ trie'[u] = nil
    <3>1. MembersAt(trie', pool', u) = NoMember
      BY <2>2, Zenon DEF MembersAt
    <3>2. \A e \in Endpoint : m[e] = nil
      BY <1>2, <1>4, <2>2, ZenonT(30) DEF IsEmpty
    <3>3. m = [e \in Endpoint |-> nil]
      BY <1>3, <3>2, Zenon
    <3>. QED  BY <3>1, <3>3, Zenon DEF NoMember
  <2>. QED  BY <2>1, <2>2, Zenon
<1>6. ASSUME NEW v \in Uri \ {u}
      PROVE  MembersAt(trie', pool', v) = MembersAt(trie, pool, v)
  <2>1. v \in DOMAIN trie /\ trie[v] # nil => pool'[trie[v]] = pool[trie[v]]
    BY <1>1, <1>2, <1>3, ZenonT(30) DEF Inv, TypeOK, PoolsInPlace
  <2>2. CASE v \in DOMAIN trie'
    <3>1. v \in DOMAIN trie /\ trie'[v] = trie[v]
      BY <1>2, <2>2, Zenon
    <3>. QED  BY <2>1, <2>2, <3>1, Zenon DEF MembersAt
  <2>3. CASE v \notin DOMAIN trie'
    <3>1. v \in DOMAIN trie => trie[v] = nil
      BY <1>2, <2>3, Zenon
    <3>. QED  BY <2>3, <3>1, Zenon DEF MembersAt
  <2>. QED  BY <2>2, <2>3, Zenon
<1>7. Routes' = [Routes EXCEPT ![u] = m]
  <2> HIDE DEF m
  <2>. QED  BY <1>5, <1>6, TableUpdate, Zenon
<1>8. old = Routes[u]
  BY RoutesAre, Zenon
<1>. QED  BY <1>7, <1>8, Zenon DEF Table!Unregister

(* ... pruning a node expires its route, or changes nothing; ... *)
LEMMA PruneNodeRefines ==
  ASSUME Inv, NEW n \in prune.todo, PruneNode(n)
  PROVE  (n \in Uri /\ Table!Expire(n)) \/ UNCHANGED Routes
<1>1. pool \in [Pool -> PoolRecord]
  BY Zenon DEF Inv, TypeOK, PoolRecord
<1>2. n \in DOMAIN trie
  BY PruneNodeInv, Zenon
<1>3. CASE trie[n] = nil /\ UNCHANGED <<trie, pool>>
  BY <1>3, Zenon DEF Routes
<1>4. CASE /\ trie[n] \in Pool
           /\ pool' = [pool EXCEPT ![trie[n]] = Pruned(pool[trie[n]])]
           /\ \A p \in DOMAIN trie' : p \in DOMAIN trie /\ trie'[p] = trie[p]
           /\ \A p \in DOMAIN trie \ DOMAIN trie' : trie[p] = nil \/ IsEmpty(pool', trie[p])
  <2>1. trie[n] # nil
    BY <1>4, PoolAssumption, Zenon
  <2>2. ASSUME NEW v \in Uri, v # n
        PROVE  MembersAt(trie', pool', v) = MembersAt(trie, pool, v)
    <3>1. v \in DOMAIN trie /\ trie[v] # nil => pool'[trie[v]] = pool[trie[v]] /\ trie[v] \in Pool
      BY <1>1, <1>2, <1>4, <2>1, <2>2, ZenonT(30) DEF Inv, TypeOK, PoolsInPlace
    <3>2. CASE v \in DOMAIN trie \ DOMAIN trie' /\ trie[v] # nil
      <4>1. MembersAt(trie', pool', v) = NoMember /\ MembersAt(trie, pool, v) = pool[trie[v]].member
        BY <3>2, Zenon DEF MembersAt
      <4>2. \A e \in Endpoint : pool[trie[v]].member[e] = nil
        BY <1>4, <3>1, <3>2, SMTT(30) DEF IsEmpty
      <4>3. pool[trie[v]].member = [e \in Endpoint |-> nil]
        BY <1>1, <3>1, <3>2, <4>2, Zenon DEF PoolRecord
      <4>. QED  BY <4>1, <4>3, Zenon DEF NoMember
    <3>3. CASE ~(v \in DOMAIN trie \ DOMAIN trie' /\ trie[v] # nil)
      BY <1>4, <3>1, <3>3, SMTT(30) DEF MembersAt
    <3>. QED  BY <3>2, <3>3, Zenon
  <2>3. CASE n \notin Uri
    <3>1. \A v \in Uri : MembersAt(trie', pool', v) = MembersAt(trie, pool, v)
      BY <2>2, <2>3, Zenon
    <3>. QED  BY <3>1, RoutesAre, Zenon
  <2>4. CASE n \in Uri
    <3> DEFINE old == pool[trie[n]].member
               m   == [ep \in Endpoint |-> IF old[ep] # nil /\ old[ep] > StaleAfter[ep]
                                              THEN nil ELSE old[ep]]
    <3>1. MembersAt(trie, pool, n) = old /\ old = Routes[n]
      BY <1>2, <2>1, <2>4, RoutesAre, Zenon DEF MembersAt
    <3>2. pool'[trie[n]].member = m
      BY <1>1, <1>4, PrunedFacts, Zenon
    <3>3. MembersAt(trie', pool', n) = m
      <4>1. CASE n \in DOMAIN trie'
        BY <1>4, <2>1, <3>2, <4>1, Zenon DEF MembersAt
      <4>2. CASE n \notin DOMAIN trie'
        <5>1. MembersAt(trie', pool', n) = NoMember
          BY <4>2, Zenon DEF MembersAt
        <5>2. \A e \in Endpoint : m[e] = nil
          BY <1>2, <1>4, <2>1, <3>2, <4>2, SMTT(30) DEF IsEmpty
        <5>3. m = [e \in Endpoint |-> nil]
          BY <5>2, Zenon
        <5>. QED  BY <5>1, <5>3, Zenon DEF NoMember
      <4>. QED  BY <4>1, <4>2, Zenon
    <3>4. Routes' = [Routes EXCEPT ![n] = m]
      <4> HIDE DEF m
      <4>. QED  BY <2>2, <2>4, <3>3, TableUpdate, Zenon
    <3>5. m = [ep \in Endpoint |-> Table!Expired(ep, Routes[n][ep])]
      BY <3>1, Zenon DEF Table!Expired
    <3> HIDE DEF m
    <3>. QED  BY <2>4, <3>4, <3>5, Zenon DEF Table!Expire
  <2>. QED  BY <2>3, <2>4, Zenon
<1>. QED  BY <1>3, <1>4, PruneNodeInv, Zenon

(* ... and the clock ages them all. *)
LEMMA TickRefines ==
  ASSUME Inv, Tick
  PROVE  Table!Tick
<1>1. pool \in [Pool -> PoolRecord] /\ trie' = trie
  BY Zenon DEF Inv, TypeOK, PoolRecord, Tick
<1>2. \A pl \in Pool : pool'[pl].member = [ep \in Endpoint |-> Older(pool[pl].member[ep])]
  BY Zenon DEF Tick, Holding
<1>3. ASSUME NEW u \in Uri
      PROVE  MembersAt(trie', pool', u) =
               [ep \in Endpoint |-> Table!Older(MembersAt(trie, pool, u)[ep])]
  <2>1. CASE u \in DOMAIN trie /\ trie[u] # nil
    <3>1. trie[u] \in Pool
      BY <2>1, Zenon DEF Inv, TypeOK
    <3>. QED  BY <1>1, <1>2, <2>1, <3>1, Zenon DEF MembersAt, Older, Table!Older
  <2>2. CASE ~(u \in DOMAIN trie /\ trie[u] # nil)
    BY <1>1, <2>2, Zenon DEF MembersAt, NoMember, Table!Older
  <2>. QED  BY <2>1, <2>2, Zenon
<1>. QED  BY <1>3, RoutesAre, Zenon DEF Table!Tick

(* Every step of the registry is a step of the table, or a stutter. *)
LEMMA StepRefines ==
  ASSUME Inv, [Next]_vars
  PROVE  [Table!Next]_Routes
<1>1. ASSUME NEW u \in Uri, NEW ep \in Endpoint, Register(u, ep) \/ Unregister(u, ep)
      PROVE  Table!Next
  BY <1>1, RegisterRefines, UnregisterRefines, Zenon DEF Table!Next
<1>2. ASSUME NEW r \in Request, NEW u \in Uri, Lookup(r, u)
      PROVE  UNCHANGED Routes
  BY <1>2, Zenon DEF Lookup, Routes
<1>3. ASSUME NEW n \in prune.todo, PruneNode(n)
      PROVE  [Table!Next]_Routes
  BY <1>3, PruneNodeRefines, Zenon DEF Table!Next
<1>4. CASE Tick
  BY <1>4, TickRefines, Zenon DEF Table!Next
<1>5. ASSUME UNCHANGED <<trie, pool>>
      PROVE  UNCHANGED Routes
  BY <1>5, Zenon DEF Routes
<1>. QED  BY <1>1, <1>2, <1>3, <1>4, <1>5, OtherInv, Zenon DEF Next, Pruning

(* The trie, its pools and the pruning walk implement the table of routes: no
   insertion, deletion or snip adds, loses or refreshes a registration other
   than the one it is for. *)
THEOREM Refinement == Spec => ImplementsRouteTable
<1>1. Init => Table!Init
  BY InitRefines, Zenon
<1>2. Inv /\ [Next]_vars => [Table!Next]_Routes
  BY StepRefines, Zenon
<1>. QED  BY <1>1, <1>2, RegistryInvariant, PTL DEF Spec, Table!Spec, ImplementsRouteTable

-----------------------------------------------------------------------------
(* Lookup. *)

(* No uri has a "." in its path, and none has more labels than MaxLabels. *)
PlainPaths ==
  \A u \in Uri : Len(u[1]) <= MaxLabels /\ \A j \in 2 .. Len(u) : Len(u[j]) <= 1

(* The wildcard uri for u whose host stands for the first j labels of u's. *)
Wild(u, j) == <<<<Star>> \o SubSeq(u[1], j + 1, Len(u[1]))>> \o Tail(u)

(* A leading "*" that Unstarred drops. *)
Stars(u) == IF Len(u[1]) > 1 /\ u[1][1] = Star THEN 1 ELSE 0

(* Sequences of one kind are equal when they agree at every place. *)
LEMMA SameSeq ==
  ASSUME NEW S, NEW a \in Seq(S), NEW b \in Seq(S), Len(a) = Len(b),
         \A i \in 1 .. Len(a) : a[i] = b[i]
  PROVE  a = b
<1>1. a \in [1 .. Len(a) -> S] /\ b \in [1 .. Len(b) -> S]
  OBVIOUS
<1>. QED  BY <1>1

(* The labels of h from the one after the first j. *)
LEMMA Suffix ==
  ASSUME NEW S, NEW h \in Seq(S), NEW j \in 0 .. Len(h)
  PROVE  /\ SubSeq(h, j + 1, Len(h)) \in Seq(S)
         /\ Len(SubSeq(h, j + 1, Len(h))) = Len(h) - j
         /\ \A i \in 1 .. Len(h) - j : SubSeq(h, j + 1, Len(h))[i] = h[j + i]
<1>1. Len(h) \in Nat /\ \A i \in j + 1 .. Len(h) : h[i] \in S
  OBVIOUS
<1>. QED  BY <1>1

(* A host behind a "*." *)
LEMMA StarHost ==
  ASSUME NEW s \in Seq(Label)
  PROVE  /\ <<Star>> \o s \in Seq(Label)
         /\ Len(<<Star>> \o s) = Len(s) + 1
         /\ (<<Star>> \o s)[1] = Star
         /\ Tail(<<Star>> \o s) = s
<1>0. Star \in Label
  BY LabelAssumption
<1>1. /\ <<Star>> \o s \in Seq(Label)
      /\ Len(<<Star>> \o s) = Len(s) + 1
      /\ (<<Star>> \o s)[1] = Star
      /\ \A i \in 1 .. Len(s) : (<<Star>> \o s)[i + 1] = s[i]
  BY <1>0
<1> DEFINE t == <<Star>> \o s
<1>2. Len(s) \in Nat
  OBVIOUS
<1> HIDE DEF t
<1>3. t \in Seq(Label) /\ Len(t) = Len(s) + 1 /\ \A i \in 1 .. Len(s) : t[i + 1] = s[i]
  BY <1>1 DEF t
<1>4. Tail(t) \in Seq(Label) /\ Len(Tail(t)) = Len(s) /\ \A i \in 1 .. Len(s) : Tail(t)[i] = s[i]
  BY <1>2, <1>3
<1>5. Tail(t) = s
  BY <1>4, SameSeq
<1>. QED  BY <1>1, <1>5 DEF t

(* The host of a uri. *)
LEMMA HostOf ==
  ASSUME NEW u \in Path \ {Root}
  PROVE  /\ Len(u) \in Nat \ {0} /\ Tail(u) \in Path
         /\ u[1] \in Seq(Label) /\ Len(u[1]) \in Nat
<1>1. u \in Seq(Seq(Label)) /\ Len(u) \in Nat \ {0}
  BY PathOrder DEF Path
<1>2. Tail(u) \in Seq(Seq(Label)) /\ u[1] \in Seq(Label)
  BY <1>1
<1>. QED  BY <1>1, <1>2 DEF Path

(* A uri with another host. *)
LEMMA NewHost ==
  ASSUME NEW h \in Seq(Label), NEW u \in Path \ {Root}
  PROVE  /\ <<h>> \o Tail(u) \in Path \ {Root}
         /\ Len(<<h>> \o Tail(u)) = Len(u)
         /\ (<<h>> \o Tail(u))[1] = h
         /\ \A i \in 2 .. Len(u) : (<<h>> \o Tail(u))[i] = u[i]
         /\ u[1] \in Seq(Label)
         /\ Tail(u) \in Path
         /\ Tail(<<h>> \o Tail(u)) = Tail(u)
         /\ u[1] = h => <<h>> \o Tail(u) = u
<1>1. u \in Seq(Seq(Label)) /\ Len(u) \in Nat \ {0}
  BY PathOrder DEF Path
<1>2. /\ Tail(u) \in Seq(Seq(Label)) /\ Len(Tail(u)) = Len(u) - 1
      /\ \A i \in 1 .. Len(u) - 1 : Tail(u)[i] = u[i + 1]
      /\ u[1] \in Seq(Label)
  BY <1>1
<1> DEFINE t == Tail(u)
           v == <<h>> \o t
<1> HIDE DEF t
<1>3. /\ v \in Seq(Seq(Label)) /\ Len(v) = Len(u) /\ v[1] = h
      /\ \A i \in 2 .. Len(u) : v[i] = t[i - 1]
  BY <1>1, <1>2 DEF t
<1>4. \A i \in 2 .. Len(u) : v[i] = u[i]
  BY <1>1, <1>2, <1>3 DEF t
<1> HIDE DEF v
<1>5. v # Root
  BY <1>1, <1>3 DEF Root
<1>6. Tail(v) = t
  <2>1. Tail(v) \in Seq(Seq(Label)) /\ Len(Tail(v)) = Len(u) - 1 /\ \A i \in 1 .. Len(u) - 1 : Tail(v)[i] = v[i + 1]
    BY <1>1, <1>3
  <2>2. ASSUME NEW i \in 1 .. Len(u) - 1
        PROVE  Tail(v)[i] = t[i]
    <3>1. i + 1 \in 2 .. Len(u)
      BY <1>1
    <3>2. Tail(v)[i] = u[i + 1]
      BY <1>4, <2>1, <3>1, Zenon
    <3>. QED  BY <1>2, <3>2, Zenon DEF t
  <2>3. Len(Tail(v)) = Len(t) /\ t \in Seq(Seq(Label)) /\ \A i \in 1 .. Len(Tail(v)) : Tail(v)[i] = t[i]
    BY <1>2, <2>1, <2>2, Zenon DEF t
  <2>. QED  BY <2>1, <2>3, SameSeq, Zenon
<1>7. u[1] = h => v = u
  <2>1. SUFFICES ASSUME u[1] = h PROVE v = u
    OBVIOUS
  <2>2. \A i \in 1 .. Len(v) : v[i] = u[i]
    <3>1. \A i \in 1 .. Len(u) : i = 1 \/ i \in 2 .. Len(u)
      BY <1>1
    <3>. QED  BY <1>3, <1>4, <2>1, <3>1, Zenon
  <2>3. u \in Seq(Seq(Label)) /\ v \in Seq(Seq(Label)) /\ Len(v) = Len(u)
    BY <1>1, <1>3, Zenon
  <2>. QED  BY <2>2, <2>3, SameSeq, Zenon
<1>. QED  BY <1>1, <1>2, <1>3, <1>4, <1>5, <1>6, <1>7, Zenon DEF v, t, Path

(* NextWildcard looks at the host alone when the path is plain. *)
LEMMA NextOf ==
  ASSUME NEW u \in Path \ {Root}, \A j \in 2 .. Len(u) : Len(u[j]) <= 1
  PROVE  /\ Len(u[1]) - Stars(u) <= 1 => Dotted(u) = {}
         /\ Len(u[1]) - Stars(u) > 1 =>
              Dotted(u) # {} /\ NextWildcard(u) = Wild(u, Stars(u) + 1)
<1> DEFINE h == u[1]
           rest == SubSeq(h, Stars(u) + 1, Len(h))
           v == Unstarred(u)
<1>1. h \in Seq(Label) /\ Len(h) \in Nat /\ Len(u) \in Nat \ {0} /\ u \in Seq(Seq(Label))
  BY NewHost, PathOrder DEF Path
<1>2. Stars(u) \in 0 .. Len(h) /\ Stars(u) \in {0, 1}
  BY <1>1 DEF Stars
<1>3. /\ rest \in Seq(Label) /\ Len(rest) = Len(h) - Stars(u)
      /\ \A i \in 1 .. Len(h) - Stars(u) : rest[i] = h[Stars(u) + i]
  BY <1>1, <1>2, Suffix
<1> HIDE DEF h, rest
<1>4. v = [u EXCEPT ![1] = rest]
  <2>1. CASE Len(h) > 1 /\ h[1] = Star
    <3>1. Stars(u) = 1
      BY <2>1 DEF Stars, h
    <3>2. /\ Tail(h) \in Seq(Label) /\ Len(Tail(h)) = Len(h) - 1
          /\ \A i \in 1 .. Len(h) - 1 : Tail(h)[i] = h[i + 1]
      BY <1>1, <2>1
    <3>3. Len(Tail(h)) = Len(rest) /\ \A i \in 1 .. Len(Tail(h)) : Tail(h)[i] = rest[i]
      BY <1>1, <1>3, <3>1, <3>2
    <3>4. Tail(h) = rest
      BY <1>3, <3>2, <3>3, SameSeq, Zenon
    <3>. QED  BY <2>1, <3>4, Zenon DEF Unstarred, h
  <2>2. CASE ~(Len(h) > 1 /\ h[1] = Star)
    <3>1. Stars(u) = 0
      BY <2>2 DEF Stars, h
    <3>2. Len(h) = Len(rest) /\ \A i \in 1 .. Len(h) : h[i] = rest[i]
      BY <1>1, <1>3, <3>1
    <3>3. h = rest
      BY <1>1, <1>3, <3>2, SameSeq, Zenon
    <3>4. u = [u EXCEPT ![1] = u[1]]
      BY <1>1
    <3>. QED  BY <2>2, <3>3, <3>4, Zenon DEF Unstarred, h
  <2>. QED  BY <2>1, <2>2, Zenon
<1> HIDE DEF v
<1>5. /\ v \in Seq(Seq(Label)) /\ Len(v) = Len(u) /\ v[1] = rest
      /\ \A i \in 2 .. Len(u) : v[i] = u[i]
  BY <1>1, <1>3, <1>4
<1>6. Len(rest) <= 1 => Dotted(u) = {}
  <2>1. \A j \in 1 .. Len(u) : j = 1 \/ j \in 2 .. Len(u)
    BY <1>1
  <2>2. \A j \in 2 .. Len(u) : Len(v[j]) <= 1
    BY <1>5, Zenon
  <2>3. \A j \in 2 .. Len(u) : Len(v[j]) \in Nat
    BY <1>5
  <2>. QED  BY <1>3, <1>5, <2>1, <2>2, <2>3 DEF Dotted, v
<1>7. ASSUME Len(rest) > 1
      PROVE  Dotted(u) # {} /\ NextWildcard(u) = Wild(u, Stars(u) + 1)
  <2>1. 1 \in Dotted(u)
    BY <1>1, <1>5, <1>7 DEF Dotted, v
  <2>2. \A i \in Dotted(u) : (\A k \in Dotted(u) : i <= k) => i = 1
    <3>1. Dotted(u) \subseteq 1 .. Len(u)
      BY Zenon DEF Dotted
    <3>. QED  BY <2>1, <3>1, <1>1
  <2>3. \A k \in Dotted(u) : 1 <= k
    BY <1>1 DEF Dotted
  <2>4. (CHOOSE i \in Dotted(u) : \A k \in Dotted(u) : i <= k) = 1
    BY <2>1, <2>2, <2>3, Zenon
  <2>5. NextWildcard(u) = <<<<Star>> \o Tail(rest)>> \o SubSeq(v, 1 + 1, Len(v))
    BY <1>5, <2>4, Zenon DEF NextWildcard, v
  <2>6. Tail(rest) = SubSeq(h, Stars(u) + 1 + 1, Len(h))
    <3>1. Stars(u) + 1 \in 0 .. Len(h)
      BY <1>1, <1>2, <1>3, <1>7
    <3>2. /\ SubSeq(h, Stars(u) + 1 + 1, Len(h)) \in Seq(Label)
          /\ Len(SubSeq(h, Stars(u) + 1 + 1, Len(h))) = Len(h) - (Stars(u) + 1)
          /\ \A i \in 1 .. Len(h) - (Stars(u) + 1) : SubSeq(h, Stars(u) + 1 + 1, Len(h))[i] = h[Stars(u) + 1 + i]
      BY <1>1, <3>1, Suffix, Zenon
    <3>3. /\ Tail(rest) \in Seq(Label) /\ Len(Tail(rest)) = Len(rest) - 1
          /\ \A i \in 1 .. Len(rest) - 1 : Tail(rest)[i] = rest[i + 1]
      BY <1>3, <1>7
    <3> DEFINE t == SubSeq(h, Stars(u) + 1 + 1, Len(h))
    <3>4. /\ t \in Seq(Label) /\ Len(t) = Len(h) - (Stars(u) + 1)
          /\ \A i \in 1 .. Len(h) - (Stars(u) + 1) : t[i] = h[Stars(u) + 1 + i]
      BY <3>2, Zenon
    <3> HIDE DEF t
    <3>5. Len(Tail(rest)) = Len(t)
      BY <1>1, <1>2, <1>3, <3>3, <3>4
    <3>6. ASSUME NEW i \in 1 .. Len(Tail(rest))
          PROVE  Tail(rest)[i] = t[i]
      <4>1. /\ i \in 1 .. Len(rest) - 1 /\ i + 1 \in 1 .. Len(h) - Stars(u)
            /\ i \in 1 .. Len(h) - (Stars(u) + 1) /\ Stars(u) + (i + 1) = Stars(u) + 1 + i
        <5>1. Len(h) \in Nat /\ Stars(u) \in {0, 1} /\ Len(rest) = Len(h) - Stars(u) /\ Len(Tail(rest)) = Len(rest) - 1
          BY <1>1, <1>2, <1>3, <3>3, Zenon
        <5>. QED  BY <5>1
      <4>2. Tail(rest)[i] = rest[i + 1] /\ rest[i + 1] = h[Stars(u) + (i + 1)]
        BY <1>3, <3>3, <4>1, Zenon
      <4>3. t[i] = h[Stars(u) + 1 + i]
        BY <3>4, <4>1, Zenon
      <4>. QED  BY <4>1, <4>2, <4>3, Zenon
    <3>. QED  BY <3>3, <3>4, <3>5, <3>6, SameSeq, Zenon DEF t
  <2>7. SubSeq(v, 1 + 1, Len(v)) = Tail(u)
    <3>1. /\ SubSeq(v, 1 + 1, Len(v)) \in Seq(Seq(Label))
          /\ Len(SubSeq(v, 1 + 1, Len(v))) = Len(v) - 1
          /\ \A i \in 1 .. Len(v) - 1 : SubSeq(v, 1 + 1, Len(v))[i] = v[1 + i]
      <4>1. 1 \in 0 .. Len(v)
        BY <1>1, <1>5
      <4>. QED  BY <1>5, <4>1, Suffix, Zenon
    <3> DEFINE s == SubSeq(v, 1 + 1, Len(v))
               t == Tail(u)
    <3>2. s \in Seq(Seq(Label)) /\ Len(s) = Len(u) - 1 /\ \A i \in 1 .. Len(u) - 1 : s[i] = v[1 + i]
      BY <1>5, <3>1
    <3>3. t \in Seq(Seq(Label)) /\ Len(t) = Len(u) - 1 /\ \A i \in 1 .. Len(u) - 1 : t[i] = u[1 + i]
      BY <1>1
    <3> HIDE DEF s, t
    <3>4. ASSUME NEW i \in 1 .. Len(s)
          PROVE  s[i] = t[i]
      <4>1. i \in 1 .. Len(u) - 1 /\ 1 + i \in 2 .. Len(u)
        BY <1>1, <3>2
      <4>. QED  BY <1>5, <3>2, <3>3, <4>1, Zenon
    <3>. QED  BY <3>2, <3>3, <3>4, SameSeq, Zenon DEF s, t
  <2>. QED  BY <2>1, <2>5, <2>6, <2>7, Zenon DEF Wild, h
<1>. QED  BY <1>3, <1>6, <1>7 DEF h

(* The host of a wildcard uri is "*" and a suffix of the host of u. *)
LEMMA WildFacts ==
  ASSUME NEW u \in Path \ {Root}, NEW j \in 1 .. Len(u[1])
  PROVE  LET w == Wild(u, j)
             s == SubSeq(u[1], j + 1, Len(u[1]))
         IN /\ w \in Path \ {Root} /\ Len(w) = Len(u)
            /\ \A i \in 2 .. Len(u) : w[i] = u[i]
            /\ w[1] = <<Star>> \o s /\ Len(w[1]) = Len(u[1]) - j + 1
            /\ w[1][1] = Star /\ Tail(w[1]) = s
            /\ Tail(w) = Tail(u)
<1> DEFINE w == Wild(u, j)
           s == SubSeq(u[1], j + 1, Len(u[1]))
           h == <<Star>> \o s
<1>1. u[1] \in Seq(Label) /\ Len(u[1]) \in Nat /\ j \in 0 .. Len(u[1])
  BY HostOf
<1>2. s \in Seq(Label) /\ Len(s) = Len(u[1]) - j
  BY <1>1, Suffix, Zenon
<1>3. h \in Seq(Label) /\ Len(h) = Len(s) + 1 /\ h[1] = Star /\ Tail(h) = s
  <2> HIDE DEF s
  <2>. QED  BY <1>2, StarHost, Zenon
<1> HIDE DEF h
<1>4. w = <<h>> \o Tail(u)
  BY Zenon DEF Wild, h
<1>5. /\ w \in Path \ {Root} /\ Len(w) = Len(u) /\ w[1] = h
      /\ \A i \in 2 .. Len(u) : w[i] = u[i]
      /\ Tail(w) = Tail(u)
  <2> DEFINE v == <<h>> \o Tail(u)
  <2>1. /\ v \in Path \ {Root} /\ Len(v) = Len(u) /\ v[1] = h
        /\ \A i \in 2 .. Len(u) : v[i] = u[i]
        /\ Tail(v) = Tail(u)
    BY <1>3, NewHost, Zenon
  <2>2. w = v
    BY <1>4, Zenon
  <2> HIDE DEF v, w
  <2>. QED  BY <2>1, <2>2, Zenon
<1>. QED  BY <1>2, <1>3, <1>5, Zenon DEF h

(* The wildcard uri after a wildcard uri stands for one label more. *)
LEMMA NextWild ==
  ASSUME NEW u \in Path \ {Root}, \A j \in 2 .. Len(u) : Len(u[j]) <= 1,
         NEW j \in 1 .. Len(u[1]) - 1
  PROVE  /\ j = Len(u[1]) - 1 => Dotted(Wild(u, j)) = {}
         /\ j < Len(u[1]) - 1 =>
              Dotted(Wild(u, j)) # {} /\ NextWildcard(Wild(u, j)) = Wild(u, j + 1)
<1> DEFINE w == Wild(u, j)
           L == Len(u[1])
<1>1. u[1] \in Seq(Label) /\ L \in Nat /\ j \in 1 .. L /\ L - j >= 1
  BY HostOf
<1>2. /\ w \in Path \ {Root} /\ Len(w) = Len(u)
      /\ \A i \in 2 .. Len(u) : w[i] = u[i]
      /\ Len(w[1]) = L - j + 1 /\ w[1][1] = Star
      /\ Tail(w[1]) = SubSeq(u[1], j + 1, L)
      /\ Tail(w) = Tail(u)
  BY <1>1, WildFacts, Zenon
<1> HIDE DEF w
<1>3. Stars(w) = 1
  BY <1>1, <1>2 DEF Stars
<1>4. \A i \in 2 .. Len(w) : Len(w[i]) <= 1
  BY <1>2, Zenon
<1>5. /\ Len(w[1]) - 1 <= 1 => Dotted(w) = {}
      /\ Len(w[1]) - 1 > 1 => Dotted(w) # {} /\ NextWildcard(w) = Wild(w, 1 + 1)
  BY <1>2, <1>3, <1>4, NextOf, Zenon
<1>6. j = L - 1 => Len(w[1]) - 1 <= 1
  BY <1>1, <1>2
<1>7. j < L - 1 => Len(w[1]) - 1 > 1
  BY <1>1, <1>2
<1>8. ASSUME j < L - 1
      PROVE  Wild(w, 1 + 1) = Wild(u, j + 1)
  <2> DEFINE h == w[1]
             a == SubSeq(h, 1 + 1 + 1, Len(h))
             b == SubSeq(u[1], j + 1 + 1, L)
             c == SubSeq(u[1], j + 1, L)
  <2>1. h \in Seq(Label) /\ Len(h) = L - j + 1 /\ Tail(h) = c
    BY <1>2, HostOf, Zenon
  <2>2. c \in Seq(Label) /\ Len(c) = L - j /\ \A i \in 1 .. L - j : c[i] = u[1][j + i]
    <3>1. j \in 0 .. Len(u[1])
      BY <1>1
    <3>. QED  BY <1>1, <3>1, Suffix, Zenon
  <2>3. b \in Seq(Label) /\ Len(b) = L - (j + 1) /\ \A i \in 1 .. L - (j + 1) : b[i] = u[1][j + 1 + i]
    <3>1. j + 1 \in 0 .. Len(u[1])
      BY <1>1
    <3>. QED  BY <1>1, <3>1, Suffix, Zenon
  <2> HIDE DEF h, c
  <2>4. a \in Seq(Label) /\ Len(a) = Len(h) - (1 + 1) /\ \A i \in 1 .. Len(h) - (1 + 1) : a[i] = h[1 + 1 + i]
    <3>1. 1 + 1 \in 0 .. Len(h)
      BY <1>1, <1>8, <2>1
    <3>. QED  BY <2>1, <3>1, Suffix, Zenon
  <2> HIDE DEF a, b
  <2>5. Len(a) = Len(b)
    BY <1>1, <2>1, <2>3, <2>4
  <2>6. ASSUME NEW i \in 1 .. Len(a)
        PROVE  a[i] = b[i]
    <3>1. /\ i \in 1 .. Len(h) - (1 + 1) /\ i + 1 \in 1 .. L - j /\ i \in 1 .. L - (j + 1)
          /\ j + (i + 1) = j + 1 + i
      BY <1>1, <2>1, <2>4
    <3>2. h[1 + 1 + i] = c[i + 1]
      <4>1. \A k \in 1 .. Len(h) - 1 : Tail(h)[k] = h[k + 1]
        BY <2>1
      <4>2. i + 1 \in 1 .. Len(h) - 1 /\ 1 + 1 + i = i + 1 + 1
        BY <1>1, <2>1, <3>1
      <4>. QED  BY <2>1, <4>1, <4>2, Zenon
    <3>3. a[i] = c[i + 1]
      BY <2>4, <3>1, <3>2, Zenon
    <3>4. c[i + 1] = u[1][j + (i + 1)]
      BY <2>2, <3>1, Zenon
    <3>5. b[i] = u[1][j + 1 + i]
      BY <2>3, <3>1, Zenon
    <3>. QED  BY <3>1, <3>3, <3>4, <3>5, Zenon
  <2>7. a = b
    BY <2>3, <2>4, <2>5, <2>6, SameSeq, Zenon
  <2>. QED  BY <1>2, <2>7, Zenon DEF Wild, a, b, h
<1>. QED  BY <1>5, <1>6, <1>7, <1>8, Zenon DEF w

(* The k-th uri that Lookup tries. *)
Rung(u, k) ==
  IF k = 0 \/ Len(u[1]) - Stars(u) <= 1 THEN u
  ELSE Wild(u, IF k + Stars(u) < Len(u[1]) THEN k + Stars(u) ELSE Len(u[1]) - 1)

(* Each is what NextWildcard makes of the one before. *)
LEMMA RungStep ==
  ASSUME NEW u \in Path \ {Root}, \A j \in 2 .. Len(u) : Len(u[j]) <= 1,
         NEW k \in Nat \ {0}
  PROVE  Rung(u, k) = IF Dotted(Rung(u, k - 1)) = {} THEN Rung(u, k - 1)
                      ELSE NextWildcard(Rung(u, k - 1))
<1> DEFINE L == Len(u[1])
           o == Stars(u)
<1>1. L \in Nat /\ o \in {0, 1}
  BY HostOf, Zenon DEF Stars
<1>2. /\ L - o <= 1 => Dotted(u) = {}
      /\ L - o > 1 => Dotted(u) # {} /\ NextWildcard(u) = Wild(u, o + 1)
  BY NextOf, Zenon
<1>3. \A j \in 1 .. L - 1 :
        /\ j = L - 1 => Dotted(Wild(u, j)) = {}
        /\ j < L - 1 => Dotted(Wild(u, j)) # {} /\ NextWildcard(Wild(u, j)) = Wild(u, j + 1)
  BY NextWild, Zenon
<1>4. \A n \in Nat : Rung(u, n) = IF n = 0 \/ L - o <= 1 THEN u
                                  ELSE Wild(u, IF n + o < L THEN n + o ELSE L - 1)
  BY Zenon DEF Rung
<1> HIDE DEF L, o
<1>5. CASE L - o <= 1
  <2>1. Rung(u, k) = u /\ Rung(u, k - 1) = u
    BY <1>4, <1>5
  <2>. QED  BY <1>2, <1>5, <2>1, Zenon
<1>6. CASE L - o > 1 /\ k = 1
  <2>1. Rung(u, k - 1) = u
    BY <1>4, <1>6
  <2>2. 1 + o < L /\ ~(L - o <= 1) /\ 1 + o = o + 1 /\ 1 # 0
    BY <1>1, <1>6
  <2>3. Rung(u, k) = Wild(u, o + 1)
    BY <1>4, <1>6, <2>2, Zenon
  <2>. QED  BY <1>2, <1>6, <2>1, <2>3, Zenon
<1>7. CASE L - o > 1 /\ k # 1
  <2> DEFINE j == IF k - 1 + o < L THEN k - 1 + o ELSE L - 1
  <2>1. k - 1 \in Nat /\ k - 1 # 0 /\ ~(L - o <= 1) /\ k # 0
    BY <1>1, <1>7
  <2>2. Rung(u, k - 1) = Wild(u, j)
    BY <1>4, <2>1, Zenon
  <2>3. Rung(u, k) = Wild(u, IF k + o < L THEN k + o ELSE L - 1)
    BY <1>4, <2>1, Zenon
  <2>4. j \in 1 .. L - 1
    BY <1>1, <1>7, <2>1
  <2>5. CASE j < L - 1
    <3>1. k + o < L /\ k + o = j + 1
      BY <1>1, <1>7, <2>1, <2>5
    <3> HIDE DEF j
    <3>2. Rung(u, k) = Wild(u, j + 1)
      BY <2>3, <3>1, Zenon
    <3>. QED  BY <1>3, <2>2, <2>4, <2>5, <3>2, Zenon
  <2>6. CASE j = L - 1
    <3>1. ~(k + o < L)
      BY <1>1, <1>7, <2>1, <2>6
    <3>2. Rung(u, k) = Wild(u, L - 1)
      BY <2>3, <3>1, Zenon
    <3> HIDE DEF j
    <3>. QED  BY <1>3, <2>2, <2>4, <2>6, <3>2, Zenon
  <2>7. j < L - 1 \/ j = L - 1
    <3> HIDE DEF j
    <3>. QED  BY <1>1, <2>4
  <2>. QED  BY <2>5, <2>6, <2>7, Zenon
<1>8. L - o <= 1 \/ L - o > 1
  BY <1>1
<1>. QED  BY <1>5, <1>6, <1>7, <1>8, Zenon

(* The loop of Lookup tries them in this order. *)
LEMMA TriedIs ==
  ASSUME NEW u \in Path \ {Root}, \A j \in 2 .. Len(u) : Len(u[j]) <= 1
  PROVE  \A k \in 0 .. MaxLabels : Tried(u)[k] = Rung(u, k)
<1> DEFINE S == 0 .. MaxLabels
           F(f) == [k \in S |-> IF k = 0 THEN u
                                ELSE IF Dotted(f[k - 1]) = {} THEN f[k - 1]
                                ELSE NextWildcard(f[k - 1])]
           R == [k \in S |-> Rung(u, k)]
           w == CHOOSE f : f = F(f)
<1>1. \A k \in S : k = 0 \/ (k \in Nat \ {0} /\ k - 1 \in S)
  BY LabelAssumption
<1>2. R = F(R)
  <2>1. ASSUME NEW k \in S
        PROVE  Rung(u, k) = IF k = 0 THEN u
                            ELSE IF Dotted(R[k - 1]) = {} THEN R[k - 1]
                            ELSE NextWildcard(R[k - 1])
    <3>1. CASE k = 0
      BY <3>1, Zenon DEF Rung
    <3>2. CASE k # 0
      <4>1. k \in Nat \ {0} /\ R[k - 1] = Rung(u, k - 1)
        BY <1>1, <3>2, Zenon
      <4>. QED  BY <3>2, <4>1, RungStep, Zenon
    <3>. QED  BY <3>1, <3>2, Zenon
  <2>. QED  BY <2>1, Zenon
<1>3. w = F(w)
  <2> HIDE DEF R, F
  <2>. QED  BY <1>2, Zenon
<1>4. Tried(u) = w
  BY Zenon DEF Tried
<1>5. \A k \in S : w[k] = IF k = 0 THEN u
                          ELSE IF Dotted(w[k - 1]) = {} THEN w[k - 1]
                          ELSE NextWildcard(w[k - 1])
  <2> HIDE DEF w
  <2>. QED  BY <1>3, Zenon
<1> HIDE DEF w
<1> DEFINE T == {k \in S : w[k] # Rung(u, k)}
<1>6. SUFFICES ASSUME T # {} PROVE FALSE
  BY <1>4, Zenon
<1>7. T \in SUBSET Nat
  BY LabelAssumption
<1>8. PICK m \in T : \A k \in T : m <= k
  <2> HIDE DEF T
  <2>. QED  BY <1>6, <1>7, LeastNumber, Zenon
<1>9. m # 0
  BY <1>5, Zenon DEF Rung
<1>10. m \in Nat \ {0} /\ m - 1 \in S /\ m \in S
  BY <1>1, <1>9, Zenon
<1>11. m - 1 \notin T
  <2> HIDE DEF T
  <2>. QED  BY <1>8, <1>10
<1>12. w[m - 1] = Rung(u, m - 1)
  BY <1>10, <1>11, Zenon
<1>13. w[m] = Rung(u, m)
  BY <1>5, <1>9, <1>10, <1>12, RungStep, Zenon
<1>. QED  BY <1>8, <1>13, Zenon

(* The routes on the way to v, and the longest of them. *)
On(v) == {p \in Routed : OnPathTo(p, v)}

Deepest(v) == {p \in On(v) : \A q \in On(v) : Len(q) <= Len(p)}

(* MatchUri finds the longest of them when there is one. *)
LEMMA MatchIs ==
  ASSUME Inv, NEW v \in Path
  PROVE  /\ MatchUri(v) = IF Deepest(v) = {} THEN nil ELSE trie[CHOOSE p \in Deepest(v) : TRUE]
         /\ Deepest(v) = {} <=> On(v) = {}
         /\ MatchUri(v) # nil <=> On(v) # {}
<1>1. {p \in Reached(v) : trie[p] # nil} = On(v)
  <2>1. \A q \in Prefixes(v) : q \in Path
    BY PrefixesAbove, Zenon
  <2>2. \A p \in DOMAIN trie : OnPathTo(p, v) => p \in Reached(v)
    BY <2>1, Zenon DEF Reached, Inv, Tree
  <2>. QED  BY <2>2, Zenon DEF Reached, On, Routed
<1>2. MatchUri(v) = IF Deepest(v) = {} THEN nil ELSE trie[CHOOSE p \in Deepest(v) : TRUE]
  <2> DEFINE withPool == {p \in Reached(v) : trie[p] # nil}
             deepest  == {p \in withPool : \A q \in withPool : Len(q) <= Len(p)}
  <2>1. MatchUri(v) = IF deepest = {} THEN nil ELSE trie[CHOOSE p \in deepest : TRUE]
    BY Zenon DEF MatchUri
  <2>2. deepest = Deepest(v)
    BY <1>1, Zenon DEF Deepest
  <2> HIDE DEF deepest
  <2>. QED  BY <2>1, <2>2, Zenon
<1>3. ASSUME On(v) # {}
      PROVE  Deepest(v) # {}
  <2> DEFINE T == {Len(v) - Len(p) : p \in On(v)}
  <2>1. \A p \in On(v) : Len(p) \in Nat /\ Len(v) \in Nat /\ Len(p) <= Len(v)
    BY PathOrder, Zenon DEF On, Routed, Inv, Tree
  <2>2. T \in SUBSET Nat
    BY <2>1
  <2>3. PICK m \in T : \A k \in T : m <= k
    <3>1. T # {}
      BY <1>3, Zenon
    <3> HIDE DEF T
    <3>. QED  BY <2>2, <3>1, LeastNumber, Zenon
  <2>4. PICK p \in On(v) : m = Len(v) - Len(p)
    BY <2>3, Zenon
  <2>5. ASSUME NEW q \in On(v)
        PROVE  Len(q) <= Len(p)
    <3>1. Len(v) - Len(p) <= Len(v) - Len(q)
      BY <2>3, <2>4, Zenon
    <3>2. Len(v) \in Nat /\ Len(p) \in Nat /\ Len(q) \in Nat
      BY <2>1, <2>4, Zenon
    <3>. QED  BY <3>1, <3>2
  <2>. QED  BY <2>4, <2>5, Zenon DEF Deepest
<1>4. Deepest(v) # {} => (CHOOSE p \in Deepest(v) : TRUE) \in On(v)
  BY Zenon DEF Deepest
<1>. QED  BY <1>2, <1>3, <1>4, Zenon DEF Deepest, On, Routed

(* A path lies above another when the hosts agree and the rest lies above. *)
LEMMA PathCons ==
  ASSUME NEW p \in Path \ {Root}, NEW v \in Path \ {Root}
  PROVE  OnPathTo(p, v) <=> p[1] = v[1] /\ OnPathTo(Tail(p), Tail(v))
<1>1. /\ Len(p) \in Nat \ {0} /\ Len(v) \in Nat \ {0}
      /\ p \in Seq(Seq(Label)) /\ v \in Seq(Seq(Label))
  BY HostOf, Zenon DEF Path
<1>2. /\ Len(Tail(p)) = Len(p) - 1 /\ \A i \in 1 .. Len(p) - 1 : Tail(p)[i] = p[i + 1]
      /\ Len(Tail(v)) = Len(v) - 1 /\ \A i \in 1 .. Len(v) - 1 : Tail(v)[i] = v[i + 1]
  BY <1>1
<1>3. ASSUME OnPathTo(p, v)
      PROVE  p[1] = v[1] /\ OnPathTo(Tail(p), Tail(v))
  <2>1. 1 \in 1 .. Len(p) /\ Len(p) <= Len(v) /\ Len(Tail(p)) <= Len(Tail(v))
    BY <1>1, <1>2, <1>3 DEF OnPathTo
  <2>2. ASSUME NEW i \in 1 .. Len(Tail(p))
        PROVE  Tail(p)[i] = Tail(v)[i]
    <3>1. i \in 1 .. Len(p) - 1 /\ i \in 1 .. Len(v) - 1 /\ i + 1 \in 1 .. Len(p)
      <4>1. Len(Tail(p)) = Len(p) - 1 /\ Len(p) \in Nat /\ Len(v) \in Nat /\ Len(p) <= Len(v)
        BY <1>1, <1>2, <2>1, Zenon
      <4>. QED  BY <4>1
    <3>2. p[i + 1] = v[i + 1]
      BY <1>3, <3>1, Zenon DEF OnPathTo
    <3>. QED  BY <1>2, <3>1, <3>2, Zenon
  <2>. QED  BY <1>3, <2>1, <2>2, Zenon DEF OnPathTo
<1>4. ASSUME p[1] = v[1], OnPathTo(Tail(p), Tail(v))
      PROVE  OnPathTo(p, v)
  <2>1. Len(p) - 1 <= Len(v) - 1 /\ \A i \in 1 .. Len(p) - 1 : Tail(p)[i] = Tail(v)[i]
    BY <1>2, <1>4, Zenon DEF OnPathTo
  <2>2. Len(p) <= Len(v)
    BY <1>1, <2>1
  <2>3. ASSUME NEW i \in 1 .. Len(p), i # 1
        PROVE  p[i] = v[i]
    <3>1. i - 1 \in 1 .. Len(p) - 1 /\ i - 1 \in 1 .. Len(v) - 1 /\ i - 1 + 1 = i
      <4>1. Len(p) \in Nat /\ Len(v) \in Nat
        BY <1>1, Zenon
      <4>. QED  BY <2>2, <2>3, <4>1
    <3>2. Tail(p)[i - 1] = p[i - 1 + 1] /\ Tail(v)[i - 1] = v[i - 1 + 1] /\ Tail(p)[i - 1] = Tail(v)[i - 1]
      BY <1>2, <2>1, <3>1, Zenon
    <3>. QED  BY <3>1, <3>2, Zenon
  <2>. QED  BY <1>4, <2>2, <2>3, Zenon DEF OnPathTo
<1>. QED  BY <1>3, <1>4, Zenon

(* The wildcard routes for u are the routes on the way to a wildcard uri. *)
LEMMA WildcardIs ==
  ASSUME NEW p \in Path \ {Root}, NEW u \in Path \ {Root}
  PROVE  WildcardFor(p, u) <=> \E j \in 1 .. Len(u[1]) - 1 : OnPathTo(p, Wild(u, j))
<1>1. ASSUME NEW j \in 1 .. Len(u[1]) - 1
      PROVE  OnPathTo(p, Wild(u, j)) <=>
               /\ p[1] = <<Star>> \o SubSeq(u[1], j + 1, Len(u[1]))
               /\ OnPathTo(Tail(p), Tail(u))
  <2>1. j \in 1 .. Len(u[1])
    BY HostOf
  <2>2. /\ Wild(u, j) \in Path \ {Root}
        /\ Wild(u, j)[1] = <<Star>> \o SubSeq(u[1], j + 1, Len(u[1]))
        /\ Tail(Wild(u, j)) = Tail(u)
    BY <2>1, WildFacts, Zenon
  <2>. QED  BY <2>2, PathCons, Zenon
<1>. QED  BY <1>1, Zenon DEF WildcardFor

(* Lookup takes the first uri with a route on the way to it. *)
LEMMA FirstHit ==
  ASSUME Inv, NEW u \in Path \ {Root}, \A j \in 2 .. Len(u) : Len(u[j]) <= 1
  PROVE  LET hits == {k \in 0 .. MaxLabels : On(Rung(u, k)) # {}}
         IN /\ hits = {} => LookupPool(u) = nil
            /\ \A k \in hits : (\A m \in hits : k <= m) => LookupPool(u) = MatchUri(Rung(u, k))
<1> DEFINE hits  == {k \in 0 .. MaxLabels : On(Rung(u, k)) # {}}
           hits0 == {k \in 0 .. MaxLabels : MatchUri(Tried(u)[k]) # nil}
           first == {k \in hits0 : \A m \in hits0 : k <= m}
           k0    == CHOOSE k \in first : TRUE
<1>1. \A k \in 0 .. MaxLabels : Tried(u)[k] = Rung(u, k)
  BY TriedIs, Zenon
<1>2. ASSUME NEW k \in 0 .. MaxLabels
      PROVE  Rung(u, k) \in Path
  <2>1. Len(u[1]) \in Nat /\ Stars(u) \in {0, 1} /\ k \in Nat
    BY HostOf, LabelAssumption DEF Stars
  <2>2. Len(u[1]) - Stars(u) > 1 /\ k # 0 =>
          (IF k + Stars(u) < Len(u[1]) THEN k + Stars(u) ELSE Len(u[1]) - 1) \in 1 .. Len(u[1])
    BY <2>1
  <2>3. Len(u[1]) - Stars(u) <= 1 \/ Len(u[1]) - Stars(u) > 1
    BY <2>1
  <2>. QED  BY <2>2, <2>3, WildFacts, Zenon DEF Rung
<1>3. hits0 = hits
  <2>1. \A k \in 0 .. MaxLabels : MatchUri(Tried(u)[k]) # nil <=> On(Rung(u, k)) # {}
    BY <1>1, <1>2, MatchIs, Zenon
  <2>. QED  BY <2>1, Zenon
<1>4. LookupPool(u) = IF first = {} THEN nil ELSE MatchUri(Tried(u)[k0])
  BY Zenon DEF LookupPool
<1>5. first = {k \in hits : \A m \in hits : k <= m}
  <2> HIDE DEF hits, hits0
  <2>. QED  BY <1>3, Zenon
<1> HIDE DEF first
<1>6. first # {} => k0 \in first
  BY Zenon
<1> HIDE DEF k0, hits0
<1>7. hits = {} => LookupPool(u) = nil
  BY <1>4, <1>5, Zenon
<1>8. ASSUME NEW k \in hits, \A m \in hits : k <= m
      PROVE  LookupPool(u) = MatchUri(Rung(u, k))
  <2>1. k \in first
    <3> HIDE DEF hits
    <3>. QED  BY <1>5, <1>8, Zenon
  <2>2. k0 \in hits /\ k0 \in 0 .. MaxLabels /\ k0 <= k /\ k <= k0 /\ k \in 0 .. MaxLabels
    BY <1>5, <1>6, <1>8, <2>1, Zenon
  <2>3. k0 = k
    BY <2>2
  <2>. QED  BY <1>1, <1>4, <2>1, <2>2, <2>3, Zenon
<1>. QED  BY <1>7, <1>8, Zenon

(* Lookup finds the best route. *)
LEMMA LookupBest ==
  ASSUME Inv, NEW u \in Path \ {Root}, \A j \in 2 .. Len(u) : Len(u[j]) <= 1,
         Len(u[1]) <= MaxLabels
  PROVE  LookupPool(u) = IF BestRoutes(u) = {} THEN nil
                         ELSE trie[CHOOSE p \in BestRoutes(u) : TRUE]
<1> DEFINE L    == Len(u[1])
           o    == Stars(u)
           hits == {k \in 0 .. MaxLabels : On(Rung(u, k)) # {}}
           wild == {p \in Routed : WildcardFor(p, u)}
<1>1. L \in Nat /\ o \in {0, 1} /\ MaxLabels \in Nat /\ L <= MaxLabels
  BY HostOf, LabelAssumption DEF Stars
<1>2. Routed \subseteq Path \ {Root}
  BY Zenon DEF Inv, Tree, PoolsInPlace, Routed
<1>3. /\ hits = {} => LookupPool(u) = nil
      /\ \A k \in hits : (\A m \in hits : k <= m) => LookupPool(u) = MatchUri(Rung(u, k))
  BY FirstHit, Zenon
<1>4. Rung(u, 0) = u
  BY Zenon DEF Rung
<1>5. CASE On(u) # {}
  <2>1. 0 \in hits /\ \A m \in hits : 0 <= m
    BY <1>1, <1>4, <1>5
  <2>2. LookupPool(u) = MatchUri(u)
    <3> HIDE DEF hits
    <3>. QED  BY <1>3, <1>4, <2>1, Zenon
  <2>3. BestRoutes(u) = Deepest(u)
    BY <1>5, Zenon DEF BestRoutes, Deepest, On
  <2>. QED  BY <2>2, <2>3, MatchIs, Zenon
<1>6. CASE On(u) = {}
  <2>1. BestRoutes(u) = {p \in wild : \A q \in wild : ~MoreSpecific(q, p)}
    BY <1>6, Zenon DEF BestRoutes, On
  <2>2. \A j \in 1 .. L - 1 :
          /\ Wild(u, j) \in Path \ {Root}
          /\ Len(Wild(u, j)[1]) = L - j + 1
    <3>1. \A j \in 1 .. L - 1 : j \in 1 .. L
      BY <1>1
    <3>. QED  BY <3>1, WildFacts, Zenon
  <2>3. \A p \in wild : \E j \in 1 .. L - 1 : p \in On(Wild(u, j))
    BY <1>2, WildcardIs, Zenon DEF On
  <2>4. \A j \in 1 .. L - 1 : On(Wild(u, j)) \subseteq wild
    BY <1>2, WildcardIs, Zenon DEF On
  <2>5. o = 1 => On(Wild(u, 1)) = {}
    <3>1. SUFFICES ASSUME o = 1 PROVE Wild(u, 1) = u
      BY <1>6, Zenon
    <3>2. L > 1 /\ u[1][1] = Star /\ u[1] \in Seq(Label)
      BY <3>1, HostOf DEF Stars
    <3> DEFINE h == <<Star>> \o SubSeq(u[1], 1 + 1, L)
    <3>3. /\ SubSeq(u[1], 1 + 1, L) \in Seq(Label) /\ Len(SubSeq(u[1], 1 + 1, L)) = L - 1
          /\ \A i \in 1 .. L - 1 : SubSeq(u[1], 1 + 1, L)[i] = u[1][1 + i]
      <4>1. 1 \in 0 .. L
        BY <1>1, <3>2
      <4>. QED  BY <3>2, <4>1, Suffix, Zenon
    <3>4. /\ h \in Seq(Label) /\ Len(h) = L - 1 + 1 /\ h[1] = Star
          /\ Tail(h) = SubSeq(u[1], 1 + 1, L)
      BY <3>3, StarHost, Zenon
    <3>5. \A i \in 1 .. L - 1 : Tail(h)[i] = h[i + 1]
      <4> HIDE DEF h
      <4>. QED  BY <1>1, <3>4
    <3> HIDE DEF h
    <3>6. ASSUME NEW i \in 1 .. Len(h)
          PROVE  h[i] = u[1][i]
      <4>1. i = 1 \/ (i - 1 \in 1 .. L - 1 /\ i - 1 + 1 = i /\ 1 + (i - 1) = i)
        <5>1. Len(h) = L
          BY <1>1, <3>4
        <5>. QED  BY <1>1, <5>1
      <4>2. CASE i = 1
        BY <3>2, <3>4, <4>2, Zenon
      <4>3. CASE i - 1 \in 1 .. L - 1 /\ i - 1 + 1 = i /\ 1 + (i - 1) = i
        BY <3>3, <3>4, <3>5, <4>3, Zenon
      <4>. QED  BY <4>1, <4>2, <4>3, Zenon
    <3>7. Len(h) = Len(u[1])
      BY <1>1, <3>4
    <3>8. h = u[1]
      BY <3>2, <3>4, <3>6, <3>7, SameSeq, Zenon
    <3>9. Wild(u, 1) = <<h>> \o Tail(u)
      BY Zenon DEF Wild, h
    <3>. QED  BY <3>4, <3>8, <3>9, NewHost, Zenon
  <2> DEFINE D == {j \in 1 .. L - 1 : On(Wild(u, j)) # {}}
  <2>6. \A k \in hits : k # 0 /\ \E j \in D : j <= k + o /\ (k + o < L => j = k + o)
    <3>1. SUFFICES ASSUME NEW k \in hits
                   PROVE  k # 0 /\ \E j \in D : j <= k + o /\ (k + o < L => j = k + o)
      BY Zenon
    <3>2. k # 0 /\ ~(L - o <= 1)
      BY <1>6, Zenon DEF Rung
    <3> DEFINE j == IF k + o < L THEN k + o ELSE L - 1
    <3>3. On(Wild(u, j)) # {}
      BY <3>2, Zenon DEF Rung
    <3>4. j \in 1 .. L - 1 /\ j <= k + o /\ (k + o < L => j = k + o)
      <4>1. k \in Nat
        BY <1>1
      <4> HIDE DEF L, o, hits
      <4>. QED  BY <1>1, <3>2, <4>1
    <3> HIDE DEF j
    <3>. QED  BY <3>2, <3>3, <3>4, Zenon
  <2>7. CASE D = {}
    <3>1. hits = {}
      <4> HIDE DEF D, hits
      <4>. QED  BY <2>6, <2>7, Zenon
    <3>2. wild = {}
      BY <2>3, <2>7, Zenon
    <3>3. BestRoutes(u) = {}
      <4> HIDE DEF wild
      <4>. QED  BY <2>1, <3>2, Zenon
    <3>. QED  BY <1>3, <3>1, <3>3, Zenon
  <2>8. CASE D # {}
    <3>1. D \in SUBSET Nat
      OBVIOUS
    <3>2. PICK j \in D : \A i \in D : j <= i
      <4> HIDE DEF D
      <4>. QED  BY <2>8, <3>1, LeastNumber, Zenon
    <3>3. j \in 1 .. L - 1 /\ On(Wild(u, j)) # {} /\ j - o >= 1
      <4>1. j \in 1 .. L - 1 /\ On(Wild(u, j)) # {}
        BY <3>2, Zenon
      <4>2. o = 1 => j # 1
        BY <2>5, <4>1, Zenon
      <4> HIDE DEF L, o, D
      <4>. QED  BY <1>1, <4>1, <4>2
    <3> DEFINE k == j - o
    <3>4. k \in 0 .. MaxLabels /\ k # 0 /\ ~(L - o <= 1) /\ k + o < L /\ k + o = j
      <4> HIDE DEF L, o, D
      <4>. QED  BY <1>1, <3>3
    <3>5. Rung(u, k) = Wild(u, j)
      <4> HIDE DEF k
      <4>. QED  BY <3>4, Zenon DEF Rung
    <3>6. k \in hits
      BY <3>3, <3>4, <3>5, Zenon
    <3>7. ASSUME NEW m \in hits
          PROVE  k <= m
      <4>1. m \in Nat
        BY <1>1
      <4>2. PICK i \in D : i <= m + o
        <5> HIDE DEF D, hits
        <5>. QED  BY <2>6, Zenon
      <4>3. i \in Nat /\ j <= i /\ i <= m + o /\ j \in Nat
        BY <3>1, <3>2, <4>2, Zenon
      <4> HIDE DEF o, D, hits
      <4>. QED  BY <1>1, <4>1, <4>3
    <3>8. LookupPool(u) = MatchUri(Wild(u, j))
      <4> HIDE DEF hits, k
      <4>. QED  BY <1>3, <3>5, <3>6, <3>7, Zenon
    <3>9. \A i \in 1 .. L - 1 : \A p \in On(Wild(u, i)) : Len(p[1]) = L - i + 1 /\ Len(p) \in Nat
      <4>1. SUFFICES ASSUME NEW i \in 1 .. L - 1, NEW p \in On(Wild(u, i))
                     PROVE  Len(p[1]) = L - i + 1 /\ Len(p) \in Nat
        BY Zenon
      <4>2. p \in Path \ {Root} /\ OnPathTo(p, Wild(u, i))
        BY <1>2, Zenon DEF On
      <4>3. p[1] = Wild(u, i)[1]
        BY <2>2, <4>2, PathCons, Zenon
      <4>4. Len(p) \in Nat
        BY <4>2, PathOrder, Zenon
      <4>. QED  BY <2>2, <4>3, <4>4, Zenon
    <3>10. ASSUME NEW p \in BestRoutes(u)
           PROVE  p \in Deepest(Wild(u, j))
      <4>1. p \in wild /\ \A q \in wild : ~MoreSpecific(q, p)
        BY <2>1, Zenon
      <4>2. PICK i \in 1 .. L - 1 : p \in On(Wild(u, i))
        BY <2>3, <4>1, Zenon
      <4>3. PICK q \in On(Wild(u, j)) : q \in wild
        BY <2>4, <3>3, Zenon
      <4>4. Len(p[1]) = L - i + 1 /\ Len(q[1]) = L - j + 1 /\ j <= i /\ ~(Len(q[1]) > Len(p[1]))
        BY <3>2, <3>3, <3>9, <4>1, <4>2, <4>3, Zenon DEF MoreSpecific
      <4>5. i = j
        <5> HIDE DEF L, D, wild
        <5>. QED  BY <1>1, <3>3, <4>2, <4>4
      <4>6. ASSUME NEW r \in On(Wild(u, j))
            PROVE  Len(r) <= Len(p)
        <5>1. /\ Len(r[1]) = Len(p[1]) /\ Len(r) \in Nat /\ Len(p) \in Nat
              /\ ~(Len(r[1]) = Len(p[1]) /\ Len(r) > Len(p))
          BY <2>4, <3>3, <3>9, <4>1, <4>2, <4>5, Zenon DEF MoreSpecific
        <5>. QED  BY <5>1
      <4>. QED  BY <4>2, <4>5, <4>6, Zenon DEF Deepest
    <3>11. ASSUME NEW p \in Deepest(Wild(u, j))
           PROVE  p \in BestRoutes(u)
      <4>1. p \in On(Wild(u, j)) /\ \A q \in On(Wild(u, j)) : Len(q) <= Len(p)
        BY Zenon DEF Deepest
      <4>2. p \in wild
        BY <2>4, <3>3, <4>1, Zenon
      <4>3. ASSUME NEW q \in wild
            PROVE  ~MoreSpecific(q, p)
        <5>1. PICK i \in 1 .. L - 1 : q \in On(Wild(u, i))
          BY <2>3, Zenon
        <5>2. j <= i
          BY <3>2, <5>1, Zenon
        <5>3. Len(q[1]) = L - i + 1 /\ Len(p[1]) = L - j + 1 /\ Len(q) \in Nat /\ Len(p) \in Nat
          BY <3>3, <3>9, <4>1, <5>1, Zenon
        <5>4. i = j => Len(q) <= Len(p)
          BY <4>1, <5>1, Zenon
        <5> HIDE DEF L, D, wild
        <5>. QED  BY <1>1, <3>3, <5>1, <5>2, <5>3, <5>4 DEF MoreSpecific
      <4> HIDE DEF wild
      <4>. QED  BY <2>1, <4>2, <4>3, Zenon
    <3>12. BestRoutes(u) = Deepest(Wild(u, j))
      BY <3>10, <3>11, Zenon
    <3>. QED  BY <2>2, <3>3, <3>8, <3>12, MatchIs, Zenon
  <2>. QED  BY <2>7, <2>8, Zenon
<1>. QED  BY <1>5, <1>6, Zenon

(* Whatever registrations, removals and pruning have done to the trie, Lookup
   finds the longest route that is a prefix of the uri, or else the longest
   path below the most specific wildcard host: for any number of uris, when no
   uri has a "." in its path. *)
THEOREM LookupCorrect ==
  ASSUME PlainPaths
  PROVE  Spec => []LookupMostSpecific
<1>1. Inv => LookupMostSpecific
  BY PlainPaths, LookupBest, UriAssumption, Zenon DEF LookupMostSpecific, PlainPaths
<1>. QED  BY <1>1, RegistryInvariant, PTL

-----------------------------------------------------------------------------
(* What a pruning pass leaves. *)

NoEndpoint(t, pools, p) == t[p] = nil \/ IsEmpty(pools, t[p])

(* During a pass the leaves the walk is done with have endpoints. *)
VisitedLeavesLive ==
  prune.active =>
    \A p \in DOMAIN trie : p # Root /\ isLeaf(trie, p) /\ p \notin prune.todo =>
      ~NoEndpoint(trie, pool, p)

(* Snip(n) takes a leaf without endpoints, and goes up until what becomes a
   leaf has some. *)
LEMMA SnipLeaves ==
  ASSUME NEW t, NEW pools, Tree(t), NEW n \in DOMAIN t
  PROVE  LET s == Snip(t, pools, n)
         IN /\ n # Root /\ isLeaf(t, n) /\ NoEndpoint(t, pools, n) => n \notin DOMAIN s
            /\ \A p \in DOMAIN s : p # Root /\ isLeaf(s, p) /\ ~isLeaf(t, p) =>
                 ~NoEndpoint(t, pools, p)
<1> DEFINE X == {r \in DOMAIN t : SnippedWith(t, pools, n, r)}
<1>1. Snip(t, pools, n) = Without(t, X) /\ DOMAIN Without(t, X) = DOMAIN t \ X
  BY Zenon DEF Snip, Without
<1>2. n \in Path
  BY Zenon DEF Tree
<1>3. ASSUME n # Root, isLeaf(t, n), NoEndpoint(t, pools, n)
      PROVE  n \in X
  <2>1. \A s \in DOMAIN t : OnPathTo(n, s) /\ OnPathTo(s, n) => s = n
    <3>1. ASSUME NEW s \in DOMAIN t, OnPathTo(n, s), OnPathTo(s, n)
          PROVE  s = n
      <4>1. s \in Path
        BY Zenon DEF Tree
      <4>. QED  BY <1>2, <3>1, <4>1, PathOrder
    <3>. QED  BY <3>1, Zenon
  <2>2. OnPathTo(n, n)
    BY <1>2, PathOrder, Zenon
  <2>. QED  BY <1>3, <2>1, <2>2, Zenon DEF SnippedWith, isLeaf, NoEndpoint
<1>4. ASSUME NEW p \in DOMAIN t \ X, p # Root, isLeaf(Without(t, X), p), ~isLeaf(t, p),
             NoEndpoint(t, pools, p)
      PROVE  FALSE
  <2>1. p \in Path /\ Len(p) \in Nat
    BY PathOrder, Zenon DEF Tree
  <2>2. \A c \in Children(t, p) : c \in X
    BY <1>1, <1>4, Zenon DEF isLeaf, Children
  <2>3. PICK c \in Children(t, p) : TRUE
    BY <1>4, Zenon DEF isLeaf
  <2>4. /\ SnippedWith(t, pools, n, c) /\ OnPathTo(c, n) /\ OnPathTo(p, c)
        /\ c \in Path /\ Len(c) = Len(p) + 1
    BY <2>2, <2>3, Zenon DEF SnippedWith, Children, Tree
  <2>5. OnPathTo(p, n) /\ ~SnippedWith(t, pools, n, p)
    BY <1>2, <2>1, <2>4, PathTransitive, Zenon
  <2>6. PICK s \in DOMAIN t : /\ OnPathTo(p, s) /\ OnPathTo(s, n)
                              /\ ~ /\ NoEndpoint(t, pools, s)
                                   /\ \A a \in Children(t, s) : OnPathTo(a, n)
    BY <1>4, <2>5, Zenon DEF SnippedWith, NoEndpoint
  <2>7. s = p
    <3>1. s \in Path /\ Len(s) \in Nat
      BY PathOrder, Zenon DEF Tree
    <3>2. ~OnPathTo(c, s)
      BY <2>4, <2>6, Zenon DEF SnippedWith, NoEndpoint
    <3>3. ~(Len(c) <= Len(s))
      BY <1>2, <2>4, <2>6, <3>1, <3>2, PathLinear, Zenon
    <3>4. Len(p) <= Len(s)
      BY <2>1, <2>6, <3>1, PathOrder, Zenon
    <3>. QED  BY <2>1, <2>4, <2>6, <3>1, <3>3, <3>4, PathOrder
  <2>. QED  BY <1>4, <2>2, <2>6, <2>7, Zenon DEF SnippedWith
<1> HIDE DEF X
<1>. QED  BY <1>1, <1>3, <1>4, Zenon

(* Visiting a node leaves no leaf without endpoints behind. *)
LEMMA PruneNodeLive ==
  ASSUME Inv, VisitedLeavesLive, NEW n \in prune.todo, PruneNode(n)
  PROVE  VisitedLeavesLive'
<1>1. /\ n \in DOMAIN trie /\ n \in Path /\ prune.active
      /\ Tree(trie) /\ NoDeadLeafIn(trie)
      /\ n # Root
  <2>1. n \in DOMAIN trie /\ n \in Path /\ prune.active /\ Tree(trie) /\ NoDeadLeafIn(trie) /\ prune.cursor \in Path
    BY Zenon DEF Inv, TypeOK, WalkStaysInTrie, PruneNode
  <2>2. n # Root
    BY <2>1, PathOrder, Zenon DEF Inv, WalkInv
  <2>. QED  BY <2>1, <2>2, Zenon
<1>2. prune'.todo = prune.todo \ {n}
  BY Zenon DEF PruneNode
<1>3. CASE trie[n] = nil
  <2>1. UNCHANGED <<trie, pool>>
    BY <1>3, Zenon DEF PruneNode
  <2>2. ~isLeaf(trie, n)
    BY <1>1, <1>3, Zenon DEF NoDeadLeafIn
  <2>3. ASSUME NEW p \in DOMAIN trie, p # Root, isLeaf(trie, p), p \notin prune.todo \ {n}
        PROVE  ~NoEndpoint(trie, pool, p)
    BY <1>1, <2>2, <2>3, Zenon DEF VisitedLeavesLive
  <2>4. \A p : NoEndpoint(trie, pool, p)' <=> NoEndpoint(trie, pool, p)
    BY <2>1, Zenon DEF NoEndpoint, IsEmpty
  <2>. QED  BY <1>2, <2>1, <2>3, <2>4, Zenon DEF VisitedLeavesLive
<1>4. CASE trie[n] # nil
  <2>1. trie[n] \in Pool /\ pool \in [Pool -> PoolRecord]
    BY <1>1, <1>4, Zenon DEF Inv, TypeOK, PoolRecord
  <2>2. /\ pool' = [pool EXCEPT ![trie[n]] = Pruned(pool[trie[n]])]
        /\ trie' = Snip(trie, pool', n)
    BY <1>4, Zenon DEF PruneNode
  <2>3. \A p \in DOMAIN trie' : p \in DOMAIN trie /\ trie'[p] = trie[p]
    BY <1>4, PruneNodeInv, Zenon
  <2>4. /\ isLeaf(trie, n) /\ NoEndpoint(trie, pool', n) => n \notin DOMAIN trie'
        /\ \A p \in DOMAIN trie' : p # Root /\ isLeaf(trie', p) /\ ~isLeaf(trie, p) =>
             ~NoEndpoint(trie, pool', p)
    <3> DEFINE s == Snip(trie, pool', n)
    <3>1. /\ n # Root /\ isLeaf(trie, n) /\ NoEndpoint(trie, pool', n) => n \notin DOMAIN s
          /\ \A p \in DOMAIN s : p # Root /\ isLeaf(s, p) /\ ~isLeaf(trie, p) =>
               ~NoEndpoint(trie, pool', p)
      BY <1>1, SnipLeaves, Zenon
    <3>2. trie' = s
      BY <2>2, Zenon
    <3> HIDE DEF s
    <3>. QED  BY <1>1, <3>1, <3>2, Zenon
  <2>5. ASSUME NEW p \in DOMAIN trie', p # Root, isLeaf(trie', p), p \notin prune.todo \ {n}
        PROVE  ~NoEndpoint(trie, pool', p)
    <3>1. CASE ~isLeaf(trie, p)
      BY <2>4, <2>5, <3>1, Zenon
    <3>2. CASE isLeaf(trie, p) /\ p = n
      BY <2>4, <2>5, <3>2, Zenon
    <3>3. CASE isLeaf(trie, p) /\ p # n
      <4>1. p \in DOMAIN trie /\ trie[p] # nil /\ trie[p] \in Pool
        BY <1>1, <2>3, <2>5, <3>3, Zenon DEF NoDeadLeafIn, Inv, TypeOK
      <4>2. ~IsEmpty(pool, trie[p])
        BY <1>1, <2>5, <3>3, <4>1, Zenon DEF VisitedLeavesLive, NoEndpoint
      <4>3. trie[p] # trie[n]
        BY <1>1, <1>4, <3>3, <4>1, Zenon DEF Inv, PoolsInPlace
      <4>4. pool'[trie[p]] = pool[trie[p]]
        BY <2>1, <2>2, <4>1, <4>3, Zenon
      <4>. QED  BY <4>1, <4>2, <4>4, Zenon DEF NoEndpoint, IsEmpty
    <3>. QED  BY <3>1, <3>2, <3>3, Zenon
  <2>6. \A p \in DOMAIN trie' : NoEndpoint(trie, pool, p)' <=> NoEndpoint(trie, pool', p)
    BY <2>3, Zenon DEF NoEndpoint
  <2>. QED  BY <1>2, <2>5, <2>6, Zenon DEF VisitedLeavesLive
<1>. QED  BY <1>3, <1>4, Zenon

(* Registrations grow older but do not go away with time. *)
LEMMA TickLive ==
  ASSUME Inv, VisitedLeavesLive, Tick
  PROVE  VisitedLeavesLive'
<1>1. pool \in [Pool -> PoolRecord] /\ UNCHANGED <<trie, prune>>
  BY Zenon DEF Inv, TypeOK, PoolRecord, Tick
<1>2. \A age \in Age \cup {nil} : age # nil => Older(age) # nil
  BY ThresholdAssumption, PoolAssumption DEF Older, Age
<1>3. ASSUME NEW pl \in Pool, ~IsEmpty(pool, pl)
      PROVE  ~IsEmpty(pool', pl)
  <2>1. PICK ep \in Endpoint : pool[pl].member[ep] # nil
    BY <1>3, Zenon DEF IsEmpty
  <2>2. pool[pl].member[ep] \in Age \cup {nil}
    BY <1>1, Zenon DEF PoolRecord
  <2>3. pool'[pl].member[ep] = Older(pool[pl].member[ep])
    BY Zenon DEF Tick, Holding
  <2>. QED  BY <1>2, <2>1, <2>2, <2>3, Zenon DEF IsEmpty
<1>4. \A p \in DOMAIN trie : ~NoEndpoint(trie, pool, p) => ~NoEndpoint(trie', pool', p)
  BY <1>1, <1>3, Zenon DEF NoEndpoint, Inv, TypeOK
<1>5. \A p \in DOMAIN trie : NoEndpoint(trie, pool, p)' <=> NoEndpoint(trie', pool', p)
  BY Zenon DEF NoEndpoint
<1>. QED  BY <1>1, <1>4, <1>5, Zenon DEF VisitedLeavesLive

(* When a pruning pass is over, every leaf of the trie has endpoints, so a route
   without endpoints is left only above one that has some: EachNodeWithPool and
   Snip take every empty leaf, the ones Snip's own removals make included. *)
PassLeavesNoEmptyLeaf ==
  [][PruneEnd => \A p \in DOMAIN trie : p # Root /\ isLeaf(trie, p) =>
                   trie[p] # nil /\ ~IsEmpty(pool, trie[p])]_vars

(* Every pruning pass of the registry ends like that, for any set of uris. *)
THEOREM PassComplete == Spec => PassLeavesNoEmptyLeaf
<1>1. Init => VisitedLeavesLive
  BY Zenon DEF Init, NotPruning, VisitedLeavesLive
<1>2. Inv /\ VisitedLeavesLive /\ [Next]_vars => VisitedLeavesLive'
  <2>. SUFFICES ASSUME Inv, VisitedLeavesLive, [Next]_vars
                PROVE  VisitedLeavesLive'
    BY Zenon
  <2>1. CASE ~prune'.active
    BY <2>1, Zenon DEF VisitedLeavesLive
  <2>2. CASE prune'.active
    <3>1. ASSUME NEW n \in prune.todo, PruneNode(n)
          PROVE  VisitedLeavesLive'
      BY <3>1, PruneNodeLive, Zenon
    <3>2. CASE PruneStart
      BY <3>2, Zenon DEF PruneStart, VisitedLeavesLive
    <3>3. CASE UNCHANGED <<trie, pool, prune>>
      BY <3>3, Zenon DEF VisitedLeavesLive, NoEndpoint, IsEmpty
    <3>4. CASE LockFree /\ UNCHANGED prune
      BY <2>2, <3>4, Zenon DEF LockFree
    <3>5. CASE PruneEnd
      BY <2>2, <3>5, Zenon DEF PruneEnd, NotPruning
    <3>. QED  BY <3>1, <3>2, <3>3, <3>4, <3>5, TickLive, ZenonT(30) DEF Next, Pruning, Register,
                RegisterKnown, RegisterNew, Unregister, Lookup, Finish, StartPruningCycle,
                StopPruningCycle, TickerFires, vars
  <2>. QED  BY <2>1, <2>2, Zenon
<1>3. VisitedLeavesLive /\ PruneEnd =>
        \A p \in DOMAIN trie : p # Root /\ isLeaf(trie, p) => trie[p] # nil /\ ~IsEmpty(pool, trie[p])
  BY Zenon DEF PruneEnd, VisitedLeavesLive, NoEndpoint
<1>. QED  BY <1>1, <1>2, <1>3, RegistryInvariant, PTL DEF Spec, PassLeavesNoEmptyLeaf

=============================================================================
