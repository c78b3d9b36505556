--------------------------- MODULE AppHeapProofs ----------------------------
(*****************************************************************************)
(* Proofs about the heaps of AppHeap, about popping a copy of one, and       *)
(* about the operators by which TopApps counts a response and trims its      *)
(* entries, for any set of applications and any bounds on time and           *)
(* responses.                                                                *)
(*****************************************************************************)
EXTENDS TopApps, WellFoundedInduction, TLAPS

-----------------------------------------------------------------------------
(* Loops. *)

(* The least-number principle. *)
LEMMA LeastNumber ==
  ASSUME NEW T \in SUBSET Nat, T # {}
  PROVE  \E m \in T : \A k \in T : m <= k
<1> DEFINE R == {ss \in Nat \X Nat : ss[1] < ss[2]}
<1>1. IsWellFoundedOn(R, Nat)
  BY NatLessThanWellFounded, Zenon DEF OpToRel
<1>2. PICK m \in T : \A k \in T : ~(<<k, m>> \in R)
  <2> HIDE DEF R
  <2>. QED  BY <1>1, WFMin, Zenon
<1>3. \A k \in T : ~(k < m)
  BY <1>2, Zenon
<1>. QED  BY <1>3

(* f[k] is what k iterations of F make of x. *)
Iterates(f, F, x, n) == f = [k \in 0 .. n |-> IF k = 0 THEN x ELSE F[f[k - 1]]]

(* What one iteration keeps, n iterations keep, whatever function is meant. *)
LEMMA Kept ==
  ASSUME NEW J, NEW f, NEW n \in Nat, <<0, f[0]>> \in J,
         \A k \in 1 .. n : <<k - 1, f[k - 1]>> \in J => <<k, f[k]>> \in J
  PROVE  \A k \in 0 .. n : <<k, f[k]>> \in J
<1> DEFINE T == {k \in 0 .. n : <<k, f[k]>> \notin J}
<1>1. SUFFICES ASSUME T # {} PROVE FALSE
  BY Zenon
<1>2. PICK m \in T : \A k \in T : m <= k
  <2>1. T \in SUBSET Nat
    OBVIOUS
  <2> HIDE DEF T
  <2>. QED  BY <1>1, <2>1, LeastNumber, Zenon
<1>3. m # 0
  BY <1>2, Zenon
<1>4. m \in 1 .. n /\ m - 1 \in 0 .. n /\ ~(m <= m - 1)
  BY <1>2, <1>3
<1>5. m - 1 \notin T
  BY <1>2, <1>4, Zenon
<1>. QED  BY <1>2, <1>4, <1>5, Zenon

(* Iterating F keeps J, a set of pairs of a number of iterations and a state. *)
Keeps(J, B, F) ==
  /\ \A k \in Nat : \A y : <<k, y>> \in J => y \in B
  /\ \A k \in Nat : \A y \in B : <<k, y>> \in J => <<k + 1, F[y]>> \in J

(* f iterates F from x as long as it stays in B. *)
Follows(f, F, B, x, n) ==
  f[0] = x /\ \A k \in 1 .. n : f[k - 1] \in B => f[k] = F[f[k - 1]]

(* Such a function exists, and whatever is one keeps J. *)
LEMMA Loop ==
  ASSUME NEW J, NEW B, NEW F, NEW x, NEW n \in Nat, Keeps(J, B, F), <<0, x>> \in J
  PROVE  /\ \E f : Iterates(f, F, x, n) /\ \A k \in 0 .. n : f[k] \in B
         /\ \A f : Follows(f, F, B, x, n) => \A k \in 0 .. n : <<k, f[k]>> \in J
(* There is such a function. *)
<1>Iterated.
  ASSUME n \in Nat
  PROVE  \E f : Iterates(f, F, x, n)
  <2> USE <1>Iterated
  <2> DEFINE Iter(f, m) == f = [k \in 0 .. m |-> IF k = 0 THEN x ELSE F[f[k - 1]]]
             T == {m \in Nat : ~ \E f : Iter(f, m)}
  <2>1. SUFFICES ASSUME T # {} PROVE FALSE
    BY Zenon DEF Iterates
  <2>2. PICK m \in T : \A k \in T : m <= k
    <3>1. T \in SUBSET Nat
      BY Zenon
    <3> HIDE DEF T
    <3>. QED  BY <2>1, <3>1, LeastNumber, Zenon
  <2>3. m # 0
    <3>1. Iter([k \in 0 .. 0 |-> x], 0)
      OBVIOUS
    <3>. QED  BY <2>2, <3>1, Zenon
  <2>4. m \in Nat \ {0} /\ m - 1 \in Nat /\ m - 1 \in 0 .. (m - 1)
    BY <2>2, <2>3
  <2>5. m - 1 \notin T
    <3> HIDE DEF T
    <3>. QED  BY <2>2, <2>4
  <2>6. PICK f : Iter(f, m - 1)
    BY <2>4, <2>5, Zenon
  <2> DEFINE g == [k \in 0 .. m |-> IF k = m THEN F[f[m - 1]] ELSE f[k]]
  <2>7. ASSUME NEW k \in 0 .. m
        PROVE  g[k] = IF k = 0 THEN x ELSE F[g[k - 1]]
    <3>1. CASE k = 0
      <4>1. k # m /\ k \in 0 .. (m - 1)
        BY <2>4, <3>1
      <4>. QED  BY <2>6, <3>1, <4>1, Zenon
    <3>2. CASE k = m
      <4>1. m - 1 # m /\ m - 1 \in 0 .. m /\ k # 0
        BY <2>4, <3>2
      <4>. QED  BY <3>2, <4>1, Zenon
    <3>3. CASE k # 0 /\ k # m
      <4>1. k - 1 # m /\ k - 1 \in 0 .. m /\ k \in 0 .. (m - 1)
        BY <2>4, <3>3
      <4>. QED  BY <2>6, <3>3, <4>1, Zenon
    <3>. QED  BY <3>1, <3>2, <3>3, Zenon
  <2>8. Iter(g, m)
    <3>1. g = [k \in 0 .. m |-> g[k]]
      BY Zenon
    <3> HIDE DEF g
    <3>. QED  BY <2>7, <3>1, Zenon
  <2> HIDE DEF g
  <2>. QED  BY <2>2, <2>8, Zenon
<1>a. /\ \A k \in Nat : \A y : <<k, y>> \in J => y \in B
      /\ \A k \in Nat : \A y \in B : <<k, y>> \in J => <<k + 1, F[y]>> \in J
  BY Zenon DEF Keeps
<1>1. ASSUME NEW f, f[0] = x, \A k \in 1 .. n : f[k - 1] \in B => f[k] = F[f[k - 1]]
      PROVE  \A k \in 0 .. n : <<k, f[k]>> \in J
  <2>1. ASSUME NEW k \in 1 .. n, <<k - 1, f[k - 1]>> \in J
        PROVE  <<k, f[k]>> \in J
    <3>1. k - 1 \in Nat /\ k = (k - 1) + 1
      OBVIOUS
    <3>2. f[k - 1] \in B
      BY <1>a, <2>1, <3>1, Zenon
    <3>3. <<(k - 1) + 1, f[k]>> \in J
      BY <1>1, <1>a, <2>1, <3>1, <3>2, Zenon
    <3>. QED  BY <3>1, <3>3, Zenon
  <2>2. \A k \in 1 .. n : <<k - 1, f[k - 1]>> \in J => <<k, f[k]>> \in J
    BY <2>1, Zenon
  <2>3. <<0, f[0]>> \in J
    BY <1>1, Zenon
  <2>. QED  BY <2>2, <2>3, Kept
<1>2. PICK f : Iterates(f, F, x, n)
  BY <1>Iterated, Zenon
<1>3. 0 \in 0 .. n /\ \A k \in 1 .. n : k # 0 /\ k \in 0 .. n
  OBVIOUS
<1>4. f[0] = x /\ \A k \in 1 .. n : f[k] = F[f[k - 1]]
  BY <1>2, <1>3, Zenon DEF Iterates
<1>5. \A k \in 0 .. n : k \in Nat
  OBVIOUS
<1>6. \A k \in 0 .. n : f[k] \in B
  BY <1>1, <1>4, <1>5, <1>a, Zenon
<1>. QED  BY <1>1, <1>2, <1>6, Zenon DEF Follows

-----------------------------------------------------------------------------
(* The order of a heap, on the keys alone: v[k] is the key at place k. *)

Sorted(v, n) == \A k \in 2 .. n : v[k \div 2] <= v[k]

(* In order but for b, which may come before its parent. *)
UpV(v, n, b) ==
  \A k \in 2 .. n : /\ k # b => v[k \div 2] <= v[k]
                    /\ b >= 2 /\ k \div 2 = b => v[b \div 2] <= v[k]

(* In order but for c, which may come after its children, and for a, which as
   long as it is c may come before its parent. *)
DownV(v, n, c, a) ==
  \A k \in 2 .. n : /\ k \div 2 # c /\ k # a => v[k \div 2] <= v[k]
                    /\ c >= 2 /\ k \div 2 = c => v[c \div 2] <= v[k]
                    /\ c # a /\ k = a => v[k \div 2] <= v[k]

LEMMA LeqTransitive == \A x, y, z \in Int : x <= y /\ y <= z => x <= z
OBVIOUS

LEMMA LessLeq == \A x, y \in Int : x < y => x <= y
OBVIOUS

LEMMA Half ==
  ASSUME NEW k \in Nat
  PROVE  /\ k \div 2 \in Nat
         /\ k \div 2 <= k
         /\ k >= 1 => k \div 2 < k
         /\ k >= 2 => k \div 2 >= 1
         /\ k = 2 * (k \div 2) \/ k = 2 * (k \div 2) + 1
         /\ (2 * k) \div 2 = k /\ (2 * k + 1) \div 2 = k
OBVIOUS

(* Keys v with those at a and b exchanged are w. *)
Exchanged(v, w, n, a, b) ==
  /\ w[a] = v[b] /\ w[b] = v[a]
  /\ \A k \in 1 .. n : k # a /\ k # b => w[k] = v[k]

(* An iteration of up that exchanges. *)
LEMMA UpMove ==
  ASSUME NEW n \in Nat, NEW v \in [1 .. n -> Int], NEW w \in [1 .. n -> Int],
         NEW b \in 2 .. n, v[b] < v[b \div 2], UpV(v, n, b),
         Exchanged(v, w, n, b \div 2, b)
  PROVE  UpV(w, n, b \div 2)
<1> DEFINE p == b \div 2
<1>1. p \in 1 .. n /\ p < b /\ b \in 1 .. n
  BY Half
<1>2. w[p] = v[b] /\ w[b] = v[p] /\ v[b] < v[p] /\ \A k \in 1 .. n : k # p /\ k # b => w[k] = v[k]
  BY Zenon DEF Exchanged
<1>3. SUFFICES ASSUME NEW k \in 2 .. n
               PROVE  /\ k # p => w[k \div 2] <= w[k]
                      /\ p >= 2 /\ k \div 2 = p => w[p \div 2] <= w[k]
  BY Zenon DEF UpV
<1>4. /\ k # b => v[k \div 2] <= v[k]
      /\ k \div 2 = b => v[p] <= v[k]
  <2>1. b >= 2
    OBVIOUS
  <2>. QED  BY <2>1, Zenon DEF UpV
<1>5. k \div 2 \in 1 .. n /\ k \div 2 # k /\ k \in 1 .. n /\ (k \div 2 = b => k # p)
  BY Half
<1>6. p >= 2 => v[p \div 2] <= v[p] /\ p \div 2 \in 1 .. n /\ p \div 2 # p /\ p \div 2 # b
  <2>1. p >= 2 => p \in 2 .. n /\ p # b /\ p \div 2 \in 1 .. n /\ p \div 2 # p /\ p \div 2 # b
    BY <1>1, Half
  <2>. QED  BY <2>1, Zenon DEF UpV
<1>7. k = b => k \div 2 = p
  BY Zenon
<1>8. \A j \in 1 .. n : v[j] \in Int /\ w[j] \in Int
  BY Zenon
<1>9. v[b] <= v[p]
  BY <1>1, <1>2, <1>8, LessLeq, Zenon
<1> HIDE DEF p
<1>10. k # p => w[k \div 2] <= w[k]
  <2>1. CASE k = b
    BY <1>2, <1>7, <1>9, <2>1, Zenon
  <2>2. CASE k # b /\ k \div 2 = p /\ k # p
    BY <1>1, <1>2, <1>4, <1>5, <1>8, <1>9, <2>2, LeqTransitive, Zenon
  <2>3. CASE k # b /\ k \div 2 # p /\ k # p
    BY <1>2, <1>4, <1>5, <2>3, Zenon
  <2>. QED  BY <2>1, <2>2, <2>3, Zenon
<1>11. ASSUME p >= 2, k \div 2 = p PROVE w[p \div 2] <= w[k]
  <2>1. w[p \div 2] = v[p \div 2] /\ v[p \div 2] <= v[p] /\ k # p
    BY <1>2, <1>5, <1>6, <1>11, Zenon
  <2>2. CASE k = b
    BY <1>2, <2>1, <2>2, Zenon
  <2>3. CASE k # b
    <3>1. w[k] = v[k] /\ v[p] <= v[k]
      BY <1>2, <1>4, <1>5, <1>11, <2>1, <2>3, Zenon
    <3>. QED  BY <1>1, <1>5, <1>6, <1>8, <1>11, <2>1, <3>1, LeqTransitive, Zenon
  <2>. QED  BY <2>2, <2>3, Zenon
<1>. QED  BY <1>10, <1>11, Zenon

(* An iteration of down that exchanges c with its least child b. *)
LEMMA DownMove ==
  ASSUME NEW n \in Nat, NEW v \in [1 .. n -> Int], NEW w \in [1 .. n -> Int],
         NEW c \in 1 .. n, NEW b \in 2 .. n, b \div 2 = c, NEW a \in 1 .. c,
         v[b] < v[c], \A k \in 2 .. n : k \div 2 = c => v[b] <= v[k],
         DownV(v, n, c, a), Exchanged(v, w, n, c, b)
  PROVE  DownV(w, n, b, a)
<1>1. c < b /\ b \in 1 .. n /\ a \in 1 .. n /\ a <= c
  BY Half
<1>2. w[c] = v[b] /\ w[b] = v[c] /\ \A k \in 1 .. n : k # c /\ k # b => w[k] = v[k]
  BY Zenon DEF Exchanged
<1>3. SUFFICES ASSUME NEW k \in 2 .. n
               PROVE  /\ k \div 2 # b /\ k # a => w[k \div 2] <= w[k]
                      /\ k \div 2 = b => w[c] <= w[k]
                      /\ b # a /\ k = a => w[k \div 2] <= w[k]
  BY Zenon DEF DownV
<1>4. /\ k \div 2 # c /\ k # a => v[k \div 2] <= v[k]
      /\ c # a /\ k = a => v[k \div 2] <= v[k]
      /\ k \div 2 = c => v[b] <= v[k]
  BY Zenon DEF DownV
<1>5. /\ k \div 2 \in 1 .. n /\ k \div 2 # k /\ k \in 1 .. n
      /\ k \div 2 = b => k # c /\ k # a
      /\ k = c => k \div 2 # b
      /\ k = a /\ c # a => k # c /\ k # b /\ k \div 2 # c /\ k \div 2 # b
  BY <1>1, Half
<1>6. k = c => v[k \div 2] <= v[b]
  <2>1. k = c => c >= 2
    OBVIOUS
  <2>. QED  BY <2>1, Zenon DEF DownV
<1>7. v[b] \in Int /\ v[c] \in Int /\ v[b] <= v[c] /\ b # c
  <2>1. v[b] \in Int /\ v[c] \in Int
    BY <1>1, Zenon
  <2>2. b # c
    BY <1>1
  <2>. QED  BY <2>1, <2>2, LessLeq, Zenon
<1>8. k \div 2 # b /\ k # a => w[k \div 2] <= w[k]
  <2>1. CASE k = b
    BY <1>2, <1>7, <2>1, Zenon
  <2>2. CASE k = c
    BY <1>2, <1>5, <1>6, <2>2, Zenon
  <2>3. CASE k # b /\ k # c /\ k \div 2 = c
    BY <1>2, <1>4, <1>5, <2>3, Zenon
  <2>4. CASE k # b /\ k # c /\ k \div 2 # c
    BY <1>2, <1>4, <1>5, <2>4, Zenon
  <2>. QED  BY <2>1, <2>2, <2>3, <2>4, Zenon
<1>9. k \div 2 = b => w[c] <= w[k]
  BY <1>2, <1>4, <1>5, <1>7, Zenon
<1>10. b # a /\ k = a => w[k \div 2] <= w[k]
  <2>1. CASE c = a
    BY <1>2, <1>5, <1>6, <2>1, Zenon
  <2>2. CASE c # a
    BY <1>2, <1>4, <1>5, <2>2, Zenon
  <2>. QED  BY <2>1, <2>2, Zenon
<1>. QED  BY <1>8, <1>9, <1>10, Zenon

(* Down stops at a c that comes after none of its children. *)
LEMMA DownStop ==
  ASSUME NEW n \in Nat, NEW v \in [1 .. n -> Int], NEW c \in Nat, NEW a \in 1 .. c,
         \A k \in 2 .. n : k \div 2 = c => v[c] <= v[k], DownV(v, n, c, a)
  PROVE  UpV(v, n, a)
<1>1. SUFFICES ASSUME NEW k \in 2 .. n
               PROVE  /\ k # a => v[k \div 2] <= v[k]
                      /\ a >= 2 /\ k \div 2 = a => v[a \div 2] <= v[k]
  BY Zenon DEF UpV
<1>2. k # a => v[k \div 2] <= v[k]
  BY Zenon DEF DownV
<1>3. k \div 2 \in 1 .. n /\ k \div 2 < k /\ k \in 1 .. n
  BY Half
<1>4. a >= 2 /\ k \div 2 = a => v[a \div 2] <= v[k]
  <2>1. CASE c = a
    BY <2>1, Zenon DEF DownV
  <2>2. CASE c # a /\ a >= 2 /\ k \div 2 = a
    <3>1. a \in 2 .. n /\ a \div 2 \in 1 .. n /\ k # a
      BY <1>3, <2>2, Half
    <3>2. v[a \div 2] <= v[a]
      BY <2>2, <3>1, Zenon DEF DownV
    <3>3. v[a] <= v[k]
      BY <1>2, <2>2, <3>1, Zenon
    <3>4. v[a \div 2] \in Int /\ v[a] \in Int /\ v[k] \in Int
      BY <1>3, <2>2, <3>1, Zenon
    <3>. QED  BY <3>2, <3>3, <3>4, LeqTransitive, Zenon
  <2>. QED  BY <2>1, <2>2, Zenon
<1>. QED  BY <1>2, <1>4, Zenon

-----------------------------------------------------------------------------
(* Heaps as lists with positions. *)

HeapSet == [h : Seq(Entry), pos : [Entry -> Nat]]

(* The heap holds these entries, each once, each knowing its place. *)
Placed(H, E) ==
  /\ H \in HeapSet
  /\ {H.h[a] : a \in 1 .. Len(H.h)} = E
  /\ \A a \in 1 .. Len(H.h) : H.pos[H.h[a]] = a
  /\ \A e \in Entry \ E : H.pos[e] = 0

KeysOf(h, key, n) == [k \in 1 .. n |-> key[h[k]]]

(* The same entries from n on. *)
SameTail(H, G, n) ==
  /\ Len(G.h) = Len(H.h)
  /\ \A k \in (n + 1) .. Len(H.h) : G.h[k] = H.h[k]

LEMMA HeapTypes ==
  ASSUME NEW E, NEW H, Placed(H, E)
  PROVE  /\ Len(H.h) \in Nat
         /\ H.h \in [1 .. Len(H.h) -> Entry]
         /\ H.pos \in [Entry -> Nat]
         /\ \A a \in 1 .. Len(H.h) : H.h[a] \in Entry
<1>1. H.h \in Seq(Entry) /\ H.pos \in [Entry -> Nat]
  BY DEF Placed, HeapSet
<1>. QED  BY <1>1

LEMMA KeysAre ==
  ASSUME NEW E, NEW H, Placed(H, E), NEW key \in [Entry -> Int], NEW n \in 0 .. Len(H.h)
  PROVE  /\ KeysOf(H.h, key, n) \in [1 .. n -> Int]
         /\ \A k \in 1 .. n : KeysOf(H.h, key, n)[k] = key[H.h[k]]
<1>1. \A k \in 1 .. n : k \in 1 .. Len(H.h)
  BY HeapTypes
<1>2. \A k \in 1 .. n : key[H.h[k]] \in Int
  BY <1>1, HeapTypes, Zenon
<1>. QED  BY <1>2, Zenon DEF KeysOf

(* G is H with the entries at a and b exchanged. *)
Traded(H, G, a, b) ==
  /\ Len(G.h) = Len(H.h)
  /\ G.h[a] = H.h[b]
  /\ G.h[b] = H.h[a]
  /\ \A k \in 1 .. Len(H.h) : k # a /\ k # b => G.h[k] = H.h[k]

(* The first n entries of H and G are the same. *)
Agree(H, G, n) == \A k \in 1 .. n : G.h[k] = H.h[k]

LEMMA TwoChanged ==
  ASSUME NEW S, NEW T, NEW f \in [S -> T], NEW a \in S, NEW b \in S, NEW x \in T, NEW y \in T
  PROVE  /\ [f EXCEPT ![a] = x, ![b] = y] \in [S -> T]
         /\ \A k \in S : [f EXCEPT ![a] = x, ![b] = y][k] =
                         IF k = b THEN y ELSE IF k = a THEN x ELSE f[k]
OBVIOUS

LEMMA SwapHeap ==
  ASSUME NEW E, NEW H, Placed(H, E), NEW a \in 1 .. Len(H.h), NEW b \in 1 .. Len(H.h)
  PROVE  Placed(Swap(H, a, b), E) /\ Traded(H, Swap(H, a, b), a, b)
<1> DEFINE n == Len(H.h)
           h == [H.h EXCEPT ![a] = H.h[b], ![b] = H.h[a]]
           pos == [H.pos EXCEPT ![h[a]] = a, ![h[b]] = b]
<1>1. n \in Nat /\ H.h \in [1 .. n -> Entry] /\ H.pos \in [Entry -> Nat]
      /\ a \in Nat /\ b \in Nat
  BY HeapTypes
<1>2. Swap(H, a, b) = [h |-> h, pos |-> pos]
  BY Zenon DEF Swap
<1>3. h \in [1 .. n -> Entry] /\ h[a] = H.h[b] /\ h[b] = H.h[a]
      /\ \A k \in 1 .. n : k # a /\ k # b => h[k] = H.h[k]
  <2>1. H.h[a] \in Entry /\ H.h[b] \in Entry
    BY <1>1, Zenon
  <2>2. h \in [1 .. n -> Entry] /\ \A k \in 1 .. n : h[k] = IF k = b THEN H.h[a] ELSE IF k = a THEN H.h[b] ELSE H.h[k]
    BY <1>1, <2>1, TwoChanged, Zenon
  <2> HIDE DEF h
  <2>. QED  BY <2>2, Zenon
<1>4. h \in Seq(Entry) /\ Len(h) = n
  <2> HIDE DEF h, n
  <2>. QED  BY <1>1, <1>3
<1>5. pos \in [Entry -> Nat] /\ \A e \in Entry : pos[e] = IF e = h[b] THEN b ELSE IF e = h[a] THEN a ELSE H.pos[e]
  <2>1. h[a] \in Entry /\ h[b] \in Entry
    BY <1>3, Zenon
  <2> HIDE DEF h, n
  <2>. QED  BY <1>1, <2>1, Zenon
<1> HIDE DEF h, pos, n
<1>6. n = Len(H.h) /\ {H.h[k] : k \in 1 .. n} = E /\ (\A k \in 1 .. n : H.pos[H.h[k]] = k)
      /\ \A e \in Entry \ E : H.pos[e] = 0
  BY Zenon DEF Placed, n
<1>7. {h[k] : k \in 1 .. n} = E
  BY <1>3, <1>6
<1>8. ASSUME NEW k \in 1 .. n PROVE pos[h[k]] = k
  <2>1. h[k] \in Entry
    BY <1>3, Zenon
  <2>2. CASE k = b
    BY <1>5, <2>1, <2>2, Zenon
  <2>3. CASE k # b /\ k = a
    <3>1. h[a] # h[b]
      BY <1>3, <1>6, <2>3, Zenon
    <3>. QED  BY <1>5, <2>1, <2>3, <3>1, Zenon
  <2>4. CASE k # b /\ k # a
    <3>1. h[k] # h[b] /\ h[k] # h[a]
      BY <1>3, <1>6, <2>4, Zenon
    <3>. QED  BY <1>3, <1>5, <1>6, <2>1, <2>4, <3>1, Zenon
  <2>. QED  BY <2>2, <2>3, <2>4, Zenon
<1>9. ASSUME NEW e \in Entry \ E PROVE pos[e] = 0
  <2>1. e # h[a] /\ e # h[b]
    BY <1>3, <1>6
  <2>. QED  BY <1>5, <1>6, <2>1, Zenon
<1>10. [h |-> h, pos |-> pos] \in HeapSet /\ [h |-> h, pos |-> pos].h = h
       /\ [h |-> h, pos |-> pos].pos = pos
  BY <1>4, <1>5, Zenon DEF HeapSet
<1>11. Placed(Swap(H, a, b), E)
  BY <1>2, <1>4, <1>7, <1>8, <1>9, <1>10 DEF Placed
<1>. QED  BY <1>2, <1>3, <1>4, <1>6, <1>10, <1>11 DEF Traded

(* What exchanging two entries does to the keys. *)
LEMMA SwapKeys ==
  ASSUME NEW E, NEW H, Placed(H, E), NEW key \in [Entry -> Int], NEW n \in 0 .. Len(H.h),
         NEW a \in 1 .. n, NEW b \in 1 .. n
  PROVE  /\ Exchanged(KeysOf(H.h, key, n), KeysOf(Swap(H, a, b).h, key, n), n, a, b)
         /\ SameTail(H, Swap(H, a, b), n)
<1>1. Len(H.h) \in Nat /\ a \in 1 .. Len(H.h) /\ b \in 1 .. Len(H.h)
      /\ \A k \in 1 .. n : k \in 1 .. Len(H.h)
  BY HeapTypes
<1> DEFINE G == Swap(H, a, b)
<1>2. /\ Placed(G, E) /\ Len(G.h) = Len(H.h) /\ G.h[a] = H.h[b] /\ G.h[b] = H.h[a]
      /\ \A k \in 1 .. Len(H.h) : k # a /\ k # b => G.h[k] = H.h[k]
  <2>1. Placed(G, E) /\ Traded(H, G, a, b)
    BY <1>1, SwapHeap, Zenon
  <2>. QED  BY <2>1, Zenon DEF Traded
<1>3. \A k \in (n + 1) .. Len(H.h) : k \in 1 .. Len(H.h) /\ k # a /\ k # b
  BY <1>1
<1> HIDE DEF G
<1>5. \A k \in 1 .. n : KeysOf(G.h, key, n)[k] = key[G.h[k]]
  BY Zenon DEF KeysOf
<1>6. \A k \in 1 .. n : KeysOf(H.h, key, n)[k] = key[H.h[k]]
  BY Zenon DEF KeysOf
<1>7. Exchanged(KeysOf(H.h, key, n), KeysOf(G.h, key, n), n, a, b)
  BY <1>1, <1>2, <1>5, <1>6 DEF Exchanged
<1>8. SameTail(H, G, n)
  BY <1>2, <1>3, Zenon DEF SameTail
<1>. QED  BY <1>7, <1>8, Zenon DEF G

LoopState == [heap : HeapSet, at : Nat]

(* What holds of the first n entries after k iterations of up from b. *)
UpGood(H, key, E, n, b, k, x) ==
  /\ Placed(x.heap, E)
  /\ SameTail(H, x.heap, n)
  /\ x.at \in 1 .. n
  /\ UpV(KeysOf(x.heap.h, key, n), n, x.at)
  /\ Sorted(KeysOf(x.heap.h, key, n), n) \/ x.at <= b - k

LEMMA TailTransitive ==
  ASSUME NEW E, NEW H, NEW G, NEW K, NEW n, SameTail(H, G, n), SameTail(G, K, n)
  PROVE  SameTail(H, K, n)
BY Zenon DEF SameTail

(* Up puts the entry at b in its place, if the others are in theirs. *)
LEMMA UpSorts ==
  ASSUME NEW E, NEW H, Placed(H, E), NEW key \in [Entry -> Int], NEW n \in 0 .. Len(H.h),
         NEW b \in 1 .. n, UpV(KeysOf(H.h, key, n), n, b)
  PROVE  /\ Placed(up(H, key, b), E)
         /\ SameTail(H, up(H, key, b), n)
         /\ Sorted(KeysOf(up(H, key, b).h, key, n), n)
<1>UpKeeps.
  ASSUME key \in [Entry -> Int], Len(H.h) \in Nat, n \in 0 .. Len(H.h),
         b \in Nat, NEW k \in Nat, NEW x \in LoopState, UpGood(H, key, E, n, b, k, x)
  PROVE  UpStep(x, key) \in LoopState /\ UpGood(H, key, E, n, b, k + 1, UpStep(x, key))
  <2> USE <1>UpKeeps
  <2> DEFINE a == x.at \div 2
             v == KeysOf(x.heap.h, key, n)
             y == UpStep(x, key)
  <2>1. /\ Placed(x.heap, E) /\ SameTail(H, x.heap, n) /\ x.at \in 1 .. n
        /\ UpV(v, n, x.at) /\ (Sorted(v, n) \/ x.at <= b - k)
    BY Zenon DEF UpGood
  <2>2. Len(x.heap.h) = Len(H.h) /\ n \in 0 .. Len(x.heap.h) /\ x.at \in 1 .. Len(x.heap.h)
    <3>1. Len(x.heap.h) = Len(H.h)
      BY <2>1, Zenon DEF SameTail
    <3>. QED  BY <2>1, <3>1
  <2>3. v \in [1 .. n -> Int] /\ \A j \in 1 .. n : v[j] = key[x.heap.h[j]]
    BY <2>1, <2>2, KeysAre, Zenon
  <2>4. a \in Nat /\ (a = 0 => x.at = 1) /\ (a # 0 => x.at \in 2 .. n /\ a \in 1 .. n /\ a < x.at)
    BY <2>1, Half
  <2> HIDE DEF v
  <2>5. CASE a = 0 \/ ~Less(x.heap.h, key, x.at, a)
    <3>1. y = x
      BY <2>5, Zenon DEF UpStep
    <3>2. Sorted(v, n)
      <4>1. ASSUME NEW j \in 2 .. n PROVE v[j \div 2] <= v[j]
        <5>1. CASE j # x.at
          BY <2>1, <5>1, Zenon DEF UpV
        <5>2. CASE j = x.at
          <6>1. a # 0
            BY <2>4, <5>2
          <6>2. ~(v[x.at] < v[a])
            BY <2>1, <2>3, <2>4, <2>5, <6>1, Zenon DEF Less
          <6>3. v[x.at] \in Int /\ v[a] \in Int
            BY <2>1, <2>3, <2>4, <6>1, Zenon
          <6>4. v[a] <= v[x.at]
            <7> HIDE DEF a
            <7>. QED  BY <6>2, <6>3
          <6>. QED  BY <5>2, <6>4, Zenon
        <5>. QED  BY <5>1, <5>2, Zenon
      <4>. QED  BY <4>1, Zenon DEF Sorted
    <3>. QED  BY <2>1, <3>1, <3>2, Zenon DEF UpGood, v
  <2>6. CASE a # 0 /\ Less(x.heap.h, key, x.at, a)
    <3> DEFINE G == Swap(x.heap, a, x.at)
               w == KeysOf(G.h, key, n)
    <3>1. y = [heap |-> G, at |-> a]
      BY <2>6, Zenon DEF UpStep
    <3>2. a \in 1 .. Len(x.heap.h) /\ a \in 1 .. n /\ x.at \in 1 .. n /\ x.at \in 2 .. n
      BY <2>1, <2>2, <2>4, <2>6
    <3>3. Placed(G, E) /\ Len(G.h) = Len(x.heap.h)
      <4>1. Placed(G, E) /\ Traded(x.heap, G, a, x.at)
        BY <2>1, <2>2, <3>2, SwapHeap, Zenon
      <4>. QED  BY <4>1, Zenon DEF Traded
    <3>4. Exchanged(v, w, n, a, x.at) /\ SameTail(x.heap, G, n)
      BY <2>1, <2>2, <3>2, SwapKeys, Zenon DEF v
    <3>5. w \in [1 .. n -> Int]
      <4> HIDE DEF G
      <4>. QED  BY <2>2, <3>3, KeysAre, Zenon
    <3>6. v[x.at] < v[a]
      BY <2>3, <2>6, <3>2, Zenon DEF Less
    <3> HIDE DEF w
    <3>7. UpV(w, n, a)
      <4>1. n \in Nat
        OBVIOUS
      <4>. QED  BY <2>1, <2>3, <3>2, <3>4, <3>5, <3>6, <4>1, UpMove, Zenon
    <3>8. ~Sorted(v, n)
      <4>1. v[x.at] \in Int /\ v[a] \in Int
        BY <2>3, <3>2, Zenon
      <4>2. Sorted(v, n) => v[a] <= v[x.at]
        BY <3>2, Zenon DEF Sorted
      <4> HIDE DEF a
      <4>. QED  BY <3>6, <4>1, <4>2
    <3>9. a <= b - (k + 1)
      <4>1. x.at <= b - k
        BY <2>1, <3>8, Zenon
      <4>. QED  BY <2>4, <2>6, <3>2, <4>1
    <3>10. SameTail(H, G, n)
      BY <2>1, <3>4, TailTransitive
    <3>11. G \in HeapSet /\ y.heap = G /\ y.at = a /\ y \in LoopState
      <4>1. G \in HeapSet
        BY <3>3, Zenon DEF Placed
      <4> HIDE DEF G, a, y
      <4>. QED  BY <2>4, <3>1, <4>1 DEF LoopState
    <3>. QED  BY <3>2, <3>3, <3>7, <3>9, <3>10, <3>11, Zenon DEF UpGood, w
  <2>. QED  BY <2>5, <2>6, Zenon
<1> DEFINE x0 == [heap |-> H, at |-> b]
           F == [x \in LoopState |-> UpStep(x, key)]
           J == {p \in Nat \X LoopState : UpGood(H, key, E, n, b, p[1], p[2])}
           Eq(f) == f = [k \in 0 .. b |-> IF k = 0 THEN x0 ELSE UpStep(f[k - 1], key)]
           s == CHOOSE f : Eq(f)
<1>1. Len(H.h) \in Nat /\ b \in Nat /\ H \in HeapSet /\ b <= b - 0 /\ b \in 0 .. b
      /\ \A k \in 1 .. b : k \in 0 .. b /\ k # 0
  BY HeapTypes DEF Placed
<1>2. x0 \in LoopState /\ x0.heap = H /\ x0.at = b
  BY <1>1 DEF LoopState
<1>3. <<0, x0>> \in J
  <2>1. UpGood(H, key, E, n, b, 0, x0)
    BY <1>1, <1>2, Zenon DEF UpGood, SameTail
  <2> HIDE DEF x0
  <2>. QED  BY <1>2, <2>1
<1>4. \A k \in Nat : \A y : <<k, y>> \in J => y \in LoopState /\ UpGood(H, key, E, n, b, k, y)
  <2> HIDE DEF x0
  <2>. QED  OBVIOUS
<1>5. ASSUME NEW k \in Nat, NEW y \in LoopState, <<k, y>> \in J
      PROVE  <<k + 1, F[y]>> \in J
  <2>1. UpGood(H, key, E, n, b, k, y)
    BY <1>4, <1>5, Zenon
  <2>2. F[y] \in LoopState /\ UpGood(H, key, E, n, b, k + 1, F[y])
    BY <1>1, <2>1, <1>UpKeeps, Zenon
  <2> HIDE DEF F
  <2>. QED  BY <2>2
<1> HIDE DEF J, x0
<1>6. F = [x \in LoopState |-> UpStep(x, key)]
  BY Zenon
<1> HIDE DEF F
<1>7. /\ \E f : Iterates(f, F, x0, b) /\ \A k \in 0 .. b : f[k] \in LoopState
      /\ \A f : Follows(f, F, LoopState, x0, b) => \A k \in 0 .. b : <<k, f[k]>> \in J
  <2>1. Keeps(J, LoopState, F)
    BY <1>4, <1>5, Zenon DEF Keeps
  <2>. QED  BY <1>1, <1>3, <2>1, Loop, Zenon
<1>8. \E f : Eq(f)
  <2>1. PICK f : /\ f = [k \in 0 .. b |-> IF k = 0 THEN x0 ELSE F[f[k - 1]]]
                 /\ \A k \in 0 .. b : f[k] \in LoopState
    BY <1>7, Zenon DEF Iterates
  <2>2. \A k \in 0 .. b : k = 0 \/ k - 1 \in 0 .. b
    OBVIOUS
  <2>3. \A k \in 0 .. b : k # 0 => F[f[k - 1]] = UpStep(f[k - 1], key)
    BY <1>6, <2>1, <2>2, Zenon
  <2>. QED  BY <2>1, <2>3, Zenon
<1>9. Eq(s)
  <2> HIDE DEF Eq
  <2>. QED  BY <1>8, Zenon
<1>10. up(H, key, b) = s[b].heap
  BY Zenon DEF up, x0
<1> HIDE DEF s
<1>11. Follows(s, F, LoopState, x0, b)
  <2>1. 0 \in 0 .. b
    BY <1>1
  <2>2. s[0] = x0
    BY <1>9, <2>1, Zenon
  <2>3. \A k \in 1 .. b : s[k] = UpStep(s[k - 1], key)
    BY <1>1, <1>9, Zenon
  <2>. QED  BY <1>6, <2>2, <2>3, Zenon DEF Follows
<1>12. UpGood(H, key, E, n, b, b, s[b])
  BY <1>1, <1>4, <1>7, <1>11, Zenon
<1>13. s[b].at \in 1 .. n => ~(s[b].at <= b - b)
  BY <1>1
<1>. QED  BY <1>10, <1>12, <1>13, Zenon DEF UpGood

LeastChild(v, n, c, b) ==
  b \in 2 .. n /\ b \div 2 = c /\ \A k \in 2 .. n : k \div 2 = c => v[b] <= v[k]

(* The child that down picks comes after no other child. *)
LEMMA SmallerChildIs ==
  ASSUME NEW h, NEW key, NEW n \in Nat, NEW c \in 1 .. n, 2 * c <= n,
         KeysOf(h, key, n) \in [1 .. n -> Int]
  PROVE  LeastChild(KeysOf(h, key, n), n, c, SmallerChild(h, key, c, n))
<1> DEFINE l == 2 * c
           r == 2 * c + 1
           v == KeysOf(h, key, n)
           b == SmallerChild(h, key, c, n)
<1>a. \A k \in 1 .. n : v[k] = key[h[k]]
  BY Zenon DEF KeysOf
<1>b. SUFFICES /\ b \in 2 .. n /\ b \div 2 = c
               /\ \A k \in 2 .. n : k \div 2 = c => v[b] <= v[k]
  BY Zenon DEF LeastChild
<1>1. l \in 2 .. n /\ l \div 2 = c /\ r \div 2 = c /\ (r <= n => r \in 2 .. n) /\ l # r
  BY Half
<1>2. \A k \in 2 .. n : k \in 1 .. n /\ (k \div 2 = c => k = l \/ (k = r /\ r <= n))
  BY Half
<1>3. b = IF r <= n /\ ~Less(h, key, l, r) THEN r ELSE l
  BY Zenon DEF SmallerChild
<1>4. v[l] \in Int /\ (r <= n => v[r] \in Int /\ (Less(h, key, l, r) <=> v[l] < v[r]))
  BY <1>1, <1>2, <1>a, Zenon DEF Less
<1> HIDE DEF l, r, v, b
<1>5. CASE r <= n /\ ~Less(h, key, l, r)
  <2>1. v[r] <= v[l] /\ v[r] <= v[r]
    <3>1. v[l] \in Int /\ v[r] \in Int /\ ~(v[l] < v[r])
      BY <1>4, <1>5, Zenon
    <3>. QED  BY <3>1
  <2>. QED  BY <1>1, <1>2, <1>3, <1>5, <2>1, Zenon
<1>6. CASE ~(r <= n)
  <2>1. v[l] <= v[l]
    BY <1>4
  <2>. QED  BY <1>1, <1>2, <1>3, <1>6, <2>1, Zenon
<1>7. CASE r <= n /\ Less(h, key, l, r)
  <2>1. v[l] <= v[l] /\ v[l] <= v[r]
    <3>1. v[l] \in Int /\ v[r] \in Int /\ v[l] < v[r]
      BY <1>4, <1>7, Zenon
    <3>. QED  BY <3>1
  <2>. QED  BY <1>1, <1>2, <1>3, <1>7, <2>1, Zenon
<1>. QED  BY <1>5, <1>6, <1>7, Zenon

(* What holds of the first n entries after k iterations of down from a. *)
DownGood(H, key, E, n, a, k, x) ==
  /\ Placed(x.heap, E)
  /\ SameTail(H, x.heap, n)
  /\ x.at \in 1 .. Len(H.h)
  /\ a <= x.at
  /\ DownV(KeysOf(x.heap.h, key, n), n, x.at, a)
  /\ UpV(KeysOf(x.heap.h, key, n), n, a) \/ x.at >= a + k

(* Down sinks the entry at a; it may still have to go up, and then nothing was
   changed. *)
LEMMA DownSinks ==
  ASSUME NEW E, NEW H, Placed(H, E), NEW key \in [Entry -> Int], NEW n \in 0 .. Len(H.h),
         NEW a \in 1 .. Len(H.h), DownV(KeysOf(H.h, key, n), n, a, a)
  PROVE  /\ Placed(down(H, key, a, n), E)
         /\ SameTail(H, down(H, key, a, n), n)
         /\ UpV(KeysOf(down(H, key, a, n).h, key, n), n, a)
<1>DownKeeps.
  ASSUME key \in [Entry -> Int], Len(H.h) \in Nat, n \in 0 .. Len(H.h),
         a \in Nat \ {0}, NEW k \in Nat, NEW x \in LoopState, DownGood(H, key, E, n, a, k, x)
  PROVE  DownStep(x, key, n) \in LoopState /\ DownGood(H, key, E, n, a, k + 1, DownStep(x, key, n))
  <2> USE <1>DownKeeps
  <2> DEFINE c == x.at
             b == SmallerChild(x.heap.h, key, c, n)
             v == KeysOf(x.heap.h, key, n)
             y == DownStep(x, key, n)
  <2>1. /\ Placed(x.heap, E) /\ SameTail(H, x.heap, n) /\ c \in 1 .. Len(H.h) /\ a <= c
        /\ DownV(v, n, c, a) /\ (UpV(v, n, a) \/ c >= a + k)
    BY Zenon DEF DownGood
  <2>2. Len(x.heap.h) = Len(H.h) /\ n \in 0 .. Len(x.heap.h) /\ n \in Nat
        /\ c \in Nat \ {0} /\ a \in 1 .. c
    <3>1. Len(x.heap.h) = Len(H.h)
      BY <2>1, Zenon DEF SameTail
    <3> HIDE DEF c
    <3>. QED  BY <2>1, <3>1
  <2>3. v \in [1 .. n -> Int] /\ \A j \in 1 .. n : v[j] = key[x.heap.h[j]]
    BY <2>1, <2>2, KeysAre, ZenonT(30)
  <2> HIDE DEF v, b
  <2>4. 2 * c <= n => /\ b \in 2 .. n /\ b \div 2 = c /\ c \in 1 .. n /\ b \in 1 .. n /\ c < b
                      /\ \A j \in 2 .. n : j \div 2 = c => v[b] <= v[j]
    <3>1. ASSUME 2 * c <= n
          PROVE  b \in 2 .. n /\ b \div 2 = c /\ \A j \in 2 .. n : j \div 2 = c => v[b] <= v[j]
      <4>1. c \in 1 .. n
        BY <2>2, <3>1
      <4>2. LeastChild(v, n, c, b)
        BY <2>2, <2>3, <3>1, <4>1, SmallerChildIs, Zenon DEF v, b
      <4>. QED  BY <4>2, Zenon DEF LeastChild
    <3> HIDE DEF c
    <3>2. 2 * c <= n => c \in 1 .. n /\ c < 2 * c
      BY <2>2
    <3>3. b \in 2 .. n /\ b \div 2 = c => b \in 1 .. n /\ c < b
      BY <2>2, Half
    <3>. QED  BY <3>1, <3>2, <3>3, Zenon
  <2>5. 2 * c <= n => v[b] \in Int /\ v[c] \in Int /\ (Less(x.heap.h, key, b, c) <=> v[b] < v[c])
    BY <2>3, <2>4, Zenon DEF Less
  <2>6. CASE 2 * c > n \/ ~Less(x.heap.h, key, b, c)
    <3>1. y = x
      BY <2>6, Zenon DEF DownStep, b
    <3>2. ASSUME NEW j \in 2 .. n, j \div 2 = c PROVE v[c] <= v[j]
      <4>1. 2 * c <= n /\ ~(2 * c > n) /\ j \in 1 .. n
        BY <2>2, <3>2, Half
      <4>2. v[b] <= v[j] /\ v[b] \in Int /\ v[c] \in Int /\ ~(v[b] < v[c]) /\ v[j] \in Int
        BY <2>3, <2>4, <2>5, <2>6, <3>2, <4>1, Zenon
      <4> HIDE DEF c
      <4>. QED  BY <4>2
    <3>3. UpV(v, n, a)
      BY <2>1, <2>2, <2>3, <3>2, DownStop, Zenon
    <3>. QED  BY <2>1, <3>1, <3>3, Zenon DEF DownGood, v
  <2>7. CASE 2 * c <= n /\ Less(x.heap.h, key, b, c)
    <3> DEFINE G == Swap(x.heap, c, b)
               w == KeysOf(G.h, key, n)
    <3>1. y = [heap |-> G, at |-> b]
      <4>1. ~(2 * c > n)
        BY <2>2, <2>7
      <4>. QED  BY <2>7, <4>1, Zenon DEF DownStep, b
    <3>2. b \in 1 .. Len(x.heap.h) /\ c \in 1 .. Len(x.heap.h) /\ b \in 1 .. n /\ c \in 1 .. n /\ b \in 1 .. Len(H.h)
      <4> HIDE DEF c
      <4>. QED  BY <2>1, <2>2, <2>4, <2>7
    <3>3. Placed(G, E) /\ Len(G.h) = Len(x.heap.h)
      <4>1. Placed(G, E) /\ Traded(x.heap, G, c, b)
        BY <2>1, <2>2, <3>2, SwapHeap, Zenon
      <4>. QED  BY <4>1, Zenon DEF Traded
    <3>4. Exchanged(v, w, n, c, b) /\ SameTail(x.heap, G, n)
      BY <2>1, <2>2, <3>2, SwapKeys, Zenon DEF v
    <3>5. w \in [1 .. n -> Int]
      <4> HIDE DEF G
      <4>. QED  BY <2>2, <3>3, KeysAre, Zenon
    <3>6. v[b] < v[c]
      BY <2>5, <2>7, Zenon
    <3> HIDE DEF w
    <3>7. DownV(w, n, b, a)
      BY <2>1, <2>2, <2>3, <2>4, <2>7, <3>2, <3>4, <3>5, <3>6, DownMove, Zenon
    <3>8. ~UpV(v, n, a)
      <4>1. b \in 2 .. n /\ b # a
        <5> HIDE DEF c
        <5>. QED  BY <2>2, <2>4, <2>7
      <4>2. UpV(v, n, a) => v[c] <= v[b]
        BY <2>4, <2>7, <4>1, Zenon DEF UpV
      <4>3. v[b] \in Int /\ v[c] \in Int
        BY <2>5, <2>7, Zenon
      <4> HIDE DEF c
      <4>. QED  BY <3>6, <4>2, <4>3
    <3>9. b >= a + (k + 1) /\ a <= b
      <4>1. c >= a + k
        BY <2>1, <3>8, Zenon
      <4> HIDE DEF c
      <4>. QED  BY <2>2, <2>4, <2>7, <3>2, <4>1
    <3>10. SameTail(H, G, n)
      BY <2>1, <3>4, TailTransitive
    <3>11. G \in HeapSet /\ y.heap = G /\ y.at = b /\ y \in LoopState
      <4>1. G \in HeapSet /\ b \in Nat
        BY <3>2, <3>3 DEF Placed
      <4> HIDE DEF G, y
      <4>. QED  BY <3>1, <4>1 DEF LoopState
    <3>. QED  BY <3>2, <3>3, <3>7, <3>9, <3>10, <3>11, Zenon DEF DownGood, w
  <2>. QED
    <3>1. 2 * c > n \/ 2 * c <= n
      BY <2>2
    <3>. QED  BY <2>6, <2>7, <3>1, Zenon
<1> DEFINE x0 == [heap |-> H, at |-> a]
           F == [x \in LoopState |-> DownStep(x, key, n)]
           J == {p \in Nat \X LoopState : DownGood(H, key, E, n, a, p[1], p[2])}
           Eq(f) == f = [k \in 0 .. n |-> IF k = 0 THEN x0 ELSE DownStep(f[k - 1], key, n)]
           s == CHOOSE f : Eq(f)
<1>1. Len(H.h) \in Nat /\ a \in Nat \ {0} /\ H \in HeapSet /\ a <= a /\ a >= a + 0
      /\ n \in Nat /\ n \in 0 .. n /\ \A k \in 1 .. n : k \in 0 .. n /\ k # 0
  BY HeapTypes DEF Placed
<1>2. x0 \in LoopState /\ x0.heap = H /\ x0.at = a
  BY <1>1 DEF LoopState
<1>3. <<0, x0>> \in J
  <2>1. DownGood(H, key, E, n, a, 0, x0)
    BY <1>1, <1>2, Zenon DEF DownGood, SameTail
  <2> HIDE DEF x0
  <2>. QED  BY <1>2, <2>1
<1>4. \A k \in Nat : \A y : <<k, y>> \in J => y \in LoopState /\ DownGood(H, key, E, n, a, k, y)
  <2> HIDE DEF x0
  <2>. QED  OBVIOUS
<1>5. ASSUME NEW k \in Nat, NEW y \in LoopState, <<k, y>> \in J
      PROVE  <<k + 1, F[y]>> \in J
  <2>1. DownGood(H, key, E, n, a, k, y)
    BY <1>4, <1>5, Zenon
  <2>2. F[y] \in LoopState /\ DownGood(H, key, E, n, a, k + 1, F[y])
    BY <1>1, <2>1, <1>DownKeeps, Zenon
  <2> HIDE DEF F
  <2>. QED  BY <2>2
<1> HIDE DEF J, x0
<1>6. F = [x \in LoopState |-> DownStep(x, key, n)]
  BY Zenon
<1> HIDE DEF F
<1>7. /\ \E f : Iterates(f, F, x0, n) /\ \A k \in 0 .. n : f[k] \in LoopState
      /\ \A f : Follows(f, F, LoopState, x0, n) => \A k \in 0 .. n : <<k, f[k]>> \in J
  <2>1. Keeps(J, LoopState, F)
    BY <1>4, <1>5, Zenon DEF Keeps
  <2>. QED  BY <1>1, <1>3, <2>1, Loop, Zenon
<1>8. \E f : Eq(f)
  <2>1. PICK f : /\ f = [k \in 0 .. n |-> IF k = 0 THEN x0 ELSE F[f[k - 1]]]
                 /\ \A k \in 0 .. n : f[k] \in LoopState
    BY <1>7, Zenon DEF Iterates
  <2>2. \A k \in 0 .. n : k = 0 \/ k - 1 \in 0 .. n
    OBVIOUS
  <2>3. \A k \in 0 .. n : k # 0 => F[f[k - 1]] = DownStep(f[k - 1], key, n)
    BY <1>6, <2>1, <2>2, Zenon
  <2>. QED  BY <2>1, <2>3, Zenon
<1>9. Eq(s)
  <2> HIDE DEF Eq
  <2>. QED  BY <1>8, Zenon
<1>10. down(H, key, a, n) = s[n].heap
  BY Zenon DEF down, x0
<1> HIDE DEF s
<1>11. Follows(s, F, LoopState, x0, n)
  <2>1. 0 \in 0 .. n
    BY <1>1
  <2>2. s[0] = x0
    BY <1>9, <2>1, Zenon
  <2>3. \A k \in 1 .. n : s[k] = DownStep(s[k - 1], key, n)
    BY <1>1, <1>9, Zenon
  <2>. QED  BY <1>6, <2>2, <2>3, Zenon DEF Follows
<1> DEFINE K == s[n].heap
           c == s[n].at
           v == KeysOf(K.h, key, n)
<1>12. DownGood(H, key, E, n, a, n, s[n])
  BY <1>1, <1>4, <1>7, <1>11, Zenon
<1>13. Placed(K, E) /\ SameTail(H, K, n) /\ c \in 1 .. Len(H.h) /\ a <= c /\ DownV(v, n, c, a)
       /\ (UpV(v, n, a) \/ c >= a + n)
  BY <1>12, Zenon DEF DownGood
<1>14. UpV(v, n, a)
  <2>1. SUFFICES ASSUME c >= a + n PROVE UpV(v, n, a)
    BY <1>13, Zenon
  <2>2. n \in 0 .. Len(K.h)
    BY <1>13, Zenon DEF SameTail
  <2>3. v \in [1 .. n -> Int]
    <3> HIDE DEF K
    <3>. QED  BY <1>13, <2>2, KeysAre
  <2> HIDE DEF c, v
  <2>4. c \in Nat /\ a \in 1 .. c
    BY <1>1, <1>13
  <2>5. ASSUME NEW k \in 2 .. n, k \div 2 = c PROVE v[c] <= v[k]
    <3>1. FALSE
      <4>1. k >= 2 * c
        BY <2>5, Half
      <4>. QED  BY <1>1, <2>1, <2>4, <4>1
    <3>. QED  BY <3>1
  <2>. QED  BY <1>1, <1>13, <2>3, <2>4, <2>5, DownStop, Zenon
<1>. QED  BY <1>10, <1>13, <1>14, Zenon

-----------------------------------------------------------------------------
(* The operations of container/heap. *)

InHeap(H, key, E) == Placed(H, E) /\ Sorted(KeysOf(H.h, key, Len(H.h)), Len(H.h))

(* It says what HeapOf says. *)
LEMMA InHeapIs ==
  ASSUME NEW H \in HeapSet, NEW key \in [Entry -> Int], NEW E
  PROVE  HeapOf(H, key, E) <=> InHeap(H, key, E)
<1> DEFINE N == Len(H.h)
<1>1. N \in Nat /\ \A a \in 1 .. N : H.h[a] \in Entry
  BY DEF HeapSet
<1>2. ASSUME NEW a \in 2 .. N
      PROVE  ~Less(H.h, key, a, a \div 2) <=> KeysOf(H.h, key, N)[a \div 2] <= KeysOf(H.h, key, N)[a]
  <2>1. a \in 1 .. N /\ a \div 2 \in 1 .. N
    BY <1>1, Half
  <2>2. KeysOf(H.h, key, N)[a] = key[H.h[a]] /\ KeysOf(H.h, key, N)[a \div 2] = key[H.h[a \div 2]]
    BY <2>1, Zenon DEF KeysOf
  <2>3. key[H.h[a]] \in Int /\ key[H.h[a \div 2]] \in Int
    BY <1>1, <2>1, Zenon
  <2>4. \A x, y \in Int : ~(x < y) <=> y <= x
    OBVIOUS
  <2>. QED  BY <2>2, <2>3, <2>4, Zenon DEF Less
<1>3. (\A a \in 2 .. N : ~Less(H.h, key, a, a \div 2)) <=> Sorted(KeysOf(H.h, key, N), N)
  BY <1>2, Zenon DEF Sorted
<1>. QED  BY <1>3, Zenon DEF HeapOf, InHeap, Placed

SameKeys(G, kez, H, key, n) == \A k \in 1 .. n : kez[G.h[k]] = key[H.h[k]]

(* The order is about the entries of the heap only. *)
LEMMA SameOrder ==
  ASSUME NEW E, NEW H, NEW G, NEW key, NEW kez, NEW n \in Nat, NEW N \in Nat, n <= N,
         Sorted(KeysOf(H.h, key, N), N), SameKeys(G, kez, H, key, n)
  PROVE  Sorted(KeysOf(G.h, kez, n), n)
<1>1. ASSUME NEW k \in 2 .. n PROVE KeysOf(G.h, kez, n)[k \div 2] <= KeysOf(G.h, kez, n)[k]
  <2>1. k \in 1 .. n /\ k \div 2 \in 1 .. n /\ k \in 2 .. N /\ k \in 1 .. N /\ k \div 2 \in 1 .. N
    BY Half
  <2>2. /\ KeysOf(G.h, kez, n)[k] = kez[G.h[k]] /\ KeysOf(G.h, kez, n)[k \div 2] = kez[G.h[k \div 2]]
        /\ KeysOf(H.h, key, N)[k] = key[H.h[k]] /\ KeysOf(H.h, key, N)[k \div 2] = key[H.h[k \div 2]]
    BY <2>1, Zenon DEF KeysOf
  <2>3. KeysOf(H.h, key, N)[k \div 2] <= KeysOf(H.h, key, N)[k]
    BY <2>1, Zenon DEF Sorted
  <2>4. kez[G.h[k]] = key[H.h[k]] /\ kez[G.h[k \div 2]] = key[H.h[k \div 2]]
    BY <2>1, Zenon DEF SameKeys
  <2>. QED  BY <2>2, <2>3, <2>4, Zenon
<1>. QED  BY <1>1, Zenon DEF Sorted

(* A heap stays one when keys of entries that it does not hold change. *)
LEMMA OtherKeys ==
  ASSUME NEW E, NEW H, NEW key, NEW kez, InHeap(H, key, E), \A e \in E : kez[e] = key[e]
  PROVE  InHeap(H, kez, E)
<1>1. Placed(H, E) /\ Len(H.h) \in Nat /\ Len(H.h) <= Len(H.h)
  <2>1. Placed(H, E)
    BY Zenon DEF InHeap
  <2>. QED  BY <2>1, HeapTypes
<1>2. SameKeys(H, kez, H, key, Len(H.h))
  BY <1>1, Zenon DEF Placed, SameKeys
<1>. QED  BY <1>1, <1>2, SameOrder, Zenon DEF InHeap

(* The last entry leaves the list. *)
LEMMA PopLast ==
  ASSUME NEW E, NEW H, Placed(H, E), H.h # <<>>
  PROVE  /\ Len(H.h) \in Nat \ {0} /\ Len(Pop(H).h) = Len(H.h) - 1
         /\ Placed(Pop(H), E \ {H.h[Len(H.h)]})
         /\ Agree(H, Pop(H), Len(H.h) - 1)
<1> DEFINE n == Len(H.h)
           h == SubSeq(H.h, 1, n - 1)
           e == H.h[n]
           pos == [H.pos EXCEPT ![e] = 0]
<1>1. n \in Nat \ {0} /\ H.pos \in [Entry -> Nat] /\ H.h \in Seq(Entry) /\ e \in Entry
  BY DEF Placed, HeapSet
<1>2. Pop(H) = [h |-> h, pos |-> pos] /\ Pop(H).h = h /\ Pop(H).pos = pos
  BY DEF Pop
<1>3. h \in Seq(Entry) /\ Len(h) = n - 1 /\ \A k \in 1 .. (n - 1) : h[k] = H.h[k]
  BY <1>1
<1>4. pos \in [Entry -> Nat] /\ \A f \in Entry : pos[f] = IF f = e THEN 0 ELSE H.pos[f]
  <2> HIDE DEF e
  <2>. QED  BY <1>1
<1>5. Pop(H) \in HeapSet
  <2> HIDE DEF h, pos
  <2>. QED  BY <1>2, <1>3, <1>4 DEF HeapSet
<1>6. {H.h[k] : k \in 1 .. n} = E /\ (\A k \in 1 .. n : H.pos[H.h[k]] = k)
      /\ (\A f \in Entry \ E : H.pos[f] = 0) /\ \A k \in 1 .. n : H.h[k] \in Entry
  BY HeapTypes, ZenonT(30) DEF Placed
<1> HIDE DEF h, pos
<1>7. n \in 1 .. n /\ (\A k \in 1 .. (n - 1) : k \in 1 .. n /\ k # n)
      /\ \A k \in 1 .. n : k # n => k \in 1 .. (n - 1)
  BY <1>1
<1>8. \A k \in 1 .. (n - 1) : H.h[k] # e
  BY <1>6, <1>7, Zenon
<1> HIDE DEF n
<1>9. {h[k] : k \in 1 .. (n - 1)} = E \ {e}
  <2>1. \A k \in 1 .. (n - 1) : h[k] \in E \ {e}
    BY <1>3, <1>6, <1>7, <1>8, Zenon
  <2>2. \A f \in E \ {e} : \E k \in 1 .. (n - 1) : h[k] = f
    <3> SUFFICES ASSUME NEW f \in E \ {e} PROVE \E k \in 1 .. (n - 1) : h[k] = f
      BY Zenon
    <3>1. PICK k \in 1 .. n : H.h[k] = f
      BY <1>6, Zenon
    <3>2. k \in 1 .. (n - 1)
      BY <1>7, <3>1, Zenon
    <3>. QED  BY <1>3, <3>1, <3>2, Zenon
  <2>. QED  BY <2>1, <2>2, ZenonT(30)
<1>10. ASSUME NEW k \in 1 .. (n - 1) PROVE pos[h[k]] = k
  <2>1. h[k] = H.h[k] /\ H.h[k] \in Entry /\ H.h[k] # e /\ H.pos[H.h[k]] = k
    BY <1>3, <1>6, <1>7, <1>8, Zenon
  <2>. QED  BY <1>4, <2>1, Zenon
<1>11. \A f \in Entry \ (E \ {e}) : pos[f] = 0
  BY <1>4, <1>6, Zenon
<1>12. Placed(Pop(H), E \ {e})
  <2>1. Len(Pop(H).h) = n - 1
    BY <1>2, <1>3, Zenon
  <2>. QED  BY <1>2, <1>5, <1>9, <1>10, <1>11, <2>1, ZenonT(30) DEF Placed
<1>. QED  BY <1>1, <1>2, <1>3, <1>12, Zenon DEF n, Agree

(* It leaves a heap if the others are in order. *)
LEMMA PopOrdered ==
  ASSUME NEW E, NEW H, Placed(H, E), H.h # <<>>, NEW key,
         Sorted(KeysOf(H.h, key, Len(H.h) - 1), Len(H.h) - 1)
  PROVE  /\ InHeap(Pop(H), key, E \ {H.h[Len(H.h)]})
         /\ Len(Pop(H).h) = Len(H.h) - 1
<1> DEFINE n == Len(H.h) - 1
<1>1. n \in Nat /\ n <= n
  BY PopLast
<1>2. SameKeys(Pop(H), key, H, key, n)
  <2>1. Agree(H, Pop(H), n)
    BY PopLast, Zenon
  <2>. QED  BY <2>1, Zenon DEF Agree, SameKeys
<1>3. Sorted(KeysOf(Pop(H).h, key, n), n)
  BY <1>1, <1>2, SameOrder, Zenon
<1>. QED  BY <1>3, PopLast, Zenon DEF InHeap

(* heap.Push *)
LEMMA PushHeap ==
  ASSUME NEW E, NEW H, NEW key \in [Entry -> Int], InHeap(H, key, E), NEW e \in Entry \ E
  PROVE  /\ InHeap(HeapPush(H, key, e), key, E \cup {e})
         /\ Len(HeapPush(H, key, e).h) = Len(H.h) + 1
(* An entry joins the list at its end. *)
<1>PushLast.
  ASSUME Placed(H, E), e \in Entry \ E
  PROVE  /\ Len(H.h) \in Nat /\ Len(Push(H, e).h) = Len(H.h) + 1
         /\ Placed(Push(H, e), E \cup {e})
         /\ Agree(H, Push(H, e), Len(H.h))
  <2> USE <1>PushLast
  <2> DEFINE n == Len(H.h)
             h == Append(H.h, e)
             pos == [H.pos EXCEPT ![e] = n + 1]
  <2>1. n \in Nat /\ H.pos \in [Entry -> Nat] /\ H.h \in Seq(Entry)
    BY DEF Placed, HeapSet
  <2>2. Push(H, e) = [h |-> h, pos |-> pos] /\ Push(H, e).h = h /\ Push(H, e).pos = pos
    BY DEF Push
  <2>3. h \in Seq(Entry) /\ Len(h) = n + 1 /\ h[n + 1] = e /\ \A k \in 1 .. n : h[k] = H.h[k]
    BY <2>1
  <2>4. pos \in [Entry -> Nat] /\ \A f \in Entry : pos[f] = IF f = e THEN n + 1 ELSE H.pos[f]
    <3> HIDE DEF n
    <3>. QED  BY <2>1
  <2>5. Push(H, e) \in HeapSet
    <3> HIDE DEF h, pos
    <3>. QED  BY <2>2, <2>3, <2>4 DEF HeapSet
  <2>6. {H.h[k] : k \in 1 .. n} = E /\ (\A k \in 1 .. n : H.pos[H.h[k]] = k)
        /\ (\A f \in Entry \ E : H.pos[f] = 0) /\ \A k \in 1 .. n : H.h[k] \in Entry
    BY HeapTypes, Zenon DEF Placed
  <2> HIDE DEF h, pos
  <2>7. n + 1 \in 1 .. (n + 1) /\ (\A k \in 1 .. (n + 1) : k = n + 1 \/ k \in 1 .. n)
        /\ \A k \in 1 .. n : k \in 1 .. (n + 1)
    BY <2>1
  <2>8. \A k \in 1 .. n : H.h[k] # e /\ H.h[k] \in E
    BY <2>6, Zenon
  <2> HIDE DEF n
  <2>9. {h[k] : k \in 1 .. (n + 1)} = E \cup {e}
    <3>1. \A k \in 1 .. (n + 1) : h[k] \in E \cup {e}
      BY <2>3, <2>7, <2>8, Zenon
    <3>2. \A f \in E \cup {e} : \E k \in 1 .. (n + 1) : h[k] = f
      <4> SUFFICES ASSUME NEW f \in E \cup {e} PROVE \E k \in 1 .. (n + 1) : h[k] = f
        BY Zenon
      <4>1. CASE f = e
        BY <2>3, <2>7, <4>1, Zenon
      <4>2. CASE f # e
        <5>1. PICK k \in 1 .. n : H.h[k] = f
          BY <2>6, <4>2, Zenon
        <5>. QED  BY <2>3, <2>7, <5>1, Zenon
      <4>. QED  BY <4>1, <4>2, Zenon
    <3>. QED  BY <3>1, <3>2, ZenonT(30)
  <2>10. ASSUME NEW k \in 1 .. (n + 1) PROVE pos[h[k]] = k
    <3>1. CASE k = n + 1
      BY <2>3, <2>4, <3>1, Zenon
    <3>2. CASE k \in 1 .. n
      <4>1. h[k] = H.h[k] /\ H.h[k] \in Entry /\ H.h[k] # e /\ H.pos[H.h[k]] = k
        BY <2>3, <2>6, <2>8, <3>2, Zenon
      <4>. QED  BY <2>4, <4>1, Zenon
    <3>. QED  BY <2>7, <3>1, <3>2, Zenon
  <2>11. \A f \in Entry \ (E \cup {e}) : pos[f] = 0
    BY <2>4, <2>6, Zenon
  <2>12. Placed(Push(H, e), E \cup {e})
    <3> DEFINE P == Push(H, e)
               F == E \cup {e}
    <3>1. P.h = h /\ P.pos = pos /\ Len(P.h) = n + 1 /\ P \in HeapSet
      BY <2>2, <2>3, <2>5, Zenon
    <3> HIDE DEF P
    <3>2. {P.h[k] : k \in 1 .. Len(P.h)} = F
      BY <2>9, <3>1
    <3>3. \A k \in 1 .. Len(P.h) : P.pos[P.h[k]] = k
      BY <2>10, <3>1, Zenon
    <3>4. \A f \in Entry \ F : P.pos[f] = 0
      BY <2>11, <3>1, Zenon
    <3> HIDE DEF F
    <3>5. Placed(P, F)
      BY <3>1, <3>2, <3>3, <3>4, Zenon DEF Placed
    <3>. QED  BY <3>5 DEF P, F
  <2>. QED  BY <2>1, <2>2, <2>3, <2>12, Zenon DEF n, Agree
<1> DEFINE G == Push(H, e)
           n == Len(H.h)
           N == Len(H.h) + 1
           K == up(G, key, N)
<1>1. Placed(H, E) /\ Sorted(KeysOf(H.h, key, n), n)
  BY Zenon DEF InHeap
<1>2. n \in Nat /\ Len(G.h) = N /\ Placed(G, E \cup {e}) /\ Agree(H, G, n)
  BY <1>1, <1>PushLast, Zenon
<1>3. N \in 0 .. Len(G.h) /\ N \in 1 .. N /\ N \in Nat /\ n <= n
  BY <1>2
<1>4. SameKeys(G, key, H, key, n)
  BY <1>2, Zenon DEF SameKeys, Agree
<1>5. Sorted(KeysOf(G.h, key, n), n)
  BY <1>1, <1>2, <1>3, <1>4, SameOrder, Zenon
<1> HIDE DEF G
<1>6. UpV(KeysOf(G.h, key, N), N, N)
  <2>1. ASSUME NEW k \in 2 .. N
        PROVE  /\ k # N => KeysOf(G.h, key, N)[k \div 2] <= KeysOf(G.h, key, N)[k]
               /\ k \div 2 # N
    <3>1. k \div 2 # N /\ k \in 1 .. N /\ k \div 2 \in 1 .. N
          /\ (k # N => k \in 2 .. n /\ k \in 1 .. n /\ k \div 2 \in 1 .. n)
      BY <1>2, Half
    <3>2. KeysOf(G.h, key, N)[k] = key[G.h[k]] /\ KeysOf(G.h, key, N)[k \div 2] = key[G.h[k \div 2]]
      BY <3>1, Zenon DEF KeysOf
    <3>3. CASE k # N
      <4>1. KeysOf(G.h, key, n)[k] = key[G.h[k]] /\ KeysOf(G.h, key, n)[k \div 2] = key[G.h[k \div 2]]
        BY <3>1, <3>3, Zenon DEF KeysOf
      <4>2. KeysOf(G.h, key, n)[k \div 2] <= KeysOf(G.h, key, n)[k]
        BY <1>5, <3>1, <3>3, Zenon DEF Sorted
      <4>. QED  BY <3>1, <3>2, <4>1, <4>2, Zenon
    <3>. QED  BY <3>1, <3>3, Zenon
  <2>. QED  BY <2>1, Zenon DEF UpV
<1>7. Placed(K, E \cup {e}) /\ SameTail(G, K, N) /\ Sorted(KeysOf(K.h, key, N), N)
  BY <1>2, <1>3, <1>6, UpSorts, Zenon
<1>8. HeapPush(H, key, e) = K
  BY Zenon DEF HeapPush, G
<1>9. Len(K.h) = N
  BY <1>2, <1>7, Zenon DEF SameTail
<1>. QED  BY <1>7, <1>8, <1>9, Zenon DEF InHeap

(* D is H when the last entry has changed places with the one at a and sunk. *)
Sunk(H, D, key, E, a) ==
  /\ Len(H.h) \in Nat \ {0}
  /\ Placed(D, E)
  /\ Len(D.h) = Len(H.h)
  /\ D.h[Len(H.h)] = H.h[a]
  /\ UpV(KeysOf(D.h, key, Len(H.h) - 1), Len(H.h) - 1, a)

LEMMA SwapDown ==
  ASSUME NEW E, NEW H, NEW key \in [Entry -> Int], InHeap(H, key, E), NEW a \in 1 .. Len(H.h)
  PROVE  Sunk(H, down(Swap(H, a, Len(H.h)), key, a, Len(H.h) - 1), key, E, a)
(* A heap in order in which another key takes the place of the one at a. *)
<1>Replaced.
  ASSUME NEW n \in Nat, NEW N \in Nat, n <= N, NEW u \in [1 .. N -> Int],
         NEW v \in [1 .. n -> Int], a \in 1 .. N, Sorted(u, N),
         \A k \in 1 .. n : k # a => v[k] = u[k]
  PROVE  DownV(v, n, a, a)
  <2> USE <1>Replaced
  <2>1. SUFFICES ASSUME NEW k \in 2 .. n
                 PROVE  /\ k \div 2 # a /\ k # a => v[k \div 2] <= v[k]
                        /\ a >= 2 /\ k \div 2 = a => v[a \div 2] <= v[k]
    BY Zenon DEF DownV
  <2>2. k \div 2 \in 1 .. n /\ k \div 2 < k /\ k \in 1 .. n /\ k \in 2 .. N /\ k \div 2 \in 1 .. N
    BY Half
  <2>3. u[k \div 2] <= u[k]
    BY <2>2, Zenon DEF Sorted
  <2>4. CASE k \div 2 # a /\ k # a
    BY <2>2, <2>3, <2>4, Zenon
  <2>5. CASE a >= 2 /\ k \div 2 = a
    <3>1. a \in 2 .. N /\ a \div 2 \in 1 .. n /\ a \div 2 # a /\ a \div 2 \in 1 .. N /\ k # a
      BY <2>2, <2>5, Half
    <3>2. u[a \div 2] <= u[a]
      BY <3>1, Zenon DEF Sorted
    <3>3. v[a \div 2] = u[a \div 2] /\ v[k] = u[k] /\ u[a] <= u[k]
      BY <2>2, <2>3, <2>5, <3>1, Zenon
    <3>4. u[a \div 2] \in Int /\ u[a] \in Int /\ u[k] \in Int
      BY <2>2, <2>5, <3>1, Zenon
    <3>. QED  BY <2>5, <3>2, <3>3, <3>4, LeqTransitive, Zenon
  <2>. QED  BY <2>4, <2>5, Zenon
<1> DEFINE N == Len(H.h)
           n == Len(H.h) - 1
           G == Swap(H, a, N)
           D == down(G, key, a, n)
<1>1. Placed(H, E) /\ Sorted(KeysOf(H.h, key, N), N)
  BY Zenon DEF InHeap
<1>2. N \in Nat \ {0} /\ N \in 1 .. N /\ n \in Nat /\ n \in 0 .. N /\ n <= N /\ N \in 0 .. N
      /\ (\A k \in 1 .. n : k \in 1 .. N /\ k # N) /\ N \in (n + 1) .. N
  BY <1>1, HeapTypes
<1>3. /\ Placed(G, E) /\ Len(G.h) = N /\ G.h[a] = H.h[N] /\ G.h[N] = H.h[a]
      /\ \A k \in 1 .. N : k # a /\ k # N => G.h[k] = H.h[k]
  <2>1. Placed(G, E) /\ Traded(H, G, a, N)
    BY <1>1, <1>2, SwapHeap, Zenon
  <2>. QED  BY <2>1, Zenon DEF Traded
<1> DEFINE u == KeysOf(H.h, key, N)
           v == KeysOf(G.h, key, n)
<1>4. u \in [1 .. N -> Int] /\ v \in [1 .. n -> Int]
  <2>1. u \in [1 .. N -> Int]
    BY <1>1, <1>2, KeysAre, Zenon
  <2>2. v \in [1 .. n -> Int]
    <3> HIDE DEF G
    <3>. QED  BY <1>2, <1>3, KeysAre, ZenonT(30)
  <2>. QED  BY <2>1, <2>2, Zenon
<1>5. ASSUME NEW k \in 1 .. n, k # a PROVE v[k] = u[k]
  <2>1. k \in 1 .. N /\ k # N
    BY <1>2, Zenon
  <2>2. v[k] = key[G.h[k]] /\ u[k] = key[H.h[k]]
    BY <2>1, Zenon DEF KeysOf
  <2>. QED  BY <1>3, <1>5, <2>1, <2>2, Zenon
<1>6. DownV(v, n, a, a)
  <2> HIDE DEF u, v
  <2>. QED  BY <1>1, <1>2, <1>4, <1>5, <1>Replaced, Zenon DEF u
<1> HIDE DEF G
<1>7. Placed(D, E) /\ SameTail(G, D, n) /\ UpV(KeysOf(D.h, key, n), n, a)
  BY <1>2, <1>3, <1>6, DownSinks, Zenon
<1>8. Len(D.h) = N /\ D.h[N] = H.h[a]
  BY <1>2, <1>3, <1>7, Zenon DEF SameTail
<1>. QED  BY <1>2, <1>7, <1>8, Zenon DEF G, Sunk

(* heap.Pop *)
LEMMA PopHeap ==
  ASSUME NEW E, NEW H, NEW key \in [Entry -> Int], InHeap(H, key, E), H.h # <<>>
  PROVE  /\ InHeap(HeapPop(H, key), key, E \ {H.h[1]})
         /\ Len(HeapPop(H, key).h) = Len(H.h) - 1
         /\ H.h[1] \in E
<1> DEFINE N == Len(H.h)
           n == Len(H.h) - 1
           D == down(Swap(H, 1, N), key, 1, n)
<1>1. 1 \in 1 .. N /\ H.h[1] \in E
  <2>1. Placed(H, E)
    BY Zenon DEF InHeap
  <2>2. 1 \in 1 .. N
    BY <2>1, PopLast
  <2>. QED  BY <2>1, <2>2, Zenon DEF Placed
<1>2. /\ N \in Nat \ {0} /\ Placed(D, E) /\ Len(D.h) = N /\ D.h[N] = H.h[1]
      /\ UpV(KeysOf(D.h, key, n), n, 1)
  <2>1. Sunk(H, D, key, E, 1)
    BY <1>1, SwapDown, Zenon
  <2>. QED  BY <2>1, Zenon DEF Sunk
<1> HIDE DEF D
<1>3. Sorted(KeysOf(D.h, key, n), n)
  <2>1. \A k \in 2 .. n : k # 1
    OBVIOUS
  <2>. QED  BY <1>2, <2>1, Zenon DEF UpV, Sorted
<1>4. D.h # <<>>
  BY <1>2
<1>5. InHeap(Pop(D), key, E \ {D.h[Len(D.h)]}) /\ Len(Pop(D).h) = Len(D.h) - 1
  <2>1. Sorted(KeysOf(D.h, key, Len(D.h) - 1), Len(D.h) - 1)
    BY <1>2, <1>3, Zenon
  <2>. QED  BY <1>2, <1>4, <2>1, PopOrdered, Zenon
<1>6. HeapPop(H, key) = Pop(D)
  BY Zenon DEF HeapPop, D
<1>. QED  BY <1>1, <1>2, <1>5, <1>6, Zenon

(* heap.Remove *)
LEMMA RemoveHeap ==
  ASSUME NEW E, NEW H, NEW key \in [Entry -> Int], InHeap(H, key, E), NEW a \in 1 .. Len(H.h)
  PROVE  /\ InHeap(HeapRemove(H, key, a), key, E \ {H.h[a]})
         /\ Len(HeapRemove(H, key, a).h) = Len(H.h) - 1
<1> DEFINE N == Len(H.h)
           n == Len(H.h) - 1
           D == down(Swap(H, a, N), key, a, n)
           U == up(D, key, a)
<1>1. Placed(H, E) /\ Sorted(KeysOf(H.h, key, N), N)
  BY Zenon DEF InHeap
<1>2. /\ N \in Nat \ {0} /\ Placed(D, E) /\ Len(D.h) = N /\ D.h[N] = H.h[a]
      /\ UpV(KeysOf(D.h, key, n), n, a)
  <2>1. Sunk(H, D, key, E, a)
    BY SwapDown, Zenon
  <2>. QED  BY <2>1, Zenon DEF Sunk
<1>3. n \in Nat /\ n <= N /\ n \in 0 .. N /\ (a # N => a \in 1 .. n) /\ N \in (n + 1) .. N /\ H.h # <<>>
  BY <1>2
<1>4. CASE a = N
  <2>1. HeapRemove(H, key, a) = Pop(H)
    BY <1>4, Zenon DEF HeapRemove
  <2>2. SameKeys(H, key, H, key, n)
    BY Zenon DEF SameKeys
  <2>3. Sorted(KeysOf(H.h, key, n), n)
    BY <1>1, <1>2, <1>3, <2>2, SameOrder, Zenon
  <2>4. InHeap(Pop(H), key, E \ {H.h[Len(H.h)]}) /\ Len(Pop(H).h) = Len(H.h) - 1
    BY <1>1, <1>3, <2>3, PopOrdered, Zenon
  <2>. QED  BY <1>4, <2>1, <2>4, Zenon
<1>5. CASE a # N
  <2>1. HeapRemove(H, key, a) = Pop(U)
    BY <1>5, Zenon DEF HeapRemove
  <2> HIDE DEF D
  <2>2. Placed(U, E) /\ SameTail(D, U, n) /\ Sorted(KeysOf(U.h, key, n), n)
    <3>1. n \in 0 .. Len(D.h) /\ a \in 1 .. n
      BY <1>2, <1>3, <1>5, Zenon
    <3>. QED  BY <1>2, <3>1, UpSorts, Zenon
  <2> HIDE DEF U
  <2>3. Len(U.h) = N /\ U.h[N] = H.h[a]
    BY <1>2, <1>3, <2>2, Zenon DEF SameTail
  <2>4. U.h # <<>>
    BY <1>2, <2>3
  <2>5. Sorted(KeysOf(U.h, key, Len(U.h) - 1), Len(U.h) - 1)
    BY <2>2, <2>3, Zenon
  <2>6. InHeap(Pop(U), key, E \ {U.h[Len(U.h)]}) /\ Len(Pop(U).h) = Len(U.h) - 1
    BY <2>2, <2>4, <2>5, PopOrdered, Zenon
  <2>. QED  BY <2>1, <2>3, <2>6, Zenon
<1>. QED  BY <1>4, <1>5, Zenon

(* No entry comes before the first. *)
LEMMA FirstIsLeast ==
  ASSUME NEW E, NEW H, NEW key \in [Entry -> Int], InHeap(H, key, E), NEW e \in E
  PROVE  H.h # <<>> /\ key[H.h[1]] <= key[e]
<1> DEFINE N == Len(H.h)
           T == {k \in 1 .. N : ~(key[H.h[1]] <= key[H.h[k]])}
<1>1. Placed(H, E) /\ Sorted(KeysOf(H.h, key, N), N)
  BY Zenon DEF InHeap
<1>2. N \in Nat /\ \A k \in 1 .. N : key[H.h[k]] \in Int
  <2>1. N \in Nat /\ \A k \in 1 .. N : H.h[k] \in Entry
    BY <1>1, HeapTypes, Zenon
  <2>. QED  BY <2>1, Zenon
<1>3. PICK j \in 1 .. N : H.h[j] = e
  BY <1>1, Zenon DEF Placed
<1>4. 1 \in 1 .. N /\ H.h # <<>>
  BY <1>2, <1>3
<1>5. T = {}
  <2>1. SUFFICES ASSUME T # {} PROVE FALSE
    BY Zenon
  <2>2. T \in SUBSET Nat
    BY <1>2
  <2>3. PICK m \in T : \A k \in T : m <= k
    <3> HIDE DEF T
    <3>. QED  BY <2>1, <2>2, LeastNumber, Zenon
  <2>4. m \in 1 .. N /\ ~(key[H.h[1]] <= key[H.h[m]])
    BY <2>3, Zenon
  <2>5. m # 1
    <3>1. key[H.h[1]] <= key[H.h[1]]
      <4>1. key[H.h[1]] \in Int
        BY <1>2, <1>4, Zenon
      <4>. QED  BY <4>1
    <3>. QED  BY <2>4, <3>1, Zenon
  <2>6. m \in 2 .. N /\ m \div 2 \in 1 .. N /\ ~(m <= m \div 2)
    BY <1>2, <2>4, <2>5, Half
  <2>7. m \div 2 \notin T
    BY <2>3, <2>6, Zenon
  <2>8. key[H.h[1]] <= key[H.h[m \div 2]]
    BY <2>6, <2>7, Zenon
  <2>9. key[H.h[m \div 2]] <= key[H.h[m]]
    <3>1. KeysOf(H.h, key, N)[m \div 2] = key[H.h[m \div 2]] /\ KeysOf(H.h, key, N)[m] = key[H.h[m]]
      BY <2>4, <2>6, Zenon DEF KeysOf
    <3>. QED  BY <1>1, <2>6, <3>1, Zenon DEF Sorted
  <2>. QED  BY <1>2, <1>4, <2>4, <2>6, <2>8, <2>9, LeqTransitive, Zenon
<1>. QED  BY <1>3, <1>4, <1>5, Zenon

LEMMA NoneLeft ==
  ASSUME NEW H, NEW E, Placed(H, E), Len(H.h) <= 0
  PROVE  E = {}
<1>1. Len(H.h) \in Nat
  BY HeapTypes, Zenon
<1>2. \A a \in 1 .. Len(H.h) : FALSE
  BY <1>1
<1>. QED  BY <1>2, Zenon DEF Placed

(* An entry is at the place it knows. *)
LEMMA AtItsPlace ==
  ASSUME NEW H, NEW E, Placed(H, E), NEW e \in E
  PROVE  H.pos[e] \in 1 .. Len(H.h) /\ H.h[H.pos[e]] = e
<1>1. PICK k \in 1 .. Len(H.h) : H.h[k] = e
  BY Zenon DEF Placed
<1>2. H.pos[e] = k
  BY <1>1, Zenon DEF Placed
<1>. QED  BY <1>1, <1>2, Zenon

(* container/heap with the methods of heap.go, for heaps of any size: Push, Pop
   and Remove leave a heap of the right entries in which every entry knows its
   place, and what Pop takes comes after no other entry. *)
THEOREM HeapOperations ==
  ASSUME NEW key \in [Entry -> Int], NEW E, NEW H \in HeapSet, HeapOf(H, key, E)
  PROVE  /\ \A e \in Entry \ E : HeapOf(HeapPush(H, key, e), key, E \cup {e})
         /\ \A a \in 1 .. Len(H.h) : HeapOf(HeapRemove(H, key, a), key, E \ {H.h[a]})
         /\ H.h # <<>> => /\ HeapOf(HeapPop(H, key), key, E \ {H.h[1]})
                          /\ \A e \in E : key[H.h[1]] <= key[e]
<1>1. InHeap(H, key, E)
  BY InHeapIs, Zenon
<1>2. ASSUME NEW G, NEW D, InHeap(G, key, D) PROVE HeapOf(G, key, D)
  <2>1. G \in HeapSet
    BY <1>2, Zenon DEF InHeap, Placed
  <2>. QED  BY <1>2, <2>1, InHeapIs, Zenon
<1>3. ASSUME NEW e \in Entry \ E PROVE HeapOf(HeapPush(H, key, e), key, E \cup {e})
  BY <1>1, <1>2, PushHeap, Zenon
<1>4. ASSUME NEW a \in 1 .. Len(H.h) PROVE HeapOf(HeapRemove(H, key, a), key, E \ {H.h[a]})
  BY <1>1, <1>2, RemoveHeap, Zenon
<1>5. ASSUME H.h # <<>> PROVE HeapOf(HeapPop(H, key), key, E \ {H.h[1]})
  BY <1>1, <1>2, <1>5, PopHeap, Zenon
<1>6. ASSUME NEW e \in E PROVE key[H.h[1]] <= key[e]
  BY <1>1, FirstIsLeast, Zenon
<1>. QED  BY <1>3, <1>4, <1>5, <1>6, Zenon

-----------------------------------------------------------------------------
(* A snapshot, and popping its copy.  g is h with the entries at a and b exchanged. *)

SnapshotSet ==
  [pc : {"idle", "pop", "pick", "sift", "popped"}, h : Seq(Entry), at : Nat, child : Nat]

(* Where a Pop of the snapshot is. *)
Places(s) ==
  /\ s.at \in 0 .. Len(s.h) /\ s.child \in 0 .. Len(s.h)
  /\ s.pc = "idle" => s.h = <<>>
  /\ s.pc \in {"pick", "sift"} => s.at \in 1 .. Len(s.h)
  /\ s.pc = "sift" => s.child \in 2 .. (Len(s.h) - 1) /\ s.child \div 2 = s.at
  /\ s.pc = "popped" => s.h # <<>>

(* No application is in the snapshot twice, or in the list and the snapshot, or
   in the list twice. *)
AppsOnce(h, list) ==
  /\ \A k, l \in 1 .. Len(h) : h[k].ApplicationId = h[l].ApplicationId => k = l
  /\ \A k, l \in 1 .. Len(list) : list[k] = list[l] => k = l
  /\ \A k \in 1 .. Len(list), l \in 1 .. Len(h) : list[k] # h[l].ApplicationId

(* The order in which the snapshot is popped, though keys change meanwhile: with
   every entry of G its parent is in G, but for the children of c. *)
Closed(h, G, n) == \A k \in 2 .. n : h[k] \in G => h[k \div 2] \in G

HoleAt(h, G, n, c) ==
  \A k \in 2 .. n : h[k] \in G => /\ k \div 2 # c => h[k \div 2] \in G
                                  /\ k \div 2 = c /\ c >= 2 => h[c \div 2] \in G

LastIn(h, G) == (\E k \in 1 .. Len(h) : h[k] \in G) => h[Len(h)] \in G

InOrder(s, G) ==
  /\ s.pc = "pop" => Closed(s.h, G, Len(s.h))
  /\ s.pc \in {"pick", "sift"} => HoleAt(s.h, G, Len(s.h) - 1, s.at)
  /\ s.pc = "sift" =>
       \A k \in 2 .. (Len(s.h) - 1) : k \div 2 = s.at /\ s.h[k] \in G => s.h[s.child] \in G
  /\ s.pc = "popped" => Closed(s.h, G, Len(s.h) - 1)
  /\ s.pc \in {"pick", "sift", "popped"} => LastIn(s.h, G)

Flipped(h, g, a, b) ==
  /\ g \in Seq(Entry) /\ Len(g) = Len(h)
  /\ g[a] = h[b] /\ g[b] = h[a]
  /\ \A k \in 1 .. Len(h) : k # a /\ k # b => g[k] = h[k]

LEMMA SwappedIs ==
  ASSUME NEW h \in Seq(Entry), NEW a \in 1 .. Len(h), NEW b \in 1 .. Len(h)
  PROVE  Flipped(h, Swapped(h, a, b), a, b)
<1>1. h \in [1 .. Len(h) -> Entry] /\ Len(h) \in Nat /\ h[a] \in Entry /\ h[b] \in Entry
  OBVIOUS
<1> DEFINE g == [h EXCEPT ![a] = h[b], ![b] = h[a]]
<1>2. /\ g \in [1 .. Len(h) -> Entry]
      /\ \A k \in 1 .. Len(h) : g[k] = IF k = b THEN h[a] ELSE IF k = a THEN h[b] ELSE h[k]
  BY <1>1, TwoChanged, Zenon
<1> HIDE DEF g
<1>3. g \in Seq(Entry) /\ Len(g) = Len(h)
  BY <1>1, <1>2
<1>4. g[a] = h[b] /\ g[b] = h[a] /\ \A k \in 1 .. Len(h) : k # a /\ k # b => g[k] = h[k]
  BY <1>2, Zenon
<1>. QED  BY <1>3, <1>4, Zenon DEF Flipped, g, Swapped

LEMMA FlippedKeeps ==
  ASSUME NEW h, NEW g, NEW a \in 1 .. Len(h), NEW b \in 1 .. Len(h), Flipped(h, g, a, b)
  PROVE  \A list : AppsOnce(h, list) => AppsOnce(g, list)
<1>1. \A k \in 1 .. Len(h) : g[k] = IF k = a THEN h[b] ELSE IF k = b THEN h[a] ELSE h[k]
  BY Zenon DEF Flipped
<1>2. Len(g) = Len(h)
  BY Zenon DEF Flipped
<1>3. \A k \in 1 .. Len(h) : \E l \in 1 .. Len(h) : g[k] = h[l]
  BY <1>1, Zenon
<1>5. ASSUME NEW list, AppsOnce(h, list) PROVE AppsOnce(g, list)
  <2>1. /\ \A k, l \in 1 .. Len(h) : h[k].ApplicationId = h[l].ApplicationId => k = l
        /\ \A k, l \in 1 .. Len(list) : list[k] = list[l] => k = l
        /\ \A k \in 1 .. Len(list), l \in 1 .. Len(h) : list[k] # h[l].ApplicationId
    BY <1>5, Zenon DEF AppsOnce
  <2>2. ASSUME NEW k \in 1 .. Len(h), NEW l \in 1 .. Len(h), g[k].ApplicationId = g[l].ApplicationId
        PROVE  k = l
    <3>1. CASE k = a
      BY <1>1, <2>1, <2>2, <3>1, Zenon
    <3>2. CASE k = b
      BY <1>1, <2>1, <2>2, <3>2, Zenon
    <3>3. CASE k # a /\ k # b
      BY <1>1, <2>1, <2>2, <3>3, Zenon
    <3>. QED  BY <3>1, <3>2, <3>3, Zenon
  <2>3. \A k \in 1 .. Len(list), l \in 1 .. Len(h) : list[k] # g[l].ApplicationId
    <3> SUFFICES ASSUME NEW k \in 1 .. Len(list), NEW l \in 1 .. Len(h) PROVE list[k] # g[l].ApplicationId
      BY Zenon
    <3>1. PICK j \in 1 .. Len(h) : g[l] = h[j]
      BY <1>3, Zenon
    <3>. QED  BY <2>1, <3>1, Zenon
  <2>. QED  BY <1>2, <2>1, <2>2, <2>3, Zenon DEF AppsOnce
<1>. QED  BY <1>5, Zenon

(* Pop takes the first entry to the end. *)
LEMMA PopOrder ==
  ASSUME NEW h, NEW g, NEW G, NEW n \in Nat \ {0}, n = Len(h), Closed(h, G, n), Flipped(h, g, 1, n)
  PROVE  HoleAt(g, G, n - 1, 1) /\ LastIn(g, G)
(* The first entry is in G if any is. *)
<1>RootIn.
  ASSUME n \in Nat, Closed(h, G, n), NEW k \in 1 .. n, h[k] \in G
  PROVE  h[1] \in G
  <2> USE <1>RootIn
  <2> DEFINE T == {l \in 1 .. n : h[l] \in G}
  <2>1. T \in SUBSET Nat /\ T # {} /\ \A l \in T : l \in 1 .. n /\ h[l] \in G
    OBVIOUS
  <2>2. PICK l \in T : \A j \in T : l <= j
    BY <2>1, LeastNumber, Zenon
  <2>3. l \in 1 .. n /\ h[l] \in G
    BY <2>1, Zenon
  <2>4. CASE l = 1
    BY <2>3, <2>4
  <2>5. CASE l # 1
    <3>1. l \in 2 .. n /\ l \div 2 \in 1 .. n /\ ~(l <= l \div 2)
      BY <2>3, <2>5, Half
    <3>2. h[l \div 2] \in G
      BY <2>3, <3>1, Zenon DEF Closed
    <3>. QED  BY <2>2, <3>1, <3>2, Zenon
  <2>. QED  BY <2>4, <2>5, Zenon
<1>1. /\ g[1] = h[n] /\ g[n] = h[1] /\ Len(g) = n
      /\ \A k \in 1 .. n : k # 1 /\ k # n => g[k] = h[k]
  BY Zenon DEF Flipped
<1>2. HoleAt(g, G, n - 1, 1)
  <2>1. ASSUME NEW k \in 2 .. (n - 1), g[k] \in G, k \div 2 # 1 PROVE g[k \div 2] \in G
    <3>1. /\ k \in 2 .. n /\ k \in 1 .. n /\ k # 1 /\ k # n
          /\ k \div 2 \in 1 .. n /\ k \div 2 # n
      BY Half
    <3>2. h[k \div 2] \in G
      BY <1>1, <2>1, <3>1, Zenon DEF Closed
    <3>. QED  BY <1>1, <2>1, <3>1, <3>2, Zenon
  <2>2. ~(1 >= 2)
    OBVIOUS
  <2>. QED  BY <2>1, <2>2, Zenon DEF HoleAt
<1>3. LastIn(g, G)
  <2> SUFFICES ASSUME NEW k \in 1 .. n, g[k] \in G PROVE g[n] \in G
    BY <1>1, Zenon DEF LastIn
  <2>0. 1 \in 1 .. n /\ n \in 1 .. n /\ n \in Nat
    OBVIOUS
  <2>1. \E l \in 1 .. n : h[l] \in G
    BY <1>1, <2>0, Zenon
  <2>2. h[1] \in G
    BY <2>0, <2>1, <1>RootIn, Zenon
  <2>. QED  BY <1>1, <2>2, Zenon
<1>. QED  BY <1>2, <1>3, Zenon

(* The list is in order when the hole has no children. *)
LEMMA NoChildOrder ==
  ASSUME NEW h, NEW G, NEW n \in Nat, NEW c \in Nat, 2 * c > n, HoleAt(h, G, n, c)
  PROVE  Closed(h, G, n)
<1>1. ASSUME NEW k \in 2 .. n PROVE k \div 2 # c
  BY Half
<1>. QED  BY <1>1, Zenon DEF HoleAt, Closed

Distinct(h, n) == \A k, l \in 1 .. n : h[k] = h[l] => k = l

(* K has the entry at place d besides those of G. *)
AlsoIn(h, K, G, n, d) ==
  /\ h[d] \in K
  /\ G \subseteq K
  /\ \A k \in 1 .. n : k # d => (h[k] \in K <=> h[k] \in G)

(* With a child of the hole, the child that down has picked is in G. *)
PickIn(h, G, n, c, b) == \A k \in 2 .. n : k \div 2 = c /\ h[k] \in G => h[b] \in G

(* The entry at the hole stays, as it is no earlier than the child. *)
LEMMA StayOrder ==
  ASSUME NEW h, NEW G, NEW K, NEW n \in Nat, NEW c \in 1 .. n, HoleAt(h, G, n, c),
         AlsoIn(h, K, G, n, c), NEW d \in 2 .. n, d \div 2 = c, h[d] \in G
  PROVE  Closed(h, K, n)
<1> SUFFICES ASSUME NEW k \in 2 .. n, h[k] \in K PROVE h[k \div 2] \in K
  BY Zenon DEF Closed
<1>1. k \in 1 .. n
  OBVIOUS
<1>2. CASE k = c
  <2>1. c >= 2
    BY <1>2
  <2>. QED  BY <1>2, <2>1, Zenon DEF HoleAt, AlsoIn
<1>3. CASE k # c
  <2>1. h[k] \in G
    BY <1>1, <1>3, Zenon DEF AlsoIn
  <2>. QED  BY <2>1, Zenon DEF HoleAt, AlsoIn
<1>. QED  BY <1>2, <1>3, Zenon

(* No child of the hole is in G. *)
LEMMA BarrenOrder ==
  ASSUME NEW h, NEW G, NEW n \in Nat, NEW c, HoleAt(h, G, n, c),
         \A k \in 2 .. n : k \div 2 = c => h[k] \notin G
  PROVE  Closed(h, G, n)
BY Zenon DEF HoleAt, Closed

(* The hole moves down, to the child. *)
LEMMA MoveOrder ==
  ASSUME NEW h, NEW g, NEW G, NEW K, NEW n \in Nat, NEW c \in 1 .. n, HoleAt(h, G, n, c),
         NEW b \in 2 .. n, b \div 2 = c, PickIn(h, G, n, c, b), n <= Len(h), Len(h) \in Nat,
         Flipped(h, g, c, b),
         \/ h[c] \in G /\ AlsoIn(h, K, G, n, b)
         \/ h[c] \notin G /\ K = G
  PROVE  HoleAt(g, K, n, b)
<1>0. c # b /\ b \in 1 .. n /\ \A k \in 1 .. n : k \in 1 .. Len(h)
  BY Half
<1>1. /\ g[c] = h[b] /\ g[b] = h[c]
      /\ \A k \in 1 .. n : k # c /\ k # b => g[k] = h[k]
  BY <1>0, Zenon DEF Flipped
<1> SUFFICES ASSUME NEW k \in 2 .. n, g[k] \in K
             PROVE  /\ k \div 2 # b => g[k \div 2] \in K
                    /\ k \div 2 = b /\ b >= 2 => g[b \div 2] \in K
  BY Zenon DEF HoleAt
<1>2. /\ k \in 1 .. n /\ k \div 2 \in 1 .. n /\ k # k \div 2
      /\ (k = c => k \div 2 # b /\ k \div 2 # c /\ c >= 2 /\ c \in 2 .. n)
      /\ (k \div 2 = b => k # c)
  <2>1. k \in 1 .. n /\ k \div 2 \in 1 .. n /\ k # k \div 2
    BY Half
  <2>2. k = c => k \div 2 # b /\ k \div 2 # c /\ c >= 2 /\ c \in 2 .. n
    BY Half
  <2>. QED  BY <2>1, <2>2, Zenon
<1>3. G \subseteq K
  BY Zenon DEF AlsoIn
<1>4. CASE k = c
  <2>1. h[c \div 2] \in G
    <3>1. CASE h[c] \in G
      BY <1>2, <1>4, <3>1, Zenon DEF HoleAt
    <3>2. CASE h[c] \notin G
      <4>1. h[b] \in G
        BY <1>1, <1>4, <3>2, Zenon
      <4>. QED  BY <1>2, <1>4, <4>1, Zenon DEF HoleAt
    <3>. QED  BY <3>1, <3>2, Zenon
  <2>. QED  BY <1>1, <1>2, <1>3, <1>4, <2>1, Zenon
<1>5. CASE k = b
  <2>1. h[b] \in K
    <3>1. CASE h[c] \in G
      BY <3>1, Zenon DEF AlsoIn
    <3>2. CASE h[c] \notin G
      BY <1>1, <1>5, <3>2, Zenon
    <3>. QED  BY <3>1, <3>2, Zenon
  <2>. QED  BY <1>0, <1>1, <1>2, <1>5, <2>1, Zenon
<1>6. CASE k # c /\ k # b
  <2>1. h[k] \in G
    <3>1. h[k] \in K
      BY <1>1, <1>2, <1>6
    <3>. QED  BY <1>2, <1>6, <3>1, Zenon DEF AlsoIn
  <2>2. k \div 2 = c => h[b] \in K
    <3>1. CASE h[c] \in G
      BY <3>1, Zenon DEF AlsoIn
    <3>2. CASE h[c] \notin G
      BY <1>3, <2>1, <3>2, Zenon DEF PickIn
    <3>. QED  BY <3>1, <3>2, Zenon
  <2>3. k \div 2 # c => h[k \div 2] \in K
    BY <1>3, <2>1, Zenon DEF HoleAt
  <2>4. CASE k \div 2 = c
    BY <1>0, <1>1, <2>2, <2>4, Zenon
  <2>5. CASE k \div 2 = b
    BY <1>0, <1>1, <2>3, <2>5, Zenon
  <2>6. CASE k \div 2 # c /\ k \div 2 # b
    BY <1>1, <1>2, <2>3, <2>6, Zenon
  <2>. QED  BY <2>4, <2>5, <2>6, Zenon
<1>. QED  BY <1>4, <1>5, <1>6, Zenon

LEMMA CutLast ==
  ASSUME NEW h \in Seq(Entry), NEW n \in Nat \ {0}, n = Len(h)
  PROVE  LET g == SubSeq(h, 1, n - 1)
         IN /\ g \in Seq(Entry) /\ Len(g) = n - 1
            /\ \A k \in 1 .. (n - 1) : g[k] = h[k] /\ k \in 1 .. n /\ k # n
            /\ \A k \in 1 .. n : k = n \/ k \in 1 .. (n - 1)
<1> DEFINE g == SubSeq(h, 1, n - 1)
<1>1. g \in Seq(Entry)
  OBVIOUS
<1>2. Len(g) = n - 1
  OBVIOUS
<1>3. \A k \in 1 .. (n - 1) : g[k] = h[k]
  OBVIOUS
<1>4. \A k \in 1 .. (n - 1) : k \in 1 .. n /\ k # n
  OBVIOUS
<1>5. \A k \in 1 .. n : k = n \/ k \in 1 .. (n - 1)
  OBVIOUS
<1>. QED  BY <1>1, <1>2, <1>3, <1>4, <1>5, Zenon

LEMMA FlippedLast ==
  ASSUME NEW h, NEW g, NEW G, NEW a \in 1 .. Len(h), NEW b \in 1 .. Len(h), Flipped(h, g, a, b),
         Len(h) \in 1 .. Len(h), a # Len(h), b # Len(h), LastIn(h, G)
  PROVE  LastIn(g, G)
<1>1. \A k \in 1 .. Len(h) : g[k] = IF k = a THEN h[b] ELSE IF k = b THEN h[a] ELSE h[k]
  BY Zenon DEF Flipped
<1>2. Len(g) = Len(h) /\ g[Len(h)] = h[Len(h)]
  BY Zenon DEF Flipped
<1> SUFFICES ASSUME NEW k \in 1 .. Len(h), g[k] \in G PROVE h[Len(h)] \in G
  BY <1>2, Zenon DEF LastIn
<1>3. \E l \in 1 .. Len(h) : h[l] \in G
  BY <1>1, Zenon
<1>. QED  BY <1>3, Zenon DEF LastIn

Names(list) == [k \in 1 .. Len(list) |-> list[k].ApplicationId]

AtLeast(total, v) == {e \in Entry : total[e] >= v}

LEMMA HeapClosed ==
  ASSUME NEW H, NEW E, NEW c \in [Entry -> Nat], InHeap(H, More(c), E), NEW v \in Nat
  PROVE  Closed(H.h, AtLeast(c, v), Len(H.h))
<1> DEFINE h == H.h
           N == Len(h)
<1>1. Placed(H, E) /\ Sorted(KeysOf(h, More(c), N), N)
  BY Zenon DEF InHeap
<1>2. N \in Nat /\ \A k \in 1 .. N : h[k] \in Entry
  BY <1>1, HeapTypes, Zenon
<1> SUFFICES ASSUME NEW k \in 2 .. N, h[k] \in AtLeast(c, v) PROVE h[k \div 2] \in AtLeast(c, v)
  BY Zenon DEF Closed
<1> HIDE DEF N
<1>3. k \in 1 .. N /\ k \div 2 \in 1 .. N
  BY <1>2, Half
<1>4. More(c)[h[k \div 2]] <= More(c)[h[k]] /\ h[k \div 2] \in Entry /\ h[k] \in Entry
  BY <1>1, <1>2, <1>3, Zenon DEF Sorted, KeysOf, N
<1> DEFINE x == c[h[k \div 2]]
           y == c[h[k]]
<1>5. -x <= -y /\ y >= v
  BY <1>4, Zenon DEF More, AtLeast
<1>6. x \in Nat /\ y \in Nat
  BY <1>4, Zenon
<1> HIDE DEF x, y
<1>7. x >= v
  BY <1>5, <1>6
<1>. QED  BY <1>4, <1>7, Zenon DEF AtLeast, x

(* The same entries in another order. *)
Reordered(h, g) ==
  /\ \A k \in 1 .. Len(g) : \E l \in 1 .. Len(h) : g[k] = h[l]
  /\ \A l \in 1 .. Len(h) : \E k \in 1 .. Len(g) : g[k] = h[l]
  /\ \A list : AppsOnce(h, list) => AppsOnce(g, list)

LEMMA FlippedReorders ==
  ASSUME NEW h, NEW g, NEW a \in 1 .. Len(h), NEW b \in 1 .. Len(h), Flipped(h, g, a, b)
  PROVE  Reordered(h, g)
<1>1. \A k \in 1 .. Len(h) : g[k] = IF k = a THEN h[b] ELSE IF k = b THEN h[a] ELSE h[k]
  BY Zenon DEF Flipped
<1>2. Len(g) = Len(h)
  BY Zenon DEF Flipped
<1>3. \A k \in 1 .. Len(h) : \E l \in 1 .. Len(h) : g[k] = h[l]
  BY <1>1, Zenon
<1>4. \A l \in 1 .. Len(h) : \E k \in 1 .. Len(h) : g[k] = h[l]
  BY <1>1, Zenon
<1>5. \A list : AppsOnce(h, list) => AppsOnce(g, list)
  BY FlippedKeeps, Zenon
<1>. QED  BY <1>2, <1>3, <1>4, <1>5, Zenon DEF Reordered

(* A step of a Pop of x, with the totals c. *)
MovesOn(x, y, c) ==
  /\ y \in SnapshotSet /\ Places(y) /\ y.pc # "idle"
  /\ Reordered(x.h, y.h)
  /\ \A v \in Nat : InOrder(x, AtLeast(c, v)) => InOrder(y, AtLeast(c, v))

LEMMA AtLeastUp ==
  ASSUME NEW c \in [Entry -> Nat], NEW v \in Nat, NEW e \in AtLeast(c, v), NEW f \in Entry,
         \/ More(c)[f] <= More(c)[e]
         \/ More(c)[f] < More(c)[e]
         \/ ~(More(c)[e] < More(c)[f])
  PROVE  f \in AtLeast(c, v)
<1> DEFINE x == c[e]
           y == c[f]
<1>1. e \in Entry /\ x >= v
  BY Zenon DEF AtLeast
<1>2. More(c)[e] = -x /\ More(c)[f] = -y /\ x \in Nat /\ y \in Nat
  BY <1>1, Zenon DEF More
<1> HIDE DEF x, y
<1>3. -y <= -x \/ -y < -x \/ ~(-x < -y)
  BY <1>2, Zenon
<1>4. y >= v
  BY <1>1, <1>2, <1>3
<1>. QED  BY <1>4, Zenon DEF AtLeast, y

LEMMA PopStartedIs ==
  ASSUME NEW x \in SnapshotSet, x.pc = "pop", x.h # <<>>, NEW c
  PROVE  MovesOn(x, PopStarted(x), c)
<1> DEFINE h == x.h
           n == Len(h)
           g == Swapped(h, 1, n)
           y == PopStarted(x)
<1>1. h \in Seq(Entry)
  BY DEF SnapshotSet
<1>2. n \in Nat \ {0} /\ 1 \in 1 .. n /\ n \in 1 .. n
  BY <1>1
<1>3. Flipped(h, g, 1, n)
  BY <1>1, <1>2, SwappedIs, Zenon
<1> HIDE DEF g
<1>4. g \in Seq(Entry) /\ Len(g) = n
  BY <1>3, Zenon DEF Flipped
<1>5. y.pc = "pick" /\ y.h = g /\ y.at = 1 /\ y.child = 0 /\ y \in SnapshotSet /\ y.pc # "idle"
  BY <1>4 DEF PopStarted, SnapshotSet, g
<1> HIDE DEF y
<1>6. Places(y)
  BY <1>2, <1>4, <1>5 DEF Places
<1>7. ASSUME NEW G, InOrder(x, G) PROVE InOrder(y, G)
  <2>1. Closed(h, G, n)
    BY <1>7, Zenon DEF InOrder
  <2>2. HoleAt(g, G, n - 1, 1) /\ LastIn(g, G)
    BY <1>2, <1>3, <2>1, PopOrder, Zenon
  <2>. QED  BY <1>4, <1>5, <2>2, Zenon DEF InOrder
<1>8. Reordered(h, g)
  BY <1>2, <1>3, FlippedReorders, Zenon
<1>. QED  BY <1>5, <1>6, <1>7, <1>8, Zenon DEF MovesOn, y

(* Where a Pop under way is. *)
LEMMA PopUnderWay ==
  ASSUME NEW x \in SnapshotSet, Places(x), x.pc \in {"pick", "sift"}, NEW c \in [Entry -> Nat]
  PROVE  LET h == x.h
             n == Len(h) - 1
         IN /\ h \in Seq(Entry) /\ Len(h) \in Nat /\ n \in Nat /\ n <= Len(h) /\ n + 1 = Len(h)
            /\ x.at \in 1 .. Len(h) /\ x.at \in Nat
            /\ \A k \in 1 .. n : k \in 1 .. Len(h)
            /\ \A k \in 1 .. Len(h) : h[k] \in Entry /\ More(c)[h[k]] \in Int
<1> DEFINE h == x.h
<1>1. h \in Seq(Entry) /\ Len(h) \in Nat /\ \A k \in 1 .. Len(h) : h[k] \in Entry
  <2>1. h \in Seq(Entry)
    BY DEF SnapshotSet
  <2>. QED  BY <2>1
<1>2. x.at \in 1 .. Len(h)
  BY Zenon DEF Places
<1>3. Len(h) \in Nat
  BY <1>1, Zenon
<1>4. \A e \in Entry : More(c)[e] \in Int
  <2>1. \A k \in Nat : -k \in Int
    OBVIOUS
  <2>. QED  BY <2>1, Zenon DEF More
<1> DEFINE n == Len(h) - 1
<1>5. n \in Nat /\ n <= Len(h) /\ n + 1 = Len(h) /\ x.at \in Nat /\ \A k \in 1 .. n : k \in 1 .. Len(h)
  <2> HIDE DEF h
  <2>. QED  BY <1>2, <1>3
<1>. QED  BY <1>1, <1>2, <1>4, <1>5, Zenon

LEMMA PickedIs ==
  ASSUME NEW x \in SnapshotSet, Places(x), x.pc = "pick", NEW c \in [Entry -> Nat]
  PROVE  MovesOn(x, Picked(x, More(c)), c)
<1> DEFINE h == x.h
           n == Len(h) - 1
           d == x.at
           y == Picked(x, More(c))
<1>1. /\ h \in Seq(Entry) /\ Len(h) \in Nat /\ n \in Nat /\ n <= Len(h) /\ n + 1 = Len(h)
      /\ d \in 1 .. Len(h) /\ d \in Nat
      /\ \A k \in 1 .. n : k \in 1 .. Len(h)
      /\ \A k \in 1 .. Len(h) : h[k] \in Entry /\ More(c)[h[k]] \in Int
  BY PopUnderWay, Zenon
<1>2. Reordered(h, h)
  BY Zenon DEF Reordered
<1>3. CASE 2 * d > n
  <2>1. y = [x EXCEPT !.pc = "popped"]
    BY <1>3, Zenon DEF Picked
  <2> HIDE DEF y
  <2>2. /\ y.pc = "popped" /\ y.h = h /\ y.at = d /\ y.child = x.child /\ y \in SnapshotSet
        /\ y.pc # "idle"
    BY <2>1, Zenon DEF SnapshotSet
  <2>3. h # <<>>
    <3>1. d \in 1 .. Len(h)
      BY <1>1, Zenon
    <3>2. Len(<<>>) = 0 /\ ~(\E k \in 1 .. 0 : TRUE)
      OBVIOUS
    <3>. QED  BY <3>1, <3>2, Zenon
  <2>4. Places(y)
    BY <2>2, <2>3, Zenon DEF Places
  <2>5. ASSUME NEW G, InOrder(x, G) PROVE InOrder(y, G)
    <3>1. HoleAt(h, G, n, d) /\ LastIn(h, G)
      BY <2>5, Zenon DEF InOrder
    <3>2. Closed(h, G, n)
      BY <1>1, <1>3, <3>1, NoChildOrder, Zenon
    <3>. QED  BY <2>2, <3>1, <3>2, Zenon DEF InOrder
  <2>. QED  BY <1>2, <2>2, <2>4, <2>5, Zenon DEF MovesOn, y
<1>4. CASE ~(2 * d > n)
  <2> DEFINE b == SmallerChild(h, More(c), d, n)
  <2>1. y = [x EXCEPT !.pc = "sift", !.child = b]
    BY <1>4, Zenon DEF Picked
  <2>2. d \in 1 .. n /\ 2 * d <= n
    <3>1. n \in Nat /\ d \in Nat /\ d \in 1 .. Len(h) /\ Len(h) \in Nat
      BY <1>1, Zenon
    <3> HIDE DEF n, d
    <3>. QED  BY <1>4, <3>1
  <2>3. LeastChild(KeysOf(h, More(c), n), n, d, b)
    <3>1. KeysOf(h, More(c), n) \in [1 .. n -> Int]
      BY <1>1, Zenon DEF KeysOf
    <3>. QED  BY <1>1, <2>2, <3>1, SmallerChildIs, Zenon
  <2> HIDE DEF b, y
  <2>4. b \in 2 .. n /\ b \div 2 = d
    BY <2>3, Zenon DEF LeastChild
  <2>5. b \in 1 .. n /\ b \in Nat /\ b \in 0 .. Len(h) /\ b \in 1 .. Len(h)
    <3>1. n \in Nat /\ Len(h) \in Nat
      BY <1>1, Zenon
    <3>. QED  BY <2>4, <3>1
  <2>6. y.pc = "sift" /\ y.h = h /\ y.at = d /\ y.child = b /\ y \in SnapshotSet
    BY <2>1, <2>5, Zenon DEF SnapshotSet
  <2>7. Places(y) /\ y.pc # "idle"
    <3>1. y.pc # "idle" /\ y.pc # "popped"
      BY <2>6
    <3>. QED  BY <1>1, <2>4, <2>5, <2>6, <3>1, Zenon DEF Places
  <2>8. ASSUME NEW v \in Nat, InOrder(x, AtLeast(c, v)) PROVE InOrder(y, AtLeast(c, v))
    <3> DEFINE G == AtLeast(c, v)
    <3>1. HoleAt(h, G, n, d) /\ LastIn(h, G)
      BY <2>8, Zenon DEF InOrder
    <3>2. PickIn(h, G, n, d, b)
      <4> SUFFICES ASSUME NEW k \in 2 .. n, k \div 2 = d, h[k] \in G PROVE h[b] \in G
        BY Zenon DEF PickIn
      <4>1. k \in 1 .. n
        OBVIOUS
      <4>2. More(c)[h[b]] <= More(c)[h[k]]
        BY <2>3, <2>5, <4>1, Zenon DEF LeastChild, KeysOf
      <4>3. h[b] \in Entry
        BY <1>1, <2>5, Zenon
      <4>. QED  BY <4>2, <4>3, AtLeastUp, Zenon
    <3>. QED  BY <2>6, <2>7, <3>1, <3>2, Zenon DEF InOrder, PickIn
  <2>. QED  BY <1>2, <2>6, <2>7, <2>8, Zenon DEF MovesOn, y
<1>. QED  BY <1>3, <1>4, Zenon

LEMMA SiftedIs ==
  ASSUME NEW x \in SnapshotSet, Places(x), x.pc = "sift", NEW c \in [Entry -> Nat]
  PROVE  MovesOn(x, Sifted(x, More(c)), c)
<1> DEFINE h == x.h
           n == Len(h) - 1
           d == x.at
           b == x.child
           y == Sifted(x, More(c))
<1>1. /\ h \in Seq(Entry) /\ Len(h) \in Nat /\ n \in Nat /\ n <= Len(h) /\ n + 1 = Len(h)
      /\ d \in 1 .. Len(h) /\ d \in Nat
      /\ \A k \in 1 .. Len(h) : h[k] \in Entry /\ More(c)[h[k]] \in Int
  BY PopUnderWay, Zenon
<1>2. b \in 2 .. n /\ b \div 2 = d
  BY Zenon DEF Places
<1>3. /\ Len(h) \in 1 .. Len(h) /\ d \in 1 .. n /\ b \in 1 .. n /\ b \in Nat
      /\ b \in 1 .. Len(h) /\ d # Len(h) /\ b # Len(h)
  <2>1. n \in Nat /\ d \in 1 .. Len(h) /\ Len(h) \in Nat
    BY <1>1, Zenon
  <2>. QED  BY <1>2, <2>1, Half
<1>4. h[b] \in Entry /\ h[d] \in Entry
  BY <1>1, <1>3, Zenon
<1>5. ASSUME NEW G, InOrder(x, G) PROVE HoleAt(h, G, n, d) /\ LastIn(h, G) /\ PickIn(h, G, n, d, b)
  BY <1>5, Zenon DEF InOrder, PickIn
<1>6. CASE Less(h, More(c), b, d)
  <2> DEFINE g == Swapped(h, d, b)
  <2>1. y = [pc |-> "pick", h |-> g, at |-> b, child |-> 0]
    BY <1>6, Zenon DEF Sifted
  <2>2. Flipped(h, g, d, b)
    BY <1>1, <1>3, SwappedIs, Zenon
  <2> HIDE DEF g, y
  <2>3. g \in Seq(Entry) /\ Len(g) = Len(h)
    BY <2>2, Zenon DEF Flipped
  <2>4. y.pc = "pick" /\ y.h = g /\ y.at = b /\ y.child = 0 /\ y \in SnapshotSet
    BY <1>3, <2>1, <2>3 DEF SnapshotSet
  <2>5. b \in 0 .. Len(g) /\ 0 \in 0 .. Len(g) /\ b \in 1 .. Len(g)
    <3>1. Len(g) = Len(h) /\ Len(h) \in Nat /\ b \in 1 .. Len(h)
      BY <1>1, <1>3, <2>3, Zenon
    <3> HIDE DEF h, b
    <3>. QED  BY <3>1
  <2>6. y.pc # "idle" /\ y.pc # "sift" /\ y.pc # "popped"
    BY <2>4
  <2>7. Places(y)
    BY <2>4, <2>5, <2>6, Zenon DEF Places
  <2>8. Reordered(h, g)
    BY <1>1, <1>3, <2>2, FlippedReorders, Zenon
  <2>9. ASSUME NEW v \in Nat, InOrder(x, AtLeast(c, v)) PROVE InOrder(y, AtLeast(c, v))
    <3> DEFINE G == AtLeast(c, v)
    <3>1. HoleAt(h, G, n, d) /\ LastIn(h, G) /\ PickIn(h, G, n, d, b)
      BY <1>5, <2>9, Zenon
    <3>2. LastIn(g, G)
      BY <1>1, <1>3, <2>2, <3>1, FlippedLast, Zenon
    <3>3. (h[d] \in G /\ AlsoIn(h, G, G, n, b)) \/ (h[d] \notin G /\ G = G)
      <4>1. CASE h[d] \in G
        <5>1. h[b] \in G
          <6>1. More(c)[h[b]] < More(c)[h[d]]
            BY <1>6, Zenon DEF Less
          <6>. QED  BY <1>4, <4>1, <6>1, AtLeastUp, Zenon
        <5>. QED  BY <4>1, <5>1, Zenon DEF AlsoIn
      <4>2. CASE h[d] \notin G
        BY <4>2, Zenon
      <4>. QED  BY <4>1, <4>2, Zenon
    <3> HIDE DEF G
    <3>4. n \in Nat /\ n <= Len(h) /\ Len(h) \in Nat
      BY <1>1, Zenon
    <3>5. HoleAt(g, G, n, b)
      BY <1>2, <1>3, <2>2, <3>1, <3>3, <3>4, MoveOrder, Zenon
    <3>. QED  BY <2>3, <2>4, <2>6, <3>2, <3>5, Zenon DEF InOrder, G
  <2>. QED  BY <2>4, <2>6, <2>7, <2>8, <2>9, Zenon DEF MovesOn, y
<1>7. CASE ~Less(h, More(c), b, d)
  <2>1. y = [x EXCEPT !.pc = "popped"]
    BY <1>7, Zenon DEF Sifted
  <2> HIDE DEF y
  <2>2. /\ y.pc = "popped" /\ y.h = h /\ y.at = d /\ y.child = b /\ y \in SnapshotSet
        /\ y.pc # "idle"
    BY <2>1, Zenon DEF SnapshotSet
  <2>3. h # <<>>
    <3>1. d \in 1 .. Len(h)
      BY <1>1, Zenon
    <3>2. Len(<<>>) = 0 /\ ~(\E k \in 1 .. 0 : TRUE)
      OBVIOUS
    <3>. QED  BY <3>1, <3>2, Zenon
  <2>4. Places(y)
    BY <2>2, <2>3, Zenon DEF Places
  <2>5. ASSUME NEW v \in Nat, InOrder(x, AtLeast(c, v)) PROVE InOrder(y, AtLeast(c, v))
    <3> DEFINE G == AtLeast(c, v)
    <3>1. HoleAt(h, G, n, d) /\ LastIn(h, G) /\ PickIn(h, G, n, d, b)
      BY <1>5, <2>5, Zenon
    <3>2. Closed(h, G, n)
      <4>1. CASE \E k \in 2 .. n : k \div 2 = d /\ h[k] \in G
        <5>1. PICK k \in 2 .. n : k \div 2 = d /\ h[k] \in G
          BY <4>1, Zenon
        <5>2. h[b] \in G
          BY <3>1, <5>1, Zenon DEF PickIn
        <5>3. h[d] \in G
          <6>1. ~(More(c)[h[b]] < More(c)[h[d]])
            BY <1>7, Zenon DEF Less
          <6>. QED  BY <1>4, <5>2, <6>1, AtLeastUp, Zenon
        <5>4. AlsoIn(h, G, G, n, d)
          BY <5>3, Zenon DEF AlsoIn
        <5> HIDE DEF G
        <5>. QED  BY <1>1, <1>3, <3>1, <5>1, <5>4, StayOrder, Zenon
      <4>2. CASE ~(\E k \in 2 .. n : k \div 2 = d /\ h[k] \in G)
        BY <1>1, <3>1, <4>2, BarrenOrder, Zenon
      <4>. QED  BY <4>1, <4>2, Zenon
    <3>. QED  BY <2>2, <3>1, <3>2, Zenon DEF InOrder
  <2>6. Reordered(h, h)
    BY Zenon DEF Reordered
  <2>. QED  BY <2>2, <2>4, <2>5, <2>6, Zenon DEF MovesOn, y
<1>. QED  BY <1>6, <1>7, Zenon

ListSet == [ApplicationId : App, Requests : 0 .. MaxMarks]

Longer(list, r, x) ==
  /\ Len(list) \in Nat /\ r \in Seq(ListSet)
  /\ Len(r) = Len(list) + 1 /\ r[Len(list) + 1] = x
  /\ Len(list) + 1 \in 1 .. Len(r)
  /\ \A k \in 1 .. Len(list) : r[k] = list[k] /\ k \in 1 .. Len(r)
  /\ \A k \in 1 .. Len(r) : k = Len(list) + 1 \/ k \in 1 .. Len(list)

LEMMA LongerIs ==
  ASSUME NEW list \in Seq(ListSet), NEW x \in ListSet
  PROVE  Longer(list, Append(list, x), x)
<1> DEFINE r == Append(list, x)
           l == Len(list)
<1>1. l \in Nat /\ r \in Seq(ListSet) /\ Len(r) = l + 1 /\ r[l + 1] = x
      /\ \A k \in 1 .. l : r[k] = list[k]
  OBVIOUS
<1> HIDE DEF r, l
<1>2. l + 1 \in 1 .. Len(r) /\ (\A k \in 1 .. l : k \in 1 .. Len(r))
      /\ \A k \in 1 .. Len(r) : k = l + 1 \/ k \in 1 .. l
  BY <1>1
<1>. QED  BY <1>1, <1>2, Zenon DEF Longer, r, l

LEMMA LongerOnce ==
  ASSUME NEW h \in Seq(Entry), NEW N \in Nat \ {0}, N = Len(h), NEW g, g = SubSeq(h, 1, N - 1),
         NEW list \in Seq(ListSet), NEW r, NEW x, Longer(list, r, x), x.ApplicationId = h[N].ApplicationId,
         AppsOnce(h, Names(list))
  PROVE  AppsOnce(g, Names(r))
<1> DEFINE L == Len(list)
<1>1. /\ g \in Seq(Entry) /\ Len(g) = N - 1
      /\ \A k \in 1 .. (N - 1) : g[k] = h[k] /\ k \in 1 .. N /\ k # N
  BY CutLast, Zenon
<1>2. /\ L \in Nat /\ Len(r) = L + 1 /\ r[L + 1] = x /\ r \in Seq(ListSet)
      /\ \A k \in 1 .. L : r[k] = list[k] /\ k \in 1 .. Len(r)
      /\ \A k \in 1 .. Len(r) : k = L + 1 \/ k \in 1 .. L
  BY Zenon DEF Longer
<1>3. \A p \in Seq(ListSet) : Len(Names(p)) = Len(p) /\ \A k \in 1 .. Len(p) : Names(p)[k] = p[k].ApplicationId
  <2> SUFFICES ASSUME NEW p \in Seq(ListSet)
               PROVE  Len(Names(p)) = Len(p) /\ \A k \in 1 .. Len(p) : Names(p)[k] = p[k].ApplicationId
    BY Zenon
  <2>1. Len(p) \in Nat
    OBVIOUS
  <2>2. Len(Names(p)) = Len(p)
    BY <2>1 DEF Names
  <2>. QED  BY <2>2, Zenon DEF Names
<1>4. /\ Len(Names(list)) = L /\ (\A k \in 1 .. L : Names(list)[k] = list[k].ApplicationId)
      /\ Len(Names(r)) = Len(r) /\ (\A k \in 1 .. Len(r) : Names(r)[k] = r[k].ApplicationId)
  BY <1>2, <1>3, Zenon
<1>5. N \in 1 .. N
  OBVIOUS
<1>6. /\ \A k, l \in 1 .. N : h[k].ApplicationId = h[l].ApplicationId => k = l
      /\ \A k, l \in 1 .. L : list[k].ApplicationId = list[l].ApplicationId => k = l
      /\ \A k \in 1 .. L, l \in 1 .. N : list[k].ApplicationId # h[l].ApplicationId
  <2>1. /\ \A k, l \in 1 .. N : h[k].ApplicationId = h[l].ApplicationId => k = l
        /\ \A k, l \in 1 .. L : Names(list)[k] = Names(list)[l] => k = l
        /\ \A k \in 1 .. L, l \in 1 .. N : Names(list)[k] # h[l].ApplicationId
    <3>1. Len(Names(list)) = L
      BY <1>4, Zenon
    <3>. QED  BY <3>1, Zenon DEF AppsOnce
  <2>2. \A k \in 1 .. L : Names(list)[k] = list[k].ApplicationId
    BY <1>4, Zenon
  <2>3. ASSUME NEW k \in 1 .. L, NEW l \in 1 .. L, list[k].ApplicationId = list[l].ApplicationId
        PROVE  k = l
    <3>1. Names(list)[k] = Names(list)[l]
      BY <2>2, <2>3, Zenon
    <3>. QED  BY <2>1, <3>1, Zenon
  <2>4. ASSUME NEW k \in 1 .. L, NEW l \in 1 .. N PROVE list[k].ApplicationId # h[l].ApplicationId
    <3>1. Names(list)[k] # h[l].ApplicationId /\ Names(list)[k] = list[k].ApplicationId
      BY <2>1, <2>2, Zenon
    <3>. QED  BY <3>1, Zenon
  <2>. QED  BY <2>1, <2>3, <2>4, Zenon
<1> HIDE DEF L
<1>7. ASSUME NEW k \in 1 .. Len(g), NEW l \in 1 .. Len(g), g[k].ApplicationId = g[l].ApplicationId
      PROVE  k = l
  <2>1. g[k] = h[k] /\ g[l] = h[l] /\ k \in 1 .. N /\ l \in 1 .. N
    BY <1>1, Zenon
  <2>2. h[k].ApplicationId = h[l].ApplicationId
    BY <1>7, <2>1, Zenon
  <2>. QED  BY <1>6, <2>1, <2>2, Zenon
<1>8. ASSUME NEW k \in 1 .. Len(r), NEW l \in 1 .. Len(r), r[k].ApplicationId = r[l].ApplicationId
      PROVE  k = l
  <2>1. CASE k \in 1 .. L /\ l \in 1 .. L
    BY <1>2, <1>6, <1>8, <2>1, Zenon
  <2>2. CASE k \in 1 .. L /\ l = L + 1
    <3>1. list[k].ApplicationId = h[N].ApplicationId
      BY <1>2, <1>8, <2>2, Zenon
    <3>. QED  BY <1>5, <1>6, <2>2, <3>1, Zenon
  <2>3. CASE k = L + 1 /\ l \in 1 .. L
    <3>1. list[l].ApplicationId = h[N].ApplicationId
      BY <1>2, <1>8, <2>3, Zenon
    <3>. QED  BY <1>5, <1>6, <2>3, <3>1, Zenon
  <2>. QED  BY <1>2, <2>1, <2>2, <2>3, Zenon
<1>9. ASSUME NEW k \in 1 .. Len(r), NEW l \in 1 .. Len(g) PROVE r[k].ApplicationId # g[l].ApplicationId
  <2>1. g[l] = h[l] /\ l \in 1 .. N /\ l # N
    BY <1>1, Zenon
  <2>2. CASE k \in 1 .. L
    <3>1. r[k] = list[k]
      BY <1>2, <2>2, Zenon
    <3>2. list[k].ApplicationId # h[l].ApplicationId
      BY <1>6, <2>1, <2>2, Zenon
    <3>. QED  BY <2>1, <3>1, <3>2, Zenon
  <2>3. CASE k = L + 1
    <3>1. r[k].ApplicationId = h[N].ApplicationId
      BY <1>2, <2>3, Zenon
    <3>2. h[l].ApplicationId # h[N].ApplicationId
      BY <1>5, <1>6, <2>1, Zenon
    <3>. QED  BY <2>1, <3>1, <3>2, Zenon
  <2>. QED  BY <1>2, <2>2, <2>3, Zenon
<1>10. ASSUME NEW k \in 1 .. Len(Names(r)), NEW l \in 1 .. Len(Names(r)), Names(r)[k] = Names(r)[l]
       PROVE  k = l
  <2>1. k \in 1 .. Len(r) /\ l \in 1 .. Len(r)
    BY <1>4, Zenon
  <2>2. r[k].ApplicationId = r[l].ApplicationId
    BY <1>4, <1>10, <2>1, Zenon
  <2>. QED  BY <1>8, <2>1, <2>2, Zenon
<1>11. ASSUME NEW k \in 1 .. Len(Names(r)), NEW l \in 1 .. Len(g)
       PROVE  Names(r)[k] # g[l].ApplicationId
  <2>1. k \in 1 .. Len(r) /\ Names(r)[k] = r[k].ApplicationId
    BY <1>4, Zenon
  <2>2. r[k].ApplicationId # g[l].ApplicationId
    BY <1>9, <2>1, Zenon
  <2>. QED  BY <2>1, <2>2, Zenon
<1>. QED  BY <1>7, <1>10, <1>11, Zenon DEF AppsOnce

-----------------------------------------------------------------------------
(* Sums. *)

(* f[k] is the sum of the first k values of g. *)
Sums(f, g, n) == f = [k \in 0 .. n |-> IF k = 0 THEN 0 ELSE f[k - 1] + g[k]]

(* Sum adds up. *)
IsSum(g, N) ==
  /\ Sum(g, 0) = 0
  /\ \A k \in 1 .. N : Sum(g, k) = Sum(g, k - 1) + g[k]
  /\ \A k \in 0 .. N : Sum(g, k) \in Nat

LEMMA SumIs ==
  ASSUME NEW N \in Nat, NEW g \in [1 .. N -> Nat]
  PROVE  IsSum(g, N)
(* There is such a function. *)
(* Two of them agree, as far as the shorter goes. *)
<1>SumsAgree.
  ASSUME NEW n \in Nat, NEW m \in 0 .. n, NEW f, NEW d, Sums(f, g, n), Sums(d, g, m)
  PROVE  d[m] = f[m]
  <2> USE <1>SumsAgree
  <2> DEFINE J == {<<k, f[k]>> : k \in 0 .. n}
  <2>1. \A k \in 0 .. m : k \in 0 .. n
    OBVIOUS
  <2>2. \A k \in 0 .. n : f[k] = IF k = 0 THEN 0 ELSE f[k - 1] + g[k]
    BY Zenon DEF Sums
  <2>3. \A k \in 0 .. m : d[k] = IF k = 0 THEN 0 ELSE d[k - 1] + g[k]
    BY Zenon DEF Sums
  <2>4. \A k, y : <<k, y>> \in J => k \in 0 .. n /\ y = f[k]
    OBVIOUS
  <2>5. \A k \in 0 .. n : <<k, f[k]>> \in J
    BY Zenon
  <2> HIDE DEF J
  <2>6. <<0, d[0]>> \in J
    <3>1. 0 \in 0 .. m /\ 0 \in 0 .. n
      OBVIOUS
    <3>. QED  BY <2>2, <2>3, <2>5, <3>1, Zenon
  <2>7. ASSUME NEW k \in 1 .. m, <<k - 1, d[k - 1]>> \in J PROVE <<k, d[k]>> \in J
    <3>1. k \in 0 .. m /\ k \in 0 .. n /\ k # 0
      OBVIOUS
    <3>. QED  BY <2>2, <2>3, <2>4, <2>5, <2>7, <3>1, Zenon
  <2>8. m \in Nat /\ m \in 0 .. m
    OBVIOUS
  <2>9. <<m, d[m]>> \in J
    BY <2>6, <2>7, <2>8, Kept, Zenon
  <2>. QED  BY <2>4, <2>9, Zenon
<1>SumsExist.
  ASSUME NEW n \in Nat
  PROVE  \E f : Sums(f, g, n)
  <2> DEFINE T == {m \in Nat : ~ \E f : Sums(f, g, m)}
  <2>1. SUFFICES ASSUME T # {} PROVE FALSE
    BY Zenon
  <2>2. PICK m \in T : \A k \in T : m <= k
    <3>1. T \in SUBSET Nat
      BY Zenon
    <3> HIDE DEF T
    <3>. QED  BY <2>1, <3>1, LeastNumber, Zenon
  <2>3. m # 0
    <3>1. Sums([k \in 0 .. 0 |-> 0], g, 0)
      BY DEF Sums
    <3>. QED  BY <2>2, <3>1, Zenon
  <2>4. m \in Nat \ {0} /\ m - 1 \in Nat /\ m - 1 \in 0 .. (m - 1)
    BY <2>2, <2>3
  <2>5. m - 1 \notin T
    <3> HIDE DEF T
    <3>. QED  BY <2>2, <2>4
  <2>6. PICK f : Sums(f, g, m - 1)
    BY <2>4, <2>5, Zenon
  <2> DEFINE d == [k \in 0 .. m |-> IF k = m THEN f[m - 1] + g[m] ELSE f[k]]
  <2>7. ASSUME NEW k \in 0 .. m
        PROVE  d[k] = IF k = 0 THEN 0 ELSE d[k - 1] + g[k]
    <3>1. CASE k = 0
      <4>1. k # m /\ k \in 0 .. (m - 1)
        BY <2>4, <3>1
      <4>. QED  BY <2>6, <3>1, <4>1, Zenon DEF Sums
    <3>2. CASE k = m
      <4>1. m - 1 # m /\ m - 1 \in 0 .. m /\ k # 0
        BY <2>4, <3>2
      <4>. QED  BY <3>2, <4>1, Zenon
    <3>3. CASE k # 0 /\ k # m
      <4>1. k - 1 # m /\ k - 1 \in 0 .. m /\ k \in 0 .. (m - 1)
        BY <2>4, <3>3
      <4>. QED  BY <2>6, <3>3, <4>1, Zenon DEF Sums
    <3>. QED  BY <3>1, <3>2, <3>3, Zenon
  <2>8. Sums(d, g, m)
    <3>1. d = [k \in 0 .. m |-> d[k]]
      BY Zenon
    <3> HIDE DEF d
    <3>. QED  BY <2>7, <3>1, Zenon DEF Sums
  <2> HIDE DEF d
  <2>. QED  BY <2>2, <2>8, Zenon
<1>1. PICK f : Sums(f, g, N)
  BY <1>SumsExist, Zenon
<1>2. ASSUME NEW m \in 0 .. N PROVE Sum(g, m) = f[m]
  <2> DEFINE Eq(d) == d = [k \in 0 .. m |-> IF k = 0 THEN 0 ELSE d[k - 1] + g[k]]
             s == CHOOSE d : Eq(d)
  <2>1. m \in Nat
    OBVIOUS
  <2>2. \E d : Eq(d)
    BY <2>1, <1>SumsExist, Zenon DEF Sums
  <2>3. Eq(s)
    <3> HIDE DEF Eq
    <3>. QED  BY <2>2, Zenon
  <2>4. Sum(g, m) = s[m]
    BY Zenon DEF Sum
  <2> HIDE DEF s
  <2>5. Sums(s, g, m)
    BY <2>3, Zenon DEF Sums
  <2>6. s[m] = f[m]
    <3> HIDE DEF Eq
    <3>. QED  BY <1>1, <2>5, <1>SumsAgree
  <2>. QED  BY <2>4, <2>6, Zenon
<1>3. \A k \in 0 .. N : f[k] = IF k = 0 THEN 0 ELSE f[k - 1] + g[k]
  BY <1>1, Zenon DEF Sums
<1>4. 0 \in 0 .. N /\ \A k \in 1 .. N : k \in 0 .. N /\ k - 1 \in 0 .. N /\ k # 0
  OBVIOUS
<1>5. Sum(g, 0) = 0 /\ \A k \in 1 .. N : Sum(g, k) = Sum(g, k - 1) + g[k]
  BY <1>2, <1>3, <1>4, Zenon
<1>6. \A k \in 0 .. N : <<k, f[k]>> \in Nat \X Nat
  <2>1. <<0, f[0]>> \in Nat \X Nat
    BY <1>3, <1>4
  <2>2. ASSUME NEW k \in 1 .. N, <<k - 1, f[k - 1]>> \in Nat \X Nat PROVE <<k, f[k]>> \in Nat \X Nat
    <3>1. f[k - 1] \in Nat /\ g[k] \in Nat /\ k \in Nat
      BY <2>2
    <3>2. f[k] = f[k - 1] + g[k]
      BY <1>3, <1>4, Zenon
    <3>3. f[k] \in Nat
      BY <3>1, <3>2
    <3>. QED  BY <3>1, <3>3, Zenon
  <2>. QED  BY <2>1, <2>2, Kept, Zenon
<1>7. \A k \in 0 .. N : f[k] \in Nat
  BY <1>6, Zenon
<1>. QED  BY <1>2, <1>5, <1>7, Zenon DEF IsSum

LEMMA SumGrows ==
  ASSUME NEW N \in Nat, NEW g \in [1 .. N -> Nat], NEW k \in 0 .. N, NEW l \in k .. N
  PROVE  Sum(g, k) <= Sum(g, l)
<1>0. IsSum(g, N)
  BY SumIs, Zenon
<1> DEFINE T == {j \in k .. N : ~(Sum(g, k) <= Sum(g, j))}
<1>1. SUFFICES ASSUME T # {} PROVE FALSE
  BY Zenon
<1>2. PICK m \in T : \A j \in T : m <= j
  <2>1. T \in SUBSET Nat
    OBVIOUS
  <2> HIDE DEF T
  <2>. QED  BY <1>1, <2>1, LeastNumber, Zenon
<1>3. m \in k .. N /\ ~(Sum(g, k) <= Sum(g, m))
  BY <1>2, Zenon
<1>4. Sum(g, k) \in Nat
  BY <1>0, Zenon DEF IsSum
<1>5. m # k
  <2>1. Sum(g, k) <= Sum(g, k)
    BY <1>4
  <2>. QED  BY <1>3, <2>1, Zenon
<1>6. m \in 1 .. N /\ m - 1 \in k .. N /\ m - 1 \in 0 .. N /\ ~(m <= m - 1)
  BY <1>3, <1>5
<1>7. Sum(g, k) <= Sum(g, m - 1)
  BY <1>2, <1>6, Zenon
<1>8. Sum(g, m) = Sum(g, m - 1) + g[m] /\ Sum(g, m - 1) \in Nat /\ g[m] \in Nat
  BY <1>0, <1>6, Zenon DEF IsSum
<1> HIDE DEF T
<1>. QED  BY <1>3, <1>4, <1>7, <1>8

(* The sum of a part. *)
IsPart(g, d, i, M) == \A k \in 0 .. M : Sum(g, i + k) = Sum(g, i) + Sum(d, k)

LEMMA SumShift ==
  ASSUME NEW N \in Nat, NEW g \in [1 .. N -> Nat], NEW M \in Nat, NEW d \in [1 .. M -> Nat],
         NEW i \in Nat, i + M <= N, \A k \in 1 .. M : d[k] = g[i + k]
  PROVE  IsPart(g, d, i, M)
<1>0. IsSum(g, N) /\ IsSum(d, M)
  BY SumIs, Zenon
<1> DEFINE T == {j \in 0 .. M : ~(Sum(g, i + j) = Sum(g, i) + Sum(d, j))}
<1>1. SUFFICES ASSUME T # {} PROVE FALSE
  BY Zenon DEF IsPart
<1>2. PICK m \in T : \A j \in T : m <= j
  <2>1. T \in SUBSET Nat
    OBVIOUS
  <2> HIDE DEF T
  <2>. QED  BY <1>1, <2>1, LeastNumber, Zenon
<1>3. m \in 0 .. M /\ ~(Sum(g, i + m) = Sum(g, i) + Sum(d, m))
  BY <1>2, Zenon
<1>4. Sum(g, i) \in Nat /\ Sum(d, 0) = 0
  <2>1. i \in 0 .. N
    OBVIOUS
  <2>. QED  BY <1>0, <2>1, Zenon DEF IsSum
<1>5. m # 0
  <2>1. i + 0 = i /\ Sum(g, i) = Sum(g, i) + Sum(d, 0)
    BY <1>4
  <2>. QED  BY <1>3, <2>1, Zenon
<1>6. /\ m \in 1 .. M /\ m - 1 \in 0 .. M /\ ~(m <= m - 1)
      /\ i + m \in 1 .. N /\ (i + m) - 1 = i + (m - 1)
  BY <1>3, <1>5
<1>7. Sum(g, i + (m - 1)) = Sum(g, i) + Sum(d, m - 1)
  BY <1>2, <1>6, Zenon
<1>8. /\ Sum(g, i + m) = Sum(g, i + (m - 1)) + g[i + m]
      /\ Sum(d, m) = Sum(d, m - 1) + d[m] /\ d[m] = g[i + m]
      /\ Sum(d, m - 1) \in Nat /\ g[i + m] \in Nat
  BY <1>0, <1>6, Zenon DEF IsSum
<1> HIDE DEF T
<1>. QED  BY <1>3, <1>4, <1>7, <1>8

(* The sum depends on what is added only. *)
SameSum(g, d, M) == Sum(g, M) = Sum(d, M)

-----------------------------------------------------------------------------
(* What TopApps keeps about its entries. *)

SlotSet == [t : Time, n : Nat \ {0}]

TopState ==
  [m : [App -> Entry \cup {none}], t : HeapSet, n : HeapSet,
   slots : [Entry -> Seq(SlotSet)], total : [Entry -> Nat], ok : BOOLEAN]

KnownIn(m) == {m[a] : a \in App} \ {none}

(* Slots in order of time. *)
InTime(s) == \A k \in 2 .. Len(s) : s[k - 1].t < s[k].t

(* Both heaps hold the entries of E. *)
HeapsHold(x, E) == InHeap(x.t, FirstSlot(x.slots), E) /\ InHeap(x.n, More(x.total), E)

SlotsRight(x, e) ==
  /\ InTime(x.slots[e])
  /\ x.total[e] = RequestsIn(x.slots[e], Len(x.slots[e]))

(* The map refers to each application's object or to none. *)
MapRight(m) ==
  /\ m \in [App -> Entry \cup {none}]
  /\ \A a \in App : m[a] \in {none, ObjectOf(a)}

(* The map and the entries are in step, and the heaps hold the entries of E. *)
TopHolds(x, E) ==
  /\ x \in TopState
  /\ x.ok
  /\ MapRight(x.m)
  /\ \A e \in Entry : SlotsRight(x, e) /\ (e \in KnownIn(x.m) <=> x.slots[e] # <<>>)
  /\ HeapsHold(x, E)

TopRight(x) == TopHolds(x, KnownIn(x.m))

HasSlot(s, z, n) == \E k \in 1 .. Len(s) : s[k].t = z /\ s[k].n = n

(* A slot counts only requests that went to it, and all of them if it is
   after c. *)
CountedIn(s, f, c) ==
  /\ \A k \in 1 .. Len(s) : s[k].n <= f[s[k].t]
  /\ \A z \in Time : z > c /\ f[z] > 0 => HasSlot(s, z, f[z])

-----------------------------------------------------------------------------
(* The slots of one entry. *)

LEMMA SlotFacts ==
  ASSUME NEW s \in Seq(SlotSet)
  PROVE  /\ Len(s) \in Nat
         /\ \A k \in 1 .. Len(s) : /\ s[k] \in SlotSet /\ s[k].t \in Time /\ s[k].t \in Nat
                                   /\ s[k].n \in Nat \ {0} /\ s[k].n \in Nat
<1>1. Len(s) \in Nat /\ \A k \in 1 .. Len(s) : s[k] \in SlotSet
  OBVIOUS
<1>2. \A x \in SlotSet : x.t \in Time /\ x.t \in Nat /\ x.n \in Nat \ {0} /\ x.n \in Nat
  BY BoundAssumption DEF SlotSet, Time
<1>. QED  BY <1>1, <1>2, Zenon

AddsUp(s) ==
  /\ RequestsIn(s, 0) = 0
  /\ \A k \in 1 .. Len(s) : RequestsIn(s, k) = RequestsIn(s, k - 1) + s[k].n
  /\ \A k \in 0 .. Len(s) : RequestsIn(s, k) \in Nat

Counts(s) == [k \in 1 .. Len(s) |-> s[k].n]

LEMMA CountsAre ==
  ASSUME NEW s \in Seq(SlotSet)
  PROVE  Len(s) \in Nat /\ Counts(s) \in [1 .. Len(s) -> Nat]
BY SlotFacts, Zenon DEF Counts

LEMMA SlotsAddUp ==
  ASSUME NEW s \in Seq(SlotSet)
  PROVE  AddsUp(s)
<1>1. IsSum(Counts(s), Len(s))
  BY CountsAre, SumIs, Zenon
<1>2. \A k : RequestsIn(s, k) = Sum(Counts(s), k)
  BY Zenon DEF RequestsIn, Counts
<1>3. \A k \in 1 .. Len(s) : Counts(s)[k] = s[k].n
  BY Zenon DEF Counts
<1>. QED  BY <1>1, <1>2, <1>3, Zenon DEF IsSum, AddsUp

(* The first n slots count alike. *)
LEMMA RequestsSame ==
  ASSUME NEW s \in Seq(SlotSet), NEW r \in Seq(SlotSet), NEW n \in Nat, n <= Len(s), n <= Len(r),
         \A k \in 1 .. n : r[k].n = s[k].n
  PROVE  RequestsIn(s, n) = RequestsIn(r, n)
<1>SumSame.
  ASSUME NEW N \in Nat, NEW g \in [1 .. N -> Nat], NEW M \in Nat, NEW d \in [1 .. M -> Nat],
         M <= N, \A k \in 1 .. M : d[k] = g[k]
  PROVE  SameSum(g, d, M)
  <2> USE <1>SumSame
  <2>1. 0 \in Nat /\ 0 + M <= N /\ (\A j \in 1 .. M : 0 + j = j) /\ 0 + M = M /\ M \in 0 .. M
    OBVIOUS
  <2>2. IsPart(g, d, 0, M)
    <3>1. \A j \in 1 .. M : d[j] = g[0 + j]
      BY <2>1, Zenon
    <3>. QED  BY <2>1, <3>1, SumShift, Zenon
  <2>3. Sum(g, M) = Sum(g, 0) + Sum(d, M)
    BY <2>1, <2>2, Zenon DEF IsPart
  <2>4. Sum(g, 0) = 0 /\ Sum(d, M) \in Nat
    BY <2>1, SumIs, Zenon DEF IsSum
  <2>5. Sum(g, M) = Sum(d, M)
    BY <2>3, <2>4
  <2>. QED  BY <2>5, Zenon DEF SameSum
<1> DEFINE d == [k \in 1 .. n |-> s[k].n]
<1>1. n \in 0 .. n /\ Len(s) \in Nat /\ Len(r) \in Nat
      /\ \A k \in 1 .. n : k \in 1 .. Len(s) /\ k \in 1 .. Len(r)
  OBVIOUS
<1>2. d \in [1 .. n -> Nat]
  BY <1>1, SlotFacts, Zenon
<1>3. \A k \in 1 .. n : d[k] = Counts(s)[k] /\ d[k] = Counts(r)[k]
  BY <1>1, Zenon DEF Counts
<1> HIDE DEF d
<1>4. Counts(s) \in [1 .. Len(s) -> Nat] /\ Counts(r) \in [1 .. Len(r) -> Nat]
  BY CountsAre, Zenon
<1>5. SameSum(Counts(s), d, n)
  BY <1>1, <1>2, <1>3, <1>4, <1>SumSame, Zenon
<1>6. SameSum(Counts(r), d, n)
  BY <1>1, <1>2, <1>3, <1>4, <1>SumSame, Zenon
<1>. QED  BY <1>5, <1>6, Zenon DEF RequestsIn, Counts, SameSum

(* Every slot is before all later ones. *)
Ascends(s) == \A l \in 1 .. Len(s) : \A k \in 1 .. (l - 1) : s[k].t < s[l].t

LEMMA InTimeAscends ==
  ASSUME NEW s \in Seq(SlotSet), InTime(s)
  PROVE  Ascends(s)
<1>0. Len(s) \in Nat /\ \A k \in 1 .. Len(s) : s[k].t \in Nat
  BY SlotFacts, Zenon
<1> SUFFICES ASSUME NEW k \in 1 .. Len(s),
                    NEW l \in {j \in (k + 1) .. Len(s) : ~(s[k].t < s[j].t)} PROVE FALSE
  <2>1. \A l \in 1 .. Len(s) : \A k \in 1 .. (l - 1) : k \in 1 .. Len(s) /\ l \in (k + 1) .. Len(s)
    BY <1>0
  <2>. QED  BY <2>1, Zenon DEF Ascends
<1> DEFINE T == {j \in (k + 1) .. Len(s) : ~(s[k].t < s[j].t)}
<1>1. T \in SUBSET Nat /\ T # {}
  BY <1>0
<1>2. PICK m \in T : \A j \in T : m <= j
  <2> HIDE DEF T
  <2>. QED  BY <1>1, LeastNumber, Zenon
<1>3. m \in (k + 1) .. Len(s) /\ ~(s[k].t < s[m].t)
  BY <1>2, Zenon
<1>4. /\ m \in 2 .. Len(s) /\ m \in 1 .. Len(s) /\ m - 1 \in 1 .. Len(s) /\ ~(m <= m - 1)
      /\ m - 1 = k \/ m - 1 \in (k + 1) .. Len(s)
  BY <1>0, <1>3
<1>5. s[m - 1].t < s[m].t
  BY <1>4, Zenon DEF InTime
<1>6. m - 1 \notin T
  BY <1>2, <1>4, Zenon
<1>7. m - 1 = k \/ s[k].t < s[m - 1].t
  BY <1>4, <1>6, Zenon
<1>8. s[m].t \in Nat /\ s[m - 1].t \in Nat /\ s[k].t \in Nat
  BY <1>0, <1>4, Zenon
<1>9. CASE m - 1 = k
  BY <1>3, <1>5, <1>9, Zenon
<1>10. CASE s[k].t < s[m - 1].t
  <2>1. \A x, y, z \in Nat : x < y /\ y < z => x < z
    OBVIOUS
  <2>. QED  BY <1>3, <1>5, <1>8, <1>10, <2>1, Zenon
<1>. QED  BY <1>7, <1>9, <1>10, Zenon

(* r is s with one more request, in the slot for the time w. *)
OneMore(s, r, w) ==
  /\ r \in Seq(SlotSet) /\ r # <<>> /\ InTime(r) /\ w \in Time
  /\ RequestsIn(r, Len(r)) = RequestsIn(s, Len(s)) + 1
  /\ \E n \in Nat :
       /\ n = 0 \/ HasSlot(s, w, n)
       /\ \A k \in 1 .. Len(s) : s[k].t = w => s[k].n = n
       /\ HasSlot(r, w, n + 1)
       /\ \A k \in 1 .. Len(r) : HasSlot(s, r[k].t, r[k].n) \/ (r[k].t = w /\ r[k].n = n + 1)
  /\ \A k \in 1 .. Len(s) : s[k].t # w => HasSlot(r, s[k].t, s[k].n)

(* The slot that a request goes to. *)
GoesTo(s, z) == IF GoesToLast(s, z) THEN s[Len(s)].t ELSE z

LEMMA MarkedIs ==
  ASSUME NEW s \in Seq(SlotSet), InTime(s), NEW z \in Time
  PROVE  OneMore(s, Marked(s, z), GoesTo(s, z))
<1> DEFINE r == Marked(s, z)
           w == GoesTo(s, z)
           l == Len(s)
<1>1. l \in Nat /\ \A k \in 1 .. l : /\ s[k] \in SlotSet /\ s[k].t \in Time /\ s[k].t \in Nat
                                     /\ s[k].n \in Nat \ {0} /\ s[k].n \in Nat
  BY SlotFacts, Zenon
<1>2. AddsUp(s) /\ Ascends(s)
  BY SlotsAddUp, InTimeAscends, Zenon
<1>3. CASE GoesToLast(s, z)
  <2>1. s # <<>> /\ r = [s EXCEPT ![l].n = @ + 1] /\ w = s[l].t
    BY <1>3, Zenon DEF GoesToLast, Marked, GoesTo
  <2>2. l \in 1 .. l /\ l - 1 \in Nat /\ l - 1 <= l /\ l \in Nat
        /\ \A k \in 1 .. l : k = l \/ (k \in 1 .. (l - 1) /\ k # l)
    BY <1>1, <2>1
  <2> DEFINE n == s[l].n
  <2>3. n \in Nat /\ n + 1 \in Nat \ {0} /\ w \in Time
    BY <1>1, <2>1, <2>2
  <2>4. /\ r \in Seq(SlotSet) /\ Len(r) = l
        /\ r[l].t = w /\ r[l].n = n + 1
        /\ \A k \in 1 .. l : k # l => r[k] = s[k]
    <3> DEFINE x == [s[l] EXCEPT !.n = n + 1]
    <3>1. x \in SlotSet /\ x.t = w /\ x.n = n + 1
      <4>1. s[l] \in SlotSet
        BY <1>1, <2>2, Zenon
      <4> HIDE DEF n
      <4>. QED  BY <2>1, <2>3, <4>1, Zenon DEF SlotSet
    <3>2. r = [s EXCEPT ![l] = x]
      BY <2>1, Zenon
    <3> HIDE DEF x, r, n
    <3>3. s \in [1 .. l -> SlotSet]
      OBVIOUS
    <3>4. /\ r \in [1 .. l -> SlotSet] /\ r[l] = x
          /\ \A k \in 1 .. l : k # l => r[k] = s[k]
      BY <2>2, <3>1, <3>2, <3>3, Zenon
    <3>5. r \in Seq(SlotSet) /\ Len(r) = l
      <4> HIDE DEF l
      <4>. QED  BY <2>2, <3>4
    <3>. QED  BY <3>1, <3>4, <3>5, Zenon
  <2> HIDE DEF r, n
  <2>5. r # <<>>
    BY <2>2, <2>4
  <2>6. InTime(r)
    <3> SUFFICES ASSUME NEW k \in 2 .. l PROVE r[k - 1].t < r[k].t
      BY <2>4, Zenon DEF InTime
    <3>1. k \in 1 .. l /\ k - 1 \in 1 .. l /\ k - 1 # l
      BY <2>2
    <3>2. r[k].t = s[k].t /\ r[k - 1].t = s[k - 1].t
      BY <2>1, <2>4, <3>1, Zenon
    <3>. QED  BY <3>2, Zenon DEF InTime
  <2>7. RequestsIn(r, Len(r)) = RequestsIn(s, l) + 1
    <3>1. AddsUp(r)
      BY <2>4, SlotsAddUp, Zenon
    <3>2. RequestsIn(r, l) = RequestsIn(r, l - 1) + (n + 1)
      BY <2>2, <2>4, <3>1, Zenon DEF AddsUp
    <3>3. RequestsIn(s, l) = RequestsIn(s, l - 1) + n
      BY <1>2, <2>2, Zenon DEF AddsUp, n
    <3>4. \A k \in 1 .. (l - 1) : k \in 1 .. l /\ k # l
      BY <2>2
    <3>5. \A k \in 1 .. (l - 1) : r[k].n = s[k].n
      BY <2>4, <3>4, Zenon
    <3>6. RequestsIn(s, l - 1) = RequestsIn(r, l - 1)
      <4>1. l - 1 <= Len(s) /\ l - 1 <= Len(r)
        BY <2>2, <2>4, Zenon
      <4>. QED  BY <2>2, <2>4, <3>5, <4>1, RequestsSame, Zenon
    <3>7. RequestsIn(s, l - 1) \in Nat
      <4>1. l - 1 \in 0 .. l
        BY <2>2
      <4>. QED  BY <1>2, <4>1, Zenon DEF AddsUp
    <3>. QED  BY <2>3, <2>4, <3>2, <3>3, <3>6, <3>7
  <2>8. \A k \in 1 .. l : s[k].t = w => k = l
    <3> SUFFICES ASSUME NEW k \in 1 .. (l - 1), s[k].t = s[l].t PROVE FALSE
      BY <2>1, <2>2, Zenon
    <3>1. s[k].t < s[l].t
      BY <1>2, <2>2, Zenon DEF Ascends
    <3>2. s[l].t \in Nat
      BY <1>1, <2>2, Zenon
    <3>. QED  BY <3>1, <3>2
  <2>9. HasSlot(s, w, n)
    BY <2>1, <2>2, Zenon DEF HasSlot, n
  <2>10. HasSlot(r, w, n + 1)
    BY <2>2, <2>4, Zenon DEF HasSlot
  <2>11. \A k \in 1 .. Len(r) : HasSlot(s, r[k].t, r[k].n) \/ (r[k].t = w /\ r[k].n = n + 1)
    BY <2>4, Zenon DEF HasSlot
  <2>12. \A k \in 1 .. Len(s) : s[k].t # w => HasSlot(r, s[k].t, s[k].n)
    BY <2>1, <2>4, Zenon DEF HasSlot
  <2>13. \A k \in 1 .. Len(s) : s[k].t = w => s[k].n = n
    BY <2>8, Zenon DEF n
  <2>. QED  BY <2>3, <2>4, <2>5, <2>6, <2>7, <2>9, <2>10, <2>11, <2>12, <2>13, Zenon DEF OneMore, r
<1>4. CASE ~GoesToLast(s, z)
  <2> DEFINE x == [t |-> z, n |-> 1]
  <2>1. r = Append(s, x) /\ w = z /\ (s = <<>> \/ ~(s[l].t >= z))
    BY <1>4, Zenon DEF GoesToLast, Marked, GoesTo
  <2>2. x \in SlotSet /\ x.t = z /\ x.n = 1 /\ z \in Nat
    BY BoundAssumption DEF SlotSet, Time
  <2> HIDE DEF x
  <2>3. /\ r \in Seq(SlotSet) /\ Len(r) = l + 1 /\ r[l + 1] = x /\ r # <<>>
        /\ \A k \in 1 .. l : r[k] = s[k]
    BY <2>1, <2>2
  <2> HIDE DEF r
  <2>4. /\ l + 1 \in 1 .. (l + 1) /\ (\A k \in 1 .. l : k \in 1 .. (l + 1))
        /\ \A k \in 1 .. (l + 1) : k \in 1 .. l \/ k = l + 1
    BY <1>1
  <2>5. ASSUME NEW k \in 1 .. l PROVE s[k].t < z
    <3>1. l \in 1 .. l /\ s # <<>> /\ (k = l \/ k \in 1 .. (l - 1))
      BY <1>1
    <3>2. s[l].t \in Nat /\ s[k].t \in Nat /\ ~(s[l].t >= z)
      BY <1>1, <2>1, <3>1, Zenon
    <3>3. k = l \/ s[k].t < s[l].t
      BY <1>2, <3>1, Zenon DEF Ascends
    <3>4. CASE k = l
      BY <2>2, <3>2, <3>4
    <3>5. CASE s[k].t < s[l].t
      BY <2>2, <3>2, <3>5
    <3>. QED  BY <3>3, <3>4, <3>5, Zenon
  <2>6. InTime(r)
    <3> SUFFICES ASSUME NEW k \in 2 .. (l + 1) PROVE r[k - 1].t < r[k].t
      BY <2>3, Zenon DEF InTime
    <3>1. k - 1 \in 1 .. l /\ (k = l + 1 \/ (k \in 1 .. l /\ k \in 2 .. l))
      BY <1>1
    <3>2. CASE k = l + 1
      BY <2>2, <2>3, <2>5, <3>1, <3>2, Zenon
    <3>3. CASE k \in 1 .. l /\ k \in 2 .. l
      BY <2>3, <3>1, <3>3, Zenon DEF InTime
    <3>. QED  BY <3>1, <3>2, <3>3, Zenon
  <2>7. RequestsIn(r, Len(r)) = RequestsIn(s, l) + 1
    <3>1. AddsUp(r)
      BY <2>3, SlotsAddUp, Zenon
    <3>2. RequestsIn(r, l + 1) = RequestsIn(r, (l + 1) - 1) + 1
      BY <2>2, <2>3, <2>4, <3>1, Zenon DEF AddsUp
    <3>3. (l + 1) - 1 = l /\ l <= Len(s) /\ l <= l + 1
      BY <1>1
    <3>4. \A k \in 1 .. l : r[k].n = s[k].n
      BY <2>3, Zenon
    <3>5. RequestsIn(s, l) = RequestsIn(r, l)
      BY <1>1, <2>3, <3>3, <3>4, RequestsSame, Zenon
    <3>. QED  BY <2>3, <3>2, <3>3, <3>5, Zenon
  <2>8. \A k \in 1 .. l : s[k].t # z
    <3>1. \A y \in Nat : ~(y < y)
      OBVIOUS
    <3>. QED  BY <2>2, <2>5, <3>1, Zenon
  <2>9. 0 \in Nat /\ 0 + 1 = 1
    OBVIOUS
  <2>10. HasSlot(r, w, 0 + 1)
    BY <2>1, <2>2, <2>3, <2>4, <2>9, Zenon DEF HasSlot
  <2>11. \A k \in 1 .. Len(r) : HasSlot(s, r[k].t, r[k].n) \/ (r[k].t = w /\ r[k].n = 0 + 1)
    BY <2>1, <2>2, <2>3, <2>4, <2>9, Zenon DEF HasSlot
  <2>12. \A k \in 1 .. Len(s) : s[k].t # w => HasSlot(r, s[k].t, s[k].n)
    BY <2>3, <2>4, Zenon DEF HasSlot
  <2>13. \A k \in 1 .. Len(s) : s[k].t = w => s[k].n = 0
    BY <2>1, <2>8, Zenon
  <2>14. w \in Time
    BY <2>1, Zenon
  <2>. QED  BY <2>3, <2>6, <2>7, <2>9, <2>10, <2>11, <2>12, <2>13, <2>14, Zenon DEF OneMore, r
<1>. QED  BY <1>3, <1>4, Zenon

(* r is what a trim at z may leave of s. *)
Kept1(s, r, z) ==
  /\ \A k \in 1 .. Len(r) : HasSlot(s, r[k].t, r[k].n)
  /\ \A k \in 1 .. Len(s) : s[k].t > z => HasSlot(r, s[k].t, s[k].n)

(* Trim removes i slots, and leaves none up to z. *)
Cut(s, r, i, z) ==
  /\ r \in Seq(SlotSet) /\ InTime(r)
  /\ RequestsIn(s, i) \in Nat /\ RequestsIn(s, i) + RequestsIn(r, Len(r)) = RequestsIn(s, Len(s))
  /\ Kept1(s, r, z)
  /\ \A k \in 1 .. Len(r) : r[k].t > z

LEMMA AfterIs ==
  ASSUME NEW s \in Seq(SlotSet), InTime(s), NEW z \in Int
  PROVE  Cut(s, After(s, z), Gone(s, z), z)
(* What is left without the first i slots. *)
<1>CutFirst.
  ASSUME s \in Seq(SlotSet), NEW n \in Nat, n = Len(s), NEW i \in 0 .. n
  PROVE  LET r == SubSeq(s, i + 1, n)
         IN r \in Seq(SlotSet) /\ Len(r) = n - i /\ \A k \in 1 .. (n - i) : r[k] = s[i + k]
  <2> USE <1>CutFirst
  <2> DEFINE r == SubSeq(s, i + 1, n)
  <2>1. Len(r) = n - i
    OBVIOUS
  <2>2. \A k \in 1 .. (n - i) : r[k] = s[i + k]
    OBVIOUS
  <2>3. r \in Seq(SlotSet)
    OBVIOUS
  <2>. QED  BY <2>1, <2>2, <2>3, Zenon
<1>RequestsLeft.
  ASSUME s \in Seq(SlotSet), NEW r \in Seq(SlotSet), NEW i \in Nat, i + Len(r) = Len(s),
         \A k \in 1 .. Len(r) : r[k] = s[i + k]
  PROVE  RequestsIn(s, Len(s)) = RequestsIn(s, i) + RequestsIn(r, Len(r))
  <2> USE <1>RequestsLeft
  <2>1. Len(r) \in Nat /\ Len(s) \in Nat /\ i + Len(r) <= Len(s) /\ Len(r) \in 0 .. Len(r)
        /\ \A k \in 1 .. Len(r) : i + k \in 1 .. Len(s)
    OBVIOUS
  <2>2. \A k \in 1 .. Len(r) : Counts(r)[k] = Counts(s)[i + k]
    BY <2>1, Zenon DEF Counts
  <2>3. Counts(s) \in [1 .. Len(s) -> Nat] /\ Counts(r) \in [1 .. Len(r) -> Nat]
    BY CountsAre, Zenon
  <2>4. IsPart(Counts(s), Counts(r), i, Len(r))
    BY <2>1, <2>2, <2>3, SumShift, Zenon
  <2>5. Sum(Counts(s), i + Len(r)) = Sum(Counts(s), i) + Sum(Counts(r), Len(r))
    BY <2>1, <2>4, Zenon DEF IsPart
  <2>6. Sum(Counts(s), Len(s)) = Sum(Counts(s), i) + Sum(Counts(r), Len(r))
    BY <2>5
  <2>. QED  BY <2>6, Zenon DEF RequestsIn, Counts
<1> DEFINE l == Len(s)
           P(j) == (\A k \in 1 .. j : s[k].t <= z) /\ (j < l => s[j + 1].t > z)
           i == Gone(s, z)
           r == After(s, z)
<1>1. l \in Nat /\ \A k \in 1 .. l : s[k] \in SlotSet /\ s[k].t \in Nat
  BY SlotFacts, Zenon
<1>2. \E j \in 0 .. l : P(j)
  <2> DEFINE T == {j \in 0 .. l : j < l => s[j + 1].t > z}
  <2>1. T \in SUBSET Nat /\ l \in T
    BY <1>1
  <2>2. PICK m \in T : \A j \in T : m <= j
    <3> HIDE DEF T
    <3>. QED  BY <2>1, LeastNumber, Zenon
  <2>3. m \in 0 .. l /\ (m < l => s[m + 1].t > z)
    BY <2>2, Zenon
  <2>4. ASSUME NEW k \in 1 .. m PROVE s[k].t <= z
    <3>1. k - 1 \in 0 .. l /\ ~(m <= k - 1) /\ (k - 1) + 1 = k /\ k \in 1 .. l
      BY <1>1, <2>3
    <3>2. k - 1 \notin T
      BY <2>2, <3>1, Zenon
    <3>3. ~(s[k].t > z)
      BY <3>1, <3>2, Zenon
    <3>4. s[k].t \in Nat
      BY <1>1, <3>1, Zenon
    <3>. QED  BY <3>3, <3>4
  <2>. QED  BY <2>3, <2>4, Zenon
<1>3. i \in 0 .. l /\ P(i)
  <2>1. i = CHOOSE j \in 0 .. l : P(j)
    BY Zenon DEF Gone
  <2> HIDE DEF P, i
  <2>. QED  BY <1>2, <2>1, Zenon
<1>4. /\ i \in Nat /\ i <= l /\ l - i \in Nat /\ i + (l - i) = l
      /\ \A k \in 1 .. (l - i) : i + k \in 1 .. l
  BY <1>1, <1>3
<1>5. r = SubSeq(s, i + 1, l)
  BY Zenon DEF After
<1> HIDE DEF i
<1>6. r \in Seq(SlotSet) /\ Len(r) = l - i /\ \A k \in 1 .. (l - i) : r[k] = s[i + k]
  <2> DEFINE q == SubSeq(s, i + 1, l)
  <2>1. q \in Seq(SlotSet) /\ Len(q) = l - i /\ \A k \in 1 .. (l - i) : q[k] = s[i + k]
    <3>1. l = Len(s) /\ l \in Nat /\ i \in 0 .. l
      BY <1>1, <1>3, Zenon
    <3> HIDE DEF l
    <3>. QED  BY <3>1, <1>CutFirst, Zenon
  <2>. QED  BY <1>5, <2>1, Zenon
<1> HIDE DEF r
<1>7. InTime(r)
  <2> SUFFICES ASSUME NEW k \in 2 .. (l - i) PROVE r[k - 1].t < r[k].t
    BY <1>6, Zenon DEF InTime
  <2>1. k \in 1 .. (l - i) /\ k - 1 \in 1 .. (l - i) /\ i + k \in 2 .. l /\ i + (k - 1) = (i + k) - 1
    BY <1>1, <1>4
  <2>. QED  BY <1>6, <2>1, Zenon DEF InTime
<1>8. RequestsIn(s, i) \in Nat /\ RequestsIn(s, i) + RequestsIn(r, Len(r)) = RequestsIn(s, l)
  <2>1. AddsUp(s)
    BY SlotsAddUp, Zenon
  <2>2. RequestsIn(s, i) \in Nat
    BY <1>3, <2>1, Zenon DEF AddsUp
  <2>3. i + Len(r) = Len(s) /\ \A k \in 1 .. Len(r) : r[k] = s[i + k]
    BY <1>4, <1>6, Zenon
  <2>4. RequestsIn(s, Len(s)) = RequestsIn(s, i) + RequestsIn(r, Len(r))
    BY <1>4, <1>6, <2>3, <1>RequestsLeft, Zenon
  <2>. QED  BY <2>2, <2>4, Zenon
<1>9. ASSUME NEW k \in 1 .. (l - i) PROVE r[k].t > z
  <2>1. i < l /\ i + 1 \in 1 .. l /\ i + k \in 1 .. l /\ (k = 1 \/ i + 1 \in 1 .. ((i + k) - 1))
    BY <1>1, <1>4
  <2>2. s[i + 1].t > z
    BY <1>3, <2>1, Zenon
  <2>3. Ascends(s)
    BY InTimeAscends, Zenon
  <2>4. k = 1 \/ s[i + 1].t < s[i + k].t
    BY <2>1, <2>3, Zenon DEF Ascends
  <2>5. s[i + 1].t \in Nat /\ s[i + k].t \in Nat /\ r[k] = s[i + k]
    BY <1>1, <1>6, <2>1, Zenon
  <2>6. CASE k = 1
    BY <2>2, <2>5, <2>6
  <2>7. CASE s[i + 1].t < s[i + k].t
    <3>1. \A x, y \in Nat : x > z /\ x < y => y > z
      OBVIOUS
    <3>. QED  BY <2>2, <2>5, <2>7, <3>1, Zenon
  <2>. QED  BY <2>4, <2>6, <2>7, Zenon
<1>10. Kept1(s, r, z)
  <2>1. ASSUME NEW k \in 1 .. l, s[k].t > z PROVE HasSlot(r, s[k].t, s[k].n)
    <3>1. ~(k \in 1 .. i)
      <4>1. \A x \in Nat : ~(x > z /\ x <= z)
        OBVIOUS
      <4>. QED  BY <1>1, <1>3, <2>1, <4>1, Zenon
    <3>2. k - i \in 1 .. (l - i) /\ i + (k - i) = k
      BY <1>1, <1>4, <3>1
    <3>3. r[k - i] = s[k]
      BY <1>6, <3>2, Zenon
    <3>. QED  BY <1>6, <3>2, <3>3, Zenon DEF HasSlot
  <2>2. \A k \in 1 .. (l - i) : HasSlot(s, r[k].t, r[k].n)
    BY <1>4, <1>6, Zenon DEF HasSlot
  <2>. QED  BY <1>6, <2>1, <2>2, Zenon DEF Kept1
<1>. QED  BY <1>6, <1>7, <1>8, <1>9, <1>10, Zenon DEF Cut, i, r

(* The requests that f counts from z on. *)
From(f, z) == [k \in Time |-> IF k >= z THEN f[k] ELSE 0]

LEMMA FromIs ==
  ASSUME NEW f \in [Time -> Nat], NEW z \in Int
  PROVE  /\ From(f, z) \in [1 .. MaxTime -> Nat] /\ MaxTime \in Nat
         /\ IsSum(From(f, z), MaxTime)
         /\ \A k \in 1 .. MaxTime : From(f, z)[k] = IF k >= z THEN f[k] ELSE 0
<1>1. MaxTime \in Nat /\ Time = 1 .. MaxTime /\ 0 \in Nat
  BY BoundAssumption DEF Time
<1>2. From(f, z) \in [1 .. MaxTime -> Nat] /\ \A k \in 1 .. MaxTime : From(f, z)[k] = IF k >= z THEN f[k] ELSE 0
  BY <1>1, Zenon DEF From
<1>. QED  BY <1>1, <1>2, SumIs, Zenon

(* What is counted from a later time on is no more. *)
LEMMA FromFalls ==
  ASSUME NEW f \in [Time -> Nat], NEW c \in Int, NEW d \in Int, c <= d
  PROVE  Sum(From(f, d), MaxTime) <= Sum(From(f, c), MaxTime)
<1> DEFINE G == From(f, c)
           D == From(f, d)
           T == {j \in 0 .. MaxTime : ~(Sum(D, j) <= Sum(G, j))}
<1>1. /\ MaxTime \in Nat /\ IsSum(G, MaxTime) /\ IsSum(D, MaxTime)
      /\ \A k \in 1 .. MaxTime : /\ G[k] = IF k >= c THEN f[k] ELSE 0
                                 /\ D[k] = IF k >= d THEN f[k] ELSE 0
  BY FromIs, Zenon
<1>2. Time = 1 .. MaxTime
  BY DEF Time
<1> HIDE DEF G, D
<1>3. SUFFICES ASSUME T # {} PROVE FALSE
  <2>1. MaxTime \in 0 .. MaxTime
    BY <1>1
  <2>. QED  BY <2>1, Zenon DEF G, D
<1>4. PICK m \in T : \A j \in T : m <= j
  <2>1. T \in SUBSET Nat
    OBVIOUS
  <2> HIDE DEF T
  <2>. QED  BY <1>3, <2>1, LeastNumber, Zenon
<1>5. m \in 0 .. MaxTime /\ ~(Sum(D, m) <= Sum(G, m))
  BY <1>4, Zenon
<1>6. m # 0
  <2>1. Sum(D, 0) = 0 /\ Sum(G, 0) = 0
    BY <1>1, Zenon DEF IsSum
  <2>2. 0 <= 0
    OBVIOUS
  <2>. QED  BY <1>5, <2>1, <2>2, Zenon
<1>7. m \in 1 .. MaxTime /\ m - 1 \in 0 .. MaxTime /\ ~(m <= m - 1)
  BY <1>1, <1>5, <1>6
<1>8. Sum(D, m - 1) <= Sum(G, m - 1)
  BY <1>4, <1>7, Zenon
<1>9. /\ Sum(D, m) = Sum(D, m - 1) + D[m] /\ Sum(G, m) = Sum(G, m - 1) + G[m]
      /\ Sum(D, m - 1) \in Nat /\ Sum(G, m - 1) \in Nat
  BY <1>1, <1>7, Zenon DEF IsSum
<1>10. f[m] \in Nat /\ G[m] = (IF m >= c THEN f[m] ELSE 0) /\ D[m] = (IF m >= d THEN f[m] ELSE 0)
  BY <1>1, <1>2, <1>7, Zenon
<1> HIDE DEF T
<1>11. D[m] <= G[m] /\ D[m] \in Nat /\ G[m] \in Nat
  BY <1>7, <1>10
<1>. QED  BY <1>5, <1>8, <1>9, <1>11

(* Slots from c on that count no more than f does. *)
LEMMA SlotsBelow ==
  ASSUME NEW s \in Seq(SlotSet), InTime(s), NEW f \in [Time -> Nat], NEW c \in Int,
         \A k \in 1 .. Len(s) : s[k].t >= c /\ s[k].n <= f[s[k].t]
  PROVE  RequestsIn(s, Len(s)) <= Sum(From(f, c), MaxTime)
<1> DEFINE G == From(f, c)
           l == Len(s)
           T == {j \in 1 .. l : ~(RequestsIn(s, j) <= Sum(G, s[j].t))}
<1>1. /\ MaxTime \in Nat /\ IsSum(G, MaxTime) /\ G \in [1 .. MaxTime -> Nat]
      /\ \A k \in 1 .. MaxTime : G[k] = IF k >= c THEN f[k] ELSE 0
  BY FromIs, Zenon
<1>2. Time = 1 .. MaxTime /\ MaxTime \in 0 .. MaxTime /\ 0 \in 0 .. MaxTime
  BY <1>1 DEF Time
<1> HIDE DEF G
<1>3. l \in Nat /\ AddsUp(s)
      /\ \A k \in 1 .. l : s[k].t \in 1 .. MaxTime /\ s[k].n \in Nat
  BY <1>2, SlotFacts, SlotsAddUp, Zenon
<1>4. T = {}
  <2>1. SUFFICES ASSUME T # {} PROVE FALSE
    BY Zenon
  <2>2. PICK m \in T : \A j \in T : m <= j
    <3>1. T \in SUBSET Nat
      OBVIOUS
    <3> HIDE DEF T
    <3>. QED  BY <2>1, <3>1, LeastNumber, Zenon
  <2>3. m \in 1 .. l /\ ~(RequestsIn(s, m) <= Sum(G, s[m].t))
    BY <2>2, Zenon
  <2> DEFINE w == s[m].t
  <2>4. w \in 1 .. MaxTime /\ s[m].n \in Nat /\ w >= c /\ s[m].n <= f[w]
    BY <1>3, <2>3, Zenon
  <2> HIDE DEF w
  <2>5. w - 1 \in 0 .. MaxTime /\ w \in 0 .. MaxTime
    BY <1>1, <2>4
  <2>6. /\ Sum(G, w) = Sum(G, w - 1) + f[w] /\ Sum(G, w - 1) \in Nat /\ f[w] \in Nat
    BY <1>1, <1>2, <2>4, <2>5, Zenon DEF IsSum
  <2>7. RequestsIn(s, m) = RequestsIn(s, m - 1) + s[m].n
    BY <1>3, <2>3, Zenon DEF AddsUp
  <2>8. RequestsIn(s, m - 1) \in Nat
    <3>1. m - 1 \in 0 .. l
      BY <1>3, <2>3
    <3>. QED  BY <1>3, <3>1, Zenon DEF AddsUp
  <2>9. RequestsIn(s, m - 1) <= Sum(G, w - 1)
    <3>1. CASE m = 1
      <4>1. m - 1 = 0
        BY <3>1
      <4>2. RequestsIn(s, m - 1) = 0
        BY <1>3, <4>1, Zenon DEF AddsUp
      <4>. QED  BY <2>6, <4>2
    <3>2. CASE m # 1
      <4>1. m - 1 \in 1 .. l /\ ~(m <= m - 1) /\ m \in 2 .. l
        BY <1>3, <2>3, <3>2
      <4>2. RequestsIn(s, m - 1) <= Sum(G, s[m - 1].t)
        BY <2>2, <4>1, Zenon
      <4>3. s[m - 1].t < w /\ s[m - 1].t \in 1 .. MaxTime
        BY <1>3, <4>1, Zenon DEF InTime, w
      <4>4. s[m - 1].t \in 0 .. MaxTime /\ w - 1 \in s[m - 1].t .. MaxTime
        BY <1>1, <2>4, <4>3
      <4>5. Sum(G, s[m - 1].t) <= Sum(G, w - 1)
        BY <1>1, <4>4, SumGrows, Zenon
      <4>6. Sum(G, s[m - 1].t) \in Nat
        BY <1>1, <4>4, Zenon DEF IsSum
      <4>. QED  BY <2>6, <2>8, <4>2, <4>5, <4>6
    <3>. QED  BY <3>1, <3>2, Zenon
  <2>10. ~(RequestsIn(s, m) <= Sum(G, w))
    BY <2>3, Zenon DEF w
  <2> HIDE DEF T
  <2>. QED  BY <2>4, <2>6, <2>7, <2>8, <2>9, <2>10
<1>5. Sum(G, MaxTime) \in Nat
  BY <1>1, <1>2, Zenon DEF IsSum
<1>6. CASE l = 0
  <2>1. RequestsIn(s, l) = 0
    BY <1>3, <1>6, Zenon DEF AddsUp
  <2>2. RequestsIn(s, l) <= Sum(G, MaxTime)
    BY <1>5, <2>1
  <2>. QED  BY <2>2, Zenon DEF G
<1>7. CASE l # 0
  <2>1. l \in 1 .. l /\ l \in 0 .. l
    BY <1>3, <1>7
  <2>2. RequestsIn(s, l) <= Sum(G, s[l].t) /\ RequestsIn(s, l) \in Nat /\ s[l].t \in 1 .. MaxTime
    BY <1>3, <1>4, <2>1, Zenon DEF AddsUp
  <2>3. s[l].t \in 0 .. MaxTime /\ MaxTime \in s[l].t .. MaxTime
    BY <1>1, <2>2
  <2>4. Sum(G, s[l].t) <= Sum(G, MaxTime) /\ Sum(G, s[l].t) \in Nat
    BY <1>1, <2>3, SumGrows, Zenon DEF IsSum
  <2>5. RequestsIn(s, l) <= Sum(G, MaxTime)
    BY <1>5, <2>2, <2>4
  <2>. QED  BY <2>5, Zenon DEF G
<1>. QED  BY <1>6, <1>7, Zenon

(* Slots that have all that f counts from c on. *)
LEMMA SlotsAbove ==
  ASSUME NEW s \in Seq(SlotSet), InTime(s), NEW f \in [Time -> Nat], NEW c \in Int,
         \A z \in Time : z >= c /\ f[z] > 0 => HasSlot(s, z, f[z])
  PROVE  Sum(From(f, c), MaxTime) <= RequestsIn(s, Len(s))
<1> DEFINE G == From(f, c)
           l == Len(s)
           Upto(z, i) == \A k \in 1 .. l : s[k].t <= z => k <= i
           T == {z \in 0 .. MaxTime :
                   \E i \in 0 .. l : Upto(z, i) /\ ~(Sum(G, z) <= RequestsIn(s, i))}
<1>1. /\ MaxTime \in Nat /\ IsSum(G, MaxTime)
      /\ \A k \in 1 .. MaxTime : G[k] = IF k >= c THEN f[k] ELSE 0
  BY FromIs, Zenon
<1>2. Time = 1 .. MaxTime /\ MaxTime \in 0 .. MaxTime
  BY <1>1 DEF Time
<1> HIDE DEF G
<1>3. l \in Nat /\ AddsUp(s) /\ Ascends(s)
      /\ \A k \in 1 .. l : s[k].t \in Nat /\ s[k].n \in Nat
  BY SlotFacts, SlotsAddUp, InTimeAscends, Zenon
<1>4. SUFFICES ASSUME T # {} PROVE FALSE
  <2>1. l \in 0 .. l /\ \A k \in 1 .. l : k <= l
    BY <1>3
  <2>. QED  BY <1>2, <2>1, Zenon DEF G
<1>5. PICK z \in T : \A j \in T : z <= j
  <2>1. T \in SUBSET Nat
    OBVIOUS
  <2> HIDE DEF T
  <2>. QED  BY <1>4, <2>1, LeastNumber, Zenon
<1>6. z \in 0 .. MaxTime
  BY <1>5, Zenon
<1>7. PICK i \in 0 .. l : Upto(z, i) /\ ~(Sum(G, z) <= RequestsIn(s, i))
  BY <1>5, Zenon
<1>8. RequestsIn(s, i) \in Nat
  BY <1>3, <1>7, Zenon DEF AddsUp
<1>9. z # 0
  <2>1. Sum(G, 0) = 0
    BY <1>1, Zenon DEF IsSum
  <2>2. Sum(G, 0) <= RequestsIn(s, i)
    BY <1>8, <2>1
  <2>. QED  BY <1>7, <2>2, Zenon
<1>10. z \in 1 .. MaxTime /\ z - 1 \in 0 .. MaxTime /\ ~(z <= z - 1)
  BY <1>1, <1>6, <1>9
<1>11. ASSUME NEW j \in 0 .. l, Upto(z - 1, j) PROVE Sum(G, z - 1) <= RequestsIn(s, j)
  BY <1>5, <1>10, <1>11, Zenon
<1>12. Sum(G, z) = Sum(G, z - 1) + G[z] /\ Sum(G, z - 1) \in Nat
  BY <1>1, <1>10, Zenon DEF IsSum
<1>13. f[z] \in Nat /\ G[z] = IF z >= c THEN f[z] ELSE 0
  BY <1>1, <1>2, <1>10, Zenon
<1> HIDE DEF T
<1>14. CASE z >= c /\ f[z] > 0
  <2>1. PICK k \in 1 .. l : s[k].t = z /\ s[k].n = f[z]
    BY <1>2, <1>10, <1>14, Zenon DEF HasSlot
  <2>2. k <= i
    <3>1. s[k].t <= z
      BY <1>10, <2>1
    <3>. QED  BY <1>7, <3>1, Zenon
  <2>3. Upto(z - 1, k - 1)
    <3> SUFFICES ASSUME NEW j \in 1 .. l, s[j].t <= z - 1, ~(j <= k - 1) PROVE FALSE
      BY Zenon
    <3>1. j = k \/ k \in 1 .. (j - 1)
      BY <1>3
    <3>2. j = k \/ s[k].t < s[j].t
      BY <1>3, <3>1, Zenon DEF Ascends
    <3>3. s[j].t \in Nat /\ s[j].t <= z - 1
      BY <1>3, Zenon
    <3>4. s[j].t # z /\ ~(z < s[j].t)
      BY <1>10, <3>3
    <3>. QED  BY <2>1, <3>2, <3>4, Zenon
  <2>4. k - 1 \in 0 .. l /\ k \in 0 .. l /\ i \in k .. l
    BY <1>3, <1>7, <2>2
  <2>5. Sum(G, z - 1) <= RequestsIn(s, k - 1)
    BY <1>11, <2>3, <2>4, Zenon
  <2>6. RequestsIn(s, k) = RequestsIn(s, k - 1) + s[k].n /\ RequestsIn(s, k - 1) \in Nat
        /\ RequestsIn(s, k) \in Nat
    BY <1>3, <2>4, Zenon DEF AddsUp
  <2>7. RequestsIn(s, k) <= RequestsIn(s, i)
    <3>1. Counts(s) \in [1 .. l -> Nat]
      BY CountsAre, Zenon
    <3>2. Sum(Counts(s), k) <= Sum(Counts(s), i)
      BY <1>3, <2>4, <3>1, SumGrows, Zenon
    <3>. QED  BY <3>2, Zenon DEF RequestsIn, Counts
  <2>8. Sum(G, z) <= RequestsIn(s, i)
    <3>1. G[z] = f[z] /\ s[k].n = f[z]
      BY <1>13, <1>14, <2>1, Zenon
    <3>. QED  BY <1>8, <1>12, <1>13, <2>5, <2>6, <2>7, <3>1
  <2>. QED  BY <1>7, <2>8, Zenon
<1>15. CASE ~(z >= c /\ f[z] > 0)
  <2>1. G[z] = 0
    BY <1>10, <1>13, <1>15
  <2>2. Upto(z - 1, i)
    <3> SUFFICES ASSUME NEW j \in 1 .. l, s[j].t <= z - 1 PROVE j <= i
      BY Zenon
    <3>1. s[j].t \in Nat /\ s[j].t <= z - 1
      BY <1>3, Zenon
    <3>2. s[j].t <= z
      BY <1>10, <3>1
    <3>. QED  BY <1>7, <3>2, Zenon
  <2>3. Sum(G, z - 1) <= RequestsIn(s, i)
    BY <1>7, <1>11, <2>2, Zenon
  <2>4. Sum(G, z) <= RequestsIn(s, i)
    BY <1>12, <2>1, <2>3
  <2>. QED  BY <1>7, <2>4, Zenon
<1>. QED  BY <1>14, <1>15, Zenon

-----------------------------------------------------------------------------
(* The map and the two heaps. *)

LEMMA ObjectFacts ==
  ASSUME NEW a \in App
  PROVE  ObjectOf(a) \in Entry /\ ObjectOf(a).ApplicationId = a /\ ObjectOf(a) # none
<1>1. ObjectOf(a) \in Entry /\ ObjectOf(a).ApplicationId = a
  BY DEF ObjectOf, Entry
<1>. QED  BY <1>1, TopAssumption, Zenon

LEMMA KnownFacts ==
  ASSUME NEW m, MapRight(m)
  PROVE  /\ KnownIn(m) \subseteq Entry
         /\ \A a \in App : m[a] # none <=> ObjectOf(a) \in KnownIn(m)
         /\ \A e \in KnownIn(m) : /\ e.ApplicationId \in App /\ e = ObjectOf(e.ApplicationId)
                                  /\ m[e.ApplicationId] = e
<1>1. ASSUME NEW e \in KnownIn(m)
      PROVE  \E a \in App : m[a] = e /\ e = ObjectOf(a) /\ e \in Entry /\ e.ApplicationId = a
  <2>1. PICK a \in App : m[a] = e /\ e # none
    BY <1>1, Zenon DEF KnownIn
  <2>2. e = ObjectOf(a)
    BY <2>1, Zenon DEF MapRight
  <2>. QED  BY <2>1, <2>2, ObjectFacts, Zenon
<1>2. KnownIn(m) \subseteq Entry
  BY <1>1, Zenon
<1>3. \A e \in KnownIn(m) : /\ e.ApplicationId \in App /\ e = ObjectOf(e.ApplicationId)
                            /\ m[e.ApplicationId] = e
  BY <1>1, Zenon
<1>4. ASSUME NEW a \in App, m[a] # none PROVE ObjectOf(a) \in KnownIn(m)
  <2>1. m[a] = ObjectOf(a)
    BY <1>4, Zenon DEF MapRight
  <2>. QED  BY <1>4, <2>1, Zenon DEF KnownIn
<1>5. ASSUME NEW a \in App, ObjectOf(a) \in KnownIn(m) PROVE m[a] # none
  <2>1. PICK b \in App : m[b] = ObjectOf(a) /\ ObjectOf(a) = ObjectOf(b)
    BY <1>1, <1>5, Zenon
  <2>2. a = b
    BY <2>1, ObjectFacts, Zenon
  <2>. QED  BY <2>1, <2>2, ObjectFacts, Zenon
<1>. QED  BY <1>2, <1>3, <1>4, <1>5, Zenon

(* Two maps differ in one entry. *)
Put(m, a, v) == [m EXCEPT ![a] = v]

KnownOf(m, a, v) ==
  IF v = none THEN KnownIn(m) \ {ObjectOf(a)} ELSE KnownIn(m) \cup {ObjectOf(a)}

LEMMA TopKeys ==
  ASSUME NEW x \in TopState
  PROVE  /\ FirstSlot(x.slots) \in [Entry -> Int]
         /\ More(x.total) \in [Entry -> Int]
         /\ \A e \in Entry : More(x.total)[e] = -x.total[e]
         /\ \A e \in Entry : x.slots[e] # <<>> => FirstSlot(x.slots)[e] = x.slots[e][1].t
<1>1. x.slots \in [Entry -> Seq(SlotSet)] /\ x.total \in [Entry -> Nat]
  BY DEF TopState
<1>2. ASSUME NEW e \in Entry PROVE (IF x.slots[e] = <<>> THEN 0 ELSE x.slots[e][1].t) \in Int
  <2>1. x.slots[e] \in Seq(SlotSet)
    BY <1>1, Zenon
  <2>2. CASE x.slots[e] # <<>>
    <3>1. 1 \in 1 .. Len(x.slots[e])
      BY <2>1, <2>2
    <3>2. x.slots[e][1].t \in Nat
      BY <2>1, <3>1, SlotFacts, Zenon
    <3>. QED  BY <2>2, <3>2
  <2>. QED  BY <2>2
<1>3. ASSUME NEW e \in Entry PROVE -x.total[e] \in Int
  <2>1. x.total[e] \in Nat
    BY <1>1, Zenon
  <2>. QED  BY <2>1
<1>4. \A e \in Entry : FirstSlot(x.slots)[e] = IF x.slots[e] = <<>> THEN 0 ELSE x.slots[e][1].t
  BY Zenon DEF FirstSlot
<1>5. FirstSlot(x.slots) \in [Entry -> Int]
  BY <1>2, Zenon DEF FirstSlot
<1>6. More(x.total) \in [Entry -> Int] /\ \A e \in Entry : More(x.total)[e] = -x.total[e]
  BY <1>3, Zenon DEF More
<1>. QED  BY <1>4, <1>5, <1>6, Zenon

(* y is x but for the heaps, which hold E. *)
HeapsMoved(x, y, E) ==
  /\ y \in TopState
  /\ y.m = x.m /\ y.slots = x.slots /\ y.total = x.total /\ y.ok = x.ok
  /\ HeapsHold(y, E)

(* The heaps stay right when entries change that they do not hold. *)
SameEntries(x, y, E) == \A f \in E : y.slots[f] = x.slots[f] /\ y.total[f] = x.total[f]

-----------------------------------------------------------------------------
(* Mark. *)

(* y is x but for the entry e and its place in the map. *)
Elsewhere(x, y, e) ==
  /\ y \in TopState /\ y.ok = x.ok
  /\ \A f \in Entry : f # e => y.slots[f] = x.slots[f] /\ y.total[f] = x.total[f]

LEMMA ElsewhereKeeps ==
  ASSUME NEW x, NEW E \in SUBSET Entry, TopHolds(x, E), NEW a \in App, ObjectOf(a) \notin E, NEW y,
         Elsewhere(x, y, ObjectOf(a)), y.t = x.t, y.n = x.n,
         NEW v \in {none, ObjectOf(a)}, y.m = Put(x.m, a, v),
         SlotsRight(y, ObjectOf(a)), v # none <=> y.slots[ObjectOf(a)] # <<>>
  PROVE  /\ TopHolds(y, E)
         /\ KnownIn(y.m) = KnownOf(x.m, a, v)
<1>OthersKeep.
  ASSUME x \in TopState, y \in TopState, E \in SUBSET Entry, HeapsHold(x, E),
         y.t = x.t, y.n = x.n, SameEntries(x, y, E)
  PROVE  HeapsHold(y, E)
  <2> USE <1>OthersKeep
  <2>1. InHeap(x.t, FirstSlot(x.slots), E) /\ InHeap(x.n, More(x.total), E)
    BY Zenon DEF HeapsHold
  <2>2. \A f \in E : /\ FirstSlot(y.slots)[f] = FirstSlot(x.slots)[f]
                     /\ More(y.total)[f] = More(x.total)[f]
    BY Zenon DEF FirstSlot, More, SameEntries
  <2>3. InHeap(x.t, FirstSlot(y.slots), E)
    BY <2>1, <2>2, OtherKeys, Zenon
  <2>4. InHeap(x.n, More(y.total), E)
    BY <2>1, <2>2, OtherKeys, Zenon
  <2>. QED  BY <2>3, <2>4, Zenon DEF HeapsHold
<1>KnownChanges.
  ASSUME NEW m, MapRight(m), a \in App, v \in {none, ObjectOf(a)},
         NEW w, w = Put(m, a, v)
  PROVE  /\ MapRight(w)
         /\ KnownIn(w) = KnownOf(m, a, v)
  <2> USE <1>KnownChanges
  <2>KnownIs.
    ASSUME NEW m0, MapRight(m0), NEW e \in Entry, e.ApplicationId \in App
    PROVE  e \in KnownIn(m0) <=> e = ObjectOf(e.ApplicationId) /\ m0[e.ApplicationId] # none
    <3> USE <2>KnownIs
    <3>1. ASSUME e \in KnownIn(m0) PROVE e = ObjectOf(e.ApplicationId) /\ m0[e.ApplicationId] # none
      <4>1. e = ObjectOf(e.ApplicationId) /\ m0[e.ApplicationId] = e
        BY <3>1, KnownFacts, Zenon
      <4>. QED  BY <4>1, TopAssumption, Zenon
    <3>2. ASSUME e = ObjectOf(e.ApplicationId), m0[e.ApplicationId] # none PROVE e \in KnownIn(m0)
      <4>1. ObjectOf(e.ApplicationId) \in KnownIn(m0)
        BY <3>2, KnownFacts, Zenon
      <4>. QED  BY <3>2, <4>1, Zenon
    <3>. QED  BY <3>1, <3>2, Zenon
  <2>1. m \in [App -> Entry \cup {none}] /\ \A b \in App : m[b] \in {none, ObjectOf(b)}
    BY Zenon DEF MapRight
  <2>2. v \in Entry \cup {none}
    BY ObjectFacts, Zenon
  <2>3. w \in [App -> Entry \cup {none}] /\ \A b \in App : w[b] = IF b = a THEN v ELSE m[b]
    BY <2>1, <2>2, Zenon DEF Put
  <2>4. MapRight(w)
    BY <2>1, <2>3, Zenon DEF MapRight
  <2>5. \A e \in Entry : e.ApplicationId \in App
    BY DEF Entry
  <2>6. \A e \in Entry : e \in KnownIn(m) <=> e = ObjectOf(e.ApplicationId) /\ m[e.ApplicationId] # none
    BY <2>5, <2>KnownIs, Zenon
  <2>7. \A e \in Entry : e \in KnownIn(w) <=> e = ObjectOf(e.ApplicationId) /\ w[e.ApplicationId] # none
    BY <2>4, <2>5, <2>KnownIs, Zenon
  <2>8. ObjectOf(a).ApplicationId = a /\ ObjectOf(a) \in Entry /\ ObjectOf(a) # none
    BY ObjectFacts, Zenon
  <2>9. KnownIn(w) \subseteq Entry /\ KnownIn(m) \subseteq Entry
    BY <2>4, KnownFacts, Zenon
  <2>10. CASE v = none
    <3>1. ASSUME NEW e \in Entry PROVE e \in KnownIn(w) <=> e \in KnownIn(m) /\ e # ObjectOf(a)
      <4>1. CASE e.ApplicationId = a
        BY <2>3, <2>5, <2>6, <2>7, <2>10, <4>1, Zenon
      <4>2. CASE e.ApplicationId # a
        BY <2>3, <2>5, <2>6, <2>7, <2>8, <4>2, Zenon
      <4>. QED  BY <4>1, <4>2, Zenon
    <3>2. KnownIn(w) = KnownIn(m) \ {ObjectOf(a)}
      BY <2>9, <3>1, Zenon
    <3>. QED  BY <2>4, <2>10, <3>2, Zenon DEF KnownOf
  <2>11. CASE v # none
    <3>1. ASSUME NEW e \in Entry PROVE e \in KnownIn(w) <=> e \in KnownIn(m) \/ e = ObjectOf(a)
      <4>1. CASE e.ApplicationId = a
        BY <2>3, <2>5, <2>6, <2>7, <2>8, <2>11, <4>1, Zenon
      <4>2. CASE e.ApplicationId # a
        BY <2>3, <2>5, <2>6, <2>7, <2>8, <4>2, Zenon
      <4>. QED  BY <4>1, <4>2, Zenon
    <3>2. KnownIn(w) = KnownIn(m) \cup {ObjectOf(a)}
      BY <2>8, <2>9, <3>1, Zenon
    <3>. QED  BY <2>4, <2>11, <3>2, Zenon DEF KnownOf
  <2>. QED  BY <2>10, <2>11, Zenon
<1> DEFINE e == ObjectOf(a)
<1>1. /\ x \in TopState /\ x.ok /\ MapRight(x.m) /\ HeapsHold(x, E)
      /\ \A f \in Entry : SlotsRight(x, f) /\ (f \in KnownIn(x.m) <=> x.slots[f] # <<>>)
  BY Zenon DEF TopHolds
<1>2. /\ y \in TopState /\ y.ok
      /\ \A f \in Entry : f # e => y.slots[f] = x.slots[f] /\ y.total[f] = x.total[f]
  BY <1>1, Zenon DEF Elsewhere
<1>3. /\ MapRight(y.m)
      /\ KnownIn(y.m) = KnownOf(x.m, a, v)
  <2>1. MapRight(x.m)
    BY <1>1, Zenon
  <2>. QED  BY <2>1, <1>KnownChanges, Zenon
<1>4. HeapsHold(y, E)
  <2>1. SameEntries(x, y, E)
    BY <1>2, Zenon DEF SameEntries
  <2>. QED  BY <1>1, <1>2, <2>1, <1>OthersKeep, Zenon
<1>5. ASSUME NEW f \in Entry PROVE SlotsRight(y, f) /\ (f \in KnownIn(y.m) <=> y.slots[f] # <<>>)
  <2>1. CASE f = e
    BY <1>3, <2>1, Zenon DEF KnownOf
  <2>2. CASE f # e
    <3>1. y.slots[f] = x.slots[f] /\ y.total[f] = x.total[f] /\ SlotsRight(x, f)
          /\ (f \in KnownIn(x.m) <=> x.slots[f] # <<>>)
      BY <1>1, <1>2, <2>2, Zenon
    <3>2. f \in KnownIn(y.m) <=> f \in KnownIn(x.m)
      <4>1. CASE v = none
        <5>1. KnownIn(y.m) = KnownIn(x.m) \ {e}
          BY <1>3, <4>1, Zenon DEF KnownOf
        <5>. QED  BY <2>2, <5>1, Zenon
      <4>2. CASE v # none
        <5>1. KnownIn(y.m) = KnownIn(x.m) \cup {e}
          BY <1>3, <4>2, Zenon DEF KnownOf
        <5>. QED  BY <2>2, <5>1, Zenon
      <4>. QED  BY <4>1, <4>2, Zenon
    <3>. QED  BY <3>1, <3>2, Zenon DEF SlotsRight
  <2>. QED  BY <2>1, <2>2, Zenon
<1>. QED  BY <1>2, <1>3, <1>4, <1>5, Zenon DEF TopHolds

(* e goes back into the heaps. *)
LEMMA BackIn ==
  ASSUME NEW x, NEW e \in KnownIn(x.m), TopHolds(x, KnownIn(x.m) \ {e})
  PROVE  TopRight(PutBack(x, e)) /\ HeapsMoved(x, PutBack(x, e), KnownIn(x.m))
<1>PutBackIs.
  ASSUME x \in TopState, NEW E, HeapsHold(x, E), e \in Entry \ E
  PROVE  HeapsMoved(x, PutBack(x, e), E \cup {e})
  <2> USE <1>PutBackIs
  <2> DEFINE T == HeapPush(x.t, FirstSlot(x.slots), e)
             N == HeapPush(x.n, More(x.total), e)
             y == PutBack(x, e)
  <2>1. /\ InHeap(x.t, FirstSlot(x.slots), E) /\ InHeap(x.n, More(x.total), E)
        /\ FirstSlot(x.slots) \in [Entry -> Int] /\ More(x.total) \in [Entry -> Int]
    BY TopKeys, Zenon DEF HeapsHold
  <2>2. InHeap(T, FirstSlot(x.slots), E \cup {e}) /\ InHeap(N, More(x.total), E \cup {e})
    BY <2>1, PushHeap, Zenon
  <2>3. y = [x EXCEPT !.t = T, !.n = N]
    BY Zenon DEF PutBack
  <2> HIDE DEF T, N, y
  <2>4. T \in HeapSet /\ N \in HeapSet
    BY <2>2, Zenon DEF InHeap, Placed
  <2>5. /\ y \in TopState /\ y.m = x.m /\ y.slots = x.slots /\ y.total = x.total /\ y.ok = x.ok
        /\ y.t = T /\ y.n = N
    BY <2>3, <2>4, Zenon DEF TopState
  <2>6. HeapsHold(y, E \cup {e})
    BY <2>2, <2>5, Zenon DEF HeapsHold
  <2>. QED  BY <2>5, <2>6, Zenon DEF HeapsMoved, y
<1> DEFINE E == KnownIn(x.m) \ {e}
           y == PutBack(x, e)
<1>1. /\ x \in TopState /\ x.ok /\ MapRight(x.m) /\ HeapsHold(x, E)
      /\ \A f \in Entry : SlotsRight(x, f) /\ (f \in KnownIn(x.m) <=> x.slots[f] # <<>>)
  BY Zenon DEF TopHolds
<1>2. e \in Entry \ E /\ E \cup {e} = KnownIn(x.m)
  BY <1>1, KnownFacts, Zenon
<1>3. HeapsMoved(x, y, KnownIn(x.m))
  <2>1. HeapsMoved(x, y, E \cup {e})
    BY <1>1, <1>2, <1>PutBackIs, Zenon
  <2>. QED  BY <1>2, <2>1, Zenon
<1> HIDE DEF y, E
<1>4. /\ y \in TopState /\ y.m = x.m /\ y.slots = x.slots /\ y.total = x.total /\ y.ok = x.ok
      /\ HeapsHold(y, KnownIn(x.m))
  BY <1>3, Zenon DEF HeapsMoved
<1>5. \A f \in Entry : SlotsRight(y, f)
  BY <1>1, <1>4, Zenon DEF SlotsRight
<1>6. TopRight(y)
  BY <1>1, <1>4, <1>5, Zenon DEF TopRight, TopHolds
<1>. QED  BY <1>3, <1>6, Zenon DEF y

(* e leaves the heaps. *)
LEMMA TakenOut ==
  ASSUME NEW x, TopRight(x), NEW e \in KnownIn(x.m)
  PROVE  /\ TopHolds(Taken(x, e), KnownIn(x.m) \ {e})
         /\ HeapsMoved(x, Taken(x, e), KnownIn(x.m) \ {e})
         /\ AtItsIndex(x.t, e) /\ AtItsIndex(x.n, e)
<1>TakenIs.
  ASSUME x \in TopState, NEW E, HeapsHold(x, E), e \in E
  PROVE  HeapsMoved(x, Taken(x, e), E \ {e}) /\ AtItsIndex(x.t, e) /\ AtItsIndex(x.n, e)
  <2> USE <1>TakenIs
  <2> DEFINE T == HeapRemove(x.t, FirstSlot(x.slots), x.t.pos[e])
             N == HeapRemove(x.n, More(x.total), x.n.pos[e])
             y == Taken(x, e)
  <2>1. /\ InHeap(x.t, FirstSlot(x.slots), E) /\ InHeap(x.n, More(x.total), E)
        /\ FirstSlot(x.slots) \in [Entry -> Int] /\ More(x.total) \in [Entry -> Int]
    BY TopKeys, Zenon DEF HeapsHold
  <2>2. /\ x.t.pos[e] \in 1 .. Len(x.t.h) /\ x.t.h[x.t.pos[e]] = e
        /\ x.n.pos[e] \in 1 .. Len(x.n.h) /\ x.n.h[x.n.pos[e]] = e
    <3>1. Placed(x.t, E) /\ Placed(x.n, E)
      BY <2>1, Zenon DEF InHeap
    <3>. QED  BY <3>1, AtItsPlace, Zenon
  <2>3. InHeap(T, FirstSlot(x.slots), E \ {e})
    <3>1. InHeap(T, FirstSlot(x.slots), E \ {x.t.h[x.t.pos[e]]})
      BY <2>1, <2>2, RemoveHeap, Zenon
    <3>. QED  BY <2>2, <3>1, Zenon
  <2>4. InHeap(N, More(x.total), E \ {e})
    <3>1. InHeap(N, More(x.total), E \ {x.n.h[x.n.pos[e]]})
      BY <2>1, <2>2, RemoveHeap, Zenon
    <3>. QED  BY <2>2, <3>1, Zenon
  <2>5. y = [x EXCEPT !.t = T, !.n = N]
    BY Zenon DEF Taken
  <2> HIDE DEF T, N, y
  <2>6. T \in HeapSet /\ N \in HeapSet
    BY <2>3, <2>4, Zenon DEF InHeap, Placed
  <2>7. /\ y \in TopState /\ y.m = x.m /\ y.slots = x.slots /\ y.total = x.total /\ y.ok = x.ok
        /\ y.t = T /\ y.n = N
    BY <2>5, <2>6, Zenon DEF TopState
  <2>8. HeapsHold(y, E \ {e})
    BY <2>3, <2>4, <2>7, Zenon DEF HeapsHold
  <2>9. HeapsMoved(x, y, E \ {e})
    BY <2>7, <2>8, Zenon DEF HeapsMoved
  <2>. QED  BY <2>2, <2>9, Zenon DEF y, AtItsIndex
<1> DEFINE E == KnownIn(x.m)
           y == Taken(x, e)
<1>1. /\ x \in TopState /\ x.ok /\ MapRight(x.m) /\ HeapsHold(x, E)
      /\ \A f \in Entry : SlotsRight(x, f) /\ (f \in KnownIn(x.m) <=> x.slots[f] # <<>>)
  BY Zenon DEF TopHolds, TopRight
<1>2. HeapsMoved(x, y, E \ {e}) /\ AtItsIndex(x.t, e) /\ AtItsIndex(x.n, e)
  BY <1>1, <1>TakenIs, Zenon
<1> HIDE DEF y
<1>3. /\ y \in TopState /\ y.m = x.m /\ y.slots = x.slots /\ y.total = x.total /\ y.ok = x.ok
      /\ HeapsHold(y, E \ {e})
  BY <1>2, Zenon DEF HeapsMoved
<1>4. \A f \in Entry : SlotsRight(y, f)
  BY <1>1, <1>3, Zenon DEF SlotsRight
<1>5. TopHolds(y, E \ {e})
  BY <1>1, <1>3, <1>4, Zenon DEF TopHolds
<1>. QED  BY <1>2, <1>5, Zenon DEF y

(* What Mark has to make of x. *)
MarkedTop(x, y, a, z) ==
  /\ TopRight(y)
  /\ y.m = Put(x.m, a, ObjectOf(a))
  /\ \A f \in Entry : f # ObjectOf(a) => y.slots[f] = x.slots[f] /\ y.total[f] = x.total[f]
  /\ y.slots[ObjectOf(a)] = Marked(x.slots[ObjectOf(a)], z)
  /\ y.total[ObjectOf(a)] = x.total[ObjectOf(a)] + 1

LEMMA MarkIs ==
  ASSUME NEW x, TopRight(x), NEW a \in App, NEW z \in Time
  PROVE  /\ x.m[a] = none => MarkedTop(x, PutBack(WithMark(x, ObjectOf(a), z), ObjectOf(a)), a, z)
         /\ x.m[a] # none =>
              /\ AtItsIndex(x.t, ObjectOf(a)) /\ AtItsIndex(x.n, ObjectOf(a))
              /\ MarkedTop(x, PutBack(WithMark(Taken(x, ObjectOf(a)), ObjectOf(a), z), ObjectOf(a)), a, z)
<1>MarkOutside.
  ASSUME NEW x0, a \in App, TopHolds(x0, KnownIn(x0.m) \ {ObjectOf(a)}), z \in Time
  PROVE  MarkedTop(x0, PutBack(WithMark(x0, ObjectOf(a), z), ObjectOf(a)), a, z)
  <2> USE <1>MarkOutside
  <2> DEFINE e == ObjectOf(a)
             E == KnownIn(x0.m) \ {e}
             s == x0.slots[e]
             r == Marked(s, z)
             y == WithMark(x0, e, z)
             u == PutBack(y, e)
  <2>1. /\ x0 \in TopState /\ x0.ok /\ MapRight(x0.m)
        /\ \A f \in Entry : SlotsRight(x0, f) /\ (f \in KnownIn(x0.m) <=> x0.slots[f] # <<>>)
    BY Zenon DEF TopHolds
  <2>2. /\ x0.m \in [App -> Entry \cup {none}] /\ x0.slots \in [Entry -> Seq(SlotSet)]
        /\ x0.total \in [Entry -> Nat]
    BY <2>1 DEF TopState
  <2>3. e \in Entry /\ e.ApplicationId = a /\ e # none
    BY ObjectFacts, Zenon
  <2>4. s \in Seq(SlotSet) /\ InTime(s) /\ x0.total[e] \in Nat /\ x0.total[e] = RequestsIn(s, Len(s))
    BY <2>1, <2>2, <2>3, Zenon DEF SlotsRight
  <2>5. r \in Seq(SlotSet) /\ r # <<>> /\ InTime(r) /\ RequestsIn(r, Len(r)) = RequestsIn(s, Len(s)) + 1
    <3>1. OneMore(s, r, GoesTo(s, z))
      BY <2>4, MarkedIs, Zenon
    <3>. QED  BY <3>1, Zenon DEF OneMore
  <2>6. y = [x0 EXCEPT !.slots = [x0.slots EXCEPT ![e] = r], !.total = [x0.total EXCEPT ![e] = x0.total[e] + 1],
                      !.m = [x0.m EXCEPT ![a] = e]]
    BY <2>3, Zenon DEF WithMark
  <2> DEFINE S == [x0.slots EXCEPT ![e] = r]
             N == [x0.total EXCEPT ![e] = x0.total[e] + 1]
             M == [x0.m EXCEPT ![a] = e]
  <2> HIDE DEF y, u, r, e
  <2>7. /\ S \in [Entry -> Seq(SlotSet)] /\ S[e] = r /\ \A f \in Entry : f # e => S[f] = x0.slots[f]
    BY <2>2, <2>3, <2>5, Zenon
  <2>8. /\ N \in [Entry -> Nat] /\ N[e] = x0.total[e] + 1 /\ \A f \in Entry : f # e => N[f] = x0.total[f]
    <3>1. x0.total[e] + 1 \in Nat
      BY <2>4
    <3>. QED  BY <2>2, <2>3, <3>1, Zenon
  <2>9. M \in [App -> Entry \cup {none}]
    BY <2>2, <2>3, Zenon
  <2> HIDE DEF S, N, M
  <2>10. /\ y \in TopState /\ y.ok = x0.ok /\ y.t = x0.t /\ y.n = x0.n
         /\ y.slots = S /\ y.total = N /\ y.m = M
    <3>1. y = [x0 EXCEPT !.slots = S, !.total = N, !.m = M]
      BY <2>6, Zenon DEF S, N, M
    <3>. QED  BY <2>1, <2>7, <2>8, <2>9, <3>1, ZenonT(30) DEF TopState
  <2>11. SlotsRight(y, e)
    BY <2>4, <2>5, <2>7, <2>8, <2>10, Zenon DEF SlotsRight
  <2>12. TopHolds(y, E) /\ KnownIn(y.m) = KnownIn(x0.m) \cup {e}
    <3>1. Elsewhere(x0, y, e)
      BY <2>7, <2>8, <2>10, Zenon DEF Elsewhere
    <3>2. E \in SUBSET Entry /\ e \notin E /\ y.m = Put(x0.m, a, e)
      BY <2>1, <2>10, KnownFacts, Zenon DEF M, Put
    <3>3. e # none <=> y.slots[e] # <<>>
      BY <2>3, <2>5, <2>7, <2>10, Zenon
    <3>4. e \in {none, e} /\ e = ObjectOf(a) /\ TopHolds(x0, E)
      BY Zenon DEF e
    <3> HIDE DEF E
    <3>5. /\ TopHolds(y, E)
          /\ KnownIn(y.m) = KnownOf(x0.m, a, e)
      BY <2>10, <2>11, <3>1, <3>2, <3>3, <3>4, ElsewhereKeeps, Zenon
    <3>. QED  BY <2>3, <3>4, <3>5, Zenon DEF KnownOf
  <2>13. TopRight(u) /\ HeapsMoved(y, u, KnownIn(y.m))
    <3>1. KnownIn(y.m) \ {e} = E /\ e \in KnownIn(y.m)
      BY <2>12, Zenon
    <3>2. TopHolds(y, KnownIn(y.m) \ {e})
      BY <2>12, <3>1, Zenon
    <3>. QED  BY <3>1, <3>2, BackIn, Zenon DEF u
  <2>14. u.m = M /\ u.slots = S /\ u.total = N
    BY <2>10, <2>13, Zenon DEF HeapsMoved
  <2>. QED  BY <2>7, <2>8, <2>13, <2>14, Zenon DEF MarkedTop, e, r, M, u, y, Put
<1> DEFINE e == ObjectOf(a)
           E == KnownIn(x.m)
           y == Taken(x, e)
<1>1. TopHolds(x, E) /\ MapRight(x.m)
  BY Zenon DEF TopRight, TopHolds
<1>2. x.m[a] # none <=> e \in E
  BY <1>1, KnownFacts, Zenon
<1>3. CASE x.m[a] = none
  <2>1. E \ {e} = E
    BY <1>2, <1>3, Zenon
  <2>2. TopHolds(x, E \ {e})
    BY <1>1, <2>1, Zenon
  <2>. QED  BY <1>3, <2>2, <1>MarkOutside, Zenon
<1>4. CASE x.m[a] # none
  <2>1. e \in E
    BY <1>2, <1>4, Zenon
  <2>2. TopHolds(y, E \ {e}) /\ HeapsMoved(x, y, E \ {e}) /\ AtItsIndex(x.t, e) /\ AtItsIndex(x.n, e)
    BY <2>1, TakenOut, Zenon
  <2>3. y.m = x.m /\ y.slots = x.slots /\ y.total = x.total
    BY <2>2, Zenon DEF HeapsMoved
  <2> HIDE DEF y
  <2>4. TopHolds(y, KnownIn(y.m) \ {e})
    BY <2>2, <2>3, Zenon
  <2>5. MarkedTop(y, PutBack(WithMark(y, e, z), e), a, z)
    BY <2>4, <1>MarkOutside, Zenon
  <2>6. MarkedTop(x, PutBack(WithMark(y, e, z), e), a, z)
    BY <2>3, <2>5, Zenon DEF MarkedTop
  <2>. QED  BY <1>4, <2>2, <2>6, Zenon DEF y
<1>. QED  BY <1>3, <1>4, Zenon

OneMoreAt(f, g, w) == g[w] = f[w] + 1 /\ \A z \in Time : z # w => g[z] = f[z]

(* The slots and the history count one request more. *)
LEMMA MarkCounted ==
  ASSUME NEW s \in Seq(SlotSet), NEW r, NEW w, OneMore(s, r, w), NEW c \in Int,
         NEW f \in [Time -> Nat], CountedIn(s, f, c),
         NEW g \in [Time -> Nat], OneMoreAt(f, g, w)
  PROVE  CountedIn(r, g, c)
<1>0. g[w] = f[w] + 1 /\ \A z \in Time : z # w => g[z] = f[z]
  BY Zenon DEF OneMoreAt
<1>1. /\ r \in Seq(SlotSet) /\ w \in Time
      /\ \A k \in 1 .. Len(s) : s[k].t # w => HasSlot(r, s[k].t, s[k].n)
  BY Zenon DEF OneMore
<1>2. PICK n \in Nat :
        /\ n = 0 \/ HasSlot(s, w, n)
        /\ \A k \in 1 .. Len(s) : s[k].t = w => s[k].n = n
        /\ HasSlot(r, w, n + 1)
        /\ \A k \in 1 .. Len(r) : HasSlot(s, r[k].t, r[k].n) \/ (r[k].t = w /\ r[k].n = n + 1)
  BY Zenon DEF OneMore
<1>3. /\ \A k \in 1 .. Len(s) : s[k].n <= f[s[k].t]
      /\ \A z \in Time : z > c /\ f[z] > 0 => HasSlot(s, z, f[z])
  BY Zenon DEF CountedIn
<1>4. f[w] \in Nat /\ g[w] \in Nat
  BY <1>1, Zenon
<1>5. n <= f[w]
  <2>1. CASE n = 0
    BY <1>4, <2>1
  <2>2. CASE HasSlot(s, w, n)
    BY <1>3, <2>2, Zenon DEF HasSlot
  <2>. QED  BY <1>2, <2>1, <2>2, Zenon
<1>6. ASSUME NEW k \in 1 .. Len(r) PROVE r[k].n <= g[r[k].t]
  <2>1. CASE HasSlot(s, r[k].t, r[k].n)
    <3>1. r[k].n <= f[r[k].t]
      BY <1>3, <2>1, Zenon DEF HasSlot
    <3>2. r[k].t \in Time /\ r[k].n \in Nat
      BY <1>1, SlotFacts, Zenon
    <3>3. CASE r[k].t = w
      <4>1. r[k].n <= f[w] /\ r[k].n \in Nat
        BY <3>1, <3>2, <3>3, Zenon
      <4>2. r[k].n <= g[w]
        BY <1>0, <1>4, <4>1
      <4>. QED  BY <3>3, <4>2, Zenon
    <3>4. CASE r[k].t # w
      BY <1>0, <3>1, <3>2, <3>4, Zenon
    <3>. QED  BY <3>3, <3>4, Zenon
  <2>2. CASE r[k].t = w /\ r[k].n = n + 1
    <3>1. n + 1 <= g[w]
      BY <1>0, <1>4, <1>5
    <3>. QED  BY <2>2, <3>1, Zenon
  <2>. QED  BY <1>2, <2>1, <2>2, Zenon
<1>7. ASSUME NEW z \in Time, z > c, g[z] > 0 PROVE HasSlot(r, z, g[z])
  <2>1. CASE z = w
    <3>1. n = f[w]
      <4>1. CASE f[w] > 0
        <5>1. HasSlot(s, w, f[w])
          BY <1>3, <1>7, <2>1, <4>1, Zenon
        <5>. QED  BY <1>2, <5>1, Zenon DEF HasSlot
      <4>2. CASE ~(f[w] > 0)
        BY <1>4, <1>5, <4>2
      <4>. QED  BY <4>1, <4>2, Zenon
    <3>2. n + 1 = g[w]
      BY <1>0, <3>1, Zenon
    <3>. QED  BY <1>2, <2>1, <3>2, Zenon
  <2>2. CASE z # w
    <3>1. g[z] = f[z] /\ HasSlot(s, z, f[z])
      <4>1. g[z] = f[z]
        BY <1>0, <2>2, Zenon
      <4>. QED  BY <1>3, <1>7, <4>1, Zenon
    <3>2. PICK k \in 1 .. Len(s) : s[k].t = z /\ s[k].n = f[z]
      BY <3>1, Zenon DEF HasSlot
    <3>. QED  BY <1>1, <2>2, <3>1, <3>2, Zenon
  <2>. QED  BY <2>1, <2>2, Zenon
<1>. QED  BY <1>6, <1>7, Zenon DEF CountedIn
=============================================================================
