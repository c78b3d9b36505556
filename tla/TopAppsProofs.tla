--------------------------- MODULE TopAppsProofs ----------------------------
(*****************************************************************************)
(* Proofs about TopApps, for any set of applications, any lifetimes, any     *)
(* length of the list and any bounds on time and responses.  What the heaps  *)
(* and the operators of TopApps do is proved in AppHeapProofs.               *)
(*****************************************************************************)
EXTENDS AppHeapProofs

-----------------------------------------------------------------------------
(* Trim. *)

(* What trim has to make of the entry e, which is in no heap. *)
Shortens(x, y, e, z) ==
  /\ TopHolds(y, KnownIn(y.m) \ {e})
  /\ SameEntries(x, y, Entry \ {e})
  /\ KnownIn(y.m) \ {e} = KnownIn(x.m) \ {e} /\ KnownIn(y.m) \subseteq KnownIn(x.m)
  /\ Kept1(x.slots[e], y.slots[e], z)
  /\ \A k \in 1 .. Len(y.slots[e]) : y.slots[e][k].t > z
  /\ y.total[e] <= x.total[e]

LEMMA ShorterIs ==
  ASSUME NEW x, NEW e \in KnownIn(x.m), TopHolds(x, KnownIn(x.m) \ {e}), NEW z \in Int
  PROVE  Shortens(x, Shorter(x, e, z), e, z)
<1> DEFINE E == KnownIn(x.m) \ {e}
           s == x.slots[e]
           i == Gone(s, z)
           r == After(s, z)
           a == e.ApplicationId
           v == IF r = <<>> THEN none ELSE x.m[a]
           y == Shorter(x, e, z)
<1>1. /\ x \in TopState /\ x.ok /\ MapRight(x.m)
      /\ \A f \in Entry : SlotsRight(x, f) /\ (f \in KnownIn(x.m) <=> x.slots[f] # <<>>)
  BY Zenon DEF TopHolds
<1>2. /\ x.m \in [App -> Entry \cup {none}] /\ x.slots \in [Entry -> Seq(SlotSet)]
      /\ x.total \in [Entry -> Nat]
  BY <1>1 DEF TopState
<1>3. e \in Entry /\ a \in App /\ e = ObjectOf(a) /\ x.m[a] = e /\ e # none
  <2>1. e \in Entry /\ a \in App /\ e = ObjectOf(a) /\ x.m[a] = e
    BY <1>1, KnownFacts, Zenon
  <2>. QED  BY <2>1, TopAssumption, Zenon
<1>4. s \in Seq(SlotSet) /\ InTime(s) /\ x.total[e] \in Nat /\ x.total[e] = RequestsIn(s, Len(s))
  BY <1>1, <1>2, <1>3, Zenon DEF SlotsRight
<1>5. Cut(s, r, i, z)
  BY <1>4, AfterIs, Zenon
<1>6. y = [x EXCEPT !.slots = [x.slots EXCEPT ![e] = r],
                    !.total = [x.total EXCEPT ![e] = x.total[e] - RequestsIn(s, i)],
                    !.m = [x.m EXCEPT ![a] = v]]
  BY Zenon DEF Shorter
<1> DEFINE c == x.total[e] - RequestsIn(s, i)
<1>7. c \in Nat /\ c = RequestsIn(r, Len(r)) /\ c <= x.total[e]
  <2>1. /\ RequestsIn(s, i) \in Nat /\ RequestsIn(s, i) + RequestsIn(r, Len(r)) = RequestsIn(s, Len(s))
        /\ r \in Seq(SlotSet)
    BY <1>5, Zenon DEF Cut
  <2>2. RequestsIn(r, Len(r)) \in Nat
    <3>1. AddsUp(r) /\ Len(r) \in 0 .. Len(r)
      <4>1. Len(r) \in Nat
        BY <2>1, CountsAre, Zenon
      <4>2. Len(r) \in 0 .. Len(r)
        BY <4>1
      <4>. QED  BY <2>1, <4>2, SlotsAddUp, Zenon
    <3>. QED  BY <3>1, Zenon DEF AddsUp
  <2> HIDE DEF r, i, s
  <2>. QED  BY <1>4, <2>1, <2>2
<1>8. v \in {none, e} /\ (v # none <=> r # <<>>)
  BY <1>3, Zenon
<1> DEFINE S == [x.slots EXCEPT ![e] = r]
           N == [x.total EXCEPT ![e] = c]
           M == [x.m EXCEPT ![a] = v]
<1> HIDE DEF y, r, i, v, a, c
<1>9. S \in [Entry -> Seq(SlotSet)] /\ S[e] = r /\ \A f \in Entry : f # e => S[f] = x.slots[f]
  <2>1. r \in Seq(SlotSet)
    BY <1>5, Zenon DEF Cut
  <2>. QED  BY <1>2, <1>3, <2>1, Zenon
<1>10. N \in [Entry -> Nat] /\ N[e] = c /\ \A f \in Entry : f # e => N[f] = x.total[f]
  BY <1>2, <1>3, <1>7, Zenon
<1>11. M \in [App -> Entry \cup {none}]
  BY <1>2, <1>3, <1>8, Zenon
<1> HIDE DEF S, N, M
<1>12. /\ y \in TopState /\ y.ok = x.ok /\ y.t = x.t /\ y.n = x.n
       /\ y.slots = S /\ y.total = N /\ y.m = M
  <2>1. y = [x EXCEPT !.slots = S, !.total = N, !.m = M]
    BY <1>6, Zenon DEF S, N, M, c
  <2>. QED  BY <1>1, <1>9, <1>10, <1>11, <2>1, ZenonT(30) DEF TopState
<1>13. SlotsRight(y, e)
  <2>1. InTime(r)
    BY <1>5, Zenon DEF Cut
  <2>. QED  BY <1>7, <1>9, <1>10, <1>12, <2>1, Zenon DEF SlotsRight
<1>14. TopHolds(y, E) /\ KnownIn(y.m) = KnownOf(x.m, a, v)
  <2>1. Elsewhere(x, y, ObjectOf(a))
    BY <1>3, <1>9, <1>10, <1>12, Zenon DEF Elsewhere
  <2>2. E \in SUBSET Entry /\ ObjectOf(a) \notin E /\ y.m = Put(x.m, a, v)
    BY <1>1, <1>3, <1>12, KnownFacts, Zenon DEF M, Put
  <2>3. v # none <=> y.slots[ObjectOf(a)] # <<>>
    BY <1>3, <1>8, <1>9, <1>12, Zenon
  <2>4. v \in {none, ObjectOf(a)} /\ TopHolds(x, E) /\ SlotsRight(y, ObjectOf(a)) /\ a \in App
    BY <1>3, <1>8, <1>13, Zenon
  <2>5. y.t = x.t /\ y.n = x.n
    BY <1>12, Zenon
  <2> HIDE DEF E
  <2>. QED  BY <2>1, <2>2, <2>3, <2>4, <2>5, ElsewhereKeeps, Zenon
<1>15. KnownIn(y.m) \ {e} = E /\ KnownIn(y.m) \subseteq KnownIn(x.m)
  <2>1. CASE v = none
    <3>1. KnownIn(y.m) = E
      BY <1>3, <1>14, <2>1, Zenon DEF KnownOf
    <3>. QED  BY <3>1, Zenon
  <2>2. CASE v # none
    <3>1. KnownIn(y.m) = KnownIn(x.m)
      BY <1>3, <1>14, <2>2, Zenon DEF KnownOf
    <3>. QED  BY <3>1, Zenon
  <2>. QED  BY <2>1, <2>2, Zenon
<1>16. SameEntries(x, y, Entry \ {e})
  BY <1>9, <1>10, <1>12, Zenon DEF SameEntries
<1>17. TopHolds(y, KnownIn(y.m) \ {e})
  BY <1>14, <1>15, Zenon
<1>18. y.slots[e] = r /\ y.total[e] <= x.total[e]
  BY <1>7, <1>9, <1>10, <1>12, Zenon
<1>19. Kept1(s, r, z) /\ \A k \in 1 .. Len(r) : r[k].t > z
  BY <1>5, Zenon DEF Cut
<1>. QED  BY <1>15, <1>16, <1>17, <1>18, <1>19, Zenon DEF Shortens, y

(* What trim may do to x as long as it runs. *)
Trims(x, y, z) ==
  /\ KnownIn(y.m) \subseteq KnownIn(x.m)
  /\ \A e \in Entry : Kept1(x.slots[e], y.slots[e], z) /\ y.total[e] <= x.total[e]

AllAfter(x, z) == \A e \in KnownIn(x.m) : x.slots[e][1].t > z

(* The entries that trim still has to handle. *)
Old(x, z) == {e \in KnownIn(x.m) : ~(x.slots[e][1].t > z)}

(* S has at most n elements: a list of length n has them all. *)
AtMost(S, n) ==
  n \in Nat /\ \E f \in [1 .. n -> Entry] : \A e \in S : \E k \in 1 .. n : f[k] = e

TopTrimState == [top : TopState, done : BOOLEAN]

(* After k iterations for w: nothing is left to do, or there are at most n - k
   entries to handle. *)
TopTrimGood(w, z, n, k, s) ==
  /\ TopRight(s.top) /\ Trims(w, s.top, z)
  /\ AllAfter(s.top, z) \/ (~s.done /\ AtMost(Old(s.top, z), n - k))

LEMMA TopTrimKeeps ==
  ASSUME NEW w \in TopState, NEW z \in Int, NEW n \in Nat, NEW k \in Nat, NEW s \in TopTrimState,
         TopTrimGood(w, z, n, k, s)
  PROVE  TopTrimStep(s, z) \in TopTrimState /\ TopTrimGood(w, z, n, k + 1, TopTrimStep(s, z))
(* Trim goes on with one entry. *)
<1>OneLess.
  ASSUME NEW S, NEW n0 \in Int, NEW e \in S, AtMost(S, n0), NEW R, R = S \ {e}
  PROVE  AtMost(R, n0 - 1)
  <2> USE <1>OneLess
  <2>1. n0 \in Nat
    BY Zenon DEF AtMost
  <2>2. PICK f \in [1 .. n0 -> Entry] : \A d \in S : \E k00 \in 1 .. n0 : f[k00] = d
    BY Zenon DEF AtMost
  <2>3. PICK i \in 1 .. n0 : f[i] = e
    BY <2>2, Zenon
  <2>4. /\ n0 - 1 \in Nat /\ n0 \in 1 .. n0
        /\ i # n0 => i \in 1 .. (n0 - 1)
        /\ \A k00 \in 1 .. n0 : k00 = n0 \/ k00 \in 1 .. (n0 - 1)
        /\ \A k00 \in 1 .. (n0 - 1) : k00 \in 1 .. n0
    BY <2>1, <2>3
  <2> DEFINE g == [k00 \in 1 .. (n0 - 1) |-> IF k00 = i THEN f[n0] ELSE f[k00]]
  <2>5. g \in [1 .. (n0 - 1) -> Entry] /\ \A k00 \in 1 .. (n0 - 1) : g[k00] = IF k00 = i THEN f[n0] ELSE f[k00]
    BY <2>4, Zenon
  <2> HIDE DEF g
  <2>6. ASSUME NEW d \in R PROVE \E k00 \in 1 .. (n0 - 1) : g[k00] = d
    <3>1. PICK k00 \in 1 .. n0 : f[k00] = d
      BY <2>2, <2>6, Zenon
    <3>2. k00 # i
      BY <2>3, <2>6, <3>1, Zenon
    <3>3. CASE k00 = n0
      BY <2>4, <2>5, <3>1, <3>2, <3>3, Zenon
    <3>4. CASE k00 \in 1 .. (n0 - 1)
      BY <2>5, <3>1, <3>2, <3>4, Zenon
    <3>. QED  BY <2>4, <3>3, <3>4, Zenon
  <2>. QED  BY <2>4, <2>5, <2>6, Zenon DEF AtMost
<1>TrimsOn.
  ASSUME w \in TopState, NEW x \in TopState, NEW y \in TopState, NEW e \in Entry, Trims(w, x, z), Shortens(x, y, e, z)
  PROVE  Trims(w, y, z)
  <2> USE <1>TrimsOn
  <2>KeptTwice.
    ASSUME NEW s0, NEW r, NEW q, Kept1(s0, r, z), Kept1(r, q, z)
    PROVE  Kept1(s0, q, z)
    <3> USE <2>KeptTwice
    <3>1. ASSUME NEW k0 \in 1 .. Len(q) PROVE HasSlot(s0, q[k0].t, q[k0].n)
      <4>1. PICK j \in 1 .. Len(r) : r[j].t = q[k0].t /\ r[j].n = q[k0].n
        BY Zenon DEF Kept1, HasSlot
      <4>2. HasSlot(s0, r[j].t, r[j].n)
        BY Zenon DEF Kept1
      <4>. QED  BY <4>1, <4>2, Zenon
    <3>2. ASSUME NEW k0 \in 1 .. Len(s0), s0[k0].t > z PROVE HasSlot(q, s0[k0].t, s0[k0].n)
      <4>1. PICK j \in 1 .. Len(r) : r[j].t = s0[k0].t /\ r[j].n = s0[k0].n
        BY <3>2, Zenon DEF Kept1, HasSlot
      <4>2. r[j].t > z
        BY <3>2, <4>1, Zenon
      <4>3. HasSlot(q, r[j].t, r[j].n)
        BY <4>2, Zenon DEF Kept1
      <4>. QED  BY <4>1, <4>3, Zenon
    <3>. QED  BY <3>1, <3>2, Zenon DEF Kept1
  <2>1. ASSUME NEW f \in Entry PROVE Kept1(w.slots[f], y.slots[f], z) /\ y.total[f] <= w.total[f]
    <3>1. Kept1(w.slots[f], x.slots[f], z) /\ x.total[f] <= w.total[f]
      BY Zenon DEF Trims
    <3>2. CASE f = e
      <4>1. Kept1(x.slots[f], y.slots[f], z) /\ y.total[f] <= x.total[f]
        BY <3>2, Zenon DEF Shortens
      <4>2. Kept1(w.slots[f], y.slots[f], z)
        BY <3>1, <4>1, <2>KeptTwice, Zenon
      <4>3. w.total[f] \in Nat /\ x.total[f] \in Nat /\ y.total[f] \in Nat
        BY DEF TopState
      <4>4. y.total[f] <= w.total[f]
        BY <3>1, <4>1, <4>3
      <4>. QED  BY <4>2, <4>4, Zenon
    <3>3. CASE f # e
      <4>1. y.slots[f] = x.slots[f] /\ y.total[f] = x.total[f]
        BY <3>3, Zenon DEF Shortens, SameEntries
      <4>. QED  BY <3>1, <4>1, Zenon
    <3>. QED  BY <3>2, <3>3, Zenon
  <2>2. KnownIn(y.m) \subseteq KnownIn(w.m)
    BY Zenon DEF Trims, Shortens
  <2>. QED  BY <2>1, <2>2, Zenon DEF Trims
<1> DEFINE q == TopTrimStep(s, z)
           x == s.top
           e == x.t.h[1]
           E == KnownIn(x.m)
<1>1. /\ TopRight(x) /\ Trims(w, x, z)
      /\ AllAfter(x, z) \/ (~s.done /\ AtMost(Old(x, z), n - k))
  BY Zenon DEF TopTrimGood
<1>2. /\ x \in TopState /\ s.done \in BOOLEAN /\ MapRight(x.m)
      /\ InHeap(x.t, FirstSlot(x.slots), E) /\ Placed(x.t, E)
      /\ \A f \in Entry : f \in E <=> x.slots[f] # <<>>
  <2>1. s.done \in BOOLEAN
    BY DEF TopTrimState
  <2>. QED  BY <1>1, <2>1, Zenon DEF TopRight, TopHolds, HeapsHold, InHeap
<1>3. CASE s.done \/ x.t.h = <<>>
  <2>1. q = s
    BY <1>3, Zenon DEF TopTrimStep
  <2>2. AllAfter(x, z)
    <3>1. CASE x.t.h = <<>>
      <4>1. Len(x.t.h) <= 0
        BY <3>1
      <4>2. E = {}
        BY <1>2, <4>1, NoneLeft, Zenon
      <4>. QED  BY <4>2, Zenon DEF AllAfter
    <3>2. CASE s.done
      BY <1>1, <3>2, Zenon
    <3>. QED  BY <1>3, <3>1, <3>2, Zenon
  <2>. QED  BY <1>1, <2>1, <2>2, Zenon DEF TopTrimGood
<1>4. CASE ~s.done /\ x.t.h # <<>>
  <2>1. e \in E
    <3>1. 1 \in 1 .. Len(x.t.h)
      <4>1. Len(x.t.h) \in Nat /\ x.t.h \in Seq(Entry)
        BY <1>2 DEF TopState, HeapSet
      <4>. QED  BY <1>4, <4>1
    <3>. QED  BY <1>2, <3>1, Zenon DEF Placed
  <2> DEFINE u == Taken(x, e)
  <2>2. /\ TopHolds(u, E \ {e}) /\ AtItsIndex(x.n, e)
        /\ u \in TopState /\ u.m = x.m /\ u.slots = x.slots /\ u.total = x.total
    <3>1. TopHolds(u, E \ {e}) /\ HeapsMoved(x, u, E \ {e}) /\ AtItsIndex(x.n, e)
      BY <1>1, <2>1, TakenOut, Zenon
    <3>. QED  BY <3>1, Zenon DEF HeapsMoved
  <2>3. e \in Entry /\ TopHolds(u, KnownIn(u.m) \ {e}) /\ e \in KnownIn(u.m)
    BY <1>2, <2>1, <2>2, KnownFacts, Zenon
  <2>4. CASE x.slots[e][1].t > z
    <3> DEFINE y == PutBack(u, e)
    <3>1. q = [top |-> y, done |-> TRUE]
      BY <1>4, <2>2, <2>4, Zenon DEF TopTrimStep
    <3> HIDE DEF u
    <3>2. TopRight(y) /\ HeapsMoved(u, y, KnownIn(u.m))
      BY <2>3, BackIn, Zenon
    <3> HIDE DEF y
    <3>3. y \in TopState /\ y.m = x.m /\ y.slots = x.slots /\ y.total = x.total
      BY <2>2, <3>2, Zenon DEF HeapsMoved
    <3>4. ASSUME NEW f \in E PROVE x.slots[f][1].t > z
      <4> DEFINE K == FirstSlot(x.slots)
      <4>1. K \in [Entry -> Int] /\ f \in Entry
        BY <1>2, <3>4, KnownFacts, TopKeys, Zenon
      <4>2. K[e] = x.slots[e][1].t /\ K[f] = x.slots[f][1].t
        <5>1. x.slots[e] # <<>> /\ x.slots[f] # <<>>
          BY <1>2, <2>1, <2>3, <3>4, <4>1, Zenon
        <5>. QED  BY <1>2, <2>3, <4>1, <5>1, TopKeys, Zenon
      <4> HIDE DEF K
      <4>3. K[e] <= K[f]
        BY <1>2, <3>4, <4>1, FirstIsLeast, Zenon DEF K
      <4>4. K[e] \in Int /\ K[f] \in Int /\ K[e] > z
        BY <2>3, <2>4, <4>1, <4>2, Zenon
      <4>5. K[f] > z
        <5> HIDE DEF e
        <5>. QED  BY <4>3, <4>4
      <4>. QED  BY <4>2, <4>5, Zenon
    <3>5. AllAfter(y, z)
      BY <3>3, <3>4, Zenon DEF AllAfter
    <3>6. Trims(w, y, z)
      BY <1>1, <3>3, Zenon DEF Trims
    <3> HIDE DEF q
    <3>7. q.top = y /\ q \in TopTrimState
      BY <3>1, <3>3 DEF TopTrimState
    <3>. QED  BY <3>2, <3>5, <3>6, <3>7, Zenon DEF TopTrimGood, q
  <2>5. CASE ~(x.slots[e][1].t > z)
    <3> DEFINE y == Shorter(u, e, z)
               v == IF y.slots[e] = <<>> THEN y ELSE PutBack(y, e)
    <3>1. Shortens(u, y, e, z)
      <4> HIDE DEF u, e
      <4>. QED  BY <2>3, ShorterIs, Zenon
    <3>2. /\ TopHolds(y, KnownIn(y.m) \ {e}) /\ y \in TopState
          /\ SameEntries(u, y, Entry \ {e}) /\ KnownIn(y.m) \ {e} = E \ {e} /\ KnownIn(y.m) \subseteq E
          /\ \A j \in 1 .. Len(y.slots[e]) : y.slots[e][j].t > z
          /\ (e \in KnownIn(y.m) <=> y.slots[e] # <<>>)
      <4> HIDE DEF y, u, e
      <4>1. /\ TopHolds(y, KnownIn(y.m) \ {e}) /\ SameEntries(u, y, Entry \ {e})
            /\ KnownIn(y.m) \ {e} = E \ {e} /\ KnownIn(y.m) \subseteq E
            /\ \A j \in 1 .. Len(y.slots[e]) : y.slots[e][j].t > z
        BY <2>2, <3>1, Zenon DEF Shortens
      <4>. QED  BY <2>3, <4>1, Zenon DEF TopHolds
    <3>3. y.slots[e] # <<>> => y.slots[e][1].t > z /\ ~(y.slots[e][1].t <= z)
      <4> HIDE DEF y, u, e
      <4>1. y.slots[e] \in Seq(SlotSet)
        BY <2>3, <3>2 DEF TopState
      <4>2. ASSUME y.slots[e] # <<>> PROVE 1 \in 1 .. Len(y.slots[e])
        BY <4>1, <4>2
      <4>3. ASSUME y.slots[e] # <<>> PROVE y.slots[e][1].t > z /\ y.slots[e][1].t \in Nat
        BY <3>2, <4>1, <4>2, <4>3, SlotFacts, Zenon
      <4>4. ASSUME NEW c \in Nat, c > z PROVE ~(c <= z)
        BY <4>4
      <4>. QED  BY <4>3, <4>4, Zenon
    <3>4. q = [top |-> v, done |-> FALSE]
      BY <1>4, <2>2, <2>5, <3>3, Zenon DEF TopTrimStep
    <3> HIDE DEF y, u, e
    <3>5. TopRight(v) /\ v \in TopState /\ v.m = y.m /\ v.slots = y.slots /\ v.total = y.total
      <4>1. CASE y.slots[e] = <<>>
        <5>1. KnownIn(y.m) \ {e} = KnownIn(y.m) /\ v = y
          BY <3>2, <4>1, Zenon
        <5>. QED  BY <3>2, <5>1, Zenon DEF TopRight
      <4>2. CASE y.slots[e] # <<>>
        <5>1. v = PutBack(y, e) /\ e \in KnownIn(y.m)
          BY <3>2, <4>2, Zenon
        <5>2. TopRight(v) /\ HeapsMoved(y, v, KnownIn(y.m))
          BY <3>2, <5>1, BackIn, Zenon
        <5>. QED  BY <5>2, Zenon DEF HeapsMoved
      <4>. QED  BY <4>1, <4>2, Zenon
    <3> HIDE DEF v
    <3>6. Trims(w, v, z)
      <4>1. Trims(w, u, z)
        BY <1>1, <2>2, Zenon DEF Trims
      <4>2. Trims(w, y, z)
        BY <2>2, <2>3, <3>1, <3>2, <4>1, <1>TrimsOn, Zenon
      <4>. QED  BY <3>5, <4>2, Zenon DEF Trims
    <3>7. Old(v, z) = Old(x, z) \ {e} /\ e \in Old(x, z)
      <4>1. \A f \in Entry : f # e => y.slots[f] = x.slots[f]
        BY <2>2, <3>2, Zenon DEF SameEntries
      <4>2. E \subseteq Entry
        BY <1>2, KnownFacts, Zenon
      <4>3. ASSUME NEW f PROVE f \in Old(v, z) <=> f \in Old(x, z) \ {e}
        <5>1. CASE f = e
          <6>1. f \notin Old(v, z)
            BY <3>2, <3>3, <3>5, <5>1, Zenon DEF Old
          <6>. QED  BY <5>1, <6>1, Zenon
        <5>2. CASE f # e
          <6>1. f \in KnownIn(v.m) <=> f \in E
            BY <3>2, <3>5, <5>2, Zenon
          <6>2. f \in E => v.slots[f] = x.slots[f]
            BY <3>5, <4>1, <4>2, <5>2, Zenon
          <6>. QED  BY <5>2, <6>1, <6>2, Zenon DEF Old
        <5>. QED  BY <5>1, <5>2, Zenon
      <4>4. e \in Old(x, z)
        BY <2>1, <2>5, Zenon DEF Old
      <4>. QED  BY <4>3, <4>4, Zenon
    <3>8. AtMost(Old(v, z), n - (k + 1))
      <4>1. AtMost(Old(x, z), n - k)
        BY <1>1, <2>1, <2>5, Zenon DEF AllAfter
      <4>2. n - k \in Int /\ (n - k) - 1 = n - (k + 1)
        OBVIOUS
      <4>3. AtMost(Old(v, z), (n - k) - 1)
        BY <3>7, <4>1, <4>2, <1>OneLess, Zenon
      <4>. QED  BY <4>2, <4>3, Zenon
    <3> HIDE DEF q
    <3>9. q.top = v /\ q.done = FALSE /\ q \in TopTrimState
      BY <3>4, <3>5 DEF TopTrimState
    <3>. QED  BY <3>5, <3>6, <3>8, <3>9, Zenon DEF TopTrimGood, q
  <2>. QED  BY <2>4, <2>5, Zenon
<1>. QED  BY <1>3, <1>4, Zenon

(* y is what trim has to make of x. *)
TopTrimmedRight(x, y, z) ==
  TopRight(y) /\ Trims(x, y, z) /\ AllAfter(y, z)

(* The loop ends with no entry left that has a slot up to z. *)
LEMMA TopTrimIs ==
  ASSUME NEW x, TopRight(x), NEW z \in Int
  PROVE  TopTrimmedRight(x, TopTrimmed(x, z), z)
(* A heap is a list of its entries. *)
<1>HeapAtMost.
  ASSUME NEW H, NEW E, Placed(H, E), NEW S, S \subseteq E
  PROVE  AtMost(S, Len(H.h))
  <2> USE <1>HeapAtMost
  <2> DEFINE n == Len(H.h)
             f == [k \in 1 .. n |-> H.h[k]]
  <2>1. n \in Nat /\ {H.h[k] : k \in 1 .. n} = E /\ \A k \in 1 .. n : H.h[k] \in Entry
    BY HeapTypes, Zenon DEF Placed
  <2>2. f \in [1 .. n -> Entry] /\ \A e \in S : \E k \in 1 .. n : f[k] = e
    BY <2>1, Zenon
  <2>. QED  BY <2>1, <2>2, Zenon DEF AtMost
<1>KeptSame.
  ASSUME NEW s
  PROVE  Kept1(s, s, z)
  BY Zenon DEF Kept1, HasSlot
<1> DEFINE b == Len(x.t.h)
           n == b + 1
           x0 == [top |-> x, done |-> FALSE]
           F == [y \in TopTrimState |-> TopTrimStep(y, z)]
           J == {p \in Nat \X TopTrimState : TopTrimGood(x, z, b, p[1], p[2])}
           Eq(f) == f = [k \in 0 .. n |-> IF k = 0 THEN x0 ELSE TopTrimStep(f[k - 1], z)]
           s == CHOOSE f : Eq(f)
<1>1. x \in TopState /\ Placed(x.t, KnownIn(x.m))
  BY Zenon DEF TopRight, TopHolds, HeapsHold, InHeap
<1>2. b \in Nat
  BY <1>1, HeapTypes, Zenon
<1>3. n \in Nat /\ b - 0 = b /\ n \in 0 .. n /\ 0 \in 0 .. n /\ \A k \in 1 .. n : k \in 0 .. n /\ k # 0
  <2> HIDE DEF b
  <2>. QED  BY <1>2
<1>4. x0 \in TopTrimState /\ x0.top = x /\ x0.done = FALSE
  BY <1>1 DEF TopTrimState
<1>5. <<0, x0>> \in J
  <2>1. TopTrimGood(x, z, b, 0, x0)
    <3> HIDE DEF x0, b
    <3>1. Trims(x, x, z)
      <4>1. \A e \in Entry : x.total[e] <= x.total[e]
        <5>1. \A e \in Entry : x.total[e] \in Nat
          BY <1>1 DEF TopState
        <5>. QED  BY <5>1
      <4>. QED  BY <4>1, <1>KeptSame, Zenon DEF Trims
    <3>2. Old(x, z) \subseteq KnownIn(x.m)
      BY Zenon DEF Old
    <3>3. AtMost(Old(x, z), b)
      BY <1>1, <3>2, <1>HeapAtMost, Zenon DEF b
    <3>. QED  BY <1>3, <1>4, <3>1, <3>3, Zenon DEF TopTrimGood
  <2> HIDE DEF x0
  <2>. QED  BY <1>4, <2>1
<1>6. \A k \in Nat : \A y : <<k, y>> \in J => y \in TopTrimState /\ TopTrimGood(x, z, b, k, y)
  <2> HIDE DEF x0
  <2>. QED  OBVIOUS
<1>7. ASSUME NEW k \in Nat, NEW y \in TopTrimState, <<k, y>> \in J
      PROVE  <<k + 1, F[y]>> \in J
  <2>1. TopTrimGood(x, z, b, k, y)
    BY <1>6, <1>7, Zenon
  <2>2. F[y] \in TopTrimState /\ TopTrimGood(x, z, b, k + 1, F[y])
    BY <1>1, <1>2, <2>1, TopTrimKeeps, Zenon
  <2> HIDE DEF F
  <2>. QED  BY <2>2
<1> HIDE DEF J, x0, n
<1>8. F = [y \in TopTrimState |-> TopTrimStep(y, z)]
  BY Zenon
<1> HIDE DEF F
<1>9. /\ \E f : Iterates(f, F, x0, n) /\ \A k \in 0 .. n : f[k] \in TopTrimState
      /\ \A f : Follows(f, F, TopTrimState, x0, n) => \A k \in 0 .. n : <<k, f[k]>> \in J
  <2>1. Keeps(J, TopTrimState, F)
    BY <1>6, <1>7, Zenon DEF Keeps
  <2>. QED  BY <1>3, <1>5, <2>1, Loop, Zenon
<1>10. \E f : Eq(f)
  <2>1. PICK f : /\ f = [k \in 0 .. n |-> IF k = 0 THEN x0 ELSE F[f[k - 1]]]
                 /\ \A k \in 0 .. n : f[k] \in TopTrimState
    BY <1>9, Zenon DEF Iterates
  <2>2. \A k \in 0 .. n : k = 0 \/ k - 1 \in 0 .. n
    BY <1>3
  <2>3. \A k \in 0 .. n : k # 0 => F[f[k - 1]] = TopTrimStep(f[k - 1], z)
    BY <1>8, <2>1, <2>2, Zenon
  <2>. QED  BY <2>1, <2>3, Zenon
<1>11. Eq(s)
  <2> HIDE DEF Eq
  <2>. QED  BY <1>10, Zenon
<1>12. TopTrimmed(x, z) = s[n].top
  BY Zenon DEF TopTrimmed, x0, n
<1> HIDE DEF s
<1>13. Follows(s, F, TopTrimState, x0, n)
  <2>1. s[0] = x0
    BY <1>3, <1>11, Zenon
  <2>2. \A k \in 1 .. n : s[k] = TopTrimStep(s[k - 1], z)
    BY <1>3, <1>11, Zenon
  <2>. QED  BY <1>8, <2>1, <2>2, Zenon DEF Follows
<1>14. s[n] \in TopTrimState /\ TopTrimGood(x, z, b, n, s[n])
  BY <1>3, <1>6, <1>9, <1>13, Zenon
<1>15. AllAfter(s[n].top, z)
  <2>1. SUFFICES ASSUME AtMost(Old(s[n].top, z), b - n) PROVE FALSE
    BY <1>14, Zenon DEF TopTrimGood
  <2>2. b - n \in Nat
    BY <2>1, Zenon DEF AtMost
  <2> HIDE DEF b
  <2>. QED  BY <1>2, <2>2 DEF n
<1>. QED  BY <1>12, <1>14, <1>15, Zenon DEF TopTrimGood, TopTrimmedRight

(* Then no slot up to z is left. *)
LEMMA TrimmedSlots ==
  ASSUME NEW x, NEW y, NEW z \in Int, TopTrimmedRight(x, y, z)
  PROVE  \A e \in Entry : \A k \in 1 .. Len(y.slots[e]) : y.slots[e][k].t > z
<1> SUFFICES ASSUME NEW e \in Entry, NEW k \in 1 .. Len(y.slots[e]) PROVE y.slots[e][k].t > z
  BY Zenon
<1> DEFINE s == y.slots[e]
<1>1. y \in TopState /\ InTime(s) /\ (e \in KnownIn(y.m) <=> s # <<>>)
  BY Zenon DEF TopTrimmedRight, TopRight, TopHolds, SlotsRight
<1>2. s \in Seq(SlotSet)
  BY <1>1 DEF TopState
<1> HIDE DEF s
<1>3. k \in 1 .. Len(s)
  BY Zenon DEF s
<1>4. s # <<>> /\ Len(s) \in Nat /\ 1 \in 1 .. Len(s)
  BY <1>2, <1>3
<1>5. s[1].t > z
  BY <1>1, <1>4, Zenon DEF TopTrimmedRight, AllAfter, s
<1>6. s[1].t \in Nat /\ s[k].t \in Nat
  BY <1>2, <1>3, <1>4, SlotFacts, Zenon
<1>7. k = 1 \/ s[1].t < s[k].t
  <2>1. k = 1 \/ 1 \in 1 .. (k - 1)
    BY <1>3, <1>4
  <2>2. Ascends(s)
    BY <1>1, <1>2, InTimeAscends, Zenon
  <2>. QED  BY <1>3, <2>1, <2>2, Zenon DEF Ascends
<1>8. s[k].t > z
  BY <1>5, <1>6, <1>7
<1>. QED  BY <1>8, Zenon DEF s

(* What trim leaves still counts what it has to. *)
LEMMA TrimCounted ==
  ASSUME NEW s \in Seq(SlotSet), NEW r, NEW z \in Int, Kept1(s, r, z), NEW f \in [Time -> Nat],
         NEW c \in Int, z <= c, CountedIn(s, f, c)
  PROVE  CountedIn(r, f, c)
<1>1. ASSUME NEW k \in 1 .. Len(r) PROVE r[k].n <= f[r[k].t]
  <2>1. PICK j \in 1 .. Len(s) : s[j].t = r[k].t /\ s[j].n = r[k].n
    BY Zenon DEF Kept1, HasSlot
  <2>2. s[j].n <= f[s[j].t]
    BY Zenon DEF CountedIn
  <2>. QED  BY <2>1, <2>2, Zenon
<1>2. ASSUME NEW y \in Time, y > c, f[y] > 0 PROVE HasSlot(r, y, f[y])
  <2>1. PICK j \in 1 .. Len(s) : s[j].t = y /\ s[j].n = f[y]
    BY <1>2, Zenon DEF CountedIn, HasSlot
  <2>2. y > z
    BY <1>2 DEF Time
  <2>3. HasSlot(r, s[j].t, s[j].n)
    BY <2>1, <2>2, Zenon DEF Kept1
  <2>. QED  BY <2>1, <2>3, Zenon
<1>. QED  BY <1>1, <1>2, Zenon DEF CountedIn

-----------------------------------------------------------------------------
(* The inductive invariant of TopApps. *)

TopTypes ==
  /\ copied \in SnapshotSet
  /\ cutoff \in -TopAppsEntryLifetime .. MaxTime
  /\ listed \in Seq([ApplicationId : App, Requests : 0 .. MaxMarks])
  /\ trimmed \in BOOLEAN
  /\ hits \in [App -> [Time -> 0 .. MaxMarks]]
  /\ now \in Time
  /\ marks \in 0 .. MaxMarks

(* Nothing is counted more often than there were responses. *)
NoMore ==
  /\ \A e \in Entry : top.total[e] <= marks
  /\ \A a \in App, z \in Time : hits[a][z] <= marks

Counted(a) == CountedIn(top.slots[ObjectOf(a)], hits[a], now - TopAppsEntryLifetime)

(* While the copy is popped. *)

(* No slot is older than the argument of TopSince. *)
Young == \A e \in Entry : \A k \in 1 .. Len(top.slots[e]) : top.slots[e][k].t >= cutoff

(* The list counts what it has to. *)
CountsRight ==
  \A k \in 1 .. Len(listed) :
    /\ listed[k].Requests >= HitsFrom(listed[k].ApplicationId, now - TopAppsEntryLifetime + 1)
    /\ listed[k].Requests <= HitsFrom(listed[k].ApplicationId, cutoff)

(* An application of the map is in the list or will be popped. *)
NoneMissing ==
  \A a \in App : top.m[a] # none =>
    \/ \E k \in 1 .. Len(listed) : listed[k].ApplicationId = a
    \/ \E k \in 1 .. Len(copied.h) : copied.h[k] = ObjectOf(a)

Objects(h) == \A k \in 1 .. Len(h) : h[k] = ObjectOf(h[k].ApplicationId)

(* The list descends, to what is still to be popped. *)
Descending ==
  /\ \A k \in 2 .. Len(listed) : listed[k - 1].Requests >= listed[k].Requests
  /\ \A k \in 1 .. Len(listed), l \in 1 .. Len(copied.h) :
       listed[k].Requests >= top.total[copied.h[l]]

PopsTop ==
  /\ Young /\ CountsRight /\ NoneMissing
  /\ ~trimmed => Descending /\ \A v \in Nat : InOrder(copied, AtLeast(top.total, v))

TopInv ==
  /\ TopRight(top)
  /\ TopTypes
  /\ Places(copied)
  /\ NoMore
  /\ \A a \in App : Counted(a)
  /\ Objects(copied.h)
  /\ AppsOnce(copied.h, Names(listed))
  /\ IF copied.pc = "idle" THEN listed = <<>> ELSE PopsTop

-----------------------------------------------------------------------------
(* Mark and trim. *)

LEMMA TopInvFacts ==
  ASSUME TopInv
  PROVE  /\ top \in TopState /\ top.ok /\ MapRight(top.m)
         /\ \A e \in Entry : /\ SlotsRight(top, e) /\ InTime(top.slots[e])
                             /\ (e \in KnownIn(top.m) <=> top.slots[e] # <<>>)
                             /\ top.slots[e] \in Seq(SlotSet) /\ top.total[e] \in Nat
                             /\ top.total[e] = RequestsIn(top.slots[e], Len(top.slots[e]))
         /\ \A a \in App : hits[a] \in [Time -> 0 .. MaxMarks] /\ hits[a] \in [Time -> Nat]
         /\ now \in Nat /\ TopAppsEntryLifetime \in Nat /\ now - TopAppsEntryLifetime \in Int
<1>1. TopRight(top) /\ TopTypes
  BY Zenon DEF TopInv
<1>2. /\ top \in TopState /\ top.ok /\ MapRight(top.m)
      /\ \A e \in Entry : SlotsRight(top, e) /\ (e \in KnownIn(top.m) <=> top.slots[e] # <<>>)
  BY <1>1, Zenon DEF TopRight, TopHolds
<1>3. top.slots \in [Entry -> Seq(SlotSet)] /\ top.total \in [Entry -> Nat]
  BY <1>2 DEF TopState
<1>4. \A a \in App : hits[a] \in [Time -> 0 .. MaxMarks]
  BY <1>1, Zenon DEF TopTypes
<1>5. \A k \in 0 .. MaxMarks : k \in Nat
  BY BoundAssumption
<1>6. \A a \in App : hits[a] \in [Time -> Nat]
  BY <1>4, <1>5, Zenon
<1>7. now \in Nat
  BY <1>1 DEF TopTypes, Time
<1>8. TopAppsEntryLifetime \in Nat /\ now - TopAppsEntryLifetime \in Int
  BY <1>7, TopAssumption
<1>9. \A e \in Entry : InTime(top.slots[e]) /\ top.total[e] = RequestsIn(top.slots[e], Len(top.slots[e]))
  BY <1>2, Zenon DEF SlotsRight
<1>. QED  BY <1>2, <1>3, <1>4, <1>6, <1>7, <1>8, <1>9, Zenon

LEMMA MarkTopKeeps ==
  ASSUME TopInv, NEW a \in App, NEW z \in Time, MarkTop(a, z), Response
  PROVE  TopInv'
<1> DEFINE e == ObjectOf(a)
           s == top.slots[e]
           w == GoesTo(s, z)
<1>1. /\ TopRight(top) /\ TopTypes /\ Places(copied) /\ NoMore /\ \A b \in App : Counted(b)
      /\ Objects(copied.h) /\ AppsOnce(copied.h, Names(listed))
      /\ (IF copied.pc = "idle" THEN listed = <<>> ELSE PopsTop)
  BY Zenon DEF TopInv
<1>2. /\ \A f \in Entry : /\ top.slots[f] \in Seq(SlotSet) /\ top.total[f] \in Nat
                          /\ InTime(top.slots[f])
      /\ \A b \in App : hits[b] \in [Time -> 0 .. MaxMarks] /\ hits[b] \in [Time -> Nat]
      /\ now \in Nat /\ now - TopAppsEntryLifetime \in Int
  BY TopInvFacts, Zenon
<1>3. z \in Time
  OBVIOUS
<1>4. /\ copied.pc = "idle" /\ copied' = copied /\ cutoff' = cutoff /\ listed' = listed
      /\ trimmed' = trimmed /\ Count(a, z) /\ marks' = marks + 1 /\ now' = now /\ marks < MaxMarks
  BY Zenon DEF MarkTop, Response
<1>5. e \in Entry
  BY ObjectFacts, Zenon
<1>6. MarkedTop(top, top', a, z)
  <2>1. CASE top.m[a] = none
    <3>1. top' = PutBack(WithMark(top, e, z), e)
      BY <2>1, Zenon DEF MarkTop
    <3>2. MarkedTop(top, PutBack(WithMark(top, e, z), e), a, z)
      BY <1>1, <1>3, <2>1, MarkIs, Zenon
    <3>. QED  BY <3>1, <3>2, Zenon
  <2>2. CASE top.m[a] # none
    <3>1. /\ AtItsIndex(top.t, e) /\ AtItsIndex(top.n, e)
          /\ MarkedTop(top, PutBack(WithMark(Taken(top, e), e, z), e), a, z)
      BY <1>1, <1>3, <2>2, MarkIs, Zenon
    <3>2. top' = PutBack(WithMark(Taken(top, e), e, z), e)
      BY <2>2, <3>1, Zenon DEF MarkTop
    <3>. QED  BY <3>1, <3>2, Zenon
  <2>. QED  BY <2>1, <2>2, Zenon
<1>7. OneMore(s, top'.slots[e], w) /\ w \in Time
  <2>1. OneMore(s, Marked(s, z), w)
    BY <1>2, <1>3, <1>5, MarkedIs, Zenon
  <2>2. top'.slots[e] = Marked(s, z)
    BY <1>6, Zenon DEF MarkedTop
  <2>. QED  BY <2>1, <2>2, Zenon DEF OneMore
<1>8. /\ hits' = [hits EXCEPT ![a] = [hits[a] EXCEPT ![w] = hits[a][w] + 1]]
  BY <1>4, Zenon DEF Count, GoesTo
<1>9. hits \in [App -> [Time -> 0 .. MaxMarks]] /\ marks \in 0 .. MaxMarks /\ marks \in Nat
      /\ MaxMarks \in Nat
  <2>1. hits \in [App -> [Time -> 0 .. MaxMarks]] /\ marks \in 0 .. MaxMarks /\ MaxMarks \in Nat
    BY <1>1, BoundAssumption, Zenon DEF TopTypes
  <2>2. marks \in Nat
    BY <2>1
  <2>. QED  BY <2>1, <2>2, Zenon
<1>10. hits[a][w] <= marks /\ hits[a][w] \in Nat
  BY <1>1, <1>2, <1>7, Zenon DEF NoMore
<1>11. hits[a][w] + 1 \in 0 .. MaxMarks /\ hits[a][w] + 1 <= marks + 1 /\ marks + 1 \in 0 .. MaxMarks
  BY <1>4, <1>9, <1>10
<1> HIDE DEF w, e
<1> DEFINE g == [hits[a] EXCEPT ![w] = hits[a][w] + 1]
<1>12. /\ g \in [Time -> 0 .. MaxMarks] /\ g[w] = hits[a][w] + 1
       /\ \A y \in Time : y # w => g[y] = hits[a][y]
  BY <1>2, <1>7, <1>11, Zenon
<1> HIDE DEF g
<1>13. /\ hits' \in [App -> [Time -> 0 .. MaxMarks]] /\ hits'[a] = g
       /\ \A b \in App : b # a => hits'[b] = hits[b]
  <2>1. hits' = [hits EXCEPT ![a] = g]
    BY <1>8, Zenon DEF g
  <2>. QED  BY <1>9, <1>12, <2>1, Zenon
<1>14. TopRight(top')
  BY <1>6, Zenon DEF MarkedTop
<1>15. TopTypes'
  BY <1>1, <1>4, <1>11, <1>13, Zenon DEF TopTypes
<1>16. NoMore'
  <2>1. ASSUME NEW f \in Entry PROVE top'.total[f] <= marks'
    <3>1. top.total[f] <= marks /\ top.total[f] \in Nat
      BY <1>1, <1>2, Zenon DEF NoMore
    <3>2. top'.total[f] = top.total[f] \/ top'.total[f] = top.total[f] + 1
      <4>1. CASE f = e
        BY <1>6, <4>1, Zenon DEF MarkedTop, e
      <4>2. CASE f # e
        BY <1>6, <4>2, Zenon DEF MarkedTop, e
      <4>. QED  BY <4>1, <4>2, Zenon
    <3>3. top.total[f] <= marks + 1 /\ top.total[f] + 1 <= marks + 1
      BY <1>9, <3>1
    <3>. QED  BY <1>4, <3>2, <3>3, Zenon
  <2>2. ASSUME NEW b \in App, NEW y \in Time PROVE hits'[b][y] <= marks'
    <3>1. hits[b][y] <= marks /\ hits[b][y] \in Nat
      BY <1>1, <1>2, Zenon DEF NoMore
    <3>2. hits[b][y] <= marks + 1
      BY <1>9, <3>1
    <3>3. CASE b = a /\ y = w
      BY <1>4, <1>11, <1>12, <1>13, <3>3, Zenon
    <3>4. CASE ~(b = a /\ y = w)
      <4>1. hits'[b][y] = hits[b][y]
        BY <1>12, <1>13, <3>4, Zenon
      <4>. QED  BY <1>4, <3>2, <4>1, Zenon
    <3>. QED  BY <3>3, <3>4, Zenon
  <2>. QED  BY <2>1, <2>2, Zenon DEF NoMore
<1>17. ASSUME NEW b \in App PROVE Counted(b)'
  <2>1. CountedIn(top.slots[ObjectOf(b)], hits[b], now - TopAppsEntryLifetime)
    BY <1>1, Zenon DEF Counted
  <2>2. CountedIn(top'.slots[ObjectOf(b)], hits'[b], now - TopAppsEntryLifetime)
    <3>1. CASE b = a
      <4>1. g \in [Time -> Nat]
        <5>1. \A k \in 0 .. MaxMarks : k \in Nat
          BY <1>9
        <5>. QED  BY <1>12, <5>1, Zenon
      <4>2. CountedIn(s, hits[a], now - TopAppsEntryLifetime)
        BY <2>1, <3>1, Zenon DEF e
      <4>3. OneMoreAt(hits[a], g, w) /\ hits[a] \in [Time -> Nat] /\ s \in Seq(SlotSet)
        BY <1>2, <1>5, <1>12, Zenon DEF OneMoreAt
      <4>4. now - TopAppsEntryLifetime \in Int
        BY <1>2, Zenon
      <4>5. CountedIn(top'.slots[e], g, now - TopAppsEntryLifetime)
        BY <1>7, <4>1, <4>2, <4>3, <4>4, MarkCounted, Zenon
      <4>. QED  BY <1>13, <3>1, <4>5, Zenon DEF e
    <3>2. CASE b # a
      <4>1. ObjectOf(b) # e /\ ObjectOf(b) \in Entry
        BY <3>2, ObjectFacts, Zenon DEF e
      <4>2. top'.slots[ObjectOf(b)] = top.slots[ObjectOf(b)] /\ hits'[b] = hits[b]
        BY <1>6, <1>13, <3>2, <4>1, Zenon DEF MarkedTop, e
      <4>. QED  BY <2>1, <4>2, Zenon
    <3>. QED  BY <3>1, <3>2, Zenon
  <2>. QED  BY <1>4, <2>2, Zenon DEF Counted
<1>18. listed' = <<>> /\ copied'.pc = "idle" /\ Places(copied') /\ Objects(copied'.h)
       /\ AppsOnce(copied'.h, Names(listed'))
  BY <1>1, <1>4, Zenon
<1>. QED  BY <1>14, <1>15, <1>16, <1>17, <1>18, Zenon DEF TopInv

LEMMA TrimFacts ==
  ASSUME TopInv, NEW z \in Int, z <= now - TopAppsEntryLifetime, NEW y, TopTrimmedRight(top, y, z)
  PROVE  /\ TopRight(y)
         /\ \A e \in Entry : y.total[e] <= marks
         /\ \A a \in App : CountedIn(y.slots[ObjectOf(a)], hits[a], now - TopAppsEntryLifetime)
         /\ \A e \in Entry : \A k \in 1 .. Len(y.slots[e]) : y.slots[e][k].t > z
<1>1. TopRight(y) /\ Trims(top, y, z)
  BY Zenon DEF TopTrimmedRight
<1>2. ASSUME NEW e \in Entry PROVE y.total[e] <= marks
  <2>1. y.total[e] <= top.total[e] /\ top.total[e] <= marks
    BY <1>1, Zenon DEF Trims, TopInv, NoMore
  <2>2. y.total[e] \in Nat /\ top.total[e] \in Nat
    BY <1>1 DEF TopInv, TopRight, TopHolds, TopState
  <2>3. marks \in Nat
    BY BoundAssumption DEF TopInv, TopTypes
  <2>. QED  BY <2>1, <2>2, <2>3
<1>3. ASSUME NEW a \in App PROVE CountedIn(y.slots[ObjectOf(a)], hits[a], now - TopAppsEntryLifetime)
  <2>1. CountedIn(top.slots[ObjectOf(a)], hits[a], now - TopAppsEntryLifetime)
    BY Zenon DEF TopInv, Counted
  <2>2. ObjectOf(a) \in Entry
    BY ObjectFacts, Zenon
  <2>3. Kept1(top.slots[ObjectOf(a)], y.slots[ObjectOf(a)], z)
    BY <1>1, <2>2, Zenon DEF Trims
  <2>4. /\ top.slots[ObjectOf(a)] \in Seq(SlotSet) /\ hits[a] \in [Time -> Nat]
        /\ now - TopAppsEntryLifetime \in Int
    BY <2>2, TopInvFacts, Zenon
  <2>. QED  BY <2>1, <2>3, <2>4, TrimCounted, Zenon
<1>. QED  BY <1>1, <1>2, <1>3, TrimmedSlots, Zenon

LEMMA TrimTopKeeps ==
  ASSUME TopInv, TrimTop, UNCHANGED <<now, marks>>
  PROVE  TopInv'
<1> DEFINE z == now - TopAppsEntryLifetime
<1>1. /\ TopRight(top) /\ TopTypes /\ Places(copied) /\ NoMore
      /\ Objects(copied.h) /\ AppsOnce(copied.h, Names(listed))
      /\ (IF copied.pc = "idle" THEN listed = <<>> ELSE PopsTop)
  BY Zenon DEF TopInv
<1>2. /\ top' = TopTrimmed(top, z) /\ trimmed' = (copied.pc # "idle")
      /\ copied' = copied /\ cutoff' = cutoff /\ listed' = listed /\ hits' = hits
      /\ now' = now /\ marks' = marks
  BY Zenon DEF TrimTop
<1>3. z \in Int /\ z <= z
  <2>1. z \in Int
    BY TopInvFacts, Zenon
  <2> HIDE DEF z
  <2>. QED  BY <2>1
<1>4. TopTrimmedRight(top, top', z)
  BY <1>1, <1>2, <1>3, TopTrimIs, Zenon
<1>5. /\ TopRight(top')
      /\ \A e \in Entry : top'.total[e] <= marks
      /\ \A a \in App : CountedIn(top'.slots[ObjectOf(a)], hits[a], z)
  BY <1>3, <1>4, TrimFacts, Zenon
<1>6. TopTypes'
  BY <1>1, <1>2, Zenon DEF TopTypes
<1>7. NoMore'
  BY <1>1, <1>2, <1>5, Zenon DEF NoMore
<1>8. \A a \in App : Counted(a)'
  BY <1>2, <1>5, Zenon DEF Counted
<1>9. ASSUME copied.pc # "idle" PROVE PopsTop'
  <2>1. Young /\ CountsRight /\ NoneMissing
    BY <1>1, <1>9, Zenon DEF PopsTop
  <2>2. Trims(top, top', z)
    BY <1>4, Zenon DEF TopTrimmedRight
  <2>3. Young'
    <3>1. ASSUME NEW e \in Entry, NEW k \in 1 .. Len(top'.slots[e]) PROVE top'.slots[e][k].t >= cutoff
      <4>1. HasSlot(top.slots[e], top'.slots[e][k].t, top'.slots[e][k].n)
        BY <2>2, Zenon DEF Trims, Kept1
      <4>. QED  BY <2>1, <4>1, Zenon DEF HasSlot, Young
    <3>. QED  BY <1>2, <3>1, Zenon DEF Young
  <2>4. CountsRight'
    BY <1>2, <2>1, Zenon DEF CountsRight, HitsFrom
  <2>5. NoneMissing'
    <3>1. ASSUME NEW a \in App, top'.m[a] # none PROVE top.m[a] # none
      <4>1. MapRight(top'.m) /\ MapRight(top.m)
        BY <1>1, <1>5, Zenon DEF TopRight, TopHolds
      <4>2. ObjectOf(a) \in KnownIn(top'.m)
        BY <3>1, <4>1, KnownFacts, Zenon
      <4>3. ObjectOf(a) \in KnownIn(top.m)
        BY <2>2, <4>2, Zenon DEF Trims
      <4>. QED  BY <4>1, <4>3, KnownFacts, Zenon
    <3>. QED  BY <1>2, <2>1, <3>1, Zenon DEF NoneMissing
  <2>6. trimmed' = TRUE
    BY <1>2, <1>9, Zenon
  <2>. QED  BY <2>3, <2>4, <2>5, <2>6, Zenon DEF PopsTop
<1>10. IF copied'.pc = "idle" THEN listed' = <<>> ELSE PopsTop'
  BY <1>1, <1>2, <1>9, Zenon
<1>. QED  BY <1>1, <1>2, <1>5, <1>6, <1>7, <1>8, <1>10, Zenon DEF TopInv

-----------------------------------------------------------------------------
(* TopSince, and popping the copy. *)

LEMMA TopSinceKeeps ==
  ASSUME TopInv, TopSince, UNCHANGED <<now, marks>>
  PROVE  TopInv'
<1> DEFINE c == now - TopAppsEntryLifetime
           z == c - 1
           h == top'.n.h
           N == Len(h)
<1>1. TopRight(top) /\ TopTypes /\ NoMore
  BY Zenon DEF TopInv
<1>2. /\ top' = TopTrimmed(top, z) /\ copied' = Snapshot(top'.n) /\ cutoff' = c /\ listed' = <<>>
      /\ trimmed' = FALSE /\ hits' = hits /\ now' = now /\ marks' = marks
  BY Zenon DEF TopSince
<1>3. c \in Int /\ z \in Int /\ z <= c
  <2>1. c \in Int
    BY TopInvFacts, Zenon
  <2> HIDE DEF c
  <2>. QED  BY <2>1
<1>4. TopTrimmedRight(top, top', z)
  BY <1>1, <1>2, <1>3, TopTrimIs, Zenon
<1>5. /\ TopRight(top')
      /\ \A e \in Entry : top'.total[e] <= marks
      /\ \A a \in App : CountedIn(top'.slots[ObjectOf(a)], hits[a], c)
      /\ \A e \in Entry : \A k \in 1 .. Len(top'.slots[e]) : top'.slots[e][k].t > z
  BY <1>3, <1>4, TrimFacts, Zenon
<1>6. /\ top' \in TopState /\ MapRight(top'.m) /\ InHeap(top'.n, More(top'.total), KnownIn(top'.m))
      /\ Placed(top'.n, KnownIn(top'.m))
  BY <1>5, Zenon DEF TopRight, TopHolds, HeapsHold, InHeap
<1>7. /\ N \in Nat /\ h \in Seq(Entry) /\ {h[k] : k \in 1 .. N} = KnownIn(top'.m)
      /\ \A k \in 1 .. N : top'.n.pos[h[k]] = k
  BY <1>6 DEF Placed, HeapSet
<1>8. /\ copied' = [pc |-> "pop", h |-> h, at |-> 0, child |-> 0]
      /\ copied'.h = h /\ copied'.pc = "pop" /\ copied'.at = 0 /\ copied'.child = 0
  BY <1>2 DEF Snapshot
<1>9. Len(<<>>) = 0 /\ ~(\E k \in 1 .. Len(<<>>) : TRUE) /\ ~(\E k \in 2 .. Len(<<>>) : TRUE)
  OBVIOUS
<1>10. \A k \in 1 .. N : h[k] \in KnownIn(top'.m) /\ h[k] = ObjectOf(h[k].ApplicationId)
  <2>1. \A k \in 1 .. N : h[k] \in KnownIn(top'.m)
    BY <1>7, Zenon
  <2>. QED  BY <1>6, <2>1, KnownFacts, Zenon
<1>11. TopTypes'
  <2>1. copied' \in SnapshotSet
    BY <1>7, <1>8 DEF SnapshotSet
  <2>2. c \in -TopAppsEntryLifetime .. MaxTime
    <3>1. now \in Time
      BY <1>1, Zenon DEF TopTypes
    <3>. QED  BY <3>1, TopAssumption, BoundAssumption DEF Time
  <2>3. <<>> \in Seq([ApplicationId : App, Requests : 0 .. MaxMarks])
    OBVIOUS
  <2>. QED  BY <1>1, <1>2, <2>1, <2>2, <2>3, Zenon DEF TopTypes
<1>12. Places(copied')
  BY <1>7, <1>8 DEF Places
<1>13. NoMore'
  BY <1>1, <1>2, <1>5, Zenon DEF NoMore
<1>14. \A a \in App : Counted(a)'
  BY <1>2, <1>5, Zenon DEF Counted
<1>15. Objects(copied'.h)
  BY <1>8, <1>10, Zenon DEF Objects
<1>16. AppsOnce(copied'.h, Names(listed'))
  <2>1. ASSUME NEW k \in 1 .. N, NEW l \in 1 .. N, h[k].ApplicationId = h[l].ApplicationId PROVE k = l
    <3>1. h[k] = ObjectOf(h[k].ApplicationId) /\ h[l] = ObjectOf(h[l].ApplicationId)
      BY <1>10, Zenon
    <3>2. h[k] = h[l]
      BY <2>1, <3>1, Zenon
    <3>3. top'.n.pos[h[k]] = k /\ top'.n.pos[h[l]] = l
      BY <1>7, Zenon
    <3>. QED  BY <3>2, <3>3, Zenon
  <2>2. Names(<<>>) = <<>>
    BY DEF Names
  <2>. QED  BY <1>2, <1>8, <1>9, <2>1, <2>2, Zenon DEF AppsOnce
<1>17. PopsTop'
  <2>1. Young'
    <3>1. ASSUME NEW e \in Entry, NEW k \in 1 .. Len(top'.slots[e]) PROVE top'.slots[e][k].t >= c
      <4>1. top'.slots[e][k].t > z
        BY <1>5, Zenon
      <4>2. top'.slots[e] \in Seq(SlotSet)
        BY <1>6 DEF TopState
      <4>3. top'.slots[e][k].t \in Nat
        BY <4>2, SlotFacts, Zenon
      <4> HIDE DEF c
      <4>. QED  BY <1>3, <4>1, <4>3
    <3>. QED  BY <1>2, <3>1, Zenon DEF Young
  <2>2. CountsRight'
    BY <1>2, <1>9, Zenon DEF CountsRight
  <2>3. NoneMissing'
    <3>1. ASSUME NEW a \in App, top'.m[a] # none PROVE \E k \in 1 .. N : h[k] = ObjectOf(a)
      <4>1. ObjectOf(a) \in KnownIn(top'.m)
        BY <1>6, <3>1, KnownFacts, Zenon
      <4>. QED  BY <1>7, <4>1, Zenon
    <3>. QED  BY <1>8, <3>1, Zenon DEF NoneMissing
  <2>4. Descending'
    BY <1>2, <1>9, Zenon DEF Descending
  <2>5. ASSUME NEW v \in Nat PROVE InOrder(copied', AtLeast(top'.total, v))
    <3>1. top'.total \in [Entry -> Nat]
      BY <1>6 DEF TopState
    <3>2. Closed(h, AtLeast(top'.total, v), N)
      BY <1>6, <3>1, HeapClosed, Zenon
    <3>. QED  BY <1>8, <3>2, Zenon DEF InOrder
  <2>. QED  BY <2>1, <2>2, <2>3, <2>4, <2>5, Zenon DEF PopsTop
<1>18. IF copied'.pc = "idle" THEN listed' = <<>> ELSE PopsTop'
  <2>1. copied'.pc # "idle"
    BY <1>8
  <2>. QED  BY <1>17, <2>1, Zenon
<1>. QED  BY <1>5, <1>11, <1>12, <1>13, <1>14, <1>15, <1>16, <1>18, Zenon DEF TopInv

LEMMA MovesKeep ==
  ASSUME TopInv, copied.pc # "idle", MovesOn(copied, copied', top.total),
         UNCHANGED <<top, cutoff, listed, trimmed, hits, now, marks>>
  PROVE  TopInv'
<1>1. /\ TopRight(top) /\ TopTypes /\ NoMore /\ (\A a \in App : Counted(a))
      /\ Objects(copied.h) /\ AppsOnce(copied.h, Names(listed)) /\ PopsTop
  BY Zenon DEF TopInv
<1>2. /\ top' = top /\ cutoff' = cutoff /\ listed' = listed /\ trimmed' = trimmed /\ hits' = hits
      /\ now' = now /\ marks' = marks
  OBVIOUS
<1>3. /\ copied' \in SnapshotSet /\ Places(copied') /\ copied'.pc # "idle"
      /\ Reordered(copied.h, copied'.h)
      /\ \A v \in Nat : InOrder(copied, AtLeast(top.total, v)) => InOrder(copied', AtLeast(top.total, v))
  BY Zenon DEF MovesOn
<1>4. /\ \A k \in 1 .. Len(copied'.h) : \E l \in 1 .. Len(copied.h) : copied'.h[k] = copied.h[l]
      /\ \A l \in 1 .. Len(copied.h) : \E k \in 1 .. Len(copied'.h) : copied'.h[k] = copied.h[l]
      /\ AppsOnce(copied'.h, Names(listed))
  BY <1>1, <1>3, Zenon DEF Reordered
<1>5. TopTypes'
  BY <1>1, <1>2, <1>3, Zenon DEF TopTypes
<1>6. NoMore' /\ \A a \in App : Counted(a)'
  BY <1>1, <1>2, Zenon DEF NoMore, Counted
<1>7. Objects(copied'.h)
  <2> SUFFICES ASSUME NEW k \in 1 .. Len(copied'.h)
               PROVE  copied'.h[k] = ObjectOf(copied'.h[k].ApplicationId)
    BY Zenon DEF Objects
  <2>1. PICK l \in 1 .. Len(copied.h) : copied'.h[k] = copied.h[l]
    BY <1>4, Zenon
  <2>2. copied.h[l] = ObjectOf(copied.h[l].ApplicationId)
    BY <1>1, Zenon DEF Objects
  <2>. QED  BY <2>1, <2>2, Zenon
<1>8. PopsTop'
  <2>1. Young' /\ CountsRight'
    BY <1>1, <1>2, Zenon DEF PopsTop, Young, CountsRight, HitsFrom
  <2>2. NoneMissing'
    <3> SUFFICES ASSUME NEW a \in App, top.m[a] # none
                 PROVE  \/ \E k \in 1 .. Len(listed) : listed[k].ApplicationId = a
                        \/ \E k \in 1 .. Len(copied'.h) : copied'.h[k] = ObjectOf(a)
      BY <1>2, Zenon DEF NoneMissing
    <3>1. \/ \E k \in 1 .. Len(listed) : listed[k].ApplicationId = a
          \/ \E l \in 1 .. Len(copied.h) : copied.h[l] = ObjectOf(a)
      BY <1>1, Zenon DEF PopsTop, NoneMissing
    <3>. QED  BY <1>4, <3>1, Zenon
  <2>3. ASSUME ~trimmed PROVE Descending'
    <3>1. Descending
      BY <1>1, <2>3, Zenon DEF PopsTop
    <3>2. ASSUME NEW k \in 1 .. Len(listed), NEW l \in 1 .. Len(copied'.h)
          PROVE  listed[k].Requests >= top.total[copied'.h[l]]
      <4>1. PICK j \in 1 .. Len(copied.h) : copied'.h[l] = copied.h[j]
        BY <1>4, Zenon
      <4>2. listed[k].Requests >= top.total[copied.h[j]]
        BY <3>1, Zenon DEF Descending
      <4>. QED  BY <4>1, <4>2, Zenon
    <3>. QED  BY <1>2, <3>1, <3>2, Zenon DEF Descending
  <2>4. ASSUME ~trimmed, NEW v \in Nat PROVE InOrder(copied', AtLeast(top.total, v))
    BY <1>1, <1>3, <2>4, Zenon DEF PopsTop
  <2>5. ASSUME ~trimmed' PROVE Descending' /\ \A v \in Nat : InOrder(copied', AtLeast(top'.total, v))
    <3>1. ~trimmed
      BY <1>2, <2>5, SMT
    <3>2. \A v \in Nat : InOrder(copied', AtLeast(top.total, v))
      BY <2>4, <3>1, Zenon
    <3>. QED  BY <1>2, <2>3, <3>1, <3>2, Zenon
  <2>. QED  BY <2>1, <2>2, <2>5, Zenon DEF PopsTop
<1>. QED  BY <1>1, <1>2, <1>3, <1>4, <1>5, <1>6, <1>7, <1>8, Zenon DEF TopInv

LEMMA TopPopKeeps ==
  ASSUME TopInv, TopPop, UNCHANGED <<now, marks>>
  PROVE  TopInv'
<1>1. /\ copied.pc = "pop" /\ copied.h # <<>> /\ copied' = PopStarted(copied)
      /\ UNCHANGED <<top, cutoff, listed, trimmed, hits, now, marks>>
  BY Zenon DEF TopPop
<1>2. copied \in SnapshotSet
  BY Zenon DEF TopInv, TopTypes
<1>3. MovesOn(copied, copied', top.total)
  BY <1>1, <1>2, PopStartedIs, Zenon
<1>4. copied.pc # "idle"
  BY <1>1
<1>. QED  BY <1>1, <1>3, <1>4, MovesKeep, Zenon

LEMMA TopDownKeeps ==
  ASSUME TopInv, TopDown, UNCHANGED <<now, marks>>
  PROVE  TopInv'
<1>1. /\ \/ copied.pc = "pick" /\ copied' = Picked(copied, More(top.total))
         \/ copied.pc = "sift" /\ copied' = Sifted(copied, More(top.total))
      /\ UNCHANGED <<top, cutoff, listed, trimmed, hits, now, marks>>
  BY Zenon DEF TopDown
<1>2. copied \in SnapshotSet /\ Places(copied)
  BY Zenon DEF TopInv, TopTypes
<1>3. top.total \in [Entry -> Nat]
  BY TopInvFacts DEF TopState
<1>4. MovesOn(copied, copied', top.total)
  BY <1>1, <1>2, <1>3, PickedIs, SiftedIs, Zenon
<1>5. copied.pc # "idle"
  BY <1>1
<1>. QED  BY <1>1, <1>4, <1>5, MovesKeep, Zenon

(* The total of an entry counts what it has to. *)
LEMMA TotalRight ==
  ASSUME TopInv, NEW a \in App
  PROVE  /\ top.total[ObjectOf(a)] >= HitsFrom(a, now - TopAppsEntryLifetime + 1)
         /\ Young => top.total[ObjectOf(a)] <= HitsFrom(a, cutoff)
<1> DEFINE e == ObjectOf(a)
           s == top.slots[e]
           f == hits[a]
           c == now - TopAppsEntryLifetime + 1
<1>1. e \in Entry
  BY ObjectFacts, Zenon
<1>2. /\ s \in Seq(SlotSet) /\ InTime(s) /\ f \in [Time -> Nat] /\ top.total[e] \in Nat
      /\ top.total[e] = RequestsIn(s, Len(s)) /\ now \in Nat /\ TopAppsEntryLifetime \in Nat
  BY <1>1, TopInvFacts, Zenon
<1>3. CountedIn(s, f, now - TopAppsEntryLifetime)
  BY Zenon DEF TopInv, Counted
<1>4. c \in Int /\ \A z \in Time : z >= c => z > now - TopAppsEntryLifetime
  <2>1. now \in Nat /\ TopAppsEntryLifetime \in Nat
    BY <1>2, Zenon
  <2>. QED  BY <2>1 DEF Time
<1>5. \A z : HitsFrom(a, z) = Sum(From(f, z), MaxTime)
  BY Zenon DEF HitsFrom, From
<1>6. top.total[e] >= HitsFrom(a, c)
  <2> HIDE DEF c, s, f
  <2>1. \A z \in Time : z >= c /\ f[z] > 0 => HasSlot(s, z, f[z])
    BY <1>3, <1>4, Zenon DEF CountedIn
  <2>2. Sum(From(f, c), MaxTime) <= RequestsIn(s, Len(s))
    BY <1>2, <1>4, <2>1, SlotsAbove, Zenon
  <2>3. HitsFrom(a, c) <= top.total[e]
    BY <1>2, <1>5, <2>2, Zenon
  <2>4. HitsFrom(a, c) \in Nat
    <3>1. IsSum(From(f, c), MaxTime) /\ MaxTime \in Nat
      BY <1>2, <1>4, FromIs, Zenon
    <3>2. MaxTime \in 0 .. MaxTime
      BY <3>1
    <3>. QED  BY <1>5, <3>1, <3>2, Zenon DEF IsSum
  <2> DEFINE p == HitsFrom(a, c)
             q == top.total[e]
  <2>5. p <= q /\ p \in Nat /\ q \in Nat
    BY <1>2, <2>3, <2>4, Zenon
  <2> HIDE DEF p, q
  <2>6. q >= p
    BY <2>5
  <2>. QED  BY <2>6, Zenon DEF p, q
<1>7. ASSUME Young PROVE top.total[e] <= HitsFrom(a, cutoff)
  <2>1. cutoff \in Int
    <3>1. cutoff \in -TopAppsEntryLifetime .. MaxTime
      BY Zenon DEF TopInv, TopTypes
    <3>. QED  BY <3>1, TopAssumption, BoundAssumption
  <2>2. \A k \in 1 .. Len(s) : s[k].t >= cutoff /\ s[k].n <= f[s[k].t]
    BY <1>1, <1>3, <1>7, Zenon DEF Young, CountedIn
  <2> HIDE DEF s, f
  <2>3. RequestsIn(s, Len(s)) <= Sum(From(f, cutoff), MaxTime)
    BY <1>2, <2>1, <2>2, SlotsBelow, Zenon
  <2>. QED  BY <1>2, <1>5, <2>3, Zenon
<1>. QED  BY <1>6, <1>7, Zenon

LEMMA TopCollectKeeps ==
  ASSUME TopInv, TopCollect, UNCHANGED <<now, marks>>
  PROVE  TopInv'
<1> DEFINE h == copied.h
           N == Len(h)
           g == SubSeq(h, 1, N - 1)
           e == h[N]
           a == e.ApplicationId
           x == [ApplicationId |-> a, Requests |-> top.total[e]]
           L == Len(listed)
<1>1. /\ TopRight(top) /\ TopTypes /\ NoMore /\ (\A b \in App : Counted(b)) /\ Places(copied)
      /\ Objects(h) /\ AppsOnce(h, Names(listed))
      /\ (IF copied.pc = "idle" THEN listed = <<>> ELSE PopsTop)
  BY Zenon DEF TopInv
<1>2. /\ copied.pc = "popped" /\ listed' = Append(listed, x) /\ copied' = Shortened(copied)
      /\ top' = top /\ cutoff' = cutoff /\ trimmed' = trimmed /\ hits' = hits
      /\ now' = now /\ marks' = marks
  BY Zenon DEF TopCollect, PoppedEntry
<1>3. PopsTop
  <2>1. copied.pc # "idle"
    BY <1>2
  <2>. QED  BY <1>1, <2>1, Zenon
<1>4. h \in Seq(Entry) /\ h # <<>>
  <2>1. copied \in SnapshotSet /\ h # <<>>
    BY <1>1, <1>2, Zenon DEF TopTypes, Places
  <2>. QED  BY <2>1 DEF SnapshotSet
<1>5. N \in Nat \ {0} /\ N \in 1 .. N
  BY <1>4
<1>6. /\ g \in Seq(Entry) /\ Len(g) = N - 1
      /\ \A k \in 1 .. (N - 1) : g[k] = h[k] /\ k \in 1 .. N /\ k # N
      /\ \A k \in 1 .. N : k = N \/ k \in 1 .. (N - 1)
  BY <1>4, <1>5, CutLast, Zenon
<1>7. e \in Entry /\ a \in App /\ e = ObjectOf(a)
  <2>1. e \in Entry
    BY <1>4, <1>5
  <2>2. a \in App
    BY <2>1 DEF Entry
  <2>. QED  BY <1>1, <1>5, <2>1, <2>2, Zenon DEF Objects
<1>8. top.total[e] \in 0 .. MaxMarks /\ top.total[e] \in Nat
  <2>1. top.total[e] \in Nat /\ top.total[e] <= marks
    BY <1>1, <1>7, TopInvFacts, Zenon DEF NoMore
  <2>2. marks \in 0 .. MaxMarks
    BY <1>1, Zenon DEF TopTypes
  <2> DEFINE q == top.total[e]
  <2>3. q \in Nat /\ q <= marks
    BY <2>1, Zenon
  <2> HIDE DEF q
  <2>4. q \in 0 .. MaxMarks
    BY <2>2, <2>3, BoundAssumption
  <2>. QED  BY <2>1, <2>4, Zenon DEF q
<1>9. listed \in Seq(ListSet)
  BY <1>1, Zenon DEF TopTypes, ListSet
<1>10. x \in ListSet /\ x.ApplicationId = a /\ x.Requests = top.total[e]
  <2> HIDE DEF a, e
  <2>. QED  BY <1>7, <1>8 DEF ListSet
<1> HIDE DEF x
<1>11. Longer(listed, listed', x)
  BY <1>2, <1>9, <1>10, LongerIs, Zenon
<1>12. /\ L \in Nat /\ listed' \in Seq(ListSet) /\ Len(listed') = L + 1 /\ listed'[L + 1] = x
       /\ L + 1 \in 1 .. Len(listed')
       /\ \A k \in 1 .. L : listed'[k] = listed[k] /\ k \in 1 .. Len(listed')
       /\ \A k \in 1 .. Len(listed') : k = L + 1 \/ k \in 1 .. L
  BY <1>11, Zenon DEF Longer
<1>13. AppsOnce(g, Names(listed'))
  <2> HIDE DEF h
  <2>1. x.ApplicationId = h[N].ApplicationId
    BY <1>10, Zenon
  <2>. QED  BY <1>1, <1>4, <1>5, <1>9, <1>11, <2>1, LongerOnce, Zenon
<1>14. /\ copied' = [pc |-> "pop", h |-> g, at |-> 0, child |-> 0]
       /\ copied'.h = g /\ copied'.pc = "pop" /\ copied'.at = 0 /\ copied'.child = 0
  BY <1>2 DEF Shortened
<1> HIDE DEF g, L
<1>15. TopTypes'
  <2>1. copied' \in SnapshotSet
    BY <1>6, <1>14 DEF SnapshotSet
  <2>. QED  BY <1>1, <1>2, <1>12, <2>1, Zenon DEF TopTypes, ListSet
<1>16. Places(copied')
  <2>1. 0 \in 0 .. Len(g)
    BY <1>5, <1>6
  <2>2. copied'.pc # "idle" /\ copied'.pc # "pick" /\ copied'.pc # "sift" /\ copied'.pc # "popped"
    BY <1>14
  <2>. QED  BY <1>14, <2>1, <2>2, Zenon DEF Places
<1>17. NoMore' /\ \A b \in App : Counted(b)'
  BY <1>1, <1>2, Zenon DEF NoMore, Counted
<1>18. Objects(g)
  BY <1>1, <1>6, Zenon DEF Objects
<1>19. Young'
  BY <1>2, <1>3, Zenon DEF PopsTop, Young
<1>20. CountsRight'
  <2> DEFINE P(y) == /\ y.Requests >= HitsFrom(y.ApplicationId, now - TopAppsEntryLifetime + 1)
                     /\ y.Requests <= HitsFrom(y.ApplicationId, cutoff)
  <2>1. \A k \in 1 .. L : P(listed[k])
    BY <1>3, Zenon DEF PopsTop, CountsRight, L
  <2>2. P(x)
    BY <1>3, <1>7, <1>10, TotalRight, Zenon DEF PopsTop
  <2> HIDE DEF P
  <2>3. \A k \in 1 .. Len(listed') : P(listed'[k])
    BY <1>12, <2>1, <2>2, Zenon
  <2>. QED  BY <1>2, <2>3, Zenon DEF CountsRight, HitsFrom, P
<1>21. NoneMissing'
  <2> SUFFICES ASSUME NEW b \in App, top.m[b] # none
               PROVE  \/ \E k \in 1 .. Len(listed') : listed'[k].ApplicationId = b
                      \/ \E k \in 1 .. Len(g) : g[k] = ObjectOf(b)
    BY <1>2, <1>14, Zenon DEF NoneMissing
  <2>1. CASE \E k \in 1 .. L : listed[k].ApplicationId = b
    BY <1>12, <2>1, Zenon
  <2>2. CASE \E k \in 1 .. N : h[k] = ObjectOf(b)
    <3>1. PICK k \in 1 .. N : h[k] = ObjectOf(b)
      BY <2>2, Zenon
    <3>2. CASE k = N
      <4>1. a = b
        BY <3>1, <3>2, ObjectFacts, Zenon
      <4>. QED  BY <1>10, <1>12, <4>1, Zenon
    <3>3. CASE k \in 1 .. (N - 1)
      BY <1>6, <3>1, <3>3, Zenon
    <3>. QED  BY <1>6, <3>2, <3>3, Zenon
  <2>. QED  BY <1>3, <2>1, <2>2, Zenon DEF PopsTop, NoneMissing, L
<1>22. ASSUME ~trimmed'
       PROVE  Descending' /\ \A v \in Nat : InOrder(copied', AtLeast(top'.total, v))
  <2>1. ~trimmed
    BY <1>2, <1>22, SMT
  <2>2. Descending /\ \A v \in Nat : InOrder(copied, AtLeast(top.total, v))
    BY <1>3, <2>1, Zenon DEF PopsTop
  <2>3. ASSUME NEW k \in 2 .. Len(listed') PROVE listed'[k - 1].Requests >= listed'[k].Requests
    <3>1. CASE k \in 2 .. L
      <4>1. k \in 1 .. L /\ k - 1 \in 1 .. L
        BY <1>12, <3>1
      <4>. QED  BY <1>12, <2>2, <3>1, <4>1, Zenon DEF Descending, L
    <3>2. CASE k = L + 1
      <4>1. k - 1 = L /\ L \in 1 .. L
        BY <1>12, <3>2, SMTT(30)
      <4>2. listed[L].Requests >= top.total[e]
        BY <1>5, <2>2, <4>1, Zenon DEF Descending, L
      <4>3. listed'[k - 1] = listed[L] /\ listed'[k] = x
        BY <1>12, <3>2, <4>1, Zenon
      <4>. QED  BY <1>10, <4>2, <4>3, Zenon
    <3>3. k \in 2 .. L \/ k = L + 1
      BY <1>12
    <3>. QED  BY <3>1, <3>2, <3>3, Zenon
  <2>4. ASSUME NEW k \in 1 .. Len(listed'), NEW l \in 1 .. Len(g)
        PROVE  listed'[k].Requests >= top.total[g[l]]
    <3>1. g[l] = h[l] /\ l \in 1 .. N
      BY <1>6, Zenon
    <3>2. CASE k \in 1 .. L
      BY <1>12, <2>2, <3>1, <3>2, Zenon DEF Descending, L
    <3>3. CASE k = L + 1
      <4> DEFINE v == top.total[h[l]]
      <4>1. h[l] \in Entry
        BY <1>4, <3>1
      <4>2. v \in Nat
        BY <4>1, TopInvFacts, Zenon
      <4>3. v >= v
        <5> HIDE DEF v
        <5>. QED  BY <4>2
      <4>4. h[l] \in AtLeast(top.total, v)
        BY <4>1, <4>3, Zenon DEF AtLeast
      <4>5. LastIn(h, AtLeast(top.total, v))
        BY <1>2, <2>2, <4>2, Zenon DEF InOrder
      <4>6. e \in AtLeast(top.total, v)
        BY <3>1, <4>4, <4>5, Zenon DEF LastIn
      <4>. QED  BY <1>10, <1>12, <3>1, <3>3, <4>6, Zenon DEF AtLeast
    <3>. QED  BY <1>12, <3>2, <3>3, Zenon
  <2>5. ASSUME NEW v \in Nat PROVE InOrder(copied', AtLeast(top.total, v))
    <3> DEFINE G == AtLeast(top.total, v)
    <3>1. Closed(h, G, N - 1)
      BY <1>2, <2>2, Zenon DEF InOrder
    <3>2. Closed(g, G, N - 1)
      <4> HIDE DEF G
      <4> SUFFICES ASSUME NEW k \in 2 .. (N - 1), g[k] \in G PROVE g[k \div 2] \in G
        BY Zenon DEF Closed
      <4>1. k \in 1 .. (N - 1) /\ k \div 2 \in 1 .. (N - 1)
        <5>1. N \in Nat
          BY <1>5
        <5> HIDE DEF N
        <5>. QED  BY <5>1, Half
      <4>. QED  BY <1>6, <3>1, <4>1, Zenon DEF Closed
    <3>3. copied'.pc # "pick" /\ copied'.pc # "sift" /\ copied'.pc # "popped"
      BY <1>14
    <3>. QED  BY <1>6, <1>14, <3>2, <3>3, Zenon DEF InOrder
  <2>. QED  BY <1>2, <1>14, <2>3, <2>4, <2>5, Zenon DEF Descending
<1>23. PopsTop'
  BY <1>19, <1>20, <1>21, <1>22, Zenon DEF PopsTop
<1>24. copied'.pc # "idle"
  BY <1>14
<1>. QED  BY <1>1, <1>2, <1>13, <1>14, <1>15, <1>16, <1>17, <1>18, <1>23, <1>24, Zenon DEF TopInv

(* The list is returned. *)
LEMMA TopReturnKeeps ==
  ASSUME TopInv, TopReturn, UNCHANGED <<now, marks>>
  PROVE  TopInv'
<1>1. /\ TopRight(top) /\ TopTypes /\ NoMore /\ \A b \in App : Counted(b)
  BY Zenon DEF TopInv
<1>2. /\ copied' = NoSnapshot /\ cutoff' = 0 /\ listed' = <<>> /\ trimmed' = FALSE
      /\ top' = top /\ hits' = hits /\ now' = now /\ marks' = marks
  BY Zenon DEF TopReturn
<1>3. Len(<<>>) = 0 /\ ~(\E k \in 1 .. 0 : TRUE)
  OBVIOUS
<1>4. /\ copied'.h = <<>> /\ copied'.pc = "idle" /\ copied' \in SnapshotSet /\ Places(copied')
  BY <1>2 DEF NoSnapshot, SnapshotSet, Places
<1>5. /\ 0 \in -TopAppsEntryLifetime .. MaxTime
      /\ <<>> \in Seq([ApplicationId : App, Requests : 0 .. MaxMarks])
  BY TopAssumption, BoundAssumption
<1>6. TopTypes'
  BY <1>1, <1>2, <1>4, <1>5, Zenon DEF TopTypes
<1>7. NoMore' /\ \A b \in App : Counted(b)'
  BY <1>1, <1>2, Zenon DEF NoMore, Counted
<1>8. Names(<<>>) = <<>>
  BY DEF Names
<1>9. Objects(<<>>) /\ AppsOnce(<<>>, <<>>)
  BY <1>3, Zenon DEF Objects, AppsOnce
<1>10. Objects(copied'.h) /\ AppsOnce(copied'.h, Names(listed'))
  BY <1>2, <1>4, <1>8, <1>9, Zenon
<1>. QED  BY <1>1, <1>2, <1>4, <1>6, <1>7, <1>10, Zenon DEF TopInv

(* Time passes, or a response goes to the other statistics. *)
LEMMA TopWaits ==
  ASSUME TopInv, UNCHANGED topVars, now' \in Time, now' >= now,
         marks' \in 0 .. MaxMarks, marks' >= marks
  PROVE  TopInv'
<1> DEFINE c == now - TopAppsEntryLifetime
           d == now' - TopAppsEntryLifetime
<1>1. /\ top' = top /\ copied' = copied /\ cutoff' = cutoff /\ listed' = listed
      /\ trimmed' = trimmed /\ hits' = hits
  BY Zenon DEF topVars
<1>2. /\ TopRight(top) /\ TopTypes /\ NoMore /\ (\A b \in App : Counted(b)) /\ Places(copied)
      /\ Objects(copied.h) /\ AppsOnce(copied.h, Names(listed))
      /\ (IF copied.pc = "idle" THEN listed = <<>> ELSE PopsTop)
  BY Zenon DEF TopInv
<1>3. c \in Int /\ d \in Int /\ c <= d /\ c + 1 \in Int /\ d + 1 \in Int /\ c + 1 <= d + 1
  <2>1. now \in Time
    BY <1>2, Zenon DEF TopTypes
  <2>2. now \in Int /\ now' \in Int /\ TopAppsEntryLifetime \in Int /\ now <= now'
    BY <2>1, TopAssumption DEF Time
  <2>3. \A i, j, l \in Int :
          /\ i - l \in Int /\ i - l + 1 \in Int
          /\ i <= j => i - l <= j - l /\ i - l + 1 <= j - l + 1
    OBVIOUS
  <2>. QED  BY <2>2, <2>3, Zenon
<1>4. TopTypes'
  BY <1>1, <1>2, Zenon DEF TopTypes
<1>5. NoMore'
  <2>1. marks \in Nat /\ marks' \in Nat
    BY <1>2, BoundAssumption DEF TopTypes
  <2>2. \A v \in Nat : v <= marks => v <= marks'
    BY <2>1
  <2>3. ASSUME NEW e \in Entry PROVE top.total[e] <= marks'
    BY <1>2, <2>2, TopInvFacts, Zenon DEF NoMore
  <2>4. ASSUME NEW a \in App, NEW z \in Time PROVE hits[a][z] <= marks'
    BY <1>2, <2>2, TopInvFacts, Zenon DEF NoMore
  <2>. QED  BY <1>1, <2>3, <2>4, Zenon DEF NoMore
<1>6. ASSUME NEW a \in App PROVE Counted(a)'
  <2>1. CountedIn(top.slots[ObjectOf(a)], hits[a], c)
    BY <1>2, Zenon DEF Counted
  <2> HIDE DEF c, d
  <2>2. \A z \in Time : z > d => z > c
    BY <1>3 DEF Time
  <2>3. CountedIn(top.slots[ObjectOf(a)], hits[a], d)
    BY <2>1, <2>2, Zenon DEF CountedIn
  <2>. QED  BY <1>1, <2>3, Zenon DEF Counted, d
<1>7. ASSUME copied.pc # "idle" PROVE PopsTop'
  <2>1. PopsTop
    BY <1>2, <1>7, Zenon
  <2>2. Young' /\ NoneMissing'
    BY <1>1, <2>1, Zenon DEF PopsTop, Young, NoneMissing
  <2>3. ASSUME NEW k \in 1 .. Len(listed)
        PROVE  /\ listed[k].Requests >= HitsFrom(listed[k].ApplicationId, d + 1)
               /\ listed[k].Requests <= HitsFrom(listed[k].ApplicationId, cutoff)
    <3> DEFINE a == listed[k].ApplicationId
               r == listed[k].Requests
               p == HitsFrom(a, c + 1)
               q == HitsFrom(a, d + 1)
    <3>1. r >= p /\ r <= HitsFrom(a, cutoff)
      BY <2>1, Zenon DEF PopsTop, CountsRight
    <3>2. listed[k] \in [ApplicationId : App, Requests : 0 .. MaxMarks]
      <4>1. listed \in Seq(ListSet)
        BY <1>2, Zenon DEF TopTypes, ListSet
      <4>2. listed[k] \in ListSet
        BY <4>1
      <4>. QED  BY <4>2, Zenon DEF ListSet
    <3>3. a \in App /\ r \in 0 .. MaxMarks
      BY <3>2
    <3>4. hits[a] \in [Time -> Nat]
      BY <3>3, TopInvFacts, Zenon
    <3> HIDE DEF c, d, a, r
    <3>5. /\ p = Sum(From(hits[a], c + 1), MaxTime) /\ q = Sum(From(hits[a], d + 1), MaxTime)
      BY Zenon DEF HitsFrom, From
    <3>6. q <= p
      BY <1>3, <3>4, <3>5, FromFalls, Zenon
    <3>7. ASSUME NEW z \in Int PROVE Sum(From(hits[a], z), MaxTime) \in Nat
      <4>1. IsSum(From(hits[a], z), MaxTime) /\ MaxTime \in Nat
        BY <3>4, FromIs, Zenon
      <4>2. MaxTime \in 0 .. MaxTime
        BY <4>1
      <4>. QED  BY <4>1, <4>2, Zenon DEF IsSum
    <3>8. p \in Nat /\ q \in Nat
      BY <1>3, <3>5, <3>7, Zenon
    <3> HIDE DEF p, q
    <3>9. r >= q
      BY <3>1, <3>3, <3>6, <3>8
    <3>. QED  BY <3>1, <3>9, Zenon DEF a, r, q
  <2>4. CountsRight'
    BY <1>1, <2>3, Zenon DEF CountsRight, HitsFrom
  <2>5. ASSUME ~trimmed'
        PROVE  Descending' /\ \A v \in Nat : InOrder(copied', AtLeast(top'.total, v))
    <3>1. ~trimmed
      BY <1>1, <2>5, SMT
    <3>. QED  BY <1>1, <2>1, <3>1, Zenon DEF PopsTop, Descending
  <2>. QED  BY <2>2, <2>4, <2>5, Zenon DEF PopsTop
<1>8. IF copied'.pc = "idle" THEN listed' = <<>> ELSE PopsTop'
  BY <1>1, <1>2, <1>7, Zenon
<1>. QED  BY <1>1, <1>2, <1>4, <1>5, <1>6, <1>8, Zenon DEF TopInv

-----------------------------------------------------------------------------
(* Every behaviour. *)

LEMMA TopInitInv ==
  ASSUME TopInit, now = 1, marks = 0
  PROVE  TopInv
<1> DEFINE m == [a \in App |-> none]
           s == [e \in Entry |-> <<>>]
           n == [e \in Entry |-> 0]
           f == [a \in App |-> [z \in Time |-> 0]]
<1>0. /\ top = [m |-> m, t |-> EmptyHeap, n |-> EmptyHeap, slots |-> s, total |-> n, ok |-> TRUE]
      /\ copied = NoSnapshot /\ cutoff = 0 /\ listed = <<>> /\ trimmed = FALSE /\ hits = f
  BY Zenon DEF TopInit
<1>1. /\ 0 \in 0 .. MaxMarks /\ 1 \in Time /\ 0 \in -TopAppsEntryLifetime .. MaxTime
      /\ 0 \in Nat /\ 0 <= 0 /\ ~(0 > 0)
  BY BoundAssumption, TopAssumption DEF Time
<1>2. /\ Len(<<>>) = 0 /\ ~(\E k \in 1 .. Len(<<>>) : TRUE) /\ ~(\E k \in 2 .. Len(<<>>) : TRUE)
      /\ \A S : <<>> \in Seq(S)
  OBVIOUS
<1>3. m \in [App -> Entry \cup {none}] /\ (\A a \in App : m[a] = none) /\ KnownIn(m) = {}
  BY Zenon DEF KnownIn
<1>4. s \in [Entry -> Seq(SlotSet)] /\ (\A e \in Entry : s[e] = <<>>)
  BY <1>2, Zenon
<1>5. n \in [Entry -> Nat] /\ (\A e \in Entry : n[e] = 0)
  BY <1>1, Zenon
<1>6. f \in [App -> [Time -> 0 .. MaxMarks]] /\ \A a \in App : \A z \in Time : f[a][z] = 0
  BY <1>1, Zenon
<1> HIDE DEF m, s, n, f
<1>7. EmptyHeap \in HeapSet /\ EmptyHeap.h = <<>> /\ \A e \in Entry : EmptyHeap.pos[e] = 0
  BY DEF EmptyHeap, HeapSet
<1>8. /\ top \in TopState /\ top.m = m /\ top.t = EmptyHeap /\ top.n = EmptyHeap
      /\ top.slots = s /\ top.total = n /\ top.ok
  BY <1>0, <1>3, <1>4, <1>5, <1>7 DEF TopState
<1>9. RequestsIn(<<>>, 0) = 0 /\ InTime(<<>>)
  <2>1. RequestsIn(<<>>, 0) = 0
    <3>1. <<>> \in Seq(SlotSet)
      BY <1>2, Zenon
    <3>2. AddsUp(<<>>)
      BY <1>2, <3>1, SlotsAddUp, Zenon
    <3>. QED  BY <3>2, Zenon DEF AddsUp
  <2>. QED  BY <1>2, <2>1, Zenon DEF InTime
<1>10. TopRight(top)
  <2>1. MapRight(m)
    BY <1>3, Zenon DEF MapRight
  <2>2. \A e \in Entry : SlotsRight(top, e)
    BY <1>2, <1>4, <1>5, <1>8, <1>9, Zenon DEF SlotsRight
  <2>3. {EmptyHeap.h[k] : k \in 1 .. Len(EmptyHeap.h)} = {}
    BY <1>2, <1>7, Zenon
  <2>4. Placed(EmptyHeap, {})
    BY <1>2, <1>7, <2>3, Zenon DEF Placed
  <2>5. \A key : InHeap(EmptyHeap, key, {})
    BY <1>2, <1>7, <2>4, Zenon DEF InHeap, Sorted
  <2>6. HeapsHold(top, {})
    BY <1>8, <2>5, Zenon DEF HeapsHold
  <2>. QED  BY <1>3, <1>4, <1>8, <2>1, <2>2, <2>6, Zenon DEF TopRight, TopHolds
<1>11. copied.h = <<>> /\ copied.pc = "idle" /\ copied \in SnapshotSet /\ Places(copied)
  BY <1>0 DEF NoSnapshot, SnapshotSet, Places
<1>12. TopTypes
  BY <1>0, <1>1, <1>2, <1>6, <1>11, Zenon DEF TopTypes
<1>13. NoMore
  BY <1>0, <1>1, <1>5, <1>6, <1>8, Zenon DEF NoMore
<1>14. ASSUME NEW a \in App PROVE Counted(a)
  <2>1. top.slots[ObjectOf(a)] = <<>>
    BY <1>4, <1>8, ObjectFacts, Zenon
  <2>. QED  BY <1>0, <1>1, <1>2, <1>6, <2>1, Zenon DEF Counted, CountedIn
<1>15. Names(<<>>) = <<>>
  BY DEF Names
<1>16. Objects(<<>>) /\ AppsOnce(<<>>, <<>>)
  BY <1>2, Zenon DEF Objects, AppsOnce
<1>17. Objects(copied.h) /\ AppsOnce(copied.h, Names(listed))
  BY <1>0, <1>11, <1>15, <1>16, Zenon
<1>. QED  BY <1>0, <1>10, <1>11, <1>12, <1>13, <1>14, <1>17, Zenon DEF TopInv

LEMMA TopNextInv ==
  ASSUME TopInv, [TopNext]_<<topVars, now, marks>>
  PROVE  TopInv'
<1>0. now \in Time /\ marks \in 0 .. MaxMarks
  BY Zenon DEF TopInv, TopTypes
<1>1. ASSUME NEW a \in App, NEW z \in 1 .. now, MarkTop(a, z), Response PROVE TopInv'
  <2>1. z \in Time
    BY <1>0, <1>1, BoundAssumption DEF Time
  <2>. QED  BY <1>1, <2>1, MarkTopKeeps, Zenon
<1>2. ASSUME UNCHANGED <<now, marks>>,
             TrimTop \/ TopSince \/ TopPop \/ TopDown \/ TopCollect \/ TopReturn
      PROVE  TopInv'
  <2>1. CASE TrimTop
    BY <1>2, <2>1, TrimTopKeeps, Zenon
  <2>2. CASE TopSince
    BY <1>2, <2>2, TopSinceKeeps, Zenon
  <2>3. CASE TopPop
    BY <1>2, <2>3, TopPopKeeps, Zenon
  <2>4. CASE TopDown
    BY <1>2, <2>4, TopDownKeeps, Zenon
  <2>5. CASE TopCollect
    BY <1>2, <2>5, TopCollectKeeps, Zenon
  <2>6. CASE TopReturn
    BY <1>2, <2>6, TopReturnKeeps, Zenon
  <2>. QED  BY <1>2, <2>1, <2>2, <2>3, <2>4, <2>5, <2>6, Zenon
<1>3. ASSUME Tick \/ UNCHANGED <<now, marks>>, UNCHANGED topVars PROVE TopInv'
  <2>1. now' \in Time /\ now' >= now /\ marks' \in 0 .. MaxMarks /\ marks' >= marks
    BY <1>0, <1>3, BoundAssumption DEF Tick, Time
  <2>. QED  BY <1>3, <2>1, TopWaits, Zenon
<1>. QED  BY <1>1, <1>2, <1>3, Zenon DEF TopNext

-----------------------------------------------------------------------------
(* Theorems. *)

(* The inductive invariant holds in every reachable state of TopApps: the map,
   the slots and both heaps are in step, the slots hold the requests of the
   entry's lifetime, and the copy is popped in the order of the totals. *)
THEOREM TopInvariant == TopSpec => []TopInv
<1>1. TopInit /\ now = 1 /\ marks = 0 => TopInv
  BY TopInitInv, Zenon
<1>2. TopInv /\ [TopNext]_<<topVars, now, marks>> => TopInv'
  BY TopNextInv, Zenon
<1>. QED  BY <1>1, <1>2, PTL DEF TopSpec

LEMMA TopTypesFollow ==
  ASSUME TopInv
  PROVE  TopTypeOK
(* The slots count no more requests than there can be. *)
<1>SlotsBounded.
  ASSUME TopInv, NEW e \in Entry
  PROVE  top.slots[e] \in Seq([t : Time, n : 1 .. MaxMarks])
  <2> USE <1>SlotsBounded
  <2> DEFINE s == top.slots[e]
             S == [t : Time, n : 1 .. MaxMarks]
  <2>1. /\ s \in Seq(SlotSet) /\ (e \in KnownIn(top.m) <=> s # <<>>) /\ MapRight(top.m)
    BY TopInvFacts, Zenon
  <2>2. ASSUME NEW k \in 1 .. Len(s) PROVE s[k] \in S
    <3>1. s # <<>>
      <4>1. Len(<<>>) = 0 /\ ~(\E j \in 1 .. 0 : TRUE)
        OBVIOUS
      <4>. QED  BY <2>2, <4>1, Zenon
    <3>2. PICK a \in App : e = ObjectOf(a)
      BY <2>1, <3>1, KnownFacts, Zenon
    <3>3. s[k].n <= hits[a][s[k].t]
      BY <2>2, <3>2, Zenon DEF TopInv, Counted, CountedIn
    <3>4. s[k] \in SlotSet
      <4> HIDE DEF s
      <4>. QED  BY <2>1, <2>2
    <3>5. s[k].t \in Time /\ s[k].n \in Nat \ {0} /\ s[k] = [t |-> s[k].t, n |-> s[k].n]
      <4> HIDE DEF s
      <4>. QED  BY <3>4 DEF SlotSet
    <3>6. hits[a][s[k].t] \in 0 .. MaxMarks
      BY <3>5, TopInvFacts, Zenon
    <3> DEFINE i == s[k].n
               j == hits[a][s[k].t]
    <3>7. i \in Nat \ {0} /\ j \in 0 .. MaxMarks /\ i <= j
      BY <3>3, <3>5, <3>6, Zenon
    <3> HIDE DEF i, j
    <3>8. i \in 1 .. MaxMarks
      BY <3>7, BoundAssumption
    <3>9. s[k].n \in 1 .. MaxMarks
      BY <3>8, Zenon DEF i
    <3> HIDE DEF s
    <3>. QED  BY <3>5, <3>9
  <2> HIDE DEF s, S
  <2>3. s \in Seq(S)
    BY <2>1, <2>2
  <2>. QED  BY <2>3, Zenon DEF s, S
<1>1. TopTypes /\ Places(copied) /\ NoMore
  BY Zenon DEF TopInv
<1>2. top \in TopState
  BY TopInvFacts, Zenon
<1>3. /\ top.m \in [App -> Entry \cup {none}] /\ top.t \in HeapSet /\ top.n \in HeapSet
      /\ top.slots \in [Entry -> Seq(SlotSet)] /\ top.total \in [Entry -> Nat] /\ top.ok \in BOOLEAN
  BY <1>2, Zenon DEF TopState
<1>4. \A G \in HeapSet : IsHeap(G)
  BY Zenon DEF HeapSet, IsHeap
<1>5. copied \in SnapshotSet
  BY <1>1, Zenon DEF TopTypes
<1>6. IsSnapshot(copied)
  BY <1>1, <1>5 DEF SnapshotSet, Places, IsSnapshot
<1>7. top.slots \in [Entry -> Seq([t : Time, n : 1 .. MaxMarks])]
  BY <1>3, <1>SlotsBounded, Zenon
<1>8. top.total \in [Entry -> 0 .. MaxMarks]
  <2>1. marks \in 0 .. MaxMarks
    BY <1>1, Zenon DEF TopTypes
  <2>2. \A v \in Nat : v <= marks => v \in 0 .. MaxMarks
    BY <2>1, BoundAssumption
  <2>3. \A e \in Entry : top.total[e] \in 0 .. MaxMarks
    BY <1>1, <1>3, <2>2, Zenon DEF NoMore
  <2>. QED  BY <1>3, <2>3, Zenon
<1>. QED  BY <1>1, <1>3, <1>4, <1>6, <1>7, <1>8, Zenon DEF TopTypeOK, TopTypes

(* The map, the heaps, the slots, the totals and the list stay well-typed, no
   slot counts no request, and nothing is counted more often than there were
   responses. *)
THEOREM TopTypeCorrect == TopSpec => []TopTypeOK
<1>1. TopInv => TopTypeOK
  BY TopTypesFollow, Zenon
<1>. QED  BY <1>1, TopInvariant, PTL

(* Mark, Trim and TopSince reach no panic and keep both heaps in order, with the
   entries of the map and no other; every entry has slots, in order of time, and
   its total is the sum of theirs. *)
THEOREM TopHeaps == TopSpec => []TopHeapsInStep
<1>1. TopInv => TopHeapsInStep
  <2> SUFFICES ASSUME TopInv PROVE TopHeapsInStep
    BY Zenon
  <2>1. /\ top \in TopState /\ top.ok /\ MapRight(top.m)
        /\ \A e \in Entry : /\ InTime(top.slots[e])
                            /\ (e \in KnownIn(top.m) <=> top.slots[e] # <<>>)
                            /\ top.total[e] = RequestsIn(top.slots[e], Len(top.slots[e]))
    BY TopInvFacts, Zenon
  <2>2. HeapsHold(top, KnownIn(top.m))
    BY Zenon DEF TopInv, TopRight, TopHolds
  <2>3. /\ top.t \in HeapSet /\ top.n \in HeapSet
        /\ FirstSlot(top.slots) \in [Entry -> Int] /\ More(top.total) \in [Entry -> Int]
    <3>1. /\ top.t \in HeapSet /\ top.n \in HeapSet
      BY <2>1, Zenon DEF TopState
    <3>. QED  BY <2>1, <3>1, TopKeys, Zenon
  <2>4. /\ HeapOf(top.t, FirstSlot(top.slots), KnownIn(top.m))
        /\ HeapOf(top.n, More(top.total), KnownIn(top.m))
    BY <2>2, <2>3, InHeapIs, Zenon DEF HeapsHold
  <2>5. KnownIn(top.m) \subseteq Entry
    BY <2>1, KnownFacts, Zenon
  <2>6. Known = KnownIn(top.m)
    BY Zenon DEF Known, KnownIn
  <2>. QED  BY <2>1, <2>4, <2>5, <2>6, Zenon DEF TopHeapsInStep, InTime
<1>. QED  BY <1>1, TopInvariant, PTL

(* Trim leaves no entry whose first slot is older than the lifetime. *)
THEOREM TrimComplete == TopSpec => TrimTopComplete
<1>1. TopInv /\ TrimTop =>
        \A a \in App : top'.m[a] # none => top'.slots[top'.m[a]][1].t > now - TopAppsEntryLifetime
  <2> SUFFICES ASSUME TopInv, TrimTop, NEW a \in App, top'.m[a] # none
               PROVE  top'.slots[top'.m[a]][1].t > now - TopAppsEntryLifetime
    BY Zenon
  <2>1. TopRight(top) /\ now - TopAppsEntryLifetime \in Int
    BY TopInvFacts, Zenon DEF TopInv
  <2>2. top' = TopTrimmed(top, now - TopAppsEntryLifetime)
    BY Zenon DEF TrimTop
  <2>3. AllAfter(top', now - TopAppsEntryLifetime)
    BY <2>1, <2>2, TopTrimIs, Zenon DEF TopTrimmedRight
  <2>4. top'.m[a] \in KnownIn(top'.m)
    BY Zenon DEF KnownIn
  <2>. QED  BY <2>3, <2>4, Zenon DEF AllAfter
<1>. QED  BY <1>1, TopInvariant, PTL DEF TrimTopComplete

(* What TopSince returns, although Trim runs while it pops its copy: no
   application twice, counts that miss no request younger than the lifetime and
   have none older than the list, every application with such a request unless
   the list is full, and, if Trim has not run meanwhile, the applications with
   the most requests in order. *)
THEOREM TopListCorrect == TopSpec => TopListRight
(* What an application that the map does not have was asked for lately. *)
<1>UnknownUnused.
  ASSUME TopInv, NEW a \in App, top.m[a] = none
  PROVE  HitsFrom(a, now - TopAppsEntryLifetime + 1) = 0
  <2> USE <1>UnknownUnused
  <2> DEFINE e == ObjectOf(a)
             c == now - TopAppsEntryLifetime + 1
             q == HitsFrom(a, c)
  <2>1. /\ e \in Entry /\ MapRight(top.m) /\ (e \in KnownIn(top.m) <=> top.slots[e] # <<>>)
        /\ top.slots[e] \in Seq(SlotSet)
        /\ top.total[e] = RequestsIn(top.slots[e], Len(top.slots[e]))
        /\ hits[a] \in [Time -> Nat] /\ now - TopAppsEntryLifetime \in Int
    BY ObjectFacts, TopInvFacts, Zenon
  <2>2. top.slots[e] = <<>>
    BY <2>1, KnownFacts, Zenon
  <2>3. top.total[e] = 0
    <3>1. AddsUp(<<>>)
      BY <2>1, <2>2, SlotsAddUp, Zenon
    <3>2. Len(<<>>) = 0
      OBVIOUS
    <3>. QED  BY <2>1, <2>2, <3>1, <3>2, Zenon DEF AddsUp
  <2>4. top.total[e] >= q
    BY TotalRight, Zenon
  <2>5. q \in Nat
    <3>1. c \in Int
      <4> DEFINE d == now - TopAppsEntryLifetime
      <4>1. d \in Int
        BY <2>1, Zenon
      <4> HIDE DEF d
      <4>2. d + 1 \in Int
        BY <4>1
      <4>. QED  BY <4>2, Zenon DEF d
    <3> HIDE DEF c
    <3>2. IsSum(From(hits[a], c), MaxTime) /\ MaxTime \in Nat
      BY <2>1, <3>1, FromIs, Zenon
    <3>3. MaxTime \in 0 .. MaxTime
      BY <3>2
    <3>4. q = Sum(From(hits[a], c), MaxTime)
      BY Zenon DEF HitsFrom, From
    <3>. QED  BY <3>2, <3>3, <3>4, Zenon DEF IsSum
  <2>6. 0 >= q
    BY <2>3, <2>4, Zenon
  <2> HIDE DEF q
  <2>7. q = 0
    BY <2>5, <2>6
  <2>. QED  BY <2>7, Zenon DEF q
<1>1. TopInv /\ TopReturn =>
       /\ \A k, l \in 1 .. Len(listed) :
            listed[k].ApplicationId = listed[l].ApplicationId => k = l
       /\ \A k \in 1 .. Len(listed) :
            /\ listed[k].Requests >= HitsFrom(listed[k].ApplicationId, now - TopAppsEntryLifetime + 1)
            /\ listed[k].Requests <= HitsFrom(listed[k].ApplicationId, cutoff)
       /\ Len(listed) < Limit =>
            \A a \in App \ ListedApps : HitsFrom(a, now - TopAppsEntryLifetime + 1) = 0
       /\ ~trimmed =>
            /\ \A k \in 2 .. Len(listed) : listed[k - 1].Requests >= listed[k].Requests
            /\ \A a \in App \ ListedApps, k \in 1 .. Len(listed) :
                 listed[k].Requests >= HitsFrom(a, now - TopAppsEntryLifetime + 1)
  <2> SUFFICES ASSUME TopInv, TopReturn
               PROVE  /\ \A k, l \in 1 .. Len(listed) :
                           listed[k].ApplicationId = listed[l].ApplicationId => k = l
                      /\ CountsRight
                      /\ Len(listed) < Limit =>
                           \A a \in App \ ListedApps :
                             HitsFrom(a, now - TopAppsEntryLifetime + 1) = 0
                      /\ ~trimmed =>
                           /\ \A k \in 2 .. Len(listed) :
                                listed[k - 1].Requests >= listed[k].Requests
                           /\ \A a \in App \ ListedApps, k \in 1 .. Len(listed) :
                                listed[k].Requests >= HitsFrom(a, now - TopAppsEntryLifetime + 1)
    BY Zenon DEF CountsRight
  <2>1. copied.pc = "pop" /\ (copied.h = <<>> \/ Len(listed) = Limit)
    BY Zenon DEF TopReturn
  <2>2. PopsTop /\ AppsOnce(copied.h, Names(listed)) /\ listed \in Seq(ListSet)
    <3>1. copied.pc # "idle"
      BY <2>1
    <3>. QED  BY <3>1, Zenon DEF TopInv, TopTypes, ListSet
  <2>3. Len(listed) \in Nat /\ Len(Names(listed)) = Len(listed)
        /\ \A k \in 1 .. Len(listed) : Names(listed)[k] = listed[k].ApplicationId
    BY <2>2 DEF Names
  <2>4. \A k, l \in 1 .. Len(listed) : listed[k].ApplicationId = listed[l].ApplicationId => k = l
    <3>1. ASSUME NEW k \in 1 .. Len(listed), NEW l \in 1 .. Len(listed),
                 listed[k].ApplicationId = listed[l].ApplicationId
          PROVE  k = l
      <4>1. Names(listed)[k] = Names(listed)[l]
        BY <2>3, <3>1, Zenon
      <4>2. k \in 1 .. Len(Names(listed)) /\ l \in 1 .. Len(Names(listed))
        BY <2>3, Zenon
      <4>. QED  BY <2>2, <4>1, <4>2, Zenon DEF AppsOnce
    <3>. QED  BY <3>1, Zenon
  <2>5. ASSUME NEW a \in App \ ListedApps, top.m[a] # none
        PROVE  \E k \in 1 .. Len(copied.h) : copied.h[k] = ObjectOf(a)
    BY <2>2, <2>5, Zenon DEF PopsTop, NoneMissing, ListedApps
  <2>6. ASSUME Len(listed) < Limit, NEW a \in App \ ListedApps
        PROVE  HitsFrom(a, now - TopAppsEntryLifetime + 1) = 0
    <3>1. Len(listed) # Limit
      BY <2>3, <2>6, TopAssumption
    <3>2. Len(<<>>) = 0 /\ ~(\E k \in 1 .. 0 : TRUE)
      OBVIOUS
    <3>3. top.m[a] = none
      BY <2>1, <2>5, <3>1, <3>2, Zenon
    <3>. QED  BY <3>3, <1>UnknownUnused, Zenon
  <2>7. ASSUME ~trimmed PROVE Descending
    BY <2>2, <2>7, Zenon DEF PopsTop
  <2>8. ASSUME ~trimmed, NEW a \in App \ ListedApps, NEW k \in 1 .. Len(listed)
        PROVE  listed[k].Requests >= HitsFrom(a, now - TopAppsEntryLifetime + 1)
    <3> DEFINE q == HitsFrom(a, now - TopAppsEntryLifetime + 1)
               r == listed[k].Requests
    <3>1. r \in 0 .. MaxMarks
      <4>1. listed[k] \in ListSet
        BY <2>2
      <4>. QED  BY <4>1 DEF ListSet
    <3>2. CASE top.m[a] = none
      <4>1. q = 0
        BY <3>2, <1>UnknownUnused, Zenon
      <4> HIDE DEF q, r
      <4>2. r >= q
        BY <3>1, <4>1
      <4>. QED  BY <4>2, Zenon DEF q, r
    <3>3. CASE top.m[a] # none
      <4>1. PICK l \in 1 .. Len(copied.h) : copied.h[l] = ObjectOf(a)
        BY <2>5, <3>3, Zenon
      <4>2. r >= top.total[ObjectOf(a)]
        BY <2>7, <2>8, <4>1, Zenon DEF Descending
      <4>3. top.total[ObjectOf(a)] >= q
        BY TotalRight, Zenon
      <4>4. top.total[ObjectOf(a)] \in Nat
        BY ObjectFacts, TopInvFacts, Zenon
      <4>5. q \in Int
        <5>1. hits[a] \in [Time -> Nat] /\ now \in Nat /\ TopAppsEntryLifetime \in Nat
          BY TopInvFacts, Zenon
        <5>2. now - TopAppsEntryLifetime + 1 \in Int
          BY <5>1
        <5> DEFINE c == now - TopAppsEntryLifetime + 1
        <5> HIDE DEF c
        <5>3. IsSum(From(hits[a], c), MaxTime) /\ MaxTime \in Nat
          BY <5>1, <5>2, FromIs, Zenon DEF c
        <5>4. MaxTime \in 0 .. MaxTime /\ \A v \in Nat : v \in Int
          BY <5>3
        <5>5. q = Sum(From(hits[a], c), MaxTime)
          BY Zenon DEF HitsFrom, From, c
        <5>. QED  BY <5>3, <5>4, <5>5, Zenon DEF IsSum
      <4> DEFINE w == top.total[ObjectOf(a)]
      <4>6. w \in Nat /\ r >= w /\ w >= q /\ q \in Int
        BY <4>2, <4>3, <4>4, <4>5, Zenon
      <4> HIDE DEF q, r, w
      <4>7. r >= q
        BY <3>1, <4>6
      <4>. QED  BY <4>7, Zenon DEF q, r
    <3>. QED  BY <3>2, <3>3, Zenon
  <2>. QED  BY <2>2, <2>4, <2>6, <2>7, <2>8, Zenon DEF PopsTop, Descending
<1>. QED  BY <1>1, TopInvariant, PTL DEF TopListRight
=============================================================================
