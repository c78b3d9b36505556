------------------------------- MODULE AppHeap -------------------------------
(***************************************************************************)
(* The heaps of the application statistics: src/stats/heap.go under Go's   *)
(* container/heap.  A heap is a list of entries together with the position *)
(* each entry records of itself (SetIndex): one more than in the code, so  *)
(* 0 says that the entry is in no heap.  An entry comes before another if  *)
(* its key is smaller; a heap by descending time or count has negated      *)
(* keys.                                                                   *)
(***************************************************************************)
EXTENDS Integers, Sequences

CONSTANTS
  App,       \* application ids
  MaxTime,   \* bound: the clock stops there
  MaxMarks   \* bound: responses that are counted

ASSUME BoundAssumption == MaxTime \in Nat \ {0} /\ MaxMarks \in Nat

VARIABLES
  now,       \* the time, in seconds
  marks      \* how many responses there were

Time == 1 .. MaxTime

(* The entry objects: a map entry that was deleted may live on in a snapshot
   while a new one stands for the application. *)
Entry == [ApplicationId : App, object : {1, 2}]

EmptyHeap == [h |-> <<>>, pos |-> [e \in Entry |-> 0]]

IsHeap(H) == H.h \in Seq(Entry) /\ H.pos \in [Entry -> Nat]

Tick ==
  /\ now < MaxTime
  /\ now' = now + 1
  /\ UNCHANGED marks

(* CaptureRoutingResponse calls Mark once for each response. *)
Response ==
  /\ marks < MaxMarks
  /\ marks' = marks + 1
  /\ UNCHANGED now

-----------------------------------------------------------------------------
(* heap.go *)

(* Mutant of Swap: the second entry keeps its old index. *)
SwapHalf(H, a, b) ==
  LET h == [H.h EXCEPT ![a] = H.h[b], ![b] = H.h[a]]
  IN [h |-> h, pos |-> [H.pos EXCEPT ![h[a]] = a]]

Swap(H, a, b) ==
  LET h == [H.h EXCEPT ![a] = H.h[b], ![b] = H.h[a]]
  IN [h |-> h, pos |-> [H.pos EXCEPT ![h[a]] = a, ![h[b]] = b]]

Push(H, e) ==
  [h |-> Append(H.h, e), pos |-> [H.pos EXCEPT ![e] = Len(H.h) + 1]]

Pop(H) ==
  LET n == Len(H.h)
  IN [h |-> SubSeq(H.h, 1, n - 1), pos |-> [H.pos EXCEPT ![H.h[n]] = 0]]

-----------------------------------------------------------------------------
(* container/heap *)

Less(h, key, a, b) == key[h[a]] < key[h[b]]

(* An iteration of up for the entry at x.at; once the loop is left, x stays. *)
UpStep(x, key) ==
  LET a == x.at \div 2 IN
  IF a = 0 \/ ~Less(x.heap.h, key, x.at, a) THEN x
  ELSE [heap |-> Swap(x.heap, a, x.at), at |-> a]

up(H, key, b) ==
  LET s[k \in 0 .. b] ==
        IF k = 0 THEN [heap |-> H, at |-> b] ELSE UpStep(s[k - 1], key)
  IN s[b].heap

(* The child of a that down compares a with, among the first n entries. *)
SmallerChild(h, key, a, n) ==
  IF 2 * a + 1 <= n /\ ~Less(h, key, 2 * a, 2 * a + 1) THEN 2 * a + 1 ELSE 2 * a

(* An iteration of down for the entry at x.at, likewise. *)
DownStep(x, key, n) ==
  LET b == SmallerChild(x.heap.h, key, x.at, n) IN
  IF 2 * x.at > n \/ ~Less(x.heap.h, key, b, x.at) THEN x
  ELSE [heap |-> Swap(x.heap, x.at, b), at |-> b]

down(H, key, a, n) ==
  LET s[k \in 0 .. n] ==
        IF k = 0 THEN [heap |-> H, at |-> a] ELSE DownStep(s[k - 1], key, n)
  IN s[n].heap

HeapPush(H, key, e) == up(Push(H, e), key, Len(H.h) + 1)

HeapPop(H, key) ==
  LET n == Len(H.h) IN Pop(down(Swap(H, 1, n), key, 1, n - 1))

HeapRemove(H, key, a) ==
  LET n == Len(H.h) IN
  IF a = n THEN Pop(H) ELSE Pop(up(down(Swap(H, a, n), key, a, n - 1), key, a))

-----------------------------------------------------------------------------
(* Popping a snapshot of a heap (Copy, and SetIndex as a no-op) without the
   lock: the keys may change between any two comparisons of down.  The steps
   of one Pop: the first entry goes to the end, down picks a child, compares
   it with the entry on its way, and goes on below. *)

NoSnapshot == [pc |-> "idle", h |-> <<>>, at |-> 0, child |-> 0]

Snapshot(H) == [pc |-> "pop", h |-> H.h, at |-> 0, child |-> 0]

IsSnapshot(s) ==
  /\ s.pc \in {"idle", "pop", "pick", "sift", "popped"}
  /\ s.h \in Seq(Entry)
  /\ s.at \in 0 .. Len(s.h)
  /\ s.child \in 0 .. Len(s.h)

Swapped(h, a, b) == [h EXCEPT ![a] = h[b], ![b] = h[a]]

PopStarted(s) ==
  [pc |-> "pick", h |-> Swapped(s.h, 1, Len(s.h)), at |-> 1, child |-> 0]

Picked(s, key) ==
  LET n == Len(s.h) - 1 IN
  IF 2 * s.at > n THEN [s EXCEPT !.pc = "popped"]
  ELSE [s EXCEPT !.pc = "sift", !.child = SmallerChild(s.h, key, s.at, n)]

Sifted(s, key) ==
  IF Less(s.h, key, s.child, s.at)
    THEN [pc |-> "pick", h |-> Swapped(s.h, s.at, s.child), at |-> s.child, child |-> 0]
    ELSE [s EXCEPT !.pc = "popped"]

(* The entry that was popped, and the snapshot without it. *)
PoppedEntry(s) == s.h[Len(s.h)]

Shortened(s) ==
  [pc |-> "pop", h |-> SubSeq(s.h, 1, Len(s.h) - 1), at |-> 0, child |-> 0]

-----------------------------------------------------------------------------

(* The heap holds these entries, each once, each knowing its place, and no
   entry comes before its parent. *)
HeapOf(H, key, entries) ==
  /\ {H.h[a] : a \in 1 .. Len(H.h)} = entries
  /\ \A a \in 1 .. Len(H.h) : H.pos[H.h[a]] = a
  /\ \A e \in Entry \ entries : H.pos[e] = 0
  /\ \A a \in 2 .. Len(H.h) : ~Less(H.h, key, a, a \div 2)
=============================================================================
