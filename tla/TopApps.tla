------------------------------- MODULE TopApps -------------------------------
(***************************************************************************)
(* Which applications have had the most requests lately                    *)
(* (src/stats/top_apps.go), as src/varz/varz.go uses it: responses and the *)
(* varz page exclude each other by varz's lock, which the page holds until *)
(* TopSince has returned.  The trimming ticker takes only the lock of      *)
(* TopApps, so it runs while TopSince pops its copy of the heap.           *)
(***************************************************************************)
EXTENDS AppHeap

CONSTANTS
  TopAppsEntryLifetime,
  Limit,                    \* how many applications the varz page lists
  none                      \* what the map returns for an unknown application

ASSUME TopAssumption ==
  TopAppsEntryLifetime \in Nat /\ Limit \in Nat /\ none \notin Entry

VARIABLES
  top,        \* TopApps: the map m, the heaps t (by first slot) and n (by
              \* -requests), the slots and the total n of each entry, and
              \* whether no panic has been reached
  copied,     \* the copy of the heap n that TopSince pops
  cutoff,     \* y, the argument of TopSince
  listed,     \* the list it collects
  trimmed,    \* history: Trim has run since the copy was made
  hits        \* history: requests by application and by the slot they went to

topVars == <<top, copied, cutoff, listed, trimmed, hits>>

(* The keys of the two heaps. *)
FirstSlot(slots) == [e \in Entry |-> IF slots[e] = <<>> THEN 0 ELSE slots[e][1].t]

More(total) == [e \in Entry |-> -total[e]]

TopTypeOK ==
  /\ top.m \in [App -> Entry \cup {none}]
  /\ IsHeap(top.t) /\ IsHeap(top.n)
  /\ top.slots \in [Entry -> Seq([t : Time, n : 1 .. MaxMarks])]
  /\ top.total \in [Entry -> 0 .. MaxMarks]
  /\ top.ok \in BOOLEAN
  /\ IsSnapshot(copied)
  /\ cutoff \in -TopAppsEntryLifetime .. MaxTime
  /\ listed \in Seq([ApplicationId : App, Requests : 0 .. MaxMarks])
  /\ trimmed \in BOOLEAN
  /\ hits \in [App -> [Time -> 0 .. MaxMarks]]

TopInit ==
  /\ top = [m |-> [a \in App |-> none], t |-> EmptyHeap, n |-> EmptyHeap,
            slots |-> [e \in Entry |-> <<>>], total |-> [e \in Entry |-> 0], ok |-> TRUE]
  /\ copied = NoSnapshot
  /\ cutoff = 0
  /\ listed = <<>>
  /\ trimmed = FALSE
  /\ hits = [a \in App |-> [z \in Time |-> 0]]

Known == {top.m[a] : a \in App} \ {none}

-----------------------------------------------------------------------------
(* topAppsEntry *)

Sum(g, n) == LET s[k \in 0 .. n] == IF k = 0 THEN 0 ELSE s[k - 1] + g[k] IN s[n]

(* The requests of the first i slots. *)
RequestsIn(slots, i) == Sum([k \in 1 .. Len(slots) |-> slots[k].n], i)

(* A request that started before the last slot goes to the last slot. *)
GoesToLast(slots, z) == slots # <<>> /\ slots[Len(slots)].t >= z

Marked(slots, z) ==
  IF GoesToLast(slots, z) THEN [slots EXCEPT ![Len(slots)].n = @ + 1]
  ELSE Append(slots, [t |-> z, n |-> 1])

(* How many slots Trim removes for z: those before the first one after z. *)
Gone(slots, z) ==
  CHOOSE i \in 0 .. Len(slots) :
    /\ \A k \in 1 .. i : slots[k].t <= z
    /\ i < Len(slots) => slots[i + 1].t > z

(* Trim time slots up to and including z. *)
After(slots, z) == SubSeq(slots, Gone(slots, z) + 1, Len(slots))

-----------------------------------------------------------------------------

(* The entry at the index that entry e has recorded is e itself. *)
AtItsIndex(H, e) == H.pos[e] \in 1 .. Len(H.h) /\ H.h[H.pos[e]] = e

(* Takes e out of the heaps, and puts it in again. *)
Taken(x, e) ==
  [x EXCEPT !.t = HeapRemove(@, FirstSlot(x.slots), @.pos[e]),
            !.n = HeapRemove(@, More(x.total), @.pos[e])]

PutBack(x, e) ==
  [x EXCEPT !.t = HeapPush(@, FirstSlot(x.slots), e),
            !.n = HeapPush(@, More(x.total), e)]

WithMark(x, e, z) ==
  [x EXCEPT !.slots[e] = Marked(@, z), !.total[e] = @ + 1,
            !.m[e.ApplicationId] = e]

(* No copy is in use when an entry is made, so one object is enough. *)
ObjectOf(a) == [ApplicationId |-> a, object |-> 1]

Count(a, z) ==
  LET slots == top.slots[ObjectOf(a)]
      to    == IF GoesToLast(slots, z) THEN slots[Len(slots)].t ELSE z
  IN hits' = [hits EXCEPT ![a][to] = @ + 1]

(* Mark, for a response to a request that started at z. *)
MarkTop(a, z) ==
  LET e == ObjectOf(a) IN
  /\ top.ok
  /\ copied.pc = "idle"
  /\ top' = IF top.m[a] = none THEN PutBack(WithMark(top, e, z), e)
            ELSE IF AtItsIndex(top.t, e) /\ AtItsIndex(top.n, e)
                   THEN PutBack(WithMark(Taken(top, e), e, z), e)
                   ELSE [top EXCEPT !.ok = FALSE]
  /\ Count(a, z)
  /\ UNCHANGED <<copied, cutoff, listed, trimmed>>

(* The oldest entry e loses its slots up to z, and its place in the map if no
   slot is left. *)
Shorter(x, e, z) ==
  LET slots == After(x.slots[e], z) IN
  [x EXCEPT !.slots[e] = slots,
            !.total[e] = @ - RequestsIn(x.slots[e], Gone(x.slots[e], z)),
            !.m[e.ApplicationId] = IF slots = <<>> THEN none ELSE @]

(* An iteration of trim's loop; once the loop is left, s stays. *)
TopTrimStep(s, z) ==
  LET x == s.top
      e == x.t.h[1]
      y == Shorter(Taken(x, e), e, z)
  IN IF s.done \/ x.t.h = <<>> THEN s
     ELSE IF ~AtItsIndex(x.n, e) THEN [top |-> [x EXCEPT !.ok = FALSE], done |-> TRUE]
     ELSE IF x.slots[e][1].t > z THEN [top |-> PutBack(Taken(x, e), e), done |-> TRUE]
     ELSE IF y.slots[e] = <<>> THEN [top |-> y, done |-> FALSE]
     ELSE IF y.slots[e][1].t <= z THEN [top |-> [y EXCEPT !.ok = FALSE], done |-> TRUE]
     ELSE [top |-> PutBack(y, e), done |-> FALSE]

(* Every entry is shortened at most once, and then the loop ends at the first
   that has nothing to lose. *)
TopTrimmed(x, z) ==
  LET n == Len(x.t.h) + 1
      s[k \in 0 .. n] ==
        IF k = 0 THEN [top |-> x, done |-> FALSE] ELSE TopTrimStep(s[k - 1], z)
  IN s[n].top

(* Mutant of TrimTop: the lifetime is a second too long. *)
TrimTopLate ==
  /\ top.ok
  /\ top' = TopTrimmed(top, now - TopAppsEntryLifetime - 1)
  /\ trimmed' = (copied.pc # "idle")
  /\ UNCHANGED <<copied, cutoff, listed, hits>>

(* The ticker of NewTopApps. *)
TrimTop ==
  /\ top.ok
  /\ top' = TopTrimmed(top, now - TopAppsEntryLifetime)
  /\ trimmed' = (copied.pc # "idle")
  /\ UNCHANGED <<copied, cutoff, listed, hits>>

-----------------------------------------------------------------------------
(* updateTop: TopSince for the last minute. *)

(* Mutant of TopSince: nothing is trimmed before the heap is copied. *)
TopSinceUntrimmed ==
  /\ top.ok
  /\ copied.pc = "idle"
  /\ copied' = Snapshot(top.n)
  /\ cutoff' = now - TopAppsEntryLifetime
  /\ listed' = <<>>
  /\ trimmed' = FALSE
  /\ UNCHANGED <<top, hits>>

TopSince ==
  /\ top.ok
  /\ copied.pc = "idle"
  /\ cutoff' = now - TopAppsEntryLifetime
  /\ top' = TopTrimmed(top, cutoff' - 1)
  /\ copied' = Snapshot(top'.n)
  /\ listed' = <<>>
  /\ trimmed' = FALSE
  /\ UNCHANGED hits

TopPop ==
  /\ copied.pc = "pop"
  /\ copied.h # <<>>
  /\ Len(listed) < Limit
  /\ copied' = PopStarted(copied)
  /\ UNCHANGED <<top, cutoff, listed, trimmed, hits>>

TopDown ==
  /\ \/ copied.pc = "pick" /\ copied' = Picked(copied, More(top.total))
     \/ copied.pc = "sift" /\ copied' = Sifted(copied, More(top.total))
  /\ UNCHANGED <<top, cutoff, listed, trimmed, hits>>

TopCollect ==
  /\ copied.pc = "popped"
  /\ LET e == PoppedEntry(copied) IN
     listed' = Append(listed, [ApplicationId |-> e.ApplicationId, Requests |-> top.total[e]])
  /\ copied' = Shortened(copied)
  /\ UNCHANGED <<top, cutoff, trimmed, hits>>

TopReturn ==
  /\ copied.pc = "pop"
  /\ copied.h = <<>> \/ Len(listed) = Limit
  /\ copied' = NoSnapshot
  /\ cutoff' = 0
  /\ listed' = <<>>
  /\ trimmed' = FALSE
  /\ UNCHANGED <<top, hits>>

TopNext ==
  \/ \E a \in App, z \in 1 .. now : MarkTop(a, z) /\ Response
  \/ /\ \/ TrimTop
        \/ TopSince \/ TopPop \/ TopDown \/ TopCollect \/ TopReturn
     /\ UNCHANGED <<now, marks>>
  \/ Tick /\ UNCHANGED topVars

TopSpec == TopInit /\ now = 1 /\ marks = 0 /\ [][TopNext]_<<topVars, now, marks>>

-----------------------------------------------------------------------------
(* Properties. *)

(* Both heaps hold the entries of the map, in order, every entry knows its
   place in both, has slots in order of time and the requests of its slots as
   its total: none of the panics of Mark and trim can be reached, and Less
   finds a first slot. *)
TopHeapsInStep ==
  /\ top.ok
  /\ HeapOf(top.t, FirstSlot(top.slots), Known)
  /\ HeapOf(top.n, More(top.total), Known)
  /\ \A e \in Known :
       LET s == top.slots[e] IN
       /\ s # <<>>
       /\ \A k \in 2 .. Len(s) : s[k - 1].t < s[k].t
       /\ top.total[e] = RequestsIn(s, Len(s))

(* After a trim no slot is past its lifetime: the loop, which handles each
   entry once and stops at the first that has nothing to lose, gets them all. *)
TrimTopComplete ==
  [][TrimTop => \A a \in App : top'.m[a] # none =>
       top'.slots[top'.m[a]][1].t > now - TopAppsEntryLifetime]_topVars

(* The requests of an application in slots from z on. *)
HitsFrom(a, z) == Sum([k \in Time |-> IF k >= z THEN hits[a][k] ELSE 0], MaxTime)

ListedApps == {listed[k].ApplicationId : k \in 1 .. Len(listed)}

(* What TopSince returns, although Trim lowers counts in the copy it pops: no
   application twice; counts that miss no request younger than the lifetime
   and include none that was older when the copy was made; every application
   with such requests if there is room; and the ones with the most requests,
   in order, if no Trim came in between. *)
TopListRight ==
  [][TopReturn =>
       /\ \A k, l \in 1 .. Len(listed) :
            listed[k].ApplicationId = listed[l].ApplicationId => k = l
       /\ \A k \in 1 .. Len(listed) :
            /\ listed[k].Requests >= HitsFrom(listed[k].ApplicationId, now - TopAppsEntryLifetime + 1)
            /\ listed[k].Requests <= HitsFrom(listed[k].ApplicationId, cutoff)
       /\ Len(listed) < Limit =>
            \A a \in App \ ListedApps : HitsFrom(a, now - TopAppsEntryLifetime + 1) = 0
       /\ ~trimmed =>
            /\ \A k \in 2 .. Len(listed) : listed[k - 1].Requests >= listed[k].Requests
            /\ \A a \in App \ ListedApps, k \in 1 .. Len(listed) :
                 listed[k].Requests >= HitsFrom(a, now - TopAppsEntryLifetime + 1)]_topVars
=============================================================================
