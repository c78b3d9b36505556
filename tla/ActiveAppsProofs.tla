-------------------------- MODULE ActiveAppsProofs --------------------------
(*****************************************************************************)
(* Proofs about ActiveApps, for any set of applications, any lifetime and    *)
(* any bounds on time and responses.  What the heaps do is proved in         *)
(* AppHeapProofs.                                                            *)
(*****************************************************************************)
EXTENDS ActiveApps, AppHeapProofs

(* Steps need first-order logic and sets alone, unless they name SMT. *)
USE Zenon

-----------------------------------------------------------------------------
(* Trim. *)

ActiveState == [m : [App -> Entry \cup {noEntry}], i : HeapSet, j : HeapSet]

Times == [Entry -> 0 .. MaxTime]

(* The map and the two heaps are in step. *)
InStep(m, i, j) ==
  /\ m \in [App -> Entry \cup {noEntry}]
  /\ \A a \in App : m[a] # noEntry => m[a].ApplicationId = a
  /\ InHeap(i, t, Entries(m))
  /\ InHeap(j, Later, Entries(m))

TrimState == [m : [App -> Entry \cup {noEntry}], i : HeapSet, j : HeapSet, done : BOOLEAN]

(* What x.m has lost of m is not after z. *)
OnlyOld(m, x, z) ==
  \A a \in App : \/ x.m[a] = m[a]
                 \/ x.m[a] = noEntry /\ m[a] # noEntry /\ t[m[a]] <= z

AllNew(x, z) == \A e \in Entries(x.m) : t[e] > z

(* What holds after k iterations of Trim's loop. *)
TrimGood(m, z, n, k, x) ==
  /\ InStep(x.m, x.i, x.j)
  /\ OnlyOld(m, x, z)
  /\ AllNew(x, z) \/ (~x.done /\ Len(x.i.h) <= n - k)

LEMMA TimesAreKeys ==
  ASSUME t \in Times
  PROVE  t \in [Entry -> Int] /\ Later \in [Entry -> Int]
BY BoundAssumption, SMT DEF Times, Later

LEMMA EntriesOf ==
  ASSUME NEW m \in [App -> Entry \cup {noEntry}]
  PROVE  /\ Entries(m) \subseteq Entry
         /\ \A a \in App : m[a] # noEntry => m[a] \in Entries(m)
         /\ \A e \in Entries(m) : \E a \in App : m[a] = e /\ m[a] # noEntry
BY ActiveAssumption DEF Entries

(* w is the map m without the entry e. *)
IsWithout(m, e, w) ==
  /\ e.ApplicationId \in App /\ m[e.ApplicationId] = e
  /\ w \in [App -> Entry \cup {noEntry}]
  /\ \A a \in App : w[a] = IF a = e.ApplicationId THEN noEntry ELSE m[a]
  /\ Entries(w) = Entries(m) \ {e}

LEMMA Without ==
  ASSUME NEW m \in [App -> Entry \cup {noEntry}], NEW e \in Entries(m),
         \A a \in App : m[a] # noEntry => m[a].ApplicationId = a
  PROVE  IsWithout(m, e, [m EXCEPT ![e.ApplicationId] = noEntry])
<1> DEFINE c == e.ApplicationId
           w == [m EXCEPT ![c] = noEntry]
<1>1. c \in App /\ m[c] = e /\ e # noEntry
  <2>1. PICK a \in App : m[a] = e /\ m[a] # noEntry
    BY EntriesOf
  <2>2. c = a
    BY <2>1
  <2>. QED  BY <2>1, <2>2
<1>2. w \in [App -> Entry \cup {noEntry}] /\ \A a \in App : w[a] = IF a = c THEN noEntry ELSE m[a]
  <2> HIDE DEF c
  <2>. QED  OBVIOUS
<1> HIDE DEF w
<1>3. \A a \in App : a # c => m[a] # e
  BY <1>1
<1>4. Entries(w) = Entries(m) \ {e}
  <2>1. \A a \in App : w[a] # noEntry => w[a] \in Entries(m) \ {e}
    BY <1>2, <1>3, EntriesOf
  <2>2. \A f \in Entries(m) \ {e} : \E a \in App : w[a] = f /\ w[a] # noEntry
    <3> SUFFICES ASSUME NEW f \in Entries(m) \ {e} PROVE \E a \in App : w[a] = f /\ w[a] # noEntry
      OBVIOUS
    <3>1. PICK a \in App : m[a] = f /\ m[a] # noEntry
      BY EntriesOf
    <3>. QED  BY <1>1, <1>2, <3>1
  <2>3. /\ \A a \in App : w[a] # noEntry => w[a] \in Entries(w)
        /\ \A f \in Entries(w) : \E a \in App : w[a] = f /\ w[a] # noEntry
    BY <1>2, EntriesOf
  <2>4. \A f \in Entries(w) : f \in Entries(m) \ {e}
    BY <2>1, <2>3
  <2>5. \A f \in Entries(m) \ {e} : f \in Entries(w)
    BY <2>2, <2>3
  <2>. QED  BY <2>4, <2>5
<1>. QED  BY <1>1, <1>2, <1>4 DEF w, IsWithout

LEMMA TrimKeeps ==
  ASSUME t \in Times, NEW m, NEW z \in Int, NEW n \in Nat, NEW k \in Nat, NEW x \in TrimState,
         TrimGood(m, z, n, k, x)
  PROVE  TrimStep(x, z) \in TrimState /\ TrimGood(m, z, n, k + 1, TrimStep(x, z))
<1> DEFINE y == TrimStep(x, z)
           e == x.i.h[1]
           E == Entries(x.m)
<1>1. /\ x.m \in [App -> Entry \cup {noEntry}] /\ InHeap(x.i, t, E) /\ InHeap(x.j, Later, E)
      /\ (\A a \in App : x.m[a] # noEntry => x.m[a].ApplicationId = a)
      /\ OnlyOld(m, x, z) /\ (AllNew(x, z) \/ (~x.done /\ Len(x.i.h) <= n - k))
  BY DEF TrimGood, InStep
<1>2. t \in [Entry -> Int] /\ Later \in [Entry -> Int] /\ Placed(x.i, E) /\ Placed(x.j, E)
      /\ x.done \in BOOLEAN /\ x.i \in HeapSet /\ x.j \in HeapSet
  <2>1. x.done \in BOOLEAN /\ x.i \in HeapSet /\ x.j \in HeapSet
    BY SMT DEF TrimState
  <2>. QED  BY <1>1, <2>1, TimesAreKeys DEF InHeap
<1>3. CASE x.done \/ x.i.h = <<>>
  <2>1. y = x
    BY <1>3 DEF TrimStep
  <2>2. AllNew(x, z)
    <3>1. CASE x.i.h = <<>>
      <4>1. Len(x.i.h) <= 0
        BY <3>1, SMT
      <4>2. E = {}
        BY <1>2, <4>1, NoneLeft
      <4>. QED  BY <4>2 DEF AllNew
    <3>2. CASE x.done
      BY <1>1, <3>2
    <3>. QED  BY <1>3, <3>1, <3>2
  <2>. QED  BY <1>1, <2>1, <2>2 DEF TrimGood, InStep
<1>4. CASE ~x.done /\ x.i.h # <<>> /\ t[e] > z
  <2> DEFINE P == HeapPop(x.i, t)
             Q == HeapPush(P, t, e)
  <2>1. y = [x EXCEPT !.i = Q, !.done = TRUE]
    BY <1>4 DEF TrimStep
  <2>2. InHeap(P, t, E \ {e}) /\ e \in E /\ e \in Entry
    BY <1>1, <1>2, <1>4, PopHeap, EntriesOf
  <2>3. InHeap(Q, t, (E \ {e}) \cup {e})
    <3> HIDE DEF P
    <3>1. e \in Entry \ (E \ {e})
      BY <2>2
    <3>. QED  BY <1>2, <2>2, <3>1, PushHeap
  <2>4. (E \ {e}) \cup {e} = E
    BY <2>2
  <2> HIDE DEF Q
  <2>5. y \in TrimState /\ y.m = x.m /\ y.i = Q /\ y.j = x.j
    <3>1. Q \in HeapSet
      BY <2>3 DEF InHeap, Placed
    <3> HIDE DEF y
    <3>. QED  BY <2>1, <3>1, ZenonT(30) DEF TrimState
  <2>6. AllNew(x, z)
    <3>1. ASSUME NEW f \in E PROVE t[f] > z
      <4>1. t[e] <= t[f]
        BY <1>1, <1>2, FirstIsLeast
      <4>2. t[e] \in Int /\ t[f] \in Int
        BY <1>1, <1>2, <2>2, EntriesOf
      <4> HIDE DEF e
      <4>. QED  BY <1>4, <4>1, <4>2, SMT
    <3>. QED  BY <3>1 DEF AllNew
  <2> HIDE DEF y
  <2>7. InStep(y.m, y.i, y.j)
    <3>1. InHeap(Q, t, E)
      BY <2>3, <2>4
    <3>. QED  BY <1>1, <2>5, <3>1 DEF InStep
  <2>8. OnlyOld(m, y, z)
    BY <1>1, <2>5 DEF OnlyOld
  <2>9. AllNew(y, z)
    BY <2>5, <2>6 DEF AllNew
  <2>. QED  BY <2>5, <2>7, <2>8, <2>9 DEF TrimGood, y
<1>5. CASE ~x.done /\ x.i.h # <<>> /\ ~(t[e] > z)
  <2> DEFINE P == HeapPop(x.i, t)
             R == HeapRemove(x.j, Later, x.j.pos[e])
             w == [x.m EXCEPT ![e.ApplicationId] = noEntry]
  <2>1. y = [m |-> w, i |-> P, j |-> R, done |-> FALSE]
    BY <1>5 DEF TrimStep
  <2>2. InHeap(P, t, E \ {e}) /\ e \in E /\ e \in Entry /\ Len(P.h) = Len(x.i.h) - 1
    <3>1. Len(P.h) = Len(x.i.h) - 1
      BY <1>1, <1>2, <1>5, PopHeap
    <3>2. InHeap(P, t, E \ {e}) /\ e \in E
      BY <1>1, <1>2, <1>5, PopHeap
    <3>. QED  BY <1>1, <3>1, <3>2, EntriesOf
  <2>3. InHeap(R, Later, E \ {e})
    <3>1. x.j.pos[e] \in 1 .. Len(x.j.h) /\ x.j.h[x.j.pos[e]] = e
      BY <1>2, <2>2, AtItsPlace, ZenonT(30)
    <3>2. InHeap(R, Later, E \ {x.j.h[x.j.pos[e]]})
      BY <1>1, <1>2, <3>1, RemoveHeap
    <3>. QED  BY <3>1, <3>2
  <2>4. /\ e.ApplicationId \in App /\ x.m[e.ApplicationId] = e
        /\ w \in [App -> Entry \cup {noEntry}]
        /\ \A a \in App : w[a] = IF a = e.ApplicationId THEN noEntry ELSE x.m[a]
        /\ Entries(w) = E \ {e}
    <3>1. IsWithout(x.m, e, w)
      BY <1>1, <2>2, Without
    <3>. QED  BY <3>1 DEF IsWithout
  <2>5. t[e] \in Int /\ t[e] <= z
    <3>1. t[e] \in Int
      BY <1>2, <2>2
    <3> HIDE DEF e
    <3>. QED  BY <1>5, <3>1, SMT
  <2> HIDE DEF w, P, R
  <2>6. y \in TrimState /\ y.m = w /\ y.i = P /\ y.j = R /\ y.done = FALSE
    <3>1. P \in HeapSet /\ R \in HeapSet
      BY <2>2, <2>3 DEF InHeap, Placed
    <3> HIDE DEF y
    <3>. QED  BY <2>1, <2>4, <3>1, SMT DEF TrimState
  <2>7. OnlyOld(m, y, z)
    <3>1. e # noEntry
      BY <2>2, ActiveAssumption
    <3> SUFFICES ASSUME NEW a \in App
                 PROVE  \/ w[a] = m[a]
                        \/ w[a] = noEntry /\ m[a] # noEntry /\ t[m[a]] <= z
      BY <2>6 DEF OnlyOld
    <3>2. x.m[a] = m[a] \/ (x.m[a] = noEntry /\ m[a] # noEntry /\ t[m[a]] <= z)
      BY <1>1 DEF OnlyOld
    <3>. QED  BY <2>4, <2>5, <3>1, <3>2
  <2>8. Len(y.i.h) <= n - (k + 1)
    <3>1. ~AllNew(x, z)
      BY <1>5, <2>2 DEF AllNew
    <3>2. Len(x.i.h) <= n - k
      BY <1>1, <3>1
    <3>3. Len(x.i.h) \in Nat
      BY <1>2, HeapTypes
    <3>. QED  BY <2>2, <2>6, <3>2, <3>3, SMT
  <2>9. \A a \in App : w[a] # noEntry => w[a].ApplicationId = a
    BY <1>1, <2>4
  <2> HIDE DEF y
  <2>10. InStep(y.m, y.i, y.j)
    <3>1. InHeap(P, t, Entries(w)) /\ InHeap(R, Later, Entries(w))
      BY <2>2, <2>3, <2>4
    <3>. QED  BY <2>4, <2>6, <2>9, <3>1 DEF InStep
  <2>. QED  BY <2>6, <2>7, <2>8, <2>10 DEF TrimGood, y
<1>. QED  BY <1>3, <1>4, <1>5

(* y is what Trim has to make of x. *)
TrimmedRight(x, y, z) ==
  /\ y \in ActiveState
  /\ InStep(y.m, y.i, y.j)
  /\ \A a \in App : y.m[a] = IF x.m[a] # noEntry /\ t[x.m[a]] <= z THEN noEntry ELSE x.m[a]

(* Trim takes exactly what is not after z, from the map and both heaps. *)
LEMMA TrimIs ==
  ASSUME t \in Times, NEW x \in ActiveState, InStep(x.m, x.i, x.j), NEW z \in Int
  PROVE  TrimmedRight(x, ActiveTrimmed(x, z), z)
<1> DEFINE n == Len(x.i.h)
           x0 == [m |-> x.m, i |-> x.i, j |-> x.j, done |-> FALSE]
           F == [y \in TrimState |-> TrimStep(y, z)]
           J == {p \in Nat \X TrimState : TrimGood(x.m, z, n, p[1], p[2])}
           Eq(f) == f = [k \in 0 .. n |-> IF k = 0 THEN x0 ELSE TrimStep(f[k - 1], z)]
           s == CHOOSE f : Eq(f)
<1>1. n \in Nat /\ n <= n - 0 /\ n \in 0 .. n /\ 0 \in 0 .. n /\ \A k \in 1 .. n : k \in 0 .. n /\ k # 0
  <2>1. n \in Nat
    BY HeapTypes DEF InStep, InHeap
  <2>. QED  BY <2>1, SMT
<1>2. x0 \in TrimState /\ x0.m = x.m /\ x0.i = x.i /\ x0.j = x.j /\ ~x0.done
  BY SMT DEF ActiveState, TrimState
<1>3. <<0, x0>> \in J
  <2>1. TrimGood(x.m, z, n, 0, x0)
    <3> HIDE DEF x0
    <3>. QED  BY <1>1, <1>2 DEF TrimGood, OnlyOld
  <2> HIDE DEF x0
  <2>. QED  BY <1>2, <2>1, SMT
<1>4. \A k \in Nat : \A y : <<k, y>> \in J => y \in TrimState /\ TrimGood(x.m, z, n, k, y)
  <2> HIDE DEF x0
  <2>. QED  BY SMT
<1>5. ASSUME NEW k \in Nat, NEW y \in TrimState, <<k, y>> \in J
      PROVE  <<k + 1, F[y]>> \in J
  <2>1. TrimGood(x.m, z, n, k, y)
    BY <1>4, <1>5
  <2>2. F[y] \in TrimState /\ TrimGood(x.m, z, n, k + 1, F[y])
    BY <1>1, <2>1, TrimKeeps
  <2> HIDE DEF F
  <2>. QED  BY <2>2, SMT
<1> HIDE DEF J, x0, n
<1>6. F = [y \in TrimState |-> TrimStep(y, z)]
  OBVIOUS
<1> HIDE DEF F
<1>7. /\ \E f : Iterates(f, F, x0, n) /\ \A k \in 0 .. n : f[k] \in TrimState
      /\ \A f : Follows(f, F, TrimState, x0, n) => \A k \in 0 .. n : <<k, f[k]>> \in J
  <2>1. Keeps(J, TrimState, F)
    BY <1>4, <1>5 DEF Keeps
  <2>. QED  BY <1>1, <1>3, <2>1, Loop
<1>8. \E f : Eq(f)
  <2>1. PICK f : /\ f = [k \in 0 .. n |-> IF k = 0 THEN x0 ELSE F[f[k - 1]]]
                 /\ \A k \in 0 .. n : f[k] \in TrimState
    BY <1>7 DEF Iterates
  <2>2. \A k \in 0 .. n : k = 0 \/ k - 1 \in 0 .. n
    BY <1>1, SMT
  <2>3. \A k \in 0 .. n : k # 0 => F[f[k - 1]] = TrimStep(f[k - 1], z)
    BY <1>6, <2>1, <2>2
  <2>. QED  BY <2>1, <2>3
<1>9. Eq(s)
  <2> HIDE DEF Eq
  <2>. QED  BY <1>8
<1> DEFINE y == ActiveTrimmed(x, z)
<1>10. y = [m |-> s[n].m, i |-> s[n].i, j |-> s[n].j]
  BY DEF ActiveTrimmed, x0, n
<1> HIDE DEF s
<1>11. Follows(s, F, TrimState, x0, n)
  <2>1. s[0] = x0
    BY <1>1, <1>9
  <2>2. \A k \in 1 .. n : s[k] = TrimStep(s[k - 1], z)
    BY <1>1, <1>9
  <2>. QED  BY <1>6, <2>1, <2>2 DEF Follows
<1>12. s[n] \in TrimState /\ TrimGood(x.m, z, n, n, s[n])
  BY <1>1, <1>4, <1>7, <1>11
<1> HIDE DEF y
<1>13. y \in ActiveState /\ y.m = s[n].m /\ y.i = s[n].i /\ y.j = s[n].j
  BY <1>10, <1>12, SMT DEF ActiveState, TrimState
<1>14. InStep(y.m, y.i, y.j) /\ OnlyOld(x.m, y, z)
  BY <1>12, <1>13 DEF TrimGood, OnlyOld
<1>15. AllNew(s[n], z)
  <2>1. SUFFICES ASSUME Len(s[n].i.h) <= n - n PROVE AllNew(s[n], z)
    BY <1>12 DEF TrimGood
  <2>2. Len(s[n].i.h) <= 0
    BY <1>1, <2>1, SMT
  <2>3. Placed(s[n].i, Entries(s[n].m))
    BY <1>12 DEF TrimGood, InStep, InHeap
  <2>4. Entries(s[n].m) = {}
    BY <2>2, <2>3, NoneLeft
  <2>. QED  BY <2>4 DEF AllNew
<1>16. ASSUME NEW a \in App
       PROVE  y.m[a] = IF x.m[a] # noEntry /\ t[x.m[a]] <= z THEN noEntry ELSE x.m[a]
  <2>1. y.m[a] # noEntry => t[y.m[a]] > z /\ t[y.m[a]] \in Int
    <3>1. y.m \in [App -> Entry \cup {noEntry}]
      BY <1>14 DEF InStep
    <3>2. y.m[a] # noEntry => y.m[a] \in Entries(y.m) /\ y.m[a] \in Entry
      BY <3>1, EntriesOf
    <3>. QED  BY <1>13, <1>15, <3>2, TimesAreKeys DEF AllNew
  <2>2. y.m[a] # noEntry => ~(t[y.m[a]] <= z)
    BY <2>1, SMT
  <2>. QED  BY <1>14, <2>2 DEF OnlyOld
<1>. QED  BY <1>13, <1>14, <1>16 DEF TrimmedRight, y

-----------------------------------------------------------------------------
(* The inductive invariant of ActiveApps. *)

Types ==
  /\ active \in ActiveState
  /\ t \in Times
  /\ flush \in Time
  /\ snapshot \in SnapshotSet
  /\ since \in Time
  /\ apps \in Seq(App)
  /\ latest \in [App -> 0 .. MaxTime]
  /\ due \subseteq App
  /\ now \in Time
  /\ marks \in 0 .. MaxMarks
  /\ flush <= now

(* An entry's time is no later than its application's latest mark, and is just
   that for an application within its lifetime. *)
Fresh ==
  /\ \A e \in Entry : t[e] <= latest[e.ApplicationId]
  /\ \A a \in App : latest[a] > 0 /\ latest[a] > now - ActiveAppsEntryLifetime =>
       active.m[a] # noEntry /\ t[active.m[a]] = latest[a]

ListedSince == \A k \in 1 .. Len(apps) : latest[apps[k]] >= since

(* Entries in G are recent. *)
Recent(h, G) == \A k \in 1 .. Len(h) : h[k] \in G => t[h[k]] >= since

(* What has to be listed is listed, or still to be popped and in G. *)
DueLeft(h, G) ==
  \A a \in due : \/ \E k \in 1 .. Len(apps) : apps[k] = a
                 \/ \E k \in 1 .. Len(h) : h[k].ApplicationId = a /\ h[k] \in G

PopsRight ==
  \E G \in SUBSET Entry :
    Recent(snapshot.h, G) /\ DueLeft(snapshot.h, G) /\ InOrder(snapshot, G)

Inv ==
  /\ Types
  /\ Places(snapshot)
  /\ InStep(active.m, active.i, active.j)
  /\ AppsOnce(snapshot.h, apps)
  /\ Fresh
  /\ ListedSince
  /\ PopsRight

(* The object that Mark uses for an application. *)
LEMMA EntryIs ==
  ASSUME Types, InStep(active.m, active.i, active.j), AppsOnce(snapshot.h, apps), NEW a \in App
  PROVE  /\ EntryFor(a) \in Entry
         /\ EntryFor(a).ApplicationId = a
         /\ active.m[a] # noEntry => active.m[a] = EntryFor(a)
         /\ active.m[a] = noEntry =>
              /\ EntryFor(a) \notin Entries(active.m)
              /\ \A k \in 1 .. Len(snapshot.h) : snapshot.h[k] # EntryFor(a)
<1> DEFINE m == active.m
           h == snapshot.h
           P(e) == e.ApplicationId = a /\ \A k \in 1 .. Len(h) : h[k] # e
<1>1. m \in [App -> Entry \cup {noEntry}] /\ \A b \in App : m[b] # noEntry => m[b].ApplicationId = b
  BY DEF InStep
<1>2. CASE m[a] # noEntry
  <2>1. EntryFor(a) = m[a]
    BY <1>2 DEF EntryFor
  <2>. QED  BY <1>1, <1>2, <2>1
<1>3. CASE m[a] = noEntry
  <2>1. EntryFor(a) = CHOOSE e \in Entry : P(e)
    BY <1>3 DEF EntryFor
  <2>2. \E e \in Entry : P(e)
    <3> DEFINE e1 == [ApplicationId |-> a, object |-> 1]
               e2 == [ApplicationId |-> a, object |-> 2]
    <3>1. e1 \in Entry /\ e2 \in Entry /\ e1 # e2 /\ e1.ApplicationId = a /\ e2.ApplicationId = a
      BY SMT DEF Entry
    <3> HIDE DEF e1, e2
    <3>2. \A k, l \in 1 .. Len(h) : h[k].ApplicationId = h[l].ApplicationId => k = l
      BY DEF AppsOnce
    <3>3. P(e1) \/ P(e2)
      BY <3>1, <3>2
    <3>. QED  BY <3>1, <3>3
  <2>3. EntryFor(a) \in Entry /\ P(EntryFor(a))
    <3> HIDE DEF P
    <3>. QED  BY <2>1, <2>2
  <2>4. EntryFor(a) \notin Entries(m)
    <3>1. \A e \in Entries(m) : \E b \in App : m[b] = e /\ m[b] # noEntry
      BY <1>1, EntriesOf
    <3>. QED  BY <1>1, <1>3, <2>3, <3>1
  <2>. QED  BY <1>3, <2>3, <2>4
<1>. QED  BY <1>2, <1>3

(* w is the map m with y for the application a. *)
IsWith(m, a, y, w) ==
  /\ w \in [App -> Entry \cup {noEntry}]
  /\ w[a] = y /\ \A b \in App : b # a => w[b] = m[b]
  /\ Entries(w) = (Entries(m) \ {y}) \cup {y}

(* Raising times keeps the order of popping. *)
LEMMA Rising ==
  ASSUME Types, PopsRight, UNCHANGED <<snapshot, since, apps, due>>, t' \in Times,
         \A k \in 1 .. Len(snapshot.h) : t'[snapshot.h[k]] >= t[snapshot.h[k]]
  PROVE  PopsRight'
<1> DEFINE h == snapshot.h
<1>1. PICK G \in SUBSET Entry : Recent(h, G) /\ DueLeft(h, G) /\ InOrder(snapshot, G)
  BY DEF PopsRight
<1>2. since \in Int /\ \A k \in 1 .. Len(h) : t[h[k]] \in Int /\ t'[h[k]] \in Int
  <2>1. h \in Seq(Entry) /\ since \in Int
    BY BoundAssumption, SMT DEF Types, SnapshotSet, Time
  <2>2. \A k \in 1 .. Len(h) : h[k] \in Entry
    BY <2>1, SMT
  <2>3. \A e \in Entry : t[e] \in Int /\ t'[e] \in Int
    BY BoundAssumption, SMT DEF Types, Times
  <2>. QED  BY <2>1, <2>2, <2>3
<1>3. ASSUME NEW k \in 1 .. Len(h), h[k] \in G PROVE t'[h[k]] >= since
  <2>1. t[h[k]] >= since
    BY <1>1, <1>3 DEF Recent
  <2>2. t'[h[k]] >= t[h[k]] /\ t[h[k]] \in Int /\ t'[h[k]] \in Int
    BY <1>2
  <2> HIDE DEF h
  <2>. QED  BY <1>2, <2>1, <2>2, SMT
<1>4. Recent(h, G)'
  BY <1>3 DEF Recent
<1>5. DueLeft(h, G)' /\ InOrder(snapshot, G)'
  BY <1>1 DEF DueLeft, InOrder
<1>. QED  BY <1>4, <1>5 DEF PopsRight

LEMMA MarkKeeps ==
  ASSUME Inv, NEW a \in App, NEW z \in 1 .. now, MarkActive(a, z), Response
  PROVE  Inv'
(* The map with an entry for an application that had none or this one. *)
(* A heap that y was taken out of, with y put back under new keys. *)
<1>Reinserted.
  ASSUME NEW E, NEW H, NEW y \in Entry, NEW key, NEW kez \in [Entry -> Int],
         InHeap(H, key, E \ {y}), \A e \in E \ {y} : kez[e] = key[e]
  PROVE  InHeap(HeapPush(H, kez, y), kez, (E \ {y}) \cup {y})
  <2> USE <1>Reinserted
  <2>1. InHeap(H, kez, E \ {y})
    BY OtherKeys
  <2>2. y \in Entry \ (E \ {y})
    OBVIOUS
  <2>. QED  BY <2>1, <2>2, PushHeap
<1>WithEntry.
  ASSUME NEW m \in [App -> Entry \cup {noEntry}], a \in App, NEW y \in Entry,
         m[a] = y \/ m[a] = noEntry
  PROVE  IsWith(m, a, y, [m EXCEPT ![a] = y])
  <2> USE <1>WithEntry
  <2> DEFINE w == [m EXCEPT ![a] = y]
  <2>1. w \in [App -> Entry \cup {noEntry}] /\ w[a] = y /\ \A b \in App : b # a => w[b] = m[b]
    OBVIOUS
  <2>2. y # noEntry
    BY ActiveAssumption
  <2> HIDE DEF w
  <2>3. \A f \in Entries(w) : f \in (Entries(m) \ {y}) \cup {y}
    <3> SUFFICES ASSUME NEW f \in Entries(w) PROVE f \in (Entries(m) \ {y}) \cup {y}
      OBVIOUS
    <3>1. PICK b \in App : w[b] = f /\ w[b] # noEntry
      BY <2>1, EntriesOf
    <3>2. b # a => f \in Entries(m)
      BY <2>1, <3>1, EntriesOf
    <3>. QED  BY <2>1, <3>1, <3>2
  <2>4. \A f \in (Entries(m) \ {y}) \cup {y} : f \in Entries(w)
    <3> SUFFICES ASSUME NEW f \in (Entries(m) \ {y}) \cup {y} PROVE f \in Entries(w)
      OBVIOUS
    <3>1. CASE f = y
      BY <2>1, <2>2, <3>1, EntriesOf
    <3>2. CASE f \in Entries(m) \ {y}
      <4>1. PICK b \in App : m[b] = f /\ m[b] # noEntry
        BY <3>2, EntriesOf
      <4>2. b # a
        BY <3>2, <4>1
      <4>. QED  BY <2>1, <4>1, <4>2, EntriesOf
    <3>. QED  BY <3>1, <3>2
  <2>5. Entries(w) = (Entries(m) \ {y}) \cup {y}
    BY <2>3, <2>4
  <2>. QED  BY <2>1, <2>5 DEF w, IsWith
<1> DEFINE y == EntryFor(a)
           m == active.m
           E == Entries(m)
           known == m[a] # noEntry
           old == IF known THEN t[y] ELSE 0
           i == IF known THEN HeapRemove(active.i, t, active.i.pos[y]) ELSE active.i
           j == IF known THEN HeapRemove(active.j, Later, active.j.pos[y]) ELSE active.j
           w == [m EXCEPT ![a] = y]
           I == HeapPush(i, t', y)
           K == HeapPush(j, Later', y)
<1>1. /\ t' = [t EXCEPT ![y] = Newer(old, z)]
      /\ active' = [m |-> w, i |-> I, j |-> K]
      /\ latest' = [latest EXCEPT ![a] = Newer(@, z)]
      /\ UNCHANGED <<flush, snapshot, since, apps, due>>
  BY DEF MarkActive
<1>2. /\ y \in Entry /\ y.ApplicationId = a /\ (known => m[a] = y)
      /\ ~known => y \notin E /\ \A k \in 1 .. Len(snapshot.h) : snapshot.h[k] # y
  BY EntryIs DEF Inv
<1>3. m \in [App -> Entry \cup {noEntry}] /\ InHeap(active.i, t, E) /\ InHeap(active.j, Later, E)
      /\ \A b \in App : m[b] # noEntry => m[b].ApplicationId = b
  BY DEF Inv, InStep
<1>4. t \in Times /\ t \in [Entry -> Int] /\ Later \in [Entry -> Int]
  <2>1. t \in Times
    BY DEF Inv, Types
  <2>. QED  BY <2>1, TimesAreKeys
<1> HIDE DEF y
<1>5. Newer(old, z) \in 0 .. MaxTime /\ Newer(old, z) >= z /\ Newer(old, z) >= old /\ old \in Nat
      /\ (old <= z => Newer(old, z) = z) /\ (old > z => Newer(old, z) = old) /\ z \in Nat
  <2>1. now \in 1 .. MaxTime /\ MaxTime \in Nat
    BY BoundAssumption, SMT DEF Inv, Types, Time
  <2>2. old \in 0 .. MaxTime
    <3>1. t[y] \in 0 .. MaxTime
      BY <1>2, <1>4 DEF Times
    <3>2. 0 \in 0 .. MaxTime
      BY <2>1, SMT
    <3>. QED  BY <3>1, <3>2
  <2> HIDE DEF old
  <2>. QED  BY <2>1, <2>2, SMT DEF Newer
<1>6. t' \in Times /\ t'[y] = Newer(old, z) /\ (\A e \in Entry : e # y => t'[e] = t[e])
      /\ \A e \in Entry : Later'[e] = -t'[e] /\ Later[e] = -t[e]
  <2> HIDE DEF old
  <2>1. t' \in Times /\ t'[y] = Newer(old, z) /\ (\A e \in Entry : e # y => t'[e] = t[e])
    BY <1>1, <1>2, <1>4, <1>5 DEF Times
  <2>. QED  BY <2>1 DEF Later
<1>7. t' \in [Entry -> Int] /\ Later' \in [Entry -> Int]
  <2>1. \A e \in Entry : t'[e] \in Int
    BY <1>6, BoundAssumption, SMT DEF Times
  <2>2. \A e \in Entry : -t'[e] \in Int
    BY <2>1, SMT
  <2>. QED  BY <1>6, <2>1, <2>2 DEF Times, Later
<1>8. InHeap(i, t, E \ {y}) /\ InHeap(j, Later, E \ {y})
  <2>1. CASE known
    <3>1. y \in E
      BY <1>2, <1>3, <2>1, EntriesOf
    <3>2. Placed(active.i, E) /\ Placed(active.j, E)
      BY <1>3 DEF InHeap
    <3>3. active.i.pos[y] \in 1 .. Len(active.i.h) /\ active.i.h[active.i.pos[y]] = y
      BY <3>1, <3>2, AtItsPlace
    <3>4. active.j.pos[y] \in 1 .. Len(active.j.h) /\ active.j.h[active.j.pos[y]] = y
      BY <3>1, <3>2, AtItsPlace
    <3>5. InHeap(i, t, E \ {active.i.h[active.i.pos[y]]})
      BY <1>3, <1>4, <2>1, <3>3, RemoveHeap
    <3>6. InHeap(j, Later, E \ {active.j.h[active.j.pos[y]]})
      BY <1>3, <1>4, <2>1, <3>4, RemoveHeap
    <3>. QED  BY <3>3, <3>4, <3>5, <3>6
  <2>2. CASE ~known
    <3>1. E \ {y} = E
      BY <1>2, <2>2
    <3>. QED  BY <1>3, <2>2, <3>1
  <2>. QED  BY <2>1, <2>2
<1>9. E \subseteq Entry
  BY <1>3, EntriesOf
<1> HIDE DEF i, j
<1>10. InHeap(I, t', (E \ {y}) \cup {y})
  <2>1. \A e \in E \ {y} : t'[e] = t[e]
    BY <1>6, <1>9
  <2>. QED  BY <1>2, <1>7, <1>8, <2>1, <1>Reinserted
<1>11. InHeap(K, Later', (E \ {y}) \cup {y})
  <2>1. \A e \in E \ {y} : Later'[e] = Later[e]
    BY <1>6, <1>9
  <2>. QED  BY <1>2, <1>7, <1>8, <2>1, <1>Reinserted
<1>12. Entries(w) = (E \ {y}) \cup {y} /\ w \in [App -> Entry \cup {noEntry}]
       /\ w[a] = y /\ \A b \in App : b # a => w[b] = m[b]
  <2>1. IsWith(m, a, y, w)
    BY <1>2, <1>3, <1>WithEntry
  <2>. QED  BY <2>1 DEF IsWith
<1> HIDE DEF I, K, w
<1>13. active' \in ActiveState /\ active'.m = w /\ active'.i = I /\ active'.j = K
  <2>1. I \in HeapSet /\ K \in HeapSet
    BY <1>10, <1>11 DEF InHeap, Placed
  <2>. QED  BY <1>1, <1>12, <2>1, SMT DEF ActiveState
<1>14. InStep(active.m, active.i, active.j)'
  <2>1. InHeap(I, t', Entries(w)) /\ InHeap(K, Later', Entries(w))
    BY <1>10, <1>11, <1>12
  <2>2. \A b \in App : w[b] # noEntry => w[b].ApplicationId = b
    BY <1>2, <1>3, <1>12
  <2>. QED  BY <1>12, <1>13, <2>1, <2>2 DEF InStep
<1>15. PICK c \in 0 .. MaxTime : latest[a] = c
  BY DEF Inv, Types
<1>16. MaxTime \in Nat /\ c \in Nat /\ old <= c
  <2>1. t[y] <= c
    BY <1>2, <1>15 DEF Inv, Fresh
  <2>2. MaxTime \in Nat /\ c \in Nat /\ 0 <= c
    BY BoundAssumption, SMT
  <2>. QED  BY <2>1, <2>2
<1>17. /\ latest' \in [App -> 0 .. MaxTime]
       /\ latest'[a] = Newer(c, z) /\ Newer(c, z) \in 0 .. MaxTime
       /\ Newer(c, z) >= c /\ Newer(c, z) >= Newer(old, z)
       /\ (c <= z => Newer(c, z) = z) /\ (c > z => Newer(c, z) = c)
       /\ \A b \in App : b # a => latest'[b] = latest[b]
  <2>1. /\ Newer(c, z) \in 0 .. MaxTime /\ Newer(c, z) >= c /\ Newer(c, z) >= Newer(old, z)
        /\ (c <= z => Newer(c, z) = z) /\ (c > z => Newer(c, z) = c)
    <3>1. now \in 1 .. MaxTime
      BY SMT DEF Inv, Types, Time
    <3> HIDE DEF old
    <3>. QED  BY <1>5, <1>15, <1>16, <3>1, SMT DEF Newer
  <2>2. latest \in [App -> 0 .. MaxTime]
    BY DEF Inv, Types
  <2>. QED  BY <1>1, <1>15, <2>1, <2>2
<1>18. Fresh'
  <2>1. ASSUME NEW e \in Entry PROVE t'[e] <= latest'[e.ApplicationId]
    <3>1. CASE e = y
      <4>1. Newer(old, z) <= Newer(c, z)
        <5> HIDE DEF old
        <5>. QED  BY <1>5, <1>17, SMT
      <4>. QED  BY <1>2, <1>6, <1>17, <3>1, <4>1
    <3>2. CASE e # y
      <4>1. t'[e] = t[e] /\ t[e] <= latest[e.ApplicationId] /\ e.ApplicationId \in App
        BY <1>6, <3>2 DEF Inv, Fresh, Entry
      <4>2. CASE e.ApplicationId = a
        <5>1. t[e] <= c /\ t[e] \in Int
          BY <1>4, <1>15, <4>1, <4>2
        <5>2. t[e] <= Newer(c, z)
          BY <1>16, <1>17, <5>1, SMT
        <5>. QED  BY <1>17, <4>1, <4>2, <5>2
      <4>3. CASE e.ApplicationId # a
        BY <1>17, <4>1, <4>3
      <4>. QED  BY <4>2, <4>3
    <3>. QED  BY <3>1, <3>2
  <2>2. ASSUME NEW b \in App, latest'[b] > 0, latest'[b] > now' - ActiveAppsEntryLifetime
        PROVE  active'.m[b] # noEntry /\ t'[active'.m[b]] = latest'[b]
    <3>1. now' = now
      BY DEF Response
    <3>2. CASE b # a
      <4>1. m[b] # noEntry /\ t[m[b]] = latest[b] /\ active'.m[b] = m[b]
        BY <1>12, <1>13, <1>17, <2>2, <3>1, <3>2 DEF Inv, Fresh
      <4>2. m[b] # y /\ m[b] \in Entry
        BY <1>2, <1>3, <3>2, <4>1
      <4>. QED  BY <1>6, <1>17, <3>2, <4>1, <4>2
    <3>3. CASE b = a
      <4>1. active'.m[b] = y /\ y # noEntry
        BY <1>2, <1>12, <1>13, <3>3, ActiveAssumption
      <4>2. CASE c <= z
        <5>1. Newer(old, z) = z /\ Newer(c, z) = z
          <6> HIDE DEF old
          <6>. QED  BY <1>5, <1>16, <1>17, <4>2, SMT
        <5>. QED  BY <1>6, <1>17, <3>3, <4>1, <5>1
      <4>3. CASE c > z
        <5>1. latest[a] > 0 /\ latest[a] > now - ActiveAppsEntryLifetime
          <6>1. c > 0
            BY <1>5, <1>16, <4>3, SMT
          <6>2. latest'[a] = c
            BY <1>17, <4>3
          <6>. QED  BY <1>15, <2>2, <3>1, <3>3, <6>1, <6>2
        <5>2. m[a] # noEntry /\ t[m[a]] = latest[a]
          BY <5>1 DEF Inv, Fresh
        <5>3. old = c
          BY <1>2, <1>15, <5>2
        <5>4. Newer(old, z) = Newer(c, z)
          BY <5>3
        <5>. QED  BY <1>6, <1>17, <3>3, <4>1, <5>4
      <4>4. c <= z \/ c > z
        BY <1>5, <1>16, SMT
      <4>. QED  BY <4>2, <4>3, <4>4
    <3>. QED  BY <3>2, <3>3
  <2>. QED  BY <2>1, <2>2 DEF Fresh
<1>19. ListedSince'
  <2>1. ASSUME NEW k \in 1 .. Len(apps) PROVE latest'[apps[k]] >= since
    <3>1. apps[k] \in App /\ since \in Nat
      BY BoundAssumption, SMT DEF Inv, Types, Time
    <3>2. latest[apps[k]] >= since
      BY DEF Inv, ListedSince
    <3>3. CASE apps[k] = a
      <4>1. c >= since
        BY <1>15, <3>2, <3>3
      <4>2. Newer(c, z) >= since
        BY <1>16, <1>17, <3>1, <4>1, SMT
      <4>. QED  BY <1>17, <3>3, <4>2
    <3>4. CASE apps[k] # a
      BY <1>17, <3>1, <3>2, <3>4
    <3>. QED  BY <3>3, <3>4
  <2>. QED  BY <1>1, <2>1 DEF ListedSince
<1>20. PopsRight'
  <2>1. ASSUME NEW k \in 1 .. Len(snapshot.h) PROVE t'[snapshot.h[k]] >= t[snapshot.h[k]]
    <3>1. snapshot.h[k] \in Entry
      BY SMT DEF Inv, Types, SnapshotSet
    <3>2. CASE snapshot.h[k] = y
      <4>1. old = t[y]
        BY <1>2, <3>2
      <4>. QED  BY <1>5, <1>6, <3>2, <4>1
    <3>3. CASE snapshot.h[k] # y
      <4>1. t'[snapshot.h[k]] = t[snapshot.h[k]] /\ t[snapshot.h[k]] \in Int
        BY <1>4, <1>6, <3>1, <3>3
      <4>. QED  BY <4>1, SMT
    <3>. QED  BY <3>2, <3>3
  <2>2. Types /\ PopsRight
    BY DEF Inv
  <2>. QED  BY <1>1, <1>6, <2>1, <2>2, Rising
<1>21. Types'
  <2>1. now' = now /\ marks' \in 0 .. MaxMarks
    <3>1. marks \in 0 .. MaxMarks
      BY DEF Inv, Types
    <3>. QED  BY <3>1, BoundAssumption, SMT DEF Response
  <2>. QED  BY <1>1, <1>6, <1>13, <1>17, <2>1 DEF Inv, Types
<1>22. Places(snapshot)' /\ AppsOnce(snapshot.h, apps)'
  BY <1>1, ZenonT(30) DEF Inv, Places, AppsOnce
<1>. QED  BY <1>14, <1>18, <1>19, <1>20, <1>21, <1>22 DEF Inv

(* u has the times of the entries of m and h, and no other. *)
IsLive(u, m, h) ==
  /\ u \in Times
  /\ \A e \in Entry : u[e] = t[e] \/ u[e] = 0
  /\ \A e \in Entry : e \in Entries(m) => u[e] = t[e]
  /\ \A e \in Entry : (\E k \in 1 .. Len(h) : h[k] = e) => u[e] = t[e]

LEMMA LiveIs ==
  ASSUME t \in Times, NEW m, NEW h
  PROVE  IsLive(Live(m, h), m, h)
<1>1. 0 \in 0 .. MaxTime
  BY BoundAssumption, SMT
<1>2. \A e \in Entry : Live(m, h)[e] =
        IF e \in Entries(m) \/ (\E k \in 1 .. Len(h) : h[k] = e) THEN t[e] ELSE 0
  BY DEF Live
<1>3. Live(m, h) \in Times
  BY <1>1 DEF Live, Times
<1>. QED  BY <1>2, <1>3 DEF IsLive

(* Forgetting the times of entries that are gone. *)
LEMMA LiveKeeps ==
  ASSUME Inv, NEW h, t' = Live(active'.m, h), active' \in ActiveState,
         InStep(active'.m, active'.i, active'.j), UNCHANGED <<latest, now>>,
         \A a \in App : \/ active'.m[a] = active.m[a]
                        \/ active'.m[a] = noEntry /\ t[active.m[a]] <= now - ActiveAppsEntryLifetime
  PROVE  t' \in Times /\ InStep(active.m, active.i, active.j)' /\ Fresh'
<1>1. t \in Times
  BY DEF Inv, Types
<1>2. /\ t' \in Times
      /\ \A e \in Entry : t'[e] = t[e] \/ t'[e] = 0
      /\ \A e \in Entry : e \in Entries(active'.m) => t'[e] = t[e]
  <2>1. IsLive(t', active'.m, h)
    BY <1>1, LiveIs
  <2>. QED  BY <2>1 DEF IsLive
<1>3. active'.m \in [App -> Entry \cup {noEntry}] /\ Entries(active'.m) \subseteq Entry
      /\ \A a \in App : active'.m[a] # noEntry => active'.m[a] \in Entries(active'.m)
  <2>1. active'.m \in [App -> Entry \cup {noEntry}]
    BY DEF InStep
  <2>. QED  BY <2>1, EntriesOf
<1>4. InStep(active.m, active.i, active.j)'
  <2>1. \A e \in Entries(active'.m) : t'[e] = t[e] /\ Later'[e] = Later[e]
    BY <1>2, <1>3 DEF Later
  <2>2. InHeap(active'.i, t', Entries(active'.m))
    BY <2>1, OtherKeys DEF InStep
  <2>3. InHeap(active'.j, Later', Entries(active'.m))
    BY <2>1, OtherKeys DEF InStep
  <2>. QED  BY <2>2, <2>3 DEF InStep
<1>5. Fresh'
  <2>1. ASSUME NEW e \in Entry PROVE t'[e] <= latest[e.ApplicationId]
    <3>1. t[e] <= latest[e.ApplicationId] /\ e.ApplicationId \in App
      BY SMT DEF Inv, Fresh, Entry
    <3>2. latest[e.ApplicationId] \in 0 .. MaxTime
      BY <3>1 DEF Inv, Types
    <3>3. 0 <= latest[e.ApplicationId]
      BY <3>2, BoundAssumption, SMT
    <3>. QED  BY <1>2, <3>1, <3>3
  <2>2. ASSUME NEW a \in App, latest[a] > 0, latest[a] > now - ActiveAppsEntryLifetime
        PROVE  active'.m[a] # noEntry /\ t'[active'.m[a]] = latest[a]
    <3>1. active.m[a] # noEntry /\ t[active.m[a]] = latest[a]
      BY <2>2 DEF Inv, Fresh
    <3>2. ~(latest[a] <= now - ActiveAppsEntryLifetime)
      <4>1. latest[a] \in 0 .. MaxTime /\ now \in 1 .. MaxTime
        BY DEF Inv, Types, Time
      <4>. QED  BY <2>2, <4>1, BoundAssumption, ActiveAssumption, SMT
    <3>3. active'.m[a] = active.m[a] /\ active'.m[a] # noEntry
      BY <3>1, <3>2
    <3>. QED  BY <1>2, <1>3, <3>1, <3>3
  <2>. QED  BY <2>1, <2>2 DEF Fresh
<1>. QED  BY <1>2, <1>4, <1>5

LEMMA SnapshotEntries ==
  ASSUME Types
  PROVE  /\ snapshot.h \in Seq(Entry) /\ Len(snapshot.h) \in Nat
         /\ \A k \in 1 .. Len(snapshot.h) : snapshot.h[k] \in Entry /\ t[snapshot.h[k]] \in Int
         /\ since \in Int
         /\ snapshot.pc \in {"idle", "pop", "pick", "sift", "popped"}
         /\ snapshot.at \in Nat /\ snapshot.child \in Nat
<1>1. snapshot.h \in Seq(Entry) /\ since \in Int /\ snapshot.at \in Nat /\ snapshot.child \in Nat
      /\ snapshot.pc \in {"idle", "pop", "pick", "sift", "popped"}
  BY BoundAssumption, SMT DEF Types, SnapshotSet, Time
<1>2. Len(snapshot.h) \in Nat /\ \A k \in 1 .. Len(snapshot.h) : snapshot.h[k] \in Entry
  BY <1>1, SMT
<1>3. \A e \in Entry : t[e] \in Int
  BY BoundAssumption, SMT DEF Types, Times
<1>. QED  BY <1>1, <1>2, <1>3

(* Trim, in the state of Inv. *)
LEMMA TrimmedNow ==
  ASSUME Inv, TrimActive
  PROVE  TrimmedRight(active, active', now - ActiveAppsEntryLifetime)
<1>1. now - ActiveAppsEntryLifetime \in Int
  BY BoundAssumption, ActiveAssumption, SMT DEF Inv, Types, Time
<1>2. t \in Times /\ active \in ActiveState /\ InStep(active.m, active.i, active.j)
  BY DEF Inv, Types
<1>. QED  BY <1>1, <1>2, TrimIs DEF TrimActive

LEMMA TrimActiveKeeps ==
  ASSUME Inv, TrimActive, UNCHANGED <<now, marks>>
  PROVE  Inv'
<1>1. /\ active' \in ActiveState
      /\ InStep(active'.m, active'.i, active'.j)
      /\ \A a \in App : active'.m[a] =
           IF active.m[a] # noEntry /\ t[active.m[a]] <= now - ActiveAppsEntryLifetime
             THEN noEntry ELSE active.m[a]
  BY TrimmedNow DEF TrimmedRight
<1>2. t' = Live(active'.m, snapshot.h) /\ UNCHANGED <<flush, snapshot, since, apps, latest, due>>
  BY DEF TrimActive
<1>3. t' \in Times /\ InStep(active.m, active.i, active.j)' /\ Fresh'
  BY <1>1, <1>2, LiveKeeps
<1>4. PopsRight'
  <2>1. t \in Times /\ Types /\ PopsRight
    BY DEF Inv, Types
  <2>2. ASSUME NEW k \in 1 .. Len(snapshot.h) PROVE t'[snapshot.h[k]] >= t[snapshot.h[k]]
    <3>1. snapshot.h[k] \in Entry /\ t[snapshot.h[k]] \in Int
      BY <2>1, SnapshotEntries
    <3>2. \A e \in Entry : (\E l \in 1 .. Len(snapshot.h) : snapshot.h[l] = e) => t'[e] = t[e]
      <4>1. IsLive(t', active'.m, snapshot.h)
        BY <1>2, <2>1, LiveIs
      <4>. QED  BY <4>1 DEF IsLive
    <3>3. t'[snapshot.h[k]] = t[snapshot.h[k]]
      BY <3>1, <3>2
    <3>. QED  BY <3>1, <3>3, SMT
  <2>. QED  BY <1>2, <1>3, <2>1, <2>2, Rising
<1>5. Types'
  BY <1>1, <1>2, <1>3 DEF Inv, Types
<1>6. Places(snapshot)' /\ AppsOnce(snapshot.h, apps)' /\ ListedSince'
  <2>1. Places(snapshot)' /\ AppsOnce(snapshot.h, apps)'
    BY <1>2 DEF Inv
  <2>. QED  BY <1>2, <2>1 DEF Inv, ListedSince
<1>. QED  BY <1>3, <1>4, <1>5, <1>6 DEF Inv

LEMMA TickKeeps ==
  ASSUME Inv, Tick, UNCHANGED activeVars
  PROVE  Inv'
<1>1. UNCHANGED <<active, t, flush, snapshot, since, apps, latest, due, marks>> /\ now' = now + 1
  BY DEF Tick, activeVars
<1>2. now' \in Time /\ flush <= now'
  BY <1>1, BoundAssumption, SMT DEF Tick, Inv, Types, Time
<1>3. Types'
  BY <1>1, <1>2 DEF Inv, Types
<1>4. InStep(active.m, active.i, active.j)'
  BY <1>1 DEF Inv, InStep, Later
<1>5. Fresh'
  <2>1. ASSUME NEW a \in App, latest[a] > 0, latest[a] > now' - ActiveAppsEntryLifetime
        PROVE  active.m[a] # noEntry /\ t[active.m[a]] = latest[a]
    <3>1. latest[a] \in 0 .. MaxTime /\ now \in 1 .. MaxTime
      BY DEF Inv, Types, Time
    <3>2. latest[a] > now - ActiveAppsEntryLifetime
      BY <1>1, <2>1, <3>1, BoundAssumption, ActiveAssumption, SMT
    <3>. QED  BY <2>1, <3>2 DEF Inv, Fresh
  <2>. QED  BY <1>1, <2>1 DEF Inv, Fresh
<1>6. Places(snapshot)' /\ AppsOnce(snapshot.h, apps)' /\ ListedSince'
  <2>1. Places(snapshot)' /\ AppsOnce(snapshot.h, apps)'
    BY <1>1 DEF Inv
  <2>. QED  BY <1>1, <2>1 DEF Inv, ListedSince
<1>7. PopsRight'
  BY <1>1 DEF Inv, PopsRight, Recent, DueLeft, InOrder
<1>. QED  BY <1>3, <1>4, <1>5, <1>6, <1>7 DEF Inv

LEMMA NoEarlier ==
  ASSUME NEW x \in Int, NEW y \in Int, NEW z \in Int, -x <= -y \/ ~(-y < -x), y >= z
  PROVE  x >= z
BY SMT

LEMMA FlushKeeps ==
  ASSUME Inv, FlushApps, UNCHANGED <<now, marks>>
  PROVE  Inv'
(* Taking a list: the copy is popped in the order of the heap. *)
<1>EntriesOnce.
  ASSUME NEW m, NEW i, NEW j, InStep(m, i, j)
  PROVE  \A k, l \in 1 .. Len(j.h) : j.h[k].ApplicationId = j.h[l].ApplicationId => k = l
  <2> USE <1>EntriesOnce
  <2>1. m \in [App -> Entry \cup {noEntry}] /\ \A a \in App : m[a] # noEntry => m[a].ApplicationId = a
    BY DEF InStep
  <2>2. Placed(j, Entries(m))
    BY DEF InStep, InHeap
  <2>3. ASSUME NEW k \in 1 .. Len(j.h) PROVE m[j.h[k].ApplicationId] = j.h[k]
    <3>1. j.h[k] \in Entries(m)
      BY <2>2 DEF Placed
    <3>2. PICK a \in App : m[a] = j.h[k] /\ m[a] # noEntry
      BY <2>1, <3>1, EntriesOf
    <3>. QED  BY <2>1, <3>2
  <2>4. \A k \in 1 .. Len(j.h) : j.pos[j.h[k]] = k
    BY <2>2 DEF Placed
  <2>. QED  BY <2>3, <2>4, ZenonT(30)
<1> DEFINE h == active.j.h
           N == Len(h)
           m == active.m
<1>0. /\ snapshot' = Snapshot(active.j) /\ since' = flush /\ flush' \in flush .. now /\ apps' = <<>>
      /\ due' = {a \in App : latest[a] >= flush /\ latest[a] > now - ActiveAppsEntryLifetime}
      /\ UNCHANGED <<active, t, latest, now, marks>>
  BY DEF FlushApps
<1>1. /\ t \in Times /\ active \in ActiveState /\ InStep(m, active.i, active.j)
      /\ m \in [App -> Entry \cup {noEntry}]
      /\ \A a \in App : m[a] # noEntry => m[a].ApplicationId = a
  BY DEF Inv, Types, InStep
<1>2. Placed(active.j, Entries(m)) /\ Sorted(KeysOf(h, Later, N), N)
  BY <1>1 DEF InStep, InHeap
<1>3. /\ N \in Nat /\ h \in Seq(Entry) /\ (\A k \in 1 .. N : h[k] \in Entry)
      /\ {h[k] : k \in 1 .. N} = Entries(m)
  BY <1>2, SMT DEF Placed, HeapSet
<1>4. /\ snapshot'.h = h /\ snapshot'.pc = "pop" /\ snapshot'.at = 0 /\ snapshot'.child = 0
      /\ snapshot' = [pc |-> "pop", h |-> h, at |-> 0, child |-> 0]
  BY <1>0, SMT DEF Snapshot
<1>5. Len(<<>>) = 0 /\ ~(\E k \in 1 .. Len(<<>>) : TRUE)
  BY SMT
<1>6. Types'
  <2>1. snapshot' \in SnapshotSet
    BY <1>3, <1>4, SMT DEF SnapshotSet
  <2>2. flush \in Time /\ now \in Time /\ flush <= now
    BY DEF Inv, Types
  <2>3. flush' \in Time /\ flush' <= now
    BY <1>0, <2>2, BoundAssumption, SMT DEF Time
  <2>4. <<>> \in Seq(App) /\ due' \subseteq App
    BY <1>0, SMT
  <2>. QED  BY <1>0, <2>1, <2>2, <2>3, <2>4 DEF Inv, Types
<1>7. Places(snapshot)'
  BY <1>3, <1>4, SMT DEF Places
<1>8. InStep(active.m, active.i, active.j)' /\ Fresh'
  BY <1>0 DEF Inv, InStep, Fresh, Later
<1>9. AppsOnce(snapshot.h, apps)'
  <2>1. \A k, l \in 1 .. N : h[k].ApplicationId = h[l].ApplicationId => k = l
    BY <1>1, <1>EntriesOnce
  <2>. QED  BY <1>0, <1>4, <1>5, <2>1 DEF AppsOnce
<1>10. ListedSince'
  BY <1>0, <1>5 DEF ListedSince
<1>11. PopsRight'
  <2>1. PICK G \in SUBSET Entry : \A e \in Entry : e \in G <=> t[e] >= flush
    <3> DEFINE R == {e \in Entry : t[e] >= flush}
    <3>1. R \in SUBSET Entry /\ \A e \in Entry : e \in R <=> t[e] >= flush
      OBVIOUS
    <3> HIDE DEF R
    <3>. QED  BY <3>1
  <2>2. Recent(snapshot.h, G)'
    BY <1>0, <1>3, <1>4, <2>1 DEF Recent
  <2>3. DueLeft(snapshot.h, G)'
    <3>1. ASSUME NEW a \in due' PROVE \E k \in 1 .. N : h[k].ApplicationId = a /\ h[k] \in G
      <4>1. a \in App /\ latest[a] >= flush /\ latest[a] > now - ActiveAppsEntryLifetime
        BY <1>0, <3>1
      <4>2. latest[a] > 0
        <5>1. flush \in 1 .. MaxTime /\ latest[a] \in 0 .. MaxTime
          BY <4>1 DEF Inv, Types, Time
        <5>. QED  BY <4>1, <5>1, BoundAssumption, SMT
      <4>3. m[a] # noEntry /\ t[m[a]] = latest[a]
        BY <4>1, <4>2 DEF Inv, Fresh
      <4>4. m[a] \in Entries(m) /\ m[a] \in Entry
        BY <1>1, <4>1, <4>3, EntriesOf
      <4>5. PICK k \in 1 .. N : h[k] = m[a]
        BY <1>3, <4>4
      <4>. QED  BY <1>1, <2>1, <4>1, <4>3, <4>4, <4>5
    <3>. QED  BY <1>4, <3>1 DEF DueLeft
  <2>4. Closed(h, G, N)
    <3> SUFFICES ASSUME NEW k \in 2 .. N, h[k] \in G PROVE h[k \div 2] \in G
      BY DEF Closed
    <3>0. N \in Nat
      BY <1>3
    <3>1. k \in 1 .. N /\ k \div 2 \in 1 .. N
      BY <3>0, Half, SMT
    <3>2. Later[h[k \div 2]] <= Later[h[k]]
      BY <1>2, <3>1 DEF Sorted, KeysOf
    <3>3. Later[h[k \div 2]] = -t[h[k \div 2]] /\ Later[h[k]] = -t[h[k]]
          /\ h[k \div 2] \in Entry /\ h[k] \in Entry
      BY <1>3, <3>1 DEF Later
    <3>4. t[h[k \div 2]] \in Int /\ t[h[k]] \in Int /\ flush \in Int
      <4>1. flush \in Time /\ t \in Times
        BY <1>1 DEF Inv, Types
      <4>2. \A e \in Entry : t[e] \in Int
        BY <4>1, BoundAssumption, SMT DEF Times
      <4>3. flush \in Int
        BY <4>1, BoundAssumption, SMT DEF Time
      <4>. QED  BY <3>3, <4>2, <4>3
    <3>5. t[h[k]] >= flush
      BY <2>1, <3>3
    <3>6. -t[h[k \div 2]] <= -t[h[k]]
      BY <3>2, <3>3
    <3>7. t[h[k \div 2]] >= flush
      BY <3>4, <3>5, <3>6, NoEarlier
    <3>. QED  BY <2>1, <3>3, <3>7
  <2>5. InOrder(snapshot, G)'
    BY <1>4, <2>4 DEF InOrder
  <2>. QED  BY <2>1, <2>2, <2>3, <2>5 DEF PopsRight
<1>. QED  BY <1>6, <1>7, <1>8, <1>9, <1>10, <1>11 DEF Inv

(* Publishing a list. *)
LEMMA PublishKeeps ==
  ASSUME Inv, Publish, UNCHANGED <<now, marks>>
  PROVE  Inv'
<1>0. /\ t' = Live(active.m, <<>>) /\ snapshot' = NoSnapshot /\ since' = 1 /\ apps' = <<>>
      /\ due' = {} /\ UNCHANGED <<active, flush, latest, now, marks>>
  BY DEF Publish
<1>1. t' \in Times /\ InStep(active.m, active.i, active.j)' /\ Fresh'
  <2>1. active' \in ActiveState /\ InStep(active'.m, active'.i, active'.j)
    BY <1>0 DEF Inv, Types
  <2>. QED  BY <1>0, <2>1, LiveKeeps
<1>2. snapshot'.h = <<>> /\ snapshot'.pc = "idle" /\ snapshot'.at = 0 /\ snapshot'.child = 0
      /\ snapshot' \in SnapshotSet /\ <<>> \in Seq(App) /\ 1 \in Time /\ Places(snapshot')
  BY <1>0, BoundAssumption, SMT DEF NoSnapshot, SnapshotSet, Time, Places
<1>3. Len(<<>>) = 0 /\ ~(\E k \in 1 .. Len(<<>>) : TRUE)
  BY SMT
<1>4. Types'
  BY <1>0, <1>1, <1>2 DEF Inv, Types
<1>5. AppsOnce(snapshot.h, apps)' /\ ListedSince'
  BY <1>0, <1>2, <1>3 DEF AppsOnce, ListedSince
<1>6. PopsRight'
  <2>1. Recent(snapshot.h, {})' /\ DueLeft(snapshot.h, {})'
    BY <1>0, <1>2, <1>3 DEF Recent, DueLeft
  <2>2. InOrder(snapshot, {})'
    BY <1>2 DEF InOrder
  <2>. QED  BY <2>1, <2>2 DEF PopsRight
<1>. QED  BY <1>1, <1>2, <1>4, <1>5, <1>6 DEF Inv

-----------------------------------------------------------------------------
(* Popping the copy. *)

(* What has to be listed is left when two entries of the copy are exchanged. *)
LEMMA FlippedDue ==
  ASSUME NEW h, NEW g, NEW a \in 1 .. Len(h), NEW b \in 1 .. Len(h), Flipped(h, g, a, b), NEW G
  PROVE  /\ Recent(h, G) => Recent(g, G)
         /\ DueLeft(h, G) => DueLeft(g, G)
<1>1. Len(g) = Len(h)
  BY DEF Flipped
<1>4. \A k \in 1 .. Len(h) : g[k] = IF k = a THEN h[b] ELSE IF k = b THEN h[a] ELSE h[k]
  BY DEF Flipped
<1>5. /\ \A k \in 1 .. Len(h) : \E l \in 1 .. Len(h) : g[k] = h[l]
      /\ \A l \in 1 .. Len(h) : \E k \in 1 .. Len(h) : g[k] = h[l]
  BY <1>4
<1>2. Recent(h, G) => Recent(g, G)
  BY <1>1, <1>5 DEF Recent
<1>3. DueLeft(h, G) => DueLeft(g, G)
  <2> SUFFICES ASSUME DueLeft(h, G), NEW c \in due, ~(\E k \in 1 .. Len(apps) : apps[k] = c)
               PROVE  \E k \in 1 .. Len(g) : g[k].ApplicationId = c /\ g[k] \in G
    BY DEF DueLeft
  <2>1. PICK l \in 1 .. Len(h) : h[l].ApplicationId = c /\ h[l] \in G
    BY DEF DueLeft
  <2>2. PICK k \in 1 .. Len(h) : g[k] = h[l]
    BY <1>5
  <2>. QED  BY <1>1, <2>1, <2>2
<1>. QED  BY <1>2, <1>3

LEMMA AlsoInIs ==
  ASSUME NEW h, NEW G, NEW n \in Nat, Distinct(h, n), NEW d \in 1 .. n
  PROVE  AlsoIn(h, G \cup {h[d]}, G, n, d)
BY DEF Distinct, AlsoIn

LEMMA PickOrder ==
  ASSUME NEW h, NEW G, NEW K, NEW n \in Nat, NEW c \in 1 .. n, HoleAt(h, G, n, c),
         NEW b \in 2 .. n, b \div 2 = c, AlsoIn(h, K, G, n, b),
         NEW d \in 2 .. n, d \div 2 = c, h[d] \in G
  PROVE  HoleAt(h, K, n, c) /\ PickIn(h, K, n, c, b)
<1>1. PickIn(h, K, n, c, b)
  BY DEF PickIn, AlsoIn
<1>2. ASSUME NEW k \in 2 .. n, h[k] \in K, k # b
      PROVE  /\ k \div 2 # c => h[k \div 2] \in K
             /\ k \div 2 = c /\ c >= 2 => h[c \div 2] \in K
  <2>1. k \in 1 .. n
    BY SMT
  <2>2. h[k] \in G
    BY <1>2, <2>1 DEF AlsoIn
  <2>. QED  BY <2>2 DEF HoleAt, AlsoIn
<1>3. c >= 2 => h[c \div 2] \in K
  BY DEF HoleAt, AlsoIn
<1>. QED  BY <1>1, <1>2, <1>3 DEF HoleAt

(* A step of a Pop. *)
LEMMA SnapshotStep ==
  ASSUME Inv, UNCHANGED <<active, t, flush, since, latest, due, now, marks>>,
         snapshot' \in SnapshotSet, Places(snapshot'), apps' \in Seq(App),
         AppsOnce(snapshot'.h, apps'), ListedSince',
         NEW G \in SUBSET Entry, Recent(snapshot'.h, G), InOrder(snapshot', G),
         DueLeft(snapshot.h, G)'
  PROVE  Inv'
<1>1. Types'
  BY DEF Inv, Types
<1>2. InStep(active.m, active.i, active.j)' /\ Fresh'
  <2>1. Later' = Later
    BY DEF Later
  <2>. QED  BY <2>1 DEF Inv, InStep, Fresh
<1>3. Recent(snapshot.h, G)'
  BY DEF Recent
<1>4. PopsRight'
  BY <1>3 DEF PopsRight
<1>. QED  BY <1>1, <1>2, <1>4 DEF Inv

(* A step that only moves entries of the copy. *)
LEMMA MovedStep ==
  ASSUME Inv, UNCHANGED <<active, t, flush, since, apps, latest, due, now, marks>>,
         snapshot' \in SnapshotSet, Places(snapshot'), AppsOnce(snapshot'.h, apps),
         NEW G \in SUBSET Entry, Recent(snapshot'.h, G), DueLeft(snapshot'.h, G),
         InOrder(snapshot', G)
  PROVE  Inv'
<1>1. apps' \in Seq(App) /\ AppsOnce(snapshot'.h, apps')
  BY DEF Inv, Types
<1>2. ListedSince'
  BY DEF Inv, ListedSince
<1>3. DueLeft(snapshot.h, G)'
  BY DEF DueLeft
<1>. QED  BY <1>1, <1>2, <1>3, SnapshotStep

LEMMA PopNextKeeps ==
  ASSUME Inv, PopNext, UNCHANGED <<now, marks>>
  PROVE  Inv'
<1> DEFINE h == snapshot.h
           n == Len(h)
           g == Swapped(h, 1, n)
<1>0. /\ snapshot.pc = "pop" /\ h # <<>> /\ snapshot' = PopStarted(snapshot)
      /\ UNCHANGED <<active, t, flush, since, apps, latest, due, now, marks>>
  BY DEF PopNext
<1>1. Types /\ AppsOnce(h, apps) /\ h \in Seq(Entry)
  <2>1. Types /\ AppsOnce(h, apps)
    BY DEF Inv
  <2>. QED  BY <2>1, SnapshotEntries
<1>2. n \in Nat \ {0} /\ 1 \in 1 .. n /\ n \in 1 .. n
  BY <1>0, <1>1, SMT
<1>3. Flipped(h, g, 1, n)
  BY <1>1, <1>2, SwappedIs
<1> HIDE DEF g
<1>4. g \in Seq(Entry) /\ Len(g) = n
  BY <1>3 DEF Flipped
<1>5. /\ snapshot'.pc = "pick" /\ snapshot'.h = g /\ snapshot'.at = 1 /\ snapshot'.child = 0
      /\ snapshot' \in SnapshotSet
  BY <1>0, <1>4, SMT DEF PopStarted, SnapshotSet, g
<1>6. Places(snapshot')
  BY <1>2, <1>4, <1>5, SMT DEF Places
<1>7. PICK G \in SUBSET Entry : Recent(h, G) /\ DueLeft(h, G) /\ InOrder(snapshot, G)
  BY DEF Inv, PopsRight
<1>8. Closed(h, G, n)
  BY <1>0, <1>7 DEF InOrder
<1>9. HoleAt(g, G, n - 1, 1) /\ LastIn(g, G)
  BY <1>2, <1>3, <1>8, PopOrder
<1>10. InOrder(snapshot', G)
  BY <1>4, <1>5, <1>9 DEF InOrder
<1>11. Recent(g, G) /\ DueLeft(g, G) /\ AppsOnce(g, apps)
  BY <1>1, <1>2, <1>3, <1>7, FlippedKeeps, FlippedDue
<1>. QED  BY <1>0, <1>5, <1>6, <1>10, <1>11, MovedStep

LEMMA CollectKeeps ==
  ASSUME Inv, Collect, UNCHANGED <<now, marks>>
  PROVE  Inv'
<1> DEFINE h == snapshot.h
           n == Len(h)
           e == h[n]
           g == SubSeq(h, 1, n - 1)
<1>0. /\ snapshot.pc = "popped" /\ t[e] >= since /\ apps' = Append(apps, e.ApplicationId)
      /\ snapshot' = [pc |-> "pop", h |-> g, at |-> 0, child |-> 0]
      /\ UNCHANGED <<active, t, flush, since, latest, due, now, marks>>
  BY DEF Collect, PoppedEntry, Shortened
<1>1. Types /\ AppsOnce(h, apps) /\ h \in Seq(Entry) /\ apps \in Seq(App) /\ h # <<>>
  <2>1. Types /\ AppsOnce(h, apps) /\ Places(snapshot)
    BY DEF Inv
  <2>. QED  BY <1>0, <2>1, SnapshotEntries DEF Types, Places
<1>2. n \in Nat \ {0} /\ n \in 1 .. n /\ e \in Entry /\ e.ApplicationId \in App
  <2>1. n \in Nat \ {0} /\ n \in 1 .. n
    BY <1>1, SMT
  <2>2. e \in Entry
    BY <1>1, <2>1, SMT
  <2> HIDE DEF e
  <2>3. e.ApplicationId \in App
    BY <2>2, SMT DEF Entry
  <2>. QED  BY <2>1, <2>2, <2>3
<1>3. /\ g \in Seq(Entry) /\ Len(g) = n - 1
      /\ \A k \in 1 .. (n - 1) : g[k] = h[k] /\ k \in 1 .. n /\ k # n
      /\ \A k \in 1 .. n : k = n \/ k \in 1 .. (n - 1)
  BY <1>1, <1>2, CutLast
<1> DEFINE N == Len(apps)
           list == Append(apps, e.ApplicationId)
<1>4. /\ list \in Seq(App) /\ Len(list) = N + 1 /\ N \in Nat
      /\ N + 1 \in 1 .. (N + 1) /\ list[N + 1] = e.ApplicationId
      /\ \A k \in 1 .. N : list[k] = apps[k] /\ k \in 1 .. (N + 1)
      /\ \A k \in 1 .. (N + 1) : k = N + 1 \/ k \in 1 .. N
  BY <1>1, <1>2, SMT
<1> HIDE DEF g, list
<1>5. /\ snapshot'.pc = "pop" /\ snapshot'.h = g /\ snapshot'.at = 0 /\ snapshot'.child = 0
      /\ snapshot' \in SnapshotSet /\ apps' = list
  BY <1>0, <1>3, SMT DEF SnapshotSet, list
<1>6. Places(snapshot')
  BY <1>2, <1>3, <1>5, SMT DEF Places
<1>7. AppsOnce(g, list)
  <2>1. /\ \A k, l \in 1 .. n : h[k].ApplicationId = h[l].ApplicationId => k = l
        /\ \A k, l \in 1 .. N : apps[k] = apps[l] => k = l
        /\ \A k \in 1 .. N, l \in 1 .. n : apps[k] # h[l].ApplicationId
    BY <1>1 DEF AppsOnce
  <2>2. \A k, l \in 1 .. Len(g) : g[k].ApplicationId = g[l].ApplicationId => k = l
    BY <1>3, <2>1, ZenonT(30)
  <2>3. ASSUME NEW k \in 1 .. (N + 1), NEW l \in 1 .. (N + 1), list[k] = list[l] PROVE k = l
    <3>1. CASE k = N + 1
      BY <1>2, <1>4, <2>1, <2>3, <3>1
    <3>2. CASE k # N + 1
      BY <1>2, <1>4, <2>1, <2>3, <3>2, ZenonT(30)
    <3>. QED  BY <3>1, <3>2
  <2>4. ASSUME NEW k \in 1 .. (N + 1), NEW l \in 1 .. (n - 1) PROVE list[k] # g[l].ApplicationId
    <3>0. g[l] = h[l] /\ l \in 1 .. n /\ l # n
      BY <1>3
    <3>1. h[n].ApplicationId # h[l].ApplicationId
      BY <1>2, <2>1, <3>0
    <3>2. CASE k = N + 1
      <4>1. list[k] = h[n].ApplicationId /\ g[l].ApplicationId = h[l].ApplicationId
        BY <1>4, <3>0, <3>2, SMT
      <4>. QED  BY <3>1, <4>1
    <3>3. CASE k # N + 1
      <4>1. k \in 1 .. N /\ list[k] = apps[k]
        BY <1>4, <3>3
      <4>2. apps[k] # h[l].ApplicationId
        BY <2>1, <3>0, <4>1
      <4>. QED  BY <3>0, <4>1, <4>2
    <3>. QED  BY <3>2, <3>3
  <2>. QED  BY <1>3, <1>4, <2>2, <2>3, <2>4 DEF AppsOnce
<1>8. ListedSince'
  <2>1. latest[e.ApplicationId] >= since
    <3>1. t[e] <= latest[e.ApplicationId] /\ since \in Time /\ t \in Times
          /\ latest \in [App -> 0 .. MaxTime]
      BY <1>2 DEF Inv, Types, Fresh
    <3>2. t[e] \in 0 .. MaxTime /\ latest[e.ApplicationId] \in 0 .. MaxTime /\ since \in 1 .. MaxTime
      BY <1>2, <3>1 DEF Times, Time
    <3>. QED  BY <1>0, <3>1, <3>2, BoundAssumption, SMT
  <2>2. \A k \in 1 .. N : latest[apps[k]] >= since
    BY DEF Inv, ListedSince
  <2>3. ASSUME NEW k \in 1 .. (N + 1) PROVE latest[list[k]] >= since
    BY <1>4, <2>1, <2>2
  <2>. QED  BY <1>0, <1>4, <1>5, <2>3 DEF ListedSince
<1>9. PICK G \in SUBSET Entry : Recent(h, G) /\ DueLeft(h, G) /\ InOrder(snapshot, G)
  BY DEF Inv, PopsRight
<1>10. Recent(g, G)
  BY <1>3, <1>9 DEF Recent
<1>11. InOrder(snapshot', G)
  <2>1. Closed(h, G, n - 1)
    BY <1>0, <1>9 DEF InOrder
  <2>2. \A k \in 2 .. (n - 1) : k \in 1 .. (n - 1) /\ k \div 2 \in 1 .. (n - 1)
    BY <1>2, Half, SMT
  <2>3. Closed(g, G, n - 1)
    BY <1>3, <2>1, <2>2 DEF Closed
  <2>. QED  BY <1>3, <1>5, <2>3 DEF InOrder
<1>12. ASSUME NEW a \in due
       PROVE  \/ \E k \in 1 .. Len(list) : list[k] = a
              \/ \E k \in 1 .. Len(g) : g[k].ApplicationId = a /\ g[k] \in G
  <2>1. CASE \E k \in 1 .. N : apps[k] = a
    BY <1>4, <2>1
  <2>2. CASE \E k \in 1 .. n : h[k].ApplicationId = a /\ h[k] \in G
    <3>1. PICK k \in 1 .. n : h[k].ApplicationId = a /\ h[k] \in G
      BY <2>2
    <3>2. CASE k = n
      BY <1>4, <3>1, <3>2
    <3>3. CASE k # n
      <4>1. k \in 1 .. Len(g) /\ g[k] = h[k]
        BY <1>3, <3>3
      <4>. QED  BY <3>1, <4>1
    <3>. QED  BY <3>2, <3>3
  <2>. QED  BY <1>9, <2>1, <2>2 DEF DueLeft
<1>13. DueLeft(snapshot.h, G)'
  <2>1. due' = due /\ apps' = list /\ snapshot'.h = g
    BY <1>0, <1>5
  <2>. QED  BY <1>12, <2>1 DEF DueLeft
<1>14. apps' \in Seq(App)
  BY <1>4, <1>5
<1>. QED  BY <1>0, <1>5, <1>6, <1>7, <1>8, <1>10, <1>11, <1>13, <1>14, SnapshotStep

(* Another recent entry in G. *)
LEMMA Grown ==
  ASSUME NEW h \in Seq(Entry), NEW G \in SUBSET Entry, NEW b \in 1 .. Len(h), t[h[b]] >= since,
         Recent(h, G), DueLeft(h, G)
  PROVE  /\ G \cup {h[b]} \in SUBSET Entry
         /\ Recent(h, G \cup {h[b]}) /\ DueLeft(h, G \cup {h[b]})
<1>1. h[b] \in Entry
  BY SMT
<1>2. \A k \in 1 .. Len(h) : h[k] \in G \cup {h[b]} => t[h[k]] >= since
  <2> SUFFICES ASSUME NEW k \in 1 .. Len(h), h[k] \in G \cup {h[b]} PROVE t[h[k]] >= since
    OBVIOUS
  <2>1. CASE h[k] \in G
    BY <2>1 DEF Recent
  <2>2. CASE h[k] = h[b]
    BY <2>2
  <2>. QED  BY <2>1, <2>2
<1>3. DueLeft(h, G \cup {h[b]})
  BY DEF DueLeft
<1>. QED  BY <1>1, <1>2, <1>3 DEF Recent

LEMMA GrownLast ==
  ASSUME NEW h, NEW G, NEW K, G \subseteq K, LastIn(h, G), NEW d \in 1 .. Len(h), h[d] \in G
  PROVE  LastIn(h, K)
BY DEF LastIn

(* The facts about a Pop under way. *)
LEMMA PopFacts ==
  ASSUME Inv, snapshot.pc \in {"pick", "sift"}
  PROVE  LET h == snapshot.h
             n == Len(h) - 1
         IN /\ h \in Seq(Entry) /\ n \in Nat /\ n <= Len(h) /\ snapshot.at \in 1 .. Len(h)
            /\ Distinct(h, n) /\ AppsOnce(h, apps) /\ since \in Int
            /\ \A k \in 1 .. n : k \in 1 .. Len(h)
            /\ \A k \in 1 .. Len(h) : /\ h[k] \in Entry /\ t[h[k]] \in Int
                                      /\ Later[h[k]] = -t[h[k]] /\ -t[h[k]] \in Int
<1> DEFINE h == snapshot.h
           n == Len(h) - 1
<1>1. Types /\ Places(snapshot) /\ AppsOnce(h, apps)
  BY DEF Inv
<1>2. /\ h \in Seq(Entry) /\ since \in Int /\ Len(h) \in Nat
      /\ \A k \in 1 .. Len(h) : h[k] \in Entry /\ t[h[k]] \in Int
  BY <1>1, SnapshotEntries
<1>3. snapshot.at \in 1 .. Len(h)
  BY <1>1 DEF Places
<1>4. Len(h) \in Nat
  BY <1>2
<1>5. n \in Nat /\ n <= Len(h) /\ \A k \in 1 .. n : k \in 1 .. Len(h)
  BY <1>3, <1>4, SMT
<1>6. Distinct(h, n)
  BY <1>1, <1>5 DEF AppsOnce, Distinct
<1>7. \A e \in Entry : Later[e] = -t[e]
  BY DEF Later
<1>8. \A x \in Int : -x \in Int
  BY SMT
<1>. QED  BY <1>1, <1>2, <1>3, <1>5, <1>6, <1>7, <1>8

LEMMA PickKeeps ==
  ASSUME Inv, snapshot.pc = "pick", snapshot' = Picked(snapshot, Later),
         UNCHANGED <<active, t, flush, since, apps, latest, due, now, marks>>
  PROVE  Inv'
<1> DEFINE h == snapshot.h
           n == Len(h) - 1
           c == snapshot.at
<1>1. /\ h \in Seq(Entry) /\ n \in Nat /\ n <= Len(h) /\ c \in 1 .. Len(h)
      /\ Distinct(h, n) /\ AppsOnce(h, apps) /\ since \in Int
      /\ \A k \in 1 .. n : k \in 1 .. Len(h)
      /\ \A k \in 1 .. Len(h) : /\ h[k] \in Entry /\ t[h[k]] \in Int
                                /\ Later[h[k]] = -t[h[k]] /\ -t[h[k]] \in Int
  BY PopFacts
<1>2. PICK G \in SUBSET Entry : Recent(h, G) /\ DueLeft(h, G) /\ InOrder(snapshot, G)
  BY DEF Inv, PopsRight
<1>3. HoleAt(h, G, n, c) /\ LastIn(h, G)
  BY <1>2 DEF InOrder
<1>4. snapshot \in SnapshotSet /\ Places(snapshot)
  BY DEF Inv, Types
<1>5. Len(h) \in Nat /\ n \in Nat /\ c \in Nat /\ c \in 1 .. Len(h) /\ n + 1 = Len(h)
  <2>1. h \in Seq(Entry) /\ n \in Nat /\ c \in 1 .. Len(h)
    BY <1>1
  <2>. QED  BY <2>1, SMT
<1>6. CASE 2 * c > n
  <2>1. snapshot' = [snapshot EXCEPT !.pc = "popped"]
    BY <1>6 DEF Picked
  <2>2. /\ snapshot'.pc = "popped" /\ snapshot'.h = h /\ snapshot'.at = c
        /\ snapshot'.child = snapshot.child /\ snapshot' \in SnapshotSet
    BY <1>4, <2>1, SMT DEF SnapshotSet
  <2>3. h # <<>>
    BY <1>5, SMT
  <2>4. Places(snapshot')
    BY <1>4, <2>2, <2>3 DEF Places
  <2>5. Closed(h, G, n)
    BY <1>3, <1>5, <1>6, NoChildOrder
  <2>6. InOrder(snapshot', G)
    BY <1>3, <2>2, <2>5 DEF InOrder
  <2>. QED  BY <1>1, <1>2, <2>2, <2>4, <2>6, MovedStep
<1>7. CASE ~(2 * c > n)
  <2> DEFINE b == SmallerChild(h, Later, c, n)
  <2>1. snapshot' = [snapshot EXCEPT !.pc = "sift", !.child = b]
    BY <1>7 DEF Picked
  <2>2. c \in 1 .. n /\ 2 * c <= n
    BY <1>5, <1>7, SMT
  <2>3. LeastChild(KeysOf(h, Later, n), n, c, b)
    <3>1. KeysOf(h, Later, n) \in [1 .. n -> Int]
      BY <1>1 DEF KeysOf
    <3>. QED  BY <1>5, <2>2, <3>1, SmallerChildIs
  <2> HIDE DEF b
  <2>4. b \in 2 .. n /\ b \div 2 = c
    BY <2>3 DEF LeastChild
  <2>5. b \in 1 .. n /\ b \in Nat /\ b \in 0 .. Len(h)
    BY <1>5, <2>4, SMT
  <2>6. /\ snapshot'.pc = "sift" /\ snapshot'.h = h /\ snapshot'.at = c
        /\ snapshot'.child = b /\ snapshot' \in SnapshotSet
    BY <1>4, <2>1, <2>5 DEF SnapshotSet
  <2>7. Places(snapshot')
    BY <1>4, <1>5, <2>4, <2>5, <2>6 DEF Places
  <2>8. CASE \E d \in 2 .. n : d \div 2 = c /\ h[d] \in G
    <3>1. PICK d \in 2 .. n : d \div 2 = c /\ h[d] \in G
      BY <2>8
    <3>2. d \in 1 .. n /\ d \in 1 .. Len(h) /\ b \in 1 .. Len(h)
      BY <1>5, <2>5, SMT
    <3>3. t[h[b]] >= since
      <4>1. Later[h[b]] <= Later[h[d]]
        BY <2>3, <2>5, <3>1, <3>2 DEF LeastChild, KeysOf
      <4>2. -t[h[b]] <= -t[h[d]]
        BY <1>1, <3>2, <4>1
      <4>3. t[h[d]] >= since
        BY <1>2, <3>1, <3>2 DEF Recent
      <4>4. t[h[b]] \in Int /\ t[h[d]] \in Int /\ since \in Int
        BY <1>1, <3>2
      <4>. QED  BY <4>2, <4>3, <4>4, NoEarlier
    <3> DEFINE K == G \cup {h[b]}
    <3>4. K \in SUBSET Entry /\ Recent(h, K) /\ DueLeft(h, K)
      BY <1>1, <1>2, <3>2, <3>3, Grown
    <3>5. AlsoIn(h, K, G, n, b)
      BY <1>1, <2>5, AlsoInIs
    <3> HIDE DEF K
    <3>6. HoleAt(h, K, n, c) /\ PickIn(h, K, n, c, b)
      BY <1>3, <1>5, <2>2, <2>4, <3>1, <3>5, PickOrder
    <3>7. LastIn(h, K)
      <4>1. G \subseteq K
        BY <3>5 DEF AlsoIn
      <4>. QED  BY <1>3, <3>1, <3>2, <4>1, GrownLast
    <3>8. InOrder(snapshot', K)
      BY <2>6, <3>6, <3>7 DEF InOrder, PickIn
    <3>. QED  BY <1>1, <2>6, <2>7, <3>4, <3>8, MovedStep
  <2>9. CASE ~(\E d \in 2 .. n : d \div 2 = c /\ h[d] \in G)
    <3>1. InOrder(snapshot', G)
      BY <1>3, <2>6, <2>9 DEF InOrder
    <3>. QED  BY <1>1, <1>2, <2>6, <2>7, <3>1, MovedStep
  <2>. QED  BY <2>8, <2>9
<1>. QED  BY <1>6, <1>7

LEMMA SiftKeeps ==
  ASSUME Inv, snapshot.pc = "sift", snapshot' = Sifted(snapshot, Later),
         UNCHANGED <<active, t, flush, since, apps, latest, due, now, marks>>
  PROVE  Inv'
<1> DEFINE h == snapshot.h
           n == Len(h) - 1
           c == snapshot.at
           b == snapshot.child
<1>1. /\ h \in Seq(Entry) /\ n \in Nat /\ n <= Len(h) /\ c \in 1 .. Len(h)
      /\ Distinct(h, n) /\ AppsOnce(h, apps) /\ since \in Int
      /\ \A k \in 1 .. n : k \in 1 .. Len(h)
      /\ \A k \in 1 .. Len(h) : /\ h[k] \in Entry /\ t[h[k]] \in Int
                                /\ Later[h[k]] = -t[h[k]] /\ -t[h[k]] \in Int
  BY PopFacts
<1>2. PICK G \in SUBSET Entry : Recent(h, G) /\ DueLeft(h, G) /\ InOrder(snapshot, G)
  BY DEF Inv, PopsRight
<1>3. HoleAt(h, G, n, c) /\ LastIn(h, G) /\ PickIn(h, G, n, c, b)
  BY <1>2 DEF InOrder, PickIn
<1>4. snapshot \in SnapshotSet /\ Places(snapshot)
  BY DEF Inv, Types
<1>5. b \in 2 .. n /\ b \div 2 = c
  BY <1>4 DEF Places
<1>6. /\ Len(h) \in Nat /\ n \in Nat /\ Len(h) \in 1 .. Len(h)
      /\ c \in 1 .. n /\ b \in 1 .. n /\ b \in Nat /\ c \in Nat
      /\ c \in 1 .. Len(h) /\ b \in 1 .. Len(h) /\ c # Len(h) /\ b # Len(h)
  <2>1. h \in Seq(Entry) /\ n \in Nat /\ c \in 1 .. Len(h)
    BY <1>1
  <2>. QED  BY <1>5, <2>1, Half, SMT
<1>7. /\ t[h[b]] \in Int /\ t[h[c]] \in Int /\ since \in Int
      /\ Later[h[b]] = -t[h[b]] /\ Later[h[c]] = -t[h[c]]
  BY <1>1, <1>6
<1>8. CASE Less(h, Later, b, c)
  <2> DEFINE g == Swapped(h, c, b)
  <2>1. snapshot' = [pc |-> "pick", h |-> g, at |-> b, child |-> 0]
    BY <1>8 DEF Sifted
  <2>2. Flipped(h, g, c, b)
    BY <1>1, <1>6, SwappedIs
  <2> HIDE DEF g
  <2>3. g \in Seq(Entry) /\ Len(g) = Len(h)
    BY <2>2 DEF Flipped
  <2>4. /\ snapshot'.pc = "pick" /\ snapshot'.h = g /\ snapshot'.at = b /\ snapshot'.child = 0
        /\ snapshot' \in SnapshotSet
    BY <1>6, <2>1, <2>3, SMT DEF SnapshotSet
  <2>5. b \in 0 .. Len(g) /\ 0 \in 0 .. Len(g) /\ b \in 1 .. Len(g)
    BY <1>6, <2>3, SMT
  <2>6. Places(snapshot')
    BY <2>4, <2>5 DEF Places
  <2>7. AppsOnce(g, apps)
    BY <1>1, <1>6, <2>2, FlippedKeeps, FlippedDue
  <2>8. ASSUME NEW K \in SUBSET Entry, Recent(h, K), DueLeft(h, K), LastIn(h, K),
               (h[c] \in G /\ AlsoIn(h, K, G, n, b)) \/ (h[c] \notin G /\ K = G)
        PROVE  Inv'
    <3>1. Recent(g, K) /\ DueLeft(g, K)
      BY <1>6, <2>2, <2>8, FlippedKeeps, FlippedDue
    <3>2. LastIn(g, K)
      BY <1>6, <2>2, <2>8, FlippedLast
    <3>3. n <= Len(h)
      BY <1>1
    <3>4. HoleAt(g, K, n, b)
      BY <1>3, <1>5, <1>6, <2>2, <2>8, <3>3, MoveOrder
    <3>5. InOrder(snapshot', K)
      BY <2>3, <2>4, <3>2, <3>4 DEF InOrder
    <3>. QED  BY <2>4, <2>6, <2>7, <2>8, <3>1, <3>5, MovedStep
  <2>9. CASE h[c] \in G
    <3>1. t[h[c]] >= since
      BY <1>2, <1>6, <2>9 DEF Recent
    <3>2. -t[h[b]] < -t[h[c]]
      BY <1>7, <1>8 DEF Less
    <3>3. t[h[b]] >= since
      BY <1>7, <3>1, <3>2, SMT
    <3> DEFINE K == G \cup {h[b]}
    <3>4. K \in SUBSET Entry /\ Recent(h, K) /\ DueLeft(h, K)
      BY <1>1, <1>2, <1>6, <3>3, Grown
    <3>5. AlsoIn(h, K, G, n, b)
      BY <1>1, <1>6, AlsoInIs
    <3> HIDE DEF K
    <3>6. LastIn(h, K)
      <4>1. G \subseteq K
        BY <3>5 DEF AlsoIn
      <4>. QED  BY <1>3, <1>6, <2>9, <4>1, GrownLast
    <3>7. (h[c] \in G /\ AlsoIn(h, K, G, n, b)) \/ (h[c] \notin G /\ K = G)
      BY <2>9, <3>5
    <3>. QED  BY <2>8, <3>4, <3>6, <3>7
  <2>10. CASE h[c] \notin G
    BY <1>2, <1>3, <2>8, <2>10
  <2>. QED  BY <2>9, <2>10
<1>9. CASE ~Less(h, Later, b, c)
  <2>1. snapshot' = [snapshot EXCEPT !.pc = "popped"]
    BY <1>9 DEF Sifted
  <2>2. /\ snapshot'.pc = "popped" /\ snapshot'.h = h /\ snapshot'.at = c
        /\ snapshot'.child = b /\ snapshot' \in SnapshotSet
    BY <1>4, <2>1, SMT DEF SnapshotSet
  <2>3. h # <<>>
    BY <1>6, SMT
  <2>4. Places(snapshot')
    BY <1>4, <2>2, <2>3 DEF Places
  <2>5. CASE \E d \in 2 .. n : d \div 2 = c /\ h[d] \in G
    <3>1. PICK d \in 2 .. n : d \div 2 = c /\ h[d] \in G
      BY <2>5
    <3>2. h[b] \in G
      BY <1>3, <3>1 DEF PickIn
    <3>3. t[h[b]] >= since
      BY <1>2, <1>6, <3>2 DEF Recent
    <3>4. ~(-t[h[b]] < -t[h[c]])
      BY <1>7, <1>9 DEF Less
    <3>5. t[h[c]] >= since
      BY <1>7, <3>3, <3>4, NoEarlier
    <3> DEFINE K == G \cup {h[c]}
    <3>6. K \in SUBSET Entry /\ Recent(h, K) /\ DueLeft(h, K)
      BY <1>1, <1>2, <1>6, <3>5, Grown
    <3>7. AlsoIn(h, K, G, n, c)
      BY <1>1, <1>6, AlsoInIs
    <3> HIDE DEF K
    <3>8. Closed(h, K, n)
      BY <1>3, <1>6, <3>1, <3>7, StayOrder
    <3>9. LastIn(h, K)
      <4>1. G \subseteq K
        BY <3>7 DEF AlsoIn
      <4>. QED  BY <1>3, <1>6, <3>2, <4>1, GrownLast
    <3>10. InOrder(snapshot', K)
      BY <2>2, <3>8, <3>9 DEF InOrder
    <3>. QED  BY <1>1, <2>2, <2>4, <3>6, <3>10, MovedStep
  <2>6. CASE ~(\E d \in 2 .. n : d \div 2 = c /\ h[d] \in G)
    <3>1. Closed(h, G, n)
      BY <1>3, <1>6, <2>6, BarrenOrder
    <3>2. InOrder(snapshot', G)
      BY <1>3, <2>2, <3>1 DEF InOrder
    <3>. QED  BY <1>1, <1>2, <2>2, <2>4, <3>2, MovedStep
  <2>. QED  BY <2>5, <2>6
<1>. QED  BY <1>8, <1>9

-----------------------------------------------------------------------------
(* Every behaviour. *)

LEMMA InitInv ==
  ASSUME ActiveInit, now = 1, marks = 0
  PROVE  Inv
<1> DEFINE m == [a \in App |-> noEntry]
<1>0. /\ active = [m |-> m, i |-> EmptyHeap, j |-> EmptyHeap] /\ t = [e \in Entry |-> 0]
      /\ flush = 1 /\ snapshot = NoSnapshot /\ since = 1 /\ apps = <<>>
      /\ latest = [a \in App |-> 0] /\ due = {}
  BY DEF ActiveInit
<1>1. 0 \in 0 .. MaxTime /\ 1 \in Time /\ 0 \in 0 .. MaxMarks /\ 1 <= 1
  BY BoundAssumption, SMT DEF Time
<1>2. m \in [App -> Entry \cup {noEntry}] /\ (\A a \in App : m[a] = noEntry) /\ Entries(m) = {}
  BY DEF Entries
<1> HIDE DEF m
<1>3. EmptyHeap \in HeapSet /\ EmptyHeap.h = <<>> /\ \A e \in Entry : EmptyHeap.pos[e] = 0
  BY SMT DEF EmptyHeap, HeapSet
<1>4. Len(<<>>) = 0 /\ ~(\E k \in 1 .. Len(<<>>) : TRUE) /\ ~(\E k \in 2 .. Len(<<>>) : TRUE)
  BY SMT
<1>5. active.m = m /\ active.i = EmptyHeap /\ active.j = EmptyHeap /\ active \in ActiveState
  BY <1>0, <1>2, <1>3, SMTT(30) DEF ActiveState
<1>6. snapshot.h = <<>> /\ snapshot.pc = "idle" /\ snapshot \in SnapshotSet /\ <<>> \in Seq(App)
      /\ Places(snapshot)
  BY <1>0, SMT DEF NoSnapshot, SnapshotSet, Places
<1>7. Types
  <2>1. t \in Times /\ latest \in [App -> 0 .. MaxTime]
    BY <1>0, <1>1 DEF Times
  <2>. QED  BY <1>0, <1>1, <1>5, <1>6, <2>1 DEF Types
<1>8. InStep(active.m, active.i, active.j)
  <2>1. {EmptyHeap.h[k] : k \in 1 .. Len(EmptyHeap.h)} = {}
    BY <1>3, <1>4
  <2>2. Placed(EmptyHeap, {})
    BY <1>3, <1>4, <2>1 DEF Placed
  <2>3. \A key : InHeap(EmptyHeap, key, {})
    BY <1>3, <1>4, <2>2 DEF InHeap, Sorted
  <2>. QED  BY <1>2, <1>5, <2>3 DEF InStep
<1>9. AppsOnce(snapshot.h, apps) /\ ListedSince
  BY <1>0, <1>4, <1>6 DEF AppsOnce, ListedSince
<1>10. Fresh
  <2>1. \A e \in Entry : e.ApplicationId \in App
    BY SMT DEF Entry
  <2>2. \A e \in Entry : t[e] = 0 /\ latest[e.ApplicationId] = 0
    BY <1>0, <2>1
  <2>3. \A a \in App : latest[a] = 0
    BY <1>0
  <2>4. 0 <= 0 /\ ~(0 > 0)
    BY SMT
  <2>. QED  BY <2>2, <2>3, <2>4 DEF Fresh
<1>11. PopsRight
  <2>1. Recent(snapshot.h, {}) /\ DueLeft(snapshot.h, {})
    BY <1>0, <1>4, <1>6 DEF Recent, DueLeft
  <2>2. InOrder(snapshot, {})
    BY <1>6 DEF InOrder
  <2>. QED  BY <2>1, <2>2 DEF PopsRight
<1>. QED  BY <1>6, <1>7, <1>8, <1>9, <1>10, <1>11 DEF Inv

LEMMA StutterKeeps ==
  ASSUME Inv, UNCHANGED <<activeVars, now, marks>>
  PROVE  Inv'
<1>1. UNCHANGED <<active, t, flush, snapshot, since, apps, latest, due, now, marks>>
  BY DEF activeVars
<1>2. /\ snapshot' \in SnapshotSet /\ Places(snapshot') /\ AppsOnce(snapshot'.h, apps)
  BY <1>1 DEF Inv, Types
<1>3. PICK G \in SUBSET Entry :
        Recent(snapshot.h, G) /\ DueLeft(snapshot.h, G) /\ InOrder(snapshot, G)
  BY DEF Inv, PopsRight
<1>4. Recent(snapshot'.h, G) /\ DueLeft(snapshot'.h, G) /\ InOrder(snapshot', G)
  BY <1>1, <1>3
<1>. QED  BY <1>1, <1>2, <1>4, MovedStep

LEMMA NextInv ==
  ASSUME Inv, [ActiveNext]_<<activeVars, now, marks>>
  PROVE  Inv'
<1>1. ASSUME NEW a \in App, NEW z \in 1 .. now, MarkActive(a, z), Response PROVE Inv'
  BY <1>1, MarkKeeps
<1>2. ASSUME UNCHANGED <<now, marks>>,
             TrimActive \/ FlushApps \/ PopNext \/ Down \/ Collect \/ Publish
      PROVE  Inv'
  <2>1. CASE TrimActive
    BY <1>2, <2>1, TrimActiveKeeps
  <2>2. CASE FlushApps
    BY <1>2, <2>2, FlushKeeps
  <2>3. CASE PopNext
    BY <1>2, <2>3, PopNextKeeps
  <2>4. CASE Down
    <3>1. UNCHANGED <<active, t, flush, since, apps, latest, due, now, marks>>
      BY <1>2, <2>4 DEF Down
    <3>2. CASE snapshot.pc = "pick" /\ snapshot' = Picked(snapshot, Later)
      BY <3>1, <3>2, PickKeeps
    <3>3. CASE snapshot.pc = "sift" /\ snapshot' = Sifted(snapshot, Later)
      BY <3>1, <3>3, SiftKeeps
    <3>. QED  BY <2>4, <3>2, <3>3 DEF Down
  <2>5. CASE Collect
    BY <1>2, <2>5, CollectKeeps
  <2>6. CASE Publish
    BY <1>2, <2>6, PublishKeeps
  <2>. QED  BY <1>2, <2>1, <2>2, <2>3, <2>4, <2>5, <2>6
<1>3. ASSUME Tick, UNCHANGED activeVars PROVE Inv'
  BY <1>3, TickKeeps
<1>4. ASSUME UNCHANGED <<activeVars, now, marks>> PROVE Inv'
  BY <1>4, StutterKeeps
<1>. QED  BY <1>1, <1>2, <1>3, <1>4 DEF ActiveNext

-----------------------------------------------------------------------------
(* Theorems. *)

(* The inductive invariant holds in every reachable state of ActiveApps. *)
THEOREM ActiveInvariant == ActiveSpec => []Inv
<1>1. ActiveInit /\ now = 1 /\ marks = 0 => Inv
  BY InitInv
<1>2. Inv /\ [ActiveNext]_<<activeVars, now, marks>> => Inv'
  BY NextInv
<1>. QED  BY <1>1, <1>2, PTL DEF ActiveSpec

LEMMA ActiveTypesFollow ==
  ASSUME Inv
  PROVE  ActiveTypeOK
<1>1. Types /\ Places(snapshot)
  BY DEF Inv
<1>2. /\ active \in ActiveState /\ snapshot \in SnapshotSet
      /\ t \in Times /\ flush \in Time /\ since \in Time /\ apps \in Seq(App)
      /\ latest \in [App -> 0 .. MaxTime] /\ due \subseteq App
  BY <1>1 DEF Types
<1>3. active.m \in [App -> Entry \cup {noEntry}] /\ active.i \in HeapSet /\ active.j \in HeapSet
  BY <1>2 DEF ActiveState
<1>4. \A G \in HeapSet : IsHeap(G)
  BY DEF HeapSet, IsHeap
<1>5. IsSnapshot(snapshot)
  BY <1>1, <1>2, SMT DEF SnapshotSet, Places, IsSnapshot
<1>. QED  BY <1>2, <1>3, <1>4, <1>5 DEF ActiveTypeOK, Times

(* The map, the heaps, the times, the copy that is popped and the list stay
   well-typed. *)
THEOREM ActiveTypeCorrect == ActiveSpec => []ActiveTypeOK
<1>1. Inv => ActiveTypeOK
  BY ActiveTypesFollow
<1>. QED  BY <1>1, ActiveInvariant, PTL

(* Mark and Trim keep both heaps in order, with the entries of the map and no
   other, each knowing its place in both, although an entry's time changes only
   while it is out of them. *)
THEOREM HeapsInStep == ActiveSpec => []ActiveHeapsInStep
<1>1. Inv => ActiveHeapsInStep
  <2> SUFFICES ASSUME Inv PROVE ActiveHeapsInStep
    OBVIOUS
  <2>1. t \in Times /\ InStep(active.m, active.i, active.j)
    BY DEF Inv, Types
  <2>2. t \in [Entry -> Int] /\ Later \in [Entry -> Int]
    BY <2>1, TimesAreKeys
  <2>3. /\ \A a \in App : active.m[a] # noEntry => active.m[a].ApplicationId = a
        /\ InHeap(active.i, t, Entries(active.m)) /\ InHeap(active.j, Later, Entries(active.m))
    BY <2>1 DEF InStep
  <2>4. active.i \in HeapSet /\ active.j \in HeapSet
    BY <2>3 DEF InHeap, Placed
  <2>. QED  BY <2>2, <2>3, <2>4, InHeapIs DEF ActiveHeapsInStep
<1>. QED  BY <1>1, ActiveInvariant, PTL

(* The loop of Trim, which stops at the first entry that it has to put back,
   leaves nothing that is past its lifetime and takes nothing else, and no other
   operation takes an entry. *)
THEOREM TrimExact == ActiveSpec => TrimActiveExact
(* A step of ActiveApps that is no Trim takes nothing from the map. *)
<1>OnlyTrimDrops.
  ASSUME Inv, ActiveNext, ~TrimActive, NEW a \in App, active.m[a] # noEntry
  PROVE  active'.m[a] # noEntry
  <2> USE <1>OnlyTrimDrops
  <2>1. ASSUME NEW b \in App, NEW z \in 1 .. now, MarkActive(b, z) PROVE active'.m[a] # noEntry
    <3>1. active'.m = [active.m EXCEPT ![b] = EntryFor(b)]
      BY <2>1, SMT DEF MarkActive
    <3>2. Types /\ InStep(active.m, active.i, active.j) /\ AppsOnce(snapshot.h, apps)
          /\ active.m \in [App -> Entry \cup {noEntry}]
      BY DEF Inv, InStep
    <3>3. EntryFor(b) \in Entry /\ EntryFor(b) # noEntry
      BY <3>2, EntryIs, ActiveAssumption
    <3>. QED  BY <3>1, <3>2, <3>3
  <2>2. ASSUME active' = active PROVE active'.m[a] # noEntry
    BY <2>2
  <2>3. FlushApps \/ PopNext \/ Down \/ Collect \/ Publish => active' = active
    BY DEF FlushApps, PopNext, Down, Collect, Publish
  <2>4. UNCHANGED activeVars => active' = active
    BY DEF activeVars
  <2>. QED  BY <2>1, <2>2, <2>3, <2>4 DEF ActiveNext
<1> DEFINE A == \A a \in App : active.m[a] # noEntry =>
                  (active'.m[a] = noEntry <=>
                     TrimActive /\ t[active.m[a]] <= now - ActiveAppsEntryLifetime)
<1>1. Inv /\ [ActiveNext]_<<activeVars, now, marks>> => [A]_activeVars
  <2> SUFFICES ASSUME Inv, ActiveNext \/ UNCHANGED activeVars PROVE A \/ UNCHANGED activeVars
    OBVIOUS
  <2>1. CASE UNCHANGED activeVars
    BY <2>1
  <2>2. CASE ActiveNext /\ TrimActive
    <3>1. \A a \in App : active'.m[a] =
            IF active.m[a] # noEntry /\ t[active.m[a]] <= now - ActiveAppsEntryLifetime
              THEN noEntry ELSE active.m[a]
      BY <2>2, TrimmedNow DEF TrimmedRight
    <3>. QED  BY <2>2, <3>1
  <2>3. CASE ActiveNext /\ ~TrimActive
    BY <2>3, <1>OnlyTrimDrops
  <2>. QED  BY <2>1, <2>2, <2>3
<1>. QED  BY <1>1, ActiveInvariant, PTL DEF ActiveSpec, TrimActiveExact

(* A list that is published has every application that had been marked since
   the given time and was not past its lifetime when the list was taken, no
   application that had not been marked since, and none twice: although
   ActiveSince pops its copy of the heap without the lock, while Mark raises
   times in it between any two comparisons. *)
THEOREM ListRight == ActiveSpec => ActiveListRight
<1> DEFINE A == Publish =>
                  /\ \A k, l \in 1 .. Len(apps) : apps[k] = apps[l] => k = l
                  /\ \A k \in 1 .. Len(apps) : latest[apps[k]] >= since
                  /\ \A a \in due : \E k \in 1 .. Len(apps) : apps[k] = a
<1>1. Inv => A
  <2> SUFFICES ASSUME Inv, Publish
               PROVE  /\ \A k, l \in 1 .. Len(apps) : apps[k] = apps[l] => k = l
                      /\ \A k \in 1 .. Len(apps) : latest[apps[k]] >= since
                      /\ \A a \in due : \E k \in 1 .. Len(apps) : apps[k] = a
    OBVIOUS
  <2> DEFINE h == snapshot.h
  <2>1. Types /\ Places(snapshot)
    BY DEF Inv
  <2>2. PICK G \in SUBSET Entry : Recent(h, G) /\ DueLeft(h, G) /\ InOrder(snapshot, G)
    BY DEF Inv, PopsRight
  <2>3. ASSUME NEW k \in 1 .. Len(h), h[k] \in G PROVE FALSE
    <3>0. Len(h) \in Nat /\ since \in Int /\ \A l \in 1 .. Len(h) : t[h[l]] \in Int
      BY <2>1, SnapshotEntries
    <3>1. CASE h = <<>>
      BY <2>3, <3>1, SMT
    <3>2. CASE snapshot.pc = "popped" /\ t[h[Len(h)]] < since
      <4>1. Len(h) \in 1 .. Len(h)
        <5>1. Len(h) \in Nat
          BY <3>0
        <5>. QED  BY <2>3, <5>1, SMT
      <4>2. h[Len(h)] \in G
        BY <2>2, <2>3, <3>2 DEF InOrder, LastIn
      <4>3. t[h[Len(h)]] >= since /\ t[h[Len(h)]] \in Int /\ since \in Int
        BY <2>2, <3>0, <4>1, <4>2 DEF Recent
      <4>. QED  BY <3>2, <4>3, SMT
    <3>. QED  BY <3>1, <3>2 DEF Publish, PoppedEntry
  <2>4. \A a \in due : \E k \in 1 .. Len(apps) : apps[k] = a
    BY <2>2, <2>3 DEF DueLeft
  <2>. QED  BY <2>4 DEF Inv, AppsOnce, ListedSince
<1>. QED  BY <1>1, ActiveInvariant, PTL DEF ActiveListRight
=============================================================================
