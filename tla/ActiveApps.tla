------------------------------ MODULE ActiveApps ------------------------------
(***************************************************************************)
(* Which applications have been active lately (src/stats/active_apps.go),  *)
(* marked for each response (src/varz/varz.go) and published by the        *)
(* goroutine of ScheduleFlushApps (src/router/router.go).                  *)
(*                                                                         *)
(* Mark and Trim hold the lock throughout.  ActiveSince copies the heap    *)
(* under the lock and pops the copy without it, while the entries' times   *)
(* may go on changing.  Trim's argument is the time at which it gets the   *)
(* lock, less the lifetime.                                                *)
(***************************************************************************)
EXTENDS AppHeap

CONSTANTS
  ActiveAppsEntryLifetime,
  noEntry                   \* what the map returns for an unknown application

ASSUME ActiveAssumption == ActiveAppsEntryLifetime \in Nat /\ noEntry \notin Entry

VARIABLES
  active,     \* ActiveApps: the map m, the heaps i (by time) and j (by -time)
  t,          \* the time of each entry's last update
  flush,      \* x of ScheduleFlushApps: when it took the last list
  snapshot,   \* the copy of j that ActiveSince pops
  since,      \* the argument of ActiveSince
  apps,       \* the list it collects
  latest,     \* history: the latest time each application was marked with
  due         \* history: what the list has to contain

activeVars == <<active, t, flush, snapshot, since, apps, latest, due>>

Later == [e \in Entry |-> -t[e]]

ActiveTypeOK ==
  /\ active.m \in [App -> Entry \cup {noEntry}]
  /\ IsHeap(active.i) /\ IsHeap(active.j)
  /\ t \in [Entry -> 0 .. MaxTime]
  /\ flush \in Time
  /\ IsSnapshot(snapshot)
  /\ since \in Time
  /\ apps \in Seq(App)
  /\ latest \in [App -> 0 .. MaxTime]
  /\ due \subseteq App

ActiveInit ==
  /\ active = [m |-> [a \in App |-> noEntry], i |-> EmptyHeap, j |-> EmptyHeap]
  /\ t = [e \in Entry |-> 0]
  /\ flush = 1
  /\ snapshot = NoSnapshot
  /\ since = 1
  /\ apps = <<>>
  /\ latest = [a \in App |-> 0]
  /\ due = {}

Entries(m) == {m[a] : a \in App} \ {noEntry}

(* The times, once objects that nothing refers to any more are gone. *)
Live(m, h) ==
  [e \in Entry |-> IF e \in Entries(m) \/ (\E k \in 1 .. Len(h) : h[k] = e) THEN t[e] ELSE 0]

-----------------------------------------------------------------------------

(* The entry of an application, or a new object that no snapshot holds. *)
EntryFor(a) ==
  IF active.m[a] # noEntry THEN active.m[a]
  ELSE CHOOSE e \in Entry : /\ e.ApplicationId = a
                            /\ \A k \in 1 .. Len(snapshot.h) : snapshot.h[k] # e

Newer(old, z) == IF old < z THEN z ELSE old

(* Mutant of MarkActive: the time changes while the entry is in the heaps. *)
MarkActiveInPlace(a, z) ==
  LET y     == EntryFor(a)
      known == active.m[a] # noEntry
  IN
  /\ t' = [t EXCEPT ![y] = Newer(IF known THEN @ ELSE 0, z)]
  /\ active' = IF known THEN active
               ELSE [m |-> [active.m EXCEPT ![a] = y],
                     i |-> HeapPush(active.i, t', y),
                     j |-> HeapPush(active.j, Later', y)]
  /\ latest' = [latest EXCEPT ![a] = Newer(@, z)]
  /\ UNCHANGED <<flush, snapshot, since, apps, due>>

(* Mark, for a response to a request that started at z. *)
MarkActive(a, z) ==
  LET y     == EntryFor(a)
      known == active.m[a] # noEntry
      i     == IF known THEN HeapRemove(active.i, t, active.i.pos[y]) ELSE active.i
      j     == IF known THEN HeapRemove(active.j, Later, active.j.pos[y]) ELSE active.j
  IN
  /\ t' = [t EXCEPT ![y] = Newer(IF known THEN @ ELSE 0, z)]
  /\ active' = [m |-> [active.m EXCEPT ![a] = y],
                i |-> HeapPush(i, t', y),
                j |-> HeapPush(j, Later', y)]
  /\ latest' = [latest EXCEPT ![a] = Newer(@, z)]
  /\ UNCHANGED <<flush, snapshot, since, apps, due>>

(* An iteration of Trim's loop; once the loop is left, x stays. *)
TrimStep(x, z) ==
  LET e == x.i.h[1]
      i == HeapPop(x.i, t)
  IN CASE x.done \/ x.i.h = <<>> -> x
       [] ~x.done /\ x.i.h # <<>> /\ t[e] > z ->
            [x EXCEPT !.i = HeapPush(i, t, e), !.done = TRUE]
       [] OTHER ->
            [m |-> [x.m EXCEPT ![e.ApplicationId] = noEntry],
             i |-> i,
             j |-> HeapRemove(x.j, Later, x.j.pos[e]),
             done |-> FALSE]

(* Entries leave while the oldest is not after z. *)
ActiveTrimmed(x, z) ==
  LET s[k \in 0 .. Len(x.i.h)] ==
        IF k = 0 THEN [m |-> x.m, i |-> x.i, j |-> x.j, done |-> FALSE]
        ELSE TrimStep(s[k - 1], z)
      y == s[Len(x.i.h)]
  IN [m |-> y.m, i |-> y.i, j |-> y.j]

(* Mutant of TrimActive: the lifetime is a second short. *)
TrimActiveEarly ==
  /\ active' = ActiveTrimmed(active, now - ActiveAppsEntryLifetime + 1)
  /\ t' = Live(active'.m, snapshot.h)
  /\ UNCHANGED <<flush, snapshot, since, apps, latest, due>>

(* The ticker of NewActiveApps. *)
TrimActive ==
  /\ active' = ActiveTrimmed(active, now - ActiveAppsEntryLifetime)
  /\ t' = Live(active'.m, snapshot.h)
  /\ UNCHANGED <<flush, snapshot, since, apps, latest, due>>

-----------------------------------------------------------------------------

(* Mutant of FlushApps: x changes before the list is taken. *)
FlushAppsSwapped ==
  /\ snapshot.pc = "idle"
  /\ snapshot' = Snapshot(active.j)
  /\ since' = now
  /\ flush' = now
  /\ apps' = <<>>
  /\ due' = {a \in App : latest[a] >= flush /\ latest[a] > now - ActiveAppsEntryLifetime}
  /\ UNCHANGED <<active, t, latest>>

(* Mutant of FlushApps: the next list starts a second late. *)
FlushAppsAhead ==
  /\ snapshot.pc = "idle"
  /\ snapshot' = Snapshot(active.j)
  /\ since' = flush
  /\ flush' = now + 1
  /\ apps' = <<>>
  /\ due' = {a \in App : latest[a] >= flush /\ latest[a] > now - ActiveAppsEntryLifetime}
  /\ UNCHANGED <<active, t, latest>>

(* A tick of ScheduleFlushApps: flushApps(x), and x becomes the time y that was
   read before. *)
FlushApps ==
  /\ snapshot.pc = "idle"
  /\ snapshot' = Snapshot(active.j)
  /\ since' = flush
  /\ flush' \in flush .. now
  /\ apps' = <<>>
  /\ due' = {a \in App : latest[a] >= flush /\ latest[a] > now - ActiveAppsEntryLifetime}
  /\ UNCHANGED <<active, t, latest>>

PopNext ==
  /\ snapshot.pc = "pop"
  /\ snapshot.h # <<>>
  /\ snapshot' = PopStarted(snapshot)
  /\ UNCHANGED <<active, t, flush, since, apps, latest, due>>

Down ==
  /\ \/ snapshot.pc = "pick" /\ snapshot' = Picked(snapshot, Later)
     \/ snapshot.pc = "sift" /\ snapshot' = Sifted(snapshot, Later)
  /\ UNCHANGED <<active, t, flush, since, apps, latest, due>>

Collect ==
  /\ snapshot.pc = "popped"
  /\ t[PoppedEntry(snapshot)] >= since
  /\ apps' = Append(apps, PoppedEntry(snapshot).ApplicationId)
  /\ snapshot' = Shortened(snapshot)
  /\ UNCHANGED <<active, t, flush, since, latest, due>>

(* The list is complete: it is published, and forgotten. *)
Publish ==
  /\ \/ snapshot.pc = "pop" /\ snapshot.h = <<>>
     \/ snapshot.pc = "popped" /\ t[PoppedEntry(snapshot)] < since
  /\ t' = Live(active.m, <<>>)
  /\ snapshot' = NoSnapshot
  /\ since' = 1
  /\ apps' = <<>>
  /\ due' = {}
  /\ UNCHANGED <<active, flush, latest>>

ActiveNext ==
  \/ \E a \in App, z \in 1 .. now : MarkActive(a, z) /\ Response
  \/ /\ \/ TrimActive
        \/ FlushApps \/ PopNext \/ Down \/ Collect \/ Publish
     /\ UNCHANGED <<now, marks>>
  \/ Tick /\ UNCHANGED activeVars

ActiveSpec ==
  ActiveInit /\ now = 1 /\ marks = 0 /\ [][ActiveNext]_<<activeVars, now, marks>>

-----------------------------------------------------------------------------
(* Properties. *)

(* Both heaps hold the entries of the map, in order, and every entry knows its
   place in both: the index that Mark and Trim remove by is never stale. *)
ActiveHeapsInStep ==
  /\ \A a \in App : active.m[a] # noEntry => active.m[a].ApplicationId = a
  /\ HeapOf(active.i, t, Entries(active.m))
  /\ HeapOf(active.j, Later, Entries(active.m))

(* A trim drops what is older than the lifetime and nothing else: the loop may
   stop at the first entry that is not. *)
TrimActiveExact ==
  [][\A a \in App : active.m[a] # noEntry =>
       (active'.m[a] = noEntry <=>
          TrimActive /\ t[active.m[a]] <= now - ActiveAppsEntryLifetime)]_activeVars

(* What ActiveSince returns, although it pops its copy while Mark raises the
   times in it: every application that had been marked since the given time,
   and is not past its lifetime, no application that had not been, and none
   twice. *)
ActiveListRight ==
  [][Publish =>
       /\ \A k, l \in 1 .. Len(apps) : apps[k] = apps[l] => k = l
       /\ \A k \in 1 .. Len(apps) : latest[apps[k]] >= since
       /\ \A a \in due : \E k \in 1 .. Len(apps) : apps[k] = a]_activeVars
=============================================================================
