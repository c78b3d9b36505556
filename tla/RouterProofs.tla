----------------------------- MODULE RouterProofs -----------------------------
(***************************************************************************)
(* Proofs about Router, for any number of connections, with and without a  *)
(* TLS listener; and about where its routes come from: RouteFetcher, alone *)
(* and beside the messages of RouteSources, for any routes and any length  *)
(* of the event stream.                                                    *)
(***************************************************************************)
EXTENDS Router, RouteSources, TLAPS

-------------------------------------------------------------------------------
(* Router. *)

(* Where Run may be with what it has done so far; Drain runs once. *)
RunInv ==
  /\ main = "listen" => serve["http"] = "off"
  /\ main \in {"listen", "listenTls", "listenFailed"} => serve["tls"] = "off"
  /\ main \in {"listen", "listenTls", "listenFailed", "select"} => ~stopping /\ phase = "run"
  /\ main \in {"drain", "draining"} => phase = "Drain"
  /\ phase \in {"run", "Drain"} => drainResult = "none"

(* A Serve loop that stopListening has waited for stays finished. *)
ServeInv ==
  /\ ~EnableSSL => serve["tls"] = "off"
  /\ main = "waitHttp" => serve["tls"] \in {"off", "done"}
  /\ NoServeAfterStopListening

(* Each listener has reported at most one error, when it unlocked stopLock. *)
Reported(l) == IF serve[l] \in {"unlocked", "done"} THEN 1 ELSE 0

ErrInv == main # "exited" => errChan <= Reported("http") + Reported("tls")

(* What is outstanding is active, and nothing is once the channel is closed. *)
DrainInv ==
  /\ outstanding \subseteq activeConns
  /\ drained => outstanding = {}
  /\ drainResult = "drained" => drained

ConnInv == ConnsTracked /\ NoIdleConnLeftOpen /\ NoLostWakeup /\ DrainInv

(* The type invariant, by the actors that own the variables. *)
RunTypes ==
  /\ main \in MainStates
  /\ phase \in {"run", "Drain", "Stop"}
  /\ drainResult \in {"none", "drained", "timeout"}
  /\ stopping \in BOOLEAN
  /\ closeConnections \in BOOLEAN
  /\ status \in {"off", "serving", "reported"}

ServeTypes ==
  /\ stopLock \in Listener \cup {nobody}
  /\ errChan \in 0 .. ErrBuffer
  /\ serve \in [Listener -> {"off", "serving", "returned", "locked", "unlocked", "done"}]
  /\ listening \subseteq Listener

ConnTypes ==
  /\ state \in [Conn -> {"none", "new", "active", "idle", "hijacked"}]
  /\ activeConns \subseteq Conn /\ idleConns \subseteq Conn
  /\ shut \subseteq Conn /\ outstanding \subseteq Conn
  /\ drainDone \in BOOLEAN /\ drained \in BOOLEAN

Inv ==
  /\ RunTypes /\ ServeTypes /\ ConnTypes
  /\ RunInv /\ ServeInv /\ ErrInv
  /\ ConnInv

(* The invariant has the types. *)
LEMMA InvTypeOK == Inv => TypeOK
BY DEF Inv, TypeOK, RunTypes, ServeTypes, ConnTypes

(* It holds before Run, ... *)
LEMMA InitInv ==
  ASSUME Init
  PROVE  Inv
<1>1. RunTypes
  BY ZenonT(30) DEF Init, RunTypes, MainStates
<1>2. ServeTypes
  BY DEF Init, ServeTypes, ErrBuffer
<1>3. ConnTypes
  BY ZenonT(30) DEF Init, ConnTypes
<1>4. RunInv /\ ServeInv /\ ErrInv
  BY DEF Init, RunInv, ServeInv, NoServeAfterStopListening, ErrInv, Reported, Listener
<1>5. ConnInv
  BY DEF Init, ConnInv, ConnsTracked, NoIdleConnLeftOpen, NoLostWakeup, DrainInv
<1>. QED  BY <1>1, <1>2, <1>3, <1>4, <1>5 DEF Inv

-----------------------------------------------------------------------------
(* A step of Run that leaves the connections alone. *)
LEMMA RunStep ==
  ASSUME Inv,
         \/ serveHTTP \/ serveHTTPS \/ listenFails \/ RunFails \/ OnErr \/ OnSignal
         \/ setStopping \/ closeListeners \/ waitTls \/ waitHttp
         \/ DrainReturns \/ DrainTimesOut \/ StopComponent
  PROVE  Inv'
<1> USE DEF mainVars, serveVars, connVars, Listener
<1>1. RunTypes /\ ServeTypes /\ ConnTypes /\ RunInv /\ ServeInv /\ ErrInv /\ ConnInv
  BY SMTT(30) DEF Inv
<1>2. UNCHANGED connVars /\ UNCHANGED <<status, closeConnections>>
  BY Zenon DEF serveHTTP, serveHTTPS, listenFails, RunFails, OnErr, OnSignal, setStopping,
         closeListeners, waitTls, waitHttp, DrainReturns, DrainTimesOut, Drained, StopComponent
<1>3. ConnTypes'
  BY <1>1, <1>2 DEF ConnTypes
<1>4. CASE serveHTTP \/ serveHTTPS
  <2>1. RunTypes' /\ ServeTypes'
    <3>1. RunTypes'
      BY <1>1, <1>2, <1>4 DEF serveHTTP, serveHTTPS, RunTypes, MainStates
    <3>2. CASE serveHTTP
      BY <1>1, <3>1, <3>2 DEF serveHTTP, Listen, ServeTypes
    <3>3. CASE serveHTTPS
      BY <1>1, <3>1, <3>3, ZenonT(30) DEF serveHTTPS, Listen, ServeTypes
    <3>. QED  BY <1>4, <3>2, <3>3
  <2>2. RunInv' /\ ServeInv' /\ ErrInv'
    <3>1. CASE serveHTTP
      <4>1. /\ serve'["http"] = "serving" /\ serve'["tls"] = serve["tls"]
            /\ main = "listen" /\ main' = "listenTls" /\ UNCHANGED <<phase, drainResult, stopping, errChan>>
        BY <1>1, <3>1 DEF serveHTTP, Listen, ServeTypes
      <4>. QED  BY <1>1, <4>1 DEF RunInv, ServeInv, NoServeAfterStopListening, ErrInv, Reported
    <3>2. CASE serveHTTPS
      BY <1>1, <3>2 DEF serveHTTPS, Listen, RunInv, ServeInv, NoServeAfterStopListening,
                        ErrInv, Reported, ServeTypes
    <3>. QED  BY <1>4, <3>1, <3>2
  <2>3. ConnInv'
    BY <1>1, <1>2, <1>4 DEF serveHTTP, serveHTTPS, ConnInv, ConnsTracked, NoIdleConnLeftOpen,
                            NoLostWakeup, DrainInv
  <2>. QED  BY <1>3, <2>1, <2>2, <2>3 DEF Inv
<1>5. CASE listenFails \/ RunFails \/ OnErr \/ OnSignal
  <2>1. RunTypes' /\ ServeTypes'
    <3>1. ServeTypes'
      <4>1. errChan' \in 0 .. ErrBuffer
        <5>1. errChan \in 0 .. 2
          BY <1>1, SMTT(30) DEF ServeTypes, ErrBuffer
        <5>2. \/ errChan' = errChan \/ (errChan < 2 /\ errChan' = errChan + 1)
              \/ (errChan > 0 /\ errChan' = errChan - 1)
          BY <1>5, SMTT(30) DEF listenFails, RunFails, OnErr, OnSignal, ErrBuffer
        <5>. QED  BY <5>1, <5>2 DEF ErrBuffer
      <4>2. UNCHANGED <<stopLock, serve, listening>>
        BY <1>5, SMTT(30) DEF listenFails, RunFails, OnErr, OnSignal
      <4>. QED  BY <1>1, <4>1, <4>2 DEF ServeTypes
    <3>2. RunTypes'
      BY <1>1, <1>2, <1>5, SMTT(30) DEF listenFails, RunFails, OnErr, OnSignal, RunTypes,
                                        MainStates, StopListening
    <3>. QED  BY <3>1, <3>2
  <2>2. RunInv' /\ ServeInv' /\ ErrInv'
    <3>1. UNCHANGED <<serve, stopping, drainResult>>
      BY <1>5, Zenon DEF listenFails, RunFails, OnErr, OnSignal
    <3>2. \/ main \in {"listen", "listenTls"} /\ main' = "listenFailed" /\ UNCHANGED <<phase, errChan>>
          \/ main = "listenFailed" /\ main' = "exited" /\ UNCHANGED phase
          \/ /\ main = "select" /\ main' = "setStopping" /\ phase' \in {"Drain", "Stop"}
             /\ errChan' = errChan \/ errChan' = errChan - 1
      BY <1>5, SMTT(30) DEF listenFails, RunFails, OnErr, OnSignal
    <3>3. RunInv'
      BY <1>1, <3>1, <3>2 DEF RunInv
    <3>4. ServeInv'
      BY <1>1, <3>1, <3>2 DEF ServeInv, NoServeAfterStopListening
    <3>5. ErrInv'
      <4>1. errChan \in Int /\ Reported("http") \in Int /\ Reported("tls") \in Int
        BY <1>1 DEF ServeTypes, ErrBuffer, Reported
      <4>2. Reported("http")' = Reported("http") /\ Reported("tls")' = Reported("tls")
        BY <3>1 DEF Reported
      <4>. QED  BY <1>1, <3>2, <4>1, <4>2 DEF ErrInv
    <3>. QED  BY <3>3, <3>4, <3>5
  <2>3. ConnInv'
    BY <1>1, <1>2, <1>5, Zenon DEF listenFails, RunFails, OnErr, OnSignal, ConnInv, ConnsTracked,
                                   NoIdleConnLeftOpen, NoLostWakeup, DrainInv
  <2>. QED  BY <1>3, <2>1, <2>2, <2>3 DEF Inv
<1>6. CASE setStopping \/ closeListeners \/ waitTls \/ waitHttp
  <2>1. RunTypes' /\ ServeTypes'
    <3>1. ServeTypes'
      BY <1>1, <1>6, ZenonT(30) DEF setStopping, closeListeners, waitTls, waitHttp, ServeTypes
    <3>2. RunTypes'
      BY <1>1, <1>2, <1>6, ZenonT(30) DEF setStopping, closeListeners, waitTls, waitHttp, RunTypes, MainStates,
                              StopListening
    <3>. QED  BY <3>1, <3>2
  <2>2. RunInv' /\ ServeInv' /\ ErrInv'
    BY <1>1, <1>6, SMTT(30) DEF setStopping, closeListeners, waitTls, waitHttp, RunInv, ServeInv,
                      NoServeAfterStopListening, ErrInv, Reported, ServeTypes
  <2>3. ConnInv'
    BY <1>1, <1>2, <1>6, Zenon DEF setStopping, closeListeners, waitTls, waitHttp, ConnInv, ConnsTracked,
                                   NoIdleConnLeftOpen, NoLostWakeup, DrainInv
  <2>. QED  BY <1>3, <2>1, <2>2, <2>3 DEF Inv
<1>7. CASE DrainReturns \/ DrainTimesOut \/ StopComponent
  <2>1. RunTypes' /\ ServeTypes'
    BY <1>1, <1>2, <1>7, ZenonT(30) DEF DrainReturns, DrainTimesOut, Drained, StopComponent, RunTypes, ServeTypes,
                            MainStates, StopListening
  <2>2. RunInv' /\ ServeInv' /\ ErrInv'
    BY <1>1, <1>7 DEF DrainReturns, DrainTimesOut, Drained, StopComponent, RunInv, ServeInv,
                      NoServeAfterStopListening, ErrInv, Reported, ServeTypes
  <2>3. ConnInv'
    BY <1>1, <1>2, <1>7 DEF DrainReturns, DrainTimesOut, Drained, StopComponent, ConnInv, ConnsTracked,
                            NoIdleConnLeftOpen, NoLostWakeup, DrainInv
  <2>. QED  BY <1>3, <2>1, <2>2, <2>3 DEF Inv
<1>. QED  BY <1>4, <1>5, <1>6, <1>7

(* Drain and Stop, holding connLock. *)
LEMMA CloseIdleStep ==
  ASSUME Inv, Drain \/ StopCloses
  PROVE  Inv'
<1> USE DEF mainVars, serveVars, Listener
<1>1. RunTypes /\ ServeTypes /\ ConnTypes /\ RunInv /\ ServeInv /\ ErrInv /\ ConnInv
  BY DEF Inv
<1>2. UNCHANGED <<phase, drainResult, stopping, status, serveVars, listening, state, activeConns, idleConns>>
  BY DEF Drain, StopCloses
<1>3. RunTypes' /\ ServeTypes'
  BY <1>1, <1>2, ZenonT(30) DEF Drain, StopCloses, closeIdleConns, RunTypes, ServeTypes, MainStates
<1>4. RunInv' /\ ServeInv' /\ ErrInv'
  BY <1>1, <1>2 DEF Drain, StopCloses, RunInv, ServeInv, NoServeAfterStopListening, ErrInv, Reported
<1>5. ConnTypes'
  BY <1>1, <1>2, ZenonT(30) DEF Drain, StopCloses, closeIdleConns, ConnTypes
<1>6. ConnInv'
  <2>1. ConnsTracked' /\ NoIdleConnLeftOpen'
    BY <1>1, <1>2 DEF Drain, StopCloses, closeIdleConns, ConnInv, ConnsTracked, NoIdleConnLeftOpen
  <2>2. NoLostWakeup' /\ DrainInv'
    <3>1. CASE Drain
      <4>1. drainResult' = "none"
        BY <1>1, <1>2, <3>1 DEF Drain, RunInv
      <4>2. CASE activeConns = {}
        <5>1. drained' = TRUE /\ drainDone' = FALSE /\ outstanding' = {} /\ activeConns' = {}
          BY <1>2, <3>1, <4>2, ZenonT(30) DEF Drain
        <5>. QED  BY <4>1, <5>1 DEF NoLostWakeup, DrainInv
      <4>3. CASE activeConns # {}
        <5>1. drained' = FALSE /\ drainDone' = TRUE /\ outstanding' = activeConns /\ activeConns' = activeConns
          BY <1>2, <3>1, <4>3, ZenonT(30) DEF Drain
        <5>. QED  BY <4>1, <4>3, <5>1 DEF NoLostWakeup, DrainInv
      <4>. QED  BY <4>2, <4>3
    <3>2. CASE StopCloses
      BY <1>1, <1>2, <3>2 DEF StopCloses, ConnInv, NoLostWakeup, DrainInv
    <3>. QED  BY <3>1, <3>2
  <2>. QED  BY <2>1, <2>2 DEF ConnInv
<1>. QED  BY <1>3, <1>4, <1>5, <1>6 DEF Inv

(* The goroutines of the listeners and of the status server. *)
LEMMA ServeStep ==
  ASSUME Inv, StatusReturns \/ \E l \in Listener : Serving(l)
  PROVE  Inv'
<1> USE DEF mainVars, serveVars, connVars
<1>1. RunTypes /\ ServeTypes /\ ConnTypes /\ RunInv /\ ServeInv /\ ErrInv /\ ConnInv
  BY DEF Inv
<1>2. /\ UNCHANGED mainVars /\ UNCHANGED connVars
      /\ UNCHANGED <<stopping, listening, closeConnections>>
      /\ status' \in {status, "reported"}
  BY DEF StatusReturns, Serving, ServeReturns, ServeLocks, ServeReports, ServeDone
<1>3. RunTypes' /\ ConnTypes'
  BY <1>1, <1>2 DEF RunTypes, ConnTypes
<1>4. ConnInv'
  BY <1>1, <1>2 DEF ConnInv, ConnsTracked, NoIdleConnLeftOpen, NoLostWakeup, DrainInv
<1>5. CASE StatusReturns
  <2>1. ServeTypes' /\ RunInv' /\ ServeInv' /\ ErrInv'
    BY <1>1, <1>2, <1>5, SMTT(30) DEF StatusReturns, ServeTypes, RunInv, ServeInv, NoServeAfterStopListening,
                            ErrInv, Reported
  <2>. QED  BY <1>3, <1>4, <2>1 DEF Inv
<1>6. ASSUME NEW l \in Listener, Serving(l)
      PROVE  Inv'
  <2>1. /\ serve[l] \in {"serving", "returned", "locked", "unlocked"}
        /\ \E s \in {"returned", "locked", "unlocked", "done"} : serve' = [serve EXCEPT ![l] = s]
        /\ stopLock' \in Listener \cup {nobody}
        /\ main # "exited"
    BY <1>1, <1>6, Zenon DEF Serving, ServeReturns, ServeLocks, ServeReports, ServeDone, Unlock,
                             Alive, ServeTypes
  <2>2. /\ DOMAIN serve = Listener
        /\ \A k \in Listener \ {l} : serve'[k] = serve[k]
    BY <1>1, <2>1 DEF ServeTypes
  <2>3. RunInv' /\ ServeInv'
    BY <1>1, <1>2, <2>1, <2>2 DEF RunInv, ServeInv, NoServeAfterStopListening, Listener
  <2>4. \/ errChan' = errChan /\ Reported(l)' >= Reported(l)
        \/ errChan' = errChan + 1 /\ Reported(l) = 0 /\ Reported(l)' = 1 /\ errChan < ErrBuffer
    <3>1. errChan \in Nat /\ serve \in [Listener -> {"off", "serving", "returned", "locked", "unlocked", "done"}]
      BY <1>1 DEF ServeTypes
    <3>2. CASE ServeReturns(l) \/ ServeLocks(l) \/ ServeDone(l)
      BY <3>1, <3>2 DEF ServeReturns, ServeLocks, ServeDone, Reported
    <3>3. CASE ServeReports(l)
      BY <3>1, <3>3 DEF ServeReports, Unlock, Reported
    <3>. QED  BY <1>6, <3>2, <3>3 DEF Serving
  <2>5. \A k \in Listener \ {l} : Reported(k)' = Reported(k)
    BY <2>2 DEF Reported
  <2>6. \A k \in Listener : Reported(k) \in 0 .. 1 /\ Reported(k)' \in 0 .. 1
    BY DEF Reported
  <2>7. errChan \in 0 .. 2 /\ errChan <= Reported("http") + Reported("tls")
    BY <1>1, <2>1 DEF ServeTypes, ErrInv, ErrBuffer
  <2>8. ErrInv'
    <3>1. errChan' <= Reported("http")' + Reported("tls")'
      <4>1. CASE l = "http"
        <5>1. Reported("tls")' = Reported("tls")
          BY <2>5, <4>1 DEF Listener
        <5>. QED  BY <2>4, <2>6, <2>7, <4>1, <5>1 DEF Listener
      <4>2. CASE l = "tls"
        <5>1. Reported("http")' = Reported("http")
          BY <2>5, <4>2 DEF Listener
        <5>. QED  BY <2>4, <2>6, <2>7, <4>2, <5>1 DEF Listener
      <4>. QED  BY <4>1, <4>2 DEF Listener
    <3>. QED  BY <3>1 DEF ErrInv
  <2>9. ServeTypes'
    <3>1. errChan' \in 0 .. ErrBuffer
      BY <2>4, <2>7 DEF ErrBuffer
    <3>. QED  BY <1>1, <1>2, <2>1, <3>1 DEF ServeTypes
  <2>. QED  BY <1>3, <1>4, <2>3, <2>8, <2>9, SMTT(30) DEF Inv
<1>. QED  BY <1>5, <1>6

(* net/http reporting the state of a connection. *)
LEMMA ConnStep ==
  ASSUME Inv, NEW c \in Conn, NetHttp(c)
  PROVE  Inv'
<1> USE DEF mainVars, serveVars
<1>1. RunTypes /\ ServeTypes /\ ConnTypes /\ RunInv /\ ServeInv /\ ErrInv /\ ConnInv
  BY DEF Inv
<1>2. UnchangedByConn
  BY DEF NetHttp, Accept, RequestRead, KeptAlive, Closed, Hijacked, HijackEnds
<1>3. RunTypes' /\ ServeTypes' /\ RunInv' /\ ServeInv' /\ ErrInv'
  <2>1. RunTypes' /\ ServeTypes'
    BY <1>1, <1>2 DEF UnchangedByConn, RunTypes, ServeTypes
  <2>2. RunInv' /\ ServeInv' /\ ErrInv'
    BY <1>1, <1>2 DEF UnchangedByConn, RunInv, ServeInv, NoServeAfterStopListening, ErrInv, Reported
  <2>. QED  BY <2>1, <2>2
<1>4. /\ CheckDrained \/ UNCHANGED <<activeConns, drainDone, drained>>
      /\ outstanding' \in {outstanding, outstanding \ {c}}
  BY DEF NetHttp, Accept, RequestRead, KeptAlive, Closed, Hijacked, HijackEnds
<1>5. /\ state' \in [Conn -> {"none", "new", "active", "idle", "hijacked"}]
      /\ activeConns' = {d \in Conn : state'[d] = "active"}
      /\ idleConns' = {d \in Conn : state'[d] = "idle"}
      /\ shut' \subseteq Conn
      /\ closeConnections => idleConns' \subseteq shut'
      /\ outstanding' \subseteq activeConns'
  <2> USE <1>1 DEF ConnTypes, ConnInv, ConnsTracked, NoIdleConnLeftOpen, DrainInv
  <2>1. CASE \E l \in Listener : Accept(c, l)
    BY <2>1 DEF Accept
  <2>2. CASE RequestRead(c)
    BY <2>2 DEF RequestRead, TrackActive
  <2>3. CASE KeptAlive(c)
    BY <2>3 DEF KeptAlive, TrackIdle
  <2>4. CASE Closed(c) \/ Hijacked(c)
    BY <2>4 DEF Closed, Hijacked, Untrack
  <2>5. CASE HijackEnds(c)
    BY <2>5 DEF HijackEnds
  <2>. QED  BY <2>1, <2>2, <2>3, <2>4, <2>5 DEF NetHttp
<1>6. /\ drainDone' \in BOOLEAN /\ drained' \in BOOLEAN
      /\ NoLostWakeup'
      /\ drained' => outstanding' = {}
      /\ drainResult' = "drained" => drained'
  <2>1. UNCHANGED <<main, drainResult>>
    BY <1>2 DEF UnchangedByConn
  <2>2. drainDone' \in BOOLEAN /\ drained' \in BOOLEAN
    BY <1>1, <1>4, ZenonT(30) DEF ConnTypes, CheckDrained
  <2>3. CASE CheckDrained
    <3>1. CASE drainDone /\ activeConns' = {}
      <4>1. drained' = TRUE /\ drainDone' = FALSE
        BY <2>3, <3>1, ZenonT(30) DEF CheckDrained
      <4>2. outstanding' = {}
        BY <1>5, <3>1
      <4>. QED  BY <2>2, <4>1, <4>2 DEF NoLostWakeup
    <3>2. CASE drainDone /\ activeConns' # {}
      <4>1. drained' = drained /\ drainDone' = TRUE /\ ~drained
        BY <1>1, <2>3, <3>2, ZenonT(30) DEF CheckDrained, ConnTypes, ConnInv, NoLostWakeup
      <4>. QED  BY <1>1, <2>1, <2>2, <3>2, <4>1 DEF ConnInv, NoLostWakeup, DrainInv
    <3>3. CASE ~drainDone
      <4>1. drained' = drained /\ drainDone' = FALSE
        BY <1>1, <2>3, <3>3 DEF CheckDrained, ConnTypes
      <4>2. NoLostWakeup'
        BY <1>1, <2>1, <3>3, <4>1 DEF ConnInv, NoLostWakeup
      <4>3. drained' => outstanding' = {}
        BY <1>1, <1>4, <4>1 DEF ConnInv, DrainInv
      <4>4. drainResult' = "drained" => drained'
        BY <1>1, <2>1, <4>1 DEF ConnInv, DrainInv
      <4>. QED  BY <2>2, <4>2, <4>3, <4>4
    <3>. QED  BY <3>1, <3>2, <3>3
  <2>4. CASE UNCHANGED <<activeConns, drainDone, drained>>
    <3>1. NoLostWakeup'
      BY <1>1, <2>1, <2>4 DEF ConnInv, NoLostWakeup
    <3>2. drained' => outstanding' = {}
      BY <1>1, <1>4, <2>4 DEF ConnInv, DrainInv
    <3>3. drainResult' = "drained" => drained'
      BY <1>1, <2>1, <2>4 DEF ConnInv, DrainInv
    <3>. QED  BY <2>2, <3>1, <3>2, <3>3
  <2>. QED  BY <1>4, <2>2, <2>3, <2>4
<1>7. ConnTypes'
  BY <1>1, <1>4, <1>5, <1>6 DEF ConnTypes
<1>8. ConnInv'
  <2>1. UNCHANGED closeConnections
    BY <1>2 DEF UnchangedByConn
  <2>. QED  BY <1>5, <1>6, <2>1 DEF ConnInv, ConnsTracked, NoIdleConnLeftOpen, DrainInv
<1>. QED  BY <1>3, <1>7, <1>8 DEF Inv

(* ... and every step keeps it. *)
LEMMA NextInv ==
  ASSUME Inv, [Next]_vars
  PROVE  Inv'
<1>1. ASSUME UNCHANGED vars
      PROVE  Inv'
  <2> USE <1>1 DEF vars, mainVars, serveVars, connVars
  <2>1. RunTypes' /\ ServeTypes' /\ ConnTypes'
    BY DEF Inv, RunTypes, ServeTypes, ConnTypes
  <2>2. RunInv' /\ ServeInv' /\ ErrInv'
    BY DEF Inv, RunInv, ServeInv, NoServeAfterStopListening, ErrInv, Reported
  <2>3. ConnInv'
    BY DEF Inv, ConnInv, ConnsTracked, NoIdleConnLeftOpen, NoLostWakeup, DrainInv
  <2>. QED  BY <2>1, <2>2, <2>3 DEF Inv
<1>. QED  BY <1>1, RunStep, CloseIdleStep, ServeStep, ConnStep, Zenon DEF Next, Run, Exited

(* The invariant the theorems rest on. *)
THEOREM RouterInvariant == Spec => []Inv
<1>1. Init => Inv
  BY InitInv
<1>2. Inv /\ [Next]_vars => Inv'
  BY NextInv
<1>. QED  BY <1>1, <1>2, PTL DEF Spec

(* Every variable keeps its type, for any set of connections. *)
THEOREM TypeCorrect == Spec => []TypeOK
BY InvTypeOK, RouterInvariant, PTL

(* The maps of HandleConnState are exact: after every callback each connection
   is in the map of its state, and in no other. *)
THEOREM Tracking == Spec => []ConnsTracked
<1>1. Inv => ConnsTracked
  BY DEF Inv, ConnInv
<1>. QED  BY <1>1, RouterInvariant, PTL

(* No connection stays idle and open once the router closes connections: neither
   one that turns idle after closeIdleConns nor one it found. *)
THEOREM NoIdleLeft == Spec => []NoIdleConnLeftOpen
<1>1. Inv => NoIdleConnLeftOpen
  BY DEF Inv, ConnInv
<1>. QED  BY <1>1, RouterInvariant, PTL

(* Drain never misses its wake-up: while it waits, its channel is closed or a
   connection is active whose end closes it, and it is closed once. *)
THEOREM DrainWakes == Spec => []NoLostWakeup
<1>1. Inv => NoLostWakeup
  BY DEF Inv, ConnInv, DrainInv
<1>. QED  BY <1>1, RouterInvariant, PTL

(* When Drain returns without a timeout, the requests it found are complete. *)
THEOREM DrainCorrect == Spec => []DrainCompletes
<1>1. Inv => DrainCompletes
  BY DEF Inv, ConnInv, DrainInv, DrainCompletes
<1>. QED  BY <1>1, RouterInvariant, PTL

(* No listener accepts once stopListening has returned. *)
THEOREM ListenersStopped == Spec => []NoServeAfterStopListening
<1>1. Inv => NoServeAfterStopListening
  BY DEF Inv, ServeInv
<1>. QED  BY <1>1, RouterInvariant, PTL

(* The buffer of two is enough: nobody blocks on errChan, so stopLock is never
   held for good. *)
THEOREM ErrChanSuffices == Spec => []ErrChanNeverFull
<1>1. Inv => ErrChanNeverFull
  <2>. SUFFICES ASSUME Inv
                PROVE  ErrChanNeverFull
    OBVIOUS
  <2>1. errChan \in Nat /\ (main # "exited" => errChan <= Reported("http") + Reported("tls"))
    BY DEF Inv, ServeTypes, ErrInv, ErrBuffer
  <2>. QED  BY <2>1 DEF Inv, RunInv, ErrChanNeverFull, Reported, Listener, ErrBuffer, Alive
<1>. QED  BY <1>1, RouterInvariant, PTL

(* A deliberate stop is never reported as an error. *)
THEOREM StopIsNoError == Spec => NoErrorOnceStopping
<1>1. Inv /\ [Next]_vars => [stopping => errChan' <= errChan]_vars
  <2>. SUFFICES ASSUME Inv, Next, stopping
                PROVE  errChan' <= errChan
    OBVIOUS
  <2>1. errChan \in Nat /\ main \notin {"listen", "listenTls", "listenFailed"}
    BY DEF Inv, ServeTypes, RunInv
  <2>2. CASE Run
    <3>1. errChan' = errChan \/ errChan' = errChan - 1
      BY <2>1, <2>2, ZenonT(30) DEF Run, serveHTTP, serveHTTPS, listenFails, RunFails, OnErr, OnSignal, setStopping,
        closeListeners, waitTls, waitHttp, Drain, DrainReturns, DrainTimesOut, Drained, StopCloses,
        StopComponent, serveVars
    <3>. QED  BY <2>1, <3>1
  <2>3. CASE StatusReturns \/ \E l \in Listener : Serving(l)
    <3>1. UNCHANGED errChan
      BY <2>3, ZenonT(30) DEF StatusReturns, Serving, ServeReturns, ServeLocks, ServeReports, ServeDone, serveVars
    <3>. QED  BY <2>1, <3>1
  <2>4. CASE (\E c \in Conn : NetHttp(c)) \/ Exited
    <3>1. UNCHANGED errChan
      BY <2>4, ZenonT(30) DEF NetHttp, Accept, RequestRead, KeptAlive, Closed, Hijacked, HijackEnds, Exited,
                  UnchangedByConn, vars, serveVars
    <3>. QED  BY <2>1, <3>1
  <2>. QED  BY <2>2, <2>3, <2>4 DEF Next
<1>. QED  BY <1>1, RouterInvariant, PTL DEF Spec, NoErrorOnceStopping

-------------------------------------------------------------------------------
(* RouteFetcher and RouteSources. *)

Table == [Uri -> [Endpoint -> (0 .. MaxThreshold + 1) \cup {nil}]]

Event == [action : Action, route : Route]

(* What the API has held without a break it holds now; and what the fetch
   goroutine is about to withdraw, it has not held without a break. *)
HistoryInv ==
  /\ steady \subseteq api
  /\ recent \subseteq api
  /\ pc = "delete" => todo \cap steady = {}

FetcherInv == FetcherTypeOK /\ HistoryInv

(* Nothing has been fetched in the beginning. *)
LEMMA FetcherInitInv == FetcherInit => FetcherInv
<1>. SUFFICES ASSUME FetcherInit PROVE FetcherInv
  OBVIOUS
<1>1. routes \in Table
  BY DEF FetcherInit, Registry!Init, Table
<1>2. stream \in Seq(Event)
  BY DEF FetcherInit
<1>. QED  BY <1>1, <1>2, ZenonT(30) DEF FetcherInit, FetcherInv, FetcherTypeOK, HistoryInv, Table, Event

-----------------------------------------------------------------------------
(* The registry's operations keep its table well-typed. *)

(* Register does, ... *)
LEMMA RegisterType ==
  ASSUME routes \in Table, NEW u \in Uri, NEW ep \in Endpoint, Registry!Register(u, ep)
  PROVE  routes' \in Table
<1>1. 0 \in (0 .. MaxThreshold + 1) \cup {nil}
  BY FetcherAssumption
<1>2. routes' = [routes EXCEPT ![u] = [routes[u] EXCEPT ![ep] = 0]]
  BY DEF Registry!Register
<1>3. [routes[u] EXCEPT ![ep] = 0] \in [Endpoint -> (0 .. MaxThreshold + 1) \cup {nil}]
  BY <1>1 DEF Table
<1>. QED  BY <1>2, <1>3 DEF Table

(* ... Unregister, ... *)
LEMMA UnregisterType ==
  ASSUME routes \in Table, NEW u \in Uri, NEW ep \in Endpoint, Registry!Unregister(u, ep)
  PROVE  routes' \in Table
<1>1. routes' = [routes EXCEPT ![u] = [routes[u] EXCEPT ![ep] = nil]]
  BY DEF Registry!Unregister
<1>2. [routes[u] EXCEPT ![ep] = nil] \in [Endpoint -> (0 .. MaxThreshold + 1) \cup {nil}]
  BY DEF Table
<1>. QED  BY <1>1, <1>2 DEF Table

(* ... the pruning of a route, ... *)
LEMMA ExpireType ==
  ASSUME routes \in Table, NEW u \in Uri, Registry!Expire(u)
  PROVE  routes' \in Table
<1>1. ASSUME NEW ep \in Endpoint
      PROVE  Registry!Expired(ep, routes[u][ep]) \in (0 .. MaxThreshold + 1) \cup {nil}
  <2>1. routes[u][ep] \in (0 .. MaxThreshold + 1) \cup {nil}
    BY DEF Table
  <2>2. Registry!Expired(ep, routes[u][ep]) \in {routes[u][ep], nil}
    BY DEF Registry!Expired
  <2>. QED  BY <2>1, <2>2
<1>2. routes' = [routes EXCEPT ![u] =
                   [ep \in Endpoint |-> Registry!Expired(ep, routes[u][ep])]]
  BY DEF Registry!Expire
<1>. QED  BY <1>1, <1>2 DEF Table

(* ... and the clock. *)
LEMMA TickType ==
  ASSUME routes \in Table, Registry!Tick
  PROVE  routes' \in Table
<1>1. ASSUME NEW u \in Uri, NEW ep \in Endpoint
      PROVE  Registry!Older(routes[u][ep]) \in (0 .. MaxThreshold + 1) \cup {nil}
  <2>1. routes[u][ep] \in (0 .. MaxThreshold + 1) \cup {nil}
    BY DEF Table
  <2>. QED  BY <2>1, FetcherAssumption DEF Registry!Older
<1>. QED  BY <1>1 DEF Table, Registry!Tick

-----------------------------------------------------------------------------
(* The steps. *)

(* An announced event is added to the stream, if it is up. *)
LEMMA AnnouncedType ==
  ASSUME stream \in Seq(Event), NEW a \in Action, NEW r \in Route
  PROVE  Announced(a, r) \in Seq(Event)
<1>1. [action |-> a, route |-> r] \in Event
  BY DEF Event
<1>2. Append(stream, [action |-> a, route |-> r]) \in Seq(Event)
  BY <1>1
<1>. QED  BY <1>2 DEF Announced

(* Every step of the fetcher keeps the invariant. *)
LEMMA InvNext ==
  ASSUME FetcherInv, [FetcherNext]_fetcherVars
  PROVE  FetcherInv'
<1>. USE DEF FetcherInv
<1>a. routes \in Table /\ stream \in Seq(Event)
  BY DEF FetcherTypeOK, Table, Event
<1>b. ASSUME NEW r \in Route
      PROVE  r.uri \in Uri /\ r.endpoint \in Endpoint
  BY DEF Route
<1>c. FetcherInv' <=> FetcherTypeOK' /\ HistoryInv'
  OBVIOUS
<1>1. ASSUME NEW r \in Route, ApiUpsert(r)
      PROVE  FetcherInv'
  <2>1. stream' \in Seq(Event)
    BY <1>1, <1>a, AnnouncedType DEF ApiUpsert, Action
  <2>2. FetcherTypeOK'
    BY <1>1, <2>1 DEF ApiUpsert, FetcherTypeOK, Event, fetchVars, historyVars
  <2>3. HistoryInv'
    BY <1>1 DEF ApiUpsert, HistoryInv, fetchVars, historyVars
  <2>. QED  BY <2>2, <2>3
<1>2. ASSUME NEW r \in Route, ApiDelete(r)
      PROVE  FetcherInv'
  <2>1. stream' \in Seq(Event)
    BY <1>2, <1>a, AnnouncedType DEF ApiDelete, Action
  <2>2. FetcherTypeOK'
    BY <1>2, <2>1 DEF ApiDelete, FetcherTypeOK, Event, fetchVars
  <2>3. HistoryInv'
    BY <1>2 DEF ApiDelete, HistoryInv, fetchVars
  <2>. QED  BY <2>2, <2>3
<1>3. CASE subscribeToEvents
  BY <1>3 DEF subscribeToEvents, FetcherTypeOK, HistoryInv, fetchVars, historyVars
<1>4. CASE StreamBreaks
  <2>1. stream' \in Seq(Event)
    BY <1>4 DEF StreamBreaks
  <2>. QED
    BY <1>4, <2>1, ZenonT(30) DEF StreamBreaks, FetcherTypeOK, HistoryInv, Event, fetchVars, historyVars
<1>5. CASE HandleEvent
  <2>1. Head(stream) \in Event /\ Tail(stream) \in Seq(Event)
    BY <1>5, <1>a DEF HandleEvent
  <2>2. Head(stream).route \in Route
    BY <2>1 DEF Event
  <2>3. routes' \in Table
    BY <1>5, <1>a, <1>b, <2>2, RegisterType, UnregisterType DEF HandleEvent
  <2>. QED
    BY <1>5, <2>1, <2>3
    DEF HandleEvent, FetcherTypeOK, HistoryInv, Event, Table, fetchVars, historyVars
<1>6. CASE FetchRoutes
  BY <1>6 DEF FetchRoutes, FetcherTypeOK, HistoryInv, eventVars
<1>7. ASSUME NEW r \in Route, deleteEndpoints(r)
      PROVE  FetcherInv'
  <2>1. routes' \in Table
    BY <1>7, <1>a, <1>b, UnregisterType DEF deleteEndpoints
  <2>. QED
    BY <1>7, <2>1 DEF deleteEndpoints, FetcherTypeOK, HistoryInv, Table, eventVars, historyVars
<1>8. ASSUME NEW r \in Route, registerEndpoints(r)
      PROVE  FetcherInv'
  <2>1. routes' \in Table
    BY <1>8, <1>a, <1>b, RegisterType DEF registerEndpoints
  <2>. QED
    BY <1>8, <2>1 DEF registerEndpoints, FetcherTypeOK, HistoryInv, Table, eventVars, historyVars
<1>9. CASE refreshEndpoints
  BY <1>9 DEF refreshEndpoints, FetcherTypeOK, HistoryInv, eventVars
<1>10. CASE FetchReturns
  BY <1>10 DEF FetchReturns, FetcherTypeOK, HistoryInv, eventVars, historyVars
<1>11. ASSUME NEW u \in Uri, Prune(u)
       PROVE  FetcherInv'
  <2>1. routes' \in Table
    BY <1>11, <1>a, ExpireType DEF Prune
  <2>. QED
    BY <1>11, <2>1 DEF Prune, FetcherTypeOK, HistoryInv, Table, eventVars, fetchVars, historyVars
<1>12. CASE Tick
  <2>1. routes' \in Table
    BY <1>12, <1>a, TickType DEF Tick
  <2>. QED
    BY <1>12, <2>1 DEF Tick, FetcherTypeOK, HistoryInv, Table, eventVars, fetchVars, historyVars
<1>13. CASE UNCHANGED fetcherVars
  BY <1>13 DEF fetcherVars, FetcherTypeOK, HistoryInv, eventVars, fetchVars, historyVars
<1>. QED
  BY <1>1, <1>2, <1>3, <1>4, <1>5, <1>6, <1>7, <1>8, <1>9, <1>10, <1>11, <1>12, <1>13
  DEF FetcherNext, Fetching

-----------------------------------------------------------------------------
(* Beside the fetcher, messages change the registry and nothing else of what
   the fetcher knows. *)

MessagesTyped ==
  /\ offer \in Offers
  /\ backend \in [Endpoint -> SUBSET Uri]
  /\ registering \in Message /\ unregistering \in Message

SourcesInv == FetcherInv /\ MessagesTyped

(* No message is being handled in the beginning. *)
LEMMA InitSourcesInv == InitSources => SourcesInv
BY FetcherInitInv DEF InitSources, SourcesInv, MessagesTyped

(* Messages leave the fetcher alone, and keep the types. *)
LEMMA MessagesStep ==
  ASSUME SourcesInv, Messages
  PROVE  SourcesInv'
<1>. USE DEF SourcesInv
<1>a. routes \in Table
  BY DEF FetcherInv, FetcherTypeOK, Table
<1>b. ASSUME routes' \in Table, UNCHANGED <<api, eventVars, fetchVars, historyVars>>
      PROVE  FetcherInv'
  BY <1>b DEF FetcherInv, FetcherTypeOK, HistoryInv, Table, eventVars, fetchVars, historyVars
<1>c. ASSUME UNCHANGED fetcherVars
      PROVE  FetcherInv'
  BY <1>c, <1>a, <1>b DEF fetcherVars
<1>1. ASSUME NEW ep \in Endpoint, BackendAnnounces(ep)
      PROVE  SourcesInv'
  BY <1>1, <1>c DEF BackendAnnounces, MessagesTyped, Message
<1>2. ASSUME NEW ep \in Endpoint, NEW u \in Uri, BackendGains(ep, u)
      PROVE  SourcesInv'
  BY <1>2, <1>c, SMTT(30) DEF BackendGains, MessagesTyped
<1>3. ASSUME NEW ep \in Endpoint, NEW uris \in SUBSET Uri, BackendLoses(ep, uris)
      PROVE  SourcesInv'
  BY <1>3, <1>c DEF BackendLoses, MessagesTyped
<1>4. ASSUME NEW u \in Uri, SubscribeRegister(u)
      PROVE  SourcesInv'
  <2>1. routes' \in Table
    BY <1>4, <1>a, RegisterType DEF SubscribeRegister, MessagesTyped, Message
  <2>. QED  BY <1>4, <2>1, <1>b DEF SubscribeRegister, MessagesTyped, Message
<1>5. ASSUME NEW u \in Uri, SubscribeUnregister(u)
      PROVE  SourcesInv'
  <2>1. routes' \in Table
    BY <1>5, <1>a, UnregisterType DEF SubscribeUnregister, MessagesTyped, Message
  <2>. QED  BY <1>5, <2>1, <1>b DEF SubscribeUnregister, MessagesTyped, Message
<1>. QED  BY <1>1, <1>2, <1>3, <1>4, <1>5 DEF Messages

(* Every step of either source keeps the invariant. *)
LEMMA SourcesStep ==
  ASSUME SourcesInv, [NextSources]_sourceVars
  PROVE  SourcesInv'
<1>1. CASE Messages
  BY <1>1, MessagesStep
<1>2. CASE FetcherStep
  BY <1>2, InvNext DEF FetcherStep, SourcesInv, MessagesTyped, messageVars
<1>3. CASE UNCHANGED sourceVars
  BY <1>3, InvNext DEF sourceVars, SourcesInv, MessagesTyped, messageVars
<1>. QED  BY <1>1, <1>2, <1>3 DEF NextSources

-----------------------------------------------------------------------------

(* The inductive invariant holds in every reachable state of the fetcher and of
   the handlers of messages. *)
THEOREM FetcherInvariant == SourcesSpec => []SourcesInv
BY InitSourcesInv, SourcesStep, PTL DEF SourcesSpec

(* The state of the fetcher and of the handlers, and the registry's table as
   they change it, stay well-typed. *)
THEOREM SourcesTypeCorrect == SourcesSpec => []SourcesTypeOK
<1>1. SourcesInv => SourcesTypeOK
  BY DEF SourcesInv, FetcherInv, MessagesTyped, SourcesTypeOK
<1>. QED  BY <1>1, FetcherInvariant, PTL

(* deleteEndpoints never withdraws a route that the API has held without a
   break since the last response that was applied, whatever messages do to the
   registry meanwhile. *)
THEOREM SteadyRoutesKept == SourcesSpec => FetchKeepsSteadyRoutes
<1>1. SourcesInv /\ [NextSources]_sourceVars => [\A r \in steady : ~deleteEndpoints(r)]_fetcherVars
  <2>. SUFFICES ASSUME SourcesInv, [NextSources]_sourceVars, NEW r \in steady, deleteEndpoints(r)
               PROVE  FALSE
    OBVIOUS
  <2>. QED  BY DEF SourcesInv, FetcherInv, HistoryInv, deleteEndpoints
<1>. QED  BY <1>1, FetcherInvariant, PTL DEF SourcesSpec, FetchKeepsSteadyRoutes

===============================================================================
