-------------------------------- MODULE Router --------------------------------
(***************************************************************************)
(* Starting, draining and stopping the router (src/router/router.go), with *)
(* the status server of its component (src/common/component.go).           *)
(*                                                                         *)
(* The actors are the goroutine of Run, the goroutine of each listener's   *)
(* http.Server.Serve, and net/http, which accepts connections and calls    *)
(* HandleConnState at each change of a connection's state.  connLock makes *)
(* HandleConnState and the locked part of Drain and Stop one action each.  *)
(* stopLock is held across a send on errChan, so its holder is state.      *)
(***************************************************************************)
EXTENDS Integers

CONSTANTS
  Conn,        \* client connections, by pointer; one is reused when it is gone
  EnableSSL,   \* config.EnableSSL
  nobody       \* holds stopLock when it is free

ASSUME SSLAssumption == EnableSSL \in BOOLEAN

(* Mutant of ErrBuffer: there is room for the error of one listener. *)
ErrBufferOne == 1

(* The buffer of errChan that NewRouter makes; main passes no channel. *)
ErrBuffer == 2

Listener == {"http", "tls"}

ASSUME HolderAssumption == nobody \notin Listener

VARIABLES
  main,              \* where Run is
  phase,             \* the function that called stopListening
  drainResult,       \* how Drain ended
  stopping,
  stopLock,          \* its holder
  errChan,           \* number of errors in the channel
  serve,             \* where the goroutine of each listener is
  listening,         \* the listeners that are open
  status,            \* the component's status server
  state,             \* what net/http has last reported of each connection
  activeConns, idleConns,
  shut,              \* connections whose socket the router has closed
  closeConnections,
  drainDone,         \* the field holds a channel, not nil
  drained,           \* the channel Drain made is closed
  outstanding        \* history: active when Drain took the lock, and since

mainVars == <<main, phase, drainResult>>
serveVars == <<stopLock, errChan, serve>>
connVars == <<state, activeConns, idleConns, shut, drainDone, drained, outstanding>>
vars == <<mainVars, serveVars, connVars, stopping, listening, status, closeConnections>>

StopListening == {"setStopping", "closeListeners", "waitTls", "waitHttp"}

MainStates == {"listen", "listenTls", "listenFailed", "select", "drain", "draining",
               "closeIdle", "stopComponent", "exited"} \cup StopListening

TypeOK ==
  /\ main \in MainStates
  /\ phase \in {"run", "Drain", "Stop"}
  /\ drainResult \in {"none", "drained", "timeout"}
  /\ stopping \in BOOLEAN
  /\ stopLock \in Listener \cup {nobody}
  /\ errChan \in 0 .. ErrBuffer
  /\ serve \in [Listener -> {"off", "serving", "returned", "locked", "unlocked", "done"}]
  /\ listening \subseteq Listener
  /\ status \in {"off", "serving", "reported"}
  /\ state \in [Conn -> {"none", "new", "active", "idle", "hijacked"}]
  /\ activeConns \subseteq Conn
  /\ idleConns \subseteq Conn
  /\ shut \subseteq Conn
  /\ closeConnections \in BOOLEAN
  /\ drainDone \in BOOLEAN
  /\ drained \in BOOLEAN
  /\ outstanding \subseteq Conn

(* NewRouter; the status server may have failed to listen. *)
Init ==
  /\ main = "listen"
  /\ phase = "run"
  /\ drainResult = "none"
  /\ stopping = FALSE
  /\ stopLock = nobody
  /\ errChan = 0
  /\ serve = [l \in Listener |-> "off"]
  /\ listening = {}
  /\ status \in {"off", "serving"}
  /\ state = [c \in Conn |-> "none"]
  /\ activeConns = {}
  /\ idleConns = {}
  /\ shut = {}
  /\ closeConnections = FALSE
  /\ drainDone = FALSE
  /\ drained = FALSE
  /\ outstanding = {}

Alive == main # "exited"

-----------------------------------------------------------------------------
(* Run: starting the listeners. *)

Listen(l) ==
  /\ listening' = listening \cup {l}
  /\ serve' = [serve EXCEPT ![l] = "serving"]

serveHTTP ==
  /\ main = "listen"
  /\ Listen("http")
  /\ main' = "listenTls"
  /\ UNCHANGED <<phase, drainResult, stopLock, errChan, connVars, stopping, status, closeConnections>>

serveHTTPS ==
  /\ main = "listenTls"
  /\ IF EnableSSL THEN Listen("tls") ELSE UNCHANGED <<listening, serve>>
  /\ main' = "select"
  /\ UNCHANGED <<phase, drainResult, stopLock, errChan, connVars, stopping, status, closeConnections>>

listenFails ==
  /\ main = "listen" \/ (main = "listenTls" /\ EnableSSL)
  /\ main' = "listenFailed"
  /\ UNCHANGED <<phase, drainResult, serveVars, connVars, stopping, listening, status, closeConnections>>

(* Run puts the error on errChan and returns it. *)
RunFails ==
  /\ main = "listenFailed"
  /\ errChan < ErrBuffer
  /\ errChan' = errChan + 1
  /\ main' = "exited"
  /\ UNCHANGED <<phase, drainResult, stopLock, serve, connVars, stopping, listening, status,
                 closeConnections>>

(* OnErrOrSignal *)
OnErr ==
  /\ main = "select"
  /\ errChan > 0
  /\ errChan' = errChan - 1
  /\ main' = "setStopping"
  /\ phase' = "Drain"
  /\ UNCHANGED <<drainResult, stopLock, serve, connVars, stopping, listening, status, closeConnections>>

(* SIGUSR1 drains, every other signal stops; later signals are ignored. *)
OnSignal ==
  /\ main = "select"
  /\ main' = "setStopping"
  /\ phase' \in {"Drain", "Stop"}
  /\ UNCHANGED <<drainResult, serveVars, connVars, stopping, listening, status, closeConnections>>

-----------------------------------------------------------------------------
(* stopListening *)

setStopping ==
  /\ main = "setStopping"
  /\ stopLock = nobody
  /\ stopping' = TRUE
  /\ main' = "closeListeners"
  /\ UNCHANGED <<phase, drainResult, serveVars, connVars, listening, status, closeConnections>>

closeListeners ==
  /\ main = "closeListeners"
  /\ listening' = {}
  /\ main' = IF EnableSSL THEN "waitTls" ELSE "waitHttp"
  /\ UNCHANGED <<phase, drainResult, serveVars, connVars, stopping, status, closeConnections>>

(* Mutant of waitTls: tlsServeDone is not waited for. *)
waitTlsNot ==
  /\ main = "waitTls"
  /\ main' = "waitHttp"
  /\ UNCHANGED <<phase, drainResult, serveVars, connVars, stopping, listening, status, closeConnections>>

waitTls ==
  /\ main = "waitTls"
  /\ serve["tls"] = "done"
  /\ main' = "waitHttp"
  /\ UNCHANGED <<phase, drainResult, serveVars, connVars, stopping, listening, status, closeConnections>>

waitHttp ==
  /\ main = "waitHttp"
  /\ serve["http"] = "done"
  /\ main' = IF phase = "Drain" THEN "drain" ELSE "closeIdle"
  /\ UNCHANGED <<phase, drainResult, serveVars, connVars, stopping, listening, status, closeConnections>>

-----------------------------------------------------------------------------
(* Drain and Stop *)

closeIdleConns ==
  /\ closeConnections' = TRUE
  /\ shut' = shut \cup idleConns

(* Mutant of Drain: drained is left open when nothing is active. *)
DrainForgets ==
  /\ main = "drain"
  /\ closeIdleConns
  /\ drainDone' = (activeConns # {})
  /\ drained' = FALSE
  /\ outstanding' = activeConns
  /\ main' = "draining"
  /\ UNCHANGED <<phase, drainResult, serveVars, state, activeConns, idleConns, stopping, listening, status>>

Drain ==
  /\ main = "drain"
  /\ closeIdleConns
  /\ drainDone' = (activeConns # {})
  /\ drained' = (activeConns = {})
  /\ outstanding' = activeConns
  /\ main' = "draining"
  /\ UNCHANGED <<phase, drainResult, serveVars, state, activeConns, idleConns, stopping, listening, status>>

(* The end of Drain, and Stop's call of stopListening. *)
Drained(result) ==
  /\ main = "draining"
  /\ drainResult' = result
  /\ phase' = "Stop"
  /\ main' = "setStopping"
  /\ UNCHANGED <<serveVars, connVars, stopping, listening, status, closeConnections>>

DrainReturns == drained /\ Drained("drained")

(* Mutant of DrainTimesOut: the timer alone does not end the drain. *)
DrainTimesOutLate == drained /\ Drained("timeout")

DrainTimesOut == Drained("timeout")

StopCloses ==
  /\ main = "closeIdle"
  /\ closeIdleConns
  /\ main' = "stopComponent"
  /\ UNCHANGED <<phase, drainResult, serveVars, state, activeConns, idleConns, drainDone, drained,
                 outstanding, stopping, listening, status>>

(* component.Stop closes the status listener and waits for its server; then
   Run returns and the process exits. *)
StopComponent ==
  /\ main = "stopComponent"
  /\ status \in {"off", "reported"}
  /\ main' = "exited"
  /\ UNCHANGED <<phase, drainResult, serveVars, connVars, stopping, listening, status, closeConnections>>

(* The status server ends: its listener fails, or component.Stop closes it. *)
StatusReturns ==
  /\ Alive
  /\ status = "serving"
  /\ status' = "reported"
  /\ UNCHANGED <<mainVars, serveVars, connVars, stopping, listening, closeConnections>>

-----------------------------------------------------------------------------
(* The goroutine of a listener. *)

(* Serve returns an error once the listener is closed, or when Accept fails. *)
ServeReturns(l) ==
  /\ Alive
  /\ serve[l] = "serving"
  /\ serve' = [serve EXCEPT ![l] = "returned"]
  /\ UNCHANGED <<mainVars, stopLock, errChan, connVars, stopping, listening, status, closeConnections>>

ServeLocks(l) ==
  /\ Alive
  /\ serve[l] = "returned"
  /\ stopLock = nobody
  /\ stopLock' = l
  /\ serve' = [serve EXCEPT ![l] = "locked"]
  /\ UNCHANGED <<mainVars, errChan, connVars, stopping, listening, status, closeConnections>>

Unlock(l) ==
  /\ stopLock' = nobody
  /\ serve' = [serve EXCEPT ![l] = "unlocked"]

(* Mutant of ServeReports: every error is reported. *)
ServeReportsAlways(l) ==
  /\ Alive
  /\ serve[l] = "locked"
  /\ errChan < ErrBuffer
  /\ errChan' = errChan + 1
  /\ Unlock(l)
  /\ UNCHANGED <<mainVars, connVars, stopping, listening, status, closeConnections>>

ServeReports(l) ==
  /\ Alive
  /\ serve[l] = "locked"
  /\ \/ stopping /\ UNCHANGED errChan
     \/ ~stopping /\ errChan < ErrBuffer /\ errChan' = errChan + 1
  /\ Unlock(l)
  /\ UNCHANGED <<mainVars, connVars, stopping, listening, status, closeConnections>>

ServeDone(l) ==
  /\ Alive
  /\ serve[l] = "unlocked"
  /\ serve' = [serve EXCEPT ![l] = "done"]
  /\ UNCHANGED <<mainVars, stopLock, errChan, connVars, stopping, listening, status, closeConnections>>

-----------------------------------------------------------------------------
(* Connections.  net/http calls HandleConnState with each new state. *)

(* Mutant of TrackIdle: the connection stays among the active ones. *)
TrackIdleTwice(c) ==
  /\ idleConns' = idleConns \cup {c}
  /\ UNCHANGED activeConns
  /\ shut' = IF closeConnections THEN shut \cup {c} ELSE shut

(* Mutant of TrackIdle: the connection is kept even though the router stops. *)
TrackIdleKeeps(c) ==
  /\ activeConns' = activeConns \ {c}
  /\ idleConns' = idleConns \cup {c}
  /\ UNCHANGED shut

TrackIdle(c) ==
  /\ activeConns' = activeConns \ {c}
  /\ idleConns' = idleConns \cup {c}
  /\ shut' = IF closeConnections THEN shut \cup {c} ELSE shut

TrackActive(c) ==
  /\ activeConns' = activeConns \cup {c}
  /\ idleConns' = idleConns \ {c}
  /\ UNCHANGED shut

Untrack(c) ==
  /\ idleConns' = idleConns \ {c}
  /\ activeConns' = IF c \in idleConns THEN activeConns ELSE activeConns \ {c}
  /\ UNCHANGED shut

(* Mutant of CheckDrained: any connection that ends completes the drain. *)
CheckDrainedEarly ==
  /\ drained' = (drained \/ drainDone)
  /\ drainDone' = FALSE

CheckDrained ==
  /\ drained' = (drained \/ (drainDone /\ activeConns' = {}))
  /\ drainDone' = (drainDone /\ activeConns' # {})

UnchangedByConn == UNCHANGED <<mainVars, serveVars, stopping, listening, status, closeConnections>>

(* StateNew is not tracked; the socket is a new one. *)
Accept(c, l) ==
  /\ Alive
  /\ l \in listening
  /\ serve[l] = "serving"
  /\ state[c] = "none"
  /\ state' = [state EXCEPT ![c] = "new"]
  /\ shut' = shut \ {c}
  /\ UNCHANGED <<activeConns, idleConns, outstanding>>
  /\ CheckDrained
  /\ UnchangedByConn

RequestRead(c) ==
  /\ Alive
  /\ state[c] \in {"new", "idle"}
  /\ state' = [state EXCEPT ![c] = "active"]
  /\ TrackActive(c)
  /\ CheckDrained
  /\ UNCHANGED outstanding
  /\ UnchangedByConn

KeptAlive(c) ==
  /\ Alive
  /\ state[c] = "active"
  /\ state' = [state EXCEPT ![c] = "idle"]
  /\ TrackIdle(c)
  /\ CheckDrained
  /\ outstanding' = outstanding \ {c}
  /\ UnchangedByConn

Closed(c) ==
  /\ Alive
  /\ state[c] \in {"new", "active", "idle"}
  /\ state' = [state EXCEPT ![c] = "none"]
  /\ Untrack(c)
  /\ CheckDrained
  /\ outstanding' = outstanding \ {c}
  /\ UnchangedByConn

Hijacked(c) ==
  /\ Alive
  /\ state[c] = "active"
  /\ state' = [state EXCEPT ![c] = "hijacked"]
  /\ Untrack(c)
  /\ CheckDrained
  /\ outstanding' = outstanding \ {c}
  /\ UnchangedByConn

(* The handler closes a hijacked connection itself: nothing is reported. *)
HijackEnds(c) ==
  /\ Alive
  /\ state[c] = "hijacked"
  /\ state' = [state EXCEPT ![c] = "none"]
  /\ UNCHANGED <<activeConns, idleConns, shut, drainDone, drained, outstanding>>
  /\ UnchangedByConn

(* The process is gone. *)
Exited == main = "exited" /\ UNCHANGED vars

Run ==
  \/ serveHTTP \/ serveHTTPS \/ listenFails \/ RunFails \/ OnErr \/ OnSignal
  \/ setStopping \/ closeListeners \/ waitTls \/ waitHttp
  \/ Drain \/ DrainReturns \/ DrainTimesOut \/ StopCloses \/ StopComponent

Serving(l) == ServeReturns(l) \/ ServeLocks(l) \/ ServeReports(l) \/ ServeDone(l)

NetHttp(c) ==
  \/ \E l \in Listener : Accept(c, l)
  \/ RequestRead(c) \/ KeptAlive(c) \/ Closed(c) \/ Hijacked(c) \/ HijackEnds(c)

Next ==
  \/ Run
  \/ StatusReturns
  \/ \E l \in Listener : Serving(l)
  \/ \E c \in Conn : NetHttp(c)
  \/ Exited

Spec == Init /\ [][Next]_vars

(* What the shutdown itself needs: the goroutine of Run goes on, with the drain
   timer, once it has an error or a signal; so do the servers of the closed
   listeners.  No request has to finish, no listener has to fail. *)
StoppingRun ==
  \/ OnErr \/ setStopping \/ closeListeners \/ waitTls \/ waitHttp
  \/ Drain \/ DrainReturns \/ DrainTimesOut \/ StopCloses \/ StopComponent

Fairness ==
  /\ WF_vars(StoppingRun)
  /\ WF_vars(main = "stopComponent" /\ StatusReturns)
  /\ \A l \in Listener :
       /\ WF_vars(l \notin listening /\ ServeReturns(l))
       /\ WF_vars(ServeLocks(l) \/ ServeReports(l) \/ ServeDone(l))

LiveSpec == Spec /\ Fairness

-----------------------------------------------------------------------------
(* Properties. *)

(* HandleConnState keeps the two maps exact: a connection is in activeConns
   while net/http serves a request on it, in idleConns while it is kept alive,
   and in neither map before its first request and after its end. *)
ConnsTracked ==
  /\ activeConns = {c \in Conn : state[c] = "active"}
  /\ idleConns = {c \in Conn : state[c] = "idle"}

(* Once the router closes connections, it has closed every idle one, whether it
   was idle then or became idle since: none waits for another request. *)
NoIdleConnLeftOpen == closeConnections => idleConns \subseteq shut

(* While Drain waits, the wake-up has come or is still due: some connection is
   active, and its end will close the channel.  The channel is closed once. *)
NoLostWakeup ==
  /\ main = "draining" => drained \/ drainDone
  /\ drainDone => ~drained /\ activeConns # {}

(* When Drain returns without a timeout, every request that was being served
   when it began has been completed. *)
DrainCompletes == drainResult = "drained" => outstanding = {}

(* From the moment Drain or Stop looks at the connections, no listener accepts
   another one: both Serve loops have ended. *)
NoServeAfterStopListening ==
  main \in {"drain", "draining", "closeIdle", "stopComponent"} =>
    \A l \in Listener : serve[l] \in {"off", "done"}

(* Neither the goroutine of a listener, holding stopLock, nor Run, with a
   listener that failed, finds errChan full. *)
ErrChanNeverFull ==
  Alive =>
  /\ \A l \in Listener : serve[l] = "locked" /\ ~stopping => errChan < ErrBuffer
  /\ main = "listenFailed" => errChan < ErrBuffer

(* A listener that the router closes itself is not reported as an error. *)
NoErrorOnceStopping == [][stopping => errChan' <= errChan]_vars

(* An error of a listener or a signal stops the router: locks, channels and the
   connections that are still active never hold it up for good. *)
ShutdownCompletes ==
  (main \notin {"listen", "listenTls", "listenFailed", "select"} \/ (main = "select" /\ errChan > 0))
    ~> main = "exited"

(* When the router exits after a drain that did not time out, no request is
   being served. *)
DrainWaitsForLastRequest == main = "exited" /\ drainResult = "drained" => activeConns = {}

=============================================================================
