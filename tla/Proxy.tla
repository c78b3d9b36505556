-------------------------------- MODULE Proxy --------------------------------
(***************************************************************************)
(* Request handling (src/proxy): ServeHTTP, the request handler that       *)
(* answers errors and serves upgraded connections, the response writer,    *)
(* and the two round trippers with their retries.                          *)
(*                                                                         *)
(* Each request is a process.  Requests draw their endpoints from one      *)
(* route's pool, which other goroutines change meanwhile; of the pool only *)
(* its promise (EndpointPool) is used.  A step ends where a request gives  *)
(* up control to the pool's lock or to the network.  What net/http and     *)
(* the network answer is a free choice.                                    *)
(***************************************************************************)
EXTENDS Naturals

CONSTANTS
  Request,              \* requests, one goroutine each
  Addr, Endpoint,       \* the pool's addresses and endpoint objects
  nil,
  AppStatus,            \* statuses a backend or a route service may answer
  none                  \* no X-Cf-RouterError header

Kind == {"unsupported", "heartbeat", "tcp", "websocket", "http"}

(* What a request's route service signature header is worth. *)
Signature == {"none", "valid", "invalid"}

RouterError == {"unknown_route", "endpoint_failure", "route_service_unsupported"}

maxRetries == 3

(* Status codes the router writes itself. *)
OwnStatus == {101, 200, 400, 404, 500, 502}

ASSUME EndpointAssumption ==
  /\ Endpoint \subseteq [addr : Addr, routeService : {"none", "service"}]
  /\ nil \notin Endpoint

ASSUME StatusAssumption == AppStatus \subseteq Nat \ {0}

ASSUME HeaderAssumption == none \notin RouterError

VARIABLES
  members,      \* the pool: the endpoint registered at each address, or nil
  handed,       \* the pool: what Next last returned to each request
  pc,           \* where each request's goroutine is
  kind,         \* what the request is
  signature,    \* its route service signature header
  routeServiceEnabled, \* configuration: a route service secret is set
  retry,        \* the retry counter of the loop it is in
  response,     \* what RoundTrip returned: a status, or 0 for an error
  status,       \* accessLog.StatusCode, 0 while unset
  writer,       \* the response writer: open, done (Done called), hijacked
  client,       \* the status line sent to the client, 0 if none yet
  routerError,  \* the X-Cf-RouterError header
  badGateways,  \* how often CaptureBadGateway was called for the request
  delivered,    \* how often the request got past dialling
  refused,      \* endpoints whose dial failed for the request
  blamed        \* endpoints it reported with EndpointFailed

poolVars == <<members, handed>>
givenVars == <<kind, signature, routeServiceEnabled>>
answerVars == <<status, writer, client, routerError, badGateways>>
historyVars == <<delivered, refused, blamed>>
vars == <<poolVars, pc, givenVars, retry, response, answerVars, historyVars>>

Pool == INSTANCE EndpointPool WITH Iterator <- Request

PC == {"idle", "choose", "select", "trip", "service", "copy",
       "dial", "tunnel", "log", "logged"}

TypeOK ==
  /\ members \in [Addr -> Endpoint \cup {nil}]
  /\ handed \in [Request -> SUBSET (Endpoint \cup {nil})]
  /\ pc \in [Request -> PC]
  /\ kind \in [Request -> Kind]
  /\ signature \in [Request -> Signature]
  /\ routeServiceEnabled \in BOOLEAN
  /\ retry \in [Request -> 0 .. maxRetries]
  /\ response \in [Request -> {0} \cup AppStatus]
  /\ status \in [Request -> {0} \cup OwnStatus \cup AppStatus]
  /\ writer \in [Request -> {"open", "done", "hijacked"}]
  /\ client \in [Request -> {0} \cup OwnStatus \cup AppStatus]
  /\ routerError \in [Request -> RouterError \cup {none}]
  /\ badGateways \in [Request -> Nat]
  /\ delivered \in [Request -> Nat]
  /\ refused \in [Request -> SUBSET Endpoint]
  /\ blamed \in [Request -> SUBSET Endpoint]

Init ==
  /\ Pool!Init
  /\ pc = [r \in Request |-> "idle"]
  /\ kind \in [Request -> Kind]
  /\ signature \in [Request -> Signature]
  /\ routeServiceEnabled \in BOOLEAN
  /\ retry = [r \in Request |-> 0]
  /\ response = [r \in Request |-> 0]
  /\ status = [r \in Request |-> 0]
  /\ writer = [r \in Request |-> "open"]
  /\ client = [r \in Request |-> 0]
  /\ routerError = [r \in Request |-> none]
  /\ badGateways = [r \in Request |-> 0]
  /\ delivered = [r \in Request |-> 0]
  /\ refused = [r \in Request |-> {}]
  /\ blamed = [r \in Request |-> {}]

Goto(r, label) == pc' = [pc EXCEPT ![r] = label]

-----------------------------------------------------------------------------
(* Answering (request_handler.go, responsewriter.go). *)

(* WriteHeader: dropped once Done was called or the connection was hijacked,
   and net/http sends only the first status line. *)
WriteHeader(r, code) ==
  client' = [client EXCEPT ![r] = IF writer[r] = "open" /\ @ = 0 THEN code ELSE @]

writeStatus(r, code) ==
  /\ status' = [status EXCEPT ![r] = code]
  /\ WriteHeader(r, code)

(* Done, called after the status was written. *)
Done(r) == writer' = [writer EXCEPT ![r] = IF @ = "open" THEN "done" ELSE @]

HandleBadGateway(r) ==
  /\ writeStatus(r, 502)
  /\ Done(r)
  /\ routerError' = [routerError EXCEPT ![r] = "endpoint_failure"]
  /\ badGateways' = [badGateways EXCEPT ![r] = @ + 1]

(* The connection of an HTTP/2 request cannot be hijacked. *)
HandleUnsupportedProtocol(r) ==
  /\ pc[r] = "idle"
  /\ kind[r] = "unsupported"
  /\ status' = [status EXCEPT ![r] = 400]
  /\ client' = [client EXCEPT ![r] = 400]
  /\ writer' \in {writer, [writer EXCEPT ![r] = "hijacked"]}
  /\ Goto(r, "log")
  /\ UNCHANGED <<poolVars, givenVars, retry, response, routerError,
                 badGateways, historyVars>>

HandleHeartbeat(r) ==
  /\ pc[r] = "idle"
  /\ kind[r] = "heartbeat"
  /\ writeStatus(r, 200)
  /\ Goto(r, "log")
  /\ UNCHANGED <<poolVars, givenVars, retry, response, writer, routerError,
                 badGateways, historyVars>>

(* The request names a route the registry does not know. *)
HandleMissingRoute(r) ==
  /\ pc[r] = "idle"
  /\ kind[r] \in {"tcp", "websocket", "http"}
  /\ writeStatus(r, 404)
  /\ routerError' = [routerError EXCEPT ![r] = "unknown_route"]
  /\ Goto(r, "log")
  /\ UNCHANGED <<poolVars, givenVars, retry, response, writer, badGateways,
                 historyVars>>

-----------------------------------------------------------------------------
(* ServeHTTP, once the registry has returned the pool. *)

(* HandleTcpRequest, HandleWebSocketRequest: take over the connection. *)
HandleUpgrade(r) ==
  /\ pc[r] = "idle"
  /\ kind[r] \in {"tcp", "websocket"}
  /\ status' = [status EXCEPT ![r] = 101]
  /\ writer' = [writer EXCEPT ![r] = "hijacked"]
  /\ Goto(r, "select")
  /\ UNCHANGED <<poolVars, givenVars, retry, response, client, routerError,
                 badGateways, historyVars>>

UpgradeNotHijacked(r) ==
  /\ pc[r] = "idle"
  /\ kind[r] \in {"tcp", "websocket"}
  /\ writeStatus(r, 400)
  /\ Goto(r, "log")
  /\ UNCHANGED <<poolVars, givenVars, retry, response, writer, routerError,
                 badGateways, historyVars>>

Lookup(r) ==
  /\ pc[r] = "idle"
  /\ kind[r] = "http"
  /\ Goto(r, "choose")
  /\ UNCHANGED <<poolVars, givenVars, retry, response, answerVars, historyVars>>

(* Pool.RouteServiceUrl: the url of whichever endpoint is first in the list,
   none when the pool is empty. *)
RouteServiceUrl ==
  IF \A a \in Addr : members[a] = nil THEN {"none"}
  ELSE {members[a].routeService : a \in {b \in Addr : members[b] # nil}}

(* No route service, or the request comes back from it: on to the backend. *)
ChooseBackend(r) ==
  /\ pc[r] = "choose"
  /\ \/ "none" \in RouteServiceUrl
     \/ "service" \in RouteServiceUrl /\ routeServiceEnabled /\ signature[r] = "valid"
  /\ Goto(r, "select")
  /\ UNCHANGED <<poolVars, givenVars, retry, response, answerVars, historyVars>>

ChooseRouteService(r) ==
  /\ pc[r] = "choose"
  /\ "service" \in RouteServiceUrl
  /\ routeServiceEnabled
  /\ signature[r] = "none"
  /\ Goto(r, "service")
  /\ UNCHANGED <<poolVars, givenVars, retry, response, answerVars, historyVars>>

(* The early returns: HandleUnsupportedRouteService, HandleBadSignature and
   HandleRouteServiceFailure (the signature or the url could not be built). *)
RefuseRouteService(r) ==
  /\ pc[r] = "choose"
  /\ "service" \in RouteServiceUrl
  /\ \/ /\ ~routeServiceEnabled
        /\ writeStatus(r, 502)
        /\ routerError' = [routerError EXCEPT ![r] = "route_service_unsupported"]
     \/ /\ routeServiceEnabled /\ signature[r] = "invalid"
        /\ writeStatus(r, 400)
        /\ UNCHANGED routerError
     \/ /\ routeServiceEnabled /\ signature[r] = "none"
        /\ writeStatus(r, 500)
        /\ UNCHANGED routerError
  /\ Done(r)
  /\ Goto(r, "log")
  /\ UNCHANGED <<poolVars, givenVars, retry, response, badGateways, historyVars>>

-----------------------------------------------------------------------------
(* Endpoint selection, common to the backend round tripper and to the loops
   of serveTcp and serveWebSocket. *)

NextEndpoint(r) ==
  /\ pc[r] = "select"
  /\ Pool!Hand(r)
  /\ handed'[r] # {nil}
  /\ Goto(r, IF kind[r] = "http" THEN "trip" ELSE "dial")
  /\ UNCHANGED <<givenVars, retry, response, answerVars, historyVars>>

(* Mutant of NoEndpointHttp: the after callback runs for this error too. *)
NoEndpointHttpAfter(r) ==
  /\ pc[r] = "select"
  /\ kind[r] = "http"
  /\ Pool!Hand(r)
  /\ handed'[r] = {nil}
  /\ writeStatus(r, 502)
  /\ Done(r)
  /\ routerError' = [routerError EXCEPT ![r] = "endpoint_failure"]
  /\ badGateways' = [badGateways EXCEPT ![r] = @ + 2]
  /\ response' = [response EXCEPT ![r] = 0]
  /\ Goto(r, "copy")
  /\ UNCHANGED <<givenVars, retry, historyVars>>

(* selectEndpoint on an empty pool; ReverseProxy goes on with the error. *)
NoEndpointHttp(r) ==
  /\ pc[r] = "select"
  /\ kind[r] = "http"
  /\ Pool!Hand(r)
  /\ handed'[r] = {nil}
  /\ HandleBadGateway(r)
  /\ response' = [response EXCEPT ![r] = 0]
  /\ Goto(r, "copy")
  /\ UNCHANGED <<givenVars, retry, historyVars>>

(* serveTcp, serveWebSocket on an empty pool: HandleBadGateway, then the
   error makes the caller write 400 on top of it. *)
NoEndpointUpgrade(r) ==
  /\ pc[r] = "select"
  /\ kind[r] \in {"tcp", "websocket"}
  /\ Pool!Hand(r)
  /\ handed'[r] = {nil}
  /\ routerError' = [routerError EXCEPT ![r] = "endpoint_failure"]
  /\ badGateways' = [badGateways EXCEPT ![r] = @ + 1]
  /\ status' = [status EXCEPT ![r] = 400]
  /\ Goto(r, "log")
  /\ UNCHANGED <<givenVars, retry, response, writer, client, historyVars>>

-----------------------------------------------------------------------------
(* What one attempt may come to, for both round trippers. *)

(* RoundTrip got a response; the after callback records its status. *)
Answered(r, code) ==
  /\ delivered' = [delivered EXCEPT ![r] = @ + 1]
  /\ status' = [status EXCEPT ![r] = code]
  /\ response' = [response EXCEPT ![r] = code]
  /\ Goto(r, "copy")
  /\ UNCHANGED <<retry, writer, client, routerError, badGateways, refused, blamed>>

(* Mutant of Broken: every error is retried. *)
BrokenRetries(r) ==
  /\ delivered' = [delivered EXCEPT ![r] = @ + 1]
  /\ retry' = [retry EXCEPT ![r] = @ + 1]
  /\ IF retry'[r] < maxRetries
       THEN Goto(r, pc[r]) /\ UNCHANGED <<response, answerVars>>
       ELSE /\ HandleBadGateway(r)
            /\ response' = [response EXCEPT ![r] = 0]
            /\ Goto(r, "copy")
  /\ UNCHANGED <<refused, blamed>>

(* Mutant of Broken: the endpoint is marked failed for every error. *)
BrokenBlames(r) ==
  /\ delivered' = [delivered EXCEPT ![r] = @ + 1]
  /\ HandleBadGateway(r)
  /\ response' = [response EXCEPT ![r] = 0]
  /\ Goto(r, "copy")
  /\ blamed' = [blamed EXCEPT ![r] = @ \cup handed[r]]
  /\ UNCHANGED <<retry, refused>>

(* RoundTrip failed after dialling: no retry, the after callback answers. *)
Broken(r) ==
  /\ delivered' = [delivered EXCEPT ![r] = @ + 1]
  /\ HandleBadGateway(r)
  /\ response' = [response EXCEPT ![r] = 0]
  /\ Goto(r, "copy")
  /\ UNCHANGED <<retry, refused, blamed>>

(* Mutant of Refused: one attempt too few. *)
RefusedTooSoon(r, again) ==
  /\ retry' = [retry EXCEPT ![r] = @ + 1]
  /\ IF retry'[r] < maxRetries - 1
       THEN Goto(r, again) /\ UNCHANGED <<response, answerVars>>
       ELSE /\ HandleBadGateway(r)
            /\ response' = [response EXCEPT ![r] = 0]
            /\ Goto(r, "copy")
  /\ UNCHANGED delivered

(* The dial failed: retry, or give up after the last attempt. *)
Refused(r, again) ==
  /\ retry' = [retry EXCEPT ![r] = @ + 1]
  /\ IF retry'[r] < maxRetries
       THEN Goto(r, again) /\ UNCHANGED <<response, answerVars>>
       ELSE /\ HandleBadGateway(r)
            /\ response' = [response EXCEPT ![r] = 0]
            /\ Goto(r, "copy")
  /\ UNCHANGED delivered

(* reportError: the iterator marks the endpoint it handed out last. *)
ReportError(r) ==
  /\ refused' = [refused EXCEPT ![r] = @ \cup handed[r]]
  /\ blamed' = [blamed EXCEPT ![r] = @ \cup handed[r]]

(* BackendRoundTripper.RoundTrip *)
TripAnswered(r) ==
  /\ pc[r] = "trip"
  /\ \E code \in AppStatus : Answered(r, code)
  /\ UNCHANGED <<poolVars, givenVars>>

TripBroken(r) ==
  /\ pc[r] = "trip"
  /\ Broken(r)
  /\ UNCHANGED <<poolVars, givenVars>>

TripRefused(r) ==
  /\ pc[r] = "trip"
  /\ Refused(r, "select")
  /\ ReportError(r)
  /\ UNCHANGED <<poolVars, givenVars>>

(* RouteServiceRoundTripper.RoundTrip: no endpoint is drawn or marked. *)
ServiceAnswered(r) ==
  /\ pc[r] = "service"
  /\ \E code \in AppStatus : Answered(r, code)
  /\ UNCHANGED <<poolVars, givenVars>>

ServiceBroken(r) ==
  /\ pc[r] = "service"
  /\ Broken(r)
  /\ UNCHANGED <<poolVars, givenVars>>

ServiceRefused(r) ==
  /\ pc[r] = "service"
  /\ Refused(r, "service")
  /\ UNCHANGED <<poolVars, givenVars, refused, blamed>>

(* ReverseProxy.ServeHTTP, after RoundTrip: it relays the response, or writes
   500 for an error. *)
ReverseProxy(r) ==
  /\ pc[r] = "copy"
  /\ WriteHeader(r, IF response[r] = 0 THEN 500 ELSE response[r])
  /\ Goto(r, "log")
  /\ UNCHANGED <<poolVars, givenVars, retry, response, status, writer,
                 routerError, badGateways, historyVars>>

-----------------------------------------------------------------------------
(* serveTcp and serveWebSocket, after an endpoint was drawn. *)

Dialled(r) ==
  /\ pc[r] = "dial"
  /\ delivered' = [delivered EXCEPT ![r] = @ + 1]
  /\ Goto(r, "tunnel")
  /\ UNCHANGED <<poolVars, givenVars, retry, response, answerVars, refused, blamed>>

(* serveWebSocket could not pass the request on. *)
WebSocketWriteFails(r) ==
  /\ pc[r] = "dial"
  /\ kind[r] = "websocket"
  /\ delivered' = [delivered EXCEPT ![r] = @ + 1]
  /\ writeStatus(r, 400)
  /\ Goto(r, "log")
  /\ UNCHANGED <<poolVars, givenVars, retry, response, writer, routerError,
                 badGateways, refused, blamed>>

DialRefused(r) ==
  /\ pc[r] = "dial"
  /\ ReportError(r)
  /\ retry' = [retry EXCEPT ![r] = @ + 1]
  /\ IF retry'[r] = maxRetries
       THEN writeStatus(r, 400) /\ Goto(r, "log")
       ELSE Goto(r, "select") /\ UNCHANGED <<status, client>>
  /\ UNCHANGED <<poolVars, givenVars, response, writer, routerError,
                 badGateways, delivered>>

(* forwardIO returns when either side is finished. *)
TunnelCloses(r) ==
  /\ pc[r] = "tunnel"
  /\ Goto(r, "log")
  /\ UNCHANGED <<poolVars, givenVars, retry, response, answerVars, historyVars>>

(* ServeHTTP's deferred function has handed the record to the access logger. *)
Log(r) ==
  /\ pc[r] = "log"
  /\ Goto(r, "logged")
  /\ UNCHANGED <<poolVars, givenVars, retry, response, answerVars, historyVars>>

-----------------------------------------------------------------------------

Answers(r) ==
  \/ HandleUnsupportedProtocol(r) \/ HandleHeartbeat(r) \/ HandleMissingRoute(r)
  \/ HandleUpgrade(r) \/ UpgradeNotHijacked(r)
  \/ Lookup(r) \/ ChooseBackend(r) \/ ChooseRouteService(r) \/ RefuseRouteService(r)

Attempts(r) ==
  \/ NextEndpoint(r) \/ NoEndpointHttp(r) \/ NoEndpointUpgrade(r)
  \/ TripAnswered(r) \/ TripBroken(r) \/ TripRefused(r)
  \/ ServiceAnswered(r) \/ ServiceBroken(r) \/ ServiceRefused(r)
  \/ ReverseProxy(r)
  \/ Dialled(r) \/ WebSocketWriteFails(r) \/ DialRefused(r)
  \/ Log(r)

PoolChanges ==
  /\ \/ \E ep \in Endpoint : Pool!Register(ep)
     \/ \E a \in Addr : Pool!Drop(a)
  /\ UNCHANGED <<pc, givenVars, retry, response, answerVars, historyVars>>

Next ==
  \/ \E r \in Request : Answers(r) \/ Attempts(r) \/ TunnelCloses(r)
  \/ PoolChanges

Spec == Init /\ [][Next]_vars

-----------------------------------------------------------------------------
(* Properties. *)

(* A request gets past dialling at most once: only dial errors are retried,
   so no backend, route service or tunnel sees a request that another one may
   have acted on already. *)
DeliveredOnce == \A r \in Request : delivered[r] <= 1

(* Requests report exactly the endpoints that refused them, so a pool never
   avoids an endpoint because of an error that followed a successful dial, or
   because of an endpoint handed to someone else. *)
OnlyRefusedBlamed == \A r \in Request : blamed[r] = refused[r]

(* The bad_gateways counter and the X-Cf-RouterError header agree: a request
   is counted once when the router itself gave up on its endpoints, and never
   when the application answered, with 502 or otherwise. *)
BadGatewayCounted ==
  \A r \in Request :
    /\ badGateways[r] = IF routerError[r] = "endpoint_failure" THEN 1 ELSE 0
    /\ pc[r] = "logged" /\ routerError[r] = "endpoint_failure" /\ kind[r] = "http"
         => client[r] = 502 /\ response[r] = 0

(* The router gives up on a request's endpoints only for a reason: the pool
   was empty when it was asked, every attempt was used up on refused dials, or
   the request got through and failed then. *)
GivesUpForReason ==
  [][\A r \in Request : badGateways'[r] > badGateways[r] =>
       \/ \A a \in Addr : members[a] = nil
       \/ retry'[r] = maxRetries
       \/ delivered'[r] > delivered[r]]_vars
=============================================================================
