----------------------------- MODULE RouteFetcher -----------------------------
(***************************************************************************)
(* The route fetcher (src/route_fetcher/route_fetcher.go): it keeps the    *)
(* registry in step with the routing API, in two goroutines that do not    *)
(* synchronise.  One fetches the full list of routes again and again and   *)
(* applies it, one registry call per step; the other follows a stream of   *)
(* events, and subscribes anew when the stream breaks.                     *)
(*                                                                         *)
(* A route is what routeEquals compares: a uri and the address of an       *)
(* endpoint.  Of the registry only its promise (RouteTable) is used.       *)
(***************************************************************************)
EXTENDS Integers, Sequences

CONSTANTS
  Uri, Endpoint, StaleAfter, MaxThreshold, nil,   \* the registry's
  MaxEvents        \* bound: the stream never holds more events

Route == [uri : Uri, endpoint : Endpoint]

Action == {"Upsert", "Delete"}

ASSUME FetcherAssumption ==
  /\ MaxThreshold \in Nat
  /\ StaleAfter \in [Endpoint -> 0 .. MaxThreshold]
  /\ nil \notin Int

ASSUME StreamAssumption == MaxEvents \in Nat

VARIABLES
  routes,      \* the registry: uri -> endpoint -> age of the registration, or nil
  api,         \* the routes the routing API holds
  subscribed,  \* an event source is open
  stream,      \* the events it has not delivered yet
  pc,          \* the fetch goroutine: waiting, deleting, registering
  endpoints,   \* RouteFetcher.endpoints: the last response that was applied
  response,    \* validRoutes: the response being applied
  todo,        \* the registry calls its current loop still has to make
  steady,      \* history: in the API ever since the response in endpoints
  recent       \* history: in the API ever since the response being applied

fetchVars == <<pc, endpoints, response, todo>>
eventVars == <<subscribed, stream>>
historyVars == <<steady, recent>>
fetcherVars == <<routes, api, eventVars, fetchVars, historyVars>>

Registry == INSTANCE RouteTable

FetcherTypeOK ==
  /\ routes \in [Uri -> [Endpoint -> (0 .. MaxThreshold + 1) \cup {nil}]]
  /\ api \subseteq Route
  /\ subscribed \in BOOLEAN
  /\ stream \in Seq([action : Action, route : Route])
  /\ pc \in {"wait", "delete", "register"}
  /\ endpoints \subseteq Route
  /\ response \subseteq Route
  /\ todo \subseteq Route
  /\ steady \subseteq Route
  /\ recent \subseteq Route

(* NewRouteFetcher; the API may hold routes already. *)
FetcherInit ==
  /\ Registry!Init
  /\ api \in SUBSET Route
  /\ subscribed = FALSE
  /\ stream = <<>>
  /\ pc = "wait"
  /\ endpoints = {}
  /\ response = {}
  /\ todo = {}
  /\ steady = {}
  /\ recent = {}

-----------------------------------------------------------------------------
(* The routing API.  A change is announced to whoever is subscribed. *)

Announced(action, r) ==
  IF subscribed THEN Append(stream, [action |-> action, route |-> r]) ELSE stream

ApiUpsert(r) ==
  /\ Len(stream) < MaxEvents
  /\ api' = api \cup {r}
  /\ stream' = Announced("Upsert", r)
  /\ UNCHANGED <<routes, subscribed, fetchVars, historyVars>>

(* A deletion, or the end of the route's time to live. *)
ApiDelete(r) ==
  /\ Len(stream) < MaxEvents
  /\ r \in api
  /\ api' = api \ {r}
  /\ stream' = Announced("Delete", r)
  /\ steady' = steady \ {r}
  /\ recent' = recent \ {r}
  /\ UNCHANGED <<routes, subscribed, fetchVars>>

-----------------------------------------------------------------------------
(* The event goroutine: StartEventCycle, subscribeToEvents, HandleEvent.  An
   attempt that gets no token or no source changes nothing. *)

subscribeToEvents ==
  /\ ~subscribed
  /\ subscribed' = TRUE
  /\ UNCHANGED <<routes, api, stream, fetchVars, historyVars>>

(* Next reports an error: the source is closed with what it still held. *)
StreamBreaks ==
  /\ subscribed
  /\ subscribed' = FALSE
  /\ stream' = <<>>
  /\ UNCHANGED <<routes, api, fetchVars, historyVars>>

HandleEvent ==
  /\ stream # <<>>
  /\ LET e == Head(stream) IN
       \/ e.action = "Delete" /\ Registry!Unregister(e.route.uri, e.route.endpoint)
       \/ e.action = "Upsert" /\ Registry!Register(e.route.uri, e.route.endpoint)
  /\ stream' = Tail(stream)
  /\ UNCHANGED <<api, subscribed, fetchVars, historyVars>>

-----------------------------------------------------------------------------
(* The fetch goroutine: StartFetchCycle, FetchRoutes, refreshEndpoints.  A
   fetch that gets no token or no response changes nothing. *)

(* Mutant of FetchRoutes: everything that was known is deleted first. *)
FetchRoutesAnew ==
  /\ pc = "wait"
  /\ response' = api
  /\ todo' = endpoints
  /\ pc' = "delete"
  /\ recent' = api
  /\ UNCHANGED <<routes, api, eventVars, endpoints, steady>>

(* The API answers; deleteEndpoints finds what the last response had and this
   one has not. *)
FetchRoutes ==
  /\ pc = "wait"
  /\ response' = api
  /\ todo' = endpoints \ api
  /\ pc' = "delete"
  /\ recent' = api
  /\ UNCHANGED <<routes, api, eventVars, endpoints, steady>>

deleteEndpoints(r) ==
  /\ pc = "delete"
  /\ r \in todo
  /\ Registry!Unregister(r.uri, r.endpoint)
  /\ todo' = todo \ {r}
  /\ UNCHANGED <<api, eventVars, pc, endpoints, response, historyVars>>

(* Mutant of refreshEndpoints: the response is added to what was known. *)
refreshEndpointsAdds ==
  /\ pc = "delete"
  /\ todo = {}
  /\ endpoints' = endpoints \cup response
  /\ todo' = endpoints \cup response
  /\ steady' = recent
  /\ pc' = "register"
  /\ UNCHANGED <<routes, api, eventVars, response, recent>>

refreshEndpoints ==
  /\ pc = "delete"
  /\ todo = {}
  /\ endpoints' = response
  /\ todo' = response
  /\ steady' = recent
  /\ pc' = "register"
  /\ UNCHANGED <<routes, api, eventVars, response, recent>>

registerEndpoints(r) ==
  /\ pc = "register"
  /\ r \in todo
  /\ Registry!Register(r.uri, r.endpoint)
  /\ todo' = todo \ {r}
  /\ UNCHANGED <<api, eventVars, pc, endpoints, response, historyVars>>

FetchReturns ==
  /\ pc = "register"
  /\ todo = {}
  /\ pc' = "wait"
  /\ UNCHANGED <<routes, api, eventVars, endpoints, response, todo, historyVars>>

-----------------------------------------------------------------------------
(* The registry's pruning, and time. *)

Prune(u) == Registry!Expire(u) /\ UNCHANGED <<api, eventVars, fetchVars, historyVars>>

Tick == Registry!Tick /\ UNCHANGED <<api, eventVars, fetchVars, historyVars>>

Fetching ==
  \/ FetchRoutes
  \/ \E r \in Route : deleteEndpoints(r) \/ registerEndpoints(r)
  \/ refreshEndpoints
  \/ FetchReturns

FetcherNext ==
  \/ \E r \in Route : ApiUpsert(r) \/ ApiDelete(r)
  \/ subscribeToEvents \/ StreamBreaks \/ HandleEvent
  \/ Fetching
  \/ \E u \in Uri : Prune(u)
  \/ Tick

FetcherSpec == FetcherInit /\ [][FetcherNext]_fetcherVars

-----------------------------------------------------------------------------
(* Properties. *)

Registered(r) == routes[r.uri][r.endpoint] # nil

(* refreshEndpoints never withdraws a route that the API has held without a
   break since the last response that was applied, however events, changes of
   the API and the loop's own registry calls interleave. *)
FetchKeepsSteadyRoutes == [][\A r \in steady : ~deleteEndpoints(r)]_fetcherVars
===============================================================================
