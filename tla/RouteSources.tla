----------------------------- MODULE RouteSources -----------------------------
(***************************************************************************)
(* The registry's two sources at once: the route fetcher, and the messages *)
(* that backends send over NATS (SubscribeRegister and SubscribeUnregister *)
(* of src/router/router.go).  Each subject has a subscription, and so a    *)
(* goroutine, of its own: a message is applied one uri at a time, and an   *)
(* unregistration may overtake the registration before it.  Neither source *)
(* knows what the other has registered.                                    *)
(***************************************************************************)
EXTENDS RouteFetcher

CONSTANT
  Offers          \* bounds: the routes that the API and the backends may hold together

ASSUME OffersAssumption == Offers \subseteq [api : SUBSET Route, bus : SUBSET Route]

Message == [endpoint : Endpoint, uris : SUBSET Uri]

VARIABLES
  offer,          \* the routes that may be held
  backend,        \* the uris that the backend at each endpoint announces
  registering,    \* what is left of the message that router.register handles
  unregistering   \* the same of router.unregister

messageVars == <<backend, registering, unregistering>>
sourceVars == <<fetcherVars, offer, messageVars>>

SourcesTypeOK ==
  /\ FetcherTypeOK
  /\ offer \in Offers
  /\ backend \in [Endpoint -> SUBSET Uri]
  /\ registering \in Message /\ unregistering \in Message

Idle(message) == message.uris = {}

InitSources ==
  /\ FetcherInit
  /\ offer \in Offers
  /\ api \subseteq offer.api
  /\ backend = [ep \in Endpoint |-> {}]
  /\ registering \in {m \in Message : Idle(m)}
  /\ unregistering = registering

-----------------------------------------------------------------------------
(* The backends.  A message takes its time, and may be lost: on its way, with
   the connection, or because it does not pass ValidateMessage.  Of those on
   their way on one subject, only the first is represented. *)

OfferedUris(ep) == {r.uri : r \in {o \in offer.bus : o.endpoint = ep}}

(* A route is mapped to the backend, or the backend starts. *)
BackendGains(ep, u) ==
  /\ u \in OfferedUris(ep)
  /\ backend' = [backend EXCEPT ![ep] = @ \cup {u}]
  /\ UNCHANGED <<fetcherVars, offer, registering, unregistering>>

(* The backend stops, or some of its routes are unmapped. *)
BackendLoses(ep, uris) ==
  /\ uris # {} /\ uris \subseteq backend[ep]
  /\ backend' = [backend EXCEPT ![ep] = @ \ uris]
  /\ unregistering' \in {unregistering}
                          \cup {m \in Message : Idle(unregistering) /\ m.endpoint = ep /\ m.uris = uris}
  /\ UNCHANGED <<fetcherVars, offer, registering>>

(* Backends announce themselves again and again. *)
BackendAnnounces(ep) ==
  /\ backend[ep] # {} /\ Idle(registering)
  /\ registering' = [endpoint |-> ep, uris |-> backend[ep]]
  /\ UNCHANGED <<fetcherVars, offer, backend, unregistering>>

-----------------------------------------------------------------------------
(* The handlers, one registry call per step. *)

(* Mutant of SubscribeRegister: the loop ends after the first uri. *)
SubscribeRegisterFirst(u) ==
  /\ u \in registering.uris
  /\ Registry!Register(u, registering.endpoint)
  /\ registering' = [registering EXCEPT !.uris = {}]
  /\ UNCHANGED <<api, eventVars, fetchVars, historyVars, offer, backend, unregistering>>

SubscribeRegister(u) ==
  /\ u \in registering.uris
  /\ Registry!Register(u, registering.endpoint)
  /\ registering' = [registering EXCEPT !.uris = @ \ {u}]
  /\ UNCHANGED <<api, eventVars, fetchVars, historyVars, offer, backend, unregistering>>

SubscribeUnregister(u) ==
  /\ u \in unregistering.uris
  /\ Registry!Unregister(u, unregistering.endpoint)
  /\ unregistering' = [unregistering EXCEPT !.uris = @ \ {u}]
  /\ UNCHANGED <<api, eventVars, fetchVars, historyVars, offer, backend, registering>>

Messages ==
  \/ \E ep \in Endpoint :
       \/ BackendAnnounces(ep)
       \/ \E u \in Uri : BackendGains(ep, u)
       \/ \E uris \in SUBSET Uri : BackendLoses(ep, uris)
  \/ \E u \in Uri : SubscribeRegister(u) \/ SubscribeUnregister(u)

FetcherStep ==
  /\ FetcherNext
  /\ api' \subseteq offer.api
  /\ UNCHANGED <<offer, messageVars>>

NextSources == Messages \/ FetcherStep

SourcesSpec == InitSources /\ [][NextSources]_sourceVars

(* The fetch ticker goes on firing and some fetch succeeds; events and messages
   that were delivered are handled; a backend's announcements are not all lost;
   the registry's ticker prunes and time passes.  The event stream may stay
   down for ever, and every unregistration may be lost. *)
SourcesLiveSpec ==
  /\ SourcesSpec
  /\ WF_sourceVars(Fetching /\ UNCHANGED <<offer, messageVars>>)
  /\ WF_sourceVars(HandleEvent /\ UNCHANGED <<offer, messageVars>>)
  /\ WF_sourceVars(Tick /\ UNCHANGED <<offer, messageVars>>)
  /\ \A u \in Uri : /\ WF_sourceVars(Prune(u) /\ UNCHANGED <<offer, messageVars>>)
                    /\ WF_sourceVars(SubscribeRegister(u)) /\ WF_sourceVars(SubscribeUnregister(u))
  /\ \A ep \in Endpoint : SF_sourceVars(BackendAnnounces(ep))

-----------------------------------------------------------------------------
(* Properties. *)

Backed(r) == r.uri \in backend[r.endpoint]

(* A route that the API and its backend drop for good leaves the registry for
   good, even if the event or the message that says so is lost, or overtaken by
   an older response or registration. *)
WithdrawnRoutesLeave ==
  \A r \in Route : <>[](r \notin api /\ ~Backed(r)) => <>[]~Registered(r)

(* A route that the API holds for good, or its backend announces for good, keeps
   coming back to the registry, even if the pruning, a late deletion or the other
   source takes it out. *)
HeldRoutesReturn ==
  \A r \in Route : (<>[](r \in api) \/ <>[]Backed(r)) => []<>Registered(r)
===============================================================================
