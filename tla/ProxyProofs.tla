----------------------------- MODULE ProxyProofs -----------------------------
(***************************************************************************)
(* What every request can rely on, for any number of requests, addresses   *)
(* and endpoints.  The inductive invariant says, for each place a request's *)
(* goroutine can be in, how much of the answer has been given; beside the  *)
(* access logger, which of its records is on its way or written.           *)
(***************************************************************************)
EXTENDS AccessLogger, TLAPS

(* Nothing has been sent or counted for the request. *)
Unanswered(r) ==
  client[r] = 0 /\ routerError[r] = none /\ badGateways[r] = 0

Upgraded(r) == kind[r] \in {"tcp", "websocket"}

(* Before an attempt got past dialling. *)
InProgress(r) ==
  /\ pc[r] \in {"idle", "choose", "select", "trip", "service", "dial"} =>
       Unanswered(r) /\ delivered[r] = 0 /\ retry[r] < maxRetries
  /\ pc[r] \in {"idle", "choose", "trip", "service"} => writer[r] = "open"
  /\ pc[r] = "select" => writer[r] = IF kind[r] = "http" THEN "open" ELSE "hijacked"

Kinds(r) ==
  /\ pc[r] \in {"choose", "trip", "service", "copy"} => kind[r] = "http"
  /\ pc[r] = "select" => kind[r] = "http" \/ Upgraded(r)
  /\ pc[r] \in {"dial", "tunnel"} => Upgraded(r)

(* A request that is dialling holds the endpoint it dials. *)
Holding(r) == pc[r] \in {"trip", "dial"} => \E ep \in Endpoint : handed[r] = {ep}

Tunnelling(r) ==
  /\ pc[r] = "select" /\ Upgraded(r) => status[r] = 101
  /\ pc[r] \in {"dial", "tunnel"} => status[r] = 101 /\ writer[r] = "hijacked"
  /\ pc[r] = "tunnel" => Unanswered(r)

(* RoundTrip has returned: with an error, the answer has been given. *)
Copying(r) ==
  pc[r] = "copy" =>
    \/ /\ response[r] = 0
       /\ status[r] = 502 /\ client[r] = 502 /\ writer[r] = "done"
       /\ routerError[r] = "endpoint_failure" /\ badGateways[r] = 1
    \/ /\ response[r] # 0
       /\ status[r] = response[r] /\ writer[r] = "open" /\ Unanswered(r)

Counted(r) == badGateways[r] = IF routerError[r] = "endpoint_failure" THEN 1 ELSE 0

Final(r) ==
  pc[r] \in {"log", "logged"} =>
    /\ status[r] # 0
    /\ writer[r] # "hijacked" => client[r] = status[r]
    /\ writer[r] = "hijacked" => client[r] = 0 \/ client[r] = status[r]
    /\ routerError[r] = "endpoint_failure" /\ kind[r] = "http" =>
         client[r] = 502 /\ response[r] = 0

Blaming(r) == delivered[r] <= 1 /\ blamed[r] = refused[r]

RequestInv(r) ==
  /\ InProgress(r)
  /\ Kinds(r)
  /\ Holding(r)
  /\ Tunnelling(r)
  /\ Copying(r)
  /\ Counted(r)
  /\ Final(r)
  /\ Blaming(r)

Inv == TypeOK /\ \A r \in Request : RequestInv(r)

Step(r) == Answers(r) \/ Attempts(r) \/ TunnelCloses(r)

-----------------------------------------------------------------------------

Same(r) ==
  /\ pc'[r] = pc[r] /\ kind'[r] = kind[r] /\ handed'[r] = handed[r]
  /\ retry'[r] = retry[r] /\ response'[r] = response[r]
  /\ status'[r] = status[r] /\ writer'[r] = writer[r]
  /\ client'[r] = client[r] /\ routerError'[r] = routerError[r]
  /\ badGateways'[r] = badGateways[r] /\ delivered'[r] = delivered[r]
  /\ refused'[r] = refused[r] /\ blamed'[r] = blamed[r]

(* What HandleBadGateway leaves of a request. *)
GivenUp(r) ==
  /\ status'[r] = 502
  /\ client'[r] = IF writer[r] = "open" /\ client[r] = 0 THEN 502 ELSE client[r]
  /\ writer'[r] = IF writer[r] = "open" THEN "done" ELSE writer[r]
  /\ routerError'[r] = "endpoint_failure"
  /\ badGateways'[r] = badGateways[r] + 1

(* It answers this request and counts a bad gateway, ... *)
LEMMA GiveUp ==
  ASSUME TypeOK, NEW r \in Request, HandleBadGateway(r)
  PROVE  GivenUp(r)
BY DEF TypeOK, HandleBadGateway, writeStatus, WriteHeader, Done, GivenUp

(* ... leaves the others alone ... *)
LEMMA GiveUpAlone ==
  ASSUME TypeOK, NEW q \in Request, HandleBadGateway(q), NEW r \in Request, r # q
  PROVE  /\ status'[r] = status[r] /\ client'[r] = client[r] /\ writer'[r] = writer[r]
         /\ routerError'[r] = routerError[r] /\ badGateways'[r] = badGateways[r]
BY DEF TypeOK, HandleBadGateway, writeStatus, WriteHeader, Done

(* ... and keeps the types. *)
LEMMA GiveUpTypes ==
  ASSUME TypeOK, NEW r \in Request, HandleBadGateway(r)
  PROVE  /\ status' \in [Request -> {0} \cup OwnStatus \cup AppStatus]
         /\ writer' \in [Request -> {"open", "done", "hijacked"}]
         /\ client' \in [Request -> {0} \cup OwnStatus \cup AppStatus]
         /\ routerError' \in [Request -> RouterError \cup {none}]
         /\ badGateways' \in [Request -> Nat]
BY DEF TypeOK, HandleBadGateway, writeStatus, WriteHeader, Done, OwnStatus, RouterError

(* A request's step leaves every other request's state alone, ... *)
LEMMA OthersAlone ==
  ASSUME TypeOK, NEW q \in Request, Step(q), NEW r \in Request, r # q
  PROVE  Same(r)
<1>1. CASE Answers(q)
  BY <1>1, SMTT(30) DEF Answers, HandleUnsupportedProtocol, HandleHeartbeat, HandleMissingRoute,
     HandleUpgrade, UpgradeNotHijacked, Lookup, ChooseBackend, ChooseRouteService,
     RefuseRouteService, writeStatus, WriteHeader, Done, Goto, TypeOK, poolVars,
     answerVars, givenVars, historyVars, Same
<1>2. CASE Attempts(q)
  <2>1. CASE /\ NoEndpointHttp(q) \/ TripBroken(q) \/ TripRefused(q) \/ ServiceBroken(q)
                \/ ServiceRefused(q)
             /\ HandleBadGateway(q)
    BY <2>1, GiveUpAlone DEF NoEndpointHttp, TripBroken, TripRefused, ServiceBroken,
       ServiceRefused, Broken, Refused, ReportError, Pool!Hand, Goto, TypeOK, poolVars, givenVars,
       historyVars, Same
  <2>2. CASE NextEndpoint(q) \/ NoEndpointUpgrade(q) \/ TripAnswered(q) \/ ServiceAnswered(q)
    BY <2>2 DEF NextEndpoint, NoEndpointUpgrade, TripAnswered, ServiceAnswered, Answered,
       Pool!Hand, Goto, TypeOK, poolVars, answerVars, givenVars, historyVars, Same
  <2>3. CASE ReverseProxy(q) \/ Dialled(q) \/ WebSocketWriteFails(q) \/ Log(q)
    BY <2>3 DEF ReverseProxy, Dialled, WebSocketWriteFails, Log, writeStatus, WriteHeader,
       Goto, TypeOK, poolVars, answerVars, givenVars, historyVars, Same
  <2>4. CASE DialRefused(q)
    BY <2>4 DEF DialRefused, ReportError, writeStatus, WriteHeader, Goto, TypeOK, poolVars,
       answerVars, givenVars, historyVars, Same
  <2>5. CASE /\ TripRefused(q) \/ ServiceRefused(q)
             /\ ~HandleBadGateway(q)
    BY <2>5 DEF TripRefused, ServiceRefused, Refused, ReportError, Goto, TypeOK, poolVars,
       answerVars, givenVars, historyVars, Same
  <2>6. NoEndpointHttp(q) \/ TripBroken(q) \/ ServiceBroken(q) => HandleBadGateway(q)
    BY Zenon DEF NoEndpointHttp, TripBroken, ServiceBroken, Broken
  <2> QED BY <1>2, <2>1, <2>2, <2>3, <2>4, <2>5, <2>6, Zenon DEF Attempts
<1>3. CASE TunnelCloses(q)
  BY <1>3, ZenonT(30) DEF TunnelCloses, Goto, TypeOK, poolVars, answerVars, givenVars, historyVars, Same
<1> QED BY <1>1, <1>2, <1>3, Zenon DEF Step

(* ... and so its invariant. *)
LEMMA Locality ==
  ASSUME TypeOK, NEW q \in Request, Step(q), NEW r \in Request, r # q, RequestInv(r)
  PROVE  RequestInv(r)'
<1>1. Same(r)
  BY OthersAlone, Zenon
<1> QED BY <1>1 DEF Same, RequestInv, InProgress, Kinds, Holding, Tunnelling, Copying,
     Counted, Final, Blaming, Unanswered, Upgraded

(* Each step before the first attempt keeps the types and the invariant of the
   request that takes it. *)
LEMMA AnswersStep ==
  ASSUME Inv, NEW q \in Request, Answers(q)
  PROVE  TypeOK' /\ RequestInv(q)'
<1> USE EndpointAssumption, StatusAssumption, HeaderAssumption
    DEF Goto, poolVars, answerVars, givenVars, historyVars, maxRetries
<1>0. TypeOK /\ RequestInv(q)
  BY Zenon DEF Inv
<1>1. CASE HandleUnsupportedProtocol(q)
  <2>1. TypeOK'
    BY <1>0, <1>1 DEF HandleUnsupportedProtocol, TypeOK, OwnStatus,
       RouterError, PC, RequestInv, Holding
  <2>2. RequestInv(q)'
    BY <1>0, <1>1 DEF HandleUnsupportedProtocol, TypeOK, RequestInv,
       InProgress, Kinds, Holding, Tunnelling, Copying, Counted, Final,
       Blaming, Unanswered, Upgraded
  <2> QED BY <2>1, <2>2, Zenon
<1>2. CASE HandleHeartbeat(q)
  <2>1. TypeOK'
    BY <1>0, <1>2 DEF HandleHeartbeat, writeStatus, WriteHeader, TypeOK,
       OwnStatus, RouterError, PC, RequestInv, Holding
  <2>2. RequestInv(q)'
    BY <1>0, <1>2 DEF HandleHeartbeat, writeStatus, WriteHeader, TypeOK,
       RequestInv, InProgress, Kinds, Holding, Tunnelling, Copying, Counted,
       Final, Blaming, Unanswered, Upgraded
  <2> QED BY <2>1, <2>2, Zenon
<1>3. CASE HandleMissingRoute(q)
  <2>1. TypeOK'
    BY <1>0, <1>3 DEF HandleMissingRoute, writeStatus, WriteHeader, TypeOK,
       OwnStatus, RouterError, PC, RequestInv, Holding
  <2>2. RequestInv(q)'
    BY <1>0, <1>3 DEF HandleMissingRoute, writeStatus, WriteHeader, TypeOK,
       RequestInv, InProgress, Kinds, Holding, Tunnelling, Copying, Counted,
       Final, Blaming, Unanswered, Upgraded
  <2> QED BY <2>1, <2>2, Zenon
<1>4. CASE HandleUpgrade(q)
  <2>1. TypeOK'
    BY <1>0, <1>4 DEF HandleUpgrade, TypeOK, OwnStatus, RouterError, PC,
       RequestInv, Holding
  <2>2. RequestInv(q)'
    BY <1>0, <1>4 DEF HandleUpgrade, TypeOK, RequestInv, InProgress, Kinds,
       Holding, Tunnelling, Copying, Counted, Final, Blaming, Unanswered,
       Upgraded
  <2> QED BY <2>1, <2>2, Zenon
<1>5. CASE UpgradeNotHijacked(q)
  <2>1. TypeOK'
    BY <1>0, <1>5 DEF UpgradeNotHijacked, writeStatus, WriteHeader, TypeOK,
       OwnStatus, RouterError, PC, RequestInv, Holding
  <2>2. RequestInv(q)'
    BY <1>0, <1>5 DEF UpgradeNotHijacked, writeStatus, WriteHeader, TypeOK,
       RequestInv, InProgress, Kinds, Holding, Tunnelling, Copying, Counted,
       Final, Blaming, Unanswered, Upgraded
  <2> QED BY <2>1, <2>2, Zenon
<1>6. CASE Lookup(q)
  <2>1. TypeOK'
    BY <1>0, <1>6 DEF Lookup, TypeOK, OwnStatus, RouterError, PC, RequestInv,
       Holding
  <2>2. RequestInv(q)'
    BY <1>0, <1>6 DEF Lookup, TypeOK, RequestInv, InProgress, Kinds, Holding,
       Tunnelling, Copying, Counted, Final, Blaming, Unanswered, Upgraded
  <2> QED BY <2>1, <2>2, Zenon
<1>7. CASE ChooseBackend(q)
  <2>1. TypeOK'
    BY <1>0, <1>7 DEF ChooseBackend, TypeOK, OwnStatus, RouterError, PC,
       RequestInv, Holding
  <2>2. RequestInv(q)'
    BY <1>0, <1>7 DEF ChooseBackend, TypeOK, RequestInv, InProgress, Kinds,
       Holding, Tunnelling, Copying, Counted, Final, Blaming, Unanswered,
       Upgraded
  <2> QED BY <2>1, <2>2, Zenon
<1>8. CASE ChooseRouteService(q)
  <2>1. TypeOK'
    BY <1>0, <1>8 DEF ChooseRouteService, TypeOK, OwnStatus, RouterError, PC,
       RequestInv, Holding
  <2>2. RequestInv(q)'
    BY <1>0, <1>8, Zenon DEF ChooseRouteService, TypeOK, RequestInv, InProgress,
       Kinds, Holding, Tunnelling, Copying, Counted, Final, Blaming,
       Unanswered, Upgraded
  <2> QED BY <2>1, <2>2, Zenon
<1>9. CASE RefuseRouteService(q)
  <2>1. TypeOK'
    BY <1>0, <1>9 DEF RefuseRouteService, writeStatus, WriteHeader, Done,
       TypeOK, OwnStatus, RouterError, PC, RequestInv, Holding
  <2>2. RequestInv(q)'
    BY <1>0, <1>9 DEF RefuseRouteService, writeStatus, WriteHeader, Done,
       TypeOK, RequestInv, InProgress, Kinds, Holding, Tunnelling, Copying,
       Counted, Final, Blaming, Unanswered, Upgraded
  <2> QED BY <2>1, <2>2, Zenon
<1> QED BY <1>1, <1>2, <1>3, <1>4, <1>5, <1>6, <1>7, <1>8, <1>9, Zenon DEF Answers

(* So does each step of an attempt, and each step that ends the request. *)
LEMMA AttemptsStep ==
  ASSUME Inv, NEW q \in Request, Attempts(q)
  PROVE  TypeOK' /\ RequestInv(q)'
<1> USE EndpointAssumption, StatusAssumption, HeaderAssumption
    DEF Goto, poolVars, answerVars, givenVars, historyVars, maxRetries
<1>0. TypeOK /\ RequestInv(q)
  BY Zenon DEF Inv
<1>1. CASE NextEndpoint(q)
  <2>1. TypeOK'
    BY <1>0, <1>1 DEF NextEndpoint, Pool!Hand, TypeOK, OwnStatus,
       RouterError, PC, RequestInv, Holding
  <2>2. RequestInv(q)'
    BY <1>0, <1>1 DEF NextEndpoint, Pool!Hand, TypeOK, RequestInv,
       InProgress, Kinds, Holding, Tunnelling, Copying, Counted, Final,
       Blaming, Unanswered, Upgraded
  <2> QED BY <2>1, <2>2, Zenon
<1>2. CASE NoEndpointHttp(q)
  <2>1. TypeOK'
    BY <1>0, <1>2, GiveUpTypes, Zenon DEF NoEndpointHttp, Pool!Hand, TypeOK, PC
  <2>2. RequestInv(q)'
    <3>1. GivenUp(q)
      BY <1>0, <1>2, GiveUp, Zenon DEF NoEndpointHttp
    <3> QED BY <1>0, <1>2, <3>1, SMTT(30) DEF NoEndpointHttp, Pool!Hand, GivenUp, TypeOK, RequestInv,
              InProgress, Kinds, Holding, Tunnelling, Copying, Counted, Final, Blaming,
              Unanswered, Upgraded
  <2> QED BY <2>1, <2>2, Zenon
<1>3. CASE NoEndpointUpgrade(q)
  <2>1. TypeOK'
    BY <1>0, <1>3 DEF NoEndpointUpgrade, Pool!Hand, TypeOK, OwnStatus,
       RouterError, PC, RequestInv, Holding
  <2>2. RequestInv(q)'
    BY <1>0, <1>3, SMTT(30) DEF NoEndpointUpgrade, Pool!Hand, TypeOK, RequestInv,
       InProgress, Kinds, Holding, Tunnelling, Copying, Counted, Final,
       Blaming, Unanswered, Upgraded
  <2> QED BY <2>1, <2>2, Zenon
<1>4. CASE TripAnswered(q)
  <2>1. TypeOK'
    BY <1>0, <1>4 DEF TripAnswered, Answered, TypeOK, OwnStatus, RouterError,
       PC, RequestInv, Holding
  <2>2. RequestInv(q)'
    BY <1>0, <1>4 DEF TripAnswered, Answered, TypeOK, RequestInv, InProgress,
       Kinds, Holding, Tunnelling, Copying, Counted, Final, Blaming,
       Unanswered, Upgraded
  <2> QED BY <2>1, <2>2, Zenon
<1>5. CASE TripBroken(q)
  <2>1. TypeOK'
    BY <1>0, <1>5, GiveUpTypes DEF TripBroken, Broken, TypeOK, PC
  <2>2. RequestInv(q)'
    <3>1. GivenUp(q)
      BY <1>0, <1>5, GiveUp, Zenon DEF TripBroken, Broken
    <3> QED BY <1>0, <1>5, <3>1, SMTT(30) DEF TripBroken, Broken, GivenUp, TypeOK, RequestInv,
              InProgress, Kinds, Holding, Tunnelling, Copying, Counted, Final, Blaming,
              Unanswered, Upgraded
  <2> QED BY <2>1, <2>2, Zenon
<1>6. CASE TripRefused(q)
  <2>0. /\ retry[q] + 1 \in 0 .. maxRetries
        /\ retry' = [retry EXCEPT ![q] = @ + 1]
    BY <1>0, <1>6 DEF TripRefused, Refused, TypeOK, RequestInv, InProgress
  <2>1. TypeOK'
    <3>1. retry' \in [Request -> 0 .. maxRetries]
      BY <2>0, <1>0, Zenon DEF TypeOK
    <3>0. /\ refused' \in [Request -> SUBSET Endpoint]
          /\ blamed' \in [Request -> SUBSET Endpoint]
      BY <1>0, <1>6, Zenon DEF TripRefused, ReportError, TypeOK, RequestInv, Holding
    <3>2. CASE retry'[q] < maxRetries
      BY <1>0, <1>6, <3>0, <3>1, <3>2, Zenon DEF TripRefused, Refused, TypeOK, PC
    <3>3. CASE ~(retry'[q] < maxRetries)
      <4>1. HandleBadGateway(q)
        BY <1>6, <3>3, Zenon DEF TripRefused, Refused
      <4> QED
        BY <1>0, <1>6, <3>0, <3>1, <3>3, <4>1, GiveUpTypes DEF TripRefused, Refused, TypeOK, PC
    <3> QED BY <3>2, <3>3, Zenon
  <2>2. RequestInv(q)'
    <3>1. CASE HandleBadGateway(q)
      <4>1. GivenUp(q)
        BY <1>0, <3>1, GiveUp, Zenon
      <4> QED BY <1>0, <1>6, <4>1, SMTT(30) DEF TripRefused, Refused, ReportError, GivenUp, TypeOK,
                RequestInv, InProgress, Kinds, Holding, Tunnelling, Copying, Counted, Final,
                Blaming, Unanswered, Upgraded
    <3>2. CASE ~HandleBadGateway(q)
      BY <1>0, <1>6, <3>2, SMTT(30) DEF TripRefused, Refused, ReportError, TypeOK, RequestInv,
         InProgress, Kinds, Holding, Tunnelling, Copying, Counted, Final, Blaming,
         Unanswered, Upgraded
    <3> QED BY <3>1, <3>2, Zenon
  <2> QED BY <2>1, <2>2, Zenon
<1>7. CASE ServiceAnswered(q)
  <2>1. TypeOK'
    BY <1>0, <1>7 DEF ServiceAnswered, Answered, TypeOK, OwnStatus,
       RouterError, PC, RequestInv, Holding
  <2>2. RequestInv(q)'
    BY <1>0, <1>7, SMTT(30) DEF ServiceAnswered, Answered, TypeOK, RequestInv,
       InProgress, Kinds, Holding, Tunnelling, Copying, Counted, Final,
       Blaming, Unanswered, Upgraded
  <2> QED BY <2>1, <2>2, Zenon
<1>8. CASE ServiceBroken(q)
  <2>1. TypeOK'
    BY <1>0, <1>8, GiveUpTypes DEF ServiceBroken, Broken, TypeOK, PC
  <2>2. RequestInv(q)'
    <3>1. /\ pc[q] = "service" /\ pc'[q] = "copy" /\ response'[q] = 0
          /\ delivered'[q] = delivered[q] + 1 /\ HandleBadGateway(q)
          /\ UNCHANGED <<kind, handed, retry, refused, blamed>>
      BY <1>0, <1>8, Zenon DEF ServiceBroken, Broken, TypeOK
    <3>2. GivenUp(q)
      BY <1>0, <3>1, GiveUp, Zenon
    <3> QED BY <1>0, <3>1, <3>2 DEF GivenUp, RequestInv, InProgress, Kinds, Holding, Tunnelling,
              Copying, Counted, Final, Blaming, Unanswered, Upgraded
  <2> QED BY <2>1, <2>2, Zenon
<1>9. CASE ServiceRefused(q)
  <2>0. /\ retry[q] + 1 \in 0 .. maxRetries
        /\ retry' = [retry EXCEPT ![q] = @ + 1]
    BY <1>0, <1>9 DEF ServiceRefused, Refused, TypeOK, RequestInv, InProgress
  <2>1. TypeOK'
    <3>1. retry' \in [Request -> 0 .. maxRetries]
      BY <2>0, <1>0, Zenon DEF TypeOK
    <3>2. CASE retry'[q] < maxRetries
      BY <1>0, <1>9, <3>1, <3>2 DEF ServiceRefused, Refused, TypeOK,
         OwnStatus, RouterError, PC, RequestInv, Holding
    <3>3. CASE ~(retry'[q] < maxRetries)
      <4>1. HandleBadGateway(q)
        BY <1>9, <3>3, Zenon DEF ServiceRefused, Refused
      <4> QED BY <1>0, <1>9, <3>1, <3>3, <4>1, GiveUpTypes DEF ServiceRefused, Refused, TypeOK, PC
    <3> QED BY <3>2, <3>3, Zenon
  <2>2. RequestInv(q)'
    <3>0. /\ pc[q] = "service" /\ retry'[q] = retry[q] + 1 /\ delivered' = delivered
          /\ UNCHANGED <<kind, handed, refused, blamed>>
      BY <1>0, <1>9, <2>0, Zenon DEF ServiceRefused, Refused, TypeOK
    <3>1. CASE retry'[q] < maxRetries
      <4>1. pc'[q] = "service" /\ UNCHANGED <<response, status, writer, client, routerError, badGateways>>
        BY <1>0, <1>9, <3>1, Zenon DEF ServiceRefused, Refused, TypeOK
      <4> QED BY <1>0, <3>0, <3>1, <4>1, Zenon DEF RequestInv, InProgress, Kinds, Holding, Tunnelling,
                Copying, Counted, Final, Blaming, Unanswered, Upgraded
    <3>2. CASE ~(retry'[q] < maxRetries)
      <4>1. pc'[q] = "copy" /\ response'[q] = 0 /\ HandleBadGateway(q)
        BY <1>0, <1>9, <3>2, SMTT(30) DEF ServiceRefused, Refused, TypeOK
      <4>2. GivenUp(q)
        BY <1>0, <4>1, GiveUp, Zenon
      <4> QED BY <1>0, <3>0, <4>1, <4>2 DEF GivenUp, RequestInv, InProgress, Kinds, Holding,
                Tunnelling, Copying, Counted, Final, Blaming, Unanswered, Upgraded
    <3> QED BY <3>1, <3>2, Zenon
  <2> QED BY <2>1, <2>2, Zenon
<1>10. CASE ReverseProxy(q)
  <2>1. TypeOK'
    BY <1>0, <1>10, SMTT(30) DEF ReverseProxy, WriteHeader, TypeOK, OwnStatus,
       RouterError, PC, RequestInv, Holding
  <2>2. RequestInv(q)'
    <3>1. /\ pc[q] = "copy" /\ pc'[q] = "log"
          /\ UNCHANGED <<kind, handed, retry, response, status, writer, routerError, badGateways, historyVars>>
      BY <1>0, <1>10, Zenon DEF ReverseProxy, TypeOK
    <3>2. client'[q] = IF writer[q] = "open" /\ client[q] = 0
                         THEN (IF response[q] = 0 THEN 500 ELSE response[q]) ELSE client[q]
      BY <1>0, <1>10, Zenon DEF ReverseProxy, WriteHeader, TypeOK
    <3> QED BY <1>0, <3>1, <3>2, SMTT(30) DEF RequestInv, InProgress, Kinds, Holding, Tunnelling,
              Copying, Counted, Final, Blaming, Unanswered, Upgraded
  <2> QED BY <2>1, <2>2, Zenon
<1>11. CASE Dialled(q)
  <2>1. TypeOK'
    BY <1>0, <1>11 DEF Dialled, TypeOK, OwnStatus, RouterError, PC,
       RequestInv, Holding
  <2>2. RequestInv(q)'
    <3>1. /\ pc[q] = "dial" /\ pc'[q] = "tunnel" /\ delivered'[q] = delivered[q] + 1
          /\ UNCHANGED <<kind, handed, retry, response, answerVars, refused, blamed>>
      BY <1>0, <1>11, Zenon DEF Dialled, TypeOK
    <3> QED BY <1>0, <3>1 DEF RequestInv, InProgress, Kinds, Holding, Tunnelling, Copying, Counted,
              Final, Blaming, Unanswered, Upgraded
  <2> QED BY <2>1, <2>2, Zenon
<1>12. CASE WebSocketWriteFails(q)
  <2>1. TypeOK'
    BY <1>0, <1>12 DEF WebSocketWriteFails, writeStatus, WriteHeader, TypeOK,
       OwnStatus, RouterError, PC, RequestInv, Holding
  <2>2. RequestInv(q)'
    <3>1. /\ pc[q] = "dial" /\ pc'[q] = "log" /\ delivered'[q] = delivered[q] + 1
          /\ UNCHANGED <<kind, handed, retry, response, writer, routerError, badGateways, refused, blamed>>
      BY <1>0, <1>12, Zenon DEF WebSocketWriteFails, TypeOK
    <3>2. status'[q] = 400 /\ client'[q] = IF writer[q] = "open" /\ client[q] = 0 THEN 400 ELSE client[q]
      BY <1>0, <1>12 DEF WebSocketWriteFails, writeStatus, WriteHeader, TypeOK
    <3> QED BY <1>0, <3>1, <3>2 DEF RequestInv, InProgress, Kinds, Holding, Tunnelling, Copying,
              Counted, Final, Blaming, Unanswered, Upgraded
  <2> QED BY <2>1, <2>2, Zenon
<1>13. CASE DialRefused(q)
  <2>1. TypeOK'
    BY <1>0, <1>13, SMTT(30) DEF DialRefused, ReportError, writeStatus, WriteHeader,
       TypeOK, OwnStatus, RouterError, PC, RequestInv, Holding, InProgress
  <2>2. RequestInv(q)'
    <3>1. /\ pc[q] = "dial" /\ retry'[q] = retry[q] + 1
          /\ refused'[q] = refused[q] \cup handed[q] /\ blamed'[q] = blamed[q] \cup handed[q]
          /\ UNCHANGED <<kind, handed, response, writer, routerError, badGateways, delivered>>
      BY <1>0, <1>13 DEF DialRefused, ReportError, TypeOK
    <3>2. \/ pc'[q] = "log" /\ status'[q] = 400 /\ client'[q] \in {client[q], 400}
             /\ (client'[q] = 400 => writer[q] = "open")
          \/ pc'[q] = "select" /\ retry'[q] # maxRetries /\ UNCHANGED <<status, client>>
      BY <1>0, <1>13 DEF DialRefused, writeStatus, WriteHeader, TypeOK, RequestInv, InProgress,
         Unanswered
    <3>3. retry[q] < maxRetries /\ retry[q] \in Nat /\ maxRetries \in Nat
      BY <1>0, <3>1 DEF RequestInv, InProgress, TypeOK, maxRetries
    <3> QED BY <1>0, <3>1, <3>2, <3>3 DEF RequestInv, InProgress, Kinds, Holding, Tunnelling, Copying,
              Counted, Final, Blaming, Unanswered, Upgraded
  <2> QED BY <2>1, <2>2, Zenon
<1>14. CASE Log(q)
  <2>1. TypeOK'
    BY <1>0, <1>14, SMTT(30) DEF Log, TypeOK, OwnStatus, RouterError, PC, RequestInv,
       Holding
  <2>2. RequestInv(q)'
    <3>1. /\ pc[q] = "log" /\ pc'[q] = "logged"
          /\ UNCHANGED <<kind, handed, retry, response, answerVars, historyVars>>
      BY <1>0, <1>14, Zenon DEF Log, TypeOK
    <3> QED BY <1>0, <3>1 DEF RequestInv, InProgress, Kinds, Holding, Tunnelling, Copying, Counted,
              Final, Blaming, Unanswered, Upgraded
  <2> QED BY <2>1, <2>2, Zenon
<1> QED BY Zenon, <1>1, <1>2, <1>3, <1>4, <1>5, <1>6, <1>7, <1>8, <1>9, <1>10,
           <1>11, <1>12, <1>13, <1>14 DEF Attempts

(* The invariant is inductive. *)
LEMMA InvInductive ==
  ASSUME Inv, [Next]_vars
  PROVE  Inv'
<1> USE DEF poolVars, answerVars, givenVars, historyVars
<1>1. ASSUME NEW q \in Request, Step(q)
      PROVE  Inv'
  <2>1. TypeOK' /\ RequestInv(q)'
    <3>1. CASE Answers(q)
      BY <1>1, <3>1, AnswersStep, Zenon
    <3>2. CASE Attempts(q)
      BY <1>1, <3>2, AttemptsStep, Zenon
    <3>3. CASE TunnelCloses(q)
      BY <1>1, <3>3 DEF Inv, TunnelCloses, Goto, TypeOK, PC, RequestInv, InProgress,
         Kinds, Holding, Tunnelling, Copying, Counted, Final, Blaming, Unanswered,
         Upgraded
    <3> QED BY <1>1, <3>1, <3>2, <3>3, Zenon DEF Step
  <2>2. ASSUME NEW r \in Request, r # q
        PROVE  RequestInv(r)'
    BY <1>1, <2>2, Locality, Zenon DEF Inv
  <2> QED BY <2>1, <2>2, Zenon DEF Inv
<1>2. CASE PoolChanges
  <2>1. TypeOK'
    BY <1>2, EndpointAssumption DEF Inv, TypeOK, PoolChanges, Pool!Register, Pool!Drop
  <2>2. ASSUME NEW r \in Request
        PROVE  RequestInv(r)'
    BY <1>2, <2>2 DEF Inv, PoolChanges, Pool!Register, Pool!Drop, RequestInv,
       InProgress, Kinds, Holding, Tunnelling, Copying, Counted, Final, Blaming,
       Unanswered, Upgraded
  <2> QED BY <2>1, <2>2, Zenon DEF Inv
<1>3. CASE UNCHANGED vars
  BY <1>3 DEF vars, Inv, TypeOK, RequestInv, InProgress, Kinds, Holding, Tunnelling,
     Copying, Counted, Final, Blaming, Unanswered, Upgraded
<1> QED BY <1>1, <1>2, <1>3, Zenon DEF Next, Step

(* Requests start fresh, on an empty pool. *)
LEMMA InvInitially == Init => Inv
<1> SUFFICES ASSUME Init
             PROVE  Inv
  BY Zenon
<1>1. TypeOK
  BY DEF Init, Pool!Init, TypeOK, PC, maxRetries
<1>2. ASSUME NEW r \in Request
      PROVE  RequestInv(r)
  BY <1>2, HeaderAssumption
  DEF Init, maxRetries, RouterError, RequestInv, InProgress, Kinds, Holding,
      Tunnelling, Copying, Counted, Final, Blaming, Unanswered, Upgraded
<1> QED BY <1>1, <1>2, Zenon DEF Inv

(* For each place a request can be in, how much of its answer has been given. *)
THEOREM ProxyInvariant == Spec => []Inv
  BY InvInitially, InvInductive, PTL DEF Spec

(* Every variable of the request handling keeps its type. *)
THEOREM TypeCorrect == Spec => []TypeOK
<1>1. Inv => TypeOK
  BY Zenon DEF Inv
<1> QED BY <1>1, ProxyInvariant, PTL

(* The round trippers and the upgrade loops never pass a request on twice. *)
THEOREM NoSecondDelivery == Spec => []DeliveredOnce
<1>1. Inv => DeliveredOnce
  BY ZenonT(30) DEF Inv, RequestInv, Blaming, DeliveredOnce
<1> QED BY <1>1, ProxyInvariant, PTL

(* reportError is called for refused dials, and for every one of them. *)
THEOREM BlameIsFair == Spec => []OnlyRefusedBlamed
<1>1. Inv => OnlyRefusedBlamed
  BY ZenonT(30) DEF Inv, RequestInv, Blaming, OnlyRefusedBlamed
<1> QED BY <1>1, ProxyInvariant, PTL

(* CaptureBadGateway and the endpoint_failure header go together. *)
THEOREM CountsFailures == Spec => []BadGatewayCounted
<1>1. Inv => BadGatewayCounted
  BY ZenonT(30) DEF Inv, RequestInv, Counted, Final, BadGatewayCounted
<1> QED BY <1>1, ProxyInvariant, PTL

(* HandleBadGateway is reached on an empty pool, after the last refused dial,
   or after a delivery. *)
THEOREM ReasonsToGiveUp == Spec => GivesUpForReason
<1> DEFINE Reason(r) == badGateways'[r] > badGateways[r] =>
                          \/ \A a \in Addr : members[a] = nil
                          \/ retry'[r] = maxRetries
                          \/ delivered'[r] > delivered[r]
<1>1. ASSUME Inv, Next, NEW r \in Request
      PROVE  Reason(r)
  <2> USE <1>1 DEF Inv, TypeOK
  <2>1. CASE PoolChanges
    BY <2>1 DEF PoolChanges, answerVars
  <2>2. ASSUME NEW q \in Request, Answers(q)
        PROVE  Reason(r)
    BY <2>2 DEF Answers, HandleUnsupportedProtocol, HandleHeartbeat,
       HandleMissingRoute, HandleUpgrade, UpgradeNotHijacked, Lookup, ChooseBackend,
       ChooseRouteService, RefuseRouteService, answerVars
  <2>3. ASSUME NEW q \in Request, TunnelCloses(q)
        PROVE  Reason(r)
    BY <2>3 DEF TunnelCloses, answerVars
  <2>4. ASSUME NEW q \in Request, Attempts(q)
        PROVE  Reason(r)
    <3>1. CASE NoEndpointHttp(q) \/ NoEndpointUpgrade(q)
      <4>1. \A a \in Addr : members[a] = nil
        <5>1. Pool!Hand(q) /\ handed'[q] = {nil}
          BY <3>1, Zenon DEF NoEndpointHttp, NoEndpointUpgrade
        <5>2. ASSUME NEW a \in Addr, members[a] # nil,
                     handed' = [handed EXCEPT ![q] = {members[a]}]
              PROVE  FALSE
          <6>1. handed'[q] = {members[a]}
            BY <2>4, <5>2, Zenon
          <6>2. members[a] \in {nil}
            BY <5>1, <6>1, ZenonT(30)
          <6> QED BY <5>2, <6>2, Zenon
        <5> QED BY <5>1, <5>2, Zenon DEF Pool!Hand
      <4> QED BY <4>1, Zenon
    <3>2. CASE TripBroken(q) \/ ServiceBroken(q)
      BY <3>2 DEF TripBroken, ServiceBroken, Broken, HandleBadGateway
    <3>3. CASE TripRefused(q) \/ ServiceRefused(q)
      BY <3>3 DEF TripRefused, ServiceRefused, Refused, HandleBadGateway, answerVars,
         RequestInv, InProgress, maxRetries
    <3>4. CASE \/ NextEndpoint(q) \/ TripAnswered(q) \/ ServiceAnswered(q)
               \/ ReverseProxy(q) \/ Dialled(q) \/ WebSocketWriteFails(q)
               \/ DialRefused(q) \/ Log(q)
      <4>1. badGateways' = badGateways
        BY <3>4, ZenonT(30) DEF NextEndpoint, TripAnswered, ServiceAnswered, Answered,
           ReverseProxy, Dialled, WebSocketWriteFails, DialRefused, Log, answerVars
      <4> QED BY <4>1, SMTT(30)
    <3> QED BY <2>4, <3>1, <3>2, <3>3, <3>4, Zenon DEF Attempts
  <2> QED BY <2>1, <2>2, <2>3, <2>4, Zenon DEF Next
<1>2. Inv /\ [Next]_vars => [\A r \in Request : Reason(r)]_vars
  BY <1>1, Zenon
<1> QED BY <1>2, ProxyInvariant, PTL DEF Spec, GivesUpForReason

-----------------------------------------------------------------------------
(* The access logger. *)

(* With the access logger beside it, request handling takes the steps of Proxy
   and no others: waiting for the channel only delays them. *)
THEOREM LoggingIsServing == LoggedSpec => Spec
<1>1. InitLogged => Init
  BY Zenon DEF InitLogged
<1>2. [NextLogged]_loggedVars => [Next]_vars
  BY ZenonT(30) DEF NextLogged, Serves, SendRecord, LogOther, Run, Next, loggedVars
<1>. QED  BY <1>1, <1>2, PTL DEF LoggedSpec, Spec

Ended == {"log", "logged"}

Status == {0} \cup OwnStatus \cup AppStatus

(* Nothing is known of a request before it sends its record; then the record is
   in the channel, or has been written, and carries the final status. *)
Unsent(r) ==
  r \notin sent => /\ \A i \in 1 .. Len(channel) : channel[i].request # r
                   /\ written[r] = <<>>

Onward(r) ==
  \A i \in 1 .. Len(channel) : channel[i].request = r =>
    /\ written[r] = <<>>
    /\ channel[i].status = status[r]
    /\ \A j \in 1 .. Len(channel) : channel[j].request = r => j = i

Settled(r) ==
  /\ r \in sent => pc[r] \in Ended
  /\ written[r] = <<>> \/ written[r] = <<status[r]>>

RecordInv(r) == Unsent(r) /\ Onward(r) /\ Settled(r)

LogInv == LoggerTypeOK /\ \A r \in Request : RecordInv(r)

(* The status of a request that has come to its end is final. *)
LEMMA EndedStays ==
  ASSUME TypeOK, NEW r \in Request, pc[r] \in Ended, [Next]_vars
  PROVE  status'[r] = status[r] /\ pc'[r] \in Ended
<1>1. ASSUME NEW q \in Request, Step(q)
      PROVE  status'[r] = status[r] /\ pc'[r] \in Ended
  <2>1. CASE q # r
    <3>1. Same(r)
      BY <1>1, <2>1, OthersAlone, Zenon
    <3>. QED  BY <3>1, Zenon DEF Same
  <2>2. CASE q = r
    <3>1. pc[q] \in {"log", "logged"} /\ pc \in [Request -> PC]
      BY <2>2, ZenonT(30) DEF Ended, TypeOK
    <3>a. pc[q] # "idle" /\ pc[q] # "choose" /\ pc[q] # "tunnel"
      BY <3>1, Zenon
    <3>2. ~Answers(q) /\ ~TunnelCloses(q)
      BY <3>a, ZenonT(30) DEF Answers, HandleUnsupportedProtocol, HandleHeartbeat, HandleMissingRoute,
         HandleUpgrade, UpgradeNotHijacked, Lookup, ChooseBackend, ChooseRouteService,
         RefuseRouteService, TunnelCloses
    <3>3. Attempts(q) => Log(q)
      BY <3>1, ZenonT(30) DEF Attempts, NextEndpoint, NoEndpointHttp, NoEndpointUpgrade, TripAnswered,
         TripBroken, TripRefused, ServiceAnswered, ServiceBroken, ServiceRefused,
         ReverseProxy, Dialled, WebSocketWriteFails, DialRefused
    <3>4. Log(q)
      BY <1>1, <3>2, <3>3, Zenon DEF Step
    <3>. QED  BY <2>2, <3>1, <3>4, Zenon DEF Log, Goto, answerVars, Ended
  <2>. QED  BY <2>1, <2>2, Zenon
<1>2. CASE PoolChanges
  BY <1>2, Zenon DEF PoolChanges, answerVars
<1>3. CASE UNCHANGED vars
  BY <1>3, Zenon DEF vars, answerVars
<1>. QED  BY <1>1, <1>2, <1>3, ZenonT(30) DEF Next, Step

(* No request has a record in the beginning. *)
LEMMA LogInvInitially == InitLogged => LogInv
<1>. SUFFICES ASSUME InitLogged PROVE LogInv
  BY Zenon
<1>1. TypeOK
  BY InvInitially, Zenon DEF InitLogged, Inv
<1>2. LoggerTypeOK
  BY <1>1 DEF InitLogged, LoggerTypeOK
<1>3. ASSUME NEW r \in Request
      PROVE  RecordInv(r)
  BY <1>3 DEF InitLogged, RecordInv, Unsent, Onward, Settled
<1>. QED  BY <1>2, <1>3, Zenon DEF LogInv

(* Steps that leave the logger alone. *)
LEMMA ServingKeepsRecords ==
  ASSUME LogInv, TypeOK', [Next]_vars, UNCHANGED loggerVars
  PROVE  LogInv'
<1>1. LoggerTypeOK'
  BY Zenon DEF LogInv, LoggerTypeOK, loggerVars
<1>2. ASSUME NEW r \in Request
      PROVE  RecordInv(r)'
  <2>0. RecordInv(r) /\ TypeOK /\ channel' = channel /\ sent' = sent /\ written' = written
    BY <1>2, Zenon DEF LogInv, LoggerTypeOK, loggerVars
  <2>1. CASE r \in sent
    <3>1. status'[r] = status[r] /\ pc'[r] \in Ended
      BY <2>0, <2>1, <1>2, EndedStays, Zenon DEF RecordInv, Settled
    <3>. QED  BY <2>0, <2>1, <3>1, Zenon DEF RecordInv, Unsent, Onward, Settled
  <2>2. CASE r \notin sent
    BY <2>0, <2>2, Zenon DEF RecordInv, Unsent, Onward, Settled
  <2>. QED  BY <2>1, <2>2, Zenon
<1>. QED  BY <1>1, <1>2, Zenon DEF LogInv

(* A request that logs has its record in one place. *)
LEMMA SendKeepsRecords ==
  ASSUME LogInv, NEW q \in Request, SendRecord(q)
  PROVE  LogInv'
<1>0. /\ TypeOK /\ channel \in Seq(Record) /\ sent \in SUBSET Request
      /\ written \in [Request -> Seq(Status)]
  BY Zenon DEF LogInv, LoggerTypeOK, Status
<1> DEFINE record == [request |-> q, status |-> status[q]]
<1>1. /\ channel' = Append(channel, record) /\ record \in Record
      /\ sent' = sent \cup {q} /\ written' = written
      /\ status' = status /\ pc' = pc /\ pc[q] = "log" /\ q \notin sent
  BY <1>0, Zenon DEF SendRecord, vars, Record, TypeOK, answerVars
<1>2. /\ Len(channel) \in Nat /\ Len(channel') = Len(channel) + 1
      /\ \A i \in 1 .. Len(channel) : channel'[i] = channel[i]
      /\ channel'[Len(channel) + 1] = record
  BY <1>0, <1>1
<1>3. record.request = q /\ record.status = status[q]
  BY Zenon
<1> HIDE DEF record
<1>4. LoggerTypeOK'
  <2>1. TypeOK'
    BY <1>0, Zenon DEF SendRecord, vars, poolVars, givenVars, answerVars, historyVars, TypeOK
  <2>. QED  BY <2>1, <1>0, <1>1 DEF LoggerTypeOK, Status
<1>5. ASSUME NEW r \in Request
      PROVE  RecordInv(r)'
  <2>0. RecordInv(r)
    BY <1>5, Zenon DEF LogInv
  <2>1. CASE r = q
    <3>1. /\ written[r] = <<>> /\ \A i \in 1 .. Len(channel) : channel[i].request # r
      BY <2>0, <2>1, <1>1, Zenon DEF RecordInv, Unsent
    <3>2. Unsent(r)'
      BY <2>1, <1>1, Zenon DEF Unsent
    <3>3. Onward(r)'
      BY <2>1, <3>1, <1>1, <1>2, <1>3 DEF Onward
    <3>4. Settled(r)'
      BY <2>1, <3>1, <1>1, Zenon DEF Settled, Ended
    <3>. QED  BY <3>2, <3>3, <3>4, Zenon DEF RecordInv
  <2>2. CASE r # q
    <3>1. Unsent(r)'
      BY <2>0, <2>2, <1>1, <1>2, <1>3 DEF RecordInv, Unsent
    <3>2. Onward(r)'
      BY <2>0, <2>2, <1>1, <1>2, <1>3 DEF RecordInv, Onward
    <3>3. Settled(r)'
      BY <2>0, <2>2, <1>1, Zenon DEF RecordInv, Settled
    <3>. QED  BY <3>1, <3>2, <3>3, Zenon DEF RecordInv
  <2>. QED  BY <2>1, <2>2, Zenon
<1>. QED  BY <1>4, <1>5, Zenon DEF LogInv

(* The records of others displace none. *)
LEMMA OthersKeepRecords ==
  ASSUME LogInv, LogOther
  PROVE  LogInv'
<1>0. TypeOK /\ channel \in Seq(Record)
  BY Zenon DEF LogInv, LoggerTypeOK
<1> DEFINE record == [request |-> nil, status |-> 0]
<1>1. /\ channel' = Append(channel, record) /\ record \in Record
      /\ sent' = sent /\ written' = written /\ status' = status /\ pc' = pc
  BY Zenon DEF LogOther, vars, Record, answerVars
<1>2. /\ Len(channel) \in Nat /\ Len(channel') = Len(channel) + 1
      /\ \A i \in 1 .. Len(channel) : channel'[i] = channel[i]
      /\ channel'[Len(channel) + 1] = record
  BY <1>0, <1>1
<1>3. record.request \notin Request
  BY ChannelAssumption, Zenon
<1> HIDE DEF record
<1>4. LoggerTypeOK'
  <2>1. TypeOK'
    BY <1>0, Zenon DEF LogOther, vars, poolVars, givenVars, answerVars, historyVars, TypeOK
  <2>. QED  BY <2>1, <1>0, <1>1 DEF LoggerTypeOK, LogInv
<1>5. ASSUME NEW r \in Request
      PROVE  RecordInv(r)'
  BY <1>5, <1>1, <1>2, <1>3 DEF LogInv, RecordInv, Unsent, Onward, Settled
<1>. QED  BY <1>4, <1>5, Zenon DEF LogInv

(* The writer takes a record from the channel as it is. *)
LEMMA RunKeepsRecords ==
  ASSUME LogInv, Run
  PROVE  LogInv'
<1>0. /\ TypeOK /\ channel \in Seq(Record) /\ channel # <<>>
      /\ written \in [Request -> Seq(Status)]
  BY Zenon DEF LogInv, LoggerTypeOK, Run, Status
<1>1. /\ Len(channel) \in Nat /\ Len(channel) > 0
      /\ channel' \in Seq(Record) /\ Len(channel') = Len(channel) - 1
      /\ \A i \in 1 .. Len(channel') : channel'[i] = channel[i + 1]
      /\ channel[1] \in Record
  BY <1>0 DEF Run
<1>2. sent' = sent /\ status' = status /\ pc' = pc /\ TypeOK'
  BY <1>0, Zenon DEF Run, vars, poolVars, givenVars, answerVars, historyVars, TypeOK
<1>3. /\ written' \in [Request -> Seq(Status)]
      /\ \A r \in Request : written'[r] = IF channel[1].request = r
                                            THEN Append(written[r], channel[1].status)
                                            ELSE written[r]
  BY <1>0, <1>1 DEF Run, Record, Status
<1>4. LoggerTypeOK'
  BY <1>0, <1>1, <1>2, <1>3, Zenon DEF LoggerTypeOK, LogInv, Status
<1>5. ASSUME NEW r \in Request
      PROVE  RecordInv(r)'
  <2>0. Unsent(r) /\ Onward(r) /\ Settled(r)
    BY <1>5, Zenon DEF LogInv, RecordInv
  <2>1. CASE channel[1].request = r
    <3>1. written[r] = <<>> /\ channel[1].status = status[r] /\ r \in sent
      BY <2>0, <2>1, <1>1 DEF Unsent, Onward
    <3>2. written'[r] = <<status[r]>>
      BY <3>1, <2>1, <1>3, <1>5
    <3>3. \A i \in 1 .. Len(channel') : channel'[i].request # r
      BY <2>0, <2>1, <1>1 DEF Onward
    <3>. QED
      BY <2>0, <3>1, <3>2, <3>3, <1>2, Zenon DEF RecordInv, Unsent, Onward, Settled
  <2>2. CASE channel[1].request # r
    <3>1. written'[r] = written[r]
      BY <2>2, <1>3, <1>5, Zenon
    <3>2. Unsent(r)' /\ Settled(r)'
      BY <2>0, <3>1, <1>1, <1>2 DEF Unsent, Settled
    <3>3. Onward(r)'
      <4>. SUFFICES ASSUME NEW i \in 1 .. Len(channel'), channel'[i].request = r
                    PROVE  /\ written'[r] = <<>>
                           /\ channel'[i].status = status'[r]
                           /\ \A j \in 1 .. Len(channel') : channel'[j].request = r => j = i
        BY Zenon DEF Onward
      <4>1. i + 1 \in 1 .. Len(channel) /\ channel[i + 1].request = r
        BY <1>1
      <4>2. \A j \in 1 .. Len(channel') : j + 1 \in 1 .. Len(channel)
        BY <1>1
      <4>3. \A j \in 1 .. Len(channel') : channel'[j].request = r => j + 1 = i + 1
        BY <4>1, <4>2, <2>0, <1>1, ZenonT(30) DEF Onward
      <4>. QED  BY <4>1, <4>3, <2>0, <3>1, <1>1, <1>2 DEF Onward
    <3>. QED  BY <3>2, <3>3, Zenon DEF RecordInv
  <2>. QED  BY <2>1, <2>2, Zenon
<1>. QED  BY <1>4, <1>5, Zenon DEF LogInv

(* What the logger holds and has written of each request, in every state. *)
THEOREM LoggerInvariant == LoggedSpec => [](Inv /\ LogInv)
<1>1. InitLogged => Inv /\ LogInv
  BY InvInitially, LogInvInitially, Zenon DEF InitLogged
<1>2. ASSUME Inv, LogInv, [NextLogged]_loggedVars
      PROVE  Inv' /\ LogInv'
  <2>1. [Next]_vars
    BY <1>2, ZenonT(30) DEF NextLogged, Serves, SendRecord, LogOther, Run, Next, loggedVars
  <2>2. Inv' /\ TypeOK'
    BY <1>2, <2>1, InvInductive, Zenon DEF Inv
  <2>3. CASE UNCHANGED loggerVars
    BY <1>2, <2>1, <2>2, <2>3, ServingKeepsRecords, Zenon
  <2>4. CASE \E r \in Request : SendRecord(r)
    BY <1>2, <2>2, <2>4, SendKeepsRecords, Zenon
  <2>5. CASE LogOther
    BY <1>2, <2>2, <2>5, OthersKeepRecords, Zenon
  <2>6. CASE Run
    BY <1>2, <2>2, <2>6, RunKeepsRecords, Zenon
  <2>. QED
    BY <1>2, <2>3, <2>4, <2>5, <2>6, Zenon DEF NextLogged, Serves, loggedVars
<1>. QED  BY <1>1, <1>2, PTL DEF LoggedSpec

(* Beside the types of Proxy, those of the channel and of what was written. *)
THEOREM LoggerTypeCorrect == LoggedSpec => []LoggerTypeOK
<1>1. LogInv => LoggerTypeOK
  BY Zenon DEF LogInv
<1>. QED  BY <1>1, LoggerInvariant, PTL

(* What the access logger writes of a request is, once, the status that its
   client was sent. *)
THEOREM LogsTruthfully == LoggedSpec => []LogMatchesClient
<1>1. ASSUME Inv, LogInv, NEW r \in Request
      PROVE  /\ Len(written[r]) <= 1
             /\ \A i \in DOMAIN written[r] :
                  /\ written[r][i] # 0
                  /\ writer[r] # "hijacked" => client[r] = written[r][i]
                  /\ writer[r] = "hijacked" => client[r] \in {0, written[r][i]}
  <2>1. CASE written[r] = <<>>
    BY <2>1
  <2>2. CASE written[r] = <<status[r]>> /\ written[r] # <<>>
    <3>1. pc[r] \in Ended
      BY <1>1, <2>2, Zenon DEF LogInv, RecordInv, Unsent, Settled
    <3>2. /\ status[r] # 0
          /\ writer[r] # "hijacked" => client[r] = status[r]
          /\ writer[r] = "hijacked" => client[r] = 0 \/ client[r] = status[r]
      BY <1>1, <3>1 DEF Inv, RequestInv, Final, Ended
    <3>3. Len(written[r]) = 1 /\ \A i \in DOMAIN written[r] : written[r][i] = status[r]
      BY <2>2
    <3>. QED  BY <3>2, <3>3
  <2>. QED  BY <1>1, <2>1, <2>2, Zenon DEF LogInv, RecordInv, Settled
<1>2. Inv /\ LogInv => LogMatchesClient
  BY <1>1, ZenonT(30) DEF LogMatchesClient
<1>. QED  BY <1>2, LoggerInvariant, PTL
=============================================================================
