------------------------------- MODULE NatsConn -------------------------------
(***************************************************************************)
(* The router's connection to the message bus: the vendored NATS client    *)
(* (apcera/nats/nats.go) as yagnats configures it (reconnect for ever, no  *)
(* asynchronous error handler), and what Router.Run does with it.          *)
(*                                                                         *)
(* Goroutines: the read loop and the flusher of the current socket, one    *)
(* doReconnect and one spinUpSocketWatchers per lost connection, the ping  *)
(* timer's callback, one delivery loop per subscription, and Router.Run.   *)
(* nc.mu makes every locked section one step.  The server and the network  *)
(* are the environment: a connection may be reset, or fall silent without  *)
(* an error, at any time, with whatever is under way on it.                *)
(***************************************************************************)
EXTENDS Integers, Sequences, FiniteSets

CONSTANTS
  Subjects,        \* what Router.Run subscribes to, in order
  Servers,         \* the servers of the bus, in the order of the pool
  Steady,          \* those among them that keep coming back
  MaxPingsOut,     \* unanswered pings that are tolerated
  SubChanLen,      \* capacity of a subscription's channel
  MaxLosses,       \* bound: connections that are lost
  Budgets,         \* bounds on what happens together, see Budget
  nil

Server == {Servers[i] : i \in 1 .. Len(Servers)}

Subject == {Subjects[i] : i \in 1 .. Len(Subjects)}

(* What the router publishes: start messages and answers to greetings. *)
Publication == {"start", "reply"}

(* The lost connections, in order; each has its own goroutines. *)
Loss == 1 .. MaxLosses

(* The socket watchers: those of the first connection, and of each later one. *)
Watch == 0 .. MaxLosses

(* How many connections may be lost and messages be sent, and how many pings may
   be outstanding when the ping timer fires. *)
Budget == [losses : 0 .. MaxLosses, msgs : Nat, pings : Nat, from : {"subscribe", "serving"}]

ASSUME BusAssumption ==
  /\ MaxPingsOut \in Nat /\ SubChanLen \in Nat /\ MaxLosses \in Nat
  /\ Budgets \subseteq Budget
  /\ Subjects \in Seq(STRING) /\ Len(Subjects) > 0
  /\ \A i, j \in DOMAIN Subjects : Subjects[i] = Subjects[j] => i = j
  /\ Servers # <<>> /\ Servers \in Seq(Server)
  /\ nil \notin Nat

Item(op, arg) == [op |-> op, arg |-> arg]

Sent == [op : {"CONNECT", "PING"}, arg : {nil}] \cup [op : {"SUB"}, arg : SUBSET Subject]
          \cup [op : {"PUB"}, arg : Publication]

Received == [op : {"PONG", "STALE", "ERR"}, arg : {nil}] \cup [op : {"MSG"}, arg : Subject]

Writer == [buf : Seq(Sent), to : {"link", "pending"}, failed : BOOLEAN]

(* What was sent to the client, and what the server has been told: a handshake,
   subscriptions, a start message, or something it cannot make sense of. *)
Link == [state : {"up", "reset", "silent", "closed"}, toClient : Seq(Received),
         greeted : BOOLEAN, heard : SUBSET Subject, announced : BOOLEAN, confused : BOOLEAN]

VARIABLES
  status,     \* CONNECTED, RECONNECTING or CLOSED
  err,        \* nc.err is set
  bw,         \* the bufio writer: its buffer, what it writes to, its sticky error
  pending,    \* what was gathered while reconnecting, or nil
  fch,        \* kicks in the flusher's channel
  pongs,      \* who waits for each outstanding pong: a Loss, or nil for nobody
  pout,       \* pings sent since the last pong
  armed,      \* the ping timer runs
  fired,      \* the ping timer's callback waits for the lock
  ssid,       \* subscriptions made
  inbox,      \* the channel of each subscription
  pool,       \* srvPool
  url,        \* the current server
  reader,     \* each read loop: where it is, and the flush call it hands a pong to
  flusher,    \* each flusher: off, wait, kicked
  wg,         \* the wait group of these two
  reconnect,  \* doReconnect of each loss
  spin,       \* spinUpSocketWatchers of each loss
  run,        \* Router.Run
  link,       \* the socket, and what the server has seen of it
  budget      \* what may still happen

clientVars == <<status, err, bw, pending, fch, pongs, pout, armed, fired, ssid, inbox, pool, url>>
goVars == <<reader, flusher, wg, reconnect, spin, run>>
busVars == <<link, budget>>
vars == <<clientVars, goVars, busVars>>

subs == {Subjects[i] : i \in 1 .. ssid}

NewLink(state) ==
  [state |-> state, toClient |-> <<>>,
   greeted |-> FALSE, heard |-> {}, announced |-> FALSE, confused |-> FALSE]

ReaderAt(pc) == [pc |-> pc, to |-> nil, then |-> "read"]

TypeOK ==
  /\ status \in {"CONNECTED", "RECONNECTING", "CLOSED"}
  /\ err \in BOOLEAN
  /\ bw \in Writer
  /\ pending \in Seq(Sent) \cup {nil}
  /\ fch \in Nat
  /\ pongs \in Seq(Loss \cup {nil})
  /\ pout \in Nat
  /\ armed \in BOOLEAN /\ fired \in BOOLEAN
  /\ ssid \in 0 .. Len(Subjects)
  /\ inbox \in [Subject -> 0 .. SubChanLen]
  /\ pool \in Seq(Server) /\ url \in Server
  /\ reader \in [Watch -> [pc : {"off", "read", "hand", "closing", "close"},
                           to : Loss \cup {nil}, then : {"read", "close"}]]
  /\ flusher \in [Watch -> {"off", "wait", "kicked"}]
  /\ wg \in Int
  /\ reconnect \in [Loss -> {"none", "kick", "exits", "setup", "select", "dial", "flush",
                             "wait", "timedout", "callback", "done"}]
  /\ spin \in [Loss -> {"none", "kick", "exits", "start", "arm", "done"}]
  /\ run \in {"subscribe", "kick", "start", "addcb", "serving", "exited"}
  /\ link \in Link
  /\ budget \in Budget

(* yagnats.Connect has returned and Router.Run begins to subscribe. *)
Init ==
  /\ budget \in Budgets
  /\ run = budget.from
  /\ status = "CONNECTED"
  /\ err = FALSE
  /\ bw = [buf |-> <<>>, to |-> "link", failed |-> FALSE]
  /\ pending = nil
  /\ fch = 0
  /\ pongs = <<>>
  /\ pout = 0
  /\ armed = TRUE /\ fired = FALSE
  /\ ssid = IF run = "serving" THEN Len(Subjects) ELSE 0
  /\ inbox = [s \in Subject |-> 0]
  /\ pool = Servers
  /\ url \in Server
  /\ reader = [w \in Watch |-> ReaderAt(IF w = 0 THEN "read" ELSE "off")]
  /\ flusher = [w \in Watch |-> IF w = 0 THEN "wait" ELSE "off"]
  /\ wg = 2
  /\ reconnect = [k \in Loss |-> "none"]
  /\ spin = [k \in Loss |-> "none"]
  /\ link = [NewLink("up") EXCEPT !.greeted = TRUE, !.heard = subs, !.announced = run = "serving"]

-------------------------------------------------------------------------------
(* The client's helpers, all under nc.mu. *)

Write(items) == [bw EXCEPT !.buf = @ \o items]

(* Mutant of kickFlusher: only a flusher that has kicks to come is kicked. *)
kickFlusherInverted == fch' = IF fch = 0 THEN fch ELSE fch + 1

kickFlusher == fch' = IF fch = 0 THEN 1 ELSE fch

Written(op) == {n \in DOMAIN bw.buf : bw.buf[n].op = op}

(* bufio's Flush: the server reads what a live socket takes, what a silent one
   takes is lost, and an error sticks to the writer.  The server answers pings.
   It is confused by a connection that does not open with one handshake, and by
   a subscription made twice. *)
FlushTo(l) ==
  IF bw.buf = <<>> \/ l.state # "up" THEN l ELSE
  [l EXCEPT
     !.toClient = @ \o [n \in 1 .. Cardinality(Written("PING")) |-> Item("PONG", nil)],
     !.greeted = TRUE,
     !.heard = @ \cup UNION {bw.buf[n].arg : n \in Written("SUB")},
     !.announced = @ \/ \E n \in Written("PUB") : bw.buf[n].arg = "start",
     !.confused = \/ @
                  \/ Written("CONNECT") # (IF l.greeted THEN {} ELSE {1})
                  \/ \E n \in Written("SUB") :
                       \/ bw.buf[n].arg \cap l.heard # {}
                       \/ \E o \in Written("SUB") \ {n} : bw.buf[o].arg \cap bw.buf[n].arg # {}]

Flushed ==
  IF bw.buf = <<>> \/ link.state \in {"up", "silent"}
    THEN [bw EXCEPT !.buf = <<>>]
    ELSE [bw EXCEPT !.failed = TRUE]

(* A publication is refused once closed and while an error stands; a writer
   whose last flush failed refuses it too, and that error stands. *)
publish(m) ==
  LET refused == status = "CLOSED" \/ err IN
  /\ err' = (err \/ (~refused /\ bw.failed))
  /\ IF refused \/ bw.failed
       THEN UNCHANGED <<bw, fch>>
       ELSE bw' = Write(<<Item("PUB", m)>>) /\ kickFlusher

sendPing(ch) ==
  /\ pongs' = Append(pongs, ch)
  /\ bw' = Write(<<Item("PING", nil)>>)
  /\ kickFlusher

(* The number of connections lost so far: losses are numbered in order. *)
Lost == CHOOSE m \in 0 .. MaxLosses : \A k \in Loss : reconnect[k] # "none" <=> k <= m

(* processOpErr and processReconnect: the first to report a lost connection
   closes the socket and starts doReconnect, the others find it done. *)
processReconnect ==
  IF status # "CONNECTED"
    THEN UNCHANGED <<status, bw, armed, reconnect, link>>
    ELSE /\ status' = "RECONNECTING"
         /\ armed' = FALSE
         /\ bw' = Flushed
         /\ link' = NewLink("closed")
         /\ reconnect' = [reconnect EXCEPT ![Lost + 1] = "kick"]

-------------------------------------------------------------------------------
(* Router.Run: it subscribes, publishes the start message, and only then asks
   to be told of reconnects.  subscribe kicks the flusher after it unlocks. *)

(* Mutant of SubLine: the line is written while reconnecting too. *)
SubLineAlways(s) == <<Item("SUB", {s})>>

(* The line is left to resendSubscriptions while reconnecting. *)
SubLine(s) == IF status = "RECONNECTING" THEN <<>> ELSE <<Item("SUB", {s})>>

Subscribe ==
  /\ run = "subscribe" /\ status # "CLOSED"
  /\ ssid' = ssid + 1
  /\ bw' = Write(SubLine(Subjects[ssid']))
  /\ run' = "kick"
  /\ UNCHANGED <<status, err, pending, fch, pongs, pout, armed, fired, inbox, pool, url,
                 reader, flusher, wg, reconnect, spin, busVars>>

SubscribeKick ==
  /\ run = "kick"
  /\ kickFlusher
  /\ run' = IF ssid = Len(Subjects) THEN "start" ELSE "subscribe"
  /\ UNCHANGED <<status, err, bw, pending, pongs, pout, armed, fired, ssid, inbox, pool, url,
                 reader, flusher, wg, reconnect, spin, busVars>>

SendStartMessage ==
  /\ run = "start"
  /\ publish("start")
  /\ run' = "addcb"
  /\ UNCHANGED <<status, pending, pongs, pout, armed, fired, ssid, inbox, pool, url,
                 reader, flusher, wg, reconnect, spin, busVars>>

AddReconnectedCB ==
  /\ run = "addcb"
  /\ run' = "serving"
  /\ UNCHANGED <<clientVars, reader, flusher, wg, reconnect, spin, busVars>>

(* deliverMsgs hands a message to its handler; a greeting that names a subject
   for the answer is answered. *)
deliverMsgs(s) ==
  /\ status # "CLOSED"
  /\ inbox[s] > 0
  /\ inbox' = [inbox EXCEPT ![s] = @ - 1]
  /\ \/ s = "router.greet" /\ publish("reply")
     \/ UNCHANGED <<err, bw, fch>>
  /\ UNCHANGED <<status, pending, pongs, pout, armed, fired, ssid, pool, url, goVars, busVars>>

-------------------------------------------------------------------------------
(* The read loop. *)

ReaderExits(w) == reader' = [reader EXCEPT ![w] = ReaderAt("off")] /\ wg' = wg - 1

(* The socket fails, or the connection was given up: the loop ends. *)
readLoopError(w) ==
  /\ reader[w].pc = "read"
  /\ link.state \in {"reset", "closed"}
  /\ processReconnect
  /\ ReaderExits(w)
  /\ UNCHANGED <<err, pending, fch, pongs, pout, fired, ssid, inbox, pool, url,
                 flusher, spin, run, budget>>

readLoopStops(w) ==
  /\ reader[w].pc = "read"
  /\ status # "CONNECTED"
  /\ ReaderExits(w)
  /\ UNCHANGED <<clientVars, flusher, reconnect, spin, run, busVars>>

Arrives(w, op) ==
  /\ reader[w].pc = "read"
  /\ link.toClient # <<>>
  /\ Head(link.toClient).op = op

Incoming(w, op) ==
  /\ Arrives(w, op)
  /\ link' = [link EXCEPT !.toClient = Tail(@)]

(* The loop is to send on the channel of a flush call, which takes a receiver. *)
HandTo(w, k, then) ==
  reader' = IF k = nil THEN reader ELSE [reader EXCEPT ![w] = [pc |-> "hand", to |-> k, then |-> then]]

processPong(w) ==
  /\ Incoming(w, "PONG")
  /\ pout' = 0
  /\ IF pongs = <<>>
       THEN UNCHANGED <<pongs, reader>>
       ELSE pongs' = Tail(pongs) /\ HandTo(w, Head(pongs), "read")
  /\ UNCHANGED <<status, err, bw, pending, fch, armed, fired, ssid, inbox, pool, url,
                 flusher, wg, reconnect, spin, run, budget>>

(* The send completes only while the flush call still waits. *)
HandPong(w) ==
  /\ reader[w].pc = "hand"
  /\ reconnect[reader[w].to] = "wait"
  /\ reader' = [reader EXCEPT ![w] = ReaderAt(@.then)]
  /\ reconnect' = [reconnect EXCEPT ![reader[w].to] = "callback"]
  /\ UNCHANGED <<clientVars, flusher, wg, spin, run, busVars>>

processMsg(w) ==
  LET s == Head(link.toClient).arg IN
  /\ Incoming(w, "MSG")
  /\ IF inbox[s] >= SubChanLen
       THEN err' = TRUE /\ UNCHANGED inbox
       ELSE inbox' = [inbox EXCEPT ![s] = @ + 1] /\ UNCHANGED err
  /\ UNCHANGED <<status, bw, pending, fch, pongs, pout, armed, fired, ssid, pool, url,
                 goVars, budget>>

(* An error from the server: a stale connection is given up and made anew, any
   other error closes the client for good, ... *)
processErr(w) ==
  /\ \/ /\ Arrives(w, "STALE")
        /\ processReconnect
        /\ UNCHANGED <<err, reader>>
     \/ /\ Incoming(w, "ERR")
        /\ err' = TRUE
        /\ reader' = [reader EXCEPT ![w].pc = "closing"]
        /\ UNCHANGED <<status, bw, armed, reconnect>>
  /\ UNCHANGED <<pending, fch, pongs, pout, fired, ssid, inbox, pool, url,
                 flusher, wg, spin, run, budget>>

close(w) ==
  /\ reader[w].pc = "closing"
  /\ status' = "CLOSED"
  /\ kickFlusher
  /\ reader' = [reader EXCEPT ![w].pc = "close"]
  /\ UNCHANGED <<err, bw, pending, pongs, pout, armed, fired, ssid, inbox, pool, url,
                 flusher, wg, reconnect, spin, run, busVars>>

(* ... which first releases every flush call, ... *)
clearPendingFlushCalls(w) ==
  /\ reader[w].pc = "close" /\ pongs # <<>>
  /\ pongs' = Tail(pongs)
  /\ HandTo(w, Head(pongs), "close")
  /\ UNCHANGED <<status, err, bw, pending, fch, pout, armed, fired, ssid, inbox, pool, url,
                 flusher, wg, reconnect, spin, run, busVars>>

(* ... and then the closed callback of main exits the process. *)
closedCallback(w) ==
  /\ reader[w].pc = "close" /\ pongs = <<>>
  /\ run' = "exited"
  /\ UNCHANGED <<clientVars, reader, flusher, wg, reconnect, spin, busVars>>

-------------------------------------------------------------------------------
(* The flusher: it takes a kick, and then the lock. *)

FlusherKicked(w) ==
  /\ flusher[w] = "wait" /\ fch > 0
  /\ fch' = fch - 1
  /\ flusher' = [flusher EXCEPT ![w] = "kicked"]
  /\ UNCHANGED <<status, err, bw, pending, pongs, pout, armed, fired, ssid, inbox, pool, url,
                 reader, wg, reconnect, spin, run, busVars>>

(* Mutant of FlushError: a flush that succeeds leaves the error. *)
FlushErrorKept == err \/ Flushed.failed

(* A flush of something replaces the error by its own outcome. *)
FlushError == IF bw.buf = <<>> THEN err ELSE Flushed.failed

FlusherFlushes(w) ==
  /\ flusher[w] = "kicked"
  /\ IF status # "CONNECTED"
       THEN /\ flusher' = [flusher EXCEPT ![w] = "off"] /\ wg' = wg - 1
            /\ UNCHANGED <<err, bw, link>>
       ELSE /\ flusher' = [flusher EXCEPT ![w] = "wait"]
            /\ bw' = Flushed
            /\ link' = FlushTo(link)
            /\ err' = FlushError
            /\ UNCHANGED wg
  /\ UNCHANGED <<status, pending, fch, pongs, pout, armed, fired, ssid, inbox, pool, url,
                 reader, reconnect, spin, run, budget>>

-------------------------------------------------------------------------------
(* doReconnect of loss k.  It first waits for the old watchers to exit. *)

At(k, pc) == reconnect[k] = pc

Goto(k, pc) == reconnect' = [reconnect EXCEPT ![k] = pc]

(* Mutant of KickOldFlusher: a flusher with nothing to flush is not woken. *)
KickOldFlusherIfBusy == fch' = IF bw.buf = <<>> THEN fch ELSE fch + 1

KickOldFlusher == fch' = fch + 1

waitForExits(k) ==
  /\ \/ At(k, "kick") /\ KickOldFlusher /\ Goto(k, "exits")
     \/ At(k, "exits") /\ wg = 0 /\ UNCHANGED fch /\ Goto(k, "setup")
  /\ UNCHANGED <<status, err, bw, pending, pongs, pout, armed, fired, ssid, inbox, pool, url,
                 reader, flusher, wg, spin, run, busVars>>

(* From here on, publications are gathered in the pending buffer. *)
GatherPending(k) ==
  /\ At(k, "setup")
  /\ pending' = <<>>
  /\ bw' = [buf |-> <<>>, to |-> "pending", failed |-> FALSE]
  /\ err' = FALSE
  /\ Goto(k, "select")
  /\ UNCHANGED <<status, fch, pongs, pout, armed, fired, ssid, inbox, pool, url,
                 reader, flusher, wg, spin, run, busVars>>

(* The server that failed goes to the end of the pool; the lock is released
   while doReconnect sleeps before it dials. *)
selectNextServer(k) ==
  /\ At(k, "select")
  /\ \E i \in DOMAIN pool :
       /\ pool[i] = url
       /\ pool' = SubSeq(pool, 1, i - 1) \o SubSeq(pool, i + 1, Len(pool)) \o <<url>>
  /\ url' = pool'[1]
  /\ Goto(k, "dial")
  /\ UNCHANGED <<status, err, bw, pending, fch, pongs, pout, armed, fired, ssid, inbox,
                 reader, flusher, wg, spin, run, busVars>>

(* What is still in the writer goes where it points: to the pending buffer, or
   to a socket that failed before. *)
Gathered == IF bw.to = "pending" THEN pending \o bw.buf ELSE pending

(* Mutant of resendSubscriptions: the new server is told of none. *)
resendSubscriptionsNone == <<>>

(* The SUB lines of all subscriptions, in whatever order the map yields them. *)
resendSubscriptions == IF subs = {} THEN <<>> ELSE <<Item("SUB", subs)>>

(* Closed meanwhile, it ends; refused, it tries the next server. *)
DialFails(k) ==
  /\ At(k, "dial")
  /\ err' = (status = "CLOSED")
  /\ Goto(k, IF status = "CLOSED" THEN "done" ELSE "select")
  /\ UNCHANGED <<status, bw, pending, fch, pongs, pout, armed, fired, ssid, inbox, pool, url,
                 reader, flusher, wg, spin, run, busVars>>

(* The server accepts but goes away before its INFO line arrives. *)
InfoFails(k) ==
  /\ At(k, "dial") /\ status # "CLOSED"
  /\ pending' = Gathered
  /\ bw' = [buf |-> <<>>, to |-> "link", failed |-> FALSE]
  /\ link' = NewLink("reset")
  /\ err' = TRUE
  /\ Goto(k, "select")
  /\ UNCHANGED <<status, fch, pongs, pout, armed, fired, ssid, inbox, pool, url,
                 reader, flusher, wg, spin, run, budget>>

(* Connected: the handshake, the subscriptions and what was gathered are
   written in one locked section, and the socket watchers are started. *)
Reconnected(k) ==
  /\ At(k, "dial") /\ status # "CLOSED"
  /\ status' = "CONNECTED"
  /\ err' = FALSE
  /\ bw' = [buf |-> <<Item("CONNECT", nil)>> \o resendSubscriptions \o Gathered,
            to |-> "link", failed |-> FALSE]
  /\ pending' = nil
  /\ link' = NewLink("up")
  /\ spin' = [spin EXCEPT ![k] = "kick"]
  /\ Goto(k, "flush")
  /\ UNCHANGED <<fch, pongs, pout, armed, fired, ssid, inbox, pool, url,
                 reader, flusher, wg, run, budget>>

(* Flush: a ping of its own, and a wait for the pong or for the timer. *)
FlushTimeout(k) ==
  /\ \/ At(k, "flush") /\ status # "CLOSED" /\ sendPing(k) /\ Goto(k, "wait")
     \/ At(k, "flush") /\ status = "CLOSED" /\ Goto(k, "callback") /\ UNCHANGED <<pongs, bw, fch>>
     \/ At(k, "wait") /\ Goto(k, "timedout") /\ UNCHANGED <<pongs, bw, fch>>
  /\ UNCHANGED <<status, err, pending, pout, armed, fired, ssid, inbox, pool, url,
                 reader, flusher, wg, spin, run, busVars>>

removeFlushEntry(k) ==
  /\ At(k, "timedout")
  /\ pongs' = [i \in DOMAIN pongs |-> IF pongs[i] = k THEN nil ELSE pongs[i]]
  /\ Goto(k, "callback")
  /\ UNCHANGED <<status, err, bw, pending, fch, pout, armed, fired, ssid, inbox, pool, url,
                 reader, flusher, wg, spin, run, busVars>>

(* The reconnect callback of the router, once it is registered. *)
apceraReconnectCB(k) ==
  /\ At(k, "callback")
  /\ IF run = "serving" THEN publish("start") ELSE UNCHANGED <<err, bw, fch>>
  /\ Goto(k, "done")
  /\ UNCHANGED <<status, pending, pongs, pout, armed, fired, ssid, inbox, pool, url,
                 reader, flusher, wg, spin, run, busVars>>

doReconnect(k) ==
  \/ waitForExits(k) \/ GatherPending(k) \/ selectNextServer(k)
  \/ DialFails(k) \/ InfoFails(k) \/ Reconnected(k)
  \/ FlushTimeout(k) \/ removeFlushEntry(k) \/ apceraReconnectCB(k)

(* spinUpSocketWatchers of loss k: it waits for the old watchers like
   doReconnect did, starts the new ones, and arms the ping timer. *)
spinUpSocketWatchers(k) ==
  /\ \/ /\ spin[k] = "kick" /\ spin' = [spin EXCEPT ![k] = "exits"]
        /\ KickOldFlusher
        /\ UNCHANGED <<reader, flusher, wg, pout, armed>>
     \/ /\ spin[k] = "exits" /\ wg = 0 /\ spin' = [spin EXCEPT ![k] = "start"]
        /\ UNCHANGED <<fch, reader, flusher, wg, pout, armed>>
     \/ /\ spin[k] = "start" /\ spin' = [spin EXCEPT ![k] = "arm"]
        /\ wg' = wg + 2
        /\ reader' = [reader EXCEPT ![k] = ReaderAt("read")]
        /\ flusher' = [flusher EXCEPT ![k] = "wait"]
        /\ UNCHANGED <<fch, pout, armed>>
     \/ /\ spin[k] = "arm" /\ spin' = [spin EXCEPT ![k] = "done"]
        /\ pout' = 0 /\ armed' = TRUE
        /\ UNCHANGED <<fch, reader, flusher, wg>>
  /\ UNCHANGED <<status, err, bw, pending, pongs, fired, ssid, inbox, pool, url,
                 reconnect, run, busVars>>

-------------------------------------------------------------------------------
(* The ping timer fires, and its callback takes the lock later. *)

PingTimerFires ==
  /\ armed /\ ~fired
  /\ Len(pongs) < budget.pings
  /\ armed' = FALSE /\ fired' = TRUE
  /\ UNCHANGED <<status, err, bw, pending, fch, pongs, pout, ssid, inbox, pool, url,
                 goVars, busVars>>

(* A live connection may be found stale only while more losses are allowed. *)
MayBeLost == link.state # "up" \/ Lost < budget.losses

processPingTimer ==
  /\ fired
  /\ fired' = FALSE
  /\ IF status # "CONNECTED"
       THEN UNCHANGED <<status, bw, fch, pongs, pout, armed, reconnect, link>>
       ELSE /\ pout' = pout + 1
            /\ \/ /\ pout' > MaxPingsOut /\ MayBeLost
                  /\ processReconnect
                  /\ UNCHANGED <<fch, pongs>>
               \/ /\ pout' <= MaxPingsOut
                  /\ sendPing(nil)
                  /\ armed' = TRUE
                  /\ UNCHANGED <<status, reconnect, link>>
  /\ UNCHANGED <<err, pending, ssid, inbox, pool, url, reader, flusher, wg, spin, run, budget>>

-------------------------------------------------------------------------------
(* The environment: the server of the current connection, and the network. *)

ServerSends ==
  /\ link.state = "up" /\ budget.msgs > 0
  /\ budget' = [budget EXCEPT !.msgs = @ - 1]
  /\ \E i \in {Item("MSG", s) : s \in link.heard} \cup {Item("STALE", nil), Item("ERR", nil)} :
       /\ i.op = "STALE" => Lost < budget.losses
       /\ link' = [link EXCEPT !.toClient = Append(@, i)]
  /\ UNCHANGED <<clientVars, goVars>>

(* A socket is reset, or falls silent: what is sent is lost and neither side is
   told.  A silent one may still be reset. *)
Breaks(state) ==
  /\ \/ link.state = "up" /\ Lost < budget.losses
     \/ link.state = "silent" /\ state = "reset"
  /\ state = "silent" => budget.pings > 0
  /\ link' = [link EXCEPT !.state = state, !.toClient = <<>>]
  /\ UNCHANGED <<clientVars, goVars, budget>>

-------------------------------------------------------------------------------
(* The steps of each goroutine, and of the environment. *)

RouterRun == Subscribe \/ SubscribeKick \/ SendStartMessage \/ AddReconnectedCB

readLoop(w) ==
  \/ readLoopError(w) \/ readLoopStops(w) \/ processPong(w) \/ HandPong(w) \/ processMsg(w)
  \/ processErr(w) \/ close(w) \/ clearPendingFlushCalls(w) \/ closedCallback(w)

flusherLoop(w) == FlusherKicked(w) \/ FlusherFlushes(w)

Environment ==
  ServerSends \/ Breaks("reset") \/ Breaks("silent")

Alive == run # "exited"

Next ==
  /\ Alive
  /\ \/ RouterRun \/ PingTimerFires \/ processPingTimer
     \/ \E w \in Watch : readLoop(w) \/ flusherLoop(w)
     \/ \E s \in Subject : deliverMsgs(s)
     \/ \E k \in Loss : doReconnect(k) \/ spinUpSocketWatchers(k)
     \/ Environment

(* Every goroutine runs when it can, timers run out, and dialling a steady
   server does not fail for ever; nothing has to break, and the other servers
   may refuse every time. *)
Fairness ==
  /\ WF_vars(Alive /\ RouterRun) /\ WF_vars(Alive /\ PingTimerFires) /\ WF_vars(Alive /\ processPingTimer)
  /\ \A w \in Watch : WF_vars(Alive /\ readLoop(w)) /\ WF_vars(Alive /\ flusherLoop(w))
  /\ \A s \in Subject : WF_vars(Alive /\ deliverMsgs(s))
  /\ \A k \in Loss : WF_vars(Alive /\ doReconnect(k)) /\ WF_vars(Alive /\ spinUpSocketWatchers(k))
  /\ \A k \in Loss, s \in Steady : SF_vars(Alive /\ url = s /\ Reconnected(k))

Spec == Init /\ [][Next]_vars /\ Fairness

-------------------------------------------------------------------------------
(* A connected client whose socket is live has told the server of each of the
   router's subscriptions or is about to: none that was made while the
   connection was lost, or just before, is forgotten (subscribe and
   resendSubscriptions). *)
SubsRestored ==
  (status = "CONNECTED" /\ link.state = "up") =>
    \A s \in subs : \/ s \in link.heard
                    \/ \E n \in Written("SUB") : s \in bw.buf[n].arg

(* On every connection the server reads one handshake, before anything else,
   and each subscription once, whatever was subscribed, published or pinged
   while the client was reconnecting (doReconnect, subscribe). *)
CleanHandshake == ~link.confused

FlushComing ==
  \/ fch > 0 \/ (\E w \in Watch : flusher[w] = "kicked") \/ run = "kick" \/ bw.failed
  \/ \E k \in Loss : spin[k] = "kick"

(* What the connected client of a running router has buffered is never left
   without a flush to come: a kick is not lost between two writers, to a flusher
   on its way out or to the exchange of the watchers (kickFlusher, flusher,
   waitForExits). *)
NoStrandedOutput == (Alive /\ status = "CONNECTED" /\ bw.buf # <<>>) => FlushComing

(* The read loop is stuck sending to a flush call whose timer ran out between
   processPong taking its channel off the list and the send. *)
Wedged == \E w \in Watch : reader[w].pc = "hand" /\ reconnect[reader[w].to] # "wait"

(* The bus has all of the router again: its subscriptions, and a start message
   unless a slow consumer's error refused it. *)
Back ==
  /\ status = "CONNECTED" /\ link.state = "up"
  /\ subs \subseteq link.heard
  /\ link.announced \/ err

(* A serving router whose connection fails, even silently, gets back to the bus
   and announces itself there as long as one server of the pool keeps coming
   back, unless the server dismissed it or its read loop is stuck. *)
BusRegained ==
  (run = "serving" /\ link.state # "up") ~> (Back \/ Wedged \/ status = "CLOSED")

(* An error that makes every publication fail, a slow consumer's among them,
   does not last: the next flush, at the latest of the ping timer's ping, or the
   next connection clears it (flusher, processPingTimer). *)
PublishRecovers == (budget.pings > 0 /\ err) ~> (~err \/ Wedged \/ status = "CLOSED")
===============================================================================
