---------------------------- MODULE NatsConnProofs ----------------------------
(***************************************************************************)
(* For any subjects, servers, number of lost connections and bounds: the   *)
(* safety properties of NatsConn.  First the inductive invariant and that  *)
(* the steps keep all of it but the types, then that they keep the types.  *)
(* The argument about handshakes and subscriptions rests on doReconnect    *)
(* being alone: while one loss is being repaired the socket is dead, so    *)
(* that what is written meanwhile goes to the pending buffer and holds     *)
(* neither a handshake nor a subscription.                                 *)
(***************************************************************************)
EXTENDS NatsConn, FiniteSetTheorems, TLAPS

Repairing == {"kick", "exits", "setup", "select", "dial"}

Plain(q) == \A n \in DOMAIN q : q[n].op \in {"PING", "PUB"}

(* One loss is repaired at a time, on a dead socket, and what is gathered
   meanwhile is neither handshake nor subscription. *)
Repair ==
  /\ \A k, j \in Loss : reconnect[k] \in Repairing /\ reconnect[j] \in Repairing => k = j
  /\ \A k \in Loss : reconnect[k] \in Repairing =>
       status # "CONNECTED" /\ link.state \in {"closed", "reset"}
  /\ \A k \in Loss : reconnect[k] \in {"select", "dial"} => pending \in Seq(Sent) /\ Plain(pending)
  /\ (status = "CONNECTED" \/ link.state = "up") => bw.to = "link"
  /\ bw.to = "pending" => Plain(bw.buf)

(* What a live socket has been told and what is still to be told it. *)
Told ==
  /\ Written("CONNECT") = IF link.greeted THEN {} ELSE {1}
  /\ link.heard \subseteq subs
  /\ \A n \in Written("SUB") :
       /\ bw.buf[n].arg \subseteq subs
       /\ bw.buf[n].arg \cap link.heard = {}
       /\ \A o \in Written("SUB") \ {n} : bw.buf[o].arg \cap bw.buf[n].arg = {}

Handshake == link.state = "up" => Told

Core == Repair /\ Handshake /\ SubsRestored /\ CleanHandshake

(* Losses are numbered in order, and the watchers of each are started once it
   is repaired. *)
Order ==
  /\ \E m \in 0 .. MaxLosses : \A k \in Loss : reconnect[k] # "none" <=> k <= m
  /\ \A k \in Loss : reconnect[k] \in Repairing \cup {"none"} => spin[k] = "none"
  /\ \A k \in Loss : spin[k] \in {"none", "kick", "exits", "start"} => flusher[k] = "off"

IInv == TypeOK /\ (run = "subscribe" => ssid < Len(Subjects)) /\ Core /\ Order /\ NoStrandedOutput

-------------------------------------------------------------------------------
(* What a sequence with a suffix is made of. *)
LEMMA Joined ==
  ASSUME NEW S, NEW q \in Seq(S), NEW r \in Seq(S)
  PROVE /\ q \o r \in Seq(S)
        /\ DOMAIN (q \o r) = 1 .. Len(q) + Len(r)
        /\ DOMAIN q = 1 .. Len(q) /\ DOMAIN r = 1 .. Len(r)
        /\ Len(q) \in Nat /\ Len(r) \in Nat
        /\ \A n \in DOMAIN q : (q \o r)[n] = q[n]
        /\ \A n \in DOMAIN (q \o r) \ DOMAIN q : n - Len(q) \in DOMAIN r /\ (q \o r)[n] = r[n - Len(q)]
  OBVIOUS

(* What follows a handshake and a line. *)
LEMMA AfterTwo ==
  ASSUME NEW S, NEW q \in Seq(S), NEW r \in Seq(S)
  PROVE Len(q) = 2 =>
          /\ DOMAIN (q \o r) = 1 .. Len(r) + 2
          /\ (q \o r)[1] = q[1] /\ (q \o r)[2] = q[2]
          /\ \A n \in 3 .. Len(r) + 2 : (q \o r)[n] = r[n - 2]
<1> DEFINE t == q \o r
           l == Len(q)
<1>1. DOMAIN t = 1 .. l + Len(r) /\ DOMAIN q = 1 .. l /\ Len(r) \in Nat OBVIOUS
<1>2. \A n \in DOMAIN q : t[n] = q[n] OBVIOUS
<1>3. \A n \in DOMAIN t \ DOMAIN q : t[n] = r[n - l] OBVIOUS
<1> HIDE DEF t, l
<1> SUFFICES ASSUME l = 2
             PROVE /\ DOMAIN t = 1 .. Len(r) + 2 /\ t[1] = q[1] /\ t[2] = q[2]
                   /\ \A n \in 3 .. Len(r) + 2 : t[n] = r[n - 2]
  BY Zenon DEF t, l
<1>4. DOMAIN t = 1 .. Len(r) + 2 BY <1>1
<1>5. t[1] = q[1] /\ t[2] = q[2] BY <1>1, <1>2
<1>6. \A n \in 3 .. Len(r) + 2 : n \in DOMAIN t \ DOMAIN q BY <1>1, <1>4
<1>7. \A n \in 3 .. Len(r) + 2 : t[n] = r[n - 2] BY <1>3, <1>6, Zenon
<1> QED BY <1>4, <1>5, <1>7, Zenon

(* A plain line at the end of the writer's buffer disturbs nothing. *)
LEMMA PlainWrite ==
  ASSUME TypeOK, Core, NEW x \in Sent, x.op \in {"PING", "PUB"},
         bw' = Write(<<x>>), UNCHANGED <<status, pending, ssid, link>>,
         \A k \in Loss : reconnect'[k] \in Repairing => reconnect'[k] = reconnect[k]
  PROVE Core'
<1>1. bw.buf \in Seq(Sent) /\ <<x>> \in Seq(Sent) BY DEF TypeOK, Writer
<1>2. bw' = [bw EXCEPT !.buf = bw.buf \o <<x>>] /\ bw'.buf = bw.buf \o <<x>> /\ bw'.to = bw.to
  BY Zenon DEF TypeOK, Write, Writer
<1>3. /\ DOMAIN bw.buf = 1 .. Len(bw.buf) /\ Len(bw.buf) \in Nat
      /\ DOMAIN bw'.buf = 1 .. Len(bw.buf) + 1
      /\ \A n \in DOMAIN bw.buf : bw'.buf[n] = bw.buf[n]
      /\ bw'.buf[Len(bw.buf) + 1] = x
  <2>1. Len(<<x>>) = 1 /\ <<x>>[1] = x BY Zenon
  <2>2. bw.buf \o <<x>> = Append(bw.buf, x) BY <1>1
  <2> QED BY <1>1, <1>2, <2>1, <2>2
<1>4. \A op \in {"CONNECT", "SUB"} : Written(op)' = Written(op)
  BY <1>3 DEF Written
<1>5. \A n \in Written("SUB") : bw'.buf[n] = bw.buf[n] BY <1>3, Zenon DEF Written
<1>6. subs' = subs BY Zenon DEF subs
<1>7. Repair'
  <2>1. \A k, j \in Loss : reconnect'[k] \in Repairing /\ reconnect'[j] \in Repairing => k = j
    BY Zenon DEF Core, Repair
  <2>2. \A k \in Loss : reconnect'[k] \in Repairing =>
          status' # "CONNECTED" /\ link'.state \in {"closed", "reset"}
    BY Zenon DEF Core, Repair
  <2>3. \A k \in Loss : reconnect'[k] \in {"select", "dial"} =>
          pending' \in Seq(Sent) /\ Plain(pending)'
    BY Zenon DEF Core, Repair, Repairing, Plain
  <2>4. (status' = "CONNECTED" \/ link'.state = "up") => bw'.to = "link" BY <1>2, Zenon DEF Core, Repair
  <2>5. bw'.to = "pending" => Plain(bw.buf)'
    <3>1. ASSUME bw'.to = "pending", NEW n \in DOMAIN bw'.buf
          PROVE bw'.buf[n].op \in {"PING", "PUB"}
      <4>1. n \in DOMAIN bw.buf \/ n = Len(bw.buf) + 1 BY <1>3
      <4>2. CASE n = Len(bw.buf) + 1 BY <4>2, <1>3, Zenon
      <4>3. CASE n \in DOMAIN bw.buf BY <4>3, <3>1, <1>2, <1>3, Zenon DEF Core, Repair, Plain
      <4> QED BY <4>1, <4>2, <4>3, Zenon
    <3> QED BY <3>1, Zenon DEF Core, Repair, Plain
  <2> QED BY <2>1, <2>2, <2>3, <2>4, <2>5, Zenon DEF Repair
<1>8. Handshake' BY <1>4, <1>5, <1>6 DEF Core, Handshake, Told
<1>9. SubsRestored' BY <1>4, <1>5, <1>6, Zenon DEF Core, SubsRestored
<1>10. CleanHandshake' BY Zenon DEF Core, CleanHandshake
<1> QED BY <1>7, <1>8, <1>9, <1>10, Zenon DEF Core

(* Steps that write nothing, and leave the socket and the repairs as they are. *)
LEMMA Quiet ==
  ASSUME TypeOK, Core, UNCHANGED <<bw, pending, ssid>>,
         status' = status \/ status' = "CLOSED",
         link'.state = link.state \/ (link'.state \in {"reset", "silent"} /\ link.state \in {"up", "silent"}),
         link'.greeted = link.greeted, link'.heard = link.heard, link'.confused = link.confused,
         \A k \in Loss : reconnect'[k] \in Repairing =>
           /\ reconnect[k] \in Repairing
           /\ reconnect'[k] \in {"select", "dial"} => reconnect[k] \in {"select", "dial"}
  PROVE Core'
<1>1. subs' = subs BY Zenon DEF subs
<1>2. \A op \in {"CONNECT", "SUB"} : Written(op)' = Written(op) BY Zenon DEF Written
<1>3. Repair'
  <2>1. \A k, j \in Loss : reconnect'[k] \in Repairing /\ reconnect'[j] \in Repairing => k = j
    BY Zenon DEF Core, Repair
  <2>2. \A k \in Loss : reconnect'[k] \in Repairing =>
          status' # "CONNECTED" /\ link'.state \in {"closed", "reset"}
    BY Zenon DEF Core, Repair
  <2>3. \A k \in Loss : reconnect'[k] \in {"select", "dial"} =>
          pending' \in Seq(Sent) /\ Plain(pending)'
    BY Zenon DEF Core, Repair, Repairing, Plain
  <2>4. (status' = "CONNECTED" \/ link'.state = "up") => bw'.to = "link" BY Zenon DEF Core, Repair
  <2>5. bw'.to = "pending" => Plain(bw.buf)'
    BY Zenon DEF Core, Repair, Plain
  <2> QED BY <2>1, <2>2, <2>3, <2>4, <2>5, Zenon DEF Repair
<1>4. Handshake' BY <1>1, <1>2, Zenon DEF Core, Handshake, Told
<1>5. SubsRestored' BY <1>1, <1>2, Zenon DEF Core, SubsRestored
<1>6. CleanHandshake' BY Zenon DEF Core, CleanHandshake
<1> QED BY <1>3, <1>4, <1>5, <1>6, Zenon DEF Core

-------------------------------------------------------------------------------
(* Lines are lines, wherever they come from. *)
LEMMA Lines ==
  /\ Item("PING", nil) \in Sent /\ Item("CONNECT", nil) \in Sent
  /\ Item("PING", nil).op = "PING" /\ Item("CONNECT", nil).op = "CONNECT"
  /\ \A m \in Publication : Item("PUB", m) \in Sent /\ Item("PUB", m).op = "PUB"
  /\ \A s \in SUBSET Subject : /\ Item("SUB", s) \in Sent
                               /\ Item("SUB", s).op = "SUB" /\ Item("SUB", s).arg = s
BY Zenon DEF Item, Sent

(* A new socket is a socket. *)
LEMMA LinkType ==
  \A st \in {"up", "reset", "silent", "closed"} :
    NewLink(st) \in Link
BY DEF NewLink, Link

(* What doReconnect has gathered when it dials. *)
LEMMA GatheredType ==
  ASSUME TypeOK, Repair, NEW k \in Loss, At(k, "dial")
  PROVE Gathered \in Seq(Sent) /\ Plain(Gathered)
<1>1. pending \in Seq(Sent) /\ Plain(pending) BY Zenon DEF TypeOK, Repair, At
<1>2. CASE bw.to # "pending" BY <1>1, <1>2, Zenon DEF Gathered
<1>3. CASE bw.to = "pending"
  <2>1. bw.buf \in Seq(Sent) /\ Plain(bw.buf) BY <1>3, Zenon DEF TypeOK, Writer, Repair
  <2>2. Gathered = pending \o bw.buf BY <1>3, Zenon DEF Gathered
  <2>3. Gathered \in Seq(Sent) BY <1>1, <2>1, <2>2, Joined, Zenon
  <2>4. ASSUME NEW n \in DOMAIN (pending \o bw.buf)
        PROVE (pending \o bw.buf)[n].op \in {"PING", "PUB"}
    <3>1. CASE n \in DOMAIN pending BY <3>1, <1>1, <2>1, Joined DEF Plain
    <3>2. CASE n \notin DOMAIN pending
      <4>1. n - Len(pending) \in DOMAIN bw.buf /\ (pending \o bw.buf)[n] = bw.buf[n - Len(pending)]
        BY <3>2, <2>4, <1>1, <2>1, Joined
      <4> QED BY <4>1, <2>1, Zenon DEF Plain
    <3> QED BY <3>1, <3>2, Zenon
  <2> QED BY <2>2, <2>3, <2>4, Zenon DEF Plain
<1> QED BY <1>2, <1>3, Zenon

-------------------------------------------------------------------------------
(* Core under the writes of the client. *)

(* A publication, wherever it goes, is no handshake and no subscription. *)
LEMMA PublishCore ==
  ASSUME TypeOK, Core, NEW m \in Publication, publish(m), UNCHANGED <<status, pending, ssid, link>>,
         \A k \in Loss : reconnect'[k] \in Repairing => reconnect'[k] = reconnect[k]
  PROVE Core'
<1>1. CASE bw' = bw BY <1>1, Quiet, Zenon
<1>2. CASE bw' = Write(<<Item("PUB", m)>>) BY <1>2, PlainWrite, Lines, Zenon
<1> QED BY <1>1, <1>2, Zenon DEF publish

(* Nor is a ping. *)
LEMMA PingCore ==
  ASSUME TypeOK, Core, NEW ch, sendPing(ch), UNCHANGED <<status, pending, ssid, link>>,
         \A k \in Loss : reconnect'[k] \in Repairing => reconnect'[k] = reconnect[k]
  PROVE Core'
BY PlainWrite, Lines, Zenon DEF sendPing

(* A subscription is new to a live socket, and left out while reconnecting. *)
LEMMA SubscribeCore ==
  ASSUME BusAssumption, IInv, Subscribe
  PROVE Core'
<1> USE DEF IInv
<1>1. /\ UNCHANGED <<status, pending, link, reconnect>> /\ ssid' = ssid + 1 /\ ssid \in Nat
      /\ ssid < Len(Subjects) /\ status # "CLOSED" /\ bw' = Write(SubLine(Subjects[ssid + 1]))
  BY BusAssumption DEF Subscribe, TypeOK, busVars
<1> DEFINE s == Subjects[ssid + 1]
<1>2. subs' = subs \cup {s} /\ s \notin subs /\ s \in Subject
  <2>1. /\ subs' = {Subjects[i] : i \in 1 .. ssid + 1} /\ subs = {Subjects[i] : i \in 1 .. ssid}
    BY <1>1, Zenon DEF subs
  <2>2. DOMAIN Subjects = 1 .. Len(Subjects) /\ Len(Subjects) \in Nat BY BusAssumption
  <2>3. 1 .. ssid + 1 = (1 .. ssid) \cup {ssid + 1} /\ ssid + 1 \in DOMAIN Subjects
        /\ 1 .. ssid \subseteq DOMAIN Subjects /\ ssid + 1 \notin 1 .. ssid
    BY <1>1, <2>2
  <2>4. \A i \in 1 .. ssid : Subjects[i] # s BY <2>3, BusAssumption, Zenon
  <2> QED BY <2>1, <2>2, <2>3, <2>4 DEF Subject
<1>3. bw \in Writer /\ bw.buf \in Seq(Sent) BY Zenon DEF TypeOK, Writer
<1>4. CASE status = "RECONNECTING"
  <2>1. bw.buf \o <<>> = bw.buf BY <1>3
  <2>2. bw' = bw BY <1>1, <1>3, <1>4, <2>1, Zenon DEF SubLine, Write, Writer
  <2>3. \A op \in {"CONNECT", "SUB"} : Written(op)' = Written(op) BY <2>2, Zenon DEF Written
  <2>4. Repair' BY <1>1, <2>2, Zenon DEF Core, Repair, Plain
  <2>5. Handshake' BY <1>1, <1>2, <2>2, <2>3, Zenon DEF Core, Handshake, Told
  <2>6. SubsRestored' BY <1>1, <1>4, Zenon DEF SubsRestored
  <2>7. CleanHandshake' BY <1>1, Zenon DEF Core, CleanHandshake
  <2> QED BY <2>4, <2>5, <2>6, <2>7, Zenon DEF Core
<1>5. CASE status = "CONNECTED"
  <2> DEFINE x == Item("SUB", {s})
             last == Len(bw.buf) + 1
  <2>1. x \in Sent /\ x.op = "SUB" /\ x.arg = {s} BY <1>2, Lines, Zenon
  <2>2. bw' = [bw EXCEPT !.buf = bw.buf \o <<x>>] BY <1>1, <1>5, Zenon DEF SubLine, Write
  <2>3. bw'.buf = Append(bw.buf, x) /\ bw'.to = bw.to BY <1>3, <2>1, <2>2 DEF Writer
  <2>4. /\ Len(bw.buf) \in Nat /\ DOMAIN bw.buf = 1 .. Len(bw.buf) /\ DOMAIN bw'.buf = 1 .. last
        /\ \A n \in 1 .. Len(bw.buf) : bw'.buf[n] = bw.buf[n]
        /\ bw'.buf[last] = x
    BY <1>3, <2>1, <2>3, SMTT(30)
  <2> HIDE DEF x
  <2>5. 1 .. last = (1 .. Len(bw.buf)) \cup {last} /\ last \notin 1 .. Len(bw.buf) BY <2>4
  <2>6. Written("SUB")' = Written("SUB") \cup {last} /\ last \notin Written("SUB")
    BY <2>1, <2>4, <2>5 DEF Written
  <2>7. Written("CONNECT")' = Written("CONNECT") BY <2>1, <2>4, <2>5 DEF Written
  <2>8. \A n \in Written("SUB") : bw'.buf[n] = bw.buf[n] BY <2>4, Zenon DEF Written
  <2>9. bw'.buf[last].arg = {s} BY <2>1, <2>4, Zenon
  <2> HIDE DEF s, last
  <2>10. Repair' BY <1>1, <1>5, <2>3, Zenon DEF Core, Repair, Plain
  <2>11. Handshake'
    <3> SUFFICES ASSUME link'.state = "up" PROVE Told' BY Zenon DEF Handshake, Told
    <3>1. link.state = "up" BY <1>1, Zenon
    <3>2. Told BY <3>1, Zenon DEF Core, Handshake
    <3>3. Written("CONNECT")' = IF link'.greeted THEN {} ELSE {1} BY <1>1, <2>7, <3>2, Zenon DEF Told
    <3>4. link'.heard \subseteq subs' BY <1>1, <1>2, <3>2, Zenon DEF Told
    <3>5. ASSUME NEW n \in Written("SUB")'
          PROVE /\ bw'.buf[n].arg \subseteq subs' /\ bw'.buf[n].arg \cap link'.heard = {}
                /\ \A o \in Written("SUB")' \ {n} : bw'.buf[o].arg \cap bw'.buf[n].arg = {}
      <4>1. /\ link'.heard = link.heard /\ s \notin link.heard
            /\ \A o \in Written("SUB") : /\ bw'.buf[o] = bw.buf[o]
                                        /\ bw.buf[o].arg \subseteq subs
                                        /\ bw.buf[o].arg \cap link.heard = {}
                                        /\ s \notin bw.buf[o].arg
        BY <1>1, <1>2, <2>8, <3>1, <3>2, Zenon DEF Told
      <4>2. CASE n = last BY <4>1, <4>2, <1>2, <2>6, <2>9
      <4>3. CASE n \in Written("SUB")
        <5>1. \A o \in Written("SUB") \ {n} : bw.buf[o].arg \cap bw.buf[n].arg = {}
          BY <4>3, <3>2, Zenon DEF Told
        <5> QED BY <4>1, <4>3, <5>1, <1>2, <2>6, <2>9
      <4> QED BY <4>2, <4>3, <2>6, Zenon
    <3> QED BY <3>3, <3>4, <3>5, Zenon DEF Told
  <2>12. SubsRestored' BY <1>1, <1>2, <2>6, <2>8, <2>9 DEF Core, SubsRestored
  <2>13. CleanHandshake' BY <1>1, Zenon DEF Core, CleanHandshake
  <2> QED BY <2>10, <2>11, <2>12, <2>13, Zenon DEF Core
<1> QED BY <1>1, <1>4, <1>5, Zenon DEF TypeOK

-------------------------------------------------------------------------------
(* Core when a connection is lost, flushed, and made anew. *)

(* The loss of a connection, which begins the only repair. *)
LEMMA ReconnectCore ==
  ASSUME TypeOK, Core, processReconnect, UNCHANGED <<pending, ssid>>
  PROVE Core'
<1>1. CASE status # "CONNECTED"
  BY <1>1, Quiet, Zenon DEF processReconnect
<1>2. CASE status = "CONNECTED"
  <2>1. /\ status' = "RECONNECTING" /\ bw' = Flushed /\ link' = NewLink("closed")
        /\ reconnect' = [reconnect EXCEPT ![Lost + 1] = "kick"]
    BY <1>2, Zenon DEF processReconnect
  <2>2. bw'.to = "link" BY <1>2, <2>1, Zenon DEF Core, Repair, Flushed, TypeOK, Writer
  <2>3. link'.state = "closed" /\ ~link'.confused BY <2>1, Zenon DEF NewLink
  <2>4. \A k \in Loss : reconnect[k] \notin Repairing BY <1>2, Zenon DEF Core, Repair
  <2>5. \A k \in Loss : reconnect'[k] \in Repairing => k = Lost + 1 /\ reconnect'[k] = "kick"
    BY <2>1, <2>4, Zenon DEF TypeOK
  <2>6. Repair' BY <2>1, <2>2, <2>3, <2>5, Zenon DEF Repair, Repairing
  <2> QED BY <2>1, <2>3, <2>6, ZenonT(30) DEF Core, Handshake, Told, SubsRestored, CleanHandshake
<1> QED BY <1>1, <1>2, Zenon

(* A flush: the server reads what Told says is in the buffer. *)
LEMMA FlushCore ==
  ASSUME TypeOK, Core, status = "CONNECTED", bw' = Flushed, link' = FlushTo(link),
         UNCHANGED <<status, pending, ssid, reconnect>>
  PROVE Core'
<1>1. bw \in Writer /\ bw.buf \in Seq(Sent) /\ bw.to = "link" BY Zenon DEF TypeOK, Writer, Core, Repair
<1>2. bw'.to = "link" BY <1>1, Zenon DEF Flushed, Writer
<1>3. link'.state = link.state BY Zenon DEF FlushTo, TypeOK, Link
<1>4. Repair' BY <1>2, <1>3, Zenon DEF Core, Repair, Plain
<1>5. subs' = subs BY Zenon DEF subs
<1>6. CASE link.state # "up"
  <2>1. link' = link BY <1>6, Zenon DEF FlushTo
  <2> QED BY <1>4, <1>6, <2>1, Zenon DEF Core, Handshake, Told, SubsRestored, CleanHandshake
<1>7. CASE link.state = "up"
  <2>1. bw'.buf = <<>> BY <1>1, <1>7, Zenon DEF Flushed, Writer
  <2>2. \A op \in {"CONNECT", "SUB"} : Written(op)' = {} BY <2>1 DEF Written
  <2> DEFINE told == UNION {bw.buf[n].arg : n \in Written("SUB")}
  <2>3. CASE bw.buf = <<>>
    <3>1. link' = link BY <2>3, Zenon DEF FlushTo
    <3>2. \A op \in {"CONNECT", "SUB"} : Written(op) = {} BY <2>3 DEF Written
    <3> QED BY <1>4, <1>5, <2>2, <3>1, <3>2, Zenon DEF Core, Handshake, Told, SubsRestored, CleanHandshake
  <2>4. CASE bw.buf # <<>>
    <3>1. Told BY <1>7, Zenon DEF Core, Handshake, Told
    <3>2. /\ link'.greeted = TRUE
          /\ link'.heard = link.heard \cup told
          /\ link'.confused =
               (\/ link.confused
                \/ Written("CONNECT") # (IF link.greeted THEN {} ELSE {1})
                \/ \E n \in Written("SUB") :
                     \/ bw.buf[n].arg \cap link.heard # {}
                     \/ \E o \in Written("SUB") \ {n} : bw.buf[o].arg \cap bw.buf[n].arg # {})
      BY <1>7, <2>4, Zenon DEF FlushTo, TypeOK, Link
    <3>3. ~link'.confused BY <3>1, <3>2, Zenon DEF Told, Core, CleanHandshake
    <3>4. told \subseteq subs BY <3>1, Zenon DEF Told
    <3>5. \A s \in subs : s \in link.heard \cup told BY <1>7, Zenon DEF Core, SubsRestored
    <3>6. Handshake' BY <1>5, <2>2, <3>1, <3>2, <3>4, Zenon DEF Handshake, Told
    <3>7. SubsRestored' BY <1>5, <3>2, <3>5, Zenon DEF SubsRestored
    <3> QED BY <1>4, <3>3, <3>6, <3>7, Zenon DEF Core, CleanHandshake
  <2> QED BY <2>3, <2>4, Zenon
<1> QED BY <1>6, <1>7, Zenon

(* The pending buffer starts empty. *)
LEMMA GatherCore ==
  ASSUME TypeOK, Core, NEW k \in Loss, GatherPending(k)
  PROVE Core'
<1>1. /\ At(k, "setup") /\ pending' = <<>> /\ bw'.buf = <<>>
      /\ reconnect' = [reconnect EXCEPT ![k] = "select"] /\ UNCHANGED <<status, ssid, link>>
  BY Zenon DEF GatherPending, Goto, busVars
<1>2. reconnect[k] \in Repairing /\ status # "CONNECTED" /\ link.state \in {"closed", "reset"}
  BY <1>1, Zenon DEF At, Repairing, Core, Repair
<1>3. \A j \in Loss : reconnect'[j] \in Repairing => reconnect[j] \in Repairing /\ j = k
  BY <1>1, <1>2, Zenon DEF Core, Repair, TypeOK
<1>4. Plain(<<>>) /\ <<>> \in Seq(Sent) BY DEF Plain
<1>5. Repair' BY <1>1, <1>2, <1>3, <1>4, Zenon DEF Repair, Plain, Repairing
<1> QED BY <1>1, <1>2, <1>5, Zenon DEF Core, Handshake, Told, SubsRestored, CleanHandshake

(* A dial that fails half-way leaves a dead socket. *)
LEMMA InfoCore ==
  ASSUME TypeOK, Core, NEW k \in Loss, InfoFails(k)
  PROVE Core'
<1>1. /\ At(k, "dial") /\ pending' = Gathered /\ bw'.to = "link" /\ link' = NewLink("reset")
      /\ reconnect' = [reconnect EXCEPT ![k] = "select"] /\ UNCHANGED <<status, ssid>>
  BY Zenon DEF InfoFails, Goto
<1>2. reconnect[k] \in Repairing /\ status # "CONNECTED"
  BY <1>1, Zenon DEF At, Repairing, Core, Repair
<1>3. \A j \in Loss : reconnect'[j] \in Repairing => reconnect[j] \in Repairing /\ j = k
  BY <1>1, <1>2, Zenon DEF Core, Repair, TypeOK
<1>4. Gathered \in Seq(Sent) /\ Plain(Gathered) BY <1>1, GatheredType, Zenon DEF Core
<1>5. link'.state = "reset" /\ ~link'.confused BY <1>1, Zenon DEF NewLink
<1>6. Repair' BY <1>1, <1>2, <1>3, <1>4, <1>5, Zenon DEF Repair, Plain, Repairing
<1> QED BY <1>1, <1>2, <1>5, <1>6, Zenon DEF Core, Handshake, Told, SubsRestored, CleanHandshake

(* What is written on a new connection: a handshake, all subscriptions, and
   then plain lines. *)
LEMMA Opening ==
  ASSUME BusAssumption, TypeOK, Core, NEW k \in Loss, Reconnected(k)
  PROVE /\ Written("CONNECT")' = {1}
        /\ subs = {} => Written("SUB")' = {}
        /\ subs # {} => Written("SUB")' = {2} /\ bw'.buf[2].arg = subs
<1> DEFINE c == Item("CONNECT", nil)
           r == resendSubscriptions
           g == Gathered
<1>1. bw'.buf = <<c>> \o r \o g BY Zenon DEF Reconnected
<1>2. g \in Seq(Sent) /\ Plain(g) BY GatheredType, Zenon DEF Core, Reconnected
<1>3. c \in Sent /\ c.op = "CONNECT" BY Lines, Zenon
<1>4. DOMAIN g = 1 .. Len(g) /\ Len(g) \in Nat /\ \A n \in 1 .. Len(g) : g[n].op \in {"PING", "PUB"}
  BY <1>2 DEF Plain
<1>5. CASE subs = {}
  <2>1. r = <<>> BY <1>5, Zenon DEF resendSubscriptions
  <2>2. bw'.buf = <<c>> \o g
    <3> HIDE DEF c, g, r
    <3>1. <<c>> \o <<>> = <<c>> OBVIOUS
    <3> QED BY <1>1, <2>1, <3>1, Zenon
  <2> HIDE DEF c, g, r
  <2>3. /\ DOMAIN bw'.buf = 1 .. Len(g) + 1 /\ bw'.buf[1] = c
        /\ \A n \in 2 .. Len(g) + 1 : bw'.buf[n] = g[n - 1]
    BY <2>2, <1>2, <1>3
  <2>4. \A n \in 2 .. Len(g) + 1 : bw'.buf[n].op \in {"PING", "PUB"} BY <2>3, <1>4
  <2>5. 1 .. Len(g) + 1 = {1} \cup 2 .. Len(g) + 1 /\ 1 \notin 2 .. Len(g) + 1 BY <1>4
  <2> QED BY <1>3, <1>5, <2>3, <2>4, <2>5, ZenonT(30) DEF Written
<1>6. CASE subs # {}
  <2> DEFINE x == Item("SUB", subs)
  <2>0. subs \subseteq Subject BY BusAssumption DEF subs, Subject, TypeOK
  <2>1. r = <<x>> /\ x \in Sent /\ x.op = "SUB" /\ x.arg = subs
    BY <1>6, <2>0, Lines, Zenon DEF resendSubscriptions
  <2> DEFINE q == <<c>> \o <<x>>
  <2>2. bw'.buf = q \o g /\ q \in Seq(Sent) /\ Len(q) = 2 /\ q[1] = c /\ q[2] = x
    <3> HIDE DEF c, g, r, x
    <3> QED BY <1>1, <1>3, <2>1
  <2> HIDE DEF c, g, r, x, q
  <2>3. /\ DOMAIN bw'.buf = 1 .. Len(g) + 2 /\ bw'.buf[1] = c /\ bw'.buf[2] = x
        /\ \A n \in 3 .. Len(g) + 2 : bw'.buf[n] = g[n - 2]
    BY <2>2, <1>2, AfterTwo
  <2>4. \A n \in 3 .. Len(g) + 2 : bw'.buf[n].op \in {"PING", "PUB"} BY <2>3, <1>4
  <2>5. 1 .. Len(g) + 2 = {1, 2} \cup 3 .. Len(g) + 2 /\ {1, 2} \cap 3 .. Len(g) + 2 = {} BY <1>4, SMTT(30)
  <2> QED BY <1>3, <1>6, <2>1, <2>3, <2>4, <2>5, ZenonT(30) DEF Written
<1> QED BY <1>5, <1>6, Zenon

(* A connection made anew is told everything, once. *)
LEMMA ReconnectedCore ==
  ASSUME BusAssumption, TypeOK, Core, NEW k \in Loss, Reconnected(k)
  PROVE Core'
<1>1. /\ At(k, "dial") /\ status' = "CONNECTED" /\ bw'.to = "link" /\ link' = NewLink("up")
      /\ reconnect' = [reconnect EXCEPT ![k] = "flush"] /\ ssid' = ssid
  BY Zenon DEF Reconnected, Goto
<1>2. \A j \in Loss : reconnect'[j] \notin Repairing
  BY <1>1, Zenon DEF At, Repairing, Core, Repair, TypeOK
<1>3. link'.state = "up" /\ ~link'.confused /\ link'.heard = {} /\ ~link'.greeted BY <1>1, Zenon DEF NewLink
<1>4. subs' = subs BY <1>1, Zenon DEF subs
<1>5. Repair' BY <1>1, <1>2, Zenon DEF Repair, Repairing
<1>6. Handshake' BY <1>3, <1>4, Opening, Zenon DEF Handshake, Told
<1>7. SubsRestored' BY <1>4, Opening, Zenon DEF SubsRestored
<1> QED BY <1>3, <1>5, <1>6, <1>7, Zenon DEF Core, CleanHandshake

-------------------------------------------------------------------------------
(* The order of losses. *)

(* Steps that begin no loss and start no watchers. *)
LEMMA Onward ==
  ASSUME TypeOK, Order, spin' = spin,
         \A k \in Loss : reconnect'[k] # "none" <=> reconnect[k] # "none",
         \A k \in Loss : reconnect'[k] \in Repairing => reconnect[k] \in Repairing,
         \A k \in Loss : flusher[k] = "off" => flusher'[k] = "off"
  PROVE Order'
<1>1. PICK m \in 0 .. MaxLosses : \A k \in Loss : reconnect[k] # "none" <=> k <= m BY Zenon DEF Order
<1>2. \A k \in Loss : reconnect'[k] # "none" <=> k <= m BY <1>1, Zenon
<1>3. \A k \in Loss : reconnect'[k] \in Repairing \cup {"none"} => reconnect[k] \in Repairing \cup {"none"}
  BY Zenon
<1> QED BY <1>2, <1>3, Zenon DEF Order

(* The losses so far are the first ones. *)
LEMMA NextLoss ==
  ASSUME BusAssumption, NEW m \in 0 .. MaxLosses, \A k \in Loss : reconnect[k] # "none" <=> k <= m
  PROVE Lost = m
<1>1. ASSUME NEW i \in 0 .. MaxLosses, NEW j \in 0 .. MaxLosses, i < j,
             \A k \in Loss : k <= i <=> k <= j
      PROVE FALSE
  <2>1. j \in Loss /\ ~(j <= i) /\ j <= j BY <1>1, BusAssumption DEF Loss
  <2> QED BY <1>1, <2>1, Zenon
<1>2. ASSUME NEW i \in 0 .. MaxLosses, \A k \in Loss : reconnect[k] # "none" <=> k <= i
      PROVE i = m
  <2>1. \A k \in Loss : k <= i <=> k <= m BY <1>2, Zenon
  <2>2. i < m \/ m < i \/ i = m BY BusAssumption
  <2> QED BY <1>1, <2>1, <2>2, Zenon
<1> QED BY <1>2, Zenon DEF Lost

(* The loss of a connection is the next one. *)
LEMMA ReconnectOrder ==
  ASSUME BusAssumption, TypeOK, Order, processReconnect, UNCHANGED <<spin, flusher>>
  PROVE Order'
<1>1. CASE status # "CONNECTED" BY <1>1, Onward, Zenon DEF processReconnect
<1>2. CASE status = "CONNECTED"
  <2>1. PICK m \in 0 .. MaxLosses : \A k \in Loss : reconnect[k] # "none" <=> k <= m BY Zenon DEF Order
  <2>2. Lost = m BY <2>1, NextLoss, Zenon
  <2>3. reconnect' = [reconnect EXCEPT ![m + 1] = "kick"] BY <1>2, <2>2, Zenon DEF processReconnect
  <2>4. m \in Nat /\ MaxLosses \in Nat /\ m <= MaxLosses /\ Loss = 1 .. MaxLosses
    BY BusAssumption DEF Loss
  <2>5. CASE m = MaxLosses
    <3>1. m + 1 \notin Loss BY <2>4, <2>5
    <3>2. \A k \in Loss : reconnect'[k] = reconnect[k] BY <2>3, <3>1, Zenon DEF TypeOK
    <3> QED BY <3>2, Onward, Zenon
  <2>6. CASE m # MaxLosses
    <3>1. m + 1 \in Loss /\ m + 1 \in 0 .. MaxLosses BY <2>4, <2>6
    <3>2. reconnect'[m + 1] = "kick" /\ \A k \in Loss \ {m + 1} : reconnect'[k] = reconnect[k]
      BY <2>3, <3>1, Zenon DEF TypeOK
    <3>3. ~(m + 1 <= m) /\ \A k \in Loss \ {m + 1} : k <= m <=> k <= m + 1 BY <2>4
    <3>4. \A k \in Loss : reconnect'[k] # "none" <=> k <= m + 1
      <4> TAKE k \in Loss
      <4>1. CASE k = m + 1 BY <4>1, <3>2, <2>4
      <4>2. CASE k # m + 1 BY <4>2, <3>2, <3>3, <2>1, Zenon
      <4> QED BY <4>1, <4>2, Zenon
    <3>5. reconnect[m + 1] = "none" BY <2>1, <3>1, <3>3, Zenon
    <3>6. \A k \in Loss : reconnect'[k] \in Repairing \cup {"none"} => reconnect[k] \in Repairing \cup {"none"}
      BY <3>2, <3>5, Zenon
    <3> QED BY <3>1, <3>4, <3>6, Zenon DEF Order
  <2> QED BY <2>5, <2>6, Zenon
<1> QED BY <1>1, <1>2, Zenon

-------------------------------------------------------------------------------
(* Output that waits for a flush. *)

Awaited ==
  /\ \A w \in Watch : flusher[w] = "kicked" => flusher'[w] = "kicked"
  /\ \A k \in Loss : spin[k] = "kick" => spin'[k] = "kick"
  /\ run = "kick" => run' \in {"kick", "exited"}

(* After kickFlusher there is a kick. *)
LEMMA Kicked ==
  ASSUME TypeOK, kickFlusher
  PROVE fch' > 0
BY DEF TypeOK, kickFlusher

(* Steps that neither write nor take a kick. *)
LEMMA SamePlace ==
  ASSUME TypeOK, NoStrandedOutput, Alive, Awaited, UNCHANGED <<status, bw, fch>>
  PROVE NoStrandedOutput'
BY Zenon DEF NoStrandedOutput, FlushComing, Awaited, Alive

(* What is published is followed by a kick. *)
LEMMA PublishFlush ==
  ASSUME TypeOK, NoStrandedOutput, Alive, Awaited, UNCHANGED status, NEW m, publish(m)
  PROVE NoStrandedOutput'
<1>1. CASE UNCHANGED <<bw, fch>> BY <1>1, SamePlace, Zenon
<1>2. CASE kickFlusher BY <1>2, Kicked, Zenon DEF NoStrandedOutput, FlushComing
<1> QED BY <1>1, <1>2, Zenon DEF publish

(* A client without a connection has nothing to flush. *)
LEMMA ReconnectFlush ==
  ASSUME TypeOK, NoStrandedOutput, Alive, Awaited, processReconnect, fch' = fch
  PROVE NoStrandedOutput'
<1>1. CASE status # "CONNECTED" BY <1>1, SamePlace, Zenon DEF processReconnect
<1>2. CASE status = "CONNECTED" BY <1>2, Zenon DEF processReconnect, NoStrandedOutput
<1> QED BY <1>1, <1>2, Zenon

-------------------------------------------------------------------------------
(* The steps of each goroutine. *)

Kept == Core' /\ Order' /\ NoStrandedOutput'

(* Router.Run keeps the invariant, ... *)
LEMMA RunKeeps ==
  ASSUME BusAssumption, IInv, Alive, RouterRun
  PROVE Kept
<1> USE DEF Kept, IInv
<1>1. CASE Subscribe
  <2>1. Order' BY <1>1, Onward, Zenon DEF Subscribe
  <2>2. NoStrandedOutput' BY <1>1, ZenonT(30) DEF Subscribe, NoStrandedOutput, FlushComing
  <2> QED BY <1>1, <2>1, <2>2, SubscribeCore, Zenon
<1>2. CASE SubscribeKick
  <2>1. Core' /\ Order' BY <1>2, Quiet, Onward, Zenon DEF SubscribeKick, busVars
  <2>2. fch' > 0 BY <1>2, Kicked, Zenon DEF SubscribeKick
  <2> QED BY <2>1, <2>2, Zenon DEF NoStrandedOutput, FlushComing
<1>3. CASE SendStartMessage
  <2>1. publish("start") /\ "start" \in Publication BY <1>3, Zenon DEF SendStartMessage, Publication
  <2>2. UNCHANGED <<status, pending, ssid, link, reconnect, spin, flusher>> /\ run = "start"
    BY <1>3, Zenon DEF SendStartMessage, busVars
  <2>3. Core' /\ Order' BY <2>1, <2>2, PublishCore, Onward, Zenon
  <2>4. Awaited BY <2>2, Zenon DEF Awaited
  <2> QED BY <2>1, <2>2, <2>3, <2>4, PublishFlush, Zenon
<1>4. CASE AddReconnectedCB
  <2>1. UNCHANGED <<status, bw, fch, pending, ssid, link, reconnect, spin, flusher>> /\ run = "addcb"
    BY <1>4, Zenon DEF AddReconnectedCB, clientVars, busVars
  <2>2. Awaited BY <2>1, Zenon DEF Awaited
  <2> QED BY <2>1, <2>2, Quiet, Onward, SamePlace, Zenon
<1> QED BY <1>1, <1>2, <1>3, <1>4, Zenon DEF RouterRun

(* ... and so do a read loop, ... *)
LEMMA ReadKeeps ==
  ASSUME BusAssumption, IInv, Alive, NEW w \in Watch, readLoop(w)
  PROVE Kept
<1> USE DEF Kept, IInv
<1>a. ASSUME UNCHANGED <<status, bw, fch, pending, ssid, spin, flusher, reconnect>>, Awaited,
             link'.state = link.state, link'.greeted = link.greeted,
             link'.heard = link.heard, link'.confused = link.confused
      PROVE Kept
  BY <1>a, Quiet, Onward, SamePlace, ZenonT(30)
<1>b. ASSUME processReconnect, UNCHANGED <<fch, pending, ssid, spin, flusher, run>>
      PROVE Kept
  <2>1. Awaited BY <1>b, Zenon DEF Awaited
  <2> QED BY <1>b, <2>1, ReconnectCore, ReconnectOrder, ReconnectFlush, Zenon
<1>c. ASSUME NEW op, Incoming(w, op)
      PROVE /\ link'.state = link.state /\ link'.greeted = link.greeted
            /\ link'.heard = link.heard /\ link'.confused = link.confused
  BY <1>c, Zenon DEF Incoming, TypeOK, Link
<1>1. CASE readLoopError(w) BY <1>1, <1>b, ZenonT(30) DEF readLoopError
<1>2. CASE readLoopStops(w)
  BY <1>2, <1>a, ZenonT(30) DEF readLoopStops, Awaited, clientVars, busVars
<1>3. CASE processPong(w)
  BY <1>3, <1>a, <1>c, ZenonT(30) DEF processPong, Awaited
<1>4. CASE HandPong(w)
  <2>1. /\ UNCHANGED <<status, bw, fch, pending, ssid, spin, flusher, run, link>>
        /\ reconnect[reader[w].to] = "wait"
        /\ reconnect' = [reconnect EXCEPT ![reader[w].to] = "callback"]
    BY <1>4, Zenon DEF HandPong, clientVars, busVars
  <2>2. \A k \in Loss : \/ reconnect'[k] = reconnect[k]
                        \/ reconnect[k] = "wait" /\ reconnect'[k] = "callback"
    BY <2>1, Zenon DEF TypeOK
  <2>3. Core' BY <2>1, <2>2, Quiet, Zenon DEF Repairing
  <2>4. Order' BY <2>1, <2>2, Onward, ZenonT(30) DEF Repairing
  <2>5. NoStrandedOutput' BY <2>1, SamePlace, ZenonT(30) DEF Awaited
  <2> QED BY <2>3, <2>4, <2>5, Zenon
<1>5. CASE processMsg(w)
  BY <1>5, <1>a, <1>c, Zenon DEF processMsg, Awaited, goVars
<1>6. CASE processErr(w)
  <2>1. CASE Arrives(w, "STALE") /\ processReconnect /\ UNCHANGED <<err, reader>>
    BY <1>6, <2>1, <1>b, Zenon DEF processErr
  <2>2. CASE Incoming(w, "ERR") /\ UNCHANGED <<status, bw, armed, reconnect>>
    BY <1>6, <2>2, <1>a, <1>c, Zenon DEF processErr, Awaited
  <2> QED BY <1>6, <2>1, <2>2, Zenon DEF processErr
<1>7. CASE close(w)
  <2>1. status' = "CLOSED" /\ UNCHANGED <<bw, pending, ssid, link, reconnect, spin, flusher>>
    BY <1>7, Zenon DEF close, busVars
  <2> QED BY <2>1, Quiet, Onward, Zenon DEF NoStrandedOutput
<1>8. CASE clearPendingFlushCalls(w)
  BY <1>8, <1>a, ZenonT(30) DEF clearPendingFlushCalls, Awaited, busVars
<1>9. CASE closedCallback(w)
  BY <1>9, <1>a, ZenonT(30) DEF closedCallback, Awaited, clientVars, busVars
<1> QED BY <1>1, <1>2, <1>3, <1>4, <1>5, <1>6, <1>7, <1>8, <1>9, Zenon DEF readLoop

(* ... a flusher, ... *)
LEMMA FlusherKeeps ==
  ASSUME BusAssumption, IInv, Alive, NEW w \in Watch, flusherLoop(w)
  PROVE Kept
<1> USE DEF Kept, IInv
<1>1. CASE FlusherKicked(w)
  <2>1. /\ flusher[w] = "wait" /\ flusher' = [flusher EXCEPT ![w] = "kicked"]
        /\ UNCHANGED <<status, bw, pending, ssid, link, reconnect, spin>>
    BY <1>1, Zenon DEF FlusherKicked, busVars
  <2>2. flusher'[w] = "kicked" /\ \A k \in Loss : flusher[k] = "off" => flusher'[k] = "off"
    BY <2>1, SMTT(30) DEF TypeOK, Watch, Loss
  <2> QED BY <2>1, <2>2, Quiet, Onward, ZenonT(30) DEF NoStrandedOutput, FlushComing
<1>2. CASE FlusherFlushes(w)
  <2>1. /\ flusher[w] = "kicked" /\ UNCHANGED <<status, pending, ssid, reconnect, spin>>
        /\ flusher' = [flusher EXCEPT ![w] = "off"] \/ flusher' = [flusher EXCEPT ![w] = "wait"]
    BY <1>2, Zenon DEF FlusherFlushes
  <2>2. \A k \in Loss : flusher[k] = "off" => flusher'[k] = "off"
    BY <2>1, SMTT(30) DEF TypeOK, Watch, Loss
  <2>3. Order' BY <2>1, <2>2, Onward, Zenon
  <2>4. CASE status # "CONNECTED"
    <3>1. UNCHANGED <<bw, link>> BY <1>2, <2>4, Zenon DEF FlusherFlushes
    <3> QED BY <2>1, <2>3, <2>4, <3>1, Quiet, Zenon DEF NoStrandedOutput
  <2>5. CASE status = "CONNECTED"
    <3>1. bw' = Flushed /\ link' = FlushTo(link) BY <1>2, <2>5, Zenon DEF FlusherFlushes
    <3>2. bw'.buf = <<>> \/ bw'.failed BY <3>1, Zenon DEF Flushed, TypeOK, Writer
    <3> QED BY <2>1, <2>3, <2>5, <3>1, <3>2, FlushCore, Zenon DEF NoStrandedOutput, FlushComing
  <2> QED BY <2>4, <2>5, Zenon
<1> QED BY <1>1, <1>2, Zenon DEF flusherLoop

(* A step of one doReconnect that does not go back to an earlier stage. *)
LEMMA MovedOn ==
  ASSUME TypeOK, Order, NEW k \in Loss, NEW pc, reconnect' = [reconnect EXCEPT ![k] = pc],
         reconnect[k] # "none", pc # "none", pc \in Repairing => reconnect[k] \in Repairing,
         UNCHANGED <<spin, flusher>>
  PROVE Order'
<1>1. \A j \in Loss : reconnect'[j] = IF j = k THEN pc ELSE reconnect[j] BY Zenon DEF TypeOK
<1> QED BY <1>1, Onward, Zenon

(* ... doReconnect, ... *)
LEMMA DoReconnectKeeps ==
  ASSUME BusAssumption, IInv, Alive, NEW k \in Loss, doReconnect(k)
  PROVE Kept
<1> USE DEF Kept, IInv
<1>a. ASSUME NEW pc, reconnect' = [reconnect EXCEPT ![k] = pc]
      PROVE \A j \in Loss : reconnect'[j] = IF j = k THEN pc ELSE reconnect[j]
  BY <1>a, Zenon DEF TypeOK
<1>1. CASE waitForExits(k)
  <2>1. UNCHANGED <<status, bw, pending, ssid, link, spin, flusher, run>> BY <1>1, Zenon DEF waitForExits, busVars
  <2>2. PICK pc \in {"exits", "setup"} : reconnect' = [reconnect EXCEPT ![k] = pc]
    BY <1>1, Zenon DEF waitForExits, Goto
  <2>3. reconnect[k] \in {"kick", "exits"} BY <1>1, Zenon DEF waitForExits, At
  <2>4. Core' BY <1>a, <2>1, <2>2, <2>3, Quiet, SMTT(30) DEF Repairing
  <2>5. Order' BY <2>1, <2>2, <2>3, MovedOn, ZenonT(30) DEF Repairing
  <2>6. CASE fch' = fch BY <2>1, <2>4, <2>5, <2>6, SamePlace, Zenon DEF Awaited
  <2>7. CASE fch' = fch + 1
    <3>1. fch' > 0 BY <2>7 DEF TypeOK
    <3> QED BY <2>4, <2>5, <3>1, Zenon DEF NoStrandedOutput, FlushComing
  <2> QED BY <1>1, <2>6, <2>7, Zenon DEF waitForExits, KickOldFlusher
<1>2. CASE GatherPending(k)
  <2>1. Order' BY <1>2, MovedOn, ZenonT(30) DEF GatherPending, Goto, At, Repairing
  <2>2. bw'.buf = <<>> BY <1>2, Zenon DEF GatherPending
  <2> QED BY <1>2, <2>1, <2>2, GatherCore, Zenon DEF NoStrandedOutput
<1>3. CASE selectNextServer(k)
  <2>1. /\ UNCHANGED <<status, bw, fch, pending, ssid, link, spin, flusher, run>>
        /\ reconnect[k] = "select" /\ reconnect' = [reconnect EXCEPT ![k] = "dial"]
    BY <1>3, Zenon DEF selectNextServer, Goto, At, busVars
  <2>2. Core' BY <1>a, <2>1, Quiet, ZenonT(30) DEF Repairing
  <2>3. Order' BY <2>1, MovedOn, ZenonT(30) DEF Repairing
  <2> QED BY <2>1, <2>2, <2>3, SamePlace, Zenon DEF Awaited
<1>4. CASE DialFails(k)
  <2>1. UNCHANGED <<status, bw, fch, pending, ssid, link, spin, flusher, run>> /\ reconnect[k] = "dial"
    BY <1>4, Zenon DEF DialFails, At, busVars
  <2>2. PICK pc \in {"done", "select"} : reconnect' = [reconnect EXCEPT ![k] = pc]
    BY <1>4, Zenon DEF DialFails, Goto
  <2>3. Core' BY <1>a, <2>1, <2>2, Quiet, ZenonT(30) DEF Repairing
  <2>4. Order' BY <2>1, <2>2, MovedOn, ZenonT(30) DEF Repairing
  <2> QED BY <2>1, <2>3, <2>4, SamePlace, Zenon DEF Awaited
<1>5. CASE InfoFails(k)
  <2>1. Order' BY <1>5, MovedOn, ZenonT(30) DEF InfoFails, Goto, At, Repairing
  <2>2. bw'.buf = <<>> BY <1>5, Zenon DEF InfoFails
  <2> QED BY <1>5, <2>1, <2>2, InfoCore, Zenon DEF NoStrandedOutput
<1>6. CASE Reconnected(k)
  <2>1. /\ reconnect[k] = "dial" /\ reconnect' = [reconnect EXCEPT ![k] = "flush"]
        /\ spin' = [spin EXCEPT ![k] = "kick"] /\ flusher' = flusher
    BY <1>6, Zenon DEF Reconnected, Goto, At
  <2>2. \A j \in Loss : reconnect'[j] = IF j = k THEN "flush" ELSE reconnect[j] BY <1>a, <2>1, Zenon
  <2>3. \A j \in Loss : spin'[j] = IF j = k THEN "kick" ELSE spin[j] BY <2>1, Zenon DEF TypeOK
  <2>4. spin[k] = "none" BY <2>1, Zenon DEF Order, Repairing
  <2>5. PICK m \in 0 .. MaxLosses : \A j \in Loss : reconnect[j] # "none" <=> j <= m BY Zenon DEF Order
  <2>6. \A j \in Loss : reconnect'[j] # "none" <=> reconnect[j] # "none" BY <2>1, <2>2
  <2>7. \A j \in Loss : reconnect'[j] # "none" <=> j <= m BY <2>5, <2>6, Zenon
  <2>8. Order' BY <2>1, <2>2, <2>3, <2>4, <2>7 DEF Order, Repairing
  <2>9. NoStrandedOutput' BY <2>3, ZenonT(30) DEF NoStrandedOutput, FlushComing
  <2> QED BY <1>6, <2>8, <2>9, ReconnectedCore, Zenon
<1>7. CASE FlushTimeout(k)
  <2>1. /\ UNCHANGED <<status, pending, ssid, link, spin, flusher, run>>
        /\ reconnect[k] \in {"flush", "wait"}
    BY <1>7, Zenon DEF FlushTimeout, At, busVars
  <2>2. PICK pc \in {"wait", "callback", "timedout"} : reconnect' = [reconnect EXCEPT ![k] = pc]
    BY <1>7, Zenon DEF FlushTimeout, Goto
  <2>3. Order' BY <2>1, <2>2, MovedOn, ZenonT(30) DEF Repairing
  <2>4. \A j \in Loss : reconnect'[j] \in Repairing => reconnect'[j] = reconnect[j]
    BY <1>a, <2>2, SMTT(30) DEF Repairing
  <2>5. CASE sendPing(k)
    <3>1. Core' BY <2>1, <2>4, <2>5, PingCore, Zenon
    <3>2. fch' > 0 BY <2>5, Kicked, Zenon DEF sendPing
    <3> QED BY <2>3, <3>1, <3>2, Zenon DEF NoStrandedOutput, FlushComing
  <2>6. CASE UNCHANGED <<bw, fch>>
    <3>1. Core' BY <2>1, <2>4, <2>6, Quiet, Zenon DEF Repairing
    <3> QED BY <2>1, <2>3, <2>6, <3>1, SamePlace, Zenon DEF Awaited
  <2> QED BY <1>7, <2>5, <2>6, Zenon DEF FlushTimeout
<1>8. CASE removeFlushEntry(k)
  <2>1. /\ UNCHANGED <<status, bw, fch, pending, ssid, link, spin, flusher, run>>
        /\ reconnect[k] = "timedout" /\ reconnect' = [reconnect EXCEPT ![k] = "callback"]
    BY <1>8, Zenon DEF removeFlushEntry, Goto, At, busVars
  <2>2. Core' BY <1>a, <2>1, Quiet, SMTT(30) DEF Repairing
  <2>3. Order' BY <2>1, MovedOn, ZenonT(30) DEF Repairing
  <2> QED BY <2>1, <2>2, <2>3, SamePlace, Zenon DEF Awaited
<1>9. CASE apceraReconnectCB(k)
  <2>1. /\ UNCHANGED <<status, pending, ssid, link, spin, flusher, run>>
        /\ reconnect[k] = "callback" /\ reconnect' = [reconnect EXCEPT ![k] = "done"]
    BY <1>9, Zenon DEF apceraReconnectCB, Goto, At, busVars
  <2>2. Order' BY <2>1, MovedOn, ZenonT(30) DEF Repairing
  <2>3. \A j \in Loss : reconnect'[j] \in Repairing => reconnect'[j] = reconnect[j]
    BY <1>a, <2>1, SMTT(30) DEF Repairing
  <2>4. CASE publish("start")
    <3>1. "start" \in Publication BY Zenon DEF Publication
    <3>2. Core' BY <2>1, <2>3, <2>4, <3>1, PublishCore, Zenon
    <3> QED BY <2>1, <2>2, <2>4, <3>2, PublishFlush, Zenon DEF Awaited
  <2>5. CASE UNCHANGED <<bw, fch>>
    <3>1. Core' BY <2>1, <2>3, <2>5, Quiet, Zenon DEF Repairing
    <3> QED BY <2>1, <2>2, <2>5, <3>1, SamePlace, Zenon DEF Awaited
  <2> QED BY <1>9, <2>4, <2>5, Zenon DEF apceraReconnectCB
<1> QED BY <1>1, <1>2, <1>3, <1>4, <1>5, <1>6, <1>7, <1>8, <1>9, Zenon DEF doReconnect

(* ... spinUpSocketWatchers, ... *)
LEMMA SpinKeeps ==
  ASSUME BusAssumption, IInv, Alive, NEW k \in Loss, spinUpSocketWatchers(k)
  PROVE Kept
<1> USE DEF Kept, IInv
<1>1. UNCHANGED <<status, bw, pending, ssid, link, reconnect, run>>
  BY Zenon DEF spinUpSocketWatchers, busVars
<1>2. Core' BY <1>1, Quiet, Zenon
<1>3. k \in Watch BY DEF Watch, Loss
<1>4. PICK pc \in {"exits", "start", "arm", "done"} : spin' = [spin EXCEPT ![k] = pc]
  BY Zenon DEF spinUpSocketWatchers
<1>5. /\ spin[k] \in {"kick", "exits", "start", "arm"}
      /\ pc \in {"exits", "start"} => spin[k] \in {"kick", "exits"} /\ flusher' = flusher
      /\ pc = "arm" => spin[k] = "start" /\ flusher' = [flusher EXCEPT ![k] = "wait"]
      /\ pc = "done" => flusher' = flusher
  <2>1. spin'[k] = pc BY <1>4, Zenon DEF TypeOK
  <2> QED BY <2>1, ZenonT(30) DEF spinUpSocketWatchers, TypeOK
<1>6. \A j \in Loss : spin'[j] = IF j = k THEN pc ELSE spin[j] BY <1>4, Zenon DEF TypeOK
<1>7. \A j \in Watch \ {k} : flusher'[j] = flusher[j] BY <1>5, Zenon DEF TypeOK
<1>8. flusher[k] = "kicked" => flusher'[k] = "kicked" BY <1>5, Zenon DEF Order
<1>9. Order'
  <2>1. PICK m \in 0 .. MaxLosses : \A j \in Loss : reconnect[j] # "none" <=> j <= m BY Zenon DEF Order
  <2>2. \A j \in Loss : reconnect'[j] # "none" <=> j <= m BY <1>1, <2>1, Zenon
  <2>3. \A j \in Loss : reconnect'[j] \in Repairing \cup {"none"} => spin'[j] = "none"
    BY <1>1, <1>5, <1>6, Zenon DEF Order
  <2>4. \A j \in Loss : spin'[j] \in {"none", "kick", "exits", "start"} => flusher'[j] = "off"
    <3> SUFFICES ASSUME NEW j \in Loss, spin'[j] \in {"none", "kick", "exits", "start"}
                 PROVE flusher'[j] = "off"
      BY Zenon
    <3>1. CASE j = k BY <3>1, <1>5, <1>6, Zenon DEF Order
    <3>2. CASE j # k BY <3>2, <1>6, <1>7 DEF Order, Watch, Loss
    <3> QED BY <3>1, <3>2, Zenon
  <2> QED BY <2>2, <2>3, <2>4, Zenon DEF Order
<1>10. CASE pc = "exits" /\ spin[k] = "kick"
  <2>1. fch' = fch + 1
    <3>1. spin'[k] = "exits" BY <1>10, <1>6, Zenon
    <3> QED BY <1>10, <3>1, Zenon DEF spinUpSocketWatchers, KickOldFlusher
  <2>2. fch' > 0 BY <2>1 DEF TypeOK
  <2> QED BY <1>2, <1>9, <2>2, ZenonT(30) DEF NoStrandedOutput, FlushComing
<1>11. CASE spin[k] # "kick"
  <2>1. fch' = fch BY <1>11, Zenon DEF spinUpSocketWatchers
  <2>2. Awaited BY <1>1, <1>6, <1>7, <1>8, <1>11, ZenonT(30) DEF Awaited
  <2> QED BY <1>1, <1>2, <1>9, <2>1, <2>2, SamePlace, Zenon
<1>12. spin[k] = "kick" => pc = "exits"
  <2>1. spin'[k] = pc BY <1>6, Zenon
  <2> QED BY <2>1, ZenonT(30) DEF spinUpSocketWatchers, TypeOK
<1> QED BY <1>10, <1>11, <1>12, Zenon

(* ... and the ping timer, the deliveries and the environment. *)
LEMMA OtherKeeps ==
  ASSUME BusAssumption, IInv, Alive,
         \/ PingTimerFires \/ processPingTimer \/ Environment \/ \E s \in Subject : deliverMsgs(s)
  PROVE Kept
<1> USE DEF Kept, IInv
<1>1. CASE PingTimerFires
  <2>1. UNCHANGED <<status, bw, fch, pending, ssid, link, reconnect, spin, flusher, run>>
    BY <1>1, Zenon DEF PingTimerFires, goVars, busVars
  <2> QED BY <2>1, Quiet, Onward, SamePlace, ZenonT(30) DEF Awaited
<1>2. CASE processPingTimer
  <2>f. UNCHANGED <<pending, ssid, spin, flusher, run>> BY <1>2, Zenon DEF processPingTimer
  <2>1. CASE status # "CONNECTED"
    <3>1. UNCHANGED <<status, bw, fch, reconnect, link>> BY <1>2, <2>1, Zenon DEF processPingTimer
    <3> QED BY <2>f, <3>1, Quiet, Onward, SamePlace, ZenonT(30) DEF Awaited
  <2>2. CASE processReconnect /\ UNCHANGED fch
    BY <2>f, <2>2, ReconnectCore, ReconnectOrder, ReconnectFlush, Zenon DEF Awaited
  <2>3. CASE sendPing(nil) /\ UNCHANGED <<status, reconnect, link>>
    <3>1. Core' BY <2>f, <2>3, PingCore, Zenon
    <3>2. Order' BY <2>f, <2>3, Onward, Zenon
    <3>3. fch' > 0 BY <2>3, Kicked, Zenon DEF sendPing
    <3> QED BY <3>1, <3>2, <3>3, ZenonT(30) DEF NoStrandedOutput, FlushComing
  <2> QED BY <1>2, <2>1, <2>2, <2>3, Zenon DEF processPingTimer
<1>3. CASE Environment
  <2>1. UNCHANGED <<clientVars, goVars>>
    BY <1>3, Zenon DEF Environment, ServerSends, Breaks
  <2> DEFINE Same == /\ link'.greeted = link.greeted /\ link'.heard = link.heard
                     /\ link'.confused = link.confused
                     /\ \/ link'.state = link.state
                        \/ link'.state \in {"reset", "silent"} /\ link.state \in {"up", "silent"}
  <2>2. Same
    <3>1. CASE ServerSends
      <4>1. PICK i : link' = [link EXCEPT !.toClient = Append(@, i)] BY <3>1, ZenonT(30) DEF ServerSends
      <4> QED BY <4>1, Zenon DEF TypeOK, Link
    <3>2. ASSUME NEW state \in {"reset", "silent"}, Breaks(state)
          PROVE Same
      BY <3>2, Zenon DEF Breaks, TypeOK, Link
    <3> QED BY <1>3, <3>1, <3>2, ZenonT(30) DEF Environment
  <2>3. UNCHANGED <<status, bw, fch, pending, ssid, reconnect, spin, flusher, run>>
    BY <2>1, Zenon DEF clientVars, goVars
  <2> QED BY <2>2, <2>3, Quiet, Onward, SamePlace, ZenonT(30) DEF Awaited
<1>4. ASSUME NEW s \in Subject, deliverMsgs(s)
      PROVE Kept
  <2>1. UNCHANGED <<status, pending, ssid, link, reconnect, spin, flusher, run>>
    BY <1>4, Zenon DEF deliverMsgs, goVars, busVars
  <2>2. CASE publish("reply")
    <3>1. "reply" \in Publication BY Zenon DEF Publication
    <3> QED BY <2>1, <2>2, <3>1, PublishCore, Onward, PublishFlush, ZenonT(30) DEF Awaited
  <2>3. CASE UNCHANGED <<bw, fch>> BY <2>1, <2>3, Quiet, Onward, SamePlace, ZenonT(30) DEF Awaited
  <2> QED BY <1>4, <2>2, <2>3, Zenon DEF deliverMsgs
<1> QED BY <1>1, <1>2, <1>3, <1>4, Zenon

-------------------------------------------------------------------------------
(* Types. *)

(* Writing lines leaves a writer. *)
LEMMA WriteType ==
  ASSUME TypeOK, NEW items \in Seq(Sent)
  PROVE Write(items) \in Writer
<1>1. bw.buf \in Seq(Sent) /\ bw \in Writer BY Zenon DEF TypeOK, Writer
<1>2. bw.buf \o items \in Seq(Sent) BY <1>1, Joined
<1> QED BY <1>1, <1>2, Zenon DEF Write, Writer

(* publish keeps the types of what it changes. *)
LEMMA PublishType ==
  ASSUME TypeOK, NEW m \in Publication, publish(m)
  PROVE /\ err' \in BOOLEAN /\ fch' \in Nat
        /\ bw' \in Writer
<1>1. <<Item("PUB", m)>> \in Seq(Sent) BY Lines
<1>2. Write(<<Item("PUB", m)>>) \in Writer
  BY <1>1, WriteType, Zenon
<1> QED BY <1>2 DEF TypeOK, publish, kickFlusher

(* So does sendPing. *)
LEMMA PingType ==
  ASSUME TypeOK, NEW ch \in Loss \cup {nil}, sendPing(ch)
  PROVE /\ pongs' \in Seq(Loss \cup {nil}) /\ fch' \in Nat
        /\ bw' \in Writer
<1>1. <<Item("PING", nil)>> \in Seq(Sent) BY Lines
<1>2. Write(<<Item("PING", nil)>>) \in Writer
  BY <1>1, WriteType, Zenon
<1> QED BY <1>2 DEF TypeOK, sendPing, kickFlusher

(* Router.Run keeps the types, and never subscribes to more than its subjects. *)
LEMMA RunType ==
  ASSUME BusAssumption, IInv, RouterRun
  PROVE TypeOK' /\ (run' = "subscribe" => ssid' < Len(Subjects))
<1>1. TypeOK BY Zenon DEF IInv
<1>2. CASE Subscribe
  <2>1. ssid < Len(Subjects) /\ ssid' = ssid + 1 /\ ssid' \in 1 .. Len(Subjects)
    BY <1>1, <1>2, BusAssumption DEF Subscribe, IInv, TypeOK
  <2>2. Subjects[ssid'] \in Subject BY <2>1, Zenon DEF Subject
  <2>3. SubLine(Subjects[ssid']) \in Seq(Sent) BY <2>2, Lines DEF SubLine
  <2>4. bw' \in Writer BY <1>1, <1>2, <2>3, WriteType, Zenon DEF Subscribe
  <2> QED BY <1>1, <1>2, <2>1, <2>4 DEF Subscribe, TypeOK, busVars
<1>3. CASE SubscribeKick
  BY <1>1, <1>3 DEF SubscribeKick, TypeOK, kickFlusher, busVars
<1>4. CASE SendStartMessage
  BY <1>1, <1>4, PublishType, Zenon DEF SendStartMessage, TypeOK, busVars, Publication
<1>5. CASE AddReconnectedCB
  BY <1>1, <1>5 DEF AddReconnectedCB, TypeOK, clientVars, busVars
<1> QED BY <1>2, <1>3, <1>4, <1>5 DEF RouterRun

(* A flush leaves a writer and a socket. *)
LEMMA FlushType ==
  ASSUME TypeOK
  PROVE Flushed \in Writer /\ FlushTo(link) \in Link
<1>1. Flushed \in Writer
  <2>1. <<>> \in Seq(Sent) OBVIOUS
  <2> QED BY <2>1, ZenonT(30) DEF TypeOK, Writer, Flushed
<1>2. CASE bw.buf = <<>> \/ link.state # "up" BY <1>1, <1>2 DEF FlushTo, TypeOK
<1>3. CASE ~(bw.buf = <<>> \/ link.state # "up")
  <2> DEFINE answers == [n \in 1 .. Cardinality(Written("PING")) |-> Item("PONG", nil)]
             told == UNION {bw.buf[n].arg : n \in Written("SUB")}
  <2>1. Written("PING") \subseteq 1 .. Len(bw.buf) /\ Len(bw.buf) \in Nat
    BY DEF Written, TypeOK, Writer
  <2>2. Cardinality(Written("PING")) \in Nat
    <3>1. IsFiniteSet(1 .. Len(bw.buf)) BY <2>1, FS_Interval
    <3>2. IsFiniteSet(Written("PING")) BY <2>1, <3>1, FS_Subset
    <3> QED BY <3>2, FS_CardinalityType, Zenon
  <2>3. answers \in Seq(Received) BY <2>2 DEF Received, Item
  <2>4. link.toClient \o answers \in Seq(Received) BY <2>3, Joined DEF TypeOK, Link
  <2>5. ASSUME NEW n \in Written("SUB") PROVE bw.buf[n].arg \subseteq Subject
    BY <2>5 DEF Written, TypeOK, Writer, Sent
  <2>6. link.heard \cup told \subseteq Subject BY <2>5 DEF TypeOK, Link
  <2> HIDE DEF answers, told
  <2> QED BY <1>1, <1>3, <2>4, <2>6, ZenonT(30) DEF FlushTo, TypeOK, Link, answers, told
<1> QED BY <1>2, <1>3

(* processReconnect keeps the types of what it changes. *)
LEMMA ReconnectType ==
  ASSUME TypeOK, processReconnect
  PROVE /\ status' \in {"CONNECTED", "RECONNECTING", "CLOSED"} /\ armed' \in BOOLEAN
        /\ bw' \in Writer /\ link' \in Link
        /\ reconnect' \in [Loss -> {"none", "kick", "exits", "setup", "select", "dial", "flush",
                                    "wait", "timedout", "callback", "done"}]
BY FlushType, LinkType, ZenonT(30) DEF TypeOK, processReconnect

(* A read loop keeps the types. *)
LEMMA ReadType ==
  ASSUME BusAssumption, TypeOK, NEW w \in Watch, readLoop(w)
  PROVE TypeOK'
<1>1. CASE readLoopError(w)
  BY <1>1, ReconnectType DEF readLoopError, ReaderExits, ReaderAt, TypeOK
<1>2. CASE readLoopStops(w)
  BY <1>2 DEF readLoopStops, ReaderExits, ReaderAt, TypeOK, clientVars, busVars
<1>a. ASSUME link.toClient # <<>>
      PROVE [link EXCEPT !.toClient = Tail(@)] \in Link /\ Head(link.toClient) \in Received
  <2>1. link.toClient \in Seq(Received) BY Zenon DEF TypeOK, Link
  <2>2. Tail(link.toClient) \in Seq(Received) /\ Head(link.toClient) \in Received BY <1>a, <2>1
  <2> QED BY <2>2, Zenon DEF TypeOK, Link
<1>b. ASSUME pongs # <<>>, NEW then \in {"read", "close"}, HandTo(w, Head(pongs), then)
      PROVE /\ Tail(pongs) \in Seq(Loss \cup {nil})
            /\ reader' \in [Watch -> [pc : {"off", "read", "hand", "closing", "close"},
                                      to : Loss \cup {nil}, then : {"read", "close"}]]
  BY <1>b DEF TypeOK, HandTo
<1>3. CASE processPong(w)
  BY <1>3, <1>a, <1>b, ZenonT(60) DEF processPong, Incoming, Arrives, TypeOK
<1>4. CASE HandPong(w)
  BY <1>4, ZenonT(60) DEF HandPong, ReaderAt, TypeOK, clientVars, busVars
<1>5. CASE processMsg(w)
  <2>1. Head(link.toClient).arg \in Subject
    BY <1>5, <1>a, Zenon DEF processMsg, Incoming, Arrives, Received
  <2>2. inbox' \in [Subject -> 0 .. SubChanLen] /\ err' \in BOOLEAN
    <3> DEFINE s == Head(link.toClient).arg
    <3>1. inbox[s] \in 0 .. SubChanLen /\ SubChanLen \in Nat
      BY <2>1, BusAssumption DEF TypeOK
    <3>2. CASE inbox[s] >= SubChanLen
      BY <1>5, <3>2, ZenonT(30) DEF processMsg, TypeOK
    <3>3. CASE ~(inbox[s] >= SubChanLen)
      <4>1. inbox[s] + 1 \in 0 .. SubChanLen BY <3>1, <3>3
      <4>2. inbox' = [inbox EXCEPT ![s] = inbox[s] + 1] /\ err' = err
        BY <1>5, <3>3 DEF processMsg
      <4> QED BY <4>1, <4>2, <2>1 DEF TypeOK
    <3> QED BY <3>2, <3>3
  <2> QED BY <1>5, <1>a, <2>2, SMTT(30) DEF processMsg, Incoming, Arrives, TypeOK, goVars
<1>6. CASE processErr(w)
  <2>1. CASE Arrives(w, "STALE") /\ processReconnect /\ UNCHANGED <<err, reader>>
    BY <1>6, <2>1, ReconnectType DEF processErr, TypeOK
  <2>2. CASE Incoming(w, "ERR") /\ err' = TRUE /\ reader' = [reader EXCEPT ![w].pc = "closing"]
             /\ UNCHANGED <<status, bw, armed, reconnect>>
    BY <1>6, <2>2, <1>a, ZenonT(60) DEF processErr, Incoming, Arrives, TypeOK
  <2> QED BY <1>6, <2>1, <2>2, ZenonT(30) DEF processErr
<1>7. CASE close(w) BY <1>7, ZenonT(60) DEF close, kickFlusher, TypeOK, busVars
<1>8. CASE clearPendingFlushCalls(w)
  BY <1>8, <1>b DEF clearPendingFlushCalls, TypeOK, busVars
<1>9. CASE closedCallback(w) BY <1>9 DEF closedCallback, TypeOK, clientVars, busVars
<1> QED BY <1>1, <1>2, <1>3, <1>4, <1>5, <1>6, <1>7, <1>8, <1>9 DEF readLoop

(* So does a flusher, ... *)
LEMMA FlusherType ==
  ASSUME TypeOK, NEW w \in Watch, flusherLoop(w)
  PROVE TypeOK'
<1>1. CASE FlusherKicked(w)
  BY <1>1 DEF FlusherKicked, TypeOK, busVars
<1>2. CASE FlusherFlushes(w)
  <2>1. FlushError \in BOOLEAN BY FlushType, Zenon DEF FlushError, TypeOK, Writer
  <2>2. bw' \in Writer /\ link' \in Link /\ err' \in BOOLEAN
    BY <1>2, <2>1, FlushType, Zenon DEF FlusherFlushes, TypeOK
  <2>a. wg' \in Int
    <3>1. wg \in Int BY Zenon DEF TypeOK
    <3> QED BY <1>2, <3>1 DEF FlusherFlushes
  <2>b. flusher' \in [Watch -> {"off", "wait", "kicked"}]
    <3>1. flusher \in [Watch -> {"off", "wait", "kicked"}] BY Zenon DEF TypeOK
    <3> QED BY <1>2, <3>1 DEF FlusherFlushes
  <2>3. UNCHANGED <<status, pending, fch, pongs, pout, armed, fired, ssid, inbox, pool, url,
                    reader, reconnect, spin, run, budget>>
    BY <1>2, Zenon DEF FlusherFlushes
  <2> QED BY <2>2, <2>a, <2>b, <2>3, Zenon DEF TypeOK
<1> QED BY <1>1, <1>2 DEF flusherLoop

(* ... a connection made anew, ... *)
LEMMA ReconnectedType ==
  ASSUME BusAssumption, TypeOK, Repair, NEW k \in Loss, Reconnected(k)
  PROVE TypeOK'
<1>1. Gathered \in Seq(Sent) BY GatheredType, Zenon DEF Reconnected
<1>2. resendSubscriptions \in Seq(Sent) /\ <<Item("CONNECT", nil)>> \in Seq(Sent)
  <2>1. subs \subseteq Subject BY BusAssumption DEF subs, Subject, TypeOK
  <2> QED BY <2>1, Lines DEF resendSubscriptions
<1>3. <<Item("CONNECT", nil)>> \o resendSubscriptions \o Gathered \in Seq(Sent)
  BY <1>1, <1>2
<1>4. bw' \in Writer BY <1>3, Zenon DEF Reconnected, Writer
<1> QED BY <1>4, LinkType, ZenonT(30) DEF Reconnected, Goto, TypeOK

(* ... every other step of doReconnect, ... *)
LEMMA DoReconnectType ==
  ASSUME BusAssumption, TypeOK, Repair, NEW k \in Loss, doReconnect(k)
  PROVE TypeOK'
<1>1. CASE waitForExits(k)
  <2>1. fch' \in Nat BY <1>1 DEF waitForExits, KickOldFlusher, TypeOK
  <2>2. reconnect' = [reconnect EXCEPT ![k] = "exits"] \/ reconnect' = [reconnect EXCEPT ![k] = "setup"]
    BY <1>1, Zenon DEF waitForExits, Goto
  <2>3. UNCHANGED <<status, err, bw, pending, pongs, pout, armed, fired, ssid, inbox, pool, url,
                    reader, flusher, wg, spin, run, busVars>>
    BY <1>1, Zenon DEF waitForExits
  <2> QED BY <2>1, <2>2, <2>3, ZenonT(60) DEF TypeOK, busVars
<1>2. CASE GatherPending(k)
  <2>1. pending' \in Seq(Sent) /\ bw' \in Writer BY <1>2, SMTT(30) DEF GatherPending, Writer
  <2> QED BY <1>2, <2>1, ZenonT(30) DEF GatherPending, Goto, TypeOK, busVars
<1>3. CASE selectNextServer(k)
  <2>1. PICK i \in DOMAIN pool :
          /\ pool[i] = url
          /\ pool' = SubSeq(pool, 1, i - 1) \o SubSeq(pool, i + 1, Len(pool)) \o <<url>>
    BY <1>3, Zenon DEF selectNextServer
  <2>2. pool \in Seq(Server) /\ url \in Server /\ i \in 1 .. Len(pool) BY <2>1 DEF TypeOK
  <2>3. SubSeq(pool, 1, i - 1) \in Seq(Server) /\ SubSeq(pool, i + 1, Len(pool)) \in Seq(Server)
    BY <2>2
  <2>4. pool' \in Seq(Server) /\ Len(pool') > 0 BY <2>1, <2>2, <2>3
  <2>5. url' \in Server
    <3>1. url' = pool'[1] BY <1>3, Zenon DEF selectNextServer
    <3>2. 1 \in 1 .. Len(pool') BY <2>4
    <3> QED BY <3>1, <3>2, <2>4
  <2> QED BY <1>3, <2>4, <2>5, ZenonT(30) DEF selectNextServer, Goto, TypeOK, busVars
<1>4. CASE DialFails(k) BY <1>4 DEF DialFails, Goto, TypeOK, busVars
<1>5. CASE InfoFails(k)
  <2>1. Gathered \in Seq(Sent) BY <1>5, GatheredType, Zenon DEF InfoFails
  <2> QED BY <1>5, <2>1, LinkType, SMTT(30) DEF InfoFails, Goto, TypeOK, Writer
<1>6. CASE Reconnected(k) BY <1>6, ReconnectedType
<1>7. CASE FlushTimeout(k)
  <2>1. k \in Loss \cup {nil} BY Zenon
  <2>2. /\ pongs' \in Seq(Loss \cup {nil}) /\ fch' \in Nat /\ bw' \in Writer
    BY <1>7, <2>1, PingType, Zenon DEF FlushTimeout, TypeOK
  <2> QED BY <1>7, <2>2, ZenonT(60) DEF FlushTimeout, Goto, TypeOK, busVars
<1>8. CASE removeFlushEntry(k)
  <2>1. pongs' \in Seq(Loss \cup {nil})
    <3>1. pongs \in [1 .. Len(pongs) -> Loss \cup {nil}] /\ Len(pongs) \in Nat BY DEF TypeOK
    <3>2. pongs' \in [1 .. Len(pongs) -> Loss \cup {nil}] BY <1>8, <3>1, Zenon DEF removeFlushEntry
    <3> QED BY <3>1, <3>2
  <2> QED BY <1>8, <2>1, ZenonT(30) DEF removeFlushEntry, Goto, TypeOK, busVars
<1>9. CASE apceraReconnectCB(k)
  <2>1. err' \in BOOLEAN /\ fch' \in Nat /\ bw' \in Writer
    BY <1>9, PublishType DEF apceraReconnectCB, TypeOK, Publication
  <2> QED BY <1>9, <2>1 DEF apceraReconnectCB, Goto, TypeOK, busVars
<1> QED BY <1>1, <1>2, <1>3, <1>4, <1>5, <1>6, <1>7, <1>8, <1>9 DEF doReconnect

(* ... spinUpSocketWatchers, ... *)
LEMMA SpinType ==
  ASSUME TypeOK, NEW k \in Loss, spinUpSocketWatchers(k)
  PROVE TypeOK'
<1>1. k \in Watch BY DEF Loss, Watch
<1>2. spin' \in [Loss -> {"none", "kick", "exits", "start", "arm", "done"}]
  BY ZenonT(30) DEF spinUpSocketWatchers, TypeOK
<1>3. fch' \in Nat /\ wg' \in Int /\ pout' \in Nat
  <2>1. fch \in Nat /\ wg \in Int /\ pout \in Nat BY Zenon DEF TypeOK
  <2> QED BY <2>1, SMTT(30) DEF spinUpSocketWatchers, KickOldFlusher
<1>a. armed' \in BOOLEAN BY Zenon DEF spinUpSocketWatchers, TypeOK
<1>4. reader' \in [Watch -> [pc : {"off", "read", "hand", "closing", "close"},
                            to : Loss \cup {nil}, then : {"read", "close"}]]
  BY <1>1 DEF spinUpSocketWatchers, ReaderAt, TypeOK
<1>5. flusher' \in [Watch -> {"off", "wait", "kicked"}] BY <1>1, Zenon DEF spinUpSocketWatchers, TypeOK
<1>6. UNCHANGED <<status, err, bw, pending, pongs, fired, ssid, inbox, pool, url, reconnect, run, busVars>>
  BY Zenon DEF spinUpSocketWatchers
<1> QED BY <1>2, <1>3, <1>a, <1>4, <1>5, <1>6 DEF TypeOK, busVars

(* ... and the ping timer, the deliveries and the environment. *)
LEMMA OtherType ==
  ASSUME BusAssumption, TypeOK,
         \/ PingTimerFires \/ processPingTimer \/ Environment \/ \E s \in Subject : deliverMsgs(s)
  PROVE TypeOK'
<1>1. CASE PingTimerFires
  <2>1. armed' \in BOOLEAN /\ fired' \in BOOLEAN BY <1>1, ZenonT(30) DEF PingTimerFires
  <2>2. UNCHANGED <<status, err, bw, pending, fch, pongs, pout, ssid, inbox, pool, url, goVars, busVars>>
    BY <1>1, Zenon DEF PingTimerFires
  <2> QED BY <2>1, <2>2 DEF TypeOK, goVars, busVars
<1>2. CASE processPingTimer
  <2>f. fired' \in BOOLEAN /\ UNCHANGED <<err, pending, ssid, inbox, pool, url, reader, flusher,
                                           wg, spin, run, budget>>
    BY <1>2, ZenonT(30) DEF processPingTimer
  <2>1. CASE status # "CONNECTED"
    <3>1. UNCHANGED <<status, bw, fch, pongs, pout, armed, reconnect, link>>
      BY <1>2, <2>1, Zenon DEF processPingTimer
    <3> QED BY <2>f, <3>1 DEF TypeOK
  <2>2. CASE status = "CONNECTED" /\ processReconnect /\ pout' = pout + 1 /\ UNCHANGED <<fch, pongs>>
    BY <2>f, <2>2, ReconnectType, SMTT(30) DEF TypeOK
  <2>3. CASE /\ status = "CONNECTED" /\ sendPing(nil) /\ armed' = TRUE /\ pout' = pout + 1
             /\ UNCHANGED <<status, reconnect, link>>
    BY <2>f, <2>3, PingType, SMTT(30) DEF TypeOK
  <2> QED BY <1>2, <2>1, <2>2, <2>3, ZenonT(30) DEF processPingTimer
<1>3. CASE ServerSends
  <2>1. PICK i \in {Item("MSG", s) : s \in link.heard} \cup {Item("STALE", nil), Item("ERR", nil)} :
          link' = [link EXCEPT !.toClient = Append(@, i)]
    BY <1>3, ZenonT(30) DEF ServerSends
  <2>2. i \in Received
    <3>1. CASE i \in {Item("STALE", nil), Item("ERR", nil)} BY <3>1 DEF Received, Item
    <3>2. CASE i \in {Item("MSG", s) : s \in link.heard}
      <4>1. PICK s \in link.heard : i = Item("MSG", s) BY <3>2, Zenon
      <4>2. s \in Subject BY DEF TypeOK, Link
      <4> QED BY <4>1, <4>2, Zenon DEF Received, Item
    <3> QED BY <2>1, <3>1, <3>2, Zenon
  <2>3. link' \in Link
    <3>1. link \in Link /\ link.toClient \in Seq(Received) BY Zenon DEF TypeOK, Link
    <3>2. Append(link.toClient, i) \in Seq(Received) BY <3>1, <2>2
    <3> QED BY <2>1, <3>1, <3>2, Zenon DEF Link
  <2>4. budget' \in Budget
    <3>1. budget \in Budget /\ budget.msgs \in Nat BY Zenon DEF TypeOK, Budget
    <3>2. budget.msgs > 0 /\ budget' = [budget EXCEPT !.msgs = budget.msgs - 1] BY <1>3, Zenon DEF ServerSends
    <3>3. budget.msgs - 1 \in Nat BY <3>1, <3>2
    <3> QED BY <3>1, <3>2, <3>3, Zenon DEF Budget
  <2> QED BY <1>3, <2>3, <2>4 DEF ServerSends, TypeOK, clientVars, goVars
<1>4. ASSUME NEW st \in {"reset", "silent"}, Breaks(st) PROVE TypeOK'
  <2>1. link' \in Link
    <3>1. link' = [link EXCEPT !.state = st, !.toClient = <<>>] BY <1>4, Zenon DEF Breaks
    <3>2. link \in Link /\ <<>> \in Seq(Received) BY DEF TypeOK
    <3> QED BY <3>1, <3>2, Zenon DEF Link
  <2> QED BY <1>4, <2>1, ZenonT(30) DEF Breaks, TypeOK, clientVars, goVars
<1>5. ASSUME NEW s \in Subject, deliverMsgs(s) PROVE TypeOK'
  <2>1. err' \in BOOLEAN /\ fch' \in Nat /\ bw' \in Writer
    BY <1>5, PublishType DEF deliverMsgs, TypeOK, Publication
  <2>2. inbox[s] - 1 \in 0 .. SubChanLen BY <1>5, BusAssumption DEF deliverMsgs, TypeOK
  <2>3. inbox' \in [Subject -> 0 .. SubChanLen] BY <1>5, <2>2, Zenon DEF deliverMsgs, TypeOK
  <2> QED BY <1>5, <2>1, <2>3, Zenon DEF deliverMsgs, TypeOK, goVars, busVars
<1> QED BY <1>1, <1>2, <1>3, <1>4, <1>5 DEF Environment

-------------------------------------------------------------------------------
(* Every step keeps the invariant. *)
LEMMA Inductive ==
  ASSUME BusAssumption, IInv, [Next]_vars
  PROVE IInv'
<1>1. CASE UNCHANGED vars
  <2>1. UNCHANGED <<clientVars, goVars, busVars>> BY <1>1 DEF vars
  <2>2. TypeOK' BY <2>1 DEF IInv, TypeOK, clientVars, goVars, busVars
  <2>3. UNCHANGED <<status, bw, fch, pending, ssid, link, reconnect, spin, flusher, run>>
    BY <2>1, Zenon DEF clientVars, goVars, busVars
  <2>4. Core' /\ Order' BY <2>3, Quiet, Onward, Zenon DEF IInv
  <2>5. NoStrandedOutput' BY <2>3, ZenonT(30) DEF IInv, NoStrandedOutput, FlushComing, Alive
  <2> QED BY <2>2, <2>3, <2>4, <2>5 DEF IInv
<1>2. CASE Alive /\ RouterRun BY <1>2, RunType, RunKeeps DEF IInv, Kept
<1> DEFINE Goes == \/ PingTimerFires \/ processPingTimer \/ Environment
                   \/ \E s \in Subject : deliverMsgs(s)
                   \/ \E w \in Watch : readLoop(w) \/ flusherLoop(w)
                   \/ \E k \in Loss : doReconnect(k) \/ spinUpSocketWatchers(k)
<1>3. CASE Alive /\ Goes
  <2>1. TypeOK' BY <1>3, ReadType, FlusherType, DoReconnectType, SpinType, OtherType DEF IInv, Core
  <2>2. Kept BY <1>3, ReadKeeps, FlusherKeeps, DoReconnectKeeps, SpinKeeps, OtherKeeps
  <2> DEFINE Stays == ssid' = ssid /\ (run' = run \/ run' = "exited")
  <2>3. Stays
    <3>1. ASSUME NEW w \in Watch, readLoop(w) PROVE Stays
      BY <3>1, Zenon DEF readLoop, readLoopError, readLoopStops, processPong, HandPong, processMsg, processErr,
        close, clearPendingFlushCalls, closedCallback, clientVars, goVars
    <3>2. ASSUME NEW w \in Watch, flusherLoop(w) PROVE Stays
      BY <3>2 DEF flusherLoop, FlusherKicked, FlusherFlushes
    <3>3. ASSUME NEW k \in Loss, doReconnect(k) PROVE Stays
      BY <3>3, ZenonT(30)
      DEF doReconnect, waitForExits, GatherPending, selectNextServer, DialFails, InfoFails,
        Reconnected, FlushTimeout, removeFlushEntry, apceraReconnectCB
    <3>4. ASSUME NEW k \in Loss, spinUpSocketWatchers(k) PROVE Stays
      BY <3>4, Zenon DEF spinUpSocketWatchers
    <3>5. ASSUME \/ PingTimerFires \/ processPingTimer \/ Environment
                 \/ \E s \in Subject : deliverMsgs(s)
          PROVE Stays
      BY <3>5 DEF PingTimerFires, processPingTimer, Environment, ServerSends, Breaks, deliverMsgs,
        clientVars, goVars
    <3> QED BY <1>3, <3>1, <3>2, <3>3, <3>4, <3>5
  <2> QED BY <2>1, <2>2, <2>3 DEF IInv, Kept
<1> QED BY <1>1, <1>2, <1>3 DEF Next

(* The invariant holds when Router.Run begins, or serves. *)
LEMMA Initially ==
  ASSUME BusAssumption, Init
  PROVE IInv
<1>1. Len(Subjects) \in Nat /\ ssid \in 0 .. Len(Subjects) /\ (run = "subscribe" => ssid < Len(Subjects))
      /\ run \in {"subscribe", "serving"}
  BY BusAssumption DEF Init, Budget
<1>2. subs \subseteq Subject BY <1>1 DEF subs, Subject
<1>3. link.state = "up" /\ link.greeted /\ link.heard = subs /\ ~link.confused /\ link \in Link
  <2>1. link = [state |-> "up", toClient |-> <<>>, greeted |-> TRUE, heard |-> subs,
                announced |-> (run = "serving"), confused |-> FALSE]
    BY ZenonT(30) DEF Init, NewLink
  <2>2. <<>> \in Seq(Received) /\ (run = "serving") \in BOOLEAN OBVIOUS
  <2> QED BY <1>2, <2>1, <2>2, ZenonT(30) DEF Link
<1>4. bw \in Writer /\ bw.buf = <<>> /\ bw.to = "link" BY DEF Init, Writer
<1>5. reader \in [Watch -> [pc : {"off", "read", "hand", "closing", "close"},
                            to : Loss \cup {nil}, then : {"read", "close"}]]
  BY Zenon DEF Init, ReaderAt
<1>6. pool \in Seq(Server) /\ url \in Server /\ budget \in Budget /\ pongs \in Seq(Loss \cup {nil})
  BY BusAssumption DEF Init
<1>7. inbox \in [Subject -> 0 .. SubChanLen] BY BusAssumption DEF Init
<1>8. TypeOK
  <2>1. err \in BOOLEAN /\ armed \in BOOLEAN /\ fired \in BOOLEAN BY Zenon DEF Init
  <2>2. fch \in Nat /\ pout \in Nat /\ wg \in Int BY DEF Init
  <2>3. /\ flusher \in [Watch -> {"off", "wait", "kicked"}]
        /\ reconnect \in [Loss -> {"none", "kick", "exits", "setup", "select", "dial", "flush",
                                   "wait", "timedout", "callback", "done"}]
        /\ spin \in [Loss -> {"none", "kick", "exits", "start", "arm", "done"}]
    BY Zenon DEF Init
  <2>4. /\ status \in {"CONNECTED", "RECONNECTING", "CLOSED"} /\ pending \in Seq(Sent) \cup {nil}
        /\ run \in {"subscribe", "kick", "start", "addcb", "serving", "exited"}
    BY <1>1, Zenon DEF Init
  <2> QED BY <1>1, <1>3, <1>4, <1>5, <1>6, <1>7, <2>1, <2>2, <2>3, <2>4, ZenonT(30) DEF TypeOK
<1>9. \A op \in {"CONNECT", "SUB"} : Written(op) = {} BY <1>4 DEF Written
<1>10. \A k \in Loss : reconnect[k] = "none" /\ spin[k] = "none" /\ flusher[k] = "off"
  BY BusAssumption DEF Init, Loss, Watch
<1>11. Core
  BY <1>3, <1>4, <1>9, <1>10, ZenonT(30)
  DEF Core, Repair, Repairing, Handshake, Told, SubsRestored, CleanHandshake
<1>12. Order
  <2>1. 0 \in 0 .. MaxLosses /\ \A k \in Loss : ~(k <= 0) BY BusAssumption DEF Loss
  <2>2. \E m \in 0 .. MaxLosses : \A k \in Loss : reconnect[k] # "none" <=> k <= m
    BY <1>10, <2>1, Zenon
  <2> QED BY <1>10, <2>2, Zenon DEF Order
<1>13. NoStrandedOutput BY <1>4, Zenon DEF NoStrandedOutput
<1> QED BY <1>1, <1>8, <1>11, <1>12, <1>13 DEF IInv

(* Hence it always holds. *)
LEMMA Invariant == Spec => []IInv
<1>1. Init => IInv BY Initially, BusAssumption, Zenon
<1>2. IInv /\ [Next]_vars => IInv' BY Inductive, BusAssumption, Zenon
<1> QED BY <1>1, <1>2, PTL DEF Spec

(* The client's state keeps its types: no channel holds more than it can, and
   every wait for a pong is that of a flush call or of the ping timer. *)
THEOREM TypeCorrect == Spec => []TypeOK
<1>1. IInv => TypeOK BY Zenon DEF IInv
<1> QED BY <1>1, Invariant, PTL

(* Whatever is subscribed, lost, flushed and repaired in whatever order, a live
   connection has been told of every subscription or is about to be
   (resendSubscriptions, subscribe). *)
THEOREM SubscriptionsSurvive == Spec => []SubsRestored
<1>1. IInv => SubsRestored BY Zenon DEF IInv, Core
<1> QED BY <1>1, Invariant, PTL

(* Every connection opens with one handshake, and no subscription is made twice
   on it, however often the client reconnects (doReconnect). *)
THEOREM HandshakesClean == Spec => []CleanHandshake
<1>1. IInv => CleanHandshake BY Zenon DEF IInv, Core
<1> QED BY <1>1, Invariant, PTL

(* No kick of the flusher is lost for good: output of a connected client always
   has a flush to come (kickFlusher, flusher, spinUpSocketWatchers). *)
THEOREM OutputFlushed == Spec => []NoStrandedOutput
<1>1. IInv => NoStrandedOutput BY Zenon DEF IInv
<1> QED BY <1>1, Invariant, PTL
===============================================================================
