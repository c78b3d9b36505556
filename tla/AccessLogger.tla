----------------------------- MODULE AccessLogger -----------------------------
(***************************************************************************)
(* Request handling beside the access logger                               *)
(* (src/access_log/file_and_loggregator_access_logger.go).  The last thing *)
(* a request does is to send its record down a channel of fixed size; one  *)
(* goroutine, Run, writes records in turn.  When the channel is full the   *)
(* request waits, and its client's connection with it.                     *)
(*                                                                         *)
(* The router never calls Stop.  A write that fails is not noticed: to Run *)
(* it is a write like any other.  Loggregator, the other place a record    *)
(* goes to, is told in the same step and keeps nothing here.               *)
(***************************************************************************)
EXTENDS Proxy, Sequences

CONSTANTS
  ChannelSize,  \* make(chan AccessLogRecord, 128)
  MaxBacklog    \* bound: records waiting when another request sends one

ASSUME ChannelAssumption ==
  ChannelSize \in Nat /\ MaxBacklog \in Nat /\ nil \notin Request

VARIABLES
  channel,      \* records sent and not yet received, waiting senders included
  sent,         \* the requests that have sent their records
  written       \* the statuses written for each request, in order

loggerVars == <<channel, sent, written>>
loggedVars == <<vars, loggerVars>>

(* nil stands for every request that is not in Request. *)
Record == [request : Request \cup {nil}, status : {0} \cup OwnStatus \cup AppStatus]

LoggerTypeOK ==
  /\ TypeOK
  /\ channel \in Seq(Record)
  /\ sent \in SUBSET Request
  /\ written \in [Request -> Seq({0} \cup OwnStatus \cup AppStatus)]

InitLogged ==
  /\ Init
  /\ channel = <<>>
  /\ sent = {}
  /\ written = [r \in Request |-> <<>>]

-----------------------------------------------------------------------------

(* Waiting senders queue up behind the buffer: a record is in the buffer, or
   received already, unless ChannelSize records are ahead of it. *)
Accepted(r) ==
  r \in sent /\ \A i \in DOMAIN channel : channel[i].request = r => i <= ChannelSize

(* Mutant of SendRecord: defer accessLogger.Log(accessLog), whose argument is
   copied before the request is handled. *)
SendRecordDeferred(r) ==
  /\ pc[r] = "log"
  /\ r \notin sent
  /\ channel' = Append(channel, [request |-> r, status |-> 0])
  /\ sent' = sent \cup {r}
  /\ UNCHANGED <<vars, written>>

(* Log, called by ServeHTTP's deferred function: the record is a copy. *)
SendRecord(r) ==
  /\ pc[r] = "log"
  /\ r \notin sent
  /\ channel' = Append(channel, [request |-> r, status |-> status[r]])
  /\ sent' = sent \cup {r}
  /\ UNCHANGED <<vars, written>>

LogOther ==
  /\ Len(channel) < MaxBacklog
  /\ channel' = Append(channel, [request |-> nil, status |-> 0])
  /\ UNCHANGED <<vars, sent, written>>

(* Mutant of Run: a record that finds senders waiting is dropped. *)
RunSheds ==
  /\ channel # <<>>
  /\ channel' = Tail(channel)
  /\ written' = [r \in Request |->
                   IF channel[1].request = r /\ Len(channel) <= ChannelSize
                     THEN Append(written[r], channel[1].status) ELSE written[r]]
  /\ UNCHANGED <<vars, sent>>

Run ==
  /\ channel # <<>>
  /\ channel' = Tail(channel)
  /\ written' = [r \in Request |->
                   IF channel[1].request = r
                     THEN Append(written[r], channel[1].status) ELSE written[r]]
  /\ UNCHANGED <<vars, sent>>

(* The steps of Proxy; the request is done once Log has returned. *)
Serves(r) ==
  /\ Answers(r) \/ Attempts(r)
  /\ pc[r] = "log" => Accepted(r)
  /\ UNCHANGED loggerVars

NextLogged ==
  \/ \E r \in Request : Serves(r) \/ SendRecord(r)
  \/ \E r \in Request : TunnelCloses(r) /\ UNCHANGED loggerVars
  \/ PoolChanges /\ UNCHANGED loggerVars
  \/ LogOther
  \/ Run

LoggedSpec == InitLogged /\ [][NextLogged]_loggedVars

(* Dials time out after 5 seconds and backend connections carry a deadline,
   so every step of a request but the end of a tunnel is eventually taken; Run
   goes on for as long as the process. *)
LiveSpec ==
  /\ LoggedSpec
  /\ WF_loggedVars(Run)
  /\ \A r \in Request : WF_loggedVars(Serves(r)) /\ WF_loggedVars(SendRecord(r))

-----------------------------------------------------------------------------
(* Properties. *)

(* The access log tells the truth: what is written of a request is the status
   its client was sent, unless the router had taken over the connection, and
   then nothing contradicts it (HandleUnsupportedProtocol writes 400 by hand).
   It is written at most once. *)
LogMatchesClient ==
  \A r \in Request :
    /\ Len(written[r]) <= 1
    /\ \A i \in DOMAIN written[r] :
         /\ written[r][i] # 0
         /\ writer[r] # "hijacked" => client[r] = written[r][i]
         /\ writer[r] = "hijacked" => client[r] \in {0, written[r][i]}

(* Every request is finished and written to the access log, whatever endpoints
   refuse it, however the pool changes and however full the channel is, unless
   it lives on as a tunnel. *)
RequestsFinish ==
  \A r \in Request :
    <>[]((pc[r] = "logged" /\ written[r] # <<>>) \/ pc[r] = "tunnel")
===============================================================================
