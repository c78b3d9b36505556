------------------------------ MODULE MCNatsConn ------------------------------
(***************************************************************************)
(* An instance of NatsConn for TLC: two servers, one of which may be gone  *)
(* for good, and the subjects of Router.Run.                               *)
(***************************************************************************)
EXTENDS NatsConn

CONSTANTS s1, s2

MCServers == <<s1, s2>>

MCSubjects == <<"router.register", "router.greet", "router.unregister">>

Bound(from, losses, msgs, pings) ==
  [from |-> from, losses |-> losses, msgs |-> msgs, pings |-> pings]

(* Together these reach a loss while the router subscribes, a loss during the
   repair of another, a silent socket, messages and server errors around a
   loss, and a slow consumer. *)
MCBudgets ==
  {Bound("subscribe", 1, 0, 0), Bound("serving", 2, 0, 0), Bound("serving", 1, 0, 2),
   Bound("serving", 1, 2, 0), Bound("serving", 0, 2, 2)}
===============================================================================
