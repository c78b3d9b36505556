------------------------------- MODULE MCProxy -------------------------------
(***************************************************************************)
(* An instance of AccessLogger, and so of Proxy, for TLC.                  *)
(***************************************************************************)
EXTENDS AccessLogger

CONSTANTS a1, a2

Ep(addr, url) == [addr |-> addr, routeService |-> url]

MCAddr == {a1, a2}

(* Applications and route services may answer with a 502 of their own. *)
MCAppStatus == {200, 502}

MixedEndpoint == {Ep(a1, "none"), Ep(a1, "service"), Ep(a2, "none")}
=============================================================================
