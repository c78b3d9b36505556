---------------------------- MODULE MCRouteFetcher ----------------------------
(* An instance of RouteSources for TLC. *)
EXTENDS RouteSources

CONSTANTS u1, u2, x

OneTick == [ep \in Endpoint |-> 0]

Routes(uris) == [uri : uris, endpoint : Endpoint]

(* The fetcher alone with two routes; one route from both sources, of which a
   message may bring two. *)
MCOffers ==
  {[api |-> Routes({u1, u2}), bus |-> {}],
   [api |-> Routes({u1}), bus |-> Routes({u1, u2})]}
===============================================================================
