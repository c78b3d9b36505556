------------------------------- MODULE MCRouter -------------------------------
(* Instances of Router for TLC: their constants need no definitions. *)
EXTENDS Router
===============================================================================
