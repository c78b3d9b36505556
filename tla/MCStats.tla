------------------------------- MODULE MCStats -------------------------------
(***************************************************************************)
(* An instance of ActiveApps and TopApps for TLC.  The two share nothing   *)
(* but the clock, so a behaviour follows one of them.                      *)
(***************************************************************************)
EXTENDS ActiveApps, TopApps, TLC

VARIABLE followed

AppSymmetry == Permutations(App)

StatsInit == ActiveInit /\ TopInit /\ now = 1 /\ marks = 0 /\ followed \in {"active", "top"}

StatsNext ==
  /\ \/ followed = "active" /\ ActiveNext /\ UNCHANGED topVars
     \/ followed = "top" /\ TopNext /\ UNCHANGED activeVars
  /\ UNCHANGED followed

StatsSpec == StatsInit /\ [][StatsNext]_<<activeVars, topVars, now, marks, followed>>

(* Times, heaps, indices, counts and lists keep their types; the next list of
   ActiveApps never starts in the future, and no slot of TopApps is empty. *)
StatsTypeOK ==
  /\ ActiveTypeOK /\ TopTypeOK
  /\ now \in Time /\ marks \in 0 .. MaxMarks
=============================================================================
