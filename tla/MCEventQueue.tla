---------------------------- MODULE MCEventQueue ----------------------------
(***************************************************************************)
(* EventQueue with two producers and two consumers on a queue of two       *)
(* slots: it wraps around and overflows several times.                     *)
(***************************************************************************)
EXTENDS EventQueue, TLC

Symmetry == Permutations(Producers) \cup Permutations(Consumers)
=============================================================================
