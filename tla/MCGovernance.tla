---------------------------- MODULE MCGovernance ----------------------------
(***************************************************************************)
(* Governance with two pids, one process at the start and room for one     *)
(* more, which takes the other pid or the same one again; one of the two   *)
(* may become a guardian, or cease to be one. In the second cycle both     *)
(* policies emit for one process: KILL, then STOP.                         *)
(***************************************************************************)
EXTENDS Governance

MCInitial == <<[pid |-> 2, marks |-> {}, state |-> "alive", group |-> NoGroup]>>

\* A program without a mark, and a guardian.
TwoImages == {{}, Marks}

MCCatalog ==
    <<[type |-> "performance", threshold |-> 1, threshold_low |-> 1,
       persistence |-> 1, hysteresis_m |-> 1, cooldown |-> 0,
       actions |-> <<"CAGE", "KILL">>],
      [type |-> "performance", threshold |-> 1, threshold_low |-> 1,
       persistence |-> 2, hysteresis_m |-> 1, cooldown |-> 0,
       actions |-> <<"STOP">>]>>

HighOnly == {2}

\* What a scan may return: each pid absent, or with any start time.
ScansOf(p) ==
    {<<>>} \cup {<<[id |-> [pid |-> p, starttime |-> n], protected |-> b]>> :
                    n \in Starts, b \in BOOLEAN}
MCScans == {s \o t : s \in ScansOf(2), t \in ScansOf(3)}
=============================================================================
