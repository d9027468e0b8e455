--------------------------- MODULE MCAlertEngine ---------------------------
(***************************************************************************)
(* Instances of AlertEngine: catalogs, scans and clocks. Thresholds are    *)
(* chosen so that a reading of 0 is low, 1 lies in the dead band (and on   *)
(* both its bounds) and 2 is high; -1 is the sentinel.                     *)
(***************************************************************************)
EXTENDS AlertEngine

Policy(persistence, hysteresis_m, cooldown, actions) ==
    [type |-> "performance", threshold |-> 1, threshold_low |-> 1,
     persistence |-> persistence, hysteresis_m |-> hysteresis_m,
     cooldown |-> cooldown, actions |-> actions]

MCReadings == {-1, 0, 1, 2}
HighOnly == {2}
HighOrLow == {0, 2}

P(pid, start) == [pid |-> pid, starttime |-> start]
Plain(pid, start) == [id |-> P(pid, start), protected |-> FALSE]
Guardian(pid, start) == [id |-> P(pid, start), protected |-> TRUE]

\* Nothing, or the one process, plain or protected.
OneProcess == {<<>>, <<Plain(1, 1)>>, <<Guardian(1, 1)>>}
AlwaysThere == {<<Plain(1, 1)>>}

\* Two or three processes in the order readdir gives them.
TwoProcesses == {<<Plain(1, 1), Plain(2, 1)>>}
TwoOrOne == {<<>>, <<Plain(1, 1)>>, <<Plain(2, 1)>>, <<Plain(1, 1), Plain(2, 1)>>}

\* Process 1 exits and its pid is used again; process 2 comes and goes.
Recycled == {<<>>, <<Plain(2, 1)>>, <<Plain(1, 1)>>, <<Plain(1, 2)>>,
             <<Plain(2, 1), Plain(1, 1)>>, <<Plain(1, 2), Plain(2, 1)>>}

LadderCatalog == <<Policy(2, 2, 2, <<"WARN", "CAGE", "STOP", "KILL">>)>>
DryCatalog == <<Policy(1, 2, 0, <<"WARN", "RENICE", "CAGE", "STOP", "KILL">>)>>
KillsCatalog ==
    <<Policy(1, 1, 0, <<"RENICE", "KILL", "KILL", "KILL">>),
      [Policy(1, 1, 1, <<"WARN">>) EXCEPT !.type = "security"]>>
CageCatalog == <<Policy(1, 1, 0, <<"CAGE", "CAGE">>)>>
ZeroHysteresis == <<Policy(1, 0, 0, <<"WARN">>)>>
TermCatalog == <<Policy(1, 1, 0, <<"TERM">>)>>
=============================================================================
