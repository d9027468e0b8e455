-------------------------- MODULE MCAlertRegistry --------------------------
(***************************************************************************)
(* AlertRegistry on three processes, each present or absent in every       *)
(* cycle, so that both arrays are compacted in every order. Between two    *)
(* samples of a process the clock stands still or goes on, and each        *)
(* counter goes back or forward, in every combination; one usage is more   *)
(* than both processors, and quotients have a remainder.                   *)
(***************************************************************************)
EXTENDS AlertRegistry

MCPolicyMetrics == <<"io_read_rate", "mem_rss", "cpu_percent">>

Reading(t, c, b) == [time |-> t, cpu |-> c, io |-> b, rss |-> c]

MCReadings == <<
    Reading(0, 0, 10), Reading(500, 120, 30), Reading(500, 15, 20),
    Reading(500, 20, 25), Reading(2000, 19, 22) >>
=============================================================================
