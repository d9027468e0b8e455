----------------------------- MODULE KillBudget -----------------------------
(***************************************************************************)
(* What the kill ceiling promises, with no ring: kills is the whole        *)
(* history of SIGKILL times, and a kill is allowed only when it would not  *)
(* be the (max+1)-th inside one window.                                    *)
(***************************************************************************)
EXTENDS Naturals, Sequences

CONSTANTS MaxKillsPerMinute,  \* [global] max_kills_per_minute
          KillWindow,         \* the length of "a minute", in ms
          StartMs             \* the clock when the program starts

VARIABLES now, kills

Init == now = StartMs /\ kills = <<>>

Tick == /\ now' \in Nat
        /\ now' >= now
        /\ UNCHANGED kills

Affordable ==
    /\ MaxKillsPerMinute > 0
    /\ \/ Len(kills) < MaxKillsPerMinute
       \/ now - kills[Len(kills) - MaxKillsPerMinute + 1] >= KillWindow

Kill == /\ Affordable
        /\ kills' = Append(kills, now)
        /\ UNCHANGED now

Next == Tick \/ Kill

Spec == Init /\ [][Next]_<<now, kills>>
=============================================================================
