------------------------------ MODULE KillRing ------------------------------
(***************************************************************************)
(* The kill ceiling of src/alert/alert_act.c: a ring of the times of the   *)
(* last MaxKillsPerMinute kills, overwritten at its head, and the count of *)
(* those inside the window that decides whether one more is allowed.       *)
(*                                                                         *)
(* now is the clock of the cycle (run_cycle reads it once). kills is a     *)
(* history variable, the time of every SIGKILL sent so far: no action      *)
(* reads it.                                                               *)
(***************************************************************************)
EXTENDS Integers, Sequences, FiniteSets

CONSTANTS MaxKillsPerMinute,  \* [global] max_kills_per_minute; 0: alerts only
          KillWindow,         \* KILL_WINDOW_MS
          StartMs             \* CLOCK_MONOTONIC when the program starts

ASSUME RingAssumption ==
    /\ MaxKillsPerMinute \in Nat
    /\ KillWindow \in Nat
    /\ StartMs \in Nat \ {0}

VARIABLES now, kill_ring, kill_ring_head, kill_ring_count, kills

ring == <<kill_ring, kill_ring_head, kill_ring_count, kills>>
ringvars == <<now, ring>>

kill_ring_cap == MaxKillsPerMinute
Slots == 0 .. kill_ring_cap - 1

RingTypeOK ==
    /\ now \in Nat \ {0}
    /\ kill_ring \in [Slots -> Nat]
    /\ kill_ring_head \in Nat
    /\ kill_ring_head < kill_ring_cap \/ kill_ring_head = 0
    /\ kill_ring_count \in 0 .. kill_ring_cap
    /\ kills \in Seq(Nat)

\* alloc_runtime: calloc of kill_ring_cap slots.
RingInit ==
    /\ now = StartMs
    /\ kill_ring = [s \in Slots |-> 0]
    /\ kill_ring_head = 0
    /\ kill_ring_count = 0
    /\ kills = <<>>

-----------------------------------------------------------------------------
recent_slots ==
    {s \in 0 .. kill_ring_count - 1 :
        kill_ring[s] <= now /\ now - kill_ring[s] < KillWindow}

\* A bug: the first slot of the ring is not looked at.
kills_last_minute_skips_slot == Cardinality(recent_slots \ {0})

kills_last_minute == Cardinality(recent_slots)

\* A bug: one kill too many is let through.
ceiling_reached_off_by_one == kills_last_minute > MaxKillsPerMinute

ceiling_reached == kills_last_minute >= MaxKillsPerMinute

\* A bug: the head stays where it is, so one slot holds every kill.
push_kill_head_stuck ==
    IF kill_ring_cap = 0
    THEN UNCHANGED <<kill_ring, kill_ring_head, kill_ring_count>>
    ELSE /\ kill_ring' = [kill_ring EXCEPT ![kill_ring_head] = now]
         /\ kill_ring_count' = IF kill_ring_count < kill_ring_cap
                               THEN kill_ring_count + 1 ELSE kill_ring_count
         /\ UNCHANGED kill_ring_head

\* A bug: the head runs past the last slot.
push_kill_no_wrap ==
    IF kill_ring_cap = 0
    THEN UNCHANGED <<kill_ring, kill_ring_head, kill_ring_count>>
    ELSE /\ kill_ring' = [kill_ring EXCEPT ![kill_ring_head] = now]
         /\ kill_ring_head' = kill_ring_head + 1
         /\ kill_ring_count' = IF kill_ring_count < kill_ring_cap
                               THEN kill_ring_count + 1 ELSE kill_ring_count

push_kill ==
    IF kill_ring_cap = 0
    THEN UNCHANGED <<kill_ring, kill_ring_head, kill_ring_count>>
    ELSE /\ kill_ring' = [kill_ring EXCEPT ![kill_ring_head] = now]
         /\ kill_ring_head' = (kill_ring_head + 1) % kill_ring_cap
         /\ kill_ring_count' = IF kill_ring_count < kill_ring_cap
                               THEN kill_ring_count + 1 ELSE kill_ring_count

-----------------------------------------------------------------------------
ClockAdvance == /\ now' \in Nat
                /\ now' >= now
                /\ UNCHANGED ring

\* The KILL case of execute_action below the ceiling: SIGKILL, then push.
KillAndPush == /\ ~ceiling_reached
               /\ push_kill
               /\ kills' = Append(kills, now)
               /\ UNCHANGED now

RingNext == ClockAdvance \/ KillAndPush

RingSpec == RingInit /\ [][RingNext]_ringvars

-----------------------------------------------------------------------------
(***************************************************************************)
(* Whatever the order of kills and however far apart, no window of         *)
(* KillWindow ms holds more than MaxKillsPerMinute SIGKILLs: the kill that *)
(* comes MaxKillsPerMinute after another comes at least a window later.    *)
(* The ring forgets every kill but the last MaxKillsPerMinute, and         *)
(* kills_last_minute scans its slots out of order: this is what those two  *)
(* shortcuts must not break (kills_last_minute, push_kill).                *)
(***************************************************************************)
KillCeiling ==
    \A k \in DOMAIN kills :
        k + MaxKillsPerMinute \in DOMAIN kills =>
            kills[k + MaxKillsPerMinute] - kills[k] >= KillWindow

Budget == INSTANCE KillBudget

(***************************************************************************)
(* The ring refuses a kill exactly when the whole history would: it        *)
(* neither lets one through early nor holds one back after the window has  *)
(* passed, which would leave a runaway process alive (kills_last_minute).  *)
(***************************************************************************)
CeilingExact == ceiling_reached <=> ~Budget!Affordable

(***************************************************************************)
(* The ring implements the budget that keeps the whole history             *)
(* (execute_action, push_kill).                                            *)
(***************************************************************************)
BudgetSpec == Budget!Spec
=============================================================================
