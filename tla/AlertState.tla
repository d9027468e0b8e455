----------------------------- MODULE AlertState -----------------------------
(***************************************************************************)
(* The per-(process, policy) alert record, pg_alert_state_t, and the pure  *)
(* functions src/alert/alert_eval.c and src/alert/alert_act.c apply to it. *)
(* A policy p is a record with the fields the functions read; a metric     *)
(* value m and the thresholds are integers, and times are milliseconds.    *)
(***************************************************************************)
EXTENDS Integers, Sequences

AlertStates ==
    [persistence : Nat, hysteresis : Nat, cooldown_until : Nat,
     active_since : Nat, level : Nat, deactivated : BOOLEAN]

\* calloc: what pg_alert_state_upsert returns for a pair it has not seen.
ZeroState ==
    [persistence |-> 0, hysteresis |-> 0, cooldown_until |-> 0,
     active_since |-> 0, level |-> 0, deactivated |-> FALSE]

\* Seven kinds of action, in the order of pg_action_kind_t.
ActionKinds == {"WARN", "RENICE", "AFFINITY", "CAGE", "STOP", "TERM", "KILL"}

Policies ==
    [type : {"performance", "security"}, threshold : Int, threshold_low : Int,
     persistence : Nat \ {0}, hysteresis_m : Nat, cooldown : Nat,
     actions : Seq(ActionKinds) \ {<<>>}]

-----------------------------------------------------------------------------
(***************************************************************************)
(* Three zones. The two bounds of the dead band belong to the band, where  *)
(* neither streak survives.                                                *)
(***************************************************************************)
zone(p, m) == IF m > p.threshold THEN "high"
              ELSE IF m < p.threshold_low THEN "low" ELSE "band"

\* A bug: the comparison is made before the counter is incremented.
activation_late(st, p, now) ==
    IF st.persistence = p.persistence /\ st.active_since = 0
    THEN now ELSE st.active_since

\* The alert becomes active on the sample that completes the streak, and an
\* alert that is already active keeps the time it became so.
activation(st, p, now) ==
    IF st.persistence + 1 = p.persistence /\ st.active_since = 0
    THEN now ELSE st.active_since

\* A bug: a high sample does not break the streak of low ones.
on_high_keeps_lows(st, p, now) ==
    [st EXCEPT !.persistence = @ + 1, !.active_since = activation(st, p, now)]

on_high(st, p, now) ==
    [st EXCEPT !.persistence = @ + 1, !.hysteresis = 0,
               !.active_since = activation(st, p, now)]

on_low(st) == [st EXCEPT !.hysteresis = @ + 1, !.persistence = 0]

\* A bug: the dead band does not break the streak of high samples.
on_band_keeps_streak(st) == [st EXCEPT !.hysteresis = 0]

on_band(st) == [st EXCEPT !.hysteresis = 0, !.persistence = 0]

apply_zone(st, p, m, now) ==
    CASE zone(p, m) = "high" -> on_high(st, p, now)
      [] zone(p, m) = "low"  -> on_low(st)
      [] zone(p, m) = "band" -> on_band(st)

must_deactivate(st, p) ==
    st.hysteresis >= p.hysteresis_m /\ st.active_since # 0

deactivate(st) ==
    [st EXCEPT !.persistence = 0, !.hysteresis = 0, !.active_since = 0,
               !.deactivated = TRUE]

should_emit(st, p, now) ==
    /\ st.persistence >= p.persistence
    /\ now >= st.cooldown_until
    /\ st.level < Len(p.actions)

\* A bug: the flag survives the act that follows the deactivation.
advance_after_act_keeps_flag(st, p, now) ==
    [st EXCEPT !.cooldown_until = now + p.cooldown, !.persistence = 0,
               !.level = IF st.deactivated THEN @ ELSE @ + 1]

(***************************************************************************)
(* A decision that counts: it starts the cooldown and a new streak. The    *)
(* ladder climbs one rung, except on the first act after a deactivation,   *)
(* which only consumes the flag.                                           *)
(***************************************************************************)
advance_after_act(st, p, now) ==
    [st EXCEPT !.cooldown_until = now + p.cooldown, !.persistence = 0,
               !.level = IF st.deactivated THEN @ ELSE @ + 1,
               !.deactivated = FALSE]
=============================================================================
