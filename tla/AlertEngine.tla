---------------------------- MODULE AlertEngine ----------------------------
(***************************************************************************)
(* The governance engine of src/alert and the loop of src/main.c that      *)
(* drives it:                                                              *)
(*                                                                         *)
(*   scan -> evaluate -> validate -> act -> store_tick -> state_gc/cage_gc *)
(*                                                                         *)
(* One action per iteration of evaluate and of act; an act with a system   *)
(* call is two steps, the identity check and the call, because the world   *)
(* can change between them. What /proc and the store answer is chosen by   *)
(* the environment: the samples of a scan, the metric of a pair, the       *)
(* outcome of the identity check and of cage_apply, and which ids the      *)
(* store still keeps after its tick.                                       *)
(***************************************************************************)
EXTENDS AlertState, KillRing

CONSTANTS
    Pids, Starts,        \* a process is a pid and its start time (ADR-005)
    Catalog,             \* the policies, in catalog order
    Readings,            \* metric values; a negative one is the sentinel
    Scans,               \* what a scan may return
    Intervals,           \* clock advance from one cycle to the next
    Cycles,              \* --cycles
    SanityMs,            \* minimum age of an alert for STOP and KILL
    MaxCagedProcesses,   \* [global] max_caged_processes
    DryRun,              \* [global] dry_run
    CageBackend          \* sc.cage_apply # NULL

Ids == [pid : Pids, starttime : Starts]
Samples == [id : Ids, protected : BOOLEAN]
PolicyIndex == DOMAIN Catalog
Pairs == Ids \X PolicyIndex

ASSUME EngineAssumption ==
    /\ Catalog \in Seq(Policies) \ {<<>>}
    /\ Readings \subseteq Int
    /\ \A ss \in Scans :
        /\ ss \in Seq(Samples)
        /\ \A k, l \in DOMAIN ss : ss[k].id.pid = ss[l].id.pid => k = l
    /\ Intervals \subseteq Nat
    /\ Cycles \in Nat
    /\ SanityMs \in Nat
    /\ MaxCagedProcesses \in Nat
    /\ DryRun \in BOOLEAN
    /\ CageBackend \in BOOLEAN

SkipReasons == {"stale_id", "protected", "sanity"}

Decisions ==
    [id : Ids, policy : PolicyIndex, kind : ActionKinds, level : Nat,
     skip : SkipReasons \cup {"null"}]

VARIABLES
    phase,      \* where the cycle is
    cycle,      \* cycles started
    samples,    \* the scan of this cycle
    i, pi,      \* loop indices
    decs,       \* the ephemeral list of decisions (ADR-010)
    registry,   \* the pairs that have an alert state
    states,     \* their states; ZeroState outside the registry
    caged,      \* the register of caged processes
    present,    \* the ids the store keeps
    event,      \* history: the log line and the system call of the last step
    recent,     \* history: the last zones of each pair
    acted       \* history: the last act of each pair that counted

engine == <<phase, cycle, samples, i, pi, decs, registry, states, caged, present>>
vars == <<engine, event, recent, acted, ringvars>>

PolicyOf(pr) == Catalog[pr[2]]
PairOf(d) == <<d.id, d.policy>>

NoEvent == [pair |-> <<>>, kind |-> "none", state |-> "none", call |-> "none"]

\* acted: the rung and time of the last act that counted, whether the alert
\* fell between that act and the one before, and whether it has fallen since.
Never == [any |-> FALSE, level |-> 0, at |-> 0, repeat |-> FALSE, fell |-> FALSE]
Quiet == event' = NoEvent

Init ==
    /\ phase = "idle" /\ cycle = 0
    /\ samples = <<>> /\ i = 1 /\ pi = 1 /\ decs = <<>>
    /\ registry = {} /\ states = [pr \in Pairs |-> ZeroState]
    /\ caged = <<>> /\ present = {}
    /\ event = NoEvent
    /\ recent = [pr \in Pairs |-> <<>>]
    /\ acted = [pr \in Pairs |-> Never]
    /\ RingInit

-----------------------------------------------------------------------------
(***************************************************************************)
(* run_cycle up to evaluate: the clock is read once for the whole cycle,   *)
(* the scan is inserted into the store, which may have no memory for an    *)
(* entry (the failure is ignored), and the engine starts its pass.         *)
(***************************************************************************)
BeginCycle ==
    /\ phase = "idle" /\ cycle < Cycles
    /\ \E ss \in Scans, dt \in Intervals :
        /\ samples' = ss
        /\ now' = now + dt
        /\ \E stored \in SUBSET {ss[k].id : k \in DOMAIN ss} :
            present' = present \cup stored
    /\ phase' = "evaluate" /\ cycle' = cycle + 1
    /\ i' = 1 /\ pi' = 1 /\ decs' = <<>>
    /\ Quiet
    /\ UNCHANGED <<registry, states, caged, recent, acted, ring>>

\* run_loop ends: every cycle has run, or the scan of the next one fails.
Finish ==
    /\ phase = "idle"
    /\ phase' = "stopped"
    /\ Quiet
    /\ UNCHANGED <<cycle, samples, i, pi, decs, registry, states, caged,
                   present, recent, acted, ringvars>>

Evaluating == phase = "evaluate" /\ i <= Len(samples)

\* The inner loop over the policies, the outer one over the samples.
NextPair == IF pi < Len(Catalog) THEN pi' = pi + 1 /\ UNCHANGED i
                                 ELSE pi' = 1 /\ i' = i + 1

CurPair == <<samples[i].id, pi>>

(***************************************************************************)
(* eval_one leaves the state alone: a security policy, a sentinel metric   *)
(* (first sample, counter gone backwards), or no memory for a new entry.   *)
(***************************************************************************)
EvalFrozen ==
    /\ Evaluating
    /\ NextPair
    /\ Quiet
    /\ UNCHANGED <<phase, cycle, samples, decs, registry, states, caged,
                   present, recent, acted, ringvars>>

LastZones(pr) == LET p == PolicyOf(pr)
                 IN  IF p.hysteresis_m > p.persistence
                     THEN p.hysteresis_m ELSE p.persistence

Remember(pr, z) ==
    LET s == Append(recent[pr], z)
    IN  [recent EXCEPT ![pr] = IF Len(s) > LastZones(pr) THEN Tail(s) ELSE s]

decision(pr, st) ==
    [id |-> pr[1], policy |-> pr[2], level |-> st.level,
     kind |-> PolicyOf(pr).actions[st.level + 1], skip |-> "null"]

\* eval_one on a metric that is not the sentinel.
EvalScored ==
    /\ Evaluating
    /\ Catalog[pi].type # "security"
    /\ \E m \in Readings :
        LET p  == Catalog[pi]
            st == apply_zone(states[CurPair], p, m, now)
        IN  /\ m >= 0
            /\ recent' = Remember(CurPair, zone(p, m))
            /\ \/ /\ must_deactivate(st, p)
                  /\ states' = [states EXCEPT ![CurPair] = deactivate(st)]
                  /\ acted' = [acted EXCEPT ![CurPair].fell = TRUE]
                  /\ UNCHANGED decs
               \/ /\ ~must_deactivate(st, p)
                  /\ states' = [states EXCEPT ![CurPair] = st]
                  /\ decs' = IF should_emit(st, p, now)
                             THEN Append(decs, decision(CurPair, st)) ELSE decs
                  /\ UNCHANGED acted
    /\ registry' = registry \cup {CurPair}
    /\ NextPair
    /\ Quiet
    /\ UNCHANGED <<phase, cycle, samples, caged, present, ringvars>>

-----------------------------------------------------------------------------
(***************************************************************************)
(* validate: the first reason that applies is the one that is noted.       *)
(***************************************************************************)
find_by_pid(pid) == {s \in DOMAIN samples : samples[s].id.pid = pid}

stale(d) == \A s \in find_by_pid(d.id.pid) : samples[s].id # d.id

\* whitelist_reason: pid 1, ProcGuard and its children, no exe, a listed name.
whitelisted(d) == \E s \in find_by_pid(d.id.pid) : samples[s].protected

\* A bug: STOP is not held back.
sanity_blocks_kill_only(d) ==
    /\ d.kind = "KILL"
    /\ PairOf(d) \in registry
    /\ states[PairOf(d)].active_since # 0
    /\ now - states[PairOf(d)].active_since < SanityMs

sanity_blocks(d) ==
    /\ d.kind \in {"STOP", "KILL"}
    /\ PairOf(d) \in registry
    /\ states[PairOf(d)].active_since # 0
    /\ now - states[PairOf(d)].active_since < SanityMs

\* A bug: the sanity check makes the whitelist be skipped.
skip_reason_sanity_only(d) == IF stale(d) THEN "stale_id"
                              ELSE IF sanity_blocks(d) THEN "sanity" ELSE d.skip

skip_reason(d) == CASE stale(d)                       -> "stale_id"
                    [] ~stale(d) /\ whitelisted(d)    -> "protected"
                    [] ~stale(d) /\ ~whitelisted(d)
                                 /\ sanity_blocks(d)  -> "sanity"
                    [] OTHER                          -> d.skip

Validate ==
    /\ phase = "evaluate" /\ i > Len(samples)
    /\ decs' = [k \in DOMAIN decs |->
                    [decs[k] EXCEPT !.skip = skip_reason(decs[k])]]
    /\ phase' = "act" /\ i' = 1
    /\ Quiet
    /\ UNCHANGED <<cycle, samples, pi, registry, states, caged, present,
                   recent, acted, ringvars>>

\* The calloc of the decision list fails: main.c ignores it and goes on.
CycleNoMemory ==
    /\ phase = "evaluate" /\ i = 1 /\ pi = 1 /\ Len(samples) > 0
    /\ decs = <<>> /\ phase' = "act"
    /\ Quiet
    /\ UNCHANGED <<cycle, samples, i, pi, decs, registry, states, caged,
                   present, recent, acted, ringvars>>

-----------------------------------------------------------------------------
(***************************************************************************)
(* act: one decision after the other. log_decision is the event of the     *)
(* step that ends the decision.                                            *)
(***************************************************************************)
dec == decs[i]
Acting == phase = "act" /\ i <= Len(decs)

Logged(label, call) ==
    event' = [pair |-> PairOf(dec), kind |-> dec.kind, state |-> label, call |-> call]

\* The decision is done and its state is as it was: it will be retried.
Skip(label) ==
    /\ Logged(label, "none")
    /\ phase' = "act" /\ i' = i + 1
    /\ UNCHANGED <<cycle, samples, pi, decs, registry, states, present,
                   recent, acted>>

\* The decision is done and counts for the escalation.
Advance(label, call) ==
    /\ Logged(label, call)
    /\ phase' = "act" /\ i' = i + 1
    /\ states' = [states EXCEPT ![PairOf(dec)] =
                    advance_after_act(@, PolicyOf(PairOf(dec)), now)]
    /\ acted' = [acted EXCEPT ![PairOf(dec)] =
                    [any |-> TRUE, level |-> dec.level, at |-> now,
                     repeat |-> @.fell, fell |-> FALSE]]
    /\ UNCHANGED <<cycle, samples, pi, decs, registry, present, recent>>

ActSkipped ==
    /\ Acting /\ dec.skip # "null"
    /\ Skip(dec.skip)
    /\ UNCHANGED <<caged, ringvars>>

\* act_one reaches the decision: its pair has a state.
Applying == Acting /\ dec.skip = "null" /\ PairOf(dec) \in registry

is_caged(id) == \E k \in DOMAIN caged : caged[k] = id

\* A bug: a process that is caged again is registered again.
registered_twice(id) == IF Len(caged) < MaxCagedProcesses
                        THEN Append(caged, id) ELSE caged

\* The register takes the id if it is new and there is room for it.
registered(id) == IF ~is_caged(id) /\ Len(caged) < MaxCagedProcesses
                  THEN Append(caged, id) ELSE caged

\* A bug: dry_run is tested at the call itself, behind the ring and the register.
ActDryRun_at_the_call ==
    /\ Applying /\ DryRun
    /\ Advance("dry_run", "none")
    /\ caged' = IF dec.kind = "CAGE" THEN registered(dec.id) ELSE caged
    /\ IF dec.kind = "KILL" /\ ~ceiling_reached THEN KillAndPush ELSE UNCHANGED ringvars

ActDryRun ==
    /\ Applying /\ DryRun
    /\ Advance("dry_run", "none")
    /\ UNCHANGED <<caged, ringvars>>

\* WARN, and the kinds execute_action has no system call for.
ActLogOnly ==
    /\ Applying /\ ~DryRun
    /\ dec.kind \in {"WARN", "AFFINITY", "TERM"}
    /\ Advance("executed", "none")
    /\ UNCHANGED <<caged, ringvars>>

cage_full == Len(caged) >= MaxCagedProcesses

\* cage_one before its identity check: no backend, or the register is full.
CageRefused ==
    /\ Applying /\ ~DryRun /\ dec.kind = "CAGE"
    /\ \/ ~CageBackend /\ Advance("cage_not_impl", "none")
       \/ /\ CageBackend /\ ~is_caged(dec.id) /\ cage_full
          /\ Advance("caged_ceiling", "none")
    /\ UNCHANGED <<caged, ringvars>>

\* The decisions whose start time is read again from /proc.
Guarded ==
    \/ dec.kind \in {"RENICE", "STOP", "KILL"}
    \/ dec.kind = "CAGE" /\ CageBackend /\ (is_caged(dec.id) \/ ~cage_full)

(***************************************************************************)
(* toctou_ok finds the pid gone or with another start time (the decision   *)
(* is dropped and will be retried), or finds it as it was.                 *)
(***************************************************************************)
GuardFails ==
    /\ Applying /\ ~DryRun /\ Guarded
    /\ Skip("skip:gone")
    /\ UNCHANGED <<caged, ringvars>>

GuardPasses ==
    /\ Applying /\ ~DryRun /\ Guarded
    /\ phase' = "apply"
    /\ Quiet
    /\ UNCHANGED <<cycle, samples, i, pi, decs, registry, states, caged,
                   present, recent, acted, ringvars>>

\* setpriority and SIGSTOP: what they return is not looked at.
Renice ==
    /\ phase = "apply" /\ dec.kind = "RENICE"
    /\ Advance("executed", "setpriority")
    /\ UNCHANGED <<caged, ringvars>>

Stop ==
    /\ phase = "apply" /\ dec.kind = "STOP"
    /\ Advance("executed", "SIGSTOP")
    /\ UNCHANGED <<caged, ringvars>>

\* A bug: the kill held back counts as one.
KillHeldBack_advances ==
    /\ phase = "apply" /\ dec.kind = "KILL" /\ ceiling_reached
    /\ Advance("executed", "none")
    /\ UNCHANGED <<caged, ringvars>>

\* The ceiling holds the kill back for this cycle; the rung is not spent.
KillHeldBack ==
    /\ phase = "apply" /\ dec.kind = "KILL" /\ ceiling_reached
    /\ Skip("skip:ceiling")
    /\ UNCHANGED <<caged, ringvars>>

Kill ==
    /\ phase = "apply" /\ dec.kind = "KILL"
    /\ KillAndPush
    /\ Advance("executed", "SIGKILL")
    /\ UNCHANGED caged

CageApplied ==
    /\ phase = "apply" /\ dec.kind = "CAGE"
    /\ Advance("caged", "cage_apply")
    /\ caged' = registered(dec.id)
    /\ UNCHANGED ringvars

CageFailed ==
    /\ phase = "apply" /\ dec.kind = "CAGE"
    /\ Advance("cage_failed", "none")
    /\ UNCHANGED <<caged, ringvars>>

-----------------------------------------------------------------------------
(***************************************************************************)
(* The end of the cycle: store_tick drops some of the ids it did not see,  *)
(* and state_gc drops the states of every id that is not in the store.     *)
(***************************************************************************)
StateGc ==
    /\ phase = "act" /\ i > Len(decs)
    /\ \E kept \in SUBSET present :
        LET keep(f, zero) ==
                [pr \in Pairs |-> IF pr[1] \in kept THEN f[pr] ELSE zero]
        IN  /\ {samples[k].id : k \in DOMAIN samples} \cap present \subseteq kept
            /\ present' = kept
            /\ registry' = {pr \in registry : pr[1] \in kept}
            /\ states' = keep(states, ZeroState)
            /\ recent' = keep(recent, <<>>)
            /\ acted' = keep(acted, Never)
    /\ phase' = "cage_gc" /\ i' = 1 /\ decs' = <<>>
    /\ Quiet
    /\ UNCHANGED <<cycle, samples, pi, caged, ringvars>>

CageGcIter == phase = "cage_gc" /\ i <= Len(caged)

\* A bug: the walk stays on the entry it keeps.
CageGcKeep_stays ==
    /\ CageGcIter /\ caged[i] \in present
    /\ Quiet
    /\ UNCHANGED <<phase, cycle, samples, i, pi, decs, registry, states, caged,
                   present, recent, acted, ringvars>>

CageGcKeep ==
    /\ CageGcIter /\ caged[i] \in present
    /\ i' = i + 1
    /\ Quiet
    /\ UNCHANGED <<phase, cycle, samples, pi, decs, registry, states, caged,
                   present, recent, acted, ringvars>>

\* A bug: the count is not taken down.
swap_keeps_count(k) == [caged EXCEPT ![k] = caged[Len(caged)]]

\* The slot takes the last entry, which is looked at next.
swap_with_last(k) ==
    [j \in 1 .. Len(caged) - 1 |-> IF j = k THEN caged[Len(caged)] ELSE caged[j]]

\* A bug: the entry swapped in is stepped over.
CageGcRelease_steps_over ==
    /\ CageGcIter /\ caged[i] \notin present
    /\ caged' = swap_with_last(i)
    /\ i' = i + 1
    /\ Quiet
    /\ UNCHANGED <<phase, cycle, samples, pi, decs, registry, states,
                   present, recent, acted, ringvars>>

\* cage_release on the pid, whatever it returns.
CageGcRelease ==
    /\ CageGcIter /\ caged[i] \notin present
    /\ caged' = swap_with_last(i)
    /\ Quiet
    /\ UNCHANGED <<phase, cycle, samples, i, pi, decs, registry, states,
                   present, recent, acted, ringvars>>

EndCycle ==
    /\ phase = "cage_gc" /\ i > Len(caged)
    /\ phase' = "idle" /\ i' = 1 /\ samples' = <<>>
    /\ Quiet
    /\ UNCHANGED <<cycle, pi, decs, registry, states, caged, present, recent,
                   acted, ringvars>>

Stopped == phase = "stopped" /\ UNCHANGED vars

-----------------------------------------------------------------------------
Evaluate == EvalFrozen \/ EvalScored
Act == \/ ActSkipped \/ ActDryRun \/ ActLogOnly \/ CageRefused
       \/ GuardFails \/ GuardPasses
Apply == Renice \/ Stop \/ KillHeldBack \/ Kill \/ CageApplied \/ CageFailed
Gc == StateGc \/ CageGcKeep \/ CageGcRelease \/ EndCycle

Next == \/ BeginCycle \/ Finish \/ Evaluate \/ Validate \/ CycleNoMemory
        \/ Act \/ Apply \/ Gc \/ Stopped

Spec == Init /\ [][Next]_vars

\* One thread runs the loop, and no step of it waits for another.
FairSpec == Spec /\ WF_vars(Next)

-----------------------------------------------------------------------------
Phases == {"idle", "evaluate", "act", "apply", "cage_gc", "stopped"}
Calls == {"none", "setpriority", "SIGSTOP", "SIGKILL", "cage_apply"}

Zones == {"high", "band", "low"}
ActRecords ==
    [any : BOOLEAN, level : Nat, at : Nat, repeat : BOOLEAN, fell : BOOLEAN]

EngineTypeOK ==
    /\ phase \in Phases /\ cycle \in 0 .. Cycles
    /\ samples \in Seq(Samples) /\ i \in Nat \ {0} /\ pi \in PolicyIndex
    /\ decs \in Seq(Decisions)
    /\ registry \subseteq Pairs /\ states \in [Pairs -> AlertStates]
    /\ \A pr \in Pairs \ registry : states[pr] = ZeroState
    /\ caged \in Seq(Ids) /\ present \subseteq Ids
    /\ event.call \in Calls
    /\ recent \in [Pairs -> Seq(Zones)]
    /\ acted \in [Pairs -> ActRecords]

\* Every variable has its type, and a state outside the registry is zero: no
\* entry outlives its removal, and none starts with another's counters.
TypeOK == EngineTypeOK /\ RingTypeOK

(***************************************************************************)
(* A process is stopped or killed only while its alert is active and has   *)
(* been so for SanityMs. sanity_blocks lets a decision through when the    *)
(* alert is not active, so this needs eval_one never to emit without one   *)
(* (sanity_blocks, apply_zone, maybe_deactivate).                          *)
(***************************************************************************)
SanityBeforeStop ==
    event.call \in {"SIGSTOP", "SIGKILL"} =>
        /\ states[event.pair].active_since # 0
        /\ now - states[event.pair].active_since >= SanityMs

(***************************************************************************)
(* A system call is made only on an identity the scan of the same cycle    *)
(* has seen, and seen unprotected (validate, toctou_ok).                   *)
(***************************************************************************)
ProtectedUntouched ==
    event.call # "none" =>
        \E k \in DOMAIN samples :
            samples[k].id = event.pair[1] /\ ~samples[k].protected

(***************************************************************************)
(* The acts of a pair climb the ladder from its first rung, one rung at a  *)
(* time and a cooldown apart; a rung is repeated only after an act that    *)
(* followed a deactivation (advance_after_act, should_emit).               *)
(***************************************************************************)
Counted(pr) ==
    event'.pair = pr /\ event'.state \in
        {"executed", "dry_run", "caged", "caged_ceiling", "cage_not_impl", "cage_failed"}

Climbs(pr) ==
    IF ~acted[pr].any THEN acted'[pr].level = 0
    ELSE /\ acted'[pr].at >= acted[pr].at + PolicyOf(pr).cooldown
         /\ acted'[pr].level =
                IF acted[pr].repeat THEN acted[pr].level ELSE acted[pr].level + 1

EscalationOrder == [][\A pr \in Pairs : Counted(pr) => Climbs(pr)]_vars

(***************************************************************************)
(* Outside dry_run a destructive rung is spent only by its system call: a  *)
(* kill held back by the ceiling, or an identity check that fails, leaves  *)
(* the rung to be retried (execute_action, act_one).                       *)
(***************************************************************************)
RungNeedsCall ==
    [][\A pr \in Pairs :
        Counted(pr) /\ ~DryRun =>
            LET kind == PolicyOf(pr).actions[acted'[pr].level + 1]
            IN  /\ kind = "RENICE" => event'.call = "setpriority"
                /\ kind = "STOP" => event'.call = "SIGSTOP"
                /\ kind = "KILL" => event'.call = "SIGKILL"]_vars

\* The last n non-sentinel readings of the pair, this one included, lie in z.
Streak(pr, n, z) ==
    LET s == recent'[pr]
    IN  Len(s) >= n /\ \A k \in Len(s) - n + 1 .. Len(s) : s[k] = z

(***************************************************************************)
(* A decision is emitted only on the last of N consecutive high samples    *)
(* and outside the cooldown, whatever acts, skips and deactivations came   *)
(* before (eval_one).                                                      *)
(***************************************************************************)
EmissionNeedsStreak ==
    [][Evaluating /\ Len(decs') > Len(decs) =>
        /\ Streak(CurPair, Catalog[pi].persistence, "high")
        /\ now >= states[CurPair].cooldown_until]_vars

(***************************************************************************)
(* N consecutive high samples leave the alert active: no sequence of acts, *)
(* skips, deactivations and frozen cycles makes the engine miss a streak   *)
(* (apply_zone compares the counter with = and not >=).                    *)
(***************************************************************************)
ActivatesOnStreak ==
    [][EvalScored /\ Streak(CurPair, Catalog[pi].persistence, "high") =>
        states'[CurPair].active_since # 0]_vars

(***************************************************************************)
(* An alert leaves the active state only on the last of M consecutive low  *)
(* samples, or with its process (maybe_deactivate, state_gc).              *)
(***************************************************************************)
DeactivationNeedsLow ==
    [][\A pr \in Pairs :
        states[pr].active_since # 0 /\ states'[pr].active_since = 0 =>
            \/ Streak(pr, PolicyOf(pr).hysteresis_m, "low")
               /\ recent'[pr] # <<>> /\ recent'[pr][Len(recent'[pr])] = "low"
            \/ pr[1] \notin present']_vars

\* The register of caged processes holds each one once and keeps its bound
\* through every order of cage, re-cage and release (cage_one, cage_gc).
CagedWithinCap ==
    /\ Len(caged) <= MaxCagedProcesses
    /\ \A k, l \in DOMAIN caged : caged[k] = caged[l] => k = l

(***************************************************************************)
(* Between cycles nothing is kept for a process the store has dropped: the *)
(* loop that compacts while it walks skips no entry (cage_gc, state_gc).   *)
(***************************************************************************)
GcComplete ==
    phase = "idle" =>
        /\ \A k \in DOMAIN caged : caged[k] \in present
        /\ \A pr \in registry : pr[1] \in present

\* A dry run touches no process and spends no budget (act_one).
DryRunHarmless ==
    DryRun => event.call = "none" /\ kills = <<>> /\ caged = <<>>

\* Every cycle ends, its compacting loop too, and so does the run (run_loop).
Terminates == <>(phase = "stopped")

\* What is left to do: cycles, phases of this one, entries of the list it walks,
\* and steps on the entry.
ToDo ==
    <<Cycles - cycle,
      CASE phase = "evaluate"         -> 4
        [] phase \in {"act", "apply"} -> 3
        [] phase = "cage_gc"          -> 2
        [] phase = "idle"             -> 1
        [] phase = "stopped"          -> 0,
      CASE phase = "evaluate"         -> Len(samples) + 1 - i
        [] phase \in {"act", "apply"} -> Len(decs) + 1 - i
        [] phase = "cage_gc"          -> Len(caged) + 1 - i
        [] OTHER                      -> 0,
      CASE phase = "evaluate" -> Len(Catalog) - pi
        [] phase = "act"      -> 1
        [] OTHER              -> 0>>

Smaller(a, b) ==
    \E k \in 1 .. 4 : a[k] < b[k] /\ \A j \in 1 .. k - 1 : a[j] = b[j]

(***************************************************************************)
(* Every step leaves less to do, in whatever order decisions are retried   *)
(* and entries swapped, so there is no behaviour without an end: one list  *)
(* does not grow while it is walked, and no index stays where it is unless *)
(* its list gets shorter (run_loop, pg_alert_evaluate, pg_alert_act,       *)
(* cage_gc). Terminates says besides that the run does not stop before.    *)
(***************************************************************************)
MovesOn == [][ToDo' \in Nat \X Nat \X Nat \X Nat /\ Smaller(ToDo', ToDo)]_vars

(***************************************************************************)
(* alert_internal.h: "AFFINITY/CAGE/TERM loguean 'not implemented'": a     *)
(* line that says executed stands for a warning or for a system call.      *)
(***************************************************************************)
LogTruthful ==
    event.state = "executed" => event.kind = "WARN" \/ event.call # "none"
=============================================================================
