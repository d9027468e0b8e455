------------------------- MODULE AlertEngine_proofs -------------------------
(***************************************************************************)
(* Safety of the governance engine for every catalog, every sequence of    *)
(* scans, every clock and every answer of the environment.                 *)
(***************************************************************************)
EXTENDS AlertEngine, KillRing_proofs

-----------------------------------------------------------------------------
\* What the pure functions on an alert state preserve.

StateInv(st, p) ==
    /\ st.persistence >= p.persistence => st.active_since # 0
    /\ st.active_since <= now

\* The fields of an alert record, for the arithmetic solver.
LEMMA StateFields ==
    ASSUME NEW st \in AlertStates
    PROVE  /\ st.persistence \in Nat /\ st.persistence + 1 \in Nat
           /\ st.hysteresis \in Nat /\ st.hysteresis + 1 \in Nat
           /\ st.level \in Nat /\ st.level + 1 \in Nat
           /\ st.cooldown_until \in Nat /\ st.active_since \in Nat
           /\ st.deactivated \in BOOLEAN
BY DEF AlertStates

\* The fields of a policy that the functions compare with.
LEMMA PolicyFields ==
    ASSUME NEW p \in Policies
    PROVE  /\ p.persistence \in Nat \ {0} /\ p.cooldown \in Nat
           /\ p.hysteresis_m \in Nat /\ p.actions \in Seq(ActionKinds)
BY DEF Policies

\* A sample moves an alert state to one that is active whenever its streak is
\* long enough to emit (apply_zone).
LEMMA ZoneKeepsInv ==
    ASSUME NEW st \in AlertStates, NEW p \in Policies, NEW m \in Int,
           now \in Nat \ {0}, StateInv(st, p)
    PROVE  /\ apply_zone(st, p, m, now) \in AlertStates
           /\ StateInv(apply_zone(st, p, m, now), p)
<1>1. CASE zone(p, m) = "high"
  <2>1. apply_zone(st, p, m, now) = on_high(st, p, now)
    BY <1>1 DEF apply_zone
  <2>2. activation(st, p, now) \in Nat
    BY StateFields DEF activation
  <2>3. on_high(st, p, now) \in AlertStates
    BY <2>2, StateFields DEF on_high, AlertStates
  <2>4. /\ on_high(st, p, now).persistence = st.persistence + 1
        /\ on_high(st, p, now).active_since = activation(st, p, now)
    BY DEF on_high, AlertStates
  <2>5. StateInv(on_high(st, p, now), p)
    BY <2>4, StateFields, PolicyFields DEF activation, StateInv
  <2> QED BY <2>1, <2>3, <2>5
<1>2. CASE zone(p, m) = "low"
  <2>1. apply_zone(st, p, m, now) = on_low(st)
    BY <1>2 DEF apply_zone
  <2>2. on_low(st) \in AlertStates
    BY StateFields DEF on_low, AlertStates
  <2>3. on_low(st).persistence = 0 /\ on_low(st).active_since = st.active_since
    BY DEF on_low, AlertStates
  <2> QED BY <2>1, <2>2, <2>3, PolicyFields DEF StateInv
<1>3. CASE zone(p, m) = "band"
  <2>1. apply_zone(st, p, m, now) = on_band(st)
    BY <1>3 DEF apply_zone
  <2>2. on_band(st) \in AlertStates
    BY StateFields DEF on_band, AlertStates
  <2>3. on_band(st).persistence = 0 /\ on_band(st).active_since = st.active_since
    BY DEF on_band, AlertStates
  <2> QED BY <2>1, <2>2, <2>3, PolicyFields DEF StateInv
<1> QED BY <1>1, <1>2, <1>3 DEF zone

\* The fall of an alert keeps its record well formed (maybe_deactivate).
LEMMA DeactivateKeepsInv ==
    ASSUME NEW st \in AlertStates, NEW p \in Policies, now \in Nat \ {0}
    PROVE  deactivate(st) \in AlertStates /\ StateInv(deactivate(st), p)
<1>1. deactivate(st) \in AlertStates
  BY StateFields DEF deactivate, AlertStates
<1>2. deactivate(st).persistence = 0 /\ deactivate(st).active_since = 0
  BY DEF deactivate, AlertStates
<1> QED BY <1>1, <1>2, PolicyFields DEF StateInv

\* An act leaves the alert active as long as it was, and no streak.
LEMMA AdvanceKeepsInv ==
    ASSUME NEW st \in AlertStates, NEW p \in Policies, now \in Nat \ {0},
           StateInv(st, p)
    PROVE  /\ advance_after_act(st, p, now) \in AlertStates
           /\ StateInv(advance_after_act(st, p, now), p)
           /\ advance_after_act(st, p, now).active_since = st.active_since
<1> DEFINE st2 == advance_after_act(st, p, now)
<1>1. now + p.cooldown \in Nat
  BY PolicyFields
<1>2. (IF st.deactivated THEN st.level ELSE st.level + 1) \in Nat
  BY StateFields
<1>3. st2 \in AlertStates
  BY <1>1, <1>2, StateFields DEF advance_after_act, AlertStates
<1>4. st2.persistence = 0 /\ st2.active_since = st.active_since
  BY DEF advance_after_act, AlertStates
<1> QED BY <1>3, <1>4, PolicyFields DEF StateInv

-----------------------------------------------------------------------------
\* Type correctness, one step per action.

\* A policy of the catalog has the fields of a policy.
LEMMA CatalogFacts ==
    ASSUME EngineAssumption
    PROVE  /\ Len(Catalog) \in Nat \ {0}
           /\ PolicyIndex = 1 .. Len(Catalog)
           /\ \A n \in PolicyIndex : Catalog[n] \in Policies
           /\ \A pr \in Pairs : PolicyOf(pr) \in Policies /\ pr[1] \in Ids
           /\ \A id \in Ids, n \in PolicyIndex : <<id, n>> \in Pairs
BY DEF EngineAssumption, PolicyIndex, Pairs, PolicyOf

\* The pair eval_one works on.
LEMMA CurPairFacts ==
    ASSUME EngineTypeOK, EngineAssumption, Evaluating
    PROVE  /\ samples[i] \in Samples /\ samples[i].id \in Ids
           /\ CurPair \in Pairs /\ PolicyOf(CurPair) = Catalog[pi]
           /\ CurPair[1] = samples[i].id /\ CurPair[2] = pi
           /\ Catalog[pi] \in Policies
           /\ i \in DOMAIN samples
<1>1. i \in 1 .. Len(samples) /\ samples \in Seq(Samples) /\ pi \in PolicyIndex
  BY DEF EngineTypeOK, Evaluating
<1>2. samples[i] \in Samples
  BY <1>1
<1>3. samples[i].id \in Ids
  BY <1>2 DEF Samples
<1>4. CurPair = <<samples[i].id, pi>> /\ CurPair[1] = samples[i].id /\ CurPair[2] = pi
  BY DEF CurPair
<1>5. CurPair \in Pairs
  BY <1>1, <1>3, CatalogFacts DEF CurPair
<1>6. PolicyOf(CurPair) = Catalog[pi]
  BY <1>4 DEF PolicyOf
<1>7. Catalog[pi] \in Policies
  BY <1>1, CatalogFacts
<1>8. i \in DOMAIN samples
  BY <1>1
<1> QED BY <1>2, <1>3, <1>4, <1>5, <1>6, <1>7, <1>8

\* The two loops of pg_alert_evaluate stay inside the catalog.
LEMMA NextPairType ==
    ASSUME EngineTypeOK, EngineAssumption, NextPair
    PROVE  i' \in Nat \ {0} /\ pi' \in PolicyIndex
BY CatalogFacts, SMTT(30) DEF EngineTypeOK, NextPair

\* The decision act works on.
LEMMA DecFacts ==
    ASSUME EngineTypeOK, EngineAssumption, i \in DOMAIN decs
    PROVE  /\ dec \in Decisions /\ dec.id \in Ids /\ dec.policy \in PolicyIndex
           /\ dec.level \in Nat
           /\ PairOf(dec) \in Pairs
           /\ states[PairOf(dec)] \in AlertStates
           /\ PolicyOf(PairOf(dec)) \in Policies
<1>1. dec \in Decisions
  BY DEF EngineTypeOK, dec
<1>2. dec.id \in Ids /\ dec.policy \in PolicyIndex /\ dec.level \in Nat
  BY <1>1 DEF Decisions
<1>3. PairOf(dec) \in Pairs
  BY <1>2, CatalogFacts DEF PairOf
<1> QED BY <1>1, <1>2, <1>3, CatalogFacts DEF EngineTypeOK

\* The decision emitted by eval_one names an existing rung.
LEMMA DecisionType ==
    ASSUME EngineAssumption, NEW pr \in Pairs, NEW st \in AlertStates,
           should_emit(st, PolicyOf(pr), now)
    PROVE  decision(pr, st) \in Decisions
<1> DEFINE acts == PolicyOf(pr).actions
<1>1. acts \in Seq(ActionKinds)
  BY CatalogFacts, PolicyFields
<1>2. st.level \in Nat /\ st.level < Len(acts)
  BY StateFields DEF should_emit
<1>3. acts[st.level + 1] \in ActionKinds
  BY <1>1, <1>2
<1>4. pr[1] \in Ids /\ pr[2] \in PolicyIndex
  BY DEF Pairs
<1> QED BY <1>2, <1>3, <1>4 DEF decision, Decisions

(***************************************************************************)
(* The first invariant: types, every alert state consistent with the clock *)
(* and with its policy, and in phase apply a decision that act_one reached *)
(* and its identity check let through.                                     *)
(***************************************************************************)
Armed == \A pr \in Pairs : StateInv(states[pr], PolicyOf(pr))

Ready == phase = "apply" =>
            /\ i \in DOMAIN decs /\ dec.skip = "null" /\ ~DryRun
            /\ PairOf(dec) \in registry

Core == EngineTypeOK /\ Armed /\ Ready

\* A new cycle changes no alert record (run_cycle).
LEMMA BeginCycleCore ==
    ASSUME Core, now \in Nat \ {0}, EngineAssumption, BeginCycle
    PROVE  Core'
<1> PICK ss \in Scans, dt \in Intervals :
        /\ samples' = ss /\ now' = now + dt
        /\ \E stored \in SUBSET {ss[k].id : k \in DOMAIN ss} :
                present' = present \cup stored
  BY DEF BeginCycle
<1>1. ss \in Seq(Samples) /\ cycle + 1 \in 0 .. Cycles /\ dt \in Nat
  BY DEF Core, EngineAssumption, EngineTypeOK, BeginCycle
<1>2. \A k \in DOMAIN ss : ss[k].id \in Ids
  <2>1. \A k \in DOMAIN ss : ss[k] \in Samples
    BY <1>1
  <2> QED BY <2>1 DEF Samples
<1>3. 1 \in PolicyIndex
  BY CatalogFacts
<1>4. EngineTypeOK'
  <2>1. {ss[k].id : k \in DOMAIN ss} \subseteq Ids
    BY <1>2
  <2>2. present \subseteq Ids
    BY DEF Core, EngineTypeOK
  <2>3. present' \subseteq Ids
    BY <2>1, <2>2
  <2> QED BY <1>1, <1>3, <2>3
          DEF Core, EngineTypeOK, BeginCycle, Quiet, NoEvent, Phases, Calls
<1>5. Armed'
  <2> SUFFICES ASSUME NEW pr \in Pairs
               PROVE  StateInv(states[pr], PolicyOf(pr))'
    BY DEF Armed, Pairs
  <2>1. states[pr] \in AlertStates /\ StateInv(states[pr], PolicyOf(pr))
    BY DEF Core, Armed, EngineTypeOK
  <2>2. states' = states
    BY DEF BeginCycle
  <2> QED BY <1>1, <2>1, <2>2, StateFields DEF StateInv, PolicyOf
<1> QED BY <1>4, <1>5 DEF Core, Ready, BeginCycle

\* A step that leaves the alert states and the clock alone leaves them armed.
LEMMA SameArmed ==
    ASSUME Armed, UNCHANGED <<states, now>>
    PROVE  Armed'
BY DEF Armed, StateInv, PolicyOf, Pairs, Ids, PolicyIndex

\* A frozen pair keeps its record (eval_one).
LEMMA EvalFrozenCore ==
    ASSUME Core, EngineAssumption, EvalFrozen
    PROVE  Core'
<1>1. EngineTypeOK'
  BY NextPairType DEF Core, EngineTypeOK, EvalFrozen, Quiet, NoEvent, Calls
<1>2. Armed'
  BY SameArmed DEF Core, EvalFrozen, ringvars
<1> QED BY <1>1, <1>2 DEF Core, Ready, EvalFrozen, Evaluating

\* The history of zones stays a sequence of zones.
LEMMA RememberType ==
    ASSUME EngineTypeOK, NEW pr \in Pairs, NEW z \in Zones
    PROVE  Remember(pr, z) \in [Pairs -> Seq(Zones)]
<1> DEFINE s == Append(recent[pr], z)
           v == IF Len(s) > LastZones(pr) THEN Tail(s) ELSE s
<1>1. recent \in [Pairs -> Seq(Zones)] /\ recent[pr] \in Seq(Zones)
  BY DEF EngineTypeOK
<1>2. s \in Seq(Zones) /\ Len(s) = Len(recent[pr]) + 1 /\ s # <<>>
  BY <1>1
<1>3. v \in Seq(Zones)
  BY <1>2
<1>4. Remember(pr, z) = [recent EXCEPT ![pr] = v]
  BY DEF Remember
<1> QED BY <1>1, <1>3, <1>4

\* A scored sample leaves every record armed: long enough a streak means
\* an active alert (eval_one).
LEMMA EvalScoredCore ==
    ASSUME Core, now \in Nat \ {0}, EngineAssumption, EvalScored
    PROVE  Core'
<1> DEFINE p == Catalog[pi]
           st(m) == apply_zone(states[CurPair], p, m, now)
<1>1. EngineTypeOK /\ Armed /\ Evaluating
  BY DEF Core, EvalScored
<1>2. CurPair \in Pairs /\ p \in Policies /\ PolicyOf(CurPair) = p
  BY <1>1, CurPairFacts
<1>3. states[CurPair] \in AlertStates /\ StateInv(states[CurPair], p)
  BY <1>1, <1>2 DEF EngineTypeOK, Armed
<1> PICK m \in Readings :
        /\ recent' = Remember(CurPair, zone(p, m))
        /\ \/ /\ states' = [states EXCEPT ![CurPair] = deactivate(st(m))]
              /\ acted' = [acted EXCEPT ![CurPair].fell = TRUE]
              /\ UNCHANGED decs
           \/ /\ states' = [states EXCEPT ![CurPair] = st(m)]
              /\ decs' = IF should_emit(st(m), p, now)
                         THEN Append(decs, decision(CurPair, st(m))) ELSE decs
              /\ UNCHANGED acted
  BY DEF EvalScored
<1>4. m \in Int
  BY DEF EngineAssumption
<1>5. st(m) \in AlertStates /\ StateInv(st(m), p)
  BY <1>2, <1>3, <1>4, ZoneKeepsInv
<1>6. deactivate(st(m)) \in AlertStates /\ StateInv(deactivate(st(m)), p)
  BY <1>2, <1>5, DeactivateKeepsInv
<1>7. PICK new \in AlertStates :
        states' = [states EXCEPT ![CurPair] = new] /\ StateInv(new, p)
  BY <1>5, <1>6
<1>8. recent' \in [Pairs -> Seq(Zones)]
  BY <1>1, <1>2, RememberType DEF zone, Zones
<1>9. acted' \in [Pairs -> ActRecords]
  <2>1. acted \in [Pairs -> ActRecords]
    BY <1>1 DEF EngineTypeOK
  <2>2. acted[CurPair] \in ActRecords
    BY <1>2, <2>1
  <2>3. [acted[CurPair] EXCEPT !.fell = TRUE] \in ActRecords
    BY <2>2 DEF ActRecords
  <2> QED BY <1>2, <2>1, <2>3
<1>10. decs' \in Seq(Decisions)
  <2>1. decs \in Seq(Decisions)
    BY <1>1 DEF EngineTypeOK
  <2>2. should_emit(st(m), p, now) => decision(CurPair, st(m)) \in Decisions
    BY <1>2, <1>5, DecisionType
  <2>3. \/ decs' = decs
        \/ /\ should_emit(st(m), p, now)
           /\ decs' = Append(decs, decision(CurPair, st(m)))
    OBVIOUS
  <2>4. CASE should_emit(st(m), p, now)
             /\ decs' = Append(decs, decision(CurPair, st(m)))
    <3>1. decision(CurPair, st(m)) \in Decisions
      BY <2>2, <2>4
    <3> HIDE DEF st
    <3> QED BY <2>1, <2>4, <3>1
  <2> QED BY <2>1, <2>3, <2>4
<1>11. states' \in [Pairs -> AlertStates]
  BY <1>1, <1>2, <1>7 DEF EngineTypeOK
<1>12. EngineTypeOK'
  <2>1. i' \in Nat \ {0} /\ pi' \in PolicyIndex
    BY <1>1, NextPairType DEF EvalScored
  <2>2. registry' = registry \cup {CurPair} /\ registry' \subseteq Pairs
    BY <1>1, <1>2 DEF EvalScored, EngineTypeOK
  <2>3. \A pr \in Pairs \ registry' : states'[pr] = ZeroState
    BY <1>1, <1>2, <1>7, <2>2 DEF EngineTypeOK
  <2>4. event'.call \in Calls
    BY DEF EvalScored, Quiet, NoEvent, Calls
  <2>5. UNCHANGED <<phase, cycle, samples, caged, present>>
    BY DEF EvalScored
  <2> QED BY <1>1, <1>8, <1>9, <1>10, <1>11, <2>1, <2>2, <2>3, <2>4, <2>5
          DEF EngineTypeOK, Pairs, Ids, PolicyIndex
<1>13. Armed'
  <2> SUFFICES ASSUME NEW pr \in Pairs
               PROVE  StateInv(states[pr], PolicyOf(pr))'
    BY DEF Armed, Pairs, Ids, PolicyIndex
  <2>1. now' = now
    BY DEF EvalScored, ringvars
  <2>2. StateInv(states'[pr], PolicyOf(pr))
    BY <1>1, <1>2, <1>7 DEF EngineTypeOK, Armed
  <2> QED BY <2>1, <2>2 DEF StateInv, PolicyOf
<1>14. phase' = "evaluate"
  BY <1>1 DEF EvalScored, Evaluating
<1> QED BY <1>12, <1>13, <1>14 DEF Core, Ready

\* Validation only annotates the decisions (pg_alert_validate).
LEMMA ValidateCore ==
    ASSUME Core, EngineAssumption, Validate
    PROVE  Core'
<1>1. EngineTypeOK /\ decs \in Seq(Decisions)
  BY DEF Core, EngineTypeOK
<1> DEFINE marked(k) == [decs[k] EXCEPT !.skip = skip_reason(decs[k])]
<1>2. \A k \in DOMAIN decs : marked(k) \in Decisions
  <2> TAKE k \in DOMAIN decs
  <2>1. decs[k] \in Decisions
    BY <1>1
  <2>2. decs[k].skip \in SkipReasons \cup {"null"}
    BY <2>1 DEF Decisions
  <2>3. skip_reason(decs[k]) \in SkipReasons \cup {"null"}
    BY <2>2 DEF skip_reason, SkipReasons
  <2> QED BY <2>1, <2>3 DEF Decisions
<1>3. decs' = [k \in 1 .. Len(decs) |-> marked(k)]
  BY <1>1 DEF Validate
<1>4. decs' \in Seq(Decisions)
  <2> HIDE DEF marked
  <2> QED BY <1>1, <1>2, <1>3
<1>5. EngineTypeOK'
  BY <1>1, <1>4 DEF EngineTypeOK, Validate, Quiet, NoEvent, Phases, Calls
<1>6. Armed'
  BY SameArmed DEF Core, Validate, ringvars
<1> QED BY <1>5, <1>6 DEF Core, Ready, Validate

\* A cycle without memory for its list changes no record.
LEMMA CycleNoMemoryCore ==
    ASSUME Core, EngineAssumption, CycleNoMemory
    PROVE  Core'
<1>1. EngineTypeOK'
  BY DEF Core, EngineTypeOK, CycleNoMemory, Quiet, NoEvent, Phases, Calls
<1>2. Armed'
  BY SameArmed DEF Core, CycleNoMemory, ringvars
<1> QED BY <1>1, <1>2 DEF Core, Ready, CycleNoMemory

\* A decision left for another cycle, whatever the reason.
LEMMA SkipCore ==
    ASSUME Core, EngineAssumption, NEW STATE label, Skip(label),
           UNCHANGED <<caged, ringvars>>
    PROVE  Core'
<1>1. i + 1 \in Nat \ {0} /\ event'.call = "none"
  BY DEF Core, EngineTypeOK, Skip, Logged
<1>2. EngineTypeOK'
  BY <1>1 DEF Core, EngineTypeOK, Skip, Phases, Calls
<1>3. Armed'
  BY SameArmed DEF Core, Skip, ringvars
<1> QED BY <1>2, <1>3 DEF Core, Ready, Skip

\* A decision that counts, whatever its call.
LEMMA AdvanceCore ==
    ASSUME Core, now \in Nat \ {0}, EngineAssumption,
           i \in DOMAIN decs, PairOf(dec) \in registry,
           NEW label, NEW call \in Calls, Advance(label, call),
           now' = now, caged' \in Seq(Ids)
    PROVE  Core'
<1> DEFINE pr == PairOf(dec)
           p  == PolicyOf(pr)
           st == states[pr]
           new == advance_after_act(st, p, now)
           rec == [any |-> TRUE, level |-> dec.level, at |-> now,
                   repeat |-> acted[pr].fell, fell |-> FALSE]
<1>1. EngineTypeOK /\ Armed
  BY DEF Core
<1>2. pr \in Pairs /\ st \in AlertStates /\ p \in Policies /\ dec.level \in Nat
  BY <1>1, DecFacts
<1>3. StateInv(st, p)
  BY <1>1, <1>2 DEF Armed
<1>4. new \in AlertStates /\ StateInv(new, p)
  BY <1>2, <1>3, AdvanceKeepsInv
<1>5. states' = [states EXCEPT ![pr] = new]
  BY DEF Advance
<1>6. acted' = [acted EXCEPT ![pr] = rec]
  BY DEF Advance
<1>7. acted[pr].fell \in BOOLEAN
  <2>1. acted[pr] \in ActRecords
    BY <1>1, <1>2 DEF EngineTypeOK
  <2> QED BY <2>1 DEF ActRecords
<1>8. rec \in ActRecords
  BY <1>2, <1>7 DEF ActRecords
<1> HIDE DEF pr, p, st, new, rec
<1>9. /\ states' \in [Pairs -> AlertStates]
      /\ acted' \in [Pairs -> ActRecords]
  BY <1>1, <1>2, <1>4, <1>5, <1>6, <1>8 DEF EngineTypeOK
<1>10. \A x \in Pairs \ registry : states'[x] = ZeroState
  BY <1>1, <1>2, <1>5 DEF EngineTypeOK, pr
<1>11. /\ phase' = "act" /\ i' = i + 1 /\ event'.call = call
       /\ UNCHANGED <<cycle, samples, pi, decs, registry, present, recent>>
  BY DEF Advance, Logged
<1>12. EngineTypeOK'
  BY <1>1, <1>9, <1>10, <1>11, SMTT(30)
     DEF EngineTypeOK, Phases, Pairs, Ids, PolicyIndex
<1>13. Armed'
  <2> SUFFICES ASSUME NEW x \in Pairs
               PROVE  StateInv(states[x], PolicyOf(x))'
    BY DEF Armed, Pairs, Ids, PolicyIndex
  <2>1. StateInv(states'[x], PolicyOf(x))
    BY <1>1, <1>2, <1>4, <1>5 DEF EngineTypeOK, Armed, p
  <2> QED BY <2>1 DEF StateInv, PolicyOf
<1> QED BY <1>11, <1>12, <1>13 DEF Core, Ready

\* The decision act_one has before it, and the state it will advance.
LEMMA ActingFacts ==
    ASSUME Core, Acting
    PROVE  i \in DOMAIN decs
BY DEF Core, EngineTypeOK, Acting

\* Every outcome of act_one before a system call keeps the core.
LEMMA ActCore ==
    ASSUME Core, now \in Nat \ {0}, EngineAssumption, Act
    PROVE  Core'
<1>1. CASE ActSkipped
  BY <1>1, SkipCore DEF ActSkipped
<1>2. CASE ActDryRun
  <2>1. i \in DOMAIN decs /\ PairOf(dec) \in registry
    BY <1>2, ActingFacts DEF ActDryRun, Applying
  <2>2. Advance("dry_run", "none") /\ now' = now /\ caged' \in Seq(Ids)
    BY <1>2 DEF ActDryRun, ringvars, Core, EngineTypeOK
  <2> QED BY <2>1, <2>2, AdvanceCore DEF Calls
<1>3. CASE ActLogOnly
  <2>1. i \in DOMAIN decs /\ PairOf(dec) \in registry
    BY <1>3, ActingFacts DEF ActLogOnly, Applying
  <2>2. Advance("executed", "none") /\ now' = now /\ caged' \in Seq(Ids)
    BY <1>3 DEF ActLogOnly, ringvars, Core, EngineTypeOK
  <2> QED BY <2>1, <2>2, AdvanceCore DEF Calls
<1>4. CASE CageRefused
  <2>1. i \in DOMAIN decs /\ PairOf(dec) \in registry
    BY <1>4, ActingFacts DEF CageRefused, Applying
  <2>2. now' = now /\ caged' \in Seq(Ids)
    BY <1>4 DEF CageRefused, ringvars, Core, EngineTypeOK
  <2>3. \/ Advance("cage_not_impl", "none")
        \/ Advance("caged_ceiling", "none")
    BY <1>4 DEF CageRefused
  <2> QED BY <2>1, <2>2, <2>3, AdvanceCore DEF Calls
<1>5. CASE GuardFails
  BY <1>5, SkipCore DEF GuardFails
<1>6. CASE GuardPasses
  <2>1. EngineTypeOK'
    BY <1>6 DEF Core, EngineTypeOK, GuardPasses, Quiet, NoEvent, Phases, Calls
  <2>2. Armed'
    BY <1>6, SameArmed DEF Core, GuardPasses, ringvars
  <2>3. /\ i \in DOMAIN decs /\ dec.skip = "null" /\ ~DryRun
        /\ PairOf(dec) \in registry
        /\ UNCHANGED <<i, decs, registry>>
    BY <1>6, ActingFacts DEF GuardPasses, Applying
  <2>4. Ready'
    BY <2>3 DEF Ready, dec, PairOf
  <2> QED BY <2>1, <2>2, <2>4 DEF Core
<1> QED BY <1>1, <1>2, <1>3, <1>4, <1>5, <1>6 DEF Act

\* The register keeps its type whatever it takes and loses.
LEMMA RegisterType ==
    ASSUME caged \in Seq(Ids), NEW id \in Ids
    PROVE  registered(id) \in Seq(Ids)
BY DEF registered

\* The swap with the last entry gives a shorter sequence (cage_gc).
LEMMA SwapType ==
    ASSUME caged \in Seq(Ids), NEW k \in DOMAIN caged
    PROVE  /\ swap_with_last(k) \in Seq(Ids)
           /\ Len(swap_with_last(k)) = Len(caged) - 1
           /\ \A j \in 1 .. Len(caged) - 1 :
                swap_with_last(k)[j] = IF j = k THEN caged[Len(caged)] ELSE caged[j]
<1> DEFINE slot(j) == IF j = k THEN caged[Len(caged)] ELSE caged[j]
<1>1. Len(caged) \in Nat \ {0} /\ Len(caged) - 1 \in Nat
  OBVIOUS
<1>2. \A j \in 1 .. Len(caged) - 1 : slot(j) \in Ids
  BY <1>1
<1>3. swap_with_last(k) = [j \in 1 .. Len(caged) - 1 |-> slot(j)]
  BY DEF swap_with_last
<1> HIDE DEF slot
<1>4. /\ swap_with_last(k) \in Seq(Ids)
      /\ Len(swap_with_last(k)) = Len(caged) - 1
      /\ \A j \in 1 .. Len(caged) - 1 : swap_with_last(k)[j] = slot(j)
  BY <1>1, <1>2, <1>3
<1> QED BY <1>4 DEF slot

\* Every system call, refused or made, keeps the core (execute_action).
LEMMA ApplyCore ==
    ASSUME Core, now \in Nat \ {0}, EngineAssumption, Apply
    PROVE  Core'
<1>1. phase = "apply" /\ now' = now /\ caged \in Seq(Ids)
  BY DEF Core, EngineTypeOK, Apply, Renice, Stop, KillHeldBack, Kill,
         KillAndPush, CageApplied, CageFailed, ringvars
<1>2. i \in DOMAIN decs /\ PairOf(dec) \in registry
  BY <1>1 DEF Core, Ready
<1>3. dec.id \in Ids
  BY <1>2, DecFacts DEF Core
<1>4. CASE Renice
  BY <1>1, <1>2, <1>4, AdvanceCore DEF Renice, Calls
<1>5. CASE Stop
  BY <1>1, <1>2, <1>5, AdvanceCore DEF Stop, Calls
<1>6. CASE KillHeldBack
  BY <1>6, SkipCore DEF KillHeldBack
<1>7. CASE Kill
  BY <1>1, <1>2, <1>7, AdvanceCore DEF Kill, Calls
<1>8. CASE CageApplied
  <2>1. caged' \in Seq(Ids)
    BY <1>1, <1>3, <1>8, RegisterType DEF CageApplied
  <2> QED BY <1>1, <1>2, <1>8, <2>1, AdvanceCore DEF CageApplied, Calls
<1>9. CASE CageFailed
  BY <1>1, <1>2, <1>9, AdvanceCore DEF CageFailed, Calls
<1> QED BY <1>4, <1>5, <1>6, <1>7, <1>8, <1>9 DEF Apply

\* A record fresh from calloc is well formed (pg_alert_state_upsert).
LEMMA ZeroFacts ==
    ASSUME NEW p \in Policies, now \in Nat
    PROVE  ZeroState \in AlertStates /\ StateInv(ZeroState, p)
<1>1. ZeroState \in AlertStates
  BY DEF ZeroState, AlertStates
<1>2. ZeroState.persistence = 0 /\ ZeroState.active_since = 0
  BY DEF ZeroState
<1> QED BY <1>1, <1>2, PolicyFields DEF StateInv

\* What state_gc leaves: the pairs of the ids it keeps, as they were.
LEMMA StateGcFacts ==
    ASSUME EngineTypeOK, StateGc
    PROVE  \E kept \in SUBSET present :
            /\ present' = kept
            /\ registry' = {pr \in registry : pr[1] \in kept}
            /\ states' = [pr \in Pairs |->
                            IF pr[1] \in kept THEN states[pr] ELSE ZeroState]
            /\ recent' = [pr \in Pairs |->
                            IF pr[1] \in kept THEN recent[pr] ELSE <<>>]
            /\ acted' = [pr \in Pairs |->
                            IF pr[1] \in kept THEN acted[pr] ELSE Never]
BY DEF StateGc

\* Dropping the states of absent processes keeps the core
\* (pg_alert_state_gc).
LEMMA StateGcCore ==
    ASSUME Core, now \in Nat \ {0}, EngineAssumption, StateGc
    PROVE  Core'
<1>1. EngineTypeOK /\ Armed
  BY DEF Core
<1> PICK kept \in SUBSET present :
            /\ present' = kept
            /\ registry' = {pr \in registry : pr[1] \in kept}
            /\ states' = [pr \in Pairs |->
                            IF pr[1] \in kept THEN states[pr] ELSE ZeroState]
            /\ recent' = [pr \in Pairs |->
                            IF pr[1] \in kept THEN recent[pr] ELSE <<>>]
            /\ acted' = [pr \in Pairs |->
                            IF pr[1] \in kept THEN acted[pr] ELSE Never]
  BY <1>1, StateGcFacts
<1>2. \A pr \in Pairs : StateInv(ZeroState, PolicyOf(pr)) /\ ZeroState \in AlertStates
  BY ZeroFacts, CatalogFacts
<1>3. states' \in [Pairs -> AlertStates]
  BY <1>1, <1>2 DEF EngineTypeOK
<1>4. \A pr \in Pairs \ registry' : states'[pr] = ZeroState
  BY <1>1 DEF EngineTypeOK
<1>5. recent' \in [Pairs -> Seq(Zones)]
  <2>1. recent \in [Pairs -> Seq(Zones)] /\ <<>> \in Seq(Zones)
    BY <1>1 DEF EngineTypeOK
  <2> QED BY <2>1
<1>6. acted' \in [Pairs -> ActRecords]
  <2>1. acted \in [Pairs -> ActRecords] /\ Never \in ActRecords
    BY <1>1 DEF EngineTypeOK, Never, ActRecords
  <2> QED BY <2>1
<1>7. /\ phase' = "cage_gc" /\ i' = 1 /\ decs' = <<>> /\ event'.call = "none"
      /\ UNCHANGED <<cycle, samples, pi, caged, now>>
  BY DEF StateGc, Quiet, NoEvent, ringvars
<1>8. decs' \in Seq(Decisions)
  BY <1>7
<1>9. EngineTypeOK'
  BY <1>1, <1>3, <1>4, <1>5, <1>6, <1>7, <1>8
     DEF EngineTypeOK, Phases, Calls, Pairs, Ids, PolicyIndex
<1>10. Armed'
  <2> SUFFICES ASSUME NEW pr \in Pairs
               PROVE  StateInv(states[pr], PolicyOf(pr))'
    BY DEF Armed, Pairs, Ids, PolicyIndex
  <2>1. StateInv(states'[pr], PolicyOf(pr))
    BY <1>1, <1>2 DEF Armed
  <2> QED BY <1>7, <2>1 DEF StateInv, PolicyOf
<1> QED BY <1>7, <1>9, <1>10 DEF Core, Ready

\* The end of a cycle keeps the core (pg_alert_engine_gc).
LEMMA GcCore ==
    ASSUME Core, now \in Nat \ {0}, EngineAssumption, Gc
    PROVE  Core'
<1>1. CASE StateGc
  BY <1>1, StateGcCore
<1>2. CASE CageGcKeep
  <2>1. EngineTypeOK'
    BY <1>2 DEF Core, EngineTypeOK, CageGcKeep, Quiet, NoEvent, Calls
  <2>2. Armed'
    BY <1>2, SameArmed DEF Core, CageGcKeep, ringvars
  <2> QED BY <1>2, <2>1, <2>2 DEF Core, Ready, CageGcKeep, CageGcIter
<1>3. CASE CageGcRelease
  <2>1. i \in DOMAIN caged /\ caged \in Seq(Ids) /\ caged' = swap_with_last(i)
    BY <1>3 DEF Core, EngineTypeOK, CageGcRelease, CageGcIter
  <2>2. caged' \in Seq(Ids)
    BY <2>1, SwapType
  <2>3. EngineTypeOK'
    BY <1>3, <2>2 DEF Core, EngineTypeOK, CageGcRelease, Quiet, NoEvent, Calls
  <2>4. Armed'
    BY <1>3, SameArmed DEF Core, CageGcRelease, ringvars
  <2> QED BY <1>3, <2>3, <2>4 DEF Core, Ready, CageGcRelease, CageGcIter
<1>4. CASE EndCycle
  <2>1. EngineTypeOK'
    BY <1>4 DEF Core, EngineTypeOK, EndCycle, Quiet, NoEvent, Calls, Phases
  <2>2. Armed'
    BY <1>4, SameArmed DEF Core, EndCycle, ringvars
  <2> QED BY <1>4, <2>1, <2>2 DEF Core, Ready, EndCycle
<1> QED BY <1>1, <1>2, <1>3, <1>4 DEF Gc

\* The engine starts with an empty registry (pg_alert_engine_init).
LEMMA InitCore ==
    ASSUME Init, RingAssumption, EngineAssumption
    PROVE  Core
<1>1. now \in Nat \ {0}
  BY DEF Init, RingInit, RingAssumption
<1>2. \A pr \in Pairs : StateInv(ZeroState, PolicyOf(pr)) /\ ZeroState \in AlertStates
  BY <1>1, ZeroFacts, CatalogFacts
<1>3. 1 \in PolicyIndex /\ Cycles \in Nat
  BY CatalogFacts DEF EngineAssumption
<1>4. Never \in ActRecords /\ NoEvent.call \in Calls
  BY DEF Never, ActRecords, NoEvent, Calls
<1>5. EngineTypeOK
  BY <1>2, <1>3, <1>4 DEF Init, EngineTypeOK, Phases
<1>6. Armed
  BY <1>2 DEF Init, Armed
<1> QED BY <1>5, <1>6 DEF Core, Init, Ready

\* A step that changes nothing keeps the core.
LEMMA StutterCore ==
    ASSUME Core, UNCHANGED vars
    PROVE  Core'
<1>1. EngineTypeOK'
  BY DEF vars, engine, Core, EngineTypeOK
<1>2. Armed'
  BY SameArmed DEF Core, vars, engine, ringvars
<1> QED BY <1>1, <1>2 DEF Core, Ready, vars, engine, dec, PairOf

\* Every step of the engine keeps the core.
LEMMA CoreStep ==
    ASSUME Core, now \in Nat \ {0}, EngineAssumption, [Next]_vars
    PROVE  Core'
<1>1. CASE Finish
  <2>1. EngineTypeOK'
    BY <1>1 DEF Core, EngineTypeOK, Finish, Quiet, NoEvent, Calls, Phases
  <2>2. Armed'
    BY <1>1, SameArmed DEF Core, Finish, ringvars
  <2> QED BY <1>1, <2>1, <2>2 DEF Core, Ready, Finish
<1>2. CASE Evaluate
  BY <1>2, EvalFrozenCore, EvalScoredCore DEF Evaluate
<1> QED BY <1>1, <1>2, BeginCycleCore, ValidateCore, CycleNoMemoryCore, ActCore,
           ApplyCore, GcCore, StutterCore DEF Next, Stopped

-----------------------------------------------------------------------------
(***************************************************************************)
(* The engine uses the ring as the ring's own specification does: only the *)
(* start of a cycle moves the clock, only a kill below the ceiling writes  *)
(* the ring, and nothing else touches either.                              *)
(***************************************************************************)
LEMMA EngineStepIsRingStep ==
    ASSUME now \in Nat, EngineAssumption, [Next]_vars
    PROVE  [RingNext]_ringvars
<1>1. CASE BeginCycle
  <2>1. PICK dt \in Nat : now' = now + dt
    BY <1>1 DEF BeginCycle, EngineAssumption
  <2> QED BY <1>1, <2>1 DEF BeginCycle, RingNext, ClockAdvance
<1>2. CASE Kill
  BY <1>2 DEF Kill, RingNext
<1>3. CASE Evaluate
  BY <1>3 DEF Evaluate, EvalFrozen, EvalScored
<1>4. CASE Act
  BY <1>4 DEF Act, ActSkipped, ActDryRun, ActLogOnly, CageRefused, GuardFails,
              GuardPasses
<1>5. CASE Renice \/ Stop \/ KillHeldBack \/ CageApplied \/ CageFailed
  BY <1>5 DEF Renice, Stop, KillHeldBack, CageApplied, CageFailed
<1>6. CASE Gc
  BY <1>6 DEF Gc, StateGc, CageGcKeep, CageGcRelease, EndCycle
<1>7. CASE Finish \/ Validate \/ CycleNoMemory \/ Stopped \/ UNCHANGED vars
  BY <1>7 DEF Finish, Validate, CycleNoMemory, Stopped, vars
<1> QED BY <1>1, <1>2, <1>3, <1>4, <1>5, <1>6, <1>7 DEF Next, Apply

\* The clock of a cycle never goes back, and is a number.
LEMMA ClockStep ==
    ASSUME now \in Nat \ {0}, [RingNext]_ringvars
    PROVE  now' \in Nat \ {0}
BY DEF RingNext, ClockAdvance, KillAndPush, ringvars

\* The clock starts above zero, so a zero active_since means inactive.
LEMMA InitClock ==
    ASSUME Init, RingAssumption
    PROVE  now \in Nat \ {0}
BY DEF Init, RingInit, RingAssumption

\* The engine implements the ring.
THEOREM EngineImplementsRing == Spec => RingSpec
<1> USE RingAssumption, EngineAssumption
<1>1. Init => now \in Nat \ {0}
  BY InitClock
<1>2. now \in Nat \ {0} /\ [Next]_vars => (now \in Nat \ {0})'
  BY EngineStepIsRingStep, ClockStep
<1>3. now \in Nat \ {0} /\ [Next]_vars => [RingNext]_ringvars
  BY EngineStepIsRingStep
<1>4. Init => RingInit
  BY DEF Init
<1> QED BY <1>1, <1>2, <1>3, <1>4, PTL DEF Spec, RingSpec

(***************************************************************************)
(* The engine keeps the kill ceiling whatever order its decisions, skips   *)
(* and retries come in: no window holds more than MaxKillsPerMinute kills. *)
(***************************************************************************)
THEOREM EngineKeepsCeiling == Spec => []KillCeiling
BY EngineImplementsRing, RingKeepsCeiling, PTL

\* The engine holds a kill back exactly when the whole history would.
THEOREM EngineCeilingIsExact == Spec => []CeilingExact
BY EngineImplementsRing, RingIsExact, PTL

\* The engine, with all its phases, implements the kill budget.
THEOREM EngineImplementsBudget == Spec => BudgetSpec
BY EngineImplementsRing, RingImplementsBudget, PTL

\* Every variable has its type, a streak long enough to emit belongs to an
\* active alert, and a decision under way names a registered pair (eval_one,
\* act_one): the inductive invariant the others rest on.
THEOREM CoreInvariant == Spec => []Core
<1> USE RingAssumption, EngineAssumption
<1>1. Init => Core
  BY InitCore
<1>2. RingTypeOK => now \in Nat \ {0}
  BY DEF RingTypeOK
<1>3. Core /\ RingTypeOK /\ [Next]_vars => Core'
  BY <1>2, CoreStep
<1>4. Spec => []RingTypeOK
  BY EngineImplementsRing, RingInvariant, PTL DEF RingInv
<1> QED BY <1>1, <1>3, <1>4, PTL DEF Spec

\* Every variable keeps its type, and no state outlives its entry.
THEOREM TypeCorrect == Spec => []TypeOK
<1>1. Core /\ RingTypeOK => TypeOK
  BY DEF Core, TypeOK
<1>2. Spec => []RingTypeOK
  BY EngineImplementsRing, RingInvariant, PTL DEF RingInv
<1> QED BY <1>1, <1>2, CoreInvariant, PTL

-----------------------------------------------------------------------------
(***************************************************************************)
(* Why a destructive decision is safe by the time its call is made. While  *)
(* evaluate runs, every decision of the list names a pair whose alert is   *)
(* active and which the double loop has left behind, so no later iteration *)
(* can deactivate it: this is where the distinct pids of a scan are used.  *)
(* After validate, a decision not skipped was seen unprotected and has     *)
(* passed the sanity check, and no act changes active_since.               *)
(***************************************************************************)
ScanInv == \A k, l \in DOMAIN samples :
                samples[k].id.pid = samples[l].id.pid => k = l

Visited(id, n) == \E s \in DOMAIN samples :
                    /\ samples[s].id = id
                    /\ s < i \/ (s = i /\ n < pi)

\* The same of the next state, for an id and an index of this one.
VisitedNext(id, n) == \E s \in DOMAIN samples' :
                        /\ samples'[s].id = id
                        /\ s < i' \/ (s = i' /\ n < pi')

Emitted == phase = "evaluate" =>
    \A k \in DOMAIN decs :
        /\ PairOf(decs[k]) \in registry
        /\ states[PairOf(decs[k])].active_since # 0
        /\ Visited(decs[k].id, decs[k].policy)

SeenPlain(id) == \E s \in DOMAIN samples :
                    samples[s].id = id /\ ~samples[s].protected

OldEnough(pr) == /\ states[pr].active_since # 0
                 /\ now - states[pr].active_since >= SanityMs

Clear(d) == /\ SeenPlain(d.id)
            /\ d.kind \in {"STOP", "KILL"} => OldEnough(PairOf(d))

Cleared == phase \in {"act", "apply"} =>
    \A k \in DOMAIN decs : decs[k].skip = "null" => Clear(decs[k])

Safe == ScanInv /\ Emitted /\ Cleared /\ SanityBeforeStop /\ ProtectedUntouched

\* A step that makes no call and leaves the passes over the decisions.
LEMMA SafeQuiet ==
    ASSUME ScanInv', event'.call = "none", Emitted', Cleared'
    PROVE  Safe'
BY DEF Safe, SanityBeforeStop, ProtectedUntouched

\* A new cycle has no decisions yet.
LEMMA BeginCycleSafe ==
    ASSUME EngineAssumption, BeginCycle
    PROVE  Safe'
<1>1. ScanInv'
  BY DEF BeginCycle, EngineAssumption, ScanInv
<1>2. phase' = "evaluate" /\ decs' = <<>> /\ event'.call = "none"
  BY DEF BeginCycle, Quiet, NoEvent
<1> QED BY <1>1, <1>2, SafeQuiet DEF Emitted, Cleared

\* What the double loop has left behind stays behind, the pair it is at too.
LEMMA VisitedGrows ==
    ASSUME EngineTypeOK, EngineAssumption, NextPair, samples' = samples
    PROVE  /\ \A id \in Ids, n \in PolicyIndex : Visited(id, n) => VisitedNext(id, n)
           /\ \A id \in Ids, n \in PolicyIndex :
                i \in DOMAIN samples /\ id = samples[i].id /\ n = pi
                    => VisitedNext(id, n)
<1>1. i \in Nat /\ pi \in Nat /\ PolicyIndex = 1 .. Len(Catalog)
      /\ Len(Catalog) \in Nat /\ samples \in Seq(Samples)
  BY CatalogFacts DEF EngineTypeOK
<1>2. \A n \in PolicyIndex, s \in DOMAIN samples :
        (s < i \/ (s = i /\ n < pi)) => (s < i' \/ (s = i' /\ n < pi'))
  BY <1>1 DEF NextPair
<1>3. i < i' \/ (i = i' /\ pi < pi')
  BY <1>1 DEF NextPair
<1>4. ASSUME NEW id \in Ids, NEW n \in PolicyIndex, Visited(id, n)
      PROVE  VisitedNext(id, n)
  <2>1. PICK s \in DOMAIN samples :
            samples[s].id = id /\ (s < i \/ (s = i /\ n < pi))
    BY <1>4 DEF Visited, VisitedNext
  <2>2. s < i' \/ (s = i' /\ n < pi')
    BY <1>2, <2>1
  <2> QED BY <2>1, <2>2 DEF Visited, VisitedNext
<1>5. ASSUME NEW id \in Ids, NEW n \in PolicyIndex,
             i \in DOMAIN samples, id = samples[i].id, n = pi
      PROVE  VisitedNext(id, n)
  BY <1>3, <1>5 DEF Visited, VisitedNext
<1> QED BY <1>4, <1>5

\* The pair eval_one is at has no decision yet.
LEMMA CurPairIsNew ==
    ASSUME Core, EngineAssumption, ScanInv, Emitted, Evaluating,
           NEW k \in DOMAIN decs
    PROVE  PairOf(decs[k]) # CurPair
<1>1. EngineTypeOK
  BY DEF Core
<1>2. i \in DOMAIN samples /\ CurPair[1] = samples[i].id /\ CurPair[2] = pi
      /\ pi \in Nat /\ i \in Nat
  BY <1>1, CurPairFacts, CatalogFacts DEF EngineTypeOK
<1>3. PICK s \in DOMAIN samples :
        samples[s].id = decs[k].id /\ (s < i \/ (s = i /\ decs[k].policy < pi))
  BY DEF Emitted, Evaluating, Visited
<1> SUFFICES ASSUME PairOf(decs[k]) = CurPair
             PROVE  FALSE
  OBVIOUS
<1>4. decs[k].id = samples[i].id /\ decs[k].policy = pi
  <2>1. <<decs[k].id, decs[k].policy>> = <<samples[i].id, pi>>
    BY DEF PairOf, CurPair
  <2> QED BY <2>1
<1>5. s = i
  BY <1>2, <1>3, <1>4 DEF ScanInv
<1> QED BY <1>2, <1>3, <1>4, <1>5

\* The decisions already in the list stay safe while the loops move on.
LEMMA EmittedNext ==
    ASSUME \A k \in DOMAIN decs' :
                /\ PairOf(decs'[k]) \in registry'
                /\ states'[PairOf(decs'[k])].active_since # 0
                /\ VisitedNext(decs'[k].id, decs'[k].policy)
    PROVE  Emitted'
BY DEF Emitted, Visited, VisitedNext, PairOf

\* A frozen pair changes no decision of the list.
LEMMA EvalFrozenSafe ==
    ASSUME Core, Safe, EngineAssumption, EvalFrozen
    PROVE  Safe'
<1>1. EngineTypeOK /\ phase = "evaluate" /\ decs \in Seq(Decisions)
  BY DEF Core, EngineTypeOK, EvalFrozen, Evaluating
<1>2. UNCHANGED <<phase, samples, decs, registry, states>> /\ event'.call = "none"
  BY DEF EvalFrozen, Quiet, NoEvent
<1>3. ScanInv'
  BY <1>2 DEF Safe, ScanInv
<1>4. \A k \in DOMAIN decs : decs[k].id \in Ids /\ decs[k].policy \in PolicyIndex
  <2>1. \A k \in DOMAIN decs : decs[k] \in Decisions
    BY <1>1
  <2> QED BY <2>1 DEF Decisions
<1>5. \A id \in Ids, n \in PolicyIndex : Visited(id, n) => VisitedNext(id, n)
  BY <1>1, <1>2, VisitedGrows DEF EvalFrozen
<1>6. Emitted'
  BY <1>1, <1>2, <1>4, <1>5, EmittedNext DEF Safe, Emitted
<1>7. Cleared'
  BY <1>1, <1>2 DEF Cleared
<1> QED BY <1>2, <1>3, <1>6, <1>7, SafeQuiet

\* eval_one changes the pair it is at, which no decision names yet, and emits
\* only a decision whose alert is active.
LEMMA EvalScoredSafe ==
    ASSUME Core, Safe, now \in Nat \ {0}, EngineAssumption, EvalScored
    PROVE  Safe'
<1> DEFINE p == Catalog[pi]
           st(m) == apply_zone(states[CurPair], p, m, now)
<1>1. EngineTypeOK /\ Armed /\ Evaluating /\ phase = "evaluate" /\ ScanInv /\ Emitted
  BY DEF Core, Safe, EvalScored, Evaluating
<1>2. /\ CurPair \in Pairs /\ p \in Policies /\ PolicyOf(CurPair) = p
      /\ i \in DOMAIN samples /\ samples[i].id \in Ids /\ pi \in PolicyIndex
      /\ CurPair[1] = samples[i].id /\ CurPair[2] = pi
  BY <1>1, CurPairFacts DEF EngineTypeOK
<1>3. states \in [Pairs -> AlertStates] /\ states[CurPair] \in AlertStates
      /\ StateInv(states[CurPair], p) /\ decs \in Seq(Decisions)
  BY <1>1, <1>2 DEF EngineTypeOK, Armed
<1>4. PICK m \in Readings :
        \/ /\ states' = [states EXCEPT ![CurPair] = deactivate(st(m))]
           /\ UNCHANGED decs
        \/ /\ states' = [states EXCEPT ![CurPair] = st(m)]
           /\ decs' = IF should_emit(st(m), p, now)
                      THEN Append(decs, decision(CurPair, st(m))) ELSE decs
  BY DEF EvalScored
<1>5. m \in Int
  BY DEF EngineAssumption
<1>6. StateInv(st(m), p)
  BY <1>2, <1>3, <1>5, ZoneKeepsInv
<1>7. should_emit(st(m), p, now) => st(m).active_since # 0
  BY <1>6 DEF StateInv, should_emit
<1>8. /\ UNCHANGED <<phase, samples>> /\ registry' = registry \cup {CurPair}
      /\ event'.call = "none" /\ NextPair
  BY DEF EvalScored, Quiet, NoEvent
<1>9. \E new : states' = [states EXCEPT ![CurPair] = new]
  BY <1>4
<1>10. \A k \in DOMAIN decs :
        /\ decs[k].id \in Ids /\ decs[k].policy \in PolicyIndex
        /\ PairOf(decs[k]) \in Pairs /\ PairOf(decs[k]) # CurPair
  <2>1. \A k \in DOMAIN decs : decs[k] \in Decisions
    BY <1>3
  <2>2. \A k \in DOMAIN decs : decs[k].id \in Ids /\ decs[k].policy \in PolicyIndex
    BY <2>1 DEF Decisions
  <2>3. \A k \in DOMAIN decs : PairOf(decs[k]) \in Pairs
    BY <2>2, CatalogFacts DEF PairOf
  <2>4. \A k \in DOMAIN decs : PairOf(decs[k]) # CurPair
    BY <1>1, CurPairIsNew
  <2> QED BY <2>2, <2>3, <2>4
<1>11. \A id \in Ids, n \in PolicyIndex : Visited(id, n) => VisitedNext(id, n)
  BY <1>1, <1>8, VisitedGrows
<1> DEFINE Good(d) == /\ PairOf(d) \in registry'
                      /\ states'[PairOf(d)].active_since # 0
                      /\ VisitedNext(d.id, d.policy)
<1>12. ASSUME NEW k \in DOMAIN decs
       PROVE  Good(decs[k])
  <2>1. /\ PairOf(decs[k]) \in registry
        /\ states[PairOf(decs[k])].active_since # 0
        /\ Visited(decs[k].id, decs[k].policy)
    BY <1>1 DEF Emitted
  <2>2. states'[PairOf(decs[k])] = states[PairOf(decs[k])]
    BY <1>3, <1>9, <1>10
  <2> QED BY <1>8, <1>10, <1>11, <2>1, <2>2
<1>13. Emitted'
  <2>1. CASE decs' = decs
    BY <1>12, <2>1, EmittedNext
  <2>2. CASE /\ should_emit(st(m), p, now)
             /\ states' = [states EXCEPT ![CurPair] = st(m)]
             /\ decs' = Append(decs, decision(CurPair, st(m)))
    <3> DEFINE d == decision(CurPair, st(m))
    <3>1. d.id = samples[i].id /\ d.policy = pi /\ PairOf(d) = CurPair
      BY <1>2 DEF decision, PairOf, CurPair
    <3>2. states'[CurPair] = st(m)
      BY <1>2, <1>3, <2>2
    <3>3. VisitedNext(d.id, d.policy)
      BY <1>1, <1>2, <1>8, <3>1, VisitedGrows
    <3>4. Good(d)
      BY <1>7, <1>8, <2>2, <3>1, <3>2, <3>3
    <3> HIDE DEF st, d, Good
    <3>5. decs' = Append(decs, d)
      BY <2>2 DEF d
    <3>6. \A k \in DOMAIN decs' : Good(decs'[k])
      BY <1>3, <1>12, <3>4, <3>5
    <3> USE DEF Good
    <3> QED BY <3>6, EmittedNext
  <2> QED BY <1>4, <2>1, <2>2
<1>14. ScanInv'
  BY <1>1, <1>8 DEF ScanInv
<1>15. Cleared'
  BY <1>1, <1>8 DEF Cleared
<1> QED BY <1>8, <1>13, <1>14, <1>15, SafeQuiet

\* validate lets through what the scan saw unprotected and old enough.
LEMMA ValidateSafe ==
    ASSUME Core, Safe, now \in Nat \ {0}, EngineAssumption, Validate
    PROVE  Safe'
<1>1. /\ decs \in Seq(Decisions) /\ states \in [Pairs -> AlertStates]
      /\ phase = "evaluate" /\ SanityMs \in Nat
  BY DEF Core, EngineTypeOK, Validate, EngineAssumption
<1>2. /\ UNCHANGED <<samples, registry, states, now>> /\ phase' = "act"
      /\ event'.call = "none"
  BY DEF Validate, Quiet, NoEvent, ringvars
<1>3. ASSUME NEW k \in DOMAIN decs', decs'[k].skip = "null"
      PROVE  Clear(decs[k])
  <2> DEFINE d == decs[k]
  <2>1. k \in DOMAIN decs /\ decs'[k] = [d EXCEPT !.skip = skip_reason(d)]
    BY <1>1, <1>3 DEF Validate
  <2>2. d \in Decisions
    BY <1>1, <2>1
  <2>3. skip_reason(d) = "null"
    BY <1>3, <2>1, <2>2 DEF Decisions
  <2>4. ~stale(d) /\ ~whitelisted(d) /\ ~sanity_blocks(d)
    BY <2>3 DEF skip_reason
  <2>5. SeenPlain(d.id)
    BY <2>4 DEF stale, whitelisted, find_by_pid, SeenPlain
  <2>6. PairOf(d) \in registry /\ states[PairOf(d)].active_since # 0
    BY <1>1, <2>1 DEF Safe, Emitted
  <2>7. PairOf(d) \in Pairs
    BY <2>2, CatalogFacts DEF Decisions, PairOf
  <2>8. states[PairOf(d)].active_since \in Nat
    BY <1>1, <2>7, StateFields
  <2>9. d.kind \in {"STOP", "KILL"} => now - states[PairOf(d)].active_since >= SanityMs
    BY <1>1, <2>4, <2>6, <2>8 DEF sanity_blocks
  <2> QED BY <2>5, <2>6, <2>9 DEF Clear, OldEnough
<1>4. \A k \in DOMAIN decs' : /\ k \in DOMAIN decs
                              /\ decs'[k].id = decs[k].id
                              /\ decs'[k].policy = decs[k].policy
                              /\ decs'[k].kind = decs[k].kind
  <2>1. \A k \in DOMAIN decs : decs[k] \in Decisions
    BY <1>1
  <2> QED BY <2>1 DEF Validate, Decisions
<1>5. Cleared'
  BY <1>2, <1>3, <1>4 DEF Cleared, Clear, SeenPlain, OldEnough, PairOf
<1>6. ScanInv' /\ Emitted'
  BY <1>2 DEF Safe, ScanInv, Emitted
<1> QED BY <1>2, <1>5, <1>6, SafeQuiet

\* Without a list there is no decision to act on.
LEMMA CycleNoMemorySafe ==
    ASSUME Safe, CycleNoMemory
    PROVE  Safe'
<1>1. /\ UNCHANGED <<samples, decs>> /\ phase' = "act" /\ decs = <<>>
      /\ event'.call = "none"
  BY DEF CycleNoMemory, Quiet, NoEvent
<1>2. ScanInv' /\ Emitted' /\ Cleared'
  BY <1>1 DEF Safe, ScanInv, Emitted, Cleared
<1> QED BY <1>1, <1>2, SafeQuiet

\* The passes over the decisions keep them clear: no act moves active_since.
LEMMA ClearedStays ==
    ASSUME Core, Cleared, phase \in {"act", "apply"},
           UNCHANGED <<samples, decs, now>>,
           \A pr \in Pairs : states'[pr].active_since = states[pr].active_since
    PROVE  Cleared'
<1>1. \A k \in DOMAIN decs : PairOf(decs[k]) \in Pairs
  <2>1. \A k \in DOMAIN decs : decs[k] \in Decisions
    BY DEF Core, EngineTypeOK
  <2> QED BY <2>1 DEF Decisions, PairOf, Pairs
<1>2. ASSUME NEW k \in DOMAIN decs, decs[k].skip = "null"
      PROVE  Clear(decs[k])
  BY <1>2 DEF Cleared
<1> QED BY <1>1, <1>2 DEF Cleared, Clear, SeenPlain, OldEnough, PairOf

\* A decision that is skipped makes no call.
LEMMA SkipSafe ==
    ASSUME Core, Safe, NEW STATE label, Skip(label), phase \in {"act", "apply"},
           UNCHANGED <<caged, ringvars>>
    PROVE  Safe'
<1>1. /\ UNCHANGED <<samples, decs, states, now>> /\ phase' = "act"
      /\ event'.call = "none"
  BY DEF Skip, Logged, ringvars
<1>2. ScanInv' /\ Emitted'
  BY <1>1 DEF Safe, ScanInv, Emitted
<1>3. Cleared'
  BY <1>1, ClearedStays DEF Safe
<1> QED BY <1>1, <1>2, <1>3, SafeQuiet

\* A decision that counts, whatever its call: the call is made on a decision
\* that is clear, and leaves it and the others clear.
LEMMA AdvanceSafe ==
    ASSUME Core, Safe, now \in Nat \ {0}, EngineAssumption,
           phase \in {"act", "apply"}, i \in DOMAIN decs,
           NEW label, NEW call \in Calls, Advance(label, call), now' = now,
           call # "none" => dec.skip = "null",
           call \in {"SIGSTOP", "SIGKILL"} => dec.kind \in {"STOP", "KILL"}
    PROVE  Safe'
<1> DEFINE pr == PairOf(dec)
           st == states[pr]
<1>1. EngineTypeOK /\ Armed /\ states \in [Pairs -> AlertStates]
  BY DEF Core, EngineTypeOK
<1>2. pr \in Pairs /\ st \in AlertStates /\ PolicyOf(pr) \in Policies
  BY <1>1, DecFacts
<1>3. StateInv(st, PolicyOf(pr))
  BY <1>1, <1>2 DEF Armed
<1>4. advance_after_act(st, PolicyOf(pr), now).active_since = st.active_since
  BY <1>2, <1>3, AdvanceKeepsInv
<1>5. states' = [states EXCEPT ![pr] = advance_after_act(st, PolicyOf(pr), now)]
  BY DEF Advance
<1>6. \A x \in Pairs : states'[x].active_since = states[x].active_since
  BY <1>1, <1>2, <1>4, <1>5
<1>7. /\ UNCHANGED <<samples, decs>> /\ phase' = "act"
      /\ event'.call = call /\ event'.pair = pr
  BY DEF Advance, Logged
<1>8. ScanInv' /\ Emitted'
  BY <1>7 DEF Safe, ScanInv, Emitted
<1>9. Cleared'
  BY <1>6, <1>7, ClearedStays DEF Safe
<1>10. call # "none" => Clear(dec)
  BY DEF Safe, Cleared, dec
<1>11. SanityBeforeStop'
  <2>1. ASSUME event'.call \in {"SIGSTOP", "SIGKILL"}
        PROVE  OldEnough(pr)
    BY <1>7, <1>10, <2>1 DEF Clear
  <2> QED BY <1>2, <1>6, <1>7, <2>1 DEF SanityBeforeStop, OldEnough
<1>12. ProtectedUntouched'
  <2>1. pr[1] = dec.id
    BY DEF PairOf
  <2>2. call # "none" => SeenPlain(dec.id)
    BY <1>10 DEF Clear
  <2> QED BY <1>7, <2>1, <2>2 DEF ProtectedUntouched, SeenPlain
<1> QED BY <1>8, <1>9, <1>11, <1>12 DEF Safe

\* No outcome of act_one before a call touches a process.
LEMMA ActSafe ==
    ASSUME Core, Safe, now \in Nat \ {0}, EngineAssumption, Act
    PROVE  Safe'
<1>1. phase \in {"act", "apply"} /\ i \in DOMAIN decs
  BY ActingFacts DEF Act, ActSkipped, ActDryRun, ActLogOnly, CageRefused,
                     GuardFails, GuardPasses, Applying, Acting
<1>2. CASE ActSkipped
  BY <1>1, <1>2, SkipSafe DEF ActSkipped
<1>3. CASE ActDryRun
  BY <1>1, <1>3, AdvanceSafe DEF ActDryRun, Calls, ringvars
<1>4. CASE ActLogOnly
  BY <1>1, <1>4, AdvanceSafe DEF ActLogOnly, Calls, ringvars
<1>5. CASE CageRefused
  BY <1>1, <1>5, AdvanceSafe DEF CageRefused, Calls, ringvars
<1>6. CASE GuardFails
  BY <1>1, <1>6, SkipSafe DEF GuardFails
<1>7. CASE GuardPasses
  <2>1. /\ UNCHANGED <<samples, decs, states, now>> /\ phase' = "apply"
        /\ event'.call = "none"
    BY <1>7 DEF GuardPasses, Quiet, NoEvent, ringvars
  <2>2. ScanInv' /\ Emitted'
    BY <2>1 DEF Safe, ScanInv, Emitted
  <2>3. Cleared'
    BY <1>1, <2>1, ClearedStays DEF Safe
  <2> QED BY <2>1, <2>2, <2>3, SafeQuiet
<1> QED BY <1>2, <1>3, <1>4, <1>5, <1>6, <1>7 DEF Act

\* A call is made only for a decision that validation cleared.
LEMMA ApplySafe ==
    ASSUME Core, Safe, now \in Nat \ {0}, EngineAssumption, Apply
    PROVE  Safe'
<1>1. phase = "apply" /\ now' = now
  BY DEF Apply, Renice, Stop, KillHeldBack, Kill, KillAndPush, CageApplied,
         CageFailed, ringvars
<1>2. i \in DOMAIN decs /\ dec.skip = "null"
  BY <1>1 DEF Core, Ready
<1>3. CASE Renice
  BY <1>1, <1>2, <1>3, AdvanceSafe DEF Renice, Calls
<1>4. CASE Stop
  BY <1>1, <1>2, <1>4, AdvanceSafe DEF Stop, Calls
<1>5. CASE KillHeldBack
  BY <1>1, <1>5, SkipSafe DEF KillHeldBack
<1>6. CASE Kill
  BY <1>1, <1>2, <1>6, AdvanceSafe DEF Kill, Calls
<1>7. CASE CageApplied
  BY <1>1, <1>2, <1>7, AdvanceSafe DEF CageApplied, Calls
<1>8. CASE CageFailed
  BY <1>1, <1>2, <1>8, AdvanceSafe DEF CageFailed, Calls
<1> QED BY <1>3, <1>4, <1>5, <1>6, <1>7, <1>8 DEF Apply

\* Outside the passes the list of decisions is not read.
LEMMA GcSafe ==
    ASSUME Safe, Gc \/ Finish
    PROVE  Safe'
<1>1. event'.call = "none" /\ phase' \in {"cage_gc", "idle", "stopped"}
      /\ (samples' = samples \/ samples' = <<>>)
  BY DEF Gc, StateGc, CageGcKeep, CageGcRelease, CageGcIter, EndCycle, Finish,
         Quiet, NoEvent
<1>2. ScanInv'
  BY <1>1 DEF Safe, ScanInv
<1>3. Emitted' /\ Cleared'
  BY <1>1 DEF Emitted, Cleared
<1> QED BY <1>1, <1>2, <1>3, SafeQuiet

\* A step that changes nothing keeps what is safe.
LEMMA StutterSafe ==
    ASSUME Safe, UNCHANGED vars
    PROVE  Safe'
<1>1. UNCHANGED <<phase, samples, i, pi, decs, registry, states, event, now>>
  BY DEF vars, engine, ringvars
<1>2. ScanInv' /\ Emitted' /\ Cleared'
  BY <1>1 DEF Safe, ScanInv, Emitted, Visited, Cleared, Clear, SeenPlain,
              OldEnough, PairOf
<1>3. SanityBeforeStop' /\ ProtectedUntouched'
  BY <1>1 DEF Safe, SanityBeforeStop, ProtectedUntouched
<1> QED BY <1>2, <1>3 DEF Safe

\* Every step of the engine keeps what is safe.
LEMMA SafeStep ==
    ASSUME Core, Safe, now \in Nat \ {0}, EngineAssumption, [Next]_vars
    PROVE  Safe'
<1>1. CASE Evaluate
  BY <1>1, EvalFrozenSafe, EvalScoredSafe DEF Evaluate
<1> QED BY <1>1, BeginCycleSafe, ValidateSafe, CycleNoMemorySafe, ActSafe,
           ApplySafe, GcSafe, StutterSafe DEF Next, Stopped

\* A decision is emitted by an active alert that no later iteration of the
\* cycle can lower, and is acted on only when validate has cleared it
\* (pg_alert_evaluate, pg_alert_validate, act_one).
THEOREM SafeInvariant == Spec => []Safe
<1> USE RingAssumption, EngineAssumption
<1>1. Init => Safe
  BY DEF Init, Safe, ScanInv, Emitted, Cleared, SanityBeforeStop,
         ProtectedUntouched, NoEvent
<1>2. RingTypeOK => now \in Nat \ {0}
  BY DEF RingTypeOK
<1>3. Core /\ RingTypeOK /\ Safe /\ [Next]_vars => Safe'
  BY <1>2, SafeStep
<1>4. Spec => []RingTypeOK
  BY EngineImplementsRing, RingInvariant, PTL DEF RingInv
<1> QED BY <1>1, <1>3, <1>4, CoreInvariant, PTL DEF Spec

(***************************************************************************)
(* No sequence of scans, metrics, acts and failures lets the engine stop   *)
(* or kill a process whose alert has been active for less than SanityMs.   *)
(***************************************************************************)
THEOREM SanityHolds == Spec => []SanityBeforeStop
BY SafeInvariant, PTL DEF Safe

\* No system call reaches a process that the scan of its cycle did not see, or
\* saw protected.
THEOREM ProtectionHolds == Spec => []ProtectedUntouched
BY SafeInvariant, PTL DEF Safe

-----------------------------------------------------------------------------
(***************************************************************************)
(* The register of caged processes. cage_gc compacts it while it walks:    *)
(* what is behind the walk is in the store, and the entry swapped in is    *)
(* looked at next.                                                         *)
(***************************************************************************)
Walked == phase = "cage_gc" =>
            \A k \in DOMAIN caged : k < i => caged[k] \in present

Swept == /\ phase \in {"cage_gc", "idle"} => \A pr \in registry : pr[1] \in present
         /\ phase = "idle" => \A k \in DOMAIN caged : caged[k] \in present

Register == CagedWithinCap /\ Walked /\ Swept

\* A new entry finds room and is not there yet (cage_one).
LEMMA RegisteredKeepsCap ==
    ASSUME CagedWithinCap, caged \in Seq(Ids), MaxCagedProcesses \in Nat,
           NEW id \in Ids, caged' = registered(id)
    PROVE  CagedWithinCap'
<1>1. CASE ~is_caged(id) /\ Len(caged) < MaxCagedProcesses
  <2>1. caged' = Append(caged, id) /\ Len(caged') = Len(caged) + 1
    BY <1>1 DEF registered
  <2>2. \A k \in DOMAIN caged : caged[k] # id
    BY <1>1 DEF is_caged
  <2> QED BY <1>1, <2>1, <2>2 DEF CagedWithinCap
<1>2. CASE ~(~is_caged(id) /\ Len(caged) < MaxCagedProcesses)
  BY <1>2 DEF registered, CagedWithinCap
<1> QED BY <1>1, <1>2

\* The swap with the last entry makes no duplicate (cage_gc).
LEMMA ReleaseKeepsCap ==
    ASSUME CagedWithinCap, caged \in Seq(Ids), MaxCagedProcesses \in Nat,
           NEW k \in DOMAIN caged, caged' = swap_with_last(k)
    PROVE  CagedWithinCap'
<1> DEFINE n == Len(caged)
<1>1. /\ n \in Nat \ {0} /\ Len(caged') = n - 1 /\ DOMAIN caged' = 1 .. n - 1
      /\ DOMAIN caged = 1 .. n
      /\ \A j \in 1 .. n - 1 : caged'[j] = IF j = k THEN caged[n] ELSE caged[j]
  BY SwapType
<1>2. \A a, b \in 1 .. n : caged[a] = caged[b] => a = b
  BY <1>1 DEF CagedWithinCap
<1>3. \A a, b \in 1 .. n - 1 : caged'[a] = caged'[b] => a = b
  <2> SUFFICES ASSUME NEW a \in 1 .. n - 1, NEW b \in 1 .. n - 1,
                      caged'[a] = caged'[b]
               PROVE  a = b
    OBVIOUS
  <2> DEFINE src(j) == IF j = k THEN n ELSE j
  <2>1. src(a) \in 1 .. n /\ src(b) \in 1 .. n
    BY <1>1
  <2>2. caged'[a] = caged[src(a)] /\ caged'[b] = caged[src(b)]
    BY <1>1
  <2>3. src(a) = src(b)
    BY <1>2, <2>1, <2>2
  <2> QED BY <1>1, <2>3
<1>4. Len(caged') <= MaxCagedProcesses
  BY <1>1 DEF CagedWithinCap
<1> QED BY <1>1, <1>3, <1>4 DEF CagedWithinCap

\* Every step of the engine keeps the register of caged processes.
LEMMA RegisterStep ==
    ASSUME Core, Register, EngineAssumption, [Next]_vars
    PROVE  Register'
<1>1. /\ caged \in Seq(Ids) /\ MaxCagedProcesses \in Nat /\ i \in Nat \ {0}
      /\ CagedWithinCap
  BY DEF Core, EngineTypeOK, EngineAssumption, Register
<1>2. CASE CageApplied
  <2>1. phase = "apply" /\ phase' = "act" /\ caged' = registered(dec.id)
    BY <1>2 DEF CageApplied, Advance
  <2>2. dec.id \in Ids
    BY <2>1, DecFacts DEF Core, Ready
  <2> QED BY <1>1, <2>1, <2>2, RegisteredKeepsCap DEF Register, Walked, Swept
<1>3. CASE CageGcRelease
  <2>1. /\ phase = "cage_gc" /\ phase' = "cage_gc" /\ i \in DOMAIN caged
        /\ caged' = swap_with_last(i) /\ UNCHANGED <<i, registry, present>>
    BY <1>1, <1>3 DEF CageGcRelease, CageGcIter
  <2>2. /\ DOMAIN caged' = 1 .. Len(caged) - 1 /\ DOMAIN caged = 1 .. Len(caged)
        /\ \A k \in DOMAIN caged' : k < i => caged'[k] = caged[k]
    BY <1>1, <2>1, SwapType, SMTT(30)
  <2>3. \A k \in DOMAIN caged' : k < i => caged[k] \in present
    BY <1>1, <2>1, <2>2 DEF Register, Walked
  <2>4. Walked'
    BY <2>1, <2>2, <2>3 DEF Walked
  <2> QED BY <1>1, <2>1, <2>4, ReleaseKeepsCap DEF Register, Swept
<1>4. CASE CageGcKeep
  <2>1. /\ phase = "cage_gc" /\ phase' = "cage_gc" /\ caged[i] \in present
        /\ i' = i + 1 /\ UNCHANGED <<caged, registry, present>>
    BY <1>4 DEF CageGcKeep, CageGcIter
  <2>2. Walked'
    BY <1>1, <2>1 DEF Register, Walked
  <2> QED BY <2>1, <2>2 DEF Register, Swept, CagedWithinCap
<1>5. CASE EndCycle
  <2>1. /\ phase = "cage_gc" /\ i > Len(caged) /\ phase' = "idle"
        /\ UNCHANGED <<caged, registry, present>>
    BY <1>5 DEF EndCycle
  <2> QED BY <1>1, <2>1 DEF Register, Walked, Swept, CagedWithinCap
<1>6. CASE StateGc
  <2>1. /\ phase' = "cage_gc" /\ i' = 1 /\ caged' = caged
        /\ \A pr \in registry' : pr[1] \in present'
    BY <1>6 DEF StateGc
  <2> QED BY <1>1, <2>1 DEF Register, Walked, Swept, CagedWithinCap
<1>7. CASE UNCHANGED vars
  BY <1>7 DEF vars, engine, Register, Walked, Swept, CagedWithinCap
<1> DEFINE Elsewhere == /\ caged' = caged
                        /\ phase' \in {"evaluate", "act", "apply", "stopped"}
<1>8. Elsewhere => Register'
  BY <1>1 DEF Register, Walked, Swept, CagedWithinCap
<1>9. CASE BeginCycle \/ Finish \/ Validate \/ CycleNoMemory
  BY <1>8, <1>9 DEF BeginCycle, Finish, Validate, CycleNoMemory
<1>10. CASE Evaluate
  BY <1>8, <1>10 DEF Evaluate, EvalFrozen, EvalScored, Evaluating
<1>11. CASE Act
  BY <1>8, <1>11 DEF Act, ActSkipped, ActDryRun, ActLogOnly, CageRefused,
                     GuardFails, GuardPasses, Skip, Advance
<1>12. CASE Renice \/ Stop \/ KillHeldBack \/ Kill \/ CageFailed
  BY <1>8, <1>12 DEF Renice, Stop, KillHeldBack, Kill, CageFailed, Skip, Advance
<1> QED BY <1>2, <1>3, <1>4, <1>5, <1>6, <1>7, <1>9, <1>10, <1>11, <1>12
        DEF Next, Apply, Gc, Stopped

\* The register keeps its bound, the walk of cage_gc leaves only kept
\* entries behind it, and between cycles nothing stays for a process the store
\* has dropped (cage_one, cage_gc, pg_alert_state_gc).
THEOREM RegisterInvariant == Spec => []Register
<1> USE EngineAssumption
<1>1. Init => Register
  BY DEF Init, Register, CagedWithinCap, Walked, Swept, EngineAssumption
<1>2. Core /\ Register /\ [Next]_vars => Register'
  BY RegisterStep
<1> QED BY <1>1, <1>2, CoreInvariant, PTL DEF Spec

\* The register never passes its bound and never holds a process twice.
THEOREM CapHolds == Spec => []CagedWithinCap
BY RegisterInvariant, PTL DEF Register

\* The walk that compacts the register leaves nothing of a dropped process.
THEOREM GcIsComplete == Spec => []GcComplete
<1>1. Register => GcComplete
  BY DEF Register, Swept, GcComplete
<1> QED BY <1>1, RegisterInvariant, PTL

-----------------------------------------------------------------------------
\* In a dry run no decision gets as far as its identity check.
LEMMA DryRunStep ==
    ASSUME Core, DryRunHarmless, [Next]_vars
    PROVE  DryRunHarmless'
<1> SUFFICES ASSUME DryRun
             PROVE  /\ event'.call = "none" /\ kills' = kills /\ caged' = caged
  BY DEF DryRunHarmless
<1>1. caged = <<>> /\ i \in Nat \ {0} /\ event.call = "none"
  BY DEF Core, EngineTypeOK, DryRunHarmless
<1>2. phase # "apply"
  BY DEF Core, Ready
<1>3. ~Apply
  BY <1>2 DEF Apply, Renice, Stop, KillHeldBack, Kill, CageApplied, CageFailed
<1>4. CASE Act
  BY <1>4 DEF Act, ActSkipped, ActDryRun, ActLogOnly, CageRefused, GuardFails,
              GuardPasses, Skip, Advance, Logged, Quiet, NoEvent, ringvars, ring
<1>5. CASE Gc
  BY <1>1, <1>5 DEF Gc, StateGc, CageGcKeep, CageGcRelease, CageGcIter, EndCycle,
                    Quiet, NoEvent, ringvars, ring
<1>6. CASE Evaluate
  BY <1>6 DEF Evaluate, EvalFrozen, EvalScored, Quiet, NoEvent, ringvars, ring
<1>7. CASE BeginCycle \/ Finish \/ Validate \/ CycleNoMemory
  BY <1>7 DEF BeginCycle, Finish, Validate, CycleNoMemory, Quiet, NoEvent,
              ringvars, ring
<1>8. CASE Stopped \/ UNCHANGED vars
  BY <1>1, <1>8 DEF Stopped, vars, engine, ringvars, ring
<1> QED BY <1>3, <1>4, <1>5, <1>6, <1>7, <1>8 DEF Next

\* A dry run makes no call, spends no kill and cages nothing.
THEOREM DryRunIsHarmless == Spec => []DryRunHarmless
<1>1. Init => DryRunHarmless
  BY DEF Init, RingInit, DryRunHarmless, NoEvent
<1>2. Core /\ DryRunHarmless /\ [Next]_vars => DryRunHarmless'
  BY DryRunStep
<1> QED BY <1>1, <1>2, CoreInvariant, PTL DEF Spec
-----------------------------------------------------------------------------
(***************************************************************************)
(* The run comes to an end: the part of Terminates that is safety. Each    *)
(* step lowers ToDo, a tuple of natural numbers, so no behaviour has       *)
(* infinitely many of them, whatever the scheduler does.                   *)
(***************************************************************************)
InRange ==
    /\ phase = "evaluate" => i <= Len(samples) + 1
    /\ phase = "act"      => i <= Len(decs) + 1
    /\ phase = "apply"    => i <= Len(decs)
    /\ phase = "cage_gc"  => i <= Len(caged) + 1

\* The tuples are compared at the first place where they differ: here the first.
LEMMA SmallerFirst ==
    ASSUME NEW a1 \in Int, NEW a2, NEW a3, NEW a4,
           NEW b1 \in Int, NEW b2, NEW b3, NEW b4, a1 < b1
    PROVE  Smaller(<<a1, a2, a3, a4>>, <<b1, b2, b3, b4>>)
<1>1. 1 \in 1 .. 4 /\ 1 .. 1 - 1 = {}
  OBVIOUS
<1> QED BY <1>1 DEF Smaller

\* They agree before the second place, and differ there.
LEMMA SmallerSecond ==
    ASSUME NEW a1, NEW a2 \in Int, NEW a3, NEW a4,
           NEW b2 \in Int, NEW b3, NEW b4, a2 < b2
    PROVE  Smaller(<<a1, a2, a3, a4>>, <<a1, b2, b3, b4>>)
<1>1. 2 \in 1 .. 4 /\ \A j \in 1 .. 2 - 1 : j = 1
  OBVIOUS
<1> QED BY <1>1 DEF Smaller

\* They agree before the third place, and differ there.
LEMMA SmallerThird ==
    ASSUME NEW a1, NEW a2, NEW a3 \in Int, NEW a4,
           NEW b3 \in Int, NEW b4, a3 < b3
    PROVE  Smaller(<<a1, a2, a3, a4>>, <<a1, a2, b3, b4>>)
<1>1. 3 \in 1 .. 4 /\ \A j \in 1 .. 3 - 1 : j = 1 \/ j = 2
  OBVIOUS
<1> QED BY <1>1 DEF Smaller

\* They agree before the fourth place, and differ there.
LEMMA SmallerFourth ==
    ASSUME NEW a1, NEW a2, NEW a3, NEW a4 \in Int, NEW b4 \in Int, a4 < b4
    PROVE  Smaller(<<a1, a2, a3, a4>>, <<a1, a2, a3, b4>>)
<1>1. 4 \in 1 .. 4 /\ \A j \in 1 .. 4 - 1 : j = 1 \/ j = 2 \/ j = 3
  OBVIOUS
<1> QED BY <1>1 DEF Smaller

\* The numbers ToDo is made of, before and after a step.
LEMMA Counters ==
    ASSUME Core, EngineAssumption
    PROVE  /\ Cycles \in Nat /\ cycle \in 0 .. Cycles
           /\ i \in Nat \ {0} /\ pi \in 1 .. Len(Catalog)
           /\ Len(Catalog) \in Nat \ {0} /\ Len(samples) \in Nat
           /\ Len(decs) \in Nat /\ Len(caged) \in Nat
BY CatalogFacts DEF Core, EngineTypeOK, EngineAssumption

\* No component is below zero: an index is at most one behind its list.
LEMMA ToDoIsNat ==
    ASSUME Core, InRange, EngineAssumption
    PROVE  ToDo \in Nat \X Nat \X Nat \X Nat
<1>1. phase \in Phases
  BY DEF Core, EngineTypeOK
<1>2. Cycles - cycle \in Nat
  BY Counters
<1>3. CASE phase = "evaluate"
  <2>1. ToDo = <<Cycles - cycle, 4, Len(samples) + 1 - i, Len(Catalog) - pi>>
    BY <1>3 DEF ToDo
  <2>2. Len(samples) + 1 - i \in Nat /\ Len(Catalog) - pi \in Nat
    BY <1>3, Counters, SMTT(30) DEF InRange
  <2> QED BY <1>2, <2>1, <2>2
<1>4. CASE phase \in {"act", "apply"}
  <2>1. PICK n \in Nat : ToDo = <<Cycles - cycle, 3, Len(decs) + 1 - i, n>>
    BY <1>4 DEF ToDo
  <2>2. Len(decs) + 1 - i \in Nat
    BY <1>4, Counters DEF InRange
  <2> QED BY <1>2, <2>1, <2>2
<1>5. CASE phase = "cage_gc"
  <2>1. ToDo = <<Cycles - cycle, 2, Len(caged) + 1 - i, 0>>
    BY <1>5 DEF ToDo
  <2>2. Len(caged) + 1 - i \in Nat
    BY <1>5, Counters DEF InRange
  <2> QED BY <1>2, <2>1, <2>2
<1>6. CASE phase \in {"idle", "stopped"}
  <2>1. PICK n \in Nat : ToDo = <<Cycles - cycle, n, 0, 0>>
    BY <1>6 DEF ToDo
  <2> QED BY <1>2, <2>1
<1> QED BY <1>1, <1>3, <1>4, <1>5, <1>6 DEF Phases

\* What a step changes of the numbers in ToDo (pg_alert_evaluate).
LEMMA EvaluateMoves ==
    ASSUME Core, InRange, EngineAssumption, Evaluate
    PROVE  InRange' /\ Smaller(ToDo', ToDo)
<1>1. /\ phase = "evaluate" /\ phase' = "evaluate" /\ cycle' = cycle
      /\ samples' = samples /\ i <= Len(samples) /\ NextPair
  BY DEF Evaluate, EvalFrozen, EvalScored, Evaluating
<1>2. InRange'
  BY <1>1, Counters DEF InRange, NextPair
<1>3. /\ ToDo = <<Cycles - cycle, 4, Len(samples) + 1 - i, Len(Catalog) - pi>>
      /\ ToDo' = <<Cycles - cycle, 4, Len(samples) + 1 - i', Len(Catalog) - pi'>>
  BY <1>1 DEF ToDo
<1>4. CASE pi < Len(Catalog)
  <2>1. i' = i /\ pi' = pi + 1
    BY <1>1, <1>4 DEF NextPair
  <2>2. Len(Catalog) - pi' < Len(Catalog) - pi
        /\ Len(Catalog) - pi' \in Int /\ Len(Catalog) - pi \in Int
    BY <2>1, Counters
  <2> QED BY <1>2, <1>3, <2>1, <2>2, SmallerFourth
<1>5. CASE ~(pi < Len(Catalog))
  <2>1. i' = i + 1
    BY <1>1, <1>5 DEF NextPair
  <2>2. Len(samples) + 1 - i' < Len(samples) + 1 - i
        /\ Len(samples) + 1 - i' \in Int /\ Len(samples) + 1 - i \in Int
    BY <2>1, Counters, SMTT(30)
  <2> QED BY <1>2, <1>3, <2>2, SmallerThird
<1> QED BY <1>2, <1>4, <1>5

\* A decision that is done is behind the index (pg_alert_act).
LEMMA DecisionDone ==
    ASSUME Core, InRange, EngineAssumption, phase \in {"act", "apply"},
           i <= Len(decs), phase' = "act", i' = i + 1,
           UNCHANGED <<cycle, decs>>
    PROVE  InRange' /\ Smaller(ToDo', ToDo)
<1>1. InRange'
  BY Counters DEF InRange
<1> DEFINE last == CASE phase = "evaluate" -> Len(Catalog) - pi
                     [] phase = "act"      -> 1
                     [] OTHER              -> 0
<1>2. /\ ToDo = <<Cycles - cycle, 3, Len(decs) + 1 - i, last>>
      /\ ToDo' = <<Cycles - cycle, 3, Len(decs) + 1 - i', 1>>
  BY DEF ToDo
<1>3. Len(decs) + 1 - i' < Len(decs) + 1 - i
      /\ Len(decs) + 1 - i' \in Int /\ Len(decs) + 1 - i \in Int
  BY Counters, SMTT(30)
<1> HIDE DEF last
<1> QED BY <1>1, <1>2, <1>3, SmallerThird

\* A decision is done, or has one step less to go (act_one, execute_action).
LEMMA ActMoves ==
    ASSUME Core, InRange, EngineAssumption, Act \/ Apply
    PROVE  InRange' /\ Smaller(ToDo', ToDo)
<1>1. CASE GuardPasses
  <2>1. /\ phase = "act" /\ phase' = "apply" /\ i <= Len(decs)
        /\ UNCHANGED <<cycle, i, decs>>
    BY <1>1 DEF GuardPasses, Applying, Acting
  <2>2. InRange'
    BY <2>1 DEF InRange
  <2>3. /\ ToDo = <<Cycles - cycle, 3, Len(decs) + 1 - i, 1>>
        /\ ToDo' = <<Cycles - cycle, 3, Len(decs) + 1 - i, 0>>
    BY <2>1 DEF ToDo
  <2> QED BY <2>2, <2>3, SmallerFourth
<1> DEFINE Done == /\ phase \in {"act", "apply"} /\ i <= Len(decs)
                   /\ phase' = "act" /\ i' = i + 1 /\ UNCHANGED <<cycle, decs>>
<1>2. CASE ActSkipped \/ ActDryRun \/ ActLogOnly \/ CageRefused \/ GuardFails
  <2>1. phase = "act" /\ i <= Len(decs)
    BY <1>2 DEF ActSkipped, ActDryRun, ActLogOnly, CageRefused, GuardFails,
                Applying, Acting
  <2>2. phase' = "act" /\ i' = i + 1 /\ UNCHANGED <<cycle, decs>>
    BY <1>2 DEF ActSkipped, ActDryRun, ActLogOnly, CageRefused, GuardFails,
                Skip, Advance
  <2> QED BY <2>1, <2>2, DecisionDone
<1>3. CASE Apply
  <2>1. phase = "apply" /\ i <= Len(decs)
    BY <1>3 DEF Apply, Renice, Stop, KillHeldBack, Kill, CageApplied, CageFailed,
                InRange
  <2>2. phase' = "act" /\ i' = i + 1 /\ UNCHANGED <<cycle, decs>>
    BY <1>3 DEF Apply, Renice, Stop, KillHeldBack, Kill, CageApplied, CageFailed,
                Skip, Advance
  <2> QED BY <2>1, <2>2, DecisionDone
<1> QED BY <1>1, <1>2, <1>3 DEF Act

\* The register gets shorter, or the index goes on (cage_gc, pg_alert_state_gc).
LEMMA GcMoves ==
    ASSUME Core, InRange, EngineAssumption, Gc
    PROVE  InRange' /\ Smaller(ToDo', ToDo)
<1>1. CASE StateGc
  <2>1. /\ phase = "act" /\ phase' = "cage_gc" /\ i' = 1
        /\ UNCHANGED <<cycle, caged>>
    BY <1>1 DEF StateGc
  <2>2. InRange'
    BY <2>1, Counters DEF InRange
  <2>3. /\ ToDo = <<Cycles - cycle, 3, Len(decs) + 1 - i, 1>>
        /\ ToDo' = <<Cycles - cycle, 2, Len(caged) + 1 - 1, 0>>
    BY <2>1 DEF ToDo
  <2> QED BY <2>2, <2>3, SmallerSecond
<1> DEFINE shorter == Len(caged') + 1 - i' < Len(caged) + 1 - i
                      /\ Len(caged') + 1 - i' \in Int
                      /\ Len(caged) + 1 - i \in Int
<1>2. ASSUME phase = "cage_gc", phase' = "cage_gc", cycle' = cycle, shorter
      PROVE  Smaller(ToDo', ToDo)
  <2>1. /\ ToDo = <<Cycles - cycle, 2, Len(caged) + 1 - i, 0>>
        /\ ToDo' = <<Cycles - cycle, 2, Len(caged') + 1 - i', 0>>
    BY <1>2 DEF ToDo
  <2> QED BY <1>2, <2>1, SmallerThird
<1>3. CASE CageGcKeep
  <2>1. /\ phase = "cage_gc" /\ phase' = "cage_gc" /\ i' = i + 1
        /\ i <= Len(caged) /\ UNCHANGED <<cycle, caged>>
    BY <1>3 DEF CageGcKeep, CageGcIter
  <2>2. InRange'
    BY <2>1, Counters DEF InRange
  <2>3. shorter
    BY <2>1, Counters, SMTT(30)
  <2> QED BY <1>2, <2>1, <2>2, <2>3
<1>4. CASE CageGcRelease
  <2>1. /\ phase = "cage_gc" /\ phase' = "cage_gc" /\ i' = i
        /\ i <= Len(caged) /\ cycle' = cycle /\ caged' = swap_with_last(i)
    BY <1>4 DEF CageGcRelease, CageGcIter
  <2>2. Len(caged') = Len(caged) - 1
    BY <2>1, Counters DEF swap_with_last
  <2>3. InRange'
    BY <2>1, <2>2, Counters DEF InRange
  <2>4. shorter
    BY <2>1, <2>2, Counters, SMTT(30)
  <2> QED BY <1>2, <2>1, <2>3, <2>4
<1>5. CASE EndCycle
  <2>1. phase = "cage_gc" /\ phase' = "idle" /\ cycle' = cycle
    BY <1>5 DEF EndCycle
  <2>2. InRange'
    BY <2>1 DEF InRange
  <2>3. /\ ToDo = <<Cycles - cycle, 2, Len(caged) + 1 - i, 0>>
        /\ ToDo' = <<Cycles - cycle, 1, 0, 0>>
    BY <2>1 DEF ToDo
  <2> QED BY <2>2, <2>3, SmallerSecond
<1> QED BY <1>1, <1>3, <1>4, <1>5 DEF Gc

\* Every step that changes something leaves less to do.
LEMMA StepMoves ==
    ASSUME Core, InRange, EngineAssumption, Next
    PROVE  \/ UNCHANGED vars
           \/ InRange' /\ Smaller(ToDo', ToDo)
<1>1. CASE BeginCycle
  <2>1. /\ phase = "idle" /\ phase' = "evaluate" /\ cycle' = cycle + 1
        /\ i' = 1 /\ samples' \in Seq(Samples)
    BY <1>1 DEF BeginCycle, EngineAssumption
  <2>2. InRange'
    BY <2>1 DEF InRange
  <2>3. /\ ToDo = <<Cycles - cycle, 1, 0, 0>>
        /\ ToDo' = <<Cycles - cycle', 4, Len(samples') + 1 - i', Len(Catalog) - pi'>>
    BY <2>1 DEF ToDo
  <2>4. Cycles - cycle' < Cycles - cycle
        /\ Cycles - cycle' \in Int /\ Cycles - cycle \in Int
    BY <2>1, Counters, SMTT(30)
  <2> QED BY <2>2, <2>3, <2>4, SmallerFirst
<1>2. CASE Finish
  <2>1. phase = "idle" /\ phase' = "stopped" /\ cycle' = cycle
    BY <1>2 DEF Finish
  <2>2. InRange'
    BY <2>1 DEF InRange
  <2>3. ToDo = <<Cycles - cycle, 1, 0, 0>> /\ ToDo' = <<Cycles - cycle, 0, 0, 0>>
    BY <2>1 DEF ToDo
  <2> QED BY <2>2, <2>3, SmallerSecond
<1>3. CASE Validate \/ CycleNoMemory
  <2>1. /\ phase = "evaluate" /\ phase' = "act" /\ cycle' = cycle
        /\ i' = 1 /\ Len(decs') \in Nat
    <3>1. CASE Validate
      BY <1>3, <3>1 DEF Validate, Core, EngineTypeOK
    <3>2. CASE CycleNoMemory
      BY <1>3, <3>2 DEF CycleNoMemory
    <3> QED BY <1>3, <3>1, <3>2
  <2>2. InRange'
    BY <2>1 DEF InRange
  <2>3. /\ ToDo = <<Cycles - cycle, 4, Len(samples) + 1 - i, Len(Catalog) - pi>>
        /\ ToDo' = <<Cycles - cycle, 3, Len(decs') + 1 - i', 1>>
    BY <2>1 DEF ToDo
  <2> QED BY <2>2, <2>3, SmallerSecond
<1> QED BY <1>1, <1>2, <1>3, EvaluateMoves, ActMoves, GcMoves DEF Next, Stopped

\* The index of a walk is inside its list, or just behind it.
THEOREM IndexInvariant == Spec => []InRange
<1> USE EngineAssumption
<1>1. Init => InRange
  BY DEF Init, InRange
<1>2. InRange /\ UNCHANGED vars => InRange'
  BY DEF InRange, vars, engine
<1>3. Core /\ InRange /\ [Next]_vars => InRange'
  BY <1>2, StepMoves
<1> QED BY <1>1, <1>3, CoreInvariant, PTL DEF Spec

\* Every step of a run leaves less to do, so every run of the engine has an
\* end, for every number of cycles, processes and policies.
THEOREM RunsMoveOn == Spec => MovesOn
<1> USE EngineAssumption
<1>1. Core /\ InRange /\ [Next]_vars =>
        [Smaller(ToDo', ToDo)]_vars
  BY StepMoves
<1>2. Core /\ InRange => ToDo \in Nat \X Nat \X Nat \X Nat
  BY ToDoIsNat
<1>3. Spec => [](Core /\ InRange)
  BY CoreInvariant, IndexInvariant, PTL
<1>4. Spec => [](ToDo \in Nat \X Nat \X Nat \X Nat)
  BY <1>2, <1>3, PTL
<1>5. (ToDo \in Nat \X Nat \X Nat \X Nat)' /\ [Smaller(ToDo', ToDo)]_vars =>
        [ToDo' \in Nat \X Nat \X Nat \X Nat /\ Smaller(ToDo', ToDo)]_vars
  OBVIOUS
<1> QED BY <1>1, <1>3, <1>4, <1>5, PTL DEF Spec, MovesOn
=============================================================================
