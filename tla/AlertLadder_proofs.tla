------------------------- MODULE AlertLadder_proofs -------------------------
(***************************************************************************)
(* The ladder of the engine for every catalog, every sequence of scans,    *)
(* metrics, acts and failures: alerts rise and fall on whole streaks, acts *)
(* climb one rung at a time, and a rung is spent only by its call.         *)
(***************************************************************************)
EXTENDS AlertEngine_proofs

-----------------------------------------------------------------------------
\* The last zones of a pair, as AlertEngine's Remember keeps them.

Window(p) == IF p.hysteresis_m > p.persistence THEN p.hysteresis_m ELSE p.persistence

Shifted(s, z, p) ==
    IF Len(Append(s, z)) > Window(p) THEN Tail(Append(s, z)) ELSE Append(s, z)

(***************************************************************************)
(* The two counters against the history: as many of the last zones as a    *)
(* counter says are all high, or all low, as far as the history goes back. *)
(***************************************************************************)
Covers(n, s, p) == n <= Len(s) \/ Len(s) = Window(p)

Tailed(st, s, p) ==
    /\ Len(s) <= Window(p)
    /\ Covers(st.persistence, s, p) /\ Covers(st.hysteresis, s, p)
    /\ \A k \in DOMAIN s : k > Len(s) - st.persistence => s[k] = "high"
    /\ \A k \in DOMAIN s : k > Len(s) - st.hysteresis => s[k] = "low"

(***************************************************************************)
(* While an alert is not active its counter of high samples is the whole   *)
(* streak and too short: the zone before it is not high.                   *)
(***************************************************************************)
Rising(st, s, p) ==
    st.active_since = 0 =>
        /\ st.persistence < p.persistence
        /\ st.persistence < Len(s) => s[Len(s) - st.persistence] # "high"

\* The window is long enough for both streaks.
LEMMA WindowFacts ==
    ASSUME NEW p \in Policies
    PROVE  /\ Window(p) \in Nat \ {0}
           /\ Window(p) >= p.persistence /\ Window(p) >= p.hysteresis_m
BY PolicyFields DEF Window

\* What the history is after one more zone.
LEMMA ShiftedFacts ==
    ASSUME NEW p \in Policies, NEW s \in Seq(Zones), NEW z \in Zones,
           Len(s) <= Window(p)
    PROVE  LET t == Shifted(s, z, p)
           IN  /\ t \in Seq(Zones) /\ Len(t) \in Nat \ {0} /\ Len(t) <= Window(p)
               /\ Len(t) = Len(s) + 1 \/ (Len(t) = Len(s) /\ Len(t) = Window(p))
               /\ t[Len(t)] = z
               /\ \A k \in 1 .. Len(t) - 1 :
                    /\ k + (Len(s) + 1 - Len(t)) \in DOMAIN s
                    /\ t[k] = s[k + (Len(s) + 1 - Len(t))]
<1> DEFINE a == Append(s, z)
<1>1. /\ a \in Seq(Zones) /\ Len(a) = Len(s) + 1 /\ a[Len(s) + 1] = z
      /\ \A k \in 1 .. Len(s) : a[k] = s[k]
  OBVIOUS
<1>2. Window(p) \in Nat \ {0} /\ Len(s) \in Nat
  BY WindowFacts
<1>3. CASE Len(a) > Window(p)
  <2>1. Shifted(s, z, p) = Tail(a)
    BY <1>3 DEF Shifted
  <2>2. Len(s) = Window(p)
    BY <1>1, <1>2, <1>3
  <2>3. a # <<>>
    BY <1>1, <1>2
  <2> HIDE DEF a
  <2>4. /\ Tail(a) \in Seq(Zones) /\ Len(Tail(a)) = Len(s)
        /\ \A k \in 1 .. Len(s) : Tail(a)[k] = a[k + 1]
    BY <1>1, <2>3
  <2> QED BY <1>1, <1>2, <2>1, <2>2, <2>4
<1>4. CASE ~(Len(a) > Window(p))
  <2>1. Shifted(s, z, p) = a
    BY <1>4 DEF Shifted
  <2> HIDE DEF a
  <2> QED BY <1>1, <1>2, <1>4, <2>1
<1> QED BY <1>3, <1>4

\* The three outcomes of apply_zone, field by field.
LEMMA ZoneFields ==
    ASSUME NEW st \in AlertStates, NEW p \in Policies, NEW m \in Int, NEW t
    PROVE  LET n == apply_zone(st, p, m, t)
           IN  /\ zone(p, m) \in Zones
               /\ zone(p, m) = "high" =>
                    /\ n.persistence = st.persistence + 1 /\ n.hysteresis = 0
                    /\ n.active_since = activation(st, p, t)
               /\ zone(p, m) = "low" =>
                    /\ n.persistence = 0 /\ n.hysteresis = st.hysteresis + 1
                    /\ n.active_since = st.active_since
               /\ zone(p, m) = "band" =>
                    /\ n.persistence = 0 /\ n.hysteresis = 0
                    /\ n.active_since = st.active_since
               /\ n.level = st.level /\ n.cooldown_until = st.cooldown_until
               /\ n.deactivated = st.deactivated
<1>1. zone(p, m) \in Zones
  BY DEF zone, Zones
<1>2. CASE zone(p, m) = "high"
  <2>1. apply_zone(st, p, m, t) = on_high(st, p, t)
    BY <1>2 DEF apply_zone
  <2> QED BY <1>2, <2>1 DEF on_high, AlertStates, Zones
<1>3. CASE zone(p, m) = "low"
  <2>1. apply_zone(st, p, m, t) = on_low(st)
    BY <1>3 DEF apply_zone
  <2> QED BY <1>3, <2>1 DEF on_low, AlertStates, Zones
<1>4. CASE zone(p, m) = "band"
  <2>1. apply_zone(st, p, m, t) = on_band(st)
    BY <1>4 DEF apply_zone
  <2> QED BY <1>4, <2>1 DEF on_band, AlertStates, Zones
<1> QED BY <1>1, <1>2, <1>3, <1>4 DEF Zones

\* A sample moves the counters as it moves the history (apply_zone).
LEMMA ZoneTailed ==
    ASSUME NEW st \in AlertStates, NEW p \in Policies, NEW m \in Int, NEW t,
           NEW s \in Seq(Zones), Tailed(st, s, p)
    PROVE  Tailed(apply_zone(st, p, m, t), Shifted(s, zone(p, m), p), p)
<1> DEFINE n == apply_zone(st, p, m, t)
           z == zone(p, m)
           r == Shifted(s, z, p)
<1>1. z \in Zones /\ Window(p) \in Nat \ {0} /\ Len(s) \in Nat /\ Len(s) <= Window(p)
  BY ZoneFields, WindowFacts DEF Tailed
<1>2. st.persistence \in Nat /\ st.hysteresis \in Nat
  BY StateFields
<1>3. /\ r \in Seq(Zones) /\ Len(r) \in Nat \ {0} /\ Len(r) <= Window(p)
      /\ Len(r) = Len(s) + 1 \/ (Len(r) = Len(s) /\ Len(r) = Window(p))
      /\ r[Len(r)] = z
      /\ \A k \in 1 .. Len(r) - 1 : /\ k + (Len(s) + 1 - Len(r)) \in DOMAIN s
                                  /\ r[k] = s[k + (Len(s) + 1 - Len(r))]
  BY <1>1, ShiftedFacts
<1> HIDE DEF r, z, n
<1>4. ASSUME NEW c \in Nat, NEW x, Covers(c, s, p),
             \A k \in DOMAIN s : k > Len(s) - c => s[k] = x
      PROVE  /\ Covers(0, r, p) /\ \A k \in DOMAIN r : k > Len(r) - 0 => r[k] = x
             /\ z = x => /\ Covers(c + 1, r, p)
                         /\ \A k \in DOMAIN r : k > Len(r) - (c + 1) => r[k] = x
  <2>1. Covers(0, r, p) /\ Covers(c + 1, r, p)
    BY <1>1, <1>3, <1>4 DEF Covers
  <2>2. \A k \in DOMAIN r : k > Len(r) - 0 => r[k] = x
    BY <1>3
  <2>3. ASSUME z = x, NEW k \in DOMAIN r, k > Len(r) - (c + 1)
        PROVE  r[k] = x
    <3>1. CASE k = Len(r)
      BY <1>3, <2>3, <3>1
    <3>2. CASE k # Len(r)
      <4>1. k \in 1 .. Len(r) - 1
        BY <1>3, <3>2
      <4>2. k + (Len(s) + 1 - Len(r)) > Len(s) - c
        BY <1>1, <1>3, <2>3, <4>1
      <4> QED BY <1>3, <1>4, <4>1, <4>2
    <3> QED BY <3>1, <3>2
  <2> QED BY <2>1, <2>2, <2>3
<1>5. /\ Covers(st.persistence, s, p) /\ Covers(st.hysteresis, s, p)
      /\ \A k \in DOMAIN s : k > Len(s) - st.persistence => s[k] = "high"
      /\ \A k \in DOMAIN s : k > Len(s) - st.hysteresis => s[k] = "low"
  BY DEF Tailed
<1>6. \/ z = "high" /\ n.persistence = st.persistence + 1 /\ n.hysteresis = 0
      \/ z = "low" /\ n.persistence = 0 /\ n.hysteresis = st.hysteresis + 1
      \/ n.persistence = 0 /\ n.hysteresis = 0
  BY <1>1, ZoneFields DEF z, n, Zones
<1>7. /\ Covers(n.persistence, r, p)
      /\ \A k \in DOMAIN r : k > Len(r) - n.persistence => r[k] = "high"
  BY <1>2, <1>4, <1>5, <1>6
<1>8. /\ Covers(n.hysteresis, r, p)
      /\ \A k \in DOMAIN r : k > Len(r) - n.hysteresis => r[k] = "low"
  BY <1>2, <1>4, <1>5, <1>6
<1> QED BY <1>3, <1>7, <1>8 DEF Tailed, n, r, z

\* A counter put back to zero covers nothing (maybe_deactivate, act_one).
LEMMA ResetTailed ==
    ASSUME NEW st \in AlertStates, NEW n \in AlertStates, NEW p \in Policies,
           NEW s \in Seq(Zones), Tailed(st, s, p),
           n.persistence = 0, n.hysteresis \in {0, st.hysteresis}
    PROVE  Tailed(n, s, p)
<1>1. Len(s) \in Nat /\ Window(p) \in Nat
  BY WindowFacts
<1> QED BY <1>1 DEF Tailed, Covers

(***************************************************************************)
(* A sample of an alert that is not active either activates it, on the     *)
(* last of N high ones, or leaves its counter the whole streak             *)
(* (apply_zone).                                                           *)
(***************************************************************************)
LEMMA ZoneRising ==
    ASSUME NEW st \in AlertStates, NEW p \in Policies, NEW m \in Int, NEW t \in Nat \ {0},
           NEW s \in Seq(Zones), Len(s) <= Window(p), Rising(st, s, p)
    PROVE  Rising(apply_zone(st, p, m, t), Shifted(s, zone(p, m), p), p)
<1> DEFINE n == apply_zone(st, p, m, t)
           z == zone(p, m)
           r == Shifted(s, z, p)
<1>1. /\ z \in Zones /\ Window(p) \in Nat \ {0} /\ Len(s) \in Nat
      /\ Window(p) >= p.persistence /\ p.persistence \in Nat \ {0}
  <2>1. z \in Zones
    BY ZoneFields
  <2>2. Window(p) \in Nat \ {0} /\ Window(p) >= p.persistence
    BY WindowFacts
  <2>3. p.persistence \in Nat \ {0}
    BY PolicyFields
  <2> QED BY <2>1, <2>2, <2>3
<1>2. st.persistence \in Nat /\ st.active_since \in Nat
  BY StateFields
<1>3. /\ r \in Seq(Zones) /\ Len(r) \in Nat \ {0} /\ Len(r) <= Window(p)
      /\ Len(r) = Len(s) + 1 \/ (Len(r) = Len(s) /\ Len(r) = Window(p))
      /\ r[Len(r)] = z
      /\ \A k \in 1 .. Len(r) - 1 : /\ k + (Len(s) + 1 - Len(r)) \in DOMAIN s
                                  /\ r[k] = s[k + (Len(s) + 1 - Len(r))]
  BY <1>1, ShiftedFacts
<1>4. CASE z = "high"
  <2>1. n.persistence = st.persistence + 1 /\ n.active_since = activation(st, p, t)
    BY <1>4, ZoneFields
  <2> SUFFICES ASSUME n.active_since = 0 PROVE Rising(n, r, p)
    BY DEF Rising
  <2>2. st.active_since = 0 /\ st.persistence + 1 # p.persistence
    BY <2>1 DEF activation
  <2>3. /\ st.persistence < p.persistence
        /\ st.persistence < Len(s) => s[Len(s) - st.persistence] # "high"
    BY <2>2 DEF Rising
  <2>4. n.persistence < p.persistence
    BY <1>1, <1>2, <2>1, <2>2, <2>3
  <2>5. ASSUME n.persistence < Len(r)
        PROVE  r[Len(r) - n.persistence] # "high"
    <3>1. Len(r) - n.persistence \in 1 .. Len(r) - 1
      BY <1>2, <1>3, <2>1, <2>5, SMTT(30)
    <3>2. r[Len(r) - n.persistence] = s[Len(s) - st.persistence]
      <4>1. (Len(r) - n.persistence) + (Len(s) + 1 - Len(r)) = Len(s) - st.persistence
        BY <1>1, <1>2, <1>3, <2>1
      <4> HIDE DEF n, r, z
      <4> QED BY <1>3, <3>1, <4>1
    <3>3. st.persistence < Len(s)
      BY <1>1, <1>2, <1>3, <2>1, <2>5
    <3> QED BY <2>3, <3>2, <3>3
  <2> QED BY <2>4, <2>5 DEF Rising
<1>5. CASE z # "high"
  <2>1. n.persistence = 0
    BY <1>1, <1>5, ZoneFields DEF Zones
  <2>2. Len(r) - 0 = Len(r) /\ r[Len(r)] # "high"
    BY <1>3, <1>5
  <2>3. Rising(n, r, p)
    <3> HIDE DEF n, r, z
    <3> QED BY <1>1, <2>1, <2>2 DEF Rising
  <2> QED BY <2>3
<1> QED BY <1>4, <1>5

-----------------------------------------------------------------------------
(***************************************************************************)
(* The invariant. For every pair the counters follow the history of zones, *)
(* and the rung and the flag follow the last act that counted; a decision  *)
(* that is still to be acted on has the present rung of an active alert    *)
(* outside its cooldown, and no pair has two.                              *)
(***************************************************************************)
Streaks == \A pr \in Pairs : Tailed(states[pr], recent[pr], PolicyOf(pr))

Climbed(st, a, p) ==
    /\ ~a.any => st.level = 0
    /\ a.any => /\ st.level = IF a.repeat THEN a.level ELSE a.level + 1
                /\ st.cooldown_until = a.at + p.cooldown
    /\ a.fell = st.deactivated

Ladders == \A pr \in Pairs : Climbed(states[pr], acted[pr], PolicyOf(pr))

OnRung(d) ==
    /\ states[PairOf(d)].active_since # 0
    /\ d.level = states[PairOf(d)].level
    /\ now >= states[PairOf(d)].cooldown_until

Pending ==
    phase \in {"evaluate", "act", "apply"} =>
        \A k \in DOMAIN decs : phase = "evaluate" \/ k >= i => OnRung(decs[k])

OnePerPair ==
    \A k, l \in DOMAIN decs : PairOf(decs[k]) = PairOf(decs[l]) => k = l

KindOfRung ==
    \A k \in DOMAIN decs :
        decs[k].kind = PolicyOf(PairOf(decs[k])).actions[decs[k].level + 1]

Ladder == Streaks /\ Ladders /\ Pending /\ OnePerPair /\ KindOfRung

\* Where every policy needs a low sample to fall. The loader lets hysteresis_m = 0
\* through, and then a streak is missed (run zero_hysteresis).
Lasting == \A n \in PolicyIndex : Catalog[n].hysteresis_m # 0

Rises == \A pr \in Pairs : Rising(states[pr], recent[pr], PolicyOf(pr))

\* The decisions name pairs of the engine.
LEMMA DecsFacts ==
    ASSUME Core, EngineAssumption
    PROVE  /\ decs \in Seq(Decisions) /\ Len(decs) \in Nat /\ DOMAIN decs = 1 .. Len(decs)
           /\ \A k \in DOMAIN decs : decs[k] \in Decisions /\ PairOf(decs[k]) \in Pairs
<1>1. decs \in Seq(Decisions)
  BY DEF Core, EngineTypeOK
<1>2. \A k \in DOMAIN decs : decs[k] \in Decisions
  BY <1>1
<1>3. \A k \in DOMAIN decs : decs[k].id \in Ids /\ decs[k].policy \in PolicyIndex
  BY <1>2 DEF Decisions
<1> QED BY <1>1, <1>2, <1>3, CatalogFacts DEF PairOf

\* Steps that change no record of a pair.
LEMMA StillStreaks ==
    ASSUME Streaks, Ladders, UNCHANGED <<states, recent, acted>>
    PROVE  Streaks' /\ Ladders'
BY DEF Streaks, Ladders, PolicyOf, Pairs, Ids, PolicyIndex

\* The same, with the list as it was and the walk over it going on: frozen pairs,
\* skipped decisions, the identity check, the collections.
LEMMA StillLadder ==
    ASSUME Core, EngineAssumption, Ladder, UNCHANGED <<states, recent, acted, decs, now>>,
           phase' \in {"evaluate", "act", "apply"} =>
                /\ phase \in {"evaluate", "act", "apply"}
                /\ phase = "evaluate" <=> phase' = "evaluate"
                /\ phase # "evaluate" => i' \in {i, i + 1}
    PROVE  Ladder'
<1>1. Streaks' /\ Ladders'
  BY StillStreaks DEF Ladder
<1>2. i \in Nat /\ DOMAIN decs \subseteq Nat
  BY DecsFacts DEF Core, EngineTypeOK
<1>3. Pending'
  BY <1>2 DEF Ladder, Pending, OnRung, PairOf
<1>4. OnePerPair' /\ KindOfRung'
  BY DEF Ladder, OnePerPair, KindOfRung, PairOf, PolicyOf
<1> QED BY <1>1, <1>3, <1>4 DEF Ladder

\* The same, with no list: a new cycle, or one without memory.
LEMMA EmptyLadder ==
    ASSUME Streaks', Ladders', decs' = <<>>
    PROVE  Ladder'
BY DEF Ladder, Pending, OnePerPair, KindOfRung

\* validate changes nothing of a decision but its reason to be skipped.
LEMMA ValidateLadder ==
    ASSUME Core, EngineAssumption, Ladder, Validate
    PROVE  Ladder'
<1>1. UNCHANGED <<states, recent, acted, now>> /\ phase = "evaluate"
  BY DEF Validate, ringvars
<1>2. Streaks' /\ Ladders'
  BY <1>1, StillStreaks DEF Ladder
<1>3. /\ DOMAIN decs' = DOMAIN decs
      /\ \A k \in DOMAIN decs : /\ decs'[k].id = decs[k].id
                               /\ decs'[k].policy = decs[k].policy
                               /\ decs'[k].level = decs[k].level
                               /\ decs'[k].kind = decs[k].kind
  BY DecsFacts DEF Validate, Decisions
<1>4. Pending'
  BY <1>1, <1>3 DEF Ladder, Pending, OnRung, PairOf
<1>5. OnePerPair' /\ KindOfRung'
  BY <1>3 DEF Ladder, OnePerPair, KindOfRung, PairOf, PolicyOf
<1> QED BY <1>2, <1>4, <1>5 DEF Ladder

\* What an act that counts does to the record of its pair (advance_after_act).
LEMMA AdvanceFields ==
    ASSUME NEW st \in AlertStates, NEW p, NEW t
    PROVE  LET n == advance_after_act(st, p, t)
           IN  /\ n.persistence = 0 /\ n.hysteresis = st.hysteresis
               /\ n.active_since = st.active_since /\ ~n.deactivated
               /\ n.cooldown_until = t + p.cooldown
               /\ n.level = IF st.deactivated THEN st.level ELSE st.level + 1
BY DEF advance_after_act, AlertStates

\* An act that counts spends the rung its decision has, and no other decision
\* is on its pair (act_one).
LEMMA AdvanceLadder ==
    ASSUME Core, now \in Nat \ {0}, EngineAssumption, Ladder,
           phase \in {"act", "apply"}, i \in DOMAIN decs,
           NEW label, NEW call \in Calls, Advance(label, call), now' = now
    PROVE  Ladder'
<1> DEFINE pr == PairOf(dec)
           p  == PolicyOf(pr)
           st == states[pr]
           new == advance_after_act(st, p, now)
           rec == [any |-> TRUE, level |-> dec.level, at |-> now,
                   repeat |-> acted[pr].fell, fell |-> FALSE]
<1>1. EngineTypeOK /\ Armed
  BY DEF Core
<1>2. pr \in Pairs /\ st \in AlertStates /\ p \in Policies /\ dec.level \in Nat
  BY <1>1, DecFacts
<1>3. new \in AlertStates
  BY <1>1, <1>2, AdvanceKeepsInv DEF Armed
<1>4. /\ states' = [states EXCEPT ![pr] = new] /\ acted' = [acted EXCEPT ![pr] = rec]
      /\ UNCHANGED <<recent, decs>> /\ phase' = "act" /\ i' = i + 1
  BY DEF Advance
<1>5. /\ new.persistence = 0 /\ new.hysteresis = st.hysteresis
      /\ new.active_since = st.active_since /\ ~new.deactivated
      /\ new.cooldown_until = now + p.cooldown
      /\ new.level = IF st.deactivated THEN st.level ELSE st.level + 1
      /\ new.deactivated \in BOOLEAN
  BY <1>2, <1>3, AdvanceFields, StateFields, SMTT(30)
<1>6. recent[pr] \in Seq(Zones) /\ states \in [Pairs -> AlertStates]
      /\ acted \in [Pairs -> ActRecords]
  BY <1>1, <1>2 DEF EngineTypeOK
<1>7. OnRung(dec)
  BY <1>1 DEF Ladder, Pending, dec, EngineTypeOK
<1>8. /\ rec.any /\ rec.level = dec.level /\ rec.at = now /\ ~rec.fell
      /\ rec.repeat = acted[pr].fell /\ rec.fell = FALSE
  OBVIOUS
<1> HIDE DEF pr, p, st, new, rec
<1>9. Streaks'
  <2> SUFFICES ASSUME NEW x \in Pairs PROVE Tailed(states'[x], recent'[x], PolicyOf(x))
    BY DEF Streaks, PolicyOf, Pairs, Ids, PolicyIndex
  <2>1. Tailed(states[x], recent[x], PolicyOf(x))
    BY DEF Ladder, Streaks
  <2>2. CASE x = pr
    <3>1. Tailed(new, recent[pr], p)
      BY <1>2, <1>3, <1>5, <1>6, <2>1, <2>2, ResetTailed DEF st, p
    <3> QED BY <1>2, <1>4, <1>6, <2>2, <3>1 DEF p
  <2> QED BY <1>4, <1>6, <2>1, <2>2
<1>10. Ladders'
  <2> SUFFICES ASSUME NEW x \in Pairs PROVE Climbed(states'[x], acted'[x], PolicyOf(x))
    BY DEF Ladders, PolicyOf, Pairs, Ids, PolicyIndex
  <2>1. Climbed(states[x], acted[x], PolicyOf(x))
    BY DEF Ladder, Ladders
  <2>2. CASE x = pr
    <3>1. dec.level = st.level /\ acted[pr].fell = st.deactivated
      BY <1>7, <2>1, <2>2 DEF OnRung, Climbed, st, pr
    <3>2. Climbed(new, rec, p)
      BY <1>5, <1>8, <3>1 DEF Climbed
    <3> QED BY <1>2, <1>4, <1>6, <2>2, <3>2 DEF p
  <2> QED BY <1>4, <1>6, <2>1, <2>2
<1>11. Pending'
  <2> SUFFICES ASSUME NEW k \in DOMAIN decs, k >= i + 1 PROVE OnRung(decs[k])'
    BY <1>4 DEF Pending
  <2>1. k \in Nat /\ i \in Nat /\ k # i /\ k >= i /\ PairOf(decs[k]) \in Pairs
    BY <1>1, DecsFacts DEF EngineTypeOK
  <2>2. PairOf(decs[k]) # pr
    BY <2>1 DEF Ladder, OnePerPair, dec, pr
  <2>3. OnRung(decs[k])
    BY <2>1 DEF Ladder, Pending
  <2>4. states'[PairOf(decs[k])] = states[PairOf(decs[k])]
    BY <1>4, <1>6, <2>1, <2>2
  <2> QED BY <1>4, <2>3, <2>4 DEF OnRung, PairOf
<1>12. OnePerPair' /\ KindOfRung'
  BY <1>4 DEF Ladder, OnePerPair, KindOfRung, PairOf, PolicyOf
<1> QED BY <1>9, <1>10, <1>11, <1>12 DEF Ladder

\* A pair that is collected starts again from nothing (pg_alert_state_gc).
LEMMA StateGcLadder ==
    ASSUME Core, EngineAssumption, Ladder, StateGc
    PROVE  Ladder'
<1>1. EngineTypeOK
  BY DEF Core
<1> PICK kept \in SUBSET present :
            /\ states' = [pr \in Pairs |->
                            IF pr[1] \in kept THEN states[pr] ELSE ZeroState]
            /\ recent' = [pr \in Pairs |->
                            IF pr[1] \in kept THEN recent[pr] ELSE <<>>]
            /\ acted' = [pr \in Pairs |->
                            IF pr[1] \in kept THEN acted[pr] ELSE Never]
  BY <1>1, StateGcFacts
<1>2. ASSUME NEW p \in Policies
      PROVE  Tailed(ZeroState, <<>>, p) /\ Climbed(ZeroState, Never, p)
  BY WindowFacts DEF Tailed, Covers, Climbed, ZeroState, Never
<1>3. Streaks'
  BY <1>2, CatalogFacts DEF Ladder, Streaks, PolicyOf, Pairs, Ids, PolicyIndex
<1>4. Ladders'
  BY <1>2, CatalogFacts DEF Ladder, Ladders, PolicyOf, Pairs, Ids, PolicyIndex
<1> QED BY <1>3, <1>4, EmptyLadder DEF StateGc

\* A sample either lets the alert fall, or moves its record by its zone and may
\* emit a decision (eval_one).
LEMMA ScoredFacts ==
    ASSUME Core, now \in Nat \ {0}, EngineAssumption, EvalScored
    PROVE  /\ CurPair \in Pairs /\ Catalog[pi] \in Policies
           /\ PolicyOf(CurPair) = Catalog[pi]
           /\ states[CurPair] \in AlertStates /\ recent[CurPair] \in Seq(Zones)
           /\ UNCHANGED <<phase, now>> /\ phase = "evaluate"
           /\ \E m \in Int :
                LET p  == Catalog[pi]
                    st == apply_zone(states[CurPair], p, m, now)
                IN  /\ st \in AlertStates /\ StateInv(st, p)
                    /\ recent' = [recent EXCEPT ![CurPair] =
                                    Shifted(recent[CurPair], zone(p, m), p)]
                    /\ \/ /\ must_deactivate(st, p)
                          /\ states' = [states EXCEPT ![CurPair] = deactivate(st)]
                          /\ acted' = [acted EXCEPT ![CurPair].fell = TRUE]
                          /\ UNCHANGED decs
                       \/ /\ ~must_deactivate(st, p)
                          /\ states' = [states EXCEPT ![CurPair] = st]
                          /\ decs' = IF should_emit(st, p, now)
                                     THEN Append(decs, decision(CurPair, st))
                                     ELSE decs
                          /\ UNCHANGED acted
<1> DEFINE p == Catalog[pi]
           st(m) == apply_zone(states[CurPair], p, m, now)
<1>1. EngineTypeOK /\ Armed /\ Evaluating /\ phase = "evaluate"
  BY DEF Core, EvalScored, Evaluating
<1>2. CurPair \in Pairs /\ p \in Policies /\ PolicyOf(CurPair) = p
  BY <1>1, CurPairFacts
<1>3. /\ states[CurPair] \in AlertStates /\ StateInv(states[CurPair], p)
      /\ recent[CurPair] \in Seq(Zones)
  BY <1>1, <1>2 DEF EngineTypeOK, Armed
<1>4. UNCHANGED <<phase, now>>
  BY DEF EvalScored, ringvars
<1> PICK m \in Readings :
        /\ recent' = Remember(CurPair, zone(p, m))
        /\ \/ /\ must_deactivate(st(m), p)
              /\ states' = [states EXCEPT ![CurPair] = deactivate(st(m))]
              /\ acted' = [acted EXCEPT ![CurPair].fell = TRUE]
              /\ UNCHANGED decs
           \/ /\ ~must_deactivate(st(m), p)
              /\ states' = [states EXCEPT ![CurPair] = st(m)]
              /\ decs' = IF should_emit(st(m), p, now)
                         THEN Append(decs, decision(CurPair, st(m))) ELSE decs
              /\ UNCHANGED acted
  BY DEF EvalScored
<1>5. m \in Int
  BY DEF EngineAssumption
<1>6. st(m) \in AlertStates /\ StateInv(st(m), p)
  BY <1>2, <1>3, <1>5, ZoneKeepsInv
<1>7. recent' = [recent EXCEPT ![CurPair] = Shifted(recent[CurPair], zone(p, m), p)]
  BY <1>2 DEF Remember, Shifted, LastZones, Window
<1> QED BY <1>1, <1>2, <1>3, <1>4, <1>5, <1>6, <1>7

\* What the fall of an alert does to its record (maybe_deactivate).
LEMMA FallFields ==
    ASSUME NEW st \in AlertStates
    PROVE  LET n == deactivate(st)
           IN  /\ n \in AlertStates
               /\ n.persistence = 0 /\ n.hysteresis = 0 /\ n.active_since = 0
               /\ n.level = st.level /\ n.cooldown_until = st.cooldown_until
               /\ n.deactivated
BY StateFields DEF deactivate, AlertStates

\* The list after one more decision.
LEMMA AppendFacts ==
    ASSUME NEW S, NEW s \in Seq(S), NEW d \in S
    PROVE  /\ DOMAIN Append(s, d) = 1 .. Len(s) + 1
           /\ \A k \in 1 .. Len(s) : Append(s, d)[k] = s[k]
           /\ Append(s, d)[Len(s) + 1] = d
OBVIOUS

\* A sample keeps the streaks against the history and the rung against the last
\* act, and emits only on the present rung of an active alert (eval_one).
LEMMA EvalScoredLadder ==
    ASSUME Core, Safe, now \in Nat \ {0}, EngineAssumption, Ladder, EvalScored
    PROVE  Ladder'
<1> DEFINE p == Catalog[pi]
           st(m) == apply_zone(states[CurPair], p, m, now)
<1>1. /\ CurPair \in Pairs /\ p \in Policies /\ PolicyOf(CurPair) = p
      /\ states[CurPair] \in AlertStates /\ recent[CurPair] \in Seq(Zones)
      /\ UNCHANGED <<phase, now>> /\ phase = "evaluate"
  BY ScoredFacts
<1>2. /\ states \in [Pairs -> AlertStates] /\ recent \in [Pairs -> Seq(Zones)]
      /\ acted \in [Pairs -> ActRecords]
  BY DEF Core, EngineTypeOK
<1> PICK m \in Int :
        /\ st(m) \in AlertStates /\ StateInv(st(m), p)
        /\ recent' = [recent EXCEPT ![CurPair] =
                        Shifted(recent[CurPair], zone(p, m), p)]
        /\ \/ /\ states' = [states EXCEPT ![CurPair] = deactivate(st(m))]
              /\ acted' = [acted EXCEPT ![CurPair].fell = TRUE]
              /\ UNCHANGED decs
           \/ /\ states' = [states EXCEPT ![CurPair] = st(m)]
              /\ decs' = IF should_emit(st(m), p, now)
                         THEN Append(decs, decision(CurPair, st(m))) ELSE decs
              /\ UNCHANGED acted
  BY ScoredFacts
<1> DEFINE h == Shifted(recent[CurPair], zone(p, m), p)
<1>3. Tailed(states[CurPair], recent[CurPair], p)
  BY <1>1 DEF Ladder, Streaks
<1>4. Tailed(st(m), h, p) /\ h \in Seq(Zones)
  <2>1. Len(recent[CurPair]) <= Window(p)
    BY <1>3 DEF Tailed
  <2>2. zone(p, m) \in Zones
    BY DEF zone, Zones
  <2> QED BY <1>1, <1>3, <2>1, <2>2, ZoneTailed, ShiftedFacts
<1>5. /\ st(m).level = states[CurPair].level
      /\ st(m).cooldown_until = states[CurPair].cooldown_until
      /\ st(m).deactivated = states[CurPair].deactivated
  BY <1>1, ZoneFields
<1>6. Climbed(states[CurPair], acted[CurPair], p)
  BY <1>1 DEF Ladder, Ladders
<1> DEFINE fallen == [acted[CurPair] EXCEPT !.fell = TRUE]
<1>7. fallen.any = acted[CurPair].any /\ fallen.level = acted[CurPair].level
      /\ fallen.at = acted[CurPair].at /\ fallen.repeat = acted[CurPair].repeat
      /\ fallen.fell
  BY <1>1, <1>2 DEF ActRecords
<1>8. PICK new \in AlertStates, a \in {acted[CurPair], fallen} :
        /\ states' = [states EXCEPT ![CurPair] = new]
        /\ acted' = [acted EXCEPT ![CurPair] = a]
        /\ Tailed(new, h, p) /\ Climbed(new, a, p)
        /\ \/ UNCHANGED decs
           \/ /\ new = st(m) /\ should_emit(new, p, now) /\ StateInv(new, p)
              /\ decs' = Append(decs, decision(CurPair, new))
  <2>1. CASE /\ states' = [states EXCEPT ![CurPair] = deactivate(st(m))]
             /\ acted' = [acted EXCEPT ![CurPair].fell = TRUE]
             /\ UNCHANGED decs
    <3>1. acted' = [acted EXCEPT ![CurPair] = fallen]
      BY <1>2, <2>1
    <3>2. LET n == deactivate(st(m))
          IN  /\ n \in AlertStates
              /\ n.persistence = 0 /\ n.hysteresis = 0
              /\ n.level = st(m).level /\ n.cooldown_until = st(m).cooldown_until
              /\ n.deactivated
      BY FallFields
    <3> HIDE DEF st, h, fallen
    <3>3. Tailed(deactivate(st(m)), h, p)
      BY <1>1, <1>4, <3>2, ResetTailed
    <3>4. deactivate(st(m)).deactivated \in BOOLEAN
      BY <3>2, StateFields
    <3>5. fallen.fell = deactivate(st(m)).deactivated
      <4>1. acted[CurPair] \in ActRecords /\ fallen.fell \in BOOLEAN
        BY <1>1, <1>2 DEF fallen, ActRecords
      <4> QED BY <1>7, <3>2, <3>4, <4>1
    <3>6. Climbed(deactivate(st(m)), fallen, p)
      BY <1>5, <1>6, <1>7, <3>2, <3>5 DEF Climbed
    <3> QED BY <2>1, <3>1, <3>2, <3>3, <3>6
  <2>2. CASE /\ states' = [states EXCEPT ![CurPair] = st(m)]
             /\ decs' = IF should_emit(st(m), p, now)
                        THEN Append(decs, decision(CurPair, st(m))) ELSE decs
             /\ UNCHANGED acted
    <3> HIDE DEF st, h, fallen
    <3>1. acted' = [acted EXCEPT ![CurPair] = acted[CurPair]]
      BY <1>2, <2>2
    <3>2. Climbed(st(m), acted[CurPair], p)
      BY <1>5, <1>6 DEF Climbed
    <3> QED BY <1>4, <2>2, <3>1, <3>2
  <2> QED BY <2>1, <2>2
<1>9. recent' = [recent EXCEPT ![CurPair] = h]
  OBVIOUS
<1> HIDE DEF h, fallen
<1>10. Streaks'
  <2> SUFFICES ASSUME NEW x \in Pairs PROVE Tailed(states'[x], recent'[x], PolicyOf(x))
    BY DEF Streaks, PolicyOf, Pairs, Ids, PolicyIndex
  <2>1. Tailed(states[x], recent[x], PolicyOf(x))
    BY DEF Ladder, Streaks
  <2> QED BY <1>1, <1>2, <1>8, <1>9, <2>1
<1>11. Ladders'
  <2> SUFFICES ASSUME NEW x \in Pairs PROVE Climbed(states'[x], acted'[x], PolicyOf(x))
    BY DEF Ladders, PolicyOf, Pairs, Ids, PolicyIndex
  <2>1. Climbed(states[x], acted[x], PolicyOf(x))
    BY DEF Ladder, Ladders
  <2> QED BY <1>1, <1>2, <1>8, <2>1
<1>12. /\ DOMAIN decs = 1 .. Len(decs) /\ Len(decs) \in Nat /\ decs \in Seq(Decisions)
       /\ \A k \in DOMAIN decs : PairOf(decs[k]) \in Pairs
       /\ \A k \in DOMAIN decs : PairOf(decs[k]) # CurPair
  BY DecsFacts, CurPairIsNew DEF Safe, EvalScored
<1> DEFINE Held(d) == /\ states'[PairOf(d)].active_since # 0
                      /\ d.level = states'[PairOf(d)].level
                      /\ now >= states'[PairOf(d)].cooldown_until
           Kinded(d) == d.kind = PolicyOf(PairOf(d)).actions[d.level + 1]
<1>13. \A k \in DOMAIN decs : Held(decs[k]) /\ Kinded(decs[k])
  <2>1. \A k \in DOMAIN decs : OnRung(decs[k]) /\ Kinded(decs[k])
    BY <1>1 DEF Ladder, Pending, KindOfRung
  <2>2. \A k \in DOMAIN decs : states'[PairOf(decs[k])] = states[PairOf(decs[k])]
    BY <1>2, <1>8, <1>12
  <2> QED BY <2>1, <2>2 DEF OnRung
<1>14. /\ \A k \in DOMAIN decs' : Held(decs'[k]) /\ Kinded(decs'[k])
       /\ \A k, l \in DOMAIN decs' : PairOf(decs'[k]) = PairOf(decs'[l]) => k = l
  <2>1. CASE UNCHANGED decs
    BY <1>13, <2>1 DEF Ladder, OnePerPair
  <2>2. CASE /\ should_emit(new, p, now) /\ StateInv(new, p)
             /\ decs' = Append(decs, decision(CurPair, new))
    <3> DEFINE d == decision(CurPair, new)
    <3>1. PairOf(d) = CurPair /\ d.level = new.level /\ d.kind = p.actions[new.level + 1]
      BY <1>1 DEF decision, PairOf, CurPair
    <3>2. states'[CurPair] = new
      BY <1>1, <1>2, <1>8
    <3>3. new.active_since # 0 /\ now >= new.cooldown_until
      BY <2>2 DEF should_emit, StateInv
    <3>4. Held(d) /\ Kinded(d)
      BY <1>1, <3>1, <3>2, <3>3
    <3>5. decs' = Append(decs, d) /\ d \in Decisions
      BY <1>1, <2>2, DecisionType
    <3> HIDE DEF d, Held, Kinded
    <3>6. /\ DOMAIN decs' = 1 .. Len(decs) + 1
          /\ \A k \in 1 .. Len(decs) : decs'[k] = decs[k]
          /\ decs'[Len(decs) + 1] = d
      <4>1. decs \in Seq(Decisions) /\ d \in Decisions
        BY <1>12, <3>5
      <4>2. /\ DOMAIN Append(decs, d) = 1 .. Len(decs) + 1
            /\ \A k \in 1 .. Len(decs) : Append(decs, d)[k] = decs[k]
            /\ Append(decs, d)[Len(decs) + 1] = d
        BY <4>1, AppendFacts
      <4> QED BY <3>5, <4>2, SMTT(30)
    <3>7. \A k \in DOMAIN decs' : Held(decs'[k]) /\ Kinded(decs'[k])
      BY <1>12, <1>13, <3>4, <3>6, SMTT(30)
    <3>8. \A k, l \in DOMAIN decs' : PairOf(decs'[k]) = PairOf(decs'[l]) => k = l
      BY <1>12, <3>1, <3>6, SMTT(30) DEF Ladder, OnePerPair
    <3> QED BY <3>7, <3>8
  <2> QED BY <1>8, <2>1, <2>2
<1>15. Pending'
  BY <1>1, <1>14 DEF Pending, OnRung, PairOf
<1>16. OnePerPair' /\ KindOfRung'
  BY <1>14 DEF OnePerPair, KindOfRung, PairOf, PolicyOf
<1> QED BY <1>10, <1>11, <1>15, <1>16 DEF Ladder

-----------------------------------------------------------------------------
(***************************************************************************)
(* A decision that counts is the one of an iteration of act, on a pair     *)
(* outside any other change, and outside dry_run a rung with a system call *)
(* makes its call (act_one, execute_action).                               *)
(***************************************************************************)
Counting ==
    {"executed", "dry_run", "caged", "caged_ceiling", "cage_not_impl", "cage_failed"}

Advancing ==
    /\ phase \in {"act", "apply"} /\ i \in DOMAIN decs /\ now' = now
    /\ \E label \in Counting, call \in Calls : Advance(label, call)
    /\ ~DryRun => /\ dec.kind = "RENICE" => event'.call = "setpriority"
                  /\ dec.kind = "STOP" => event'.call = "SIGSTOP"
                  /\ dec.kind = "KILL" => event'.call = "SIGKILL"

\* The steps of an iteration: it counts, or changes no record.
LEMMA ActOrAdvance ==
    ASSUME Core, EngineAssumption, Act \/ Apply
    PROVE  \/ Advancing
           \/ /\ UNCHANGED <<states, recent, acted, decs, now>>
              /\ phase \in {"act", "apply"} /\ phase' \in {"act", "apply"}
              /\ i' \in {i, i + 1}
              /\ event'.state \in SkipReasons \cup {"none", "skip:gone", "skip:ceiling"}
<1>1. Apply => phase = "apply" /\ i \in DOMAIN decs /\ ~DryRun
  BY DEF Core, Ready, Apply, Renice, Stop, KillHeldBack, Kill, CageApplied, CageFailed
<1>2. Act => phase = "act" /\ i \in DOMAIN decs
  BY ActingFacts DEF Act, ActSkipped, ActDryRun, ActLogOnly, CageRefused,
                     GuardFails, GuardPasses, Applying, Acting
<1>3. CASE ActSkipped
  <2>1. dec.skip \in SkipReasons
    BY <1>2, <1>3, DecFacts DEF Act, ActSkipped, Core, Decisions
  <2> QED BY <1>2, <1>3, <2>1 DEF Act, ActSkipped, Skip, Logged, ringvars
<1>4. CASE GuardFails
  BY <1>2, <1>4 DEF Act, GuardFails, Skip, Logged, ringvars
<1>5. CASE GuardPasses
  BY <1>2, <1>5 DEF Act, GuardPasses, Quiet, NoEvent, ringvars
<1>6. CASE KillHeldBack
  BY <1>1, <1>6 DEF Apply, KillHeldBack, Skip, Logged, ringvars
<1>7. CASE ActDryRun
  BY <1>2, <1>7 DEF Act, ActDryRun, Advancing, Counting, Calls, ringvars
<1>8. CASE ActLogOnly
  BY <1>2, <1>8 DEF Act, ActLogOnly, Advancing, Counting, Calls, ringvars
<1>9. CASE CageRefused
  BY <1>2, <1>9 DEF Act, CageRefused, Advancing, Counting, Calls, ringvars
<1>10. CASE Renice
  BY <1>1, <1>10 DEF Apply, Renice, Advance, Logged, Advancing,
                    Counting, Calls, ringvars
<1>11. CASE Stop
  BY <1>1, <1>11 DEF Apply, Stop, Advance, Logged, Advancing,
                    Counting, Calls, ringvars
<1>12. CASE Kill
  BY <1>1, <1>12 DEF Apply, Kill, KillAndPush, Advance, Logged, Advancing, Counting, Calls
<1>13. CASE CageApplied
  BY <1>1, <1>13 DEF Apply, CageApplied, Advance, Logged, Advancing,
                    Counting, Calls, ringvars
<1>14. CASE CageFailed
  BY <1>1, <1>14 DEF Apply, CageFailed, Advance, Logged, Advancing,
                    Counting, Calls, ringvars
<1> QED BY <1>3, <1>4, <1>5, <1>6, <1>7, <1>8, <1>9, <1>10, <1>11, <1>12, <1>13, <1>14
        DEF Act, Apply

\* Every step of the engine keeps the ladder.
LEMMA LadderStep ==
    ASSUME Core, Safe, now \in Nat \ {0}, EngineAssumption, Ladder, [Next]_vars
    PROVE  Ladder'
<1>1. CASE BeginCycle
  BY <1>1, StillStreaks, EmptyLadder DEF BeginCycle, Ladder
<1>2. CASE CycleNoMemory
  BY <1>2, StillStreaks, EmptyLadder DEF CycleNoMemory, Ladder
<1>3. CASE EvalFrozen
  BY <1>3, StillLadder DEF EvalFrozen, Evaluating, ringvars
<1>4. CASE EvalScored
  BY <1>4, EvalScoredLadder
<1>5. CASE Validate
  BY <1>5, ValidateLadder
<1>6. CASE Act \/ Apply
  <2>1. CASE Advancing
    BY <2>1, AdvanceLadder DEF Advancing
  <2> QED BY <1>6, <2>1, ActOrAdvance, StillLadder
<1>7. CASE StateGc
  BY <1>7, StateGcLadder
<1>8. CASE Finish \/ CageGcKeep \/ CageGcRelease \/ EndCycle
  <2>1. UNCHANGED <<states, recent, acted, decs, now>>
    BY <1>8 DEF Finish, CageGcKeep, CageGcRelease, EndCycle, ringvars
  <2>2. phase' \in {"cage_gc", "idle", "stopped"}
    BY <1>8 DEF Finish, CageGcKeep, CageGcRelease, CageGcIter, EndCycle
  <2> QED BY <2>1, <2>2, StillLadder
<1>9. CASE UNCHANGED vars
  BY <1>9, StillLadder DEF vars, engine, ringvars
<1> QED BY <1>1, <1>2, <1>3, <1>4, <1>5, <1>6, <1>7, <1>8, <1>9
        DEF Next, Evaluate, Gc, Stopped

\* The zero record against an empty history.
LEMMA InitLadder ==
    ASSUME EngineAssumption, Init
    PROVE  Ladder
<1>1. \A pr \in Pairs : /\ states[pr] = ZeroState /\ recent[pr] = <<>>
                        /\ acted[pr] = Never /\ PolicyOf(pr) \in Policies
  BY CatalogFacts DEF Init
<1>2. ASSUME NEW p \in Policies
      PROVE  Tailed(ZeroState, <<>>, p) /\ Climbed(ZeroState, Never, p)
  BY WindowFacts DEF Tailed, Covers, Climbed, ZeroState, Never
<1>3. decs = <<>>
  BY DEF Init
<1> QED BY <1>1, <1>2, <1>3
        DEF Ladder, Streaks, Ladders, Pending, OnePerPair, KindOfRung

(***************************************************************************)
(* The counters of every record follow the history of its zones, its rung  *)
(* follows its last act that counted, and what is still to be acted on is  *)
(* on the present rung of an active alert (eval_one, act_one, state_gc).   *)
(***************************************************************************)
THEOREM LadderInvariant == Spec => []Ladder
<1> USE RingAssumption, EngineAssumption
<1>1. Init => Ladder
  BY InitLadder
<1>2. RingTypeOK => now \in Nat \ {0}
  BY DEF RingTypeOK
<1>3. Core /\ Safe /\ RingTypeOK /\ Ladder /\ [Next]_vars => Ladder'
  BY <1>2, LadderStep
<1>4. Spec => []RingTypeOK
  BY EngineImplementsRing, RingInvariant, PTL DEF RingInv
<1> QED BY <1>1, <1>3, <1>4, CoreInvariant, SafeInvariant, PTL DEF Spec

-----------------------------------------------------------------------------
\* As far as a counter reaches, it is a streak of the last zones.
LEMMA TailIsStreak ==
    ASSUME NEW st \in AlertStates, NEW p \in Policies, NEW s \in Seq(Zones),
           Tailed(st, s, p), NEW n \in Nat, n <= Window(p)
    PROVE  /\ n <= st.persistence =>
                Len(s) >= n /\ \A k \in Len(s) - n + 1 .. Len(s) : s[k] = "high"
           /\ n <= st.hysteresis =>
                Len(s) >= n /\ \A k \in Len(s) - n + 1 .. Len(s) : s[k] = "low"
<1>1. Window(p) \in Nat /\ Len(s) \in Nat /\ DOMAIN s = 1 .. Len(s)
  BY WindowFacts
<1>2. st.persistence \in Nat /\ st.hysteresis \in Nat
  BY StateFields
<1>3. n <= st.persistence =>
        Len(s) >= n /\ \A k \in Len(s) - n + 1 .. Len(s) : s[k] = "high"
  BY <1>1, <1>2, SMTT(30) DEF Tailed, Covers
<1>4. n <= st.hysteresis =>
        Len(s) >= n /\ \A k \in Len(s) - n + 1 .. Len(s) : s[k] = "low"
  BY <1>1, <1>2, SMTT(30) DEF Tailed, Covers
<1> QED BY <1>3, <1>4

\* While a scan is evaluated the list grows only by eval_one.
LEMMA OnlyEvalEmits ==
    ASSUME Core, [Next]_vars, Evaluating, decs' # decs
    PROVE  EvalScored
BY DEF Next, Evaluate, EvalFrozen, Validate, CycleNoMemory, BeginCycle, Finish, Gc,
       StateGc, CageGcKeep, CageGcRelease, CageGcIter, EndCycle, Act, ActSkipped,
       ActDryRun, ActLogOnly, CageRefused, GuardFails, GuardPasses, Applying, Acting,
       Apply, Renice, Stop, KillHeldBack, Kill, CageApplied, CageFailed, Stopped,
       Evaluating, vars, engine, Core, EngineTypeOK

\* A decision comes on N high samples in a row, outside the cooldown (eval_one).
LEMMA EmissionStep ==
    ASSUME Core, Safe, now \in Nat \ {0}, EngineAssumption, Ladder, [Next]_vars,
           Evaluating, Len(decs') > Len(decs)
    PROVE  /\ Streak(CurPair, Catalog[pi].persistence, "high")
           /\ now >= states[CurPair].cooldown_until
<1> DEFINE p == Catalog[pi]
           st(m) == apply_zone(states[CurPair], p, m, now)
<1>1. decs \in Seq(Decisions) /\ decs' # decs
  BY DEF Core, EngineTypeOK
<1>2. EvalScored
  BY <1>1, OnlyEvalEmits
<1>3. /\ CurPair \in Pairs /\ p \in Policies /\ PolicyOf(CurPair) = p
      /\ states[CurPair] \in AlertStates
  BY <1>2, ScoredFacts
<1>4. states \in [Pairs -> AlertStates]
  BY DEF Core, EngineTypeOK
<1> PICK m \in Int : /\ st(m) \in AlertStates
                     /\ states' = [states EXCEPT ![CurPair] = st(m)]
                     /\ should_emit(st(m), p, now)
  BY <1>1, <1>2, ScoredFacts
<1>5. states'[CurPair] = st(m) /\ st(m).cooldown_until = states[CurPair].cooldown_until
  BY <1>3, <1>4, ZoneFields
<1>6. st(m).persistence >= p.persistence /\ now >= st(m).cooldown_until
  BY DEF should_emit
<1>7. Ladder' /\ Core'
  BY <1>2, EvalScoredLadder, EvalScoredCore
<1>8. recent'[CurPair] \in Seq(Zones)
  BY <1>3, <1>7 DEF Core, EngineTypeOK, Pairs, Ids, PolicyIndex
<1>9. Tailed(st(m), recent'[CurPair], p)
  BY <1>3, <1>5, <1>7 DEF Ladder, Streaks, PolicyOf, Pairs, Ids, PolicyIndex
<1>10. st(m).persistence \in Nat /\ p.persistence \in Nat /\ p.persistence <= Window(p)
  BY <1>3, StateFields, PolicyFields, WindowFacts
<1> HIDE DEF st, p
<1>11. Streak(CurPair, p.persistence, "high")
  <2> DEFINE s == recent'[CurPair]
             n == p.persistence
  <2>1. s \in Seq(Zones) /\ Tailed(st(m), s, p)
    BY <1>8, <1>9
  <2>2. n \in Nat /\ n <= Window(p) /\ n <= st(m).persistence
    BY <1>6, <1>10
  <2> HIDE DEF s, n
  <2>3. Len(s) >= n /\ \A k \in Len(s) - n + 1 .. Len(s) : s[k] = "high"
    BY <1>3, <2>1, <2>2, TailIsStreak
  <2> QED BY <2>3 DEF Streak, s, n
<1> QED BY <1>5, <1>6, <1>11 DEF p

(***************************************************************************)
(* For every catalog and every order of acts, skips and deactivations, a   *)
(* decision is emitted only on N consecutive high samples and outside the  *)
(* cooldown (eval_one).                                                    *)
(***************************************************************************)
THEOREM EmissionsNeedStreaks == Spec => EmissionNeedsStreak
<1> USE RingAssumption, EngineAssumption
<1>1. RingTypeOK => now \in Nat \ {0}
  BY DEF RingTypeOK
<1>2. Core /\ Safe /\ RingTypeOK /\ Ladder /\ [Next]_vars =>
        [Evaluating /\ Len(decs') > Len(decs) =>
            /\ Streak(CurPair, Catalog[pi].persistence, "high")
            /\ now >= states[CurPair].cooldown_until]_vars
  BY <1>1, EmissionStep
<1>3. Spec => []RingTypeOK
  BY EngineImplementsRing, RingInvariant, PTL DEF RingInv
<1> QED BY <1>2, <1>3, CoreInvariant, SafeInvariant, LadderInvariant, PTL
        DEF Spec, EmissionNeedsStreak

-----------------------------------------------------------------------------
\* The step of an act that counts, as its pair sees it.
LEMMA CountedFacts ==
    ASSUME Core, EngineAssumption, [Next]_vars, ~UNCHANGED vars,
           NEW pr \in Pairs, Counted(pr)
    PROVE  /\ Advancing /\ pr = PairOf(dec)
           /\ acted'[pr] = [any |-> TRUE, level |-> dec.level, at |-> now,
                            repeat |-> acted[pr].fell, fell |-> FALSE]
<1>1. event' # NoEvent /\ event'.state \in Counting
  BY DEF Counted, Counting, NoEvent
<1>2. Act \/ Apply
  BY <1>1 DEF Next, Evaluate, EvalFrozen, EvalScored, Validate, CycleNoMemory,
              BeginCycle, Finish, Gc, StateGc, CageGcKeep, CageGcRelease, EndCycle,
              Stopped, Quiet
<1>3. Advancing
  BY <1>1, <1>2, ActOrAdvance DEF Counting, SkipReasons
<1>4. pr = PairOf(dec)
  BY <1>3 DEF Advancing, Advance, Logged, Counted
<1>5. acted \in [Pairs -> ActRecords]
  BY DEF Core, EngineTypeOK
<1> QED BY <1>3, <1>4, <1>5 DEF Advancing, Advance

\* A decision that counts is on the next rung, a cooldown after the last one.
LEMMA ClimbStep ==
    ASSUME Core, EngineAssumption, Ladder, [Next]_vars, ~UNCHANGED vars,
           NEW pr \in Pairs, Counted(pr)
    PROVE  Climbs(pr)
<1>1. /\ Advancing /\ pr = PairOf(dec)
      /\ acted'[pr] = [any |-> TRUE, level |-> dec.level, at |-> now,
                       repeat |-> acted[pr].fell, fell |-> FALSE]
  BY CountedFacts
<1>2. OnRung(dec)
  BY <1>1 DEF Advancing, Ladder, Pending, dec, Core, EngineTypeOK
<1>3. dec.level = states[pr].level /\ now >= states[pr].cooldown_until
  BY <1>1, <1>2 DEF OnRung
<1>4. Climbed(states[pr], acted[pr], PolicyOf(pr))
  BY DEF Ladder, Ladders
<1>5. acted'[pr].level = dec.level /\ acted'[pr].at = now
  BY <1>1
<1>6. acted[pr].any \in BOOLEAN
  BY DEF Core, EngineTypeOK, ActRecords
<1> QED BY <1>3, <1>4, <1>5, <1>6 DEF Climbs, Climbed

(***************************************************************************)
(* For every catalog, the acts of a pair climb its ladder one rung at a    *)
(* time and a cooldown apart, whatever is skipped, held back or retried    *)
(* between them (advance_after_act, should_emit).                          *)
(***************************************************************************)
THEOREM ActsClimb == Spec => EscalationOrder
<1> USE EngineAssumption
<1>1. Core /\ Ladder /\ [Next]_vars => [\A pr \in Pairs : Counted(pr) => Climbs(pr)]_vars
  BY ClimbStep
<1> QED BY <1>1, CoreInvariant, LadderInvariant, PTL DEF Spec, EscalationOrder

(***************************************************************************)
(* Outside dry_run no destructive rung is spent without its system call:   *)
(* a kill held back, or an identity check that fails, is tried again       *)
(* (execute_action, act_one).                                              *)
(***************************************************************************)
THEOREM RungsNeedCalls == Spec => RungNeedsCall
<1> USE EngineAssumption
<1> DEFINE Called(pr) ==
        Counted(pr) /\ ~DryRun =>
            LET kind == PolicyOf(pr).actions[acted'[pr].level + 1]
            IN  /\ kind = "RENICE" => event'.call = "setpriority"
                /\ kind = "STOP" => event'.call = "SIGSTOP"
                /\ kind = "KILL" => event'.call = "SIGKILL"
<1>1. ASSUME Core, Ladder, [Next]_vars, ~UNCHANGED vars, NEW pr \in Pairs
      PROVE  Called(pr)
  <2> SUFFICES ASSUME Counted(pr), ~DryRun
               PROVE  LET kind == PolicyOf(pr).actions[acted'[pr].level + 1]
                      IN  /\ kind = "RENICE" => event'.call = "setpriority"
                          /\ kind = "STOP" => event'.call = "SIGSTOP"
                          /\ kind = "KILL" => event'.call = "SIGKILL"
    OBVIOUS
  <2>1. /\ Advancing /\ pr = PairOf(dec)
        /\ acted'[pr] = [any |-> TRUE, level |-> dec.level, at |-> now,
                         repeat |-> acted[pr].fell, fell |-> FALSE]
    <3> HIDE DEF Called
    <3> QED BY <1>1, CountedFacts
  <2>2. dec.kind = PolicyOf(pr).actions[dec.level + 1]
    BY <1>1, <2>1 DEF Ladder, KindOfRung, Advancing, dec
  <2>3. acted'[pr].level = dec.level
    BY <2>1
  <2> QED BY <2>1, <2>2, <2>3 DEF Advancing
<1>2. Core /\ Ladder /\ [Next]_vars => [\A pr \in Pairs : Called(pr)]_vars
  BY <1>1
<1> QED BY <1>2, CoreInvariant, LadderInvariant, PTL DEF Spec, RungNeedsCall

-----------------------------------------------------------------------------
\* A sample where every policy needs a low one to fall (eval_one,
\* maybe_deactivate).
LEMMA EvalScoredRises ==
    ASSUME Core, Safe, now \in Nat \ {0}, EngineAssumption, Lasting, Ladder, Rises,
           EvalScored
    PROVE  Rises'
<1> DEFINE p == Catalog[pi]
           st(m) == apply_zone(states[CurPair], p, m, now)
<1>1. /\ CurPair \in Pairs /\ p \in Policies /\ PolicyOf(CurPair) = p
      /\ states[CurPair] \in AlertStates /\ recent[CurPair] \in Seq(Zones)
  BY ScoredFacts
<1>2. states \in [Pairs -> AlertStates] /\ recent \in [Pairs -> Seq(Zones)]
  BY DEF Core, EngineTypeOK
<1> PICK m \in Int :
        /\ st(m) \in AlertStates
        /\ recent' = [recent EXCEPT ![CurPair] =
                        Shifted(recent[CurPair], zone(p, m), p)]
        /\ \/ /\ must_deactivate(st(m), p)
              /\ states' = [states EXCEPT ![CurPair] = deactivate(st(m))]
           \/ states' = [states EXCEPT ![CurPair] = st(m)]
  BY ScoredFacts
<1> DEFINE h == Shifted(recent[CurPair], zone(p, m), p)
<1>3. /\ Tailed(states[CurPair], recent[CurPair], p)
      /\ Rising(states[CurPair], recent[CurPair], p)
  BY <1>1 DEF Ladder, Streaks, Rises
<1>4. Len(recent[CurPair]) <= Window(p) /\ zone(p, m) \in Zones
  BY <1>3 DEF Tailed, zone, Zones
<1>5. /\ h \in Seq(Zones) /\ Len(h) \in Nat \ {0} /\ Tailed(st(m), h, p)
      /\ Rising(st(m), h, p)
  BY <1>1, <1>3, <1>4, ShiftedFacts, ZoneTailed, ZoneRising
<1>6. p.hysteresis_m \in Nat \ {0} /\ p.persistence \in Nat \ {0}
      /\ p.hysteresis_m <= Window(p)
  <2>1. pi \in PolicyIndex
    BY DEF Core, EngineTypeOK
  <2> QED BY <1>1, <2>1, PolicyFields, WindowFacts DEF Lasting
<1>7. PICK new : /\ states' = [states EXCEPT ![CurPair] = new]
                 /\ Rising(new, h, p)
  <2>1. CASE /\ must_deactivate(st(m), p)
             /\ states' = [states EXCEPT ![CurPair] = deactivate(st(m))]
    <3>1. st(m).hysteresis \in Nat /\ st(m).hysteresis >= p.hysteresis_m
      BY <2>1, StateFields DEF must_deactivate
    <3>2. deactivate(st(m)).persistence = 0
      BY FallFields
    <3> HIDE DEF st, h, p
    <3>3. h[Len(h)] = "low"
      BY <1>5, <1>6, <3>1 DEF Tailed
    <3>4. Rising(deactivate(st(m)), h, p)
      BY <1>5, <1>6, <3>2, <3>3 DEF Rising
    <3> QED BY <2>1, <3>4
  <2> QED BY <1>5, <2>1
<1>8. recent' = [recent EXCEPT ![CurPair] = h]
  OBVIOUS
<1> HIDE DEF h
<1> SUFFICES ASSUME NEW x \in Pairs PROVE Rising(states'[x], recent'[x], PolicyOf(x))
  BY DEF Rises, PolicyOf, Pairs, Ids, PolicyIndex
<1>9. Rising(states[x], recent[x], PolicyOf(x))
  BY DEF Rises
<1> QED BY <1>1, <1>2, <1>7, <1>8, <1>9

\* An act that counts is on an active alert, and leaves it active (act_one).
LEMMA AdvanceRises ==
    ASSUME Core, now \in Nat \ {0}, EngineAssumption, Ladder, Rises, Advancing
    PROVE  Rises'
<1>1. EngineTypeOK /\ Armed /\ phase \in {"act", "apply"} /\ i \in DOMAIN decs
  BY DEF Core, Advancing
<1>2. /\ PairOf(dec) \in Pairs /\ states[PairOf(dec)] \in AlertStates
      /\ PolicyOf(PairOf(dec)) \in Policies
  BY <1>1, DecFacts
<1>3. states \in [Pairs -> AlertStates] /\ UNCHANGED recent
  BY <1>1 DEF EngineTypeOK, Advancing, Advance
<1> DEFINE new == advance_after_act(states[PairOf(dec)], PolicyOf(PairOf(dec)), now)
<1>4. states' = [states EXCEPT ![PairOf(dec)] = new]
  BY DEF Advancing, Advance
<1>5. new.active_since = states[PairOf(dec)].active_since
  BY <1>2, AdvanceFields
<1>6. states[PairOf(dec)].active_since # 0
  BY <1>1 DEF Ladder, Pending, OnRung, dec, EngineTypeOK
<1> HIDE DEF new
<1> SUFFICES ASSUME NEW x \in Pairs PROVE Rising(states'[x], recent'[x], PolicyOf(x))
  BY DEF Rises, PolicyOf, Pairs, Ids, PolicyIndex
<1>7. Rising(states[x], recent[x], PolicyOf(x))
  BY DEF Rises
<1>8. Rising(new, recent[PairOf(dec)], PolicyOf(PairOf(dec)))
  BY <1>5, <1>6 DEF Rising
<1> QED BY <1>2, <1>3, <1>4, <1>7, <1>8

\* A pair with no history has no streak.
LEMMA ZeroRising ==
    ASSUME NEW p \in Policies
    PROVE  Rising(ZeroState, <<>>, p)
BY PolicyFields DEF Rising, ZeroState

\* Every step of the engine keeps the count of an alert that is not active.
LEMMA RisesStep ==
    ASSUME Core, Safe, now \in Nat \ {0}, EngineAssumption, Lasting, Ladder, Rises,
           [Next]_vars
    PROVE  Rises'
<1>1. UNCHANGED <<states, recent>> => Rises'
  BY DEF Rises, PolicyOf, Pairs, Ids, PolicyIndex
<1>2. CASE EvalScored
  BY <1>2, EvalScoredRises
<1>3. CASE Act \/ Apply
  BY <1>1, <1>3, ActOrAdvance, AdvanceRises
<1>4. CASE StateGc
  <2> PICK kept \in SUBSET present :
            /\ states' = [pr \in Pairs |->
                            IF pr[1] \in kept THEN states[pr] ELSE ZeroState]
            /\ recent' = [pr \in Pairs |->
                            IF pr[1] \in kept THEN recent[pr] ELSE <<>>]
    BY <1>4, StateGcFacts DEF Core
  <2> QED BY ZeroRising, CatalogFacts DEF Rises, PolicyOf, Pairs, Ids, PolicyIndex
<1>5. CASE BeginCycle \/ Finish \/ EvalFrozen \/ Validate \/ CycleNoMemory
           \/ CageGcKeep \/ CageGcRelease \/ EndCycle \/ UNCHANGED vars
  BY <1>1, <1>5 DEF BeginCycle, Finish, EvalFrozen, Validate, CycleNoMemory, CageGcKeep,
                    CageGcRelease, EndCycle, vars, engine
<1> QED BY <1>2, <1>3, <1>4, <1>5 DEF Next, Evaluate, Gc, Stopped

\* While an alert is not active its counter is the whole streak of high samples,
\* and too short (apply_zone, maybe_deactivate).
LEMMA RisesInvariant ==
    ASSUME Lasting
    PROVE  Spec => []Rises
<1> USE RingAssumption, EngineAssumption
<1>1. Init => Rises
  BY ZeroRising, CatalogFacts DEF Init, Rises
<1>2. RingTypeOK => now \in Nat \ {0}
  BY DEF RingTypeOK
<1>3. Core /\ Safe /\ RingTypeOK /\ Ladder /\ Rises /\ [Next]_vars => Rises'
  BY <1>2, RisesStep
<1>4. Spec => []RingTypeOK
  BY EngineImplementsRing, RingInvariant, PTL DEF RingInv
<1> QED BY <1>1, <1>3, <1>4, CoreInvariant, SafeInvariant, LadderInvariant, PTL DEF Spec

(***************************************************************************)
(* Where every policy needs a low sample to fall, N consecutive high       *)
(* samples leave the alert active: no order of acts, skips, deactivations  *)
(* and frozen cycles misses a streak (apply_zone).                         *)
(***************************************************************************)
THEOREM StreaksActivate == ASSUME Lasting PROVE Spec => ActivatesOnStreak
<1> USE RingAssumption, EngineAssumption
<1> DEFINE Active == EvalScored /\ Streak(CurPair, Catalog[pi].persistence, "high") =>
                        states'[CurPair].active_since # 0
<1>1. ASSUME Core, Safe, now \in Nat \ {0}, Ladder, Rises, EvalScored,
             Streak(CurPair, Catalog[pi].persistence, "high")
      PROVE  states'[CurPair].active_since # 0
  <2>1. CurPair \in Pairs /\ Catalog[pi] \in Policies /\ PolicyOf(CurPair) = Catalog[pi]
    BY <1>1, ScoredFacts
  <2>2. Rises' /\ Core'
    BY <1>1, EvalScoredRises, EvalScoredCore
  <2> DEFINE st == states'[CurPair]
             s  == recent'[CurPair]
             n  == Catalog[pi].persistence
  <2>3. Rising(st, s, Catalog[pi])
    BY <2>1, <2>2 DEF Rises, PolicyOf, Pairs, Ids, PolicyIndex
  <2>4. st \in AlertStates /\ s \in Seq(Zones)
    BY <2>1, <2>2 DEF Core, EngineTypeOK, Pairs, Ids, PolicyIndex
  <2>5. st.persistence \in Nat /\ n \in Nat /\ Len(s) \in Nat
    BY <2>1, <2>4, StateFields, PolicyFields
  <2>6. Len(s) >= n /\ \A k \in Len(s) - n + 1 .. Len(s) : s[k] = "high"
    BY <1>1 DEF Streak
  <2>7. SUFFICES ASSUME st.active_since = 0 PROVE FALSE
    OBVIOUS
  <2>8. /\ st.persistence < n
        /\ st.persistence < Len(s) => s[Len(s) - st.persistence] # "high"
    BY <2>3, <2>7 DEF Rising
  <2> HIDE DEF st, s, n
  <2> QED BY <2>5, <2>6, <2>8
<1>2. Core /\ Safe /\ RingTypeOK /\ Ladder /\ Rises /\ [Next]_vars => [Active]_vars
  BY <1>1 DEF RingTypeOK
<1>3. Spec => []RingTypeOK
  BY EngineImplementsRing, RingInvariant, PTL DEF RingInv
<1>4. Spec => []Rises
  BY RisesInvariant
<1> QED BY <1>2, <1>3, <1>4, CoreInvariant, SafeInvariant, LadderInvariant, PTL
        DEF Spec, ActivatesOnStreak

-----------------------------------------------------------------------------
\* A sample that lets an alert fall is the last of M low ones (maybe_deactivate).
LEMMA FallStep ==
    ASSUME Core, Safe, now \in Nat \ {0}, EngineAssumption, Lasting, Ladder, EvalScored,
           NEW pr \in Pairs, states[pr].active_since # 0, states'[pr].active_since = 0
    PROVE  /\ Streak(pr, PolicyOf(pr).hysteresis_m, "low")
           /\ recent'[pr] # <<>> /\ recent'[pr][Len(recent'[pr])] = "low"
<1> DEFINE p == Catalog[pi]
           st(m) == apply_zone(states[CurPair], p, m, now)
<1>1. /\ CurPair \in Pairs /\ p \in Policies /\ PolicyOf(CurPair) = p
      /\ states[CurPair] \in AlertStates /\ recent[CurPair] \in Seq(Zones)
  BY ScoredFacts
<1>2. states \in [Pairs -> AlertStates] /\ recent \in [Pairs -> Seq(Zones)]
  BY DEF Core, EngineTypeOK
<1> PICK m \in Int :
        /\ st(m) \in AlertStates
        /\ recent' = [recent EXCEPT ![CurPair] =
                        Shifted(recent[CurPair], zone(p, m), p)]
        /\ \/ /\ must_deactivate(st(m), p)
              /\ states' = [states EXCEPT ![CurPair] = deactivate(st(m))]
           \/ states' = [states EXCEPT ![CurPair] = st(m)]
  BY ScoredFacts
<1> DEFINE h == Shifted(recent[CurPair], zone(p, m), p)
<1>3. pr = CurPair
  <2> HIDE DEF st, p
  <2> QED BY <1>1, <1>2
<1>4. st(m).active_since # 0
  <2>1. states[CurPair].active_since # 0
    BY <1>3
  <2> QED BY <1>1, <2>1, ZoneFields DEF activation, Zones
<1>5. must_deactivate(st(m), p)
  <2> HIDE DEF st, p
  <2> QED BY <1>1, <1>2, <1>3, <1>4
<1>6. Tailed(states[CurPair], recent[CurPair], p)
  BY <1>1 DEF Ladder, Streaks
<1>7. Len(recent[CurPair]) <= Window(p) /\ zone(p, m) \in Zones
  BY <1>6 DEF Tailed, zone, Zones
<1>8. /\ h \in Seq(Zones) /\ Len(h) \in Nat \ {0} /\ Tailed(st(m), h, p)
  BY <1>1, <1>6, <1>7, ShiftedFacts, ZoneTailed
<1>9. p.hysteresis_m \in Nat \ {0} /\ p.hysteresis_m <= Window(p)
  <2>1. pi \in PolicyIndex
    BY DEF Core, EngineTypeOK
  <2> QED BY <1>1, <2>1, PolicyFields, WindowFacts DEF Lasting
<1>10. st(m).hysteresis \in Nat /\ st(m).hysteresis >= p.hysteresis_m
  BY <1>5, StateFields DEF must_deactivate
<1>11. recent'[pr] = h
  BY <1>1, <1>2, <1>3
<1> DEFINE n == p.hysteresis_m
<1> HIDE DEF st, h
<1>12. Len(h) >= n /\ \A k \in Len(h) - n + 1 .. Len(h) : h[k] = "low"
  <2> HIDE DEF p
  <2> QED BY <1>1, <1>8, <1>9, <1>10, TailIsStreak
<1>13. h # <<>> /\ h[Len(h)] = "low"
  <2> HIDE DEF p, n
  <2>1. n \in Nat \ {0}
    BY <1>9 DEF n
  <2> QED BY <1>8, <1>12, <2>1
<1> QED BY <1>1, <1>3, <1>11, <1>12, <1>13 DEF Streak

(***************************************************************************)
(* Where every policy needs a low sample to fall, an alert leaves the      *)
(* active state only on the last of M consecutive low samples, or with its *)
(* process (maybe_deactivate, state_gc).                                   *)
(***************************************************************************)
THEOREM FallsNeedLows == ASSUME Lasting PROVE Spec => DeactivationNeedsLow
<1> USE RingAssumption, EngineAssumption
<1> DEFINE Falls(pr) ==
        states[pr].active_since # 0 /\ states'[pr].active_since = 0 =>
            \/ Streak(pr, PolicyOf(pr).hysteresis_m, "low")
               /\ recent'[pr] # <<>> /\ recent'[pr][Len(recent'[pr])] = "low"
            \/ pr[1] \notin present'
<1>1. ASSUME Core, Safe, now \in Nat \ {0}, Ladder, [Next]_vars, NEW pr \in Pairs,
             states[pr].active_since # 0, states'[pr].active_since = 0
      PROVE  \/ Streak(pr, PolicyOf(pr).hysteresis_m, "low")
                /\ recent'[pr] # <<>> /\ recent'[pr][Len(recent'[pr])] = "low"
             \/ pr[1] \notin present'
  <2>1. states' # states
    BY <1>1
  <2>2. CASE EvalScored
    BY <1>1, <2>2, FallStep
  <2>3. CASE StateGc
    <3> PICK kept \in SUBSET present :
            /\ present' = kept
            /\ states' = [x \in Pairs |->
                            IF x[1] \in kept THEN states[x] ELSE ZeroState]
      BY <1>1, <2>3, StateGcFacts DEF Core
    <3> QED BY <1>1
  <2>4. CASE Act \/ Apply
    <3>1. Advancing
      BY <1>1, <2>1, <2>4, ActOrAdvance
    <3>2. PairOf(dec) \in Pairs /\ states[PairOf(dec)] \in AlertStates
          /\ states \in [Pairs -> AlertStates]
      BY <1>1, <3>1, DecFacts DEF Core, Advancing, EngineTypeOK
    <3>3. states' = [states EXCEPT ![PairOf(dec)] =
                advance_after_act(states[PairOf(dec)], PolicyOf(PairOf(dec)), now)]
      BY <3>1 DEF Advancing, Advance
    <3>4. states'[pr].active_since = states[pr].active_since
      BY <1>1, <3>2, <3>3, AdvanceFields
    <3> QED BY <1>1, <3>4
  <2>5. ~(\/ BeginCycle \/ Finish \/ EvalFrozen \/ Validate \/ CycleNoMemory
          \/ CageGcKeep \/ CageGcRelease \/ EndCycle \/ UNCHANGED vars)
    BY <2>1 DEF BeginCycle, Finish, EvalFrozen, Validate, CycleNoMemory, CageGcKeep,
                CageGcRelease, EndCycle, vars, engine
  <2> QED BY <1>1, <2>2, <2>3, <2>4, <2>5 DEF Next, Evaluate, Gc, Stopped
<1>2. Core /\ Safe /\ RingTypeOK /\ Ladder /\ [Next]_vars =>
        [\A pr \in Pairs : Falls(pr)]_vars
  BY <1>1 DEF RingTypeOK
<1>3. Spec => []RingTypeOK
  BY EngineImplementsRing, RingInvariant, PTL DEF RingInv
<1> QED BY <1>2, <1>3, CoreInvariant, SafeInvariant, LadderInvariant, PTL
        DEF Spec, DeactivationNeedsLow
=============================================================================
