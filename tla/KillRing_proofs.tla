--------------------------- MODULE KillRing_proofs ---------------------------
(***************************************************************************)
(* For every capacity, window and interleaving of clock steps and kills:   *)
(* the ring of KillRing holds the last kills, decides exactly as the whole *)
(* history would, and so implements KillBudget and keeps its ceiling.      *)
(***************************************************************************)
EXTENDS KillRing, FiniteSetTheorems, TLAPS

\* How many kills ago slot s was written.
age(s) == IF s < kill_ring_head THEN kill_ring_head - 1 - s
          ELSE kill_ring_head - 1 - s + kill_ring_cap

(***************************************************************************)
(* The strengthening: the slots in use hold the last kills, in the order   *)
(* the head walked, and the history is sorted and in the past.             *)
(***************************************************************************)
RingHoldsLast ==
    /\ kill_ring_count = IF Len(kills) < kill_ring_cap THEN Len(kills)
                         ELSE kill_ring_cap
    /\ Len(kills) < kill_ring_cap => kill_ring_head = Len(kills)
    /\ \A s \in 0 .. kill_ring_count - 1 :
        kill_ring[s] = kills[Len(kills) - age(s)]

Sorted == \A j, k \in DOMAIN kills : j <= k => kills[j] <= kills[k]

Past == \A k \in DOMAIN kills : kills[k] <= now

RingInv == RingTypeOK /\ RingHoldsLast /\ Sorted /\ Past /\ KillCeiling

-----------------------------------------------------------------------------
\* One step of the head around the ring (push_kill), without the remainder.
LEMMA WrapAround ==
    ASSUME NEW c \in Nat \ {0}, NEW h \in 0 .. c - 1
    PROVE  (h + 1) % c = IF h + 1 = c THEN 0 ELSE h + 1
OBVIOUS

\* The ages of the slots in use are the last kill_ring_count positions of the
\* history, and each of those positions has its slot.
LEMMA AgeBounds ==
    ASSUME RingTypeOK, RingHoldsLast, RingAssumption
    PROVE  /\ \A s \in 0 .. kill_ring_count - 1 :
                age(s) \in 0 .. kill_ring_count - 1
           /\ \A g \in 0 .. kill_ring_count - 1 :
                \E s \in 0 .. kill_ring_count - 1 : age(s) = g
<1>1. /\ MaxKillsPerMinute \in Nat
      /\ kill_ring_head \in Nat
      /\ kill_ring_count \in Nat
      /\ kill_ring_cap = MaxKillsPerMinute
      /\ Len(kills) \in Nat
      /\ kill_ring_head < kill_ring_cap \/ kill_ring_head = 0
  BY DEF RingTypeOK, RingAssumption, kill_ring_cap
<1>2. \A s \in 0 .. kill_ring_count - 1 : age(s) \in 0 .. kill_ring_count - 1
  BY <1>1 DEF RingHoldsLast, age
<1>3. ASSUME NEW g \in 0 .. kill_ring_count - 1
      PROVE  \E s \in 0 .. kill_ring_count - 1 : age(s) = g
  <2>1. CASE g < kill_ring_head
    <3>1. kill_ring_head - 1 - g \in 0 .. kill_ring_count - 1
      BY <1>1, <2>1 DEF RingHoldsLast
    <3>2. age(kill_ring_head - 1 - g) = g
      BY <1>1, <2>1 DEF age
    <3> QED BY <3>1, <3>2
  <2>2. CASE ~(g < kill_ring_head)
    <3>1. kill_ring_head - 1 - g + kill_ring_cap \in 0 .. kill_ring_count - 1
      BY <1>1, <2>2 DEF RingHoldsLast
    <3>2. age(kill_ring_head - 1 - g + kill_ring_cap) = g
      BY <1>1, <2>2, <3>1 DEF age, RingHoldsLast
    <3> QED BY <3>1, <3>2
  <2> QED BY <2>1, <2>2
<1> QED BY <1>2, <1>3

-----------------------------------------------------------------------------
\* The slots counted are a finite set of at most kill_ring_count slots.
LEMMA RecentSlots ==
    ASSUME RingTypeOK, RingAssumption
    PROVE  /\ recent_slots \subseteq 0 .. kill_ring_count - 1
           /\ IsFiniteSet(recent_slots)
           /\ kills_last_minute \in 0 .. kill_ring_count
           /\ kills_last_minute = kill_ring_count =>
                recent_slots = 0 .. kill_ring_count - 1
           /\ recent_slots = 0 .. kill_ring_count - 1 =>
                kills_last_minute = kill_ring_count
<1> DEFINE all == 0 .. kill_ring_count - 1
<1>1. kill_ring_count \in Nat
  BY DEF RingTypeOK, RingAssumption, kill_ring_cap
<1>2. IsFiniteSet(all) /\ Cardinality(all) = kill_ring_count
  BY <1>1, FS_Interval
<1>3. recent_slots \in SUBSET all
  BY DEF recent_slots
<1>4. /\ IsFiniteSet(recent_slots)
      /\ Cardinality(recent_slots) <= Cardinality(all)
      /\ Cardinality(all) = Cardinality(recent_slots) => all = recent_slots
  BY <1>2, <1>3, FS_Subset
<1>5. Cardinality(recent_slots) \in Nat
  BY <1>4, FS_CardinalityType
<1> QED BY <1>1, <1>2, <1>3, <1>4, <1>5 DEF kills_last_minute

(***************************************************************************)
(* The count over the ring says what the whole history says: the ceiling   *)
(* is reached exactly when the kill MaxKillsPerMinute places back is still *)
(* inside the window.                                                      *)
(***************************************************************************)
LEMMA CeilingIsExact ==
    ASSUME RingInv, RingAssumption
    PROVE  CeilingExact
<1> DEFINE M == MaxKillsPerMinute
           L == Len(kills)
           oldest == kills[L - M + 1]
<1>1. /\ M \in Nat /\ L \in Nat /\ now \in Nat /\ KillWindow \in Nat
      /\ kill_ring_cap = M
      /\ kill_ring_count \in Nat
      /\ kills \in Seq(Nat)
  BY DEF RingInv, RingTypeOK, RingAssumption, kill_ring_cap
<1>2. /\ recent_slots \subseteq 0 .. kill_ring_count - 1
      /\ kills_last_minute \in 0 .. kill_ring_count
      /\ kills_last_minute = kill_ring_count <=>
                recent_slots = 0 .. kill_ring_count - 1
  BY RecentSlots DEF RingInv
<1>3. CASE M = 0
  BY <1>1, <1>2, <1>3 DEF CeilingExact, ceiling_reached, Budget!Affordable
<1>4. CASE M > 0 /\ L < M
  <2>1. kill_ring_count = L
    BY <1>1, <1>4 DEF RingInv, RingHoldsLast
  <2> QED BY <1>1, <1>2, <1>4, <2>1 DEF CeilingExact, ceiling_reached, Budget!Affordable
<1>5. CASE M > 0 /\ L >= M
  <2>1. kill_ring_count = M
    BY <1>1, <1>5 DEF RingInv, RingHoldsLast
  <2>2. ceiling_reached <=> recent_slots = 0 .. M - 1
    BY <1>1, <1>2, <2>1 DEF ceiling_reached
  <2>3. \A s \in 0 .. M - 1 :
          /\ age(s) \in 0 .. M - 1
          /\ kill_ring[s] = kills[L - age(s)]
          /\ L - age(s) \in DOMAIN kills
          /\ kills[L - age(s)] \in Nat
          /\ kills[L - age(s)] <= now
    <3> SUFFICES ASSUME NEW s \in 0 .. M - 1
                 PROVE  /\ age(s) \in 0 .. M - 1
                        /\ kill_ring[s] = kills[L - age(s)]
                        /\ L - age(s) \in DOMAIN kills
                        /\ kills[L - age(s)] \in Nat
                        /\ kills[L - age(s)] <= now
      OBVIOUS
    <3>1. age(s) \in 0 .. M - 1
      BY <2>1, AgeBounds DEF RingInv
    <3>2. kill_ring[s] = kills[L - age(s)]
      BY <2>1 DEF RingInv, RingHoldsLast
    <3>3. L - age(s) \in 1 .. L
      BY <1>1, <1>5, <3>1
    <3>4. L - age(s) \in DOMAIN kills /\ kills[L - age(s)] \in Nat
      BY <1>1, <3>3
    <3> QED BY <3>1, <3>2, <3>4 DEF RingInv, Past
  <2>4. PICK last \in 0 .. M - 1 : age(last) = M - 1
    BY <1>1, <1>5, <2>1, AgeBounds DEF RingInv
  <2>5. kill_ring[last] = oldest /\ oldest \in Nat /\ oldest <= now
    BY <1>1, <2>3, <2>4
  <2>6. Budget!Affordable <=> now - oldest >= KillWindow
    BY <1>1, <1>5 DEF Budget!Affordable
  <2>7. ASSUME recent_slots = 0 .. M - 1 PROVE ~Budget!Affordable
    <3>1. now - kill_ring[last] < KillWindow
      BY <2>7 DEF recent_slots
    <3> QED BY <1>1, <2>5, <2>6, <3>1
  <2>8. ASSUME ~Budget!Affordable PROVE recent_slots = 0 .. M - 1
    <3> SUFFICES ASSUME NEW s \in 0 .. M - 1 PROVE s \in recent_slots
      BY <1>2, <2>1
    <3> DEFINE mine == kills[L - age(s)]
    <3>1. /\ age(s) \in 0 .. M - 1 /\ L - age(s) \in DOMAIN kills
          /\ kill_ring[s] = mine /\ mine \in Nat /\ mine <= now
      BY <2>3
    <3>2. L - M + 1 \in DOMAIN kills /\ L - M + 1 <= L - age(s)
      BY <1>1, <1>5, <3>1, SMTT(30)
    <3>3. oldest <= mine
      BY <3>1, <3>2 DEF RingInv, Sorted
    <3>4. ~(now - oldest >= KillWindow)
      BY <2>6, <2>8
    <3> HIDE DEF mine, oldest
    <3>5. now - mine < KillWindow
      BY <1>1, <2>5, <3>1, <3>3, <3>4
    <3> QED BY <2>1, <3>1, <3>5 DEF recent_slots
  <2> QED BY <2>2, <2>7, <2>8 DEF CeilingExact
<1> QED BY <1>1, <1>3, <1>4, <1>5

-----------------------------------------------------------------------------
\* The kill a ago in a history of l kills, and the same kill after one more.
LEMMA Position ==
    ASSUME NEW l \in Nat, NEW c \in Nat, c <= l, NEW a \in 0 .. c - 1
    PROVE  l - a \in 1 .. l /\ (l + 1) - (a + 1) = l - a
OBVIOUS

\* What push_kill does to the ring, once there is a slot to write.
LEMMA PushKeepsLast ==
    ASSUME RingInv, RingAssumption, KillAndPush, MaxKillsPerMinute > 0
    PROVE  RingTypeOK' /\ RingHoldsLast'
<1> DEFINE M == MaxKillsPerMinute
           L == Len(kills)
           h == kill_ring_head
           c == kill_ring_count
<1>1. /\ M \in Nat \ {0} /\ L \in Nat /\ now \in Nat \ {0}
      /\ h \in 0 .. M - 1
      /\ c \in 0 .. M
      /\ kill_ring \in [0 .. M - 1 -> Nat]
      /\ kills \in Seq(Nat)
  BY DEF RingInv, RingTypeOK, RingAssumption, kill_ring_cap, Slots
<1>2. /\ kill_ring' = [kill_ring EXCEPT ![h] = now]
      /\ kill_ring_head' = IF h + 1 = M THEN 0 ELSE h + 1
      /\ kill_ring_count' = IF c < M THEN c + 1 ELSE c
      /\ kills' = Append(kills, now)
      /\ now' = now
  <2>1. (h + 1) % M = IF h + 1 = M THEN 0 ELSE h + 1
    BY <1>1, WrapAround
  <2> QED BY <1>1, <2>1 DEF KillAndPush, push_kill, kill_ring_cap
<1>3. /\ kills' \in Seq(Nat)
      /\ Len(kills') = L + 1
      /\ \A k \in 1 .. L : kills'[k] = kills[k]
      /\ kills'[L + 1] = now
  BY <1>1, <1>2
<1>4. RingTypeOK'
  BY <1>1, <1>2, <1>3 DEF RingTypeOK, kill_ring_cap, Slots
<1>5. /\ c = IF L < M THEN L ELSE M
      /\ L < M => h = L
      /\ \A s \in 0 .. c - 1 : kill_ring[s] = kills[L - age(s)]
      /\ \A s \in 0 .. c - 1 : age(s) \in 0 .. c - 1
  BY AgeBounds DEF RingInv, RingHoldsLast, kill_ring_cap
<1>6. kill_ring_count' = IF L + 1 < M THEN L + 1 ELSE M
  BY <1>1, <1>2, <1>5
<1>7. L + 1 < M => kill_ring_head' = L + 1
  BY <1>1, <1>2, <1>5
<1>8. ASSUME NEW s \in 0 .. kill_ring_count' - 1
      PROVE  kill_ring'[s] = kills'[Len(kills') - age(s)']
  <2>1. CASE s = h
    <3>1. age(s)' = 0
      BY <1>1, <1>2, <2>1 DEF age, kill_ring_cap
    <3> QED BY <1>1, <1>2, <1>3, <2>1, <3>1
  <2>2. CASE s # h
    <3>1. s \in 0 .. c - 1 /\ s \in 0 .. M - 1
      BY <1>1, <1>2, <1>5, <2>2
    <3>2. age(s)' = age(s) + 1
      BY <1>1, <1>2, <2>2, <3>1 DEF age, kill_ring_cap
    <3>3. age(s) \in 0 .. c - 1 /\ kill_ring[s] = kills[L - age(s)]
      BY <1>5, <3>1
    <3>4. L - age(s) \in 1 .. L /\ (L + 1) - (age(s) + 1) = L - age(s)
      <4>1. c \in Nat /\ c <= L
        BY <1>1, <1>5
      <4> QED BY <1>1, <3>3, <4>1, Position
    <3>5. kills'[L - age(s)] = kills[L - age(s)]
      BY <1>3, <3>4
    <3>6. Len(kills') - age(s)' = L - age(s)
      BY <1>3, <3>2, <3>4
    <3>7. kill_ring'[s] = kill_ring[s]
      BY <1>1, <1>2, <2>2, <3>1
    <3> QED BY <3>3, <3>5, <3>6, <3>7
  <2> QED BY <2>1, <2>2
<1>9. kill_ring_count' = IF Len(kills') < M THEN Len(kills') ELSE M
  BY <1>3, <1>6
<1>10. Len(kills') < M => kill_ring_head' = Len(kills')
  BY <1>3, <1>7
<1> QED BY <1>4, <1>8, <1>9, <1>10 DEF RingHoldsLast, kill_ring_cap

\* A kill the ring lets through is one the whole history would let through.
LEMMA KillIsAffordable ==
    ASSUME RingInv, RingAssumption, KillAndPush
    PROVE  Budget!Affordable /\ MaxKillsPerMinute > 0
<1>1. Budget!Affordable
  BY CeilingIsExact DEF CeilingExact, KillAndPush
<1> QED BY <1>1 DEF Budget!Affordable

\* Every step of the ring keeps its invariant (push_kill).
LEMMA RingStep ==
    ASSUME RingInv, RingAssumption, [RingNext]_ringvars
    PROVE  RingInv'
<1> DEFINE M == MaxKillsPerMinute
           L == Len(kills)
<1>1. CASE ClockAdvance
  <2>1. /\ now' \in Nat /\ now' >= now
        /\ UNCHANGED <<kill_ring, kill_ring_head, kill_ring_count, kills>>
    BY <1>1 DEF ClockAdvance, ring
  <2>2. RingTypeOK' /\ RingHoldsLast' /\ Sorted' /\ KillCeiling'
    BY <2>1 DEF RingInv, RingTypeOK, RingHoldsLast, Sorted, KillCeiling, age
  <2>3. Past'
    <3>1. \A k \in DOMAIN kills : kills[k] \in Nat /\ kills[k] <= now
      BY DEF RingInv, RingTypeOK, Past
    <3> QED BY <2>1, <3>1 DEF Past, RingInv, RingTypeOK
  <2> QED BY <2>2, <2>3 DEF RingInv
<1>2. CASE KillAndPush
  <2>1. Budget!Affordable /\ M > 0
    BY <1>2, KillIsAffordable
  <2>2. RingTypeOK' /\ RingHoldsLast'
    BY <1>2, <2>1, PushKeepsLast
  <2>3. /\ L \in Nat /\ M \in Nat /\ now \in Nat /\ now' = now
        /\ kills \in Seq(Nat) /\ kills' = Append(kills, now)
    BY <1>2 DEF RingInv, RingTypeOK, RingAssumption, KillAndPush
  <2>4. /\ DOMAIN kills = 1 .. L /\ DOMAIN kills' = 1 .. L + 1
        /\ \A k \in 1 .. L : kills'[k] = kills[k] /\ kills[k] \in Nat
        /\ kills'[L + 1] = now
    BY <2>3
  <2>5. Past'
    BY <2>3, <2>4 DEF RingInv, Past
  <2>6. Sorted'
    BY <2>3, <2>4 DEF RingInv, Sorted, Past
  <2>7. KillCeiling'
    <3> SUFFICES ASSUME NEW k \in DOMAIN kills', k + M \in DOMAIN kills'
                 PROVE  kills'[k + M] - kills'[k] >= KillWindow
      BY DEF KillCeiling
    <3>1. CASE k + M = L + 1
      <4>1. k = L - M + 1 /\ k \in 1 .. L
        BY <2>1, <2>3, <2>4, <3>1
      <4>2. now - kills[k] >= KillWindow
        BY <2>1, <2>3, <4>1 DEF Budget!Affordable
      <4> QED BY <2>4, <3>1, <4>1, <4>2
    <3>2. CASE k + M # L + 1
      <4>1. k \in 1 .. L /\ k + M \in 1 .. L
        BY <2>1, <2>3, <2>4, <3>2
      <4> QED BY <2>4, <4>1 DEF RingInv, KillCeiling
    <3> QED BY <3>1, <3>2
  <2> QED BY <2>2, <2>5, <2>6, <2>7 DEF RingInv
<1>3. CASE UNCHANGED ringvars
  BY <1>3 DEF ringvars, ring, RingInv, RingTypeOK, RingHoldsLast, Sorted, Past,
              KillCeiling, age
<1> QED BY <1>1, <1>2, <1>3 DEF RingNext

\* The ring starts empty (alloc_runtime).
LEMMA RingInitInv ==
    ASSUME RingInit, RingAssumption
    PROVE  RingInv
<1>1. /\ kills = <<>> /\ kill_ring_count = 0 /\ kill_ring_head = 0
      /\ now = StartMs /\ kill_ring = [s \in Slots |-> 0]
      /\ StartMs \in Nat \ {0} /\ kill_ring_cap \in Nat
  BY DEF RingInit, RingAssumption, kill_ring_cap
<1>2. RingTypeOK
  BY <1>1 DEF RingTypeOK
<1>3. RingHoldsLast /\ Sorted /\ Past /\ KillCeiling
  BY <1>1 DEF RingHoldsLast, Sorted, Past, KillCeiling
<1> QED BY <1>2, <1>3 DEF RingInv

-----------------------------------------------------------------------------
\* The strengthened invariant of the ring holds for every capacity and window.
THEOREM RingInvariant == RingSpec => []RingInv
<1> USE RingAssumption
<1>1. RingInit => RingInv
  BY RingInitInv
<1>2. RingInv /\ [RingNext]_ringvars => RingInv'
  BY RingStep
<1> QED BY <1>1, <1>2, PTL DEF RingSpec

(***************************************************************************)
(* No window holds more than MaxKillsPerMinute kills, for every capacity,  *)
(* window and sequence of kills (kills_last_minute, push_kill).            *)
(***************************************************************************)
THEOREM RingKeepsCeiling == RingSpec => []KillCeiling
BY RingInvariant, PTL DEF RingInv

\* The ring refuses exactly the kills the whole history would refuse.
THEOREM RingIsExact == RingSpec => []CeilingExact
<1>1. RingInv => CeilingExact
  BY CeilingIsExact, RingAssumption
<1> QED BY <1>1, RingInvariant, PTL

\* Every step of the ring is a step of the budget that keeps the history.
LEMMA RingStepIsBudgetStep ==
    ASSUME RingInv, RingAssumption, [RingNext]_ringvars
    PROVE  [Budget!Next]_<<now, kills>>
<1>1. CASE ClockAdvance
  BY <1>1 DEF ClockAdvance, ring, Budget!Next, Budget!Tick
<1>2. CASE KillAndPush
  BY <1>2, KillIsAffordable DEF KillAndPush, Budget!Next, Budget!Kill
<1>3. CASE UNCHANGED ringvars
  BY <1>3 DEF ringvars, ring
<1> QED BY <1>1, <1>2, <1>3 DEF RingNext

\* The ring implements the budget (execute_action, push_kill).
THEOREM RingImplementsBudget == RingSpec => BudgetSpec
<1> USE RingAssumption
<1>1. RingInit => Budget!Init
  BY DEF RingInit, Budget!Init
<1>2. RingInv /\ [RingNext]_ringvars => [Budget!Next]_<<now, kills>>
  BY RingStepIsBudgetStep
<1> QED BY <1>1, <1>2, RingInvariant, PTL DEF RingSpec, BudgetSpec, Budget!Spec
=============================================================================
