------------------------ MODULE AlertRegistry_proofs ------------------------
(***************************************************************************)
(* The registry over the store, for any processes, scans, readings and     *)
(* failures of memory: it implements the store, so the theorems of the     *)
(* store hold of it; no state outlives the entry it was made under; and a  *)
(* metric is that of the last two samples of its process.                  *)
(***************************************************************************)
EXTENDS AlertRegistry, SampleStore_proofs, FiniteSetTheorems

States == [id : Procs, policy : DOMAIN PolicyMetrics, born : Nat]

\* A sample is of a cycle that has begun.
Dated == \A p \in Procs : \A k \in DOMAIN log[p] : log[p][k] \in 1 .. cycle

\* Before the tick, what was recorded in this cycle has its sample last.
Fresh == ~ticking => \A p \in recorded : log[p] # <<>> /\ Latest(p) = cycle

\* What the stage of the cycle says of the store, the scan and the metrics.
Staged ==
    /\ stage \in {"insert", "evaluate", "tick", "gc"}
    /\ ticking <=> stage = "tick"
    /\ place \in Nat \ {0}
    /\ dropped \subseteq Procs
    /\ \A p \in dropped : log[p] = <<>>
    /\ \/ metrics = NoMetrics
       \/ /\ stage = "evaluate"
          /\ \E p \in scanned : metrics = [id |-> p, values |-> values_of(p)]

\* The states are of distinct pairs, made under the entry of their process or
\* under none; there is one where the walk has been, and when it is over.
Registered ==
    /\ reg \in Seq(States)
    /\ \A k, l \in DOMAIN reg :
        reg[k].id = reg[l].id /\ reg[k].policy = reg[l].policy => k = l
    /\ \A k \in DOMAIN reg :
        /\ log[reg[k].id] # <<>> => log[reg[k].id][1] <= reg[k].born
        /\ stage = "insert" \/ (stage = "gc" /\ k < place) => log[reg[k].id] # <<>>

RegistryInv == StoreInv /\ Dated /\ Fresh /\ Staged /\ Registered

-----------------------------------------------------------------------------
\* Types and ranges, for the provers.
LEMMA RegistryFacts ==
    ASSUME RegistryInv, StoreAssumption, RegistryAssumption
    PROVE  /\ Procs \subseteq Nat /\ cycle \in 1 .. Cycles + 1 /\ Cycles \in Nat
           /\ log \in [Procs -> Seq(Nat)] /\ recorded \subseteq Procs
           /\ scanned \subseteq Procs
           /\ reg \in Seq(States) /\ Len(reg) \in Nat /\ DOMAIN reg = 1 .. Len(reg)
           /\ \A k \in DOMAIN reg : /\ reg[k] \in States /\ reg[k].id \in Procs
                                    /\ log[reg[k].id] \in Seq(Nat)
<1>1. /\ Procs \subseteq Nat /\ cycle \in 1 .. Cycles + 1 /\ Cycles \in Nat
      /\ log \in [Procs -> Seq(Nat)] /\ recorded \subseteq Procs
  BY DEF RegistryInv, StoreInv, StoreTypeOK, StoreAssumption, RegistryAssumption
<1>2. scanned \subseteq Procs
  BY <1>1 DEF RegistryInv, Staged, scanned
<1>3. reg \in Seq(States)
  BY DEF RegistryInv, Registered
<1>4. /\ Len(reg) \in Nat /\ DOMAIN reg = 1 .. Len(reg)
      /\ \A k \in DOMAIN reg : reg[k] \in States
  BY <1>3
<1>5. \A k \in DOMAIN reg : reg[k].id \in Procs
  BY <1>4 DEF States
<1> QED BY <1>1, <1>2, <1>3, <1>4, <1>5

\* The steps of the registry leave the store alone or are its own.
LEMMA RegistryStepIsStoreStep ==
    ASSUME [RegistryNext]_registryvars
    PROVE  [Next]_vars
<1>1. ASSUME InsertDropped \/ InsertDone \/ EvaluateSample \/ GcKeep \/ GcFree \/ GcDone
             \/ UNCHANGED registryvars
      PROVE  UNCHANGED vars
  BY <1>1 DEF InsertDropped, InsertDone, EvaluateSample, GcKeep, GcFree, GcDone,
              Collecting, registryvars
<1>2. ASSUME InsertSample PROVE \E p \in Procs : Insert(p)
  BY <1>2 DEF InsertSample
<1>3. ASSUME StartTick \/ Tick \/ FinishTick
      PROVE  TickBegin \/ TickSeen \/ TickAge \/ TickFree \/ TickEnd
  BY <1>3 DEF StartTick, Tick, FinishTick
<1> QED BY <1>1, <1>2, <1>3 DEF RegistryNext, Next

\* The history of one process.
LEMMA LogOf ==
    ASSUME RegistryInv, StoreAssumption, RegistryAssumption, NEW p \in Procs
    PROVE  /\ log[p] \in Seq(Nat) /\ Len(log[p]) \in Nat
           /\ DOMAIN log[p] = 1 .. Len(log[p])
<1>1. log \in [Procs -> Seq(Nat)]
  BY RegistryFacts
<1>2. log[p] \in Seq(Nat)
  BY <1>1, Zenon
<1> QED BY <1>2, LenProperties, Zenon

\* id_in_store asks for one sample: there is one as long as there is an entry.
LEMMA InStore ==
    ASSUME RegistryInv, StoreAssumption, RegistryAssumption, NEW p \in Procs
    PROVE  id_in_store(p) <=> log[p] # <<>>
<1>1. log[p] \in Seq(Nat) /\ Len(log[p]) \in Nat
  BY LogOf
<1>2. get_history(p, 1) = Recent(log[p], 1)
  <2>1. StoreInv
    BY DEF RegistryInv
  <2> QED BY <2>1, HistoryIs
<1>3. Recent(log[p], 1) \in Seq(Nat) /\ Len(Recent(log[p], 1)) = Take(log[p], 1)
  BY <1>1, RecentFacts
<1>4. Take(log[p], 1) = 0 <=> Len(log[p]) = 0
  BY <1>1, SMTT(30) DEF Take, Kept, StoreAssumption
<1>5. Recent(log[p], 1) = <<>> <=> log[p] = <<>>
  BY <1>1, <1>3, <1>4, EmptySeq
<1> QED BY <1>2, <1>5 DEF id_in_store

\* What a process measures is read from the store and the clock alone.
LEMMA SameValues ==
    ASSUME UNCHANGED vars, NEW p
    PROVE  values_of(p)' = values_of(p)
BY DEF vars, values_of, sample_before, get_history, Places, first_idx

-----------------------------------------------------------------------------
\* A step that changes neither log nor cycle keeps the samples dated.
LEMMA DatedStays ==
    ASSUME RegistryInv, UNCHANGED <<log, cycle>>
    PROVE  Dated'
BY DEF RegistryInv, Dated

\* The sample of the present cycle is last; the first one stays.
LEMMA AppendDated ==
    ASSUME NEW s \in Seq(Nat), NEW c \in Nat \ {0}, \A k \in DOMAIN s : s[k] \in 1 .. c
    PROVE  /\ \A k \in DOMAIN Append(s, c) : Append(s, c)[k] \in 1 .. c
           /\ s # <<>> => Append(s, c)[1] = s[1]
<1> DEFINE t == Append(s, c)
           n == Len(s)
<1>1. /\ n \in Nat /\ DOMAIN s = 1 .. n /\ t \in Seq(Nat) /\ Len(t) = n + 1
      /\ t[n + 1] = c
  BY AppendProperties, LenProperties
<1>2. \A k \in 1 .. n : t[k] = s[k]
  BY AppendProperties
<1>3. DOMAIN t = 1 .. n + 1
  BY <1>1
<1>4. s # <<>> => n # 0
  BY EmptySeq
<1> HIDE DEF t, n
<1>5. ASSUME NEW k \in DOMAIN t PROVE t[k] \in 1 .. c
  <2>1. CASE k = n + 1
    BY <1>1, <2>1
  <2>2. CASE k # n + 1
    <3>1. k \in 1 .. n
      BY <1>1, <1>3, <1>5, <2>2
    <3> QED BY <1>1, <1>2, <3>1
  <2> QED BY <2>1, <2>2
<1>6. s # <<>> => t[1] = s[1]
  BY <1>1, <1>2, <1>4
<1> QED BY <1>5, <1>6 DEF t

\* A sample goes to the end of the history of its process, which is no dropped one.
LEMMA InsertSampleInv ==
    ASSUME RegistryInv, StoreInv', StoreAssumption, RegistryAssumption, InsertSample
    PROVE  RegistryInv'
<1>1. PICK p \in Procs : Insert(p) /\ \A q \in scanned : q < p
  BY DEF InsertSample
<1>2. /\ stage = "insert" /\ UNCHANGED <<stage, reg, place, dropped, metrics>>
      /\ ~ticking /\ ticking' = ticking /\ cycle' = cycle
      /\ recorded' = recorded \cup {p}
  BY <1>1 DEF InsertSample, registry, Insert
<1>3. /\ p \in Nat /\ cycle \in 1 .. Cycles + 1 /\ Cycles \in Nat /\ log[p] \in Seq(Nat)
      /\ DOMAIN reg = 1 .. Len(reg) /\ \A k \in DOMAIN reg : reg[k].id \in Procs
      /\ recorded \subseteq Procs /\ dropped \subseteq Procs
  BY <1>1, RegistryFacts DEF RegistryInv, Staged
<1>4. /\ log'[p] = Append(log[p], cycle) /\ log'[p] # <<>> /\ Latest(p)' = cycle
      /\ \A q \in Procs \ {p} : log'[q] = log[q] /\ Latest(q)' = Latest(q)
  BY <1>1, InsertLog DEF RegistryInv
<1>5. p \notin scanned
  BY <1>1, <1>3
<1>6. \A k \in DOMAIN log[p] : log[p][k] \in 1 .. cycle
  BY DEF RegistryInv, Dated
<1>7. Dated'
  <2>1. /\ \A k \in DOMAIN log'[p] : log'[p][k] \in 1 .. cycle
        /\ log[p] # <<>> => log'[p][1] = log[p][1]
    <3>1. cycle \in Nat \ {0}
      BY <1>3
    <3>2. /\ \A k \in DOMAIN Append(log[p], cycle) : Append(log[p], cycle)[k] \in 1 .. cycle
          /\ log[p] # <<>> => Append(log[p], cycle)[1] = log[p][1]
      BY <1>3, <1>6, <3>1, AppendDated
    <3> QED BY <1>4, <3>2
  <2>2. ASSUME NEW q \in Procs, q # p
        PROVE  \A k \in DOMAIN log'[q] : log'[q][k] \in 1 .. cycle
    <3>1. \A k \in DOMAIN log[q] : log[q][k] \in 1 .. cycle
      BY DEF RegistryInv, Dated
    <3> QED BY <1>4, <2>2, <3>1
  <2>3. \A q \in Procs : \A k \in DOMAIN log'[q] : log'[q][k] \in 1 .. cycle
    BY <2>1, <2>2
  <2> QED BY <1>2, <2>3 DEF Dated
<1>8. Fresh'
  <2> SUFFICES ASSUME NEW q \in recorded'
               PROVE  log'[q] # <<>> /\ Latest(q)' = cycle
    BY <1>2 DEF Fresh
  <2>1. CASE q = p
    BY <1>4, <2>1
  <2>2. CASE q # p
    <3>1. q \in recorded /\ q \in Procs \ {p}
      BY <1>2, <1>3, <2>2
    <3>2. log[q] # <<>> /\ Latest(q) = cycle
      BY <1>2, <3>1 DEF RegistryInv, Fresh
    <3> QED BY <1>4, <3>1, <3>2
  <2> QED BY <2>1, <2>2
<1>9. Staged'
  <2>1. metrics = NoMetrics
    BY <1>2 DEF RegistryInv, Staged
  <2>2. \A q \in dropped : log'[q] = <<>>
    BY <1>3, <1>4, <1>5 DEF RegistryInv, Staged, scanned
  <2> QED BY <1>2, <2>1, <2>2 DEF RegistryInv, Staged, NoMetrics
<1>10. Registered'
  <2>1. ASSUME NEW k \in DOMAIN reg
        PROVE  log'[reg[k].id] # <<>> /\ log'[reg[k].id][1] <= reg[k].born
    <3>1. log[reg[k].id] # <<>> /\ log[reg[k].id][1] <= reg[k].born
      BY <1>2, <2>1 DEF RegistryInv, Registered
    <3>2. CASE reg[k].id = p
      <4>1. log'[p][1] = log[p][1]
        BY <1>3, <1>4, <1>6, <3>1, <3>2, AppendDated, SMTT(60)
      <4> QED BY <1>4, <3>1, <3>2, <4>1
    <3>3. CASE reg[k].id # p
      BY <1>3, <1>4, <2>1, <3>1, <3>3
    <3> QED BY <3>2, <3>3
  <2>2. /\ reg \in Seq(States)
        /\ \A k, l \in DOMAIN reg :
             reg[k].id = reg[l].id /\ reg[k].policy = reg[l].policy => k = l
    BY DEF RegistryInv, Registered
  <2> QED BY <1>2, <2>1, <2>2 DEF Registered, States
<1> QED BY <1>7, <1>8, <1>9, <1>10 DEF RegistryInv

\* A process the store has no memory for has no sample.
LEMMA InsertDroppedInv ==
    ASSUME RegistryInv, StoreInv', StoreAssumption, RegistryAssumption, InsertDropped
    PROVE  RegistryInv'
<1>1. PICK p \in Procs : Places(p) = {} /\ dropped' = dropped \cup {p}
  BY DEF InsertDropped
<1>2. /\ UNCHANGED vars /\ UNCHANGED <<stage, reg, place, metrics>> /\ stage = "insert"
  BY DEF InsertDropped
<1>3. log[p] = <<>>
  BY <1>1 DEF RegistryInv, StoreInv, OneEntry
<1>4. UNCHANGED <<log, cycle, ticking, recorded>>
  BY <1>2 DEF vars
<1>5. Staged'
  BY <1>1, <1>2, <1>3, <1>4 DEF RegistryInv, Staged, NoMetrics
<1>6. Fresh' /\ Registered'
  BY <1>2, <1>4 DEF RegistryInv, Fresh, Latest, Registered, States
<1> QED BY <1>4, <1>5, <1>6, DatedStays DEF RegistryInv

\* The scan is over.
LEMMA InsertDoneInv ==
    ASSUME RegistryInv, StoreInv', StoreAssumption, RegistryAssumption, InsertDone
    PROVE  RegistryInv'
<1>1. /\ UNCHANGED <<log, cycle, ticking, recorded>>
      /\ UNCHANGED <<reg, place, dropped, metrics>> /\ stage = "insert" /\ stage' = "evaluate"
  BY DEF InsertDone, vars
<1>2. Staged'
  BY <1>1 DEF RegistryInv, Staged, NoMetrics
<1>3. Fresh' /\ Registered'
  BY <1>1 DEF RegistryInv, Fresh, Latest, Registered, States
<1> QED BY <1>1, <1>2, <1>3, DatedStays DEF RegistryInv

-----------------------------------------------------------------------------
\* The new pairs of a catalog order are distinct pairs without a state.
LEMMA OrderFacts ==
    ASSUME RegistryAssumption, NEW served \in SUBSET DOMAIN PolicyMetrics,
           NEW order \in in_catalog_order(served)
    PROVE  \E n \in Nat : /\ DOMAIN order = 1 .. n /\ order \in [1 .. n -> served]
                          /\ \A j, k \in 1 .. n : order[j] = order[k] => j = k
<1> DEFINE n == Cardinality(served)
<1>1. \E len \in Nat : DOMAIN PolicyMetrics = 1 .. len
  BY DEF RegistryAssumption
<1>2. IsFiniteSet(DOMAIN PolicyMetrics) /\ DOMAIN PolicyMetrics \subseteq Nat
  BY <1>1, FS_Interval
<1>3. IsFiniteSet(served) /\ served \subseteq Nat
  BY <1>2, FS_Subset
<1>4. n \in Nat
  BY <1>3, FS_CardinalityType
<1>5. order \in [1 .. n -> served] /\ \A j, k \in DOMAIN order : j < k => order[j] < order[k]
  BY DEF in_catalog_order
<1> HIDE DEF n
<1>6. ASSUME NEW j \in 1 .. n, NEW k \in 1 .. n, order[j] = order[k]
      PROVE  j = k
  <2>1. order[j] \in Nat /\ order[k] \in Nat /\ ~(j < k) /\ ~(k < j)
    BY <1>3, <1>5, <1>6
  <2> QED BY <1>4, <2>1
<1> QED BY <1>4, <1>5, <1>6

\* What is added to the registry: a state of each of these pairs, made now.
LEMMA UpsertKeeps ==
    ASSUME RegistryInv, StoreAssumption, RegistryAssumption, NEW p \in Procs,
           NEW served \in SUBSET new_pairs(p), NEW order \in in_catalog_order(served)
    PROVE  /\ upserted(p, order) \in Seq(States)
           /\ \A k, l \in DOMAIN upserted(p, order) :
                /\ upserted(p, order)[k].id = upserted(p, order)[l].id
                /\ upserted(p, order)[k].policy = upserted(p, order)[l].policy
                => k = l
           /\ \A k \in DOMAIN upserted(p, order) :
                LET s == upserted(p, order)[k]
                IN  log[s.id] # <<>> => log[s.id][1] <= s.born
<1> DEFINE new == [k \in DOMAIN order |-> [id |-> p, policy |-> order[k], born |-> cycle]]
           u == upserted(p, order)
           m == Len(reg)
<1>1. served \in SUBSET DOMAIN PolicyMetrics /\ \A pi \in served : find_idx(p, pi) = {}
  BY DEF new_pairs
<1>2. PICK n \in Nat : /\ DOMAIN order = 1 .. n /\ order \in [1 .. n -> served]
                        /\ \A j, k \in 1 .. n : order[j] = order[k] => j = k
  BY <1>1, OrderFacts
<1>3. /\ reg \in Seq(States) /\ m \in Nat /\ DOMAIN reg = 1 .. m /\ cycle \in Nat
      /\ \A k \in DOMAIN reg : reg[k].id \in Procs
  BY RegistryFacts, SMTT(60)
<1>4. \A k \in 1 .. n : new[k] = [id |-> p, policy |-> order[k], born |-> cycle]
                        /\ order[k] \in served /\ new[k] \in States
  BY <1>1, <1>2, <1>3 DEF States
<1>5. new \in Seq(States) /\ Len(new) = n
  <2>1. new \in [1 .. n -> States]
    BY <1>2, <1>4
  <2> HIDE DEF new
  <2> QED BY <1>2, <2>1
<1> HIDE DEF new, m
<1>6. u = reg \o new
  BY DEF upserted, new
<1>7. /\ u \in Seq(States) /\ Len(u) = m + n
      /\ \A k \in 1 .. m + n : u[k] = IF k <= m THEN reg[k] ELSE new[k - m]
  BY <1>3, <1>5, <1>6, ConcatProperties, SMTT(60) DEF m
<1>8. DOMAIN u = 1 .. m + n
  BY <1>2, <1>3, <1>7
<1> HIDE DEF u
<1>9. ASSUME NEW k \in DOMAIN u, k > m
      PROVE  /\ k - m \in 1 .. n /\ u[k] = new[k - m] /\ u[k].id = p
             /\ u[k].policy = order[k - m] /\ u[k].born = cycle
  <2>1. k - m \in 1 .. n /\ u[k] = new[k - m]
    BY <1>2, <1>3, <1>7, <1>8, <1>9, SMTT(60)
  <2>2. u[k] = [id |-> p, policy |-> order[k - m], born |-> cycle]
    BY <1>4, <2>1
  <2> QED BY <2>1, <2>2
<1>10. ASSUME NEW k \in DOMAIN u, ~(k > m)
       PROVE  k \in DOMAIN reg /\ u[k] = reg[k]
  BY <1>2, <1>3, <1>7, <1>8, <1>10
<1>11. ASSUME NEW k \in DOMAIN u, NEW l \in DOMAIN u, k > m, ~(l > m),
              u[k].id = u[l].id, u[k].policy = u[l].policy
       PROVE  FALSE
  <2>1. l \in find_idx(p, order[k - m])
    BY <1>9, <1>10, <1>11 DEF find_idx
  <2>2. find_idx(p, order[k - m]) = {}
    BY <1>1, <1>4, <1>9, <1>11
  <2> QED BY <2>1, <2>2
<1>12. ASSUME NEW k \in DOMAIN u, NEW l \in DOMAIN u,
              u[k].id = u[l].id, u[k].policy = u[l].policy
       PROVE  k = l
  <2>1. CASE k > m /\ l > m
    <3>1. k - m \in 1 .. n /\ l - m \in 1 .. n /\ order[k - m] = order[l - m]
      BY <1>9, <1>12, <2>1
    <3>2. k - m = l - m
      BY <1>2, <3>1
    <3> QED BY <1>2, <1>3, <1>8, <3>2
  <2>2. CASE ~(k > m) /\ ~(l > m)
    <3>1. /\ k \in DOMAIN reg /\ l \in DOMAIN reg
          /\ reg[k].id = reg[l].id /\ reg[k].policy = reg[l].policy
      BY <1>10, <1>12, <2>2
    <3> QED BY <3>1 DEF RegistryInv, Registered
  <2> QED BY <1>11, <1>12, <2>1, <2>2
<1>13. ASSUME NEW k \in DOMAIN u, log[u[k].id] # <<>>
       PROVE  log[u[k].id][1] <= u[k].born
  <2>1. CASE k > m
    <3>1. log[p] \in Seq(Nat) /\ log[p] # <<>>
      BY <1>9, <1>13, <2>1, RegistryFacts
    <3>2. 1 \in DOMAIN log[p]
      BY <3>1, EmptySeq
    <3>3. log[p][1] \in 1 .. cycle
      BY <3>2 DEF RegistryInv, Dated
    <3> QED BY <1>3, <1>9, <2>1, <3>3, SMTT(60)
  <2>2. CASE ~(k > m)
    BY <1>10, <1>13, <2>2 DEF RegistryInv, Registered
  <2> QED BY <2>1, <2>2
<1> QED BY <1>7, <1>12, <1>13 DEF u

\* evaluate computes the metrics of one process and adds its states.
LEMMA EvaluateSampleInv ==
    ASSUME RegistryInv, StoreInv', StoreAssumption, RegistryAssumption, EvaluateSample
    PROVE  RegistryInv'
<1>1. PICK p \in scanned \ evaluated :
        /\ metrics' = [id |-> p, values |-> values_of(p)]
        /\ \E served \in SUBSET new_pairs(p) :
             \E order \in in_catalog_order(served) : reg' = upserted(p, order)
  BY DEF EvaluateSample
<1>2. /\ UNCHANGED vars /\ UNCHANGED <<stage, place, dropped>> /\ stage = "evaluate"
      /\ UNCHANGED <<log, cycle, ticking, recorded>>
  BY DEF EvaluateSample, vars
<1>3. p \in Procs
  BY RegistryFacts
<1>4. Staged'
  <2>1. metrics' = [id |-> p, values |-> values_of(p)'] /\ p \in scanned'
    BY <1>1, <1>2, SameValues DEF scanned
  <2>2. \E q \in scanned' : metrics' = [id |-> q, values |-> values_of(q)']
    BY <2>1
  <2> QED BY <1>2, <2>2 DEF RegistryInv, Staged
<1>5. Registered'
  <2>0. PICK served \in SUBSET new_pairs(p) :
            \E order \in in_catalog_order(served) : reg' = upserted(p, order)
    BY <1>1
  <2>1. PICK order \in in_catalog_order(served) : reg' = upserted(p, order)
    BY <2>0
  <2>2. /\ reg' \in Seq(States)
        /\ \A k, l \in DOMAIN reg' :
             reg'[k].id = reg'[l].id /\ reg'[k].policy = reg'[l].policy => k = l
        /\ \A k \in DOMAIN reg' :
             log[reg'[k].id] # <<>> => log[reg'[k].id][1] <= reg'[k].born
    BY <1>3, <2>1, UpsertKeeps
  <2> QED BY <1>2, <2>2 DEF Registered, States
<1>6. Fresh'
  BY <1>2 DEF RegistryInv, Fresh, Latest
<1> QED BY <1>2, <1>4, <1>5, <1>6, DatedStays DEF RegistryInv

\* The tick begins when every process of the scan was evaluated.
LEMMA StartTickInv ==
    ASSUME RegistryInv, StoreInv', StoreAssumption, RegistryAssumption, StartTick
    PROVE  RegistryInv'
<1>1. /\ UNCHANGED <<log, cycle, recorded, reg, place>> /\ ticking' = TRUE
      /\ dropped' = {} /\ metrics' = NoMetrics /\ stage = "evaluate" /\ stage' = "tick"
  BY DEF StartTick, TickBegin
<1>2. Staged'
  BY <1>1 DEF RegistryInv, Staged, NoMetrics
<1>3. Fresh' /\ Registered'
  BY <1>1 DEF RegistryInv, Fresh, Registered, States
<1> QED BY <1>1, <1>2, <1>3, DatedStays DEF RegistryInv

\* The tick takes the samples of a process only all at once.
LEMMA TickInv ==
    ASSUME RegistryInv, StoreInv', StoreAssumption, RegistryAssumption, Tick
    PROVE  RegistryInv'
<1>1. /\ UNCHANGED <<stage, reg, place, dropped, metrics>> /\ stage = "tick"
      /\ UNCHANGED <<cycle, ticking, recorded>> /\ ticking
  BY DEF Tick, registry, TickSeen, TickAge, TickFree, Walking
<1>2. log \in [Procs -> Seq(Nat)] /\ dropped \subseteq Procs
      /\ \A k \in DOMAIN reg : reg[k].id \in Procs
  BY RegistryFacts DEF RegistryInv, Staged
<1>3. \A p \in Procs : log'[p] = log[p] \/ log'[p] = <<>>
  BY <1>2 DEF Tick, TickSeen, TickAge, TickFree
<1>4. Dated'
  <2> SUFFICES ASSUME NEW p \in Procs, NEW k \in DOMAIN log'[p]
               PROVE  log'[p][k] \in 1 .. cycle
    BY <1>1 DEF Dated
  <2>1. CASE log'[p] = log[p]
    BY <2>1 DEF RegistryInv, Dated
  <2>2. CASE log'[p] = <<>>
    BY <2>2
  <2> QED BY <1>3, <2>1, <2>2
<1>5. Staged'
  <2>1. metrics = NoMetrics
    BY <1>1 DEF RegistryInv, Staged
  <2>2. \A p \in dropped : log'[p] = <<>>
    BY <1>2, <1>3 DEF RegistryInv, Staged
  <2> QED BY <1>1, <2>1, <2>2 DEF RegistryInv, Staged, NoMetrics
<1>6. Registered'
  <2>1. ASSUME NEW k \in DOMAIN reg, log'[reg[k].id] # <<>>
        PROVE  log'[reg[k].id][1] <= reg[k].born
    <3>1. log'[reg[k].id] = log[reg[k].id]
      BY <1>2, <1>3, <2>1
    <3> QED BY <2>1, <3>1 DEF RegistryInv, Registered
  <2>2. /\ reg \in Seq(States)
        /\ \A k, l \in DOMAIN reg :
             reg[k].id = reg[l].id /\ reg[k].policy = reg[l].policy => k = l
    BY DEF RegistryInv, Registered
  <2> QED BY <1>1, <2>1, <2>2 DEF Registered, States
<1>7. Fresh'
  BY <1>1 DEF Fresh
<1> QED BY <1>4, <1>5, <1>6, <1>7 DEF RegistryInv

\* The walk of the gc begins in front of the first state.
LEMMA FinishTickInv ==
    ASSUME RegistryInv, StoreInv', StoreAssumption, RegistryAssumption, FinishTick
    PROVE  RegistryInv'
<1>1. /\ UNCHANGED <<log, reg, dropped, metrics>> /\ ticking' = FALSE /\ recorded' = {}
      /\ cycle' = cycle + 1 /\ place' = 1 /\ stage = "tick" /\ stage' = "gc"
  BY DEF FinishTick, TickEnd
<1>2. cycle \in Nat /\ DOMAIN reg \subseteq Nat \ {0}
  BY RegistryFacts, SMTT(60)
<1>3. Dated'
  <2> SUFFICES ASSUME NEW p \in Procs, NEW k \in DOMAIN log[p]
               PROVE  log[p][k] \in 1 .. cycle + 1
    BY <1>1 DEF Dated
  <2>1. log[p][k] \in 1 .. cycle
    BY DEF RegistryInv, Dated
  <2> QED BY <1>2, <2>1, SMTT(60)
<1>4. Staged'
  BY <1>1 DEF RegistryInv, Staged, NoMetrics
<1>5. Registered'
  <2>1. \A k \in DOMAIN reg : ~(k < 1)
    BY <1>2
  <2> QED BY <1>1, <2>1 DEF RegistryInv, Registered, States
<1>6. Fresh'
  BY <1>1 DEF Fresh
<1> QED BY <1>3, <1>4, <1>5, <1>6 DEF RegistryInv

\* A state whose process is in the store stays, and the walk goes on.
LEMMA GcKeepInv ==
    ASSUME RegistryInv, StoreInv', StoreAssumption, RegistryAssumption, GcKeep
    PROVE  RegistryInv'
<1>1. /\ UNCHANGED <<log, cycle, ticking, recorded, stage, reg, dropped, metrics>>
      /\ stage = "gc" /\ place <= Len(reg) /\ place' = place + 1
      /\ id_in_store(reg[place].id)
  BY DEF GcKeep, Collecting, vars
<1>2. /\ place \in Nat \ {0} /\ DOMAIN reg = 1 .. Len(reg) /\ Len(reg) \in Nat
      /\ \A k \in DOMAIN reg : reg[k].id \in Procs
  BY RegistryFacts DEF RegistryInv, Staged
<1>3. place \in DOMAIN reg
  BY <1>1, <1>2
<1>4. log[reg[place].id] # <<>>
  BY <1>1, <1>2, <1>3, InStore
<1>5. Registered'
  <2>1. ASSUME NEW k \in DOMAIN reg, k < place + 1
        PROVE  log[reg[k].id] # <<>>
    <3>1. k < place \/ k = place
      BY <1>2, <2>1
    <3> QED BY <1>1, <1>4, <3>1 DEF RegistryInv, Registered
  <2> QED BY <1>1, <2>1 DEF RegistryInv, Registered, States
<1>6. Staged'
  BY <1>1, <1>2, SMTT(60) DEF RegistryInv, Staged, NoMetrics
<1>7. Fresh'
  BY <1>1 DEF RegistryInv, Fresh, Latest
<1> QED BY <1>1, <1>5, <1>6, <1>7, DatedStays DEF RegistryInv

\* The last state takes the place of the one that is freed, and is looked at next.
LEMMA GcFreeInv ==
    ASSUME RegistryInv, StoreInv', StoreAssumption, RegistryAssumption, GcFree
    PROVE  RegistryInv'
<1> DEFINE last == Len(reg)
<1>1. /\ UNCHANGED <<log, cycle, ticking, recorded, stage, place, dropped, metrics>>
      /\ stage = "gc" /\ place <= last /\ reg' = swapped
  BY DEF GcFree, Collecting, vars
<1>2. /\ place \in Nat \ {0} /\ DOMAIN reg = 1 .. last /\ last \in Nat
      /\ reg \in Seq(States) /\ \A k \in DOMAIN reg : reg[k] \in States
  BY RegistryFacts DEF RegistryInv, Staged
<1> HIDE DEF last
<1>3. place \in 1 .. last
  BY <1>1, <1>2
<1>4. /\ \A j \in 1 .. last - 1 : /\ Origin(j, place, last) \in 1 .. last
                                   /\ (Origin(j, place, last) < place <=> j < place)
      /\ \A j, k \in 1 .. last - 1 :
           Origin(j, place, last) = Origin(k, place, last) => j = k
  BY <1>2, <1>3, SwapFacts
<1>5. /\ DOMAIN reg' = 1 .. last - 1
      /\ \A j \in 1 .. last - 1 : reg'[j] = reg[Origin(j, place, last)]
  BY <1>1 DEF swapped, Origin, last
<1>6. reg' \in Seq(States)
  <2>1. last - 1 \in Nat
    BY <1>2, <1>3
  <2>2. \A j \in 1 .. last - 1 : reg'[j] \in States
    BY <1>2, <1>4, <1>5
  <2>3. reg' = [j \in 1 .. last - 1 |-> reg'[j]]
    BY <1>1 DEF swapped, last
  <2>4. reg' \in [1 .. last - 1 -> States]
    BY <2>2, <2>3
  <2>5. \E n \in Nat : reg' \in [1 .. n -> States]
    BY <2>1, <2>4
  <2> QED BY <2>5
<1>7. ASSUME NEW j \in DOMAIN reg', NEW k \in DOMAIN reg',
             reg'[j].id = reg'[k].id, reg'[j].policy = reg'[k].policy
      PROVE  j = k
  <2> DEFINE f == Origin(j, place, last)
             g == Origin(k, place, last)
  <2>1. j \in 1 .. last - 1 /\ k \in 1 .. last - 1
    BY <1>5
  <2>2. f \in DOMAIN reg /\ g \in DOMAIN reg /\ reg'[j] = reg[f] /\ reg'[k] = reg[g]
    BY <1>2, <1>4, <1>5, <2>1
  <2> HIDE DEF f, g
  <2>3. f = g
    BY <1>7, <2>2 DEF RegistryInv, Registered
  <2> QED BY <1>4, <2>1, <2>3 DEF f, g
<1>8. ASSUME NEW j \in DOMAIN reg'
      PROVE  /\ log[reg'[j].id] # <<>> => log[reg'[j].id][1] <= reg'[j].born
             /\ j < place => log[reg'[j].id] # <<>>
  <2> DEFINE f == Origin(j, place, last)
  <2>1. j \in 1 .. last - 1
    BY <1>5
  <2>2. f \in DOMAIN reg /\ reg'[j] = reg[f] /\ (j < place => f < place)
    BY <1>2, <1>4, <1>5, <2>1
  <2> HIDE DEF f
  <2> QED BY <1>1, <2>2 DEF RegistryInv, Registered
<1>9. Registered'
  BY <1>1, <1>6, <1>7, <1>8 DEF Registered, States
<1>10. Staged'
  BY <1>1 DEF RegistryInv, Staged, NoMetrics
<1>11. Fresh'
  BY <1>1 DEF RegistryInv, Fresh, Latest
<1> QED BY <1>1, <1>9, <1>10, <1>11, DatedStays DEF RegistryInv

\* Behind the last state, every state has its process.
LEMMA GcDoneInv ==
    ASSUME RegistryInv, StoreInv', StoreAssumption, RegistryAssumption, GcDone
    PROVE  RegistryInv'
<1>1. /\ UNCHANGED <<log, cycle, ticking, recorded, reg, place, dropped, metrics>>
      /\ stage = "gc" /\ stage' = "insert" /\ place > Len(reg)
  BY DEF GcDone, vars, registry
<1>2. place \in Nat /\ \A k \in DOMAIN reg : k \in 1 .. Len(reg) /\ Len(reg) \in Nat
  BY RegistryFacts DEF RegistryInv, Staged
<1>3. \A k \in DOMAIN reg : k < place
  BY <1>1, <1>2
<1>4. Registered'
  BY <1>1, <1>3 DEF RegistryInv, Registered, States
<1>5. Staged'
  BY <1>1 DEF RegistryInv, Staged, NoMetrics
<1>6. Fresh'
  BY <1>1 DEF RegistryInv, Fresh, Latest
<1> QED BY <1>1, <1>4, <1>5, <1>6, DatedStays DEF RegistryInv

-----------------------------------------------------------------------------
\* The invariant holds before the first scan.
LEMMA RegistryInitInv ==
    ASSUME RegistryInit, StoreAssumption, RegistryAssumption
    PROVE  RegistryInv
<1>1. /\ Init /\ stage = "insert" /\ reg = <<>> /\ place = 1 /\ dropped = {}
      /\ metrics = NoMetrics
  BY DEF RegistryInit
<1>2. /\ ticking = FALSE /\ recorded = {} /\ \A p \in Procs : log[p] = <<>>
  BY <1>1 DEF Init
<1>3. StoreInv
  BY <1>1, StoreInitInv
<1>4. Dated
  <2>1. DOMAIN <<>> = {}
    OBVIOUS
  <2>2. \A p \in Procs : DOMAIN log[p] = {}
    BY <1>2, <2>1
  <2> QED BY <2>2 DEF Dated
<1>5. Fresh /\ Staged
  BY <1>1, <1>2 DEF Fresh, Staged
<1>6. Registered
  <2>1. reg \in Seq(States) /\ DOMAIN reg = {}
    BY <1>1, EmptySeq
  <2> QED BY <2>1 DEF Registered
<1> QED BY <1>3, <1>4, <1>5, <1>6 DEF RegistryInv

\* Every step keeps it.
LEMMA RegistryStep ==
    ASSUME RegistryInv, StoreAssumption, RegistryAssumption, [RegistryNext]_registryvars
    PROVE  RegistryInv'
<1>1. StoreInv'
  BY RegistryStepIsStoreStep, StoreStep DEF RegistryInv
<1>2. CASE InsertSample
  BY <1>1, <1>2, InsertSampleInv
<1>3. CASE InsertDropped
  BY <1>1, <1>3, InsertDroppedInv
<1>4. CASE InsertDone
  BY <1>1, <1>4, InsertDoneInv
<1>5. CASE EvaluateSample
  BY <1>1, <1>5, EvaluateSampleInv
<1>6. CASE StartTick
  BY <1>1, <1>6, StartTickInv
<1>7. CASE Tick
  BY <1>1, <1>7, TickInv
<1>8. CASE FinishTick
  BY <1>1, <1>8, FinishTickInv
<1>9. CASE GcKeep
  BY <1>1, <1>9, GcKeepInv
<1>10. CASE GcFree
  BY <1>1, <1>10, GcFreeInv
<1>11. CASE GcDone
  BY <1>1, <1>11, GcDoneInv
<1>12. CASE UNCHANGED registryvars
  <2>1. /\ UNCHANGED <<log, cycle, ticking, recorded, stage, reg, place, dropped, metrics>>
        /\ UNCHANGED vars
    BY <1>12 DEF registryvars, registry, vars
  <2>2. Fresh' /\ Registered'
    BY <2>1 DEF RegistryInv, Fresh, Latest, Registered, States
  <2>3. \A p \in scanned : values_of(p)' = values_of(p)
    BY <2>1, SameValues
  <2>4. scanned' = scanned
    BY <2>1 DEF scanned
  <2>5. Staged'
    BY <2>1, <2>3, <2>4 DEF RegistryInv, Staged, NoMetrics
  <2> QED BY <1>1, <2>1, <2>2, <2>5, DatedStays DEF RegistryInv
<1> QED BY <1>2, <1>3, <1>4, <1>5, <1>6, <1>7, <1>8, <1>9, <1>10, <1>11, <1>12
        DEF RegistryNext

\* The invariant of the registry and its store (run_cycle, pg_alert_state_gc).
THEOREM RegistryInvariant == RegistrySpec => []RegistryInv
<1> USE StoreAssumption, RegistryAssumption
<1>1. RegistryInit => RegistryInv
  BY RegistryInitInv
<1>2. RegistryInv /\ [RegistryNext]_registryvars => RegistryInv'
  BY RegistryStep
<1> QED BY <1>1, <1>2, PTL DEF RegistrySpec

(***************************************************************************)
(* The composition is a behaviour of the store: what is proved of the      *)
(* store alone, its histories and its grace, holds in the cycle of main.   *)
(***************************************************************************)
THEOREM RegistryImplementsStore == RegistrySpec => Spec
<1>1. RegistryInit => Init
  BY DEF RegistryInit
<1>2. [RegistryNext]_registryvars => [Next]_vars
  BY RegistryStepIsStoreStep
<1> QED BY <1>1, <1>2, PTL DEF RegistrySpec, Spec

\* Between cycles every state is of a pair of its own, made under the present
\* entry of its process.
THEOREM StatesFollowStore == RegistrySpec => []RegistryFollowsStore
<1>1. RegistryInv => RegistryFollowsStore
  BY DEF RegistryInv, Registered, RegistryFollowsStore
<1> QED BY <1>1, RegistryInvariant, PTL

-----------------------------------------------------------------------------
Measured == [time : Nat, cpu : Nat, io : Nat, rss : Nat]

\* A quotient is rounded down.
LEMMA Quotient ==
    ASSUME NEW x \in Nat, NEW d \in Nat \ {0}
    PROVE  x \div d \in Nat /\ (x \div d) * d <= x /\ ((x \div d) + 1) * d > x
<1>1. x \div d \in Int
  OBVIOUS
<1>2. x = d * (x \div d) + (x % d) /\ x % d \in 0 .. d - 1
  OBVIOUS
<1>3. x \div d \in Nat
  BY <1>1
<1> QED BY <1>1, <1>2, <1>3

\* pg_metrics_io_rates, on samples in the order of their times.
LEMMA IoRateIs ==
    ASSUME NEW s \in Measured, NEW t \in Measured, s.time <= t.time
    PROVE  RateOf(s, t, io_rate(s, t))
<1> DEFINE d == t.time - s.time
           x == 1000 * (t.io - s.io)
<1>1. /\ s.time \in Nat /\ t.time \in Nat /\ s.io \in Nat /\ t.io \in Nat
      /\ elapsed(s, t) = d /\ d \in Nat
  BY DEF Measured, elapsed
<1>2. CASE d = 0
  BY <1>1, <1>2 DEF io_rate, RateOf
<1>3. CASE d # 0 /\ t.io < s.io
  BY <1>1, <1>3 DEF io_rate, RateOf
<1>4. CASE d # 0 /\ ~(t.io < s.io)
  <2>1. x \in Nat /\ d \in Nat \ {0} /\ t.time > s.time
    BY <1>1, <1>4
  <2>2. io_rate(s, t) = x \div d
    BY <1>1, <1>4 DEF io_rate
  <2> HIDE DEF x, d
  <2>3. x \div d \in Nat /\ (x \div d) * d <= x /\ ((x \div d) + 1) * d > x
    BY <2>1, Quotient
  <2>4. /\ io_rate(s, t) >= 0 /\ io_rate(s, t) * d <= x /\ (io_rate(s, t) + 1) * d > x
    BY <2>2, <2>3
  <2> USE DEF x, d
  <2> HIDE DEF io_rate
  <2> QED BY <2>1, <2>4 DEF RateOf
<1> QED BY <1>2, <1>3, <1>4

\* Products keep the order of their factors.
LEMMA ProductsGrow ==
    ASSUME NEW d \in Nat, NEW p \in Nat, NEW q \in Nat, p <= q
    PROVE  p * d <= q * d
<1>1. q = p + (q - p) /\ q - p \in Nat
  OBVIOUS
<1>2. q * d = p * d + (q - p) * d
  BY <1>1
<1>3. (q - p) * d \in Nat /\ p * d \in Nat
  BY <1>1
<1> QED BY <1>2, <1>3

\* pg_metrics_cpu_percent, which looks at the counter, then at the time, and stops
\* at every processor at full.
LEMMA CpuPercentIs ==
    ASSUME MetricsAssumption, NEW s \in Measured, NEW t \in Measured, s.time <= t.time
    PROVE  UsageOf(s, t, cpu_percent(s, t))
<1> DEFINE d == t.time - s.time
           delta == t.cpu - s.cpu
           one == d * hz
           had == 100 * 1000 * delta
           pct == had \div one
           full == 100 * ncpus
<1>1. /\ s.time \in Nat /\ t.time \in Nat /\ s.cpu \in Nat /\ t.cpu \in Nat
      /\ elapsed(s, t) = d /\ d \in Nat /\ delta \in Int
      /\ hz \in Nat \ {0} /\ full \in Nat /\ Sentinel = -1
  BY DEF Measured, elapsed, MetricsAssumption, Sentinel
<1>2. cpu_percent(s, t) = CASE delta < 0 -> Sentinel
                            [] delta >= 0 /\ d = 0 -> 0
                            [] OTHER -> IF pct > full THEN full ELSE pct
  BY <1>1 DEF cpu_percent
<1>3. CASE delta < 0
  <2>1. cpu_percent(s, t) = Sentinel /\ t.cpu < s.cpu
    BY <1>1, <1>2, <1>3
  <2> QED BY <2>1 DEF UsageOf
<1>4. CASE delta >= 0 /\ d = 0
  <2>1. cpu_percent(s, t) = 0 /\ t.cpu >= s.cpu /\ t.time = s.time
    BY <1>1, <1>2, <1>4
  <2> QED BY <2>1 DEF UsageOf
<1>5. CASE delta >= 0 /\ d # 0
  <2>1. one \in Nat \ {0} /\ had \in Nat /\ t.cpu >= s.cpu /\ t.time > s.time
    BY <1>1, <1>5
  <2>2. pct \in Nat /\ pct * one <= had /\ (pct + 1) * one > had
    <3> HIDE DEF one, had
    <3> QED BY <2>1, Quotient
  <2> DEFINE v == cpu_percent(s, t)
  <2>3. v = IF pct > full THEN full ELSE pct
    <3> HIDE DEF pct, full, one, had
    <3> QED BY <1>1, <1>2, <1>5
  <2>4. full * one \in Nat /\ (pct > full => full * one <= pct * one)
    <3> HIDE DEF pct, full, one, had
    <3>1. full * one \in Nat
      BY <1>1, <2>1
    <3> QED BY <3>1, <1>1, <2>1, <2>2, ProductsGrow
  <2>5. v \in 0 .. full /\ v * one <= had /\ (v < full => (v + 1) * one > had)
    <3> HIDE DEF v, pct, full, one, had
    <3>1. CASE pct > full
      <4>1. v = full
        BY <2>3, <3>1
      <4>2. pct * one \in Nat /\ full * one <= had
        BY <2>1, <2>2, <2>4, <3>1
      <4> QED BY <1>1, <4>1, <4>2
    <3>2. CASE ~(pct > full)
      <4>1. v = pct
        BY <2>3, <3>2
      <4> QED BY <1>1, <2>2, <3>2, <4>1
    <3> QED BY <3>1, <3>2
  <2> HIDE DEF v
  <2> QED BY <2>1, <2>5 DEF UsageOf, v
<1> QED BY <1>1, <1>3, <1>4, <1>5

\* The sample before is the last but one of the entry, if there are two; the
\* store needs room for both.
LEMMA SampleBeforeIs ==
    ASSUME RegistryInv, StoreAssumption, RegistryAssumption, NPerProc >= 2,
           NEW p \in Procs
    PROVE  LET l == log[p]
           IN  /\ Len(l) < 2 => sample_before(p) = {}
               /\ Len(l) >= 2 => sample_before(p) = {Readings[l[Len(l) - 1]]}
<1> DEFINE l == log[p]
           n == Len(l)
           hist == get_history(p, 2)
<1>1. l \in Seq(Nat) /\ n \in Nat /\ NPerProc \in Nat
  <2>1. NPerProc \in Nat
    BY DEF StoreAssumption
  <2> QED BY <2>1, LogOf, Zenon
<1>2. hist = Recent(l, 2)
  <2>1. StoreInv
    BY DEF RegistryInv
  <2> QED BY <2>1, HistoryIs
<1>3. /\ Len(hist) = Take(l, 2)
      /\ \A k \in 1 .. Take(l, 2) : hist[k] = l[n - Take(l, 2) + k]
  <2>1. /\ Len(Recent(l, 2)) = Take(l, 2)
        /\ \A k \in 1 .. Take(l, 2) : Recent(l, 2)[k] = l[Len(l) - Take(l, 2) + k]
    <3> HIDE DEF l
    <3> QED BY <1>1, RecentFacts
  <2> QED BY <1>2, <2>1
<1>4. Take(l, 2) = IF n < 2 THEN n ELSE 2
  BY <1>1, SMTT(60) DEF Take, Kept
<1>5. sample_before(p) = IF Len(hist) = 2 THEN {Readings[hist[1]]} ELSE {}
  BY DEF sample_before
<1> HIDE DEF hist, l, n
<1>6. n < 2 => sample_before(p) = {}
  BY <1>1, <1>3, <1>4, <1>5
<1>7. ASSUME n >= 2 PROVE sample_before(p) = {Readings[l[n - 1]]}
  <2>1. Len(hist) = 2 /\ Take(l, 2) = 2 /\ 1 \in 1 .. Take(l, 2)
    BY <1>1, <1>3, <1>4, <1>7
  <2>2. hist[1] = l[n - 2 + 1] /\ n - 2 + 1 = n - 1
    BY <1>1, <1>3, <2>1, SMTT(60)
  <2> QED BY <1>5, <2>1, <2>2
<1> QED BY <1>6, <1>7 DEF l, n

\* What MetricOfLastTwo asks of the value v of a metric m with the history l.
Right(m, l, v) ==
    CASE m = "mem_rss" -> v = Readings[cycle].rss
      [] Len(l) < 2 /\ m # "mem_rss" -> v = Sentinel
      [] Len(l) >= 2 /\ m = "cpu_percent" ->
            UsageOf(Readings[l[Len(l) - 1]], Readings[l[Len(l)]], v)
      [] OTHER -> RateOf(Readings[l[Len(l) - 1]], Readings[l[Len(l)]], v)

\* Its four cases are all there are.
LEMMA RightIs ==
    ASSUME NEW m, NEW l, NEW v, Len(l) \in Nat
    PROVE  /\ m = "mem_rss" => (Right(m, l, v) <=> v = Readings[cycle].rss)
           /\ m # "mem_rss" /\ Len(l) < 2 => (Right(m, l, v) <=> v = Sentinel)
           /\ m = "cpu_percent" /\ ~(Len(l) < 2) =>
                (Right(m, l, v) <=>
                    UsageOf(Readings[l[Len(l) - 1]], Readings[l[Len(l)]], v))
           /\ m # "mem_rss" /\ m # "cpu_percent" /\ ~(Len(l) < 2) =>
                (Right(m, l, v) <=>
                    RateOf(Readings[l[Len(l) - 1]], Readings[l[Len(l)]], v))
<1> DEFINE n == Len(l)
           rate == RateOf(Readings[l[n - 1]], Readings[l[n]], v)
           first == v = Readings[cycle].rss
           none == v = Sentinel
           cpu == UsageOf(Readings[l[n - 1]], Readings[l[n]], v)
<1>1. n \in Nat
  OBVIOUS
<1>2. Right(m, l, v) = CASE m = "mem_rss" -> first
                         [] n < 2 /\ m # "mem_rss" -> none
                         [] n >= 2 /\ m = "cpu_percent" -> cpu
                         [] OTHER -> rate
  BY DEF Right
<1> HIDE DEF n, rate, first, none, cpu
<1>3. m = "mem_rss" => (Right(m, l, v) <=> first)
  BY <1>1, <1>2
<1>4. m # "mem_rss" /\ n < 2 => (Right(m, l, v) <=> none)
  BY <1>1, <1>2
<1>5. m = "cpu_percent" /\ ~(n < 2) => (Right(m, l, v) <=> cpu)
  BY <1>1, <1>2
<1>6. m # "mem_rss" /\ m # "cpu_percent" /\ ~(n < 2) => (Right(m, l, v) <=> rate)
  BY <1>1, <1>2
<1> QED BY <1>3, <1>4, <1>5, <1>6 DEF n, rate, first, none, cpu

\* What evaluate computes of a process of the scan is right for its history.
LEMMA ValuesAreRight ==
    ASSUME RegistryInv, StoreAssumption, RegistryAssumption, MetricsAssumption,
           NPerProc >= 2, ~ticking, NEW p \in scanned, NEW pi \in DOMAIN PolicyMetrics
    PROVE  Right(PolicyMetrics[pi], log[p], values_of(p)[pi])
<1> DEFINE l == log[p]
           n == Len(l)
           v == values_of(p)[pi]
           m == PolicyMetrics[pi]
           s == Readings[l[n - 1]]
           t == Readings[cycle]
<1>1. p \in Procs /\ l \in Seq(Nat) /\ n \in Nat /\ DOMAIN l = 1 .. n
  <2>1. p \in Procs
    BY RegistryFacts
  <2> QED BY <2>1, LogOf, Zenon
<1>2. v = metric_current(m, sample_before(p), t)
  BY DEF values_of
<1>3. /\ n < 2 => sample_before(p) = {}
      /\ n >= 2 => sample_before(p) = {s}
  BY <1>1, SampleBeforeIs
<1>4. \A k \in 1 .. n : l[k] \in 1 .. cycle
  BY <1>1 DEF RegistryInv, Dated
<1>5. /\ \A c \in 1 .. cycle : Readings[c] \in Measured /\ Readings[c].time <= t.time
      /\ t \in Measured
  <2>1. /\ Readings \in Seq(Measured) /\ Len(Readings) = Cycles + 1
        /\ \A c, d \in DOMAIN Readings : c <= d => Readings[c].time <= Readings[d].time
    BY DEF RegistryAssumption, Measured
  <2>2. cycle \in 1 .. Cycles + 1 /\ Cycles \in Nat
    BY RegistryFacts
  <2>3. DOMAIN Readings = 1 .. Cycles + 1 /\ \A c \in DOMAIN Readings : Readings[c] \in Measured
    BY <2>1, <2>2
  <2>4. cycle \in DOMAIN Readings /\ 1 .. cycle \subseteq DOMAIN Readings
    BY <2>2, <2>3
  <2> HIDE DEF t
  <2>5. ASSUME NEW c \in 1 .. cycle
        PROVE  Readings[c] \in Measured /\ Readings[c].time <= Readings[cycle].time
    <3>1. c \in DOMAIN Readings /\ c <= cycle
      BY <2>2, <2>4
    <3> QED BY <2>1, <2>3, <2>4, <3>1
  <2> QED BY <2>3, <2>4, <2>5 DEF t
<1>6. ASSUME n >= 2
      PROVE  s \in Measured /\ s.time <= t.time /\ l[n] = cycle
  <2>1. n - 1 \in 1 .. n
    BY <1>1, <1>6, SMTT(30)
  <2>2. l[n - 1] \in 1 .. cycle
    BY <1>4, <2>1
  <2>3. p \in recorded
    <3>1. l # <<>>
      BY <1>6, EmptySeq
    <3> QED BY <3>1 DEF scanned, RegistryInv, Staged
  <2>4. l[n] = cycle
    BY <2>3 DEF RegistryInv, Fresh, Latest
  <2> QED BY <1>5, <2>2, <2>4
<1>7. m \in {"cpu_percent", "mem_rss", "io_read_rate", "io_write_rate"}
  BY DEF RegistryAssumption
<1> HIDE DEF l, n, v, m, s, t
<1> USE DEF n
<1>8. CASE m = "mem_rss"
  <2>1. v = t.rss
    BY <1>2, <1>8 DEF metric_current
  <2>2. v = Readings[cycle].rss
    BY <2>1 DEF t
  <2> QED BY <1>1, <1>8, <2>2, RightIs DEF l, v, m
<1>9. CASE m # "mem_rss" /\ n < 2
  <2>1. v = Sentinel
    BY <1>2, <1>3, <1>9 DEF metric_current
  <2> QED BY <1>1, <1>9, <2>1, RightIs DEF l, v, m
<1>10. CASE m = "cpu_percent" /\ ~(n < 2)
  <2>1. n >= 2 /\ sample_before(p) = {s}
    BY <1>1, <1>3, <1>10, SMTT(60)
  <2>2. v = cpu_percent(s, t)
    BY <1>2, <1>10, <2>1 DEF metric_current
  <2>3. UsageOf(s, t, v)
    BY <1>5, <1>6, <2>1, <2>2, CpuPercentIs
  <2>4. t = Readings[l[n]]
    BY <1>6, <2>1 DEF t
  <2>5. UsageOf(Readings[l[n - 1]], Readings[l[n]], v)
    BY <2>3, <2>4 DEF s
  <2> QED BY <1>1, <1>10, <2>5, RightIs DEF l, v, m
<1>11. CASE m \in {"io_read_rate", "io_write_rate"} /\ ~(n < 2)
  <2>1. n >= 2 /\ sample_before(p) = {s}
    BY <1>1, <1>3, <1>11, SMTT(60)
  <2>2. v = io_rate(s, t)
    BY <1>2, <1>11, <2>1 DEF metric_current
  <2>3. RateOf(s, t, v)
    BY <1>5, <1>6, <2>1, <2>2, IoRateIs
  <2>4. t = Readings[l[n]] /\ m # "mem_rss" /\ m # "cpu_percent"
    BY <1>6, <1>11, <2>1 DEF t
  <2>5. RateOf(Readings[l[n - 1]], Readings[l[n]], v)
    BY <2>3, <2>4 DEF s
  <2> QED BY <1>1, <1>11, <2>4, <2>5, RightIs DEF l, v, m
<1> QED BY <1>7, <1>8, <1>9, <1>10, <1>11

\* Where the store has room for two samples, the value of every metric is that
\* of the last two of its process, to one unit and in the order in which the code
\* tests them; a smaller sample_buffer leaves the sentinel for ever.
THEOREM MetricsAreOfLastTwo ==
    ASSUME NPerProc >= 2
    PROVE  RegistrySpec => []MetricOfLastTwo
<1> USE StoreAssumption, RegistryAssumption, MetricsAssumption
<1>1. RegistryInv => MetricOfLastTwo
  <2> SUFFICES ASSUME RegistryInv PROVE MetricOfLastTwo
    OBVIOUS
  <2>1. CASE metrics = NoMetrics
    <3>1. DOMAIN metrics.values = {}
      BY <2>1 DEF NoMetrics
    <3> QED BY <3>1 DEF MetricOfLastTwo
  <2>2. CASE metrics # NoMetrics
    <3>1. PICK p \in scanned : metrics = [id |-> p, values |-> values_of(p)]
      BY <2>2 DEF RegistryInv, Staged
    <3>2. ~ticking
      BY <2>2 DEF RegistryInv, Staged
    <3>3. metrics.id = p /\ metrics.values = values_of(p)
      BY <3>1
    <3>4. DOMAIN values_of(p) = DOMAIN PolicyMetrics
      BY DEF values_of
    <3>5. \A pi \in DOMAIN PolicyMetrics : Right(PolicyMetrics[pi], log[p], values_of(p)[pi])
      BY <3>2, ValuesAreRight
    <3> QED BY <3>3, <3>4, <3>5 DEF MetricOfLastTwo, Right
  <2> QED BY <2>1, <2>2
<1> QED BY <1>1, RegistryInvariant, PTL
=============================================================================
