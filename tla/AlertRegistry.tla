--------------------------- MODULE AlertRegistry ---------------------------
(***************************************************************************)
(* The registry of alert states of src/alert/alert_state.c over the sample *)
(* store, in the order of run_cycle: insert, evaluate, tick, gc. evaluate  *)
(* takes the sample before from the store, computes the metric and makes   *)
(* the state of a pair on its first reading; the gc walks and compacts an  *)
(* array of pointers and asks the store for each. Only what ties a state   *)
(* to its process is here: its counters are AlertState's.                  *)
(***************************************************************************)
EXTENDS SampleStore, Metrics, FiniteSets

CONSTANTS PolicyMetrics,  \* the metric of each policy, in catalog order
          Readings,       \* what the sample of a cycle has measured
          MaxShortages    \* bound on the entries and states there is no memory for

ASSUME RegistryAssumption ==
    /\ Procs \subseteq Nat /\ MaxShortages \in Nat
    /\ PolicyMetrics \in
        Seq({"cpu_percent", "mem_rss", "io_read_rate", "io_write_rate"}) \ {<<>>}
    /\ Readings \in Seq([time : Nat, cpu : Nat, io : Nat, rss : Nat])
    /\ Len(Readings) = Cycles + 1
    /\ \A c, d \in DOMAIN Readings : c <= d => Readings[c].time <= Readings[d].time

VARIABLES
    stage,      \* "insert", "evaluate", "tick" or "gc"
    reg,        \* the array of states: their pair, and the cycle they were made in
    place,      \* where the walk of the gc is
    dropped,    \* the processes of this scan the store had no memory for
    evaluated,  \* the processes evaluated in this cycle
    shortages,  \* the entries and states there was no memory for
    metrics     \* history: the last metrics that were computed, and of whom

registry == <<reg, place, dropped, evaluated, shortages, metrics>>
registryvars == <<vars, stage, registry>>

NoMetrics == [id |-> 0, values |-> <<>>]

RegistryInit ==
    /\ Init
    /\ stage = "insert" /\ reg = <<>> /\ place = 1
    /\ dropped = {} /\ evaluated = {} /\ shortages = 0 /\ metrics = NoMetrics

-----------------------------------------------------------------------------
scanned == recorded \cup dropped

\* The processes of a scan come in the order of their pids.
InsertSample ==
    /\ stage = "insert"
    /\ \E p \in Procs : Insert(p) /\ \A q \in scanned : q < p
    /\ UNCHANGED <<stage, registry>>

\* create_entry has no memory; insert_all goes on, and the process is evaluated.
InsertDropped ==
    /\ stage = "insert" /\ shortages < MaxShortages
    /\ \E p \in Procs :
        /\ Places(p) = {} /\ \A q \in scanned : q < p
        /\ dropped' = dropped \cup {p}
    /\ shortages' = shortages + 1
    /\ UNCHANGED <<vars, stage, reg, place, evaluated, metrics>>

InsertDone ==
    /\ stage = "insert" /\ cycle <= Cycles
    /\ stage' = "evaluate" /\ evaluated' = {}
    /\ UNCHANGED <<vars, reg, place, dropped, shortages, metrics>>

find_idx(p, pi) == {k \in DOMAIN reg : reg[k].id = p /\ reg[k].policy = pi}

\* prev of pg_alert_evaluate.
sample_before(p) ==
    LET hist == get_history(p, 2)
    IN  IF Len(hist) = 2 THEN {Readings[hist[1]]} ELSE {}

\* The loop over the policies goes in catalog order.
in_catalog_order(new) ==
    {order \in [1 .. Cardinality(new) -> new] :
        \A j, k \in DOMAIN order : j < k => order[j] < order[k]}

\* pg_alert_state_upsert on the pairs of a process that have no state.
upserted(p, order) ==
    reg \o [k \in DOMAIN order |-> [id |-> p, policy |-> order[k], born |-> cycle]]

values_of(p) ==
    [pi \in DOMAIN PolicyMetrics |->
        metric_current(PolicyMetrics[pi], sample_before(p), Readings[cycle])]

\* The pairs of the process that have a reading and no state.
new_pairs(p) ==
    {pi \in DOMAIN PolicyMetrics : values_of(p)[pi] >= 0 /\ find_idx(p, pi) = {}}

\* Any of the new pairs may find no memory: it is frozen for this cycle.
EvaluateSample ==
    /\ stage = "evaluate"
    /\ \E p \in scanned \ evaluated :
        /\ \A q \in scanned \ evaluated : p <= q
        /\ metrics' = [id |-> p, values |-> values_of(p)]
        /\ \E served \in SUBSET new_pairs(p) :
            /\ \E order \in in_catalog_order(served) : reg' = upserted(p, order)
            /\ shortages' = shortages + Cardinality(new_pairs(p) \ served)
        /\ shortages' <= MaxShortages
        /\ evaluated' = evaluated \cup {p}
    /\ UNCHANGED <<vars, stage, place, dropped>>

\* act changes nothing here; then store_tick.
StartTick ==
    /\ stage = "evaluate" /\ evaluated = scanned
    /\ TickBegin
    /\ stage' = "tick" /\ dropped' = {} /\ metrics' = NoMetrics
    /\ UNCHANGED <<reg, place, evaluated, shortages>>

Tick ==
    /\ stage = "tick"
    /\ TickSeen \/ TickAge \/ TickFree
    /\ UNCHANGED <<stage, registry>>

FinishTick ==
    /\ stage = "tick"
    /\ TickEnd
    /\ stage' = "gc" /\ place' = 1
    /\ UNCHANGED <<reg, dropped, evaluated, shortages, metrics>>

-----------------------------------------------------------------------------
id_in_store(p) == get_history(p, 1) # <<>>

Collecting ==
    /\ stage = "gc" /\ place <= Len(reg)
    /\ UNCHANGED <<vars, stage, dropped, evaluated, shortages, metrics>>

GcKeep ==
    /\ Collecting /\ id_in_store(reg[place].id)
    /\ place' = place + 1
    /\ UNCHANGED reg

swapped == [k \in 1 .. Len(reg) - 1 |-> IF k = place THEN reg[Len(reg)] ELSE reg[k]]

\* A bug: the entry swapped in is not looked at.
GcFree_steps_over ==
    /\ Collecting /\ ~id_in_store(reg[place].id)
    /\ reg' = swapped /\ place' = place + 1

\* The last entry takes the place, and is looked at next.
GcFree ==
    /\ Collecting /\ ~id_in_store(reg[place].id)
    /\ reg' = swapped
    /\ UNCHANGED place

GcDone ==
    /\ stage = "gc" /\ place > Len(reg)
    /\ stage' = "insert"
    /\ UNCHANGED <<vars, registry>>

RegistryNext ==
    \/ InsertSample \/ InsertDropped \/ InsertDone \/ EvaluateSample \/ StartTick \/ Tick
    \/ FinishTick \/ GcKeep \/ GcFree \/ GcDone

RegistrySpec == RegistryInit /\ [][RegistryNext]_registryvars

-----------------------------------------------------------------------------
(***************************************************************************)
(* Between cycles the registry has each pair once, and only of processes   *)
(* whose entry in the store is the one the state was made under: no state  *)
(* is left behind by the walk, nor handed from a process that was          *)
(* forgotten to one that came back (pg_alert_state_gc, pg_store_tick).     *)
(***************************************************************************)
RegistryFollowsStore ==
    stage = "insert" =>
        \A k \in DOMAIN reg :
            /\ log[reg[k].id] # <<>> /\ log[reg[k].id][1] <= reg[k].born
            /\ \A l \in DOMAIN reg :
                reg[k].id = reg[l].id /\ reg[k].policy = reg[l].policy => k = l

(***************************************************************************)
(* Every metric is that of the last two samples of the process under its   *)
(* present entry, across cycles it missed, and frozen on the first. Each   *)
(* value is told without a division, by what it gives back: a rate times   *)
(* its interval the bytes, a usage times the jiffies of its interval those *)
(* the process had, short of one unit. An I/O counter gone back is seen    *)
(* only where time has passed, a cpu counter gone back in any case, and    *)
(* the usage stops at every processor at full (pg_alert_evaluate,          *)
(* pg_metrics_io_rates, pg_metrics_cpu_percent).                           *)
(***************************************************************************)
RateOf(s, t, v) ==
    \/ t.time = s.time /\ v = 0
    \/ t.time > s.time /\ t.io < s.io /\ v = Sentinel
    \/ /\ t.time > s.time /\ v >= 0
       /\ v * (t.time - s.time) <= 1000 * (t.io - s.io)
       /\ (v + 1) * (t.time - s.time) > 1000 * (t.io - s.io)

UsageOf(s, t, v) ==
    LET one == (t.time - s.time) * hz       \* one percent of one processor
        had == 100 * 1000 * (t.cpu - s.cpu)
    IN  \/ t.cpu < s.cpu /\ v = Sentinel
        \/ t.cpu >= s.cpu /\ t.time = s.time /\ v = 0
        \/ /\ t.cpu >= s.cpu /\ t.time > s.time
           /\ v \in 0 .. 100 * ncpus /\ v * one <= had
           /\ v < 100 * ncpus => (v + 1) * one > had

MetricOfLastTwo ==
    \A pi \in DOMAIN metrics.values :
        LET l == log[metrics.id]
            v == metrics.values[pi]
            before == Readings[l[Len(l) - 1]]
            last == Readings[l[Len(l)]]
        IN  CASE PolicyMetrics[pi] = "mem_rss" -> v = Readings[cycle].rss
              [] Len(l) < 2 /\ PolicyMetrics[pi] # "mem_rss" -> v = Sentinel
              [] Len(l) >= 2 /\ PolicyMetrics[pi] = "cpu_percent" ->
                    UsageOf(before, last, v)
              [] OTHER -> RateOf(before, last, v)
=============================================================================
