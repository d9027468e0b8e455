---------------------------- MODULE SampleStore ----------------------------
(***************************************************************************)
(* The sample store of src/store: an array of entries, one per process,    *)
(* each with a circular buffer of NPerProc samples and the grace count     *)
(* that decides when the entry is freed. A sample is the number of the     *)
(* cycle that took it. pg_store_tick walks the array and compacts it on    *)
(* the way: one action per entry.                                          *)
(***************************************************************************)
EXTENDS Integers, Sequences

CONSTANTS Procs,     \* process identities, (pid, starttime)
          NPerProc,  \* [global] sample_buffer
          Grace,     \* PG_GRACE_CYCLES
          Cycles     \* bound on the cycles of a behaviour

ASSUME StoreAssumption ==
    /\ NPerProc \in Nat \ {0}
    /\ Grace \in Nat \ {0}
    /\ Cycles \in Nat

Slots == 0 .. NPerProc - 1

VARIABLES
    entries,    \* the array, its first n_entries elements
    cycle,      \* the cycle under way
    ticking,    \* pg_store_tick is walking the array
    idx,        \* where its walk is
    recorded,   \* the processes inserted since the last tick
    log         \* history: every sample of the process since its entry began

vars == <<entries, cycle, ticking, idx, recorded, log>>

Entries == [id : Procs, samples : [Slots -> Nat], head : Slots,
            count : 0 .. NPerProc, absent_cycles : Nat, seen_this_tick : BOOLEAN]

Init ==
    /\ entries = <<>> /\ cycle = 1 /\ ticking = FALSE /\ idx = 1
    /\ recorded = {} /\ log = [p \in Procs |-> <<>>]

-----------------------------------------------------------------------------
Places(p) == {k \in DOMAIN entries : entries[k].id = p}

\* calloc: an empty buffer, and an entry that no tick has aged.
NewEntry(p) ==
    [id |-> p, samples |-> [s \in Slots |-> 0], head |-> 0, count |-> 0,
     absent_cycles |-> 0, seen_this_tick |-> FALSE]

\* A bug: the count goes on when the buffer is full.
write_counts_on(e, sample) ==
    [e EXCEPT !.samples[e.head] = sample,
              !.head = (@ + 1) % NPerProc,
              !.count = @ + 1]

\* The slot at the head is overwritten: once full, it is the oldest.
write(e, sample) ==
    [e EXCEPT !.samples[e.head] = sample,
              !.head = (@ + 1) % NPerProc,
              !.count = IF @ < NPerProc THEN @ + 1 ELSE @]

\* pg_store_insert. Only an entry that existed is marked as seen. A process for
\* which create_entry has no memory is one that is not inserted in this cycle.
Insert(p) ==
    /\ ~ticking /\ p \notin recorded
    /\ entries' = IF Places(p) = {}
                  THEN Append(entries, write(NewEntry(p), cycle))
                  ELSE [k \in DOMAIN entries |->
                          IF k \in Places(p)
                          THEN [write(entries[k], cycle) EXCEPT !.seen_this_tick = TRUE]
                          ELSE entries[k]]
    /\ recorded' = recorded \cup {p}
    /\ log' = [log EXCEPT ![p] = Append(@, cycle)]
    /\ UNCHANGED <<cycle, ticking, idx>>

-----------------------------------------------------------------------------
\* A bug: the oldest of the samples taken is one slot too late.
first_idx_late(e, take) == (e.head + NPerProc - take + 1) % NPerProc

\* Where the oldest of the last take samples is.
first_idx(e, take) == (e.head + NPerProc - take) % NPerProc

\* pg_store_get_history: the last buf_cap samples, oldest first.
get_history(p, buf_cap) ==
    IF Places(p) = {} THEN <<>>
    ELSE LET e == entries[CHOOSE k \in Places(p) : TRUE]
             take == IF buf_cap < e.count THEN buf_cap ELSE e.count
         IN  [n \in 1 .. take |-> e.samples[(first_idx(e, take) + n - 1) % NPerProc]]

-----------------------------------------------------------------------------
TickBegin ==
    /\ ~ticking /\ cycle <= Cycles
    /\ ticking' = TRUE /\ idx' = 1
    /\ UNCHANGED <<entries, cycle, recorded, log>>

Walking == ticking /\ idx <= Len(entries)

TickSeen ==
    /\ Walking /\ entries[idx].seen_this_tick
    /\ entries' = [entries EXCEPT ![idx].seen_this_tick = FALSE,
                                  ![idx].absent_cycles = 0]
    /\ idx' = idx + 1
    /\ UNCHANGED <<cycle, ticking, recorded, log>>

\* A bug: an entry is freed one cycle early.
expired_early(e) == e.absent_cycles + 1 >= Grace

expired(e) == e.absent_cycles + 1 > Grace

TickAge ==
    /\ Walking /\ ~entries[idx].seen_this_tick /\ ~expired(entries[idx])
    /\ entries' = [entries EXCEPT ![idx].absent_cycles = @ + 1]
    /\ idx' = idx + 1
    /\ UNCHANGED <<cycle, ticking, recorded, log>>

\* A bug: the last entry is cut off without taking the free place.
free_entry_at_no_move(k) == [j \in 1 .. Len(entries) - 1 |-> entries[j]]

\* The last entry takes the place of the one that is freed.
free_entry_at(k) ==
    [j \in 1 .. Len(entries) - 1 |->
        IF j = k THEN entries[Len(entries)] ELSE entries[j]]

\* A bug: the entry swapped in is not looked at in this tick.
TickFree_steps_over ==
    /\ Walking /\ ~entries[idx].seen_this_tick /\ expired(entries[idx])
    /\ entries' = free_entry_at(idx)
    /\ log' = [log EXCEPT ![entries[idx].id] = <<>>]
    /\ idx' = idx + 1
    /\ UNCHANGED <<cycle, ticking, recorded>>

TickFree ==
    /\ Walking /\ ~entries[idx].seen_this_tick /\ expired(entries[idx])
    /\ entries' = free_entry_at(idx)
    /\ log' = [log EXCEPT ![entries[idx].id] = <<>>]
    /\ UNCHANGED <<cycle, ticking, idx, recorded>>

TickEnd ==
    /\ ticking /\ idx > Len(entries)
    /\ ticking' = FALSE /\ cycle' = cycle + 1 /\ recorded' = {}
    /\ UNCHANGED <<entries, idx, log>>

Next == \/ \E p \in Procs : Insert(p)
        \/ TickBegin \/ TickSeen \/ TickAge \/ TickFree \/ TickEnd

Spec == Init /\ [][Next]_vars

-----------------------------------------------------------------------------
StoreTypeOK ==
    /\ entries \in Seq(Entries)
    /\ cycle \in 1 .. Cycles + 1 /\ ticking \in BOOLEAN /\ idx \in Nat \ {0}
    /\ recorded \subseteq Procs
    /\ log \in [Procs -> Seq(Nat)]

(***************************************************************************)
(* Whatever was overwritten, freed and inserted again, and whatever the    *)
(* compaction moved, the history of a process is the last samples taken of *)
(* it since its entry began, oldest first, for every size of buffer that   *)
(* asks (pg_store_insert, pg_store_get_history, free_entry_at).            *)
(***************************************************************************)
HistoryIsLast ==
    \A p \in Procs, n \in 1 .. NPerProc + 1 :
        LET len == Len(log[p])
            kept == IF len < NPerProc THEN len ELSE NPerProc
            take == IF n < kept THEN n ELSE kept
        IN  get_history(p, n) = SubSeq(log[p], len - take + 1, len)

(***************************************************************************)
(* The grace window. Outside the walk, a process with an entry was         *)
(* recorded in the last Grace + 1 cycles, and its entry is freed no sooner *)
(* than the tick of the Grace-th cycle without it: the walk that compacts  *)
(* ages every entry exactly once per tick (pg_store_tick).                 *)
(***************************************************************************)
Absent(p) == cycle - log[p][Len(log[p])]   \* the cycle under way included

GraceUpper ==
    ~ticking => \A p \in Procs : log[p] # <<>> => Absent(p) <= Grace + 1

GraceLower ==
    [][\A p \in Procs :
        log[p] # <<>> /\ log'[p] = <<>> => Absent(p) >= Grace]_vars

History == INSTANCE ProcessHistory
    WITH hist <- [p \in Procs |-> get_history(p, NPerProc)],
         Samples <- 1 .. Cycles + 1, Depth <- NPerProc

(***************************************************************************)
(* The array of circular buffers implements the history per process: a     *)
(* sample goes to its own process, the swap that compacts moves no sample  *)
(* to another, and only a process not recorded since the last tick is      *)
(* forgotten.                                                              *)
(***************************************************************************)
HistorySpec == History!Spec
=============================================================================
