----------------------------- MODULE EventQueue -----------------------------
(***************************************************************************)
(* The bounded queue of src/ipc: pg_inotify_event_queue_t and              *)
(* pg_command_queue_t, whose push and pop are the same code on two types.  *)
(* Any number of threads push and pop; inside the mutex each assignment    *)
(* group of push, and each turn of the loop of pop, is an action. The n-th *)
(* element pushed is the number n.                                         *)
(***************************************************************************)
EXTENDS Integers, Sequences

CONSTANTS Producers, Consumers,
          Free,        \* the mutex when no thread holds it
          Capacity,    \* capacity
          BufCaps,     \* the buf_cap a consumer may pass
          MaxPushes    \* bound on the pushes of a behaviour

ASSUME QueueAssumption ==
    /\ Capacity \in Nat \ {0}
    /\ BufCaps \subseteq Nat \ {0}
    /\ MaxPushes \in Nat
    /\ Producers \cap Consumers = {}
    /\ Free \notin Producers \cup Consumers

Threads == Producers \cup Consumers
Slots == 0 .. Capacity - 1

VARIABLES
    mu,                             \* who holds the mutex
    buf, head, tail, count, dropped,
    pc,                             \* where each thread is
    want,                           \* n of a pop
    taken,                          \* the buffer a consumer fills
    pushed,                         \* pushes stored so far
    popped                          \* history: what pops returned, in order

queuevars == <<buf, head, tail, count, dropped>>
vars == <<mu, queuevars, pc, want, taken, pushed, popped>>

Init ==
    /\ mu = Free
    /\ buf = [s \in Slots |-> 0] /\ head = 0 /\ tail = 0 /\ count = 0 /\ dropped = 0
    /\ pc = [t \in Threads |-> "idle"]
    /\ want = [t \in Consumers |-> 0] /\ taken = [t \in Consumers |-> <<>>]
    /\ pushed = 0 /\ popped = <<>>

goto(t, label) == pc' = [pc EXCEPT ![t] = label]

\* A bug: the mutex is not waited for.
lock_not_taken(t) == mu' = t

lock(t) == mu = Free /\ mu' = t

-----------------------------------------------------------------------------
PushLock(t) ==
    /\ pc[t] = "idle" /\ pushed < MaxPushes
    /\ lock(t)
    /\ goto(t, "full?")
    /\ UNCHANGED <<queuevars, want, taken, pushed, popped>>

\* A bug: the drop is not counted.
drop_oldest_uncounted ==
    /\ head' = (head + 1) % Capacity
    /\ count' = count - 1
    /\ UNCHANGED dropped

drop_oldest ==
    /\ head' = (head + 1) % Capacity
    /\ count' = count - 1
    /\ dropped' = dropped + 1

DropOldest(t) ==
    /\ pc[t] = "full?" /\ count = Capacity
    /\ drop_oldest
    /\ goto(t, "dropped")
    /\ UNCHANGED <<mu, buf, tail, want, taken, pushed, popped>>

\* A bug: the element goes to the slot of the next pop.
store_at_head ==
    /\ buf' = [buf EXCEPT ![head] = pushed + 1]
    /\ tail' = (tail + 1) % Capacity
    /\ count' = count + 1

store ==
    /\ buf' = [buf EXCEPT ![tail] = pushed + 1]
    /\ tail' = (tail + 1) % Capacity
    /\ count' = count + 1

PushStore(t) ==
    /\ \/ pc[t] = "full?" /\ count < Capacity
       \/ pc[t] = "dropped"
    /\ store
    /\ pushed' = pushed + 1
    /\ goto(t, "stored")
    /\ UNCHANGED <<mu, head, dropped, want, taken, popped>>

PushUnlock(t) ==
    /\ pc[t] = "stored"
    /\ mu' = Free /\ goto(t, "idle")
    /\ UNCHANGED <<queuevars, want, taken, pushed, popped>>

-----------------------------------------------------------------------------
\* A bug: the batch is not bounded by what the queue holds.
batch_unbounded(buf_cap) == buf_cap

batch(buf_cap) == IF count < buf_cap THEN count ELSE buf_cap

\* The mutex is taken, and n is read while it is held.
PopLock(t) ==
    /\ pc[t] = "idle"
    /\ lock(t)
    /\ \E buf_cap \in BufCaps : want' = [want EXCEPT ![t] = batch(buf_cap)]
    /\ goto(t, "taking")
    /\ UNCHANGED <<queuevars, taken, pushed, popped>>

Take(t) ==
    /\ pc[t] = "taking" /\ Len(taken[t]) < want[t]
    /\ taken' = [taken EXCEPT ![t] = Append(@, buf[head])]
    /\ head' = (head + 1) % Capacity
    /\ UNCHANGED <<mu, buf, tail, count, dropped, pc, want, pushed, popped>>

PopCount(t) ==
    /\ pc[t] = "taking" /\ Len(taken[t]) = want[t]
    /\ count' = count - want[t]
    /\ popped' = popped \o taken[t]
    /\ taken' = [taken EXCEPT ![t] = <<>>] /\ want' = [want EXCEPT ![t] = 0]
    /\ goto(t, "counted")
    /\ UNCHANGED <<mu, buf, head, tail, dropped, pushed>>

PopUnlock(t) ==
    /\ pc[t] = "counted"
    /\ mu' = Free /\ goto(t, "idle")
    /\ UNCHANGED <<queuevars, want, taken, pushed, popped>>

Next ==
    \/ \E t \in Producers :
        PushLock(t) \/ DropOldest(t) \/ PushStore(t) \/ PushUnlock(t)
    \/ \E t \in Consumers :
        PopLock(t) \/ Take(t) \/ PopCount(t) \/ PopUnlock(t)

Spec == Init /\ [][Next]_vars

-----------------------------------------------------------------------------
QueueTypeOK ==
    /\ mu \in Threads \cup {Free}
    /\ buf \in [Slots -> Nat] /\ head \in Slots /\ tail \in Slots
    /\ count \in 0 .. Capacity /\ dropped \in Nat
    /\ pc \in [Threads -> {"idle", "full?", "dropped", "stored", "taking", "counted"}]
    /\ want \in [Consumers -> Nat] /\ taken \in [Consumers -> Seq(Nat)]
    /\ pushed \in 0 .. MaxPushes /\ popped \in Seq(Nat)

(***************************************************************************)
(* Nothing is lost without being counted and nothing is delivered twice:   *)
(* with the mutex free, every element pushed was popped, was dropped, or   *)
(* is in the queue.                                                        *)
(***************************************************************************)
Conservation == mu = Free => pushed = Len(popped) + dropped + count

(***************************************************************************)
(* Whatever threads pop, in batches of any size, the elements come out in  *)
(* the order they were pushed, and what is in the queue is newer than what *)
(* came out: an overflow drops the oldest, never a fresh element.          *)
(***************************************************************************)
contents == [k \in 1 .. count |-> buf[(head + k - 1) % Capacity]]

InOrder ==
    /\ \A j, k \in DOMAIN popped : j < k => popped[j] < popped[k]
    /\ mu = Free =>
        /\ \A k \in 1 .. count : contents[k] = pushed - count + k
        /\ count > 0 /\ popped # <<>> => popped[Len(popped)] < contents[1]

(***************************************************************************)
(* The queue as other threads see it. The thread that holds the mutex has  *)
(* its effect when it stores, or when it subtracts what it took: until     *)
(* then the element it dropped, or took, is still at the front.            *)
(***************************************************************************)
holder(label) == mu \in Threads /\ pc[mu] = label

visible ==
    IF holder("dropped")
    THEN <<buf[(head + Capacity - 1) % Capacity]>> \o contents
    ELSE IF holder("taking")
    THEN taken[mu] \o SubSeq(contents, 1, count - Len(taken[mu]))
    ELSE contents

Fifo == INSTANCE LossyFifo
    WITH Items <- 1 .. MaxPushes, queue <- visible,
         dropped <- IF holder("dropped") THEN dropped - 1 ELSE dropped

(***************************************************************************)
(* Every interleaving of pushes and pops is one of an atomic lossy FIFO.   *)
(***************************************************************************)
FifoSpec == Fifo!Spec
=============================================================================
