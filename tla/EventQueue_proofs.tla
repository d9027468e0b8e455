-------------------------- MODULE EventQueue_proofs --------------------------
(***************************************************************************)
(* The bounded queue for any number of threads, any capacity and any batch *)
(* size: its mutex excludes, its ring holds the last elements in the order *)
(* of their pushes, and so nothing is lost uncounted or delivered out of   *)
(* order, and it implements the atomic lossy FIFO.                         *)
(***************************************************************************)
EXTENDS EventQueue, SequenceTheorems, TLAPS

\* The slot of the k-th element from slot h on, without the remainder.
At(h, k) == IF h + k - 1 < Capacity THEN h + k - 1 ELSE h + k - 1 - Capacity

\* What the holder has taken and not subtracted from count yet.
InHand == IF mu \in Consumers THEN taken[mu] ELSE <<>>

Left == count - Len(InHand)

(***************************************************************************)
(* The inductive invariant: only the thread that holds the mutex is inside *)
(* push or pop; from the head on, the ring has the last elements pushed,   *)
(* after those in hand; and what came out is older than all of them.       *)
(***************************************************************************)
Exclusive ==
    /\ \A t \in Threads : pc[t] = "idle" <=> mu # t
    /\ \A t \in Producers : pc[t] \in {"idle", "full?", "dropped", "stored"}
    /\ \A t \in Consumers : pc[t] \in {"idle", "taking", "counted"}
    /\ \A t \in Consumers : pc[t] # "taking" => taken[t] = <<>>

Room ==
    /\ mu \in Producers /\ pc[mu] \in {"full?", "dropped"} => pushed < MaxPushes
    /\ mu \in Producers /\ pc[mu] = "dropped" =>
        count = Capacity - 1 /\ buf[At(head, Capacity)] = pushed - count
    /\ mu \in Consumers /\ pc[mu] = "taking" =>
        /\ Len(taken[mu]) <= want[mu]
        /\ \E buf_cap \in BufCaps : want[mu] = batch(buf_cap)

LastPushed ==
    /\ tail = At(head, Left + 1)
    /\ \A k \in 1 .. Left : buf[At(head, k)] = pushed - Left + k
    /\ \A k \in DOMAIN InHand : InHand[k] = pushed - count + k

Delivered ==
    /\ pushed = Len(popped) + dropped + count
    /\ \A j, k \in DOMAIN popped : j < k => popped[j] < popped[k]
    /\ \A j \in DOMAIN popped : popped[j] <= pushed - count

QueueInv == QueueTypeOK /\ Exclusive /\ Room /\ LastPushed /\ Delivered

-----------------------------------------------------------------------------
\* Up to one lap the remainder is a subtraction (push, pop).
LEMMA OneLap ==
    ASSUME NEW c \in Nat \ {0}, NEW x \in Nat, x < c + c
    PROVE  x % c = IF x < c THEN x ELSE x - c
OBVIOUS

\* The slot of an element, and the one the head goes to.
LEMMA SlotFacts ==
    ASSUME QueueAssumption, NEW h \in Slots
    PROVE  /\ \A k \in 1 .. Capacity + 1 : At(h, k) \in Slots
           /\ \A k \in 1 .. Capacity : (h + k - 1) % Capacity = At(h, k)
           /\ (h + 1) % Capacity = At(h, 2)
           /\ At(h, 1) = h /\ At(h, Capacity + 1) = h
           /\ \A k \in 1 .. Capacity : At(At(h, 2), k) = At(h, k + 1)
           /\ \A j, k \in 1 .. Capacity : At(h, j) = At(h, k) => j = k
           /\ \A k \in 1 .. Capacity : (At(h, k) + 1) % Capacity = At(h, k + 1)
<1>1. Capacity \in Nat \ {0} /\ h \in 0 .. Capacity - 1
  BY DEF QueueAssumption, Slots
<1>2. \A k \in 1 .. Capacity + 1 : At(h, k) \in Slots
  BY <1>1 DEF At, Slots
<1>3. \A k \in 1 .. Capacity : (h + k - 1) % Capacity = At(h, k)
  <2> TAKE k \in 1 .. Capacity
  <2> DEFINE x == h + k - 1
  <2>1. x \in Nat /\ x < Capacity + Capacity
    BY <1>1 DEF At
  <2> HIDE DEF x
  <2>2. x % Capacity = IF x < Capacity THEN x ELSE x - Capacity
    BY <1>1, <2>1, OneLap
  <2> QED BY <1>1, <2>2 DEF At, x
<1>4. (h + 1) % Capacity = At(h, 2)
  <2> DEFINE x == h + 1
  <2>1. x \in Nat /\ x < Capacity + Capacity
    BY <1>1 DEF At
  <2> HIDE DEF x
  <2>2. x % Capacity = IF x < Capacity THEN x ELSE x - Capacity
    BY <1>1, <2>1, OneLap
  <2> QED BY <1>1, <2>2 DEF At, x
<1>5. At(h, 1) = h /\ At(h, Capacity + 1) = h
  BY <1>1 DEF At
<1>6. \A k \in 1 .. Capacity : At(At(h, 2), k) = At(h, k + 1)
  BY <1>1 DEF At
<1>7. \A j, k \in 1 .. Capacity : At(h, j) = At(h, k) => j = k
  BY <1>1 DEF At
<1>8. \A k \in 1 .. Capacity : (At(h, k) + 1) % Capacity = At(h, k + 1)
  <2> TAKE k \in 1 .. Capacity
  <2> DEFINE x == At(h, k) + 1
  <2>1. x \in Nat /\ x < Capacity + Capacity
    BY <1>1 DEF At
  <2> HIDE DEF x
  <2>2. x % Capacity = IF x < Capacity THEN x ELSE x - Capacity
    BY <1>1, <2>1, OneLap
  <2> QED BY <1>1, <2>2 DEF At, x
<1> QED BY <1>2, <1>3, <1>4, <1>5, <1>6, <1>7, <1>8

-----------------------------------------------------------------------------
\* The numbers of the queue, for the arithmetic solver.
LEMMA QueueFacts ==
    ASSUME QueueInv, QueueAssumption
    PROVE  /\ Capacity \in Nat \ {0} /\ head \in Slots /\ tail \in Slots
           /\ buf \in [Slots -> Nat] /\ dropped \in Nat
           /\ count \in 0 .. Capacity /\ pushed \in 0 .. MaxPushes /\ MaxPushes \in Nat
           /\ popped \in Seq(Nat) /\ Len(popped) \in Nat /\ DOMAIN popped = 1 .. Len(popped)
           /\ InHand \in Seq(Nat) /\ Len(InHand) \in Nat /\ DOMAIN InHand = 1 .. Len(InHand)
           /\ Left \in 0 .. count /\ count <= pushed
<1>1. /\ Capacity \in Nat \ {0} /\ head \in Slots /\ tail \in Slots
      /\ buf \in [Slots -> Nat] /\ dropped \in Nat
      /\ count \in 0 .. Capacity /\ pushed \in 0 .. MaxPushes /\ MaxPushes \in Nat
      /\ popped \in Seq(Nat) /\ Len(popped) \in Nat /\ DOMAIN popped = 1 .. Len(popped)
  BY DEF QueueInv, QueueTypeOK, QueueAssumption
<1>2. InHand \in Seq(Nat)
  BY DEF QueueInv, QueueTypeOK, InHand
<1>3. Len(InHand) \in Nat /\ DOMAIN InHand = 1 .. Len(InHand)
  BY <1>2
<1>4. Len(InHand) <= count
  <2>1. CASE mu \in Consumers /\ pc[mu] = "taking"
    <3>1. InHand = taken[mu] /\ Len(taken[mu]) <= want[mu]
      BY <2>1 DEF InHand, QueueInv, Room
    <3>2. PICK buf_cap \in BufCaps : want[mu] = batch(buf_cap)
      BY <2>1 DEF QueueInv, Room
    <3>3. buf_cap \in Nat
      BY DEF QueueAssumption
    <3>4. want[mu] \in Nat /\ want[mu] <= count
      BY <1>1, <3>2, <3>3 DEF batch
    <3> QED BY <1>1, <1>3, <3>1, <3>4
  <2>2. CASE ~(mu \in Consumers /\ pc[mu] = "taking")
    <3>1. InHand = <<>>
      BY <2>2 DEF InHand, QueueInv, Exclusive
    <3> QED BY <1>1, <3>1
  <2> QED BY <2>1, <2>2
<1>5. count <= pushed
  BY <1>1 DEF QueueInv, Delivered
<1> QED BY <1>1, <1>2, <1>3, <1>4, <1>5 DEF Left

\* A thread inside push or pop holds the mutex; one that locks found it free.
LEMMA HolderFacts ==
    ASSUME QueueInv, QueueAssumption, NEW t \in Threads
    PROVE  /\ pc[t] # "idle" => mu = t
           /\ t \in Producers => t \notin Consumers /\ pc[t] \notin {"taking", "counted"}
           /\ t \in Consumers => t \notin Producers
                /\ pc[t] \notin {"full?", "dropped", "stored"}
           /\ Free \notin Threads
BY DEF QueueInv, Exclusive, QueueAssumption, Threads

\* A step that changes nobody's buffer and leaves the ring alone: a thread
\* takes the mutex, or gives it back with nothing in hand.
LEMMA MutexStep ==
    ASSUME QueueInv, QueueAssumption, NEW t \in Threads, NEW label,
           goto(t, label), UNCHANGED <<queuevars, taken, pushed, popped>>,
           \/ mu = Free /\ mu' = t /\ pc[t] = "idle" /\ label # "idle"
           \/ mu = t /\ mu' = Free /\ pc[t] # "taking" /\ label = "idle",
           t \in Producers => label \in {"full?", "idle"},
           t \in Consumers => label \in {"taking", "idle"}
    PROVE  Exclusive' /\ LastPushed' /\ Delivered' /\ InHand = <<>> /\ InHand' = <<>>
<1>1. /\ pc \in [Threads -> {"idle", "full?", "dropped", "stored", "taking", "counted"}]
      /\ pc' = [pc EXCEPT ![t] = label] /\ Free \notin Threads
  BY HolderFacts DEF QueueInv, QueueTypeOK, goto
<1>2. Exclusive'
  <2>1. \A x \in Threads : pc'[x] = "idle" <=> mu' # x
    BY <1>1 DEF QueueInv, Exclusive
  <2>2. \A x \in Producers : pc'[x] \in {"idle", "full?", "dropped", "stored"}
    BY <1>1 DEF QueueInv, Exclusive, Threads
  <2>3. \A x \in Consumers : pc'[x] \in {"idle", "taking", "counted"}
    BY <1>1 DEF QueueInv, Exclusive, Threads
  <2>4. \A x \in Consumers : pc'[x] # "taking" => taken'[x] = <<>>
    BY <1>1 DEF QueueInv, Exclusive, Threads
  <2> QED BY <2>1, <2>2, <2>3, <2>4 DEF Exclusive
<1>3. InHand = <<>> /\ InHand' = <<>>
  BY <1>1, <1>2 DEF QueueInv, Exclusive, InHand, Threads
<1>4. Left' = Left
  BY <1>3 DEF Left, queuevars
<1>5. LastPushed'
  BY <1>3, <1>4 DEF QueueInv, LastPushed, At, queuevars
<1>6. Delivered'
  BY DEF QueueInv, Delivered, queuevars
<1> QED BY <1>2, <1>3, <1>5, <1>6

\* A thread goes on to another label inside the mutex.
LEMMA InsideStep ==
    ASSUME QueueInv, QueueAssumption, NEW t \in Threads, NEW label, mu = t, mu' = mu,
           goto(t, label), label # "idle",
           t \in Producers => label \in {"dropped", "stored"} /\ UNCHANGED taken,
           t \in Consumers => /\ label \in {"taking", "counted"}
                              /\ \A x \in Consumers \ {t} : taken'[x] = taken[x]
                              /\ label = "counted" => taken'[t] = <<>>
    PROVE  /\ Exclusive'
           /\ pc' \in [Threads -> {"idle", "full?", "dropped", "stored", "taking", "counted"}]
<1>1. /\ pc \in [Threads -> {"idle", "full?", "dropped", "stored", "taking", "counted"}]
      /\ pc' = [pc EXCEPT ![t] = label]
  BY DEF QueueInv, QueueTypeOK, goto
<1>2. \A x \in Threads : pc'[x] = "idle" <=> mu' # x
  BY <1>1 DEF QueueInv, Exclusive
<1>3. \A x \in Producers : pc'[x] \in {"idle", "full?", "dropped", "stored"}
  BY <1>1 DEF QueueInv, Exclusive, Threads
<1>4. \A x \in Consumers : pc'[x] \in {"idle", "taking", "counted"}
  BY <1>1 DEF QueueInv, Exclusive, Threads
<1>5. ASSUME NEW x \in Consumers, pc'[x] # "taking"
      PROVE  taken'[x] = <<>>
  <2>1. t \in Producers => t # x
    BY DEF QueueAssumption
  <2>2. CASE t = x
    BY <1>1, <1>5, <2>2
  <2>3. CASE t # x
    BY <1>1, <1>5, <2>3 DEF QueueInv, Exclusive, Threads
  <2> QED BY <2>2, <2>3
<1>6. pc' \in [Threads -> {"idle", "full?", "dropped", "stored", "taking", "counted"}]
  BY <1>1 DEF Threads
<1> QED BY <1>2, <1>3, <1>4, <1>5, <1>6 DEF Exclusive

\* push locks (pg_inotify_event_queue_push).
LEMMA PushLockInv ==
    ASSUME QueueInv, QueueAssumption, NEW t \in Producers, PushLock(t)
    PROVE  QueueInv'
<1>1. t \in Threads /\ t \notin Consumers /\ mu = Free /\ mu' = t /\ pc[t] = "idle"
      /\ goto(t, "full?") /\ pushed < MaxPushes
      /\ UNCHANGED <<queuevars, want, taken, pushed, popped>>
  BY HolderFacts DEF PushLock, lock, Threads
<1>2. Exclusive' /\ LastPushed' /\ Delivered'
  BY <1>1, MutexStep
<1>3. QueueTypeOK'
  BY <1>1 DEF QueueInv, QueueTypeOK, goto, queuevars
<1>4. pc'[t] = "full?"
  BY <1>1 DEF QueueInv, QueueTypeOK, goto
<1>5. Room'
  BY <1>1, <1>4 DEF Room
<1> QED BY <1>2, <1>3, <1>5 DEF QueueInv

\* push drops the oldest element of a full queue and counts it.
LEMMA DropOldestInv ==
    ASSUME QueueInv, QueueAssumption, NEW t \in Producers, DropOldest(t)
    PROVE  QueueInv'
<1>1. t \in Threads /\ t \notin Consumers /\ mu = t /\ mu' = t /\ pc[t] = "full?"
      /\ goto(t, "dropped") /\ UNCHANGED <<buf, tail, want, taken, pushed, popped>>
      /\ count = Capacity /\ head' = (head + 1) % Capacity /\ count' = count - 1
      /\ dropped' = dropped + 1
  BY HolderFacts DEF DropOldest, drop_oldest, Threads
<1>2. Exclusive' /\ pc' \in
        [Threads -> {"idle", "full?", "dropped", "stored", "taking", "counted"}]
  BY <1>1, InsideStep
<1>3. /\ Capacity \in Nat \ {0} /\ head \in Slots /\ tail \in Slots /\ dropped \in Nat
      /\ pushed \in Nat /\ Len(popped) \in Nat /\ DOMAIN popped = 1 .. Len(popped)
      /\ popped \in Seq(Nat)
  BY QueueFacts
<1>4. head' = At(head, 2) /\ head' \in Slots
  BY <1>1, <1>3, SlotFacts
<1>5. QueueTypeOK'
  <2>1. count' \in 0 .. Capacity /\ dropped' \in Nat
    BY <1>1, <1>3
  <2> QED BY <1>1, <1>2, <1>4, <2>1 DEF QueueInv, QueueTypeOK
<1>6. InHand = <<>> /\ InHand' = <<>> /\ Left = Capacity /\ Left' = Capacity - 1
  BY <1>1, <1>3 DEF InHand, Left
<1>7. /\ \A k \in 1 .. Capacity : At(head', k) = At(head, k + 1)
      /\ At(head, 1) = head /\ At(head, Capacity + 1) = head
  BY <1>3, <1>4, SlotFacts
<1>8. \A k \in 1 .. Capacity : buf[At(head, k)] = pushed - Capacity + k
  BY <1>6 DEF QueueInv, LastPushed
<1>9. LastPushed'
  <2>1. tail' = At(head', Left' + 1)
    <3>1. tail = head
      BY <1>6, <1>7 DEF QueueInv, LastPushed
    <3>2. At(head', Capacity) = head
      BY <1>3, <1>7
    <3> QED BY <1>1, <1>3, <1>6, <3>1, <3>2
  <2>2. \A k \in 1 .. Left' : buf'[At(head', k)] = pushed' - Left' + k
    <3> TAKE k \in 1 .. Left'
    <3>1. k \in 1 .. Capacity /\ k + 1 \in 1 .. Capacity
      BY <1>3, <1>6
    <3>2. buf[At(head, k + 1)] = pushed - Capacity + (k + 1)
      BY <1>8, <3>1
    <3> QED BY <1>1, <1>3, <1>6, <1>7, <3>1, <3>2
  <2>3. \A k \in DOMAIN InHand' : InHand'[k] = pushed' - count' + k
    BY <1>6
  <2> QED BY <2>1, <2>2, <2>3 DEF LastPushed, At
<1>10. Room'
  <2>1. pushed < MaxPushes
    BY <1>1 DEF QueueInv, Room
  <2>2. At(head', Capacity) = head /\ buf[head] = pushed - Capacity + 1
    BY <1>3, <1>7, <1>8
  <2>3. buf'[At(head', Capacity)] = pushed' - count'
    BY <1>1, <1>3, <2>2
  <2> QED BY <1>1, <2>1, <2>3 DEF Room, At
<1>11. Delivered'
  <2>1. pushed' = Len(popped') + dropped' + count'
    BY <1>1, <1>3 DEF QueueInv, Delivered
  <2>2. \A j \in DOMAIN popped : popped[j] \in Nat /\ popped[j] <= pushed - count
    BY <1>3 DEF QueueInv, Delivered
  <2>3. \A j \in DOMAIN popped' : popped'[j] <= pushed' - count'
    BY <1>1, <1>3, <2>2
  <2> QED BY <1>1, <2>1, <2>3 DEF QueueInv, Delivered
<1> QED BY <1>2, <1>5, <1>9, <1>10, <1>11 DEF QueueInv

\* push stores its element at the tail, for which there is room.
LEMMA PushStoreInv ==
    ASSUME QueueInv, QueueAssumption, NEW t \in Producers, PushStore(t)
    PROVE  QueueInv'
<1>1. t \in Threads /\ t \notin Consumers /\ mu = t /\ mu' = t
      /\ goto(t, "stored") /\ UNCHANGED <<head, dropped, want, taken, popped>>
      /\ buf' = [buf EXCEPT ![tail] = pushed + 1] /\ tail' = (tail + 1) % Capacity
      /\ count' = count + 1 /\ pushed' = pushed + 1
  BY HolderFacts DEF PushStore, store, Threads
<1>2. Exclusive' /\ pc' \in
        [Threads -> {"idle", "full?", "dropped", "stored", "taking", "counted"}]
  BY <1>1, InsideStep
<1>3. /\ Capacity \in Nat \ {0} /\ head \in Slots /\ tail \in Slots /\ dropped \in Nat
      /\ buf \in [Slots -> Nat] /\ count \in Nat /\ count <= Capacity
      /\ pushed \in Nat /\ Len(popped) \in Nat /\ DOMAIN popped = 1 .. Len(popped)
      /\ popped \in Seq(Nat) /\ MaxPushes \in Nat
  BY QueueFacts
<1>4. count < Capacity /\ pushed < MaxPushes
  BY <1>1, <1>3 DEF PushStore, QueueInv, Room
<1>5. InHand = <<>> /\ InHand' = <<>> /\ Left = count /\ Left' = count + 1
  BY <1>1, <1>3 DEF InHand, Left
<1>6. tail = At(head, count + 1)
  BY <1>5 DEF QueueInv, LastPushed
<1>7. /\ tail' = At(head, count + 2) /\ tail' \in Slots
      /\ \A k \in 1 .. count : At(head, k) \in Slots /\ At(head, k) # tail
  <2>1. count + 1 \in 1 .. Capacity /\ count + 2 \in 1 .. Capacity + 1
        /\ (count + 1) + 1 = count + 2
    BY <1>3, <1>4
  <2>2. (At(head, count + 1) + 1) % Capacity = At(head, (count + 1) + 1)
    BY <1>3, <2>1, SlotFacts
  <2>3. /\ \A k \in 1 .. Capacity + 1 : At(head, k) \in Slots
        /\ \A j, k \in 1 .. Capacity : At(head, j) = At(head, k) => j = k
    BY <1>3, SlotFacts
  <2>4. tail' = At(head, count + 2)
    BY <1>1, <1>6, <2>1, <2>2
  <2>5. At(head, count + 2) \in Slots
    BY <2>1, <2>3
  <2>6. ASSUME NEW k \in 1 .. count
        PROVE  At(head, k) \in Slots /\ At(head, k) # tail
    <3>1. k \in 1 .. Capacity /\ k \in 1 .. Capacity + 1 /\ k # count + 1
      BY <1>3
    <3> QED BY <1>6, <2>1, <2>3, <3>1
  <2> QED BY <2>4, <2>5, <2>6
<1>8. QueueTypeOK'
  <2>1. count' \in 0 .. Capacity /\ pushed' \in 0 .. MaxPushes
    BY <1>1, <1>3, <1>4
  <2>2. buf' \in [Slots -> Nat]
    BY <1>1, <1>3
  <2> QED BY <1>1, <1>2, <1>7, <2>1, <2>2 DEF QueueInv, QueueTypeOK
<1>9. LastPushed'
  <2>1. tail' = At(head', Left' + 1)
    <3>1. (count + 1) + 1 = count + 2
      BY <1>3
    <3> QED BY <1>1, <1>5, <1>7, <3>1
  <2>2. \A k \in 1 .. Left' : buf'[At(head', k)] = pushed' - Left' + k
    <3> TAKE k \in 1 .. Left'
    <3>1. CASE k = count + 1
      BY <1>1, <1>3, <1>5, <1>6, <3>1
    <3>2. CASE k # count + 1
      <4>1. k \in 1 .. count
        BY <1>3, <1>5, <3>2
      <4>2. buf[At(head, k)] = pushed - count + k
        BY <1>5, <4>1 DEF QueueInv, LastPushed
      <4>3. buf'[At(head, k)] = buf[At(head, k)]
        BY <1>1, <1>3, <1>7, <4>1
      <4> QED BY <1>1, <1>3, <1>5, <4>1, <4>2, <4>3
    <3> QED BY <3>1, <3>2
  <2>3. \A k \in DOMAIN InHand' : InHand'[k] = pushed' - count' + k
    BY <1>5
  <2> QED BY <2>1, <2>2, <2>3 DEF LastPushed, At
<1>10. pc'[t] = "stored"
  BY <1>1 DEF QueueInv, QueueTypeOK, goto
<1>11. Room'
  BY <1>1, <1>10 DEF Room
<1>12. Delivered'
  <2>1. pushed' = Len(popped') + dropped' + count'
    BY <1>1, <1>3 DEF QueueInv, Delivered
  <2>2. pushed' - count' = pushed - count
    BY <1>1, <1>3
  <2> QED BY <1>1, <2>1, <2>2 DEF QueueInv, Delivered
<1> QED BY <1>2, <1>8, <1>9, <1>11, <1>12 DEF QueueInv

\* push and pop unlock with nothing in hand.
LEMMA UnlockInv ==
    ASSUME QueueInv, QueueAssumption, NEW t \in Threads,
           (t \in Producers /\ PushUnlock(t)) \/ (t \in Consumers /\ PopUnlock(t))
    PROVE  QueueInv'
<1>1. /\ mu = t /\ mu' = Free /\ pc[t] # "taking" /\ goto(t, "idle")
      /\ UNCHANGED <<queuevars, want, taken, pushed, popped>> /\ Free \notin Threads
  BY HolderFacts DEF PushUnlock, PopUnlock
<1>2. Exclusive' /\ LastPushed' /\ Delivered'
  BY <1>1, MutexStep
<1>3. QueueTypeOK'
  BY <1>1 DEF QueueInv, QueueTypeOK, goto, queuevars
<1>4. Room'
  BY <1>1 DEF Room, Threads
<1> QED BY <1>2, <1>3, <1>4 DEF QueueInv

\* pop locks and reads how many it will take (pg_inotify_event_queue_pop).
LEMMA PopLockInv ==
    ASSUME QueueInv, QueueAssumption, NEW t \in Consumers, PopLock(t)
    PROVE  QueueInv'
<1>1. t \in Threads /\ t \notin Producers /\ mu = Free /\ mu' = t /\ pc[t] = "idle"
      /\ goto(t, "taking") /\ UNCHANGED <<queuevars, taken, pushed, popped>>
  BY HolderFacts DEF PopLock, lock, Threads
<1> PICK buf_cap \in BufCaps : want' = [want EXCEPT ![t] = batch(buf_cap)]
  BY DEF PopLock
<1>2. Exclusive' /\ LastPushed' /\ Delivered'
  BY <1>1, MutexStep
<1>3. taken[t] = <<>>
  BY <1>1 DEF QueueInv, Exclusive
<1>4. count \in Nat /\ buf_cap \in Nat /\ want \in [Consumers -> Nat]
  BY QueueFacts DEF QueueInv, QueueTypeOK, QueueAssumption
<1>5. batch(buf_cap) \in Nat /\ want'[t] = batch(buf_cap) /\ batch(buf_cap)' = batch(buf_cap)
      /\ want' \in [Consumers -> Nat]
  BY <1>1, <1>4 DEF batch, queuevars
<1>6. QueueTypeOK'
  BY <1>1, <1>5 DEF QueueInv, QueueTypeOK, goto, queuevars
<1>7. Room'
  <2>1. Len(taken'[t]) = 0
    BY <1>1, <1>3
  <2>2. Len(taken'[t]) <= want'[t]
    BY <1>5, <2>1
  <2>3. \E c \in BufCaps : want'[t] = batch(c)'
    BY <1>5
  <2> QED BY <1>1, <2>2, <2>3 DEF Room, batch
<1> QED BY <1>2, <1>6, <1>7 DEF QueueInv

\* pop takes the element at the head, which count still includes.
LEMMA TakeInv ==
    ASSUME QueueInv, QueueAssumption, NEW t \in Consumers, Take(t)
    PROVE  QueueInv'
<1>1. t \in Threads /\ t \notin Producers /\ mu = t /\ mu' = t /\ pc[t] = "taking"
      /\ UNCHANGED <<buf, tail, count, dropped, pc, want, pushed, popped>>
      /\ Len(taken[t]) < want[t] /\ head' = (head + 1) % Capacity
      /\ taken' = [taken EXCEPT ![t] = Append(taken[t], buf[head])]
  BY HolderFacts DEF Take, Threads
<1>2. /\ Capacity \in Nat \ {0} /\ head \in Slots /\ buf \in [Slots -> Nat]
      /\ count \in Nat /\ count <= Capacity /\ pushed \in Nat /\ count <= pushed
      /\ InHand \in Seq(Nat) /\ Len(InHand) \in Nat /\ DOMAIN InHand = 1 .. Len(InHand)
      /\ taken \in [Consumers -> Seq(Nat)] /\ want \in [Consumers -> Nat]
  BY QueueFacts DEF QueueInv, QueueTypeOK
<1>3. head' = At(head, 2) /\ head' \in Slots
  <2>1. (head + 1) % Capacity = At(head, 2)
    BY <1>2, SlotFacts
  <2>2. 2 \in 1 .. Capacity + 1
    BY <1>2
  <2> QED BY <1>1, <1>2, <2>1, <2>2, SlotFacts
<1>4. PICK buf_cap \in BufCaps : want[t] = batch(buf_cap)
  BY <1>1 DEF QueueInv, Room
<1>5. buf_cap \in Nat /\ want[t] <= count /\ want[t] \in Nat
  BY <1>2, <1>4 DEF QueueAssumption, batch
<1> DEFINE n == Len(InHand)
<1>6. /\ InHand = taken[t] /\ InHand' = Append(InHand, buf[head])
      /\ n < count /\ n + 1 <= want[t] /\ Left = count - n /\ buf[head] \in Nat
  BY <1>1, <1>2, <1>5 DEF InHand, Left
<1>7. /\ InHand' \in Seq(Nat) /\ Len(InHand') = n + 1 /\ DOMAIN InHand' = 1 .. n + 1
      /\ \A k \in 1 .. n : InHand'[k] = InHand[k]
      /\ InHand'[n + 1] = buf[head]
  BY <1>2, <1>6
<1>8. Left' = Left - 1 /\ Left \in 1 .. Capacity
  BY <1>1, <1>2, <1>6, <1>7 DEF Left
<1>9. Exclusive'
  <2>1. \A x \in Consumers : x # t => taken'[x] = taken[x]
    BY <1>1, <1>2
  <2> QED BY <1>1, <2>1 DEF QueueInv, Exclusive
<1>10. QueueTypeOK'
  <2>1. taken' \in [Consumers -> Seq(Nat)]
    <3>1. Append(taken[t], buf[head]) \in Seq(Nat)
      BY <1>6, <1>7
    <3> QED BY <1>1, <1>2, <3>1
  <2> QED BY <1>1, <1>3, <2>1 DEF QueueInv, QueueTypeOK
<1>11. Room'
  <2>1. taken'[t] = InHand'
    BY <1>1 DEF InHand
  <2>2. Len(taken'[t]) <= want'[t]
    BY <1>1, <1>6, <1>7, <2>1
  <2>3. \E c \in BufCaps : want'[t] = batch(c)'
    BY <1>1, <1>4 DEF batch
  <2> QED BY <1>1, <2>2, <2>3 DEF Room, batch
<1>12. LastPushed'
  <2>1. /\ \A k \in 1 .. Capacity : At(head', k) = At(head, k + 1)
        /\ At(head, 1) = head
    BY <1>2, <1>3, SlotFacts
  <2>2. tail = At(head, Left + 1) /\ \A k \in 1 .. Left : buf[At(head, k)] = pushed - Left + k
    BY DEF QueueInv, LastPushed
  <2>3. tail' = At(head', Left' + 1)
    <3>1. Left' + 1 = Left /\ Left \in 1 .. Capacity
      BY <1>8
    <3>2. At(head', Left) = At(head, Left + 1)
      BY <2>1, <3>1
    <3> QED BY <1>1, <2>2, <3>1, <3>2
  <2>4. \A k \in 1 .. Left' : buf'[At(head', k)] = pushed' - Left' + k
    <3> TAKE k \in 1 .. Left'
    <3>1. k \in 1 .. Capacity /\ k + 1 \in 1 .. Left
      BY <1>8
    <3>2. buf[At(head, k + 1)] = pushed - Left + (k + 1)
      BY <2>2, <3>1
    <3>3. At(head', k) = At(head, k + 1)
      BY <2>1, <3>1
    <3> QED BY <1>1, <1>2, <1>8, <3>1, <3>2, <3>3
  <2>5. \A k \in DOMAIN InHand' : InHand'[k] = pushed' - count' + k
    <3> TAKE k \in DOMAIN InHand'
    <3>1. CASE k = n + 1
      <4>1. 1 \in 1 .. Left
        BY <1>8
      <4>2. buf[head] = pushed - Left + 1
        BY <2>1, <2>2, <4>1
      <4> QED BY <1>1, <1>2, <1>6, <1>7, <3>1, <4>2
    <3>2. CASE k # n + 1
      <4>1. k \in DOMAIN InHand
        BY <1>2, <1>7, <3>2
      <4>2. InHand[k] = pushed - count + k
        BY <4>1 DEF QueueInv, LastPushed
      <4> QED BY <1>1, <1>2, <1>7, <4>1, <4>2
    <3> QED BY <3>1, <3>2
  <2> QED BY <2>3, <2>4, <2>5 DEF LastPushed, At
<1>13. Delivered'
  BY <1>1 DEF QueueInv, Delivered
<1> QED BY <1>9, <1>10, <1>11, <1>12, <1>13 DEF QueueInv

\* pop subtracts what it took and delivers it, after what came out before.
LEMMA PopCountInv ==
    ASSUME QueueInv, QueueAssumption, NEW t \in Consumers, PopCount(t)
    PROVE  QueueInv'
<1>1. t \in Threads /\ t \notin Producers /\ mu = t /\ mu' = t /\ pc[t] = "taking"
      /\ Len(taken[t]) = want[t] /\ count' = count - want[t]
      /\ popped' = popped \o taken[t] /\ goto(t, "counted")
      /\ taken' = [taken EXCEPT ![t] = <<>>] /\ want' = [want EXCEPT ![t] = 0]
      /\ UNCHANGED <<buf, head, tail, dropped, pushed>>
  BY HolderFacts DEF PopCount, Threads
<1>2. /\ Capacity \in Nat \ {0} /\ count \in Nat /\ count <= Capacity
      /\ pushed \in Nat /\ count <= pushed /\ dropped \in Nat
      /\ InHand \in Seq(Nat) /\ Len(InHand) \in Nat /\ DOMAIN InHand = 1 .. Len(InHand)
      /\ Left \in Nat /\ Left <= count
      /\ taken \in [Consumers -> Seq(Nat)] /\ want \in [Consumers -> Nat]
      /\ popped \in Seq(Nat) /\ Len(popped) \in Nat /\ DOMAIN popped = 1 .. Len(popped)
  BY QueueFacts DEF QueueInv, QueueTypeOK
<1> DEFINE n == Len(InHand)
           l == Len(popped)
<1>3. InHand = taken[t] /\ n = want[t] /\ Left = count - n /\ n \in Nat
  BY <1>1, <1>2 DEF InHand, Left
<1>4. Exclusive' /\ pc' \in
        [Threads -> {"idle", "full?", "dropped", "stored", "taking", "counted"}]
  <2>1. \A x \in Consumers \ {t} : taken'[x] = taken[x]
    BY <1>1, <1>2
  <2>2. taken'[t] = <<>>
    BY <1>1, <1>2
  <2> QED BY <1>1, <2>1, <2>2, InsideStep
<1>5. InHand' = <<>> /\ count' = count - n /\ Left' = Left
  <2>1. InHand' = <<>>
    BY <1>1, <1>2 DEF InHand
  <2>2. Len(InHand') = 0
    BY <2>1
  <2> QED BY <1>1, <1>2, <1>3, <2>1, <2>2 DEF Left
<1>6. /\ popped' \in Seq(Nat) /\ Len(popped') = l + n /\ DOMAIN popped' = 1 .. l + n
      /\ \A k \in 1 .. l : popped'[k] = popped[k]
      /\ \A k \in l + 1 .. l + n : popped'[k] = InHand[k - l]
  <2>1. popped' = popped \o InHand
    BY <1>1, <1>3
  <2>2. /\ popped \o InHand \in Seq(Nat) /\ Len(popped \o InHand) = l + n
        /\ \A k \in 1 .. l + n : (popped \o InHand)[k] =
                IF k <= l THEN popped[k] ELSE InHand[k - l]
    BY <1>2, ConcatProperties
  <2> QED BY <1>2, <2>1, <2>2
<1>7. \A k \in 1 .. n : InHand[k] = pushed - count + k
  BY <1>2 DEF QueueInv, LastPushed
<1>8. QueueTypeOK'
  <2>1. count' \in 0 .. Capacity /\ taken' \in [Consumers -> Seq(Nat)]
        /\ want' \in [Consumers -> Nat]
    BY <1>1, <1>2, <1>3, <1>5
  <2> QED BY <1>1, <1>4, <1>6, <2>1 DEF QueueInv, QueueTypeOK
<1>9. pc'[t] = "counted"
  BY <1>1 DEF QueueInv, QueueTypeOK, goto
<1>10. Room'
  BY <1>1, <1>9 DEF Room
<1>11. LastPushed'
  BY <1>1, <1>5 DEF QueueInv, LastPushed, At
<1>12. Delivered'
  <2>1. pushed' = Len(popped') + dropped' + count'
    BY <1>1, <1>2, <1>5, <1>6 DEF QueueInv, Delivered
  <2>2. \A j \in 1 .. l : popped[j] \in Nat /\ popped[j] <= pushed - count
    <3>1. \A j \in 1 .. l : popped[j] \in Nat
      BY <1>2
    <3>2. \A j \in DOMAIN popped : popped[j] <= pushed - count
      BY DEF QueueInv, Delivered
    <3> QED BY <1>2, <3>1, <3>2
  <2>3. \A k \in l + 1 .. l + n : popped'[k] = pushed - count + (k - l)
    <3> TAKE k \in l + 1 .. l + n
    <3>1. k - l \in 1 .. n
      BY <1>2
    <3> QED BY <1>6, <1>7, <3>1
  <2>4. \A j \in DOMAIN popped' : popped'[j] <= pushed' - count'
    <3> TAKE j \in DOMAIN popped'
    <3>1. CASE j <= l
      <4>1. j \in 1 .. l
        BY <1>2, <1>6, <3>1
      <4>2. popped'[j] = popped[j] /\ popped[j] \in Nat /\ popped[j] <= pushed - count
        BY <1>6, <2>2, <4>1
      <4>3. /\ pushed' = pushed /\ count' = count - n /\ n \in Nat
            /\ pushed \in Nat /\ count \in Nat
        BY <1>1, <1>2, <1>3, <1>5
      <4> DEFINE m == n
      <4> DEFINE p == popped'[j]
      <4>4. /\ p \in Nat /\ p <= pushed - count
            /\ pushed' = pushed /\ count' = count - m /\ m \in Nat
            /\ pushed \in Nat /\ count \in Nat
        BY <4>2, <4>3
      <4> HIDE DEF m, p, n, l
      <4>5. p <= pushed' - count'
        BY <4>4
      <4> QED BY <4>5 DEF p
    <3>2. CASE j > l
      <4>1. j \in l + 1 .. l + n
        BY <1>2, <1>6, <3>2
      <4>2. popped'[j] = pushed - count + (j - l) /\ j - l <= n /\ j - l \in Nat
        BY <1>2, <2>3, <4>1, SMTT(30)
      <4>3. pushed' = pushed /\ count' = count - n /\ n \in Nat
        BY <1>1, <1>2, <1>3, <1>5
      <4> DEFINE m == n
      <4> DEFINE p == popped'[j]
      <4> DEFINE d == j - l
      <4>4. /\ p = pushed - count + d /\ d <= m /\ d \in Nat /\ m \in Nat
            /\ pushed' = pushed /\ count' = count - m
            /\ pushed \in Nat /\ count \in Nat
        BY <1>2, <4>2, <4>3
      <4> HIDE DEF m, p, d, n, l
      <4>5. p <= pushed' - count'
        BY <4>4
      <4> QED BY <4>5 DEF p
    <3> QED BY <1>2, <1>6, <3>1, <3>2
  <2>5. \A j, k \in DOMAIN popped' : j < k => popped'[j] < popped'[k]
    <3> TAKE j, k \in DOMAIN popped'
    <3> HAVE j < k
    <3>1. CASE k <= l
      <4>1. j \in 1 .. l /\ k \in 1 .. l
        BY <1>2, <1>6, <3>1
      <4>2. popped[j] < popped[k]
        BY <1>2, <4>1 DEF QueueInv, Delivered
      <4>3. popped'[j] = popped[j] /\ popped'[k] = popped[k]
        BY <1>6, <4>1
      <4> QED BY <4>2, <4>3
    <3>2. CASE j <= l /\ k > l
      <4>1. j \in 1 .. l /\ k \in l + 1 .. l + n
        BY <1>2, <1>6, <3>2
      <4>2. popped'[j] \in Nat /\ popped'[j] <= pushed - count
        BY <1>6, <2>2, <4>1
      <4>3. popped'[k] = pushed - count + (k - l) /\ k - l > 0 /\ k - l \in Nat
        BY <1>2, <2>3, <4>1, SMTT(30)
      <4> DEFINE p == popped'[j]
      <4> DEFINE q == popped'[k]
      <4> DEFINE d == k - l
      <4>4. /\ p \in Nat /\ p <= pushed - count /\ q = pushed - count + d
            /\ d > 0 /\ d \in Nat /\ pushed \in Nat /\ count \in Nat
        BY <1>2, <4>2, <4>3
      <4> HIDE DEF p, q, d
      <4>5. p < q
        BY <4>4
      <4> QED BY <4>5 DEF p, q
    <3>3. CASE j > l /\ k > l
      <4>1. j \in l + 1 .. l + n /\ k \in l + 1 .. l + n
        BY <1>2, <1>6, <3>3, SMTT(30)
      <4> QED BY <1>2, <2>3, <4>1
    <3> QED BY <1>2, <1>6, <3>1, <3>2, <3>3, SMTT(30)
  <2> QED BY <2>1, <2>4, <2>5 DEF Delivered
<1> QED BY <1>4, <1>8, <1>10, <1>11, <1>12 DEF QueueInv

\* The queue starts empty and free.
LEMMA InitInv ==
    ASSUME QueueAssumption, Init
    PROVE  QueueInv
<1>1. /\ mu = Free /\ Free \notin Threads /\ Capacity \in Nat \ {0} /\ MaxPushes \in Nat
  BY DEF Init, QueueAssumption, Threads
<1>2. InHand = <<>> /\ 0 \in Slots
  BY <1>1 DEF InHand, Threads, Slots
<1>3. Left = 0
  BY <1>2 DEF Init, Left
<1>4. QueueTypeOK
  BY <1>1, <1>2 DEF Init, QueueTypeOK
<1>5. Exclusive /\ Room
  BY <1>1 DEF Init, Exclusive, Room, Threads
<1>6. LastPushed
  BY <1>1, <1>2, <1>3 DEF Init, LastPushed, At
<1>7. Delivered
  BY DEF Init, Delivered
<1> QED BY <1>4, <1>5, <1>6, <1>7 DEF QueueInv

\* Every step of every thread keeps the invariant.
LEMMA QueueStep ==
    ASSUME QueueInv, QueueAssumption, [Next]_vars
    PROVE  QueueInv'
<1>1. ASSUME NEW t \in Producers,
             PushLock(t) \/ DropOldest(t) \/ PushStore(t) \/ PushUnlock(t)
      PROVE  QueueInv'
  <2> t \in Threads
    BY DEF Threads
  <2>1. CASE PushLock(t)
    BY <2>1, PushLockInv
  <2>2. CASE DropOldest(t)
    BY <2>2, DropOldestInv
  <2>3. CASE PushStore(t)
    BY <2>3, PushStoreInv
  <2>4. CASE PushUnlock(t)
    <3>1. (t \in Producers /\ PushUnlock(t)) \/ (t \in Consumers /\ PopUnlock(t))
      BY <2>4
    <3>2. t \in Threads
      BY DEF Threads
    <3> QED BY <3>1, <3>2, UnlockInv
  <2> QED BY <1>1, <2>1, <2>2, <2>3, <2>4
<1>2. ASSUME NEW t \in Consumers, PopLock(t) \/ Take(t) \/ PopCount(t) \/ PopUnlock(t)
      PROVE  QueueInv'
  <2> t \in Threads
    BY DEF Threads
  <2>1. CASE PopLock(t)
    BY <2>1, PopLockInv
  <2>2. CASE Take(t)
    BY <2>2, TakeInv
  <2>3. CASE PopCount(t)
    BY <2>3, PopCountInv
  <2>4. CASE PopUnlock(t)
    <3>1. (t \in Producers /\ PushUnlock(t)) \/ (t \in Consumers /\ PopUnlock(t))
      BY <2>4
    <3> QED BY <3>1, UnlockInv
  <2> QED BY <1>2, <2>1, <2>2, <2>3, <2>4
<1>3. CASE UNCHANGED vars
  BY <1>3 DEF vars, queuevars, QueueInv, QueueTypeOK, Exclusive, Room, batch, LastPushed,
              Left, InHand, At, Delivered
<1> QED BY <1>1, <1>2, <1>3 DEF Next

-----------------------------------------------------------------------------
(***************************************************************************)
(* For any threads, capacity and batches the mutex excludes, and the ring  *)
(* holds the last elements pushed, after those the holder has in hand      *)
(* (pg_inotify_event_queue_push, pg_inotify_event_queue_pop).              *)
(***************************************************************************)
THEOREM QueueInvariant == Spec => []QueueInv
<1> USE QueueAssumption
<1>1. Init => QueueInv
  BY InitInv
<1>2. QueueInv /\ [Next]_vars => QueueInv'
  BY QueueStep
<1> QED BY <1>1, <1>2, PTL DEF Spec

\* Every variable of the queue has its type; head, tail and count stay in the ring.
THEOREM QueueTypes == Spec => []QueueTypeOK
BY QueueInvariant, PTL DEF QueueInv

\* Every element pushed was popped, was dropped and counted, or is in the queue.
THEOREM NothingIsLost == Spec => []Conservation
<1>1. QueueInv => Conservation
  BY DEF QueueInv, Delivered, Conservation
<1> QED BY <1>1, QueueInvariant, PTL

-----------------------------------------------------------------------------
\* What is in the queue, from the oldest on, in a state with nothing in hand.
LEMMA ContentsFacts ==
    ASSUME QueueInv, QueueAssumption
    PROVE  /\ contents \in Seq(Nat) /\ Len(contents) = count
           /\ \A k \in 1 .. count : contents[k] = buf[At(head, k)]
           /\ \A k \in 1 .. Left : contents[k] = pushed - Left + k
<1>1. /\ Capacity \in Nat \ {0} /\ head \in Slots /\ buf \in [Slots -> Nat]
      /\ count \in Nat /\ count <= Capacity /\ Left \in Nat /\ Left <= count
  BY QueueFacts
<1>2. \A k \in 1 .. count : /\ (head + k - 1) % Capacity = At(head, k)
                            /\ At(head, k) \in Slots
  <2>1. \A k \in 1 .. count : k \in 1 .. Capacity /\ k \in 1 .. Capacity + 1
    BY <1>1
  <2> QED BY <1>1, <2>1, SlotFacts
<1>3. \A k \in 1 .. count : contents[k] = buf[At(head, k)]
  BY <1>2 DEF contents
<1>4. contents \in [1 .. count -> Nat]
  BY <1>1, <1>2 DEF contents
<1>5. contents \in Seq(Nat) /\ Len(contents) = count
  <2>1. contents \in Seq(Nat)
    BY <1>1, <1>4, SeqDef
  <2> QED BY <1>1, <1>4, <2>1, LenProperties
<1>6. \A k \in 1 .. Left : contents[k] = pushed - Left + k
  <2>1. \A k \in 1 .. Left : k \in 1 .. count
    BY <1>1
  <2> QED BY <1>3, <2>1 DEF QueueInv, LastPushed
<1> QED BY <1>3, <1>5, <1>6

(***************************************************************************)
(* Elements come out in the order they were pushed, and what is in the     *)
(* queue is newer than what came out.                                      *)
(***************************************************************************)
THEOREM OrderIsKept == Spec => []InOrder
<1> USE QueueAssumption
<1>1. QueueInv => InOrder
  <2> SUFFICES ASSUME QueueInv PROVE InOrder
    OBVIOUS
  <2>1. \A j, k \in DOMAIN popped : j < k => popped[j] < popped[k]
    BY DEF QueueInv, Delivered
  <2>2. ASSUME mu = Free
        PROVE  \A k \in 1 .. count : contents[k] = pushed - count + k
    <3>1. InHand = <<>> /\ count \in Nat
      BY <2>2, QueueFacts DEF InHand
    <3>2. Left = count
      BY <3>1 DEF Left
    <3> QED BY <3>2, ContentsFacts
  <2>3. ASSUME mu = Free, count > 0, popped # <<>>
        PROVE  popped[Len(popped)] < contents[1]
    <3>1. /\ popped \in Seq(Nat) /\ DOMAIN popped = 1 .. Len(popped)
          /\ count \in Nat /\ pushed \in Nat /\ count <= pushed
      BY QueueFacts
    <3>2. Len(popped) \in DOMAIN popped
      BY <2>3, <3>1, EmptySeq
    <3>3. popped[Len(popped)] <= pushed - count /\ popped[Len(popped)] \in Nat
      BY <3>1, <3>2 DEF QueueInv, Delivered
    <3>4. contents[1] = pushed - count + 1
      BY <2>2, <2>3, <3>1
    <3> QED BY <3>1, <3>3, <3>4
  <2> QED BY <2>1, <2>2, <2>3 DEF InOrder
<1> QED BY <1>1, QueueInvariant, PTL

-----------------------------------------------------------------------------
\* The length of the queue and the drops that the other threads see.
Seen == IF holder("dropped") THEN count + 1 ELSE count

Drops == IF holder("dropped") THEN dropped - 1 ELSE dropped

\* What other threads see is the last elements pushed, in their order.
VisibleOK ==
    /\ visible \in Seq(Nat) /\ Len(visible) = Seen
    /\ \A k \in 1 .. Seen : visible[k] = pushed - Seen + k

LEMMA VisibleFacts ==
    ASSUME QueueInv, QueueAssumption
    PROVE  VisibleOK
<1>1. /\ Capacity \in Nat \ {0} /\ head \in Slots /\ buf \in [Slots -> Nat]
      /\ count \in Nat /\ count <= Capacity /\ Left \in Nat /\ Left <= count
      /\ pushed \in Nat /\ count <= pushed
      /\ InHand \in Seq(Nat) /\ Len(InHand) \in Nat /\ DOMAIN InHand = 1 .. Len(InHand)
  BY QueueFacts
<1>2. /\ contents \in Seq(Nat) /\ Len(contents) = count
      /\ \A k \in 1 .. Left : contents[k] = pushed - Left + k
  BY ContentsFacts
<1>3. CASE holder("dropped")
  <2> DEFINE front == buf[(head + Capacity - 1) % Capacity]
  <2>1. mu \in Threads /\ pc[mu] = "dropped" /\ mu \in Producers /\ mu \notin Consumers
    BY <1>3 DEF holder, QueueInv, Exclusive, Threads, QueueAssumption
  <2>2. InHand = <<>>
    BY <2>1 DEF InHand
  <2>3. Left = count
    BY <1>1, <2>2 DEF Left
  <2>4. (head + Capacity - 1) % Capacity = At(head, Capacity) /\ At(head, Capacity) \in Slots
    BY <1>1, SlotFacts
  <2>5. front = pushed - count /\ front \in Nat
    BY <1>1, <2>1, <2>4 DEF QueueInv, Room
  <2>6. visible = <<front>> \o contents /\ Seen = 1 + count
    BY <1>1, <1>3 DEF visible, Seen
  <2> HIDE DEF front
  <2>7. <<front>> \in Seq(Nat) /\ Len(<<front>>) = 1 /\ <<front>>[1] = front
    BY <2>5
  <2>8. /\ visible \in Seq(Nat) /\ Len(visible) = 1 + count
        /\ \A k \in 1 .. 1 + count : visible[k] =
                IF k <= 1 THEN <<front>>[k] ELSE contents[k - 1]
    BY <1>2, <2>6, <2>7, ConcatProperties, SMTT(30)
  <2>9. \A k \in 1 .. 1 + count : visible[k] = pushed - (1 + count) + k
    <3> TAKE k \in 1 .. 1 + count
    <3>1. CASE k = 1
      BY <1>1, <2>5, <2>7, <2>8, <3>1
    <3>2. CASE k # 1
      <4>1. k - 1 \in 1 .. Left /\ ~(k <= 1)
        BY <1>1, <2>3, <3>2
      <4>2. visible[k] = contents[k - 1]
        BY <2>8, <4>1
      <4>3. contents[k - 1] = pushed - Left + (k - 1)
        BY <1>2, <4>1
      <4> QED BY <1>1, <2>3, <4>2, <4>3
    <3> QED BY <3>1, <3>2
  <2> QED BY <2>6, <2>8, <2>9 DEF VisibleOK
<1>4. CASE ~holder("dropped") /\ holder("taking")
  <2> DEFINE rest == SubSeq(contents, 1, Left)
             n == Len(InHand)
  <2>1. mu \in Consumers
    BY <1>4 DEF holder, QueueInv, Exclusive, Threads
  <2>2. visible = InHand \o rest /\ Seen = count
    BY <1>4, <2>1 DEF visible, Seen, InHand, Left
  <2>3. rest \in Seq(Nat) /\ Len(rest) = Left /\ \A k \in 1 .. Left : rest[k] = contents[k]
    <3>1. \A k \in 1 .. Left : contents[k] \in Nat
      BY <1>1, <1>2
    <3>2. /\ SubSeq(contents, 1, Left) \in Seq(Nat)
          /\ Len(SubSeq(contents, 1, Left)) = IF 1 <= Left THEN Left - 1 + 1 ELSE 0
          /\ \A k \in 1 .. Left - 1 + 1 : SubSeq(contents, 1, Left)[k] = contents[1 + k - 1]
      BY <1>1, <3>1, SubSeqProperties
    <3>3. \A k \in 1 .. Left : k \in 1 .. Left - 1 + 1 /\ 1 + k - 1 = k
      BY <1>1
    <3> QED BY <1>1, <3>2, <3>3
  <2> HIDE DEF rest
  <2>4. /\ visible \in Seq(Nat) /\ Len(visible) = n + Left
        /\ \A k \in 1 .. n + Left : visible[k] =
                IF k <= n THEN InHand[k] ELSE rest[k - n]
    BY <1>1, <2>2, <2>3, ConcatProperties
  <2>5. n + Left = count /\ n \in Nat
    BY <1>1 DEF Left
  <2>6. \A k \in 1 .. count : visible[k] = pushed - count + k
    <3> TAKE k \in 1 .. count
    <3>1. CASE k <= n
      <4>1. k \in DOMAIN InHand
        BY <1>1, <2>5, <3>1
      <4> QED BY <2>4, <2>5, <3>1, <4>1 DEF QueueInv, LastPushed
    <3>2. CASE k > n
      <4>1. k - n \in 1 .. Left /\ ~(k <= n)
        BY <1>1, <2>5, <3>2
      <4>2. visible[k] = contents[k - n]
        BY <2>3, <2>4, <2>5, <4>1
      <4>3. contents[k - n] = pushed - Left + (k - n)
        BY <1>2, <4>1
      <4> HIDE DEF n
      <4> QED BY <1>1, <2>5, <4>2, <4>3
    <3> QED BY <2>5, <3>1, <3>2
  <2> QED BY <2>2, <2>4, <2>5, <2>6 DEF VisibleOK
<1>5. CASE ~holder("dropped") /\ ~holder("taking")
  <2>1. InHand = <<>>
    BY <1>5 DEF holder, InHand, QueueInv, Exclusive, Threads
  <2>2. Left = count
    BY <1>1, <2>1 DEF Left
  <2>3. visible = contents /\ Seen = count
    BY <1>5 DEF visible, Seen
  <2> QED BY <1>2, <2>2, <2>3 DEF VisibleOK
<1> QED BY <1>3, <1>4, <1>5

\* A step that is no effect of push or pop shows the other threads nothing.
LEMMA SameVisible ==
    ASSUME VisibleOK, VisibleOK', pushed' = pushed, Seen' = Seen, Drops' = Drops
    PROVE  UNCHANGED <<visible, Drops>>
<1>1. /\ visible \in Seq(Nat) /\ visible' \in Seq(Nat) /\ Len(visible') = Len(visible)
      /\ \A k \in 1 .. Len(visible) : visible[k] = visible'[k]
  BY DEF VisibleOK
<1>2. visible' = visible
  BY <1>1, SeqEqual
<1> QED BY <1>2

\* Only the thread that stands at a label after the drop shows one element more.
LEMMA SeenIs ==
    ASSUME QueueInv, QueueAssumption
    PROVE  /\ mu = Free => Seen = count /\ Drops = dropped
           /\ mu \in Consumers => Seen = count /\ Drops = dropped
           /\ mu \in Threads /\ pc[mu] # "dropped" => Seen = count /\ Drops = dropped
           /\ mu \in Threads /\ pc[mu] = "dropped" =>
                Seen = count + 1 /\ Drops = dropped - 1
BY HolderFacts DEF holder, Seen, Drops, QueueInv, Exclusive, Threads

\* push, as the other threads see it, when it stores.
LEMMA StoreIsPush ==
    ASSUME QueueInv, QueueAssumption, VisibleOK, VisibleOK', NEW t \in Producers, PushStore(t)
    PROVE  Fifo!Next
<1>1. /\ t \in Threads /\ mu = t /\ mu' = t /\ pushed' = pushed + 1 /\ dropped' = dropped
      /\ count' = count + 1 /\ goto(t, "stored")
      /\ \/ pc[t] = "full?" /\ count < Capacity
         \/ pc[t] = "dropped"
  BY HolderFacts DEF PushStore, store, Threads
<1>2. /\ count \in Nat /\ pushed \in Nat /\ pushed < MaxPushes /\ MaxPushes \in Nat
      /\ Capacity \in Nat /\ dropped \in Nat /\ count <= pushed
  BY <1>1, QueueFacts, SMTT(30) DEF QueueInv, Room
<1>3. pushed + 1 \in 1 .. MaxPushes
  BY <1>2
<1>4. pc'[t] = "stored"
  BY <1>1 DEF goto, QueueInv, QueueTypeOK
<1>5. Seen' = count + 1 /\ Drops' = dropped
  BY <1>1, <1>4 DEF holder, Seen, Drops
<1>6. /\ visible \in Seq(Nat) /\ Len(visible) = Seen
      /\ visible' \in Seq(Nat) /\ Len(visible') = count + 1
      /\ \A k \in 1 .. Seen : visible[k] = pushed - Seen + k
      /\ \A k \in 1 .. count + 1 : visible'[k] = pushed + 1 - (count + 1) + k
  <2>1. /\ visible \in Seq(Nat) /\ Len(visible) = Seen
        /\ \A k \in 1 .. Seen : visible[k] = pushed - Seen + k
    BY DEF VisibleOK
  <2>2. /\ visible' \in Seq(Nat) /\ Len(visible') = Seen'
        /\ \A k \in 1 .. Seen' : visible'[k] = pushed' - Seen' + k
    BY DEF VisibleOK
  <2>3. Seen' = count + 1 /\ pushed' = pushed + 1
    BY <1>1, <1>5
  <2>4. Len(visible') = count + 1
    BY <2>2, <2>3
  <2>5. \A k \in 1 .. count + 1 : visible'[k] = pushed + 1 - (count + 1) + k
    <3>1. \A k \in 1 .. Seen' : visible'[k] = pushed' - Seen' + k
      BY <2>2
    <3> DEFINE seen == Seen'
    <3> HIDE DEF seen
    <3>2. \A k \in 1 .. seen : visible'[k] = pushed' - seen + k
      BY <3>1 DEF seen
    <3>3. seen = count + 1
      BY <2>3 DEF seen
    <3> QED BY <1>2, <2>3, <3>2, <3>3
  <2> QED BY <2>1, <2>2, <2>4, <2>5
<1>7. CASE pc[t] = "full?" /\ count < Capacity
  <2>1. Seen = count /\ Drops = dropped
    BY <1>1, <1>7, SeenIs
  <2> DEFINE longer == Append(visible, pushed + 1)
  <2>2. /\ longer \in Seq(Nat) /\ Len(longer) = count + 1
        /\ \A k \in 1 .. count : longer[k] = visible[k]
        /\ longer[count + 1] = pushed + 1
    <3>1. pushed + 1 \in Nat /\ Len(visible) = count
      BY <1>2, <1>6, <2>1
    <3> QED BY <1>6, <3>1, AppendProperties
  <2> HIDE DEF longer
  <2>3. \A k \in 1 .. count + 1 : longer[k] = visible'[k]
    <3> TAKE k \in 1 .. count + 1
    <3>1. CASE k = count + 1
      BY <1>2, <1>6, <2>2, <3>1
    <3>2. CASE k # count + 1
      <4>1. k \in 1 .. count
        BY <1>2, <3>2
      <4>2. longer[k] = pushed - count + k
        BY <1>6, <2>1, <2>2, <4>1
      <4>3. visible'[k] = pushed + 1 - (count + 1) + k
        BY <1>6
      <4> QED BY <1>2, <4>1, <4>2, <4>3
    <3> QED BY <3>1, <3>2
  <2>4. visible' = longer
    BY <1>6, <2>2, <2>3, SeqEqual
  <2>5. Len(visible) < Capacity /\ UNCHANGED Drops
    BY <1>5, <1>6, <1>7, <2>1
  <2>6. Fifo!Push(pushed + 1)
    BY <2>4, <2>5 DEF Fifo!Push, Drops, longer
  <2> QED BY <1>3, <2>6 DEF Fifo!Next
<1>8. CASE pc[t] = "dropped"
  <2>1. Seen = count + 1 /\ Drops = dropped - 1
    BY <1>1, <1>8, SeenIs
  <2>2. count = Capacity - 1 /\ Len(visible) = Capacity
    BY <1>1, <1>2, <1>6, <1>8, <2>1 DEF QueueInv, Room
  <2>3. visible # <<>>
    BY <1>2, <1>6, <2>1
  <2> DEFINE rest == Tail(visible)
  <2>4. /\ rest \in Seq(Nat) /\ Len(rest) = count
        /\ \A k \in 1 .. count : rest[k] = visible[k + 1]
    <3>1. /\ Tail(visible) \in Seq(Nat) /\ Len(Tail(visible)) = Len(visible) - 1
          /\ \A k \in 1 .. Len(Tail(visible)) : Tail(visible)[k] = visible[k + 1]
      BY <1>6, <2>3, HeadTailProperties
    <3>2. Len(visible) - 1 = count
      BY <1>2, <1>6, <2>1
    <3> QED BY <3>1, <3>2
  <2> HIDE DEF rest
  <2> DEFINE next == Append(rest, pushed + 1)
  <2>5. /\ next \in Seq(Nat) /\ Len(next) = count + 1
        /\ \A k \in 1 .. count : next[k] = rest[k]
        /\ next[count + 1] = pushed + 1
    <3>1. pushed + 1 \in Nat
      BY <1>2
    <3> QED BY <2>4, <3>1, AppendProperties
  <2> HIDE DEF next
  <2>6. \A k \in 1 .. count + 1 : next[k] = visible'[k]
    <3> TAKE k \in 1 .. count + 1
    <3>1. CASE k = count + 1
      BY <1>2, <1>6, <2>5, <3>1
    <3>2. CASE k # count + 1
      <4>1. k \in 1 .. count /\ k + 1 \in 1 .. Seen
        BY <1>2, <2>1, <3>2
      <4>2. next[k] = pushed - Seen + (k + 1)
        BY <1>6, <2>4, <2>5, <4>1
      <4>3. visible'[k] = pushed + 1 - (count + 1) + k
        BY <1>6
      <4> QED BY <1>2, <2>1, <4>1, <4>2, <4>3
    <3> QED BY <3>1, <3>2
  <2>7. visible' = next
    BY <1>6, <2>5, <2>6, SeqEqual
  <2>8. ~(Len(visible) < Capacity) /\ Drops' = Drops + 1
    BY <1>2, <1>5, <2>1, <2>2
  <2>9. Fifo!Push(pushed + 1)
    BY <2>7, <2>8 DEF Fifo!Push, Drops, next, rest
  <2> QED BY <1>3, <2>9 DEF Fifo!Next
<1> QED BY <1>1, <1>7, <1>8

\* pop, as the other threads see it, when it subtracts what it took.
LEMMA CountIsPop ==
    ASSUME QueueInv, QueueAssumption, VisibleOK, VisibleOK', NEW t \in Consumers, PopCount(t)
    PROVE  Fifo!Next
<1>1. /\ t \in Threads /\ mu = t /\ mu' = t /\ pushed' = pushed /\ dropped' = dropped
      /\ count' = count - want[t] /\ pc[t] = "taking" /\ goto(t, "counted")
  BY HolderFacts DEF PopCount, Threads
<1>2. count \in Nat /\ pushed \in Nat /\ count <= pushed
  BY QueueFacts
<1>3. PICK buf_cap \in BufCaps : want[t] = batch(buf_cap)
  BY <1>1 DEF QueueInv, Room
<1>4. buf_cap \in Nat
  BY DEF QueueAssumption
<1> DEFINE n == want[t]
<1>5. n \in 0 .. count /\ n = IF buf_cap < count THEN buf_cap ELSE count
  BY <1>2, <1>3, <1>4 DEF batch
<1>6. pc'[t] = "counted"
  BY <1>1 DEF goto, QueueInv, QueueTypeOK
<1>7. Seen = count /\ Drops = dropped /\ Seen' = count - n /\ Drops' = dropped
  BY <1>1, <1>6 DEF holder, Seen, Drops
<1> HIDE DEF n
<1>8. /\ visible \in Seq(Nat) /\ Len(visible) = count
      /\ visible' \in Seq(Nat) /\ Len(visible') = count - n
      /\ \A k \in 1 .. count : visible[k] = pushed - count + k
      /\ \A k \in 1 .. count - n : visible'[k] = pushed - (count - n) + k
  BY <1>1, <1>7 DEF VisibleOK
<1> DEFINE rest == SubSeq(visible, n + 1, count)
<1>9. /\ rest \in Seq(Nat) /\ Len(rest) = count - n
      /\ \A k \in 1 .. count - n : rest[k] = visible[n + k]
  <2>1. \A k \in n + 1 .. count : visible[k] \in Nat
    BY <1>2, <1>5, <1>8, SMTT(30)
  <2>2. /\ SubSeq(visible, n + 1, count) \in Seq(Nat)
        /\ Len(SubSeq(visible, n + 1, count)) =
                IF n + 1 <= count THEN count - (n + 1) + 1 ELSE 0
        /\ \A k \in 1 .. count - (n + 1) + 1 :
                SubSeq(visible, n + 1, count)[k] = visible[n + 1 + k - 1]
    BY <1>2, <1>5, <2>1, SubSeqProperties
  <2>3. (IF n + 1 <= count THEN count - (n + 1) + 1 ELSE 0) = count - n
    BY <1>2, <1>5
  <2>4. \A k \in 1 .. count - n : k \in 1 .. count - (n + 1) + 1 /\ n + 1 + k - 1 = n + k
    BY <1>2, <1>5
  <2> QED BY <2>2, <2>3, <2>4
<1> HIDE DEF rest
<1>10. \A k \in 1 .. count - n : rest[k] = visible'[k]
  <2> TAKE k \in 1 .. count - n
  <2>1. n + k \in 1 .. count
    BY <1>2, <1>5
  <2>2. rest[k] = pushed - count + (n + k)
    BY <1>8, <1>9, <2>1
  <2>3. visible'[k] = pushed - (count - n) + k
    BY <1>8
  <2> QED BY <1>2, <1>5, <2>2, <2>3
<1>11. visible' = rest
  BY <1>8, <1>9, <1>10, SeqEqual
<1>12. Fifo!Pop(buf_cap)
  <2>1. (IF buf_cap < Len(visible) THEN buf_cap ELSE Len(visible)) = n
    BY <1>5, <1>8
  <2>2. visible' = SubSeq(visible, (IF buf_cap < Len(visible) THEN buf_cap
                                    ELSE Len(visible)) + 1, Len(visible))
    BY <1>8, <1>11, <2>1 DEF rest
  <2>3. Drops' = Drops
    BY <1>7
  <2> QED BY <2>2, <2>3 DEF Fifo!Pop, Drops
<1> QED BY <1>12 DEF Fifo!Next

\* Every step of the queue is one of the atomic lossy FIFO, or shows nothing.
LEMMA QueueStepIsFifoStep ==
    ASSUME QueueInv, QueueInv', QueueAssumption, VisibleOK, VisibleOK', [Next]_vars
    PROVE  [Fifo!Next]_<<visible, Drops>>
<1>1. ASSUME pushed' = pushed, Seen' = Seen, Drops' = Drops
      PROVE  UNCHANGED <<visible, Drops>>
  BY <1>1, SameVisible
<1>2. pc \in [Threads -> {"idle", "full?", "dropped", "stored", "taking", "counted"}]
      /\ count \in Nat /\ dropped \in Nat /\ Free \notin Threads
      /\ Capacity \in Nat
  BY QueueFacts DEF QueueInv, QueueTypeOK, QueueAssumption, Threads
<1>3. ASSUME NEW t \in Producers, PushLock(t)
      PROVE  [Fifo!Next]_<<visible, Drops>>
  <2>1. t \in Threads /\ mu = Free /\ mu' = t /\ pc'[t] = "full?" /\ pushed' = pushed
        /\ count' = count /\ dropped' = dropped
    BY <1>2, <1>3 DEF PushLock, lock, goto, Threads, queuevars
  <2>2. Seen' = Seen /\ Drops' = Drops
    BY <1>2, <2>1 DEF Seen, Drops, holder
  <2> QED BY <1>1, <2>1, <2>2
<1>4. ASSUME NEW t \in Producers, DropOldest(t)
      PROVE  [Fifo!Next]_<<visible, Drops>>
  <2>1. t \in Threads /\ mu = t /\ mu' = t /\ pc[t] = "full?" /\ pc'[t] = "dropped"
        /\ pushed' = pushed /\ count' = count - 1 /\ dropped' = dropped + 1
    BY <1>2, <1>4, HolderFacts DEF DropOldest, drop_oldest, goto, Threads
  <2>2. Seen' = Seen /\ Drops' = Drops
    BY <1>2, <2>1 DEF Seen, Drops, holder
  <2> QED BY <1>1, <2>1, <2>2
<1>5. ASSUME NEW t \in Producers, PushStore(t)
      PROVE  [Fifo!Next]_<<visible, Drops>>
  BY <1>5, StoreIsPush
<1>6. ASSUME NEW t \in Threads, pc[t] # "dropped", mu = t, mu' = Free,
             pushed' = pushed, count' = count, dropped' = dropped
      PROVE  [Fifo!Next]_<<visible, Drops>>
  <2>1. Seen' = Seen /\ Drops' = Drops
    BY <1>2, <1>6 DEF Seen, Drops, holder
  <2> QED BY <1>1, <1>6, <2>1
<1>7. ASSUME NEW t \in Producers, PushUnlock(t)
      PROVE  [Fifo!Next]_<<visible, Drops>>
  <2>1. t \in Threads /\ pc[t] # "dropped" /\ mu = t /\ mu' = Free
        /\ pushed' = pushed /\ count' = count /\ dropped' = dropped
    BY <1>7, HolderFacts DEF PushUnlock, Threads, queuevars
  <2> QED BY <1>6, <2>1
<1>8. ASSUME NEW t \in Consumers, PopLock(t)
      PROVE  [Fifo!Next]_<<visible, Drops>>
  <2>1. t \in Threads /\ mu = Free /\ mu' = t /\ pc'[t] = "taking" /\ pushed' = pushed
        /\ count' = count /\ dropped' = dropped
    BY <1>2, <1>8 DEF PopLock, lock, goto, Threads, queuevars
  <2>2. Seen' = Seen /\ Drops' = Drops
    BY <1>2, <2>1 DEF Seen, Drops, holder
  <2> QED BY <1>1, <2>1, <2>2
<1>9. ASSUME NEW t \in Consumers, Take(t)
      PROVE  [Fifo!Next]_<<visible, Drops>>
  <2>1. mu' = mu /\ pc' = pc /\ pushed' = pushed /\ count' = count /\ dropped' = dropped
    BY <1>9 DEF Take
  <2>2. Seen' = Seen /\ Drops' = Drops
    BY <2>1 DEF Seen, Drops, holder
  <2> QED BY <1>1, <2>1, <2>2
<1>10. ASSUME NEW t \in Consumers, PopCount(t)
       PROVE  [Fifo!Next]_<<visible, Drops>>
  BY <1>10, CountIsPop
<1>11. ASSUME NEW t \in Consumers, PopUnlock(t)
       PROVE  [Fifo!Next]_<<visible, Drops>>
  <2>1. t \in Threads /\ pc[t] # "dropped" /\ mu = t /\ mu' = Free
        /\ pushed' = pushed /\ count' = count /\ dropped' = dropped
    BY <1>11, HolderFacts DEF PopUnlock, Threads, queuevars
  <2> QED BY <1>6, <2>1
<1>12. CASE UNCHANGED vars
  <2>1. mu' = mu /\ pc' = pc /\ pushed' = pushed /\ count' = count /\ dropped' = dropped
    BY <1>12 DEF vars, queuevars
  <2>2. Seen' = Seen /\ Drops' = Drops
    BY <2>1 DEF Seen, Drops, holder
  <2> QED BY <1>1, <2>1, <2>2
<1> QED BY <1>3, <1>4, <1>5, <1>7, <1>8, <1>9, <1>10, <1>11, <1>12 DEF Next

(***************************************************************************)
(* Every interleaving of pushes and pops, line by line, is one of an       *)
(* atomic FIFO that drops its oldest element when it is full.              *)
(***************************************************************************)
THEOREM QueueImplementsFifo == Spec => FifoSpec
<1> USE QueueAssumption
<1>1. Init => Fifo!Init
  <2> SUFFICES ASSUME Init PROVE Fifo!Init
    OBVIOUS
  <2>1. VisibleOK
    BY InitInv, VisibleFacts
  <2>2. ~holder("dropped") /\ count = 0 /\ dropped = 0
    BY DEF Init, holder, QueueAssumption, Threads
  <2>3. visible \in Seq(Nat) /\ Len(visible) = 0
    BY <2>1, <2>2 DEF VisibleOK, Seen
  <2>4. visible = <<>>
    BY <2>3, EmptySeq
  <2> QED BY <2>2, <2>4 DEF Fifo!Init
<1>2. QueueInv => VisibleOK
  BY VisibleFacts
<1>3. /\ QueueInv /\ QueueInv' /\ VisibleOK /\ VisibleOK' /\ [Next]_vars
      => [Fifo!Next]_<<visible, IF holder("dropped") THEN dropped - 1 ELSE dropped>>
  BY QueueStepIsFifoStep DEF Drops
<1> QED BY <1>1, <1>2, <1>3, QueueInvariant, PTL DEF Spec, FifoSpec, Fifo!Spec
=============================================================================
