----------------------------- MODULE LossyFifo -----------------------------
(***************************************************************************)
(* What the inter-thread queues promise: a bounded FIFO that never refuses *)
(* an element, because a full queue drops its oldest one and counts it.    *)
(* Every operation is one step.                                            *)
(***************************************************************************)
EXTENDS Naturals, Sequences

CONSTANTS Items, Capacity, BufCaps

VARIABLES queue, dropped

Init == queue = <<>> /\ dropped = 0

Push(item) ==
    IF Len(queue) < Capacity
    THEN queue' = Append(queue, item) /\ UNCHANGED dropped
    ELSE queue' = Append(Tail(queue), item) /\ dropped' = dropped + 1

\* As many of the oldest as there is room for.
Pop(cap) ==
    /\ queue' = SubSeq(queue, (IF cap < Len(queue) THEN cap ELSE Len(queue)) + 1,
                       Len(queue))
    /\ UNCHANGED dropped

Next == (\E item \in Items : Push(item)) \/ (\E cap \in BufCaps : Pop(cap))

Spec == Init /\ [][Next]_<<queue, dropped>>
=============================================================================
