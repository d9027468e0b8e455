--------------------------- MODULE ProcessHistory ---------------------------
(***************************************************************************)
(* What the sample store promises its users, with no buffers and no array  *)
(* of entries: for each process the last Depth samples recorded, oldest    *)
(* first, until it is forgotten. A process recorded since the last tick is *)
(* not forgotten.                                                          *)
(***************************************************************************)
EXTENDS Naturals, Sequences

CONSTANTS Procs,   \* process identities, (pid, starttime)
          Samples, \* what may be recorded
          Depth    \* samples kept for each of them

VARIABLES hist,    \* the samples of each process; none when it is not kept
          recorded \* the processes recorded since the last tick

Init == hist = [p \in Procs |-> <<>>] /\ recorded = {}

LastOf(s) == IF Len(s) > Depth THEN Tail(s) ELSE s

Record(p, t) ==
    /\ p \notin recorded
    /\ hist' = [hist EXCEPT ![p] = LastOf(Append(@, t))]
    /\ recorded' = recorded \cup {p}

Forget(p) ==
    /\ p \notin recorded
    /\ hist[p] # <<>>
    /\ hist' = [hist EXCEPT ![p] = <<>>]
    /\ UNCHANGED recorded

Tick == recorded' = {} /\ UNCHANGED hist

Next == \/ \E p \in Procs, t \in Samples : Record(p, t)
        \/ \E p \in Procs : Forget(p)
        \/ Tick

Spec == Init /\ [][Next]_<<hist, recorded>>
=============================================================================
