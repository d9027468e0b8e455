----------------------------- MODULE Collector -----------------------------
(***************************************************************************)
(* pg_collector_scan of src/collector/collector.c, against processes that  *)
(* end and pids that are used again while it reads. One action per file    *)
(* that is read: a file of /proc, once open, is of one process. A field of *)
(* a sample is the number of the process it was read from, and 0 when the  *)
(* read failed and left the zero of memset; its marks are those of the     *)
(* comm (in stat) and of the exe that were read. main scans with           *)
(* skip_kernel_threads off.                                                *)
(***************************************************************************)
EXTENDS Kernel

VARIABLES
    dir,     \* the walk over /proc: "closed", "reading", "done" or "failed"
    at,      \* the pid readdir gave last
    sample,  \* the sample that is being populated
    todo,    \* the files that are still to be read for it
    arr      \* the samples so far

collector == <<dir, at, sample, todo, arr>>

RawSamples ==
    [pid : PidSpace \cup {0}, stat : Nat, statm : Nat, io : Nat, exe : Nat,
     marks : SUBSET Marks]

\* memset: no field has been read yet.
NoSample ==
    [pid |-> 0, stat |-> 0, statm |-> 0, io |-> 0, exe |-> 0, marks |-> {}]

CollectorInit ==
    dir = "closed" /\ at = 0 /\ sample = NoSample /\ todo = <<>> /\ arr = <<>>

-----------------------------------------------------------------------------
OpenDir ==
    /\ dir = "closed"
    /\ dir' \in {"reading", "failed"}
    /\ at' = 0
    /\ UNCHANGED <<sample, todo, arr>>

Walking == dir = "reading" /\ todo = <<>>

\* The pids readdir has still to give; a directory of /proc is in their order.
Listed == {pid \in PidSpace : pid > at /\ Holder(pid) # {}}
NextListed == CHOOSE pid \in Listed : \A other \in Listed : pid <= other

\* A bug: the fields of the sample before are not cleared.
blank_keeps_last == IF arr = <<>> THEN NoSample ELSE arr[Len(arr)]

blank == NoSample

\* populate_sample: the fields of stat, its comm among them.
started(n) ==
    [blank EXCEPT !.pid = NextListed, !.stat = n,
                  !.marks = procs[n].marks \cap {"name"}]

\* A bug: a pid whose stat cannot be read is kept.
ReadStat_unread ==
    /\ Walking /\ Listed # {}
    /\ at' = NextListed
    /\ \/ \E n \in Holder(NextListed) : sample' = started(n)
       \/ sample' = [blank EXCEPT !.pid = NextListed]
    /\ todo' = <<"statm", "io", "exe">>
    /\ UNCHANGED <<dir, arr>>

\* The next entry and its stat, which must be readable: without it the pid is
\* left out in silence.
ReadStat ==
    /\ Walking /\ Listed # {}
    /\ at' = NextListed
    /\ \/ /\ \E n \in Holder(NextListed) : sample' = started(n)
          /\ todo' = <<"statm", "io", "exe">>
       \/ UNCHANGED <<sample, todo>>
    /\ UNCHANGED <<dir, arr>>

\* The array is full, as it is before the first entry, and realloc fails: the
\* whole scan is lost.
GrowFails ==
    /\ Walking /\ Listed # {}
    /\ at = 0 \/ Len(arr) \in {64 * 2^k : k \in 0 .. Len(arr)}
    /\ dir' = "failed" /\ arr' = <<>>
    /\ UNCHANGED <<at, sample, todo>>

\* Whoever has the pid by now answers, a zombie has no exe, and any of the three
\* files may be refused, which leaves the field as it is.
answers(file) ==
    {sample[file]} \cup {n \in Holder(sample.pid) : file = "exe" => Alive(n)}

\* What the answer of n to the read of a file makes of the sample.
path_mark(file, n) == IF file = "exe" /\ n # 0 THEN procs[n].marks \cap {"path"} ELSE {}

answered(file, n) ==
    [sample EXCEPT ![file] = n, !.marks = @ \cup path_mark(file, n)]

ReadBestEffort ==
    /\ dir = "reading" /\ todo # <<>>
    /\ \E n \in answers(Head(todo)) :
        LET s == answered(Head(todo), n)
        IN  IF Len(todo) = 1
            THEN arr' = Append(arr, s) /\ sample' = NoSample
            ELSE sample' = s /\ UNCHANGED arr
    /\ todo' = Tail(todo)
    /\ UNCHANGED <<dir, at>>

CloseDir ==
    /\ Walking /\ Listed = {}
    /\ dir' = "done"
    /\ UNCHANGED <<at, sample, todo, arr>>

Scan == OpenDir \/ ReadStat \/ GrowFails \/ ReadBestEffort \/ CloseDir

\* The caller takes the array.
TakeScan ==
    /\ dir = "done"
    /\ dir' = "closed" /\ at' = 0 /\ arr' = <<>>
    /\ UNCHANGED <<sample, todo>>

\* pg_collector_read_starttime: the start time behind the pid, if there is one.
\* A bug: it is not compared with anything.
starttime_is_any(pid, start) == Holder(pid) # {}

starttime_is(pid, start) == start \in Holder(pid)
-----------------------------------------------------------------------------
\* The types, and what the store and the engine take for granted of a scan: each
\* pid is in it once, and each sample has a start time (pg_collector_scan).
CollectorTypeOK ==
    /\ dir \in {"closed", "reading", "done", "failed"}
    /\ at \in PidSpace \cup {0}
    /\ sample \in RawSamples /\ arr \in Seq(RawSamples)
    /\ todo \in Seq({"statm", "io", "exe"})
    /\ \A k \in DOMAIN arr :
        /\ arr[k].stat # 0
        /\ \A l \in DOMAIN arr : arr[k].pid = arr[l].pid => k = l

(***************************************************************************)
(* A sample is of one process, or of one that is no more: however the pid  *)
(* changes hands between the four reads, a sample whose process is still   *)
(* there has nothing of another one (populate_sample).                     *)
(***************************************************************************)
SampleIsOneProcess ==
    \A k \in DOMAIN arr : \A file \in {"statm", "io", "exe"} :
        \/ arr[k][file] \in {0, arr[k].stat}
        \/ procs[arr[k].stat].state = "gone"
=============================================================================
