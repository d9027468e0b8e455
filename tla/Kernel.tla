------------------------------- MODULE Kernel -------------------------------
(***************************************************************************)
(* The part of Linux that ProcGuard works on, as its code uses it: the     *)
(* table of processes behind /proc and kill(2), and the directories under  *)
(* /sys/fs/cgroup/procguard. Processes are numbered in the order in which  *)
(* they start, so that the number of a process is its start time; a pid is *)
(* free again when its process has been waited for.                        *)
(***************************************************************************)
EXTENDS Integers, Sequences

CONSTANTS PidSpace,   \* the pids that processes take; init and ProcGuard keep their own
          Initial,    \* the processes that run at the start
          Images,     \* the programs that are run, by the marks of each
          MaxStarts,  \* bound on the processes of a behaviour
          MaxExecs    \* bound on the times they change their program

NoGroup == 0

\* What the whitelist looks for in a process: that its comm is a protected name,
\* that its exe lies in a protected path. A guardian has both.
Marks == {"name", "path"}

Processes ==
    [pid : PidSpace, marks : Images, state : {"alive", "zombie", "gone"},
     group : PidSpace \cup {NoGroup}]

ASSUME KernelAssumption ==
    /\ PidSpace \subseteq Nat \ {0, 1}
    /\ MaxStarts \in Nat /\ MaxExecs \in Nat
    /\ Images \subseteq SUBSET Marks
    /\ Initial \in Seq(Processes)
    /\ \A m, n \in DOMAIN Initial :
        /\ Initial[m].pid = Initial[n].pid => m = n
        /\ Initial[m].group = NoGroup

VARIABLES
    procs,     \* every process so far, in the order of their start
    execs,     \* how often one of them has changed its program
    groups,    \* the directories, named by pid
    limited    \* those whose cpu.max has been written

kernel == <<procs, execs, groups, limited>>

KernelInit == procs = Initial /\ execs = 0 /\ groups = {} /\ limited = {}

Alive(n) == n \in DOMAIN procs /\ procs[n].state = "alive"

\* The process that has the pid, alive or waiting to be waited for, or none.
Holder(pid) == {n \in DOMAIN procs : procs[n].pid = pid /\ procs[n].state # "gone"}

Members(g) == {n \in DOMAIN procs : Alive(n) /\ procs[n].group = g}

(***************************************************************************)
(* A process starts on a free pid, in the group of the one that forked it. *)
(***************************************************************************)
Spawn ==
    /\ Len(procs) < MaxStarts
    /\ \E pid \in PidSpace, marks \in Images,
          g \in {NoGroup} \cup {procs[n].group : n \in {m \in DOMAIN procs : Alive(m)}} :
        /\ Holder(pid) = {}
        /\ procs' = Append(procs, [pid |-> pid, marks |-> marks,
                                   state |-> "alive", group |-> g])
    /\ UNCHANGED <<execs, groups, limited>>

\* It ends, and is waited for at once or stays a zombie for a while.
Exit ==
    /\ \E n \in DOMAIN procs, s \in {"zombie", "gone"} :
        /\ procs[n].state # "gone" /\ procs[n].state # s
        /\ procs' = [procs EXCEPT ![n].state = s]
    /\ UNCHANGED <<execs, groups, limited>>

\* execve, or prctl(PR_SET_NAME): the name and the path change, the pid, the start
\* time and the group do not.
Exec ==
    /\ execs < MaxExecs /\ execs' = execs + 1
    /\ \E n \in DOMAIN procs, marks \in Images :
        /\ Alive(n) /\ procs[n].marks # marks
        /\ procs' = [procs EXCEPT ![n].marks = marks]
    /\ UNCHANGED <<groups, limited>>

World == Spawn \/ Exit \/ Exec

-----------------------------------------------------------------------------
\* kill(pid, SIGKILL) on whoever has the pid.
sigkill(pid) ==
    procs' = [n \in DOMAIN procs |->
                IF n \in Holder(pid) THEN [procs[n] EXCEPT !.state = "zombie"]
                ELSE procs[n]]

\* A write to cgroup.procs: a zombie takes the write and stays where it is.
join(pid) ==
    procs' = [n \in DOMAIN procs |->
                IF n \in Holder(pid) /\ Alive(n)
                THEN [procs[n] EXCEPT !.group = pid] ELSE procs[n]]
=============================================================================
