----------------------------- MODULE Governance -----------------------------
(***************************************************************************)
(* The program in its surroundings: the engine and its loop (AlertEngine), *)
(* the scan that feeds it (Collector) and the kernel they read and act on  *)
(* (Kernel), which goes on meanwhile. What AlertEngine leaves open is      *)
(* answered here: the scan is what the collector found, the identity check *)
(* compares with whoever has the pid, and cage_apply of alert_cage.c is    *)
(* its four steps on the cgroup tree, each of which may fail.              *)
(*                                                                         *)
(* Processes start, end and change their program wherever ProcGuard is     *)
(* about to look at the kernel; elsewhere they would be seen no sooner.    *)
(***************************************************************************)
EXTENDS AlertEngine, Collector

VARIABLES
    cage_step,  \* the next step of cage_apply: "root", "mkdir", "limit", "move"
    turned,     \* history: who became a guardian since its stat was read
    seen,       \* history: the processes started when the identity was checked
    hit         \* history: who the last step did something to, and who it meant

govvars == <<vars, kernel, collector, cage_step, turned, seen, hit>>

NoHit == [target |-> 0, judged |-> 0]

GovernanceInit ==
    /\ Init /\ KernelInit /\ CollectorInit
    /\ cage_step = "none" /\ turned = {} /\ seen = 0 /\ hit = NoHit

NoCall == hit' = NoHit /\ UNCHANGED <<cage_step, turned, seen>>

-----------------------------------------------------------------------------
(***************************************************************************)
(* run_cycle calls the scan and hands its samples to the store and to the  *)
(* engine. A scan that fails ends the run.                                 *)
(***************************************************************************)
ScanStep ==
    /\ phase = "idle" /\ cycle < Cycles
    /\ Scan
    /\ turned' = IF todo = <<>> THEN turned \ {sample'.stat} ELSE turned
    /\ hit' = NoHit
    /\ UNCHANGED <<vars, kernel, cage_step, seen>>

\* whitelist_reason: no exe, or a protected name (of stat) in a protected path (of
\* exe). init, ProcGuard and its children, of which it has none, are not among the
\* processes here.
\* A bug: a process whose exe cannot be read is judged by its name and path.
protected_needs_exe(raw) == raw.exe # 0 /\ raw.marks = Marks

protected(raw) == raw.exe = 0 \/ raw.marks = Marks

Scanned ==
    [k \in DOMAIN arr |->
        [id |-> [pid |-> arr[k].pid, starttime |-> arr[k].stat],
         protected |-> protected(arr[k])]]

\* Here the store has memory for every sample.
Begin ==
    /\ samples' = Scanned
    /\ present' = present \cup {samples'[k].id : k \in DOMAIN samples'}
    /\ TakeScan
    /\ BeginCycle
    /\ NoCall /\ UNCHANGED kernel

End ==
    /\ cycle = Cycles \/ dir = "failed"
    /\ Finish
    /\ NoCall /\ UNCHANGED <<kernel, collector>>

\* The steps of the engine that look at nothing but its own state. The policies
\* here are on the memory, which always has a reading.
Compute ==
    /\ \/ EvalScored \/ Validate \/ CycleNoMemory \/ ActSkipped
       \/ ActDryRun \/ ActLogOnly \/ CageRefused \/ KillHeldBack
       \/ CageGcKeep \/ EndCycle
    /\ NoCall /\ UNCHANGED <<kernel, collector>>

-----------------------------------------------------------------------------
(***************************************************************************)
(* The identity check, and the system calls, which take only the pid.      *)
(***************************************************************************)
CheckFails ==
    /\ GuardFails
    /\ ~starttime_is(dec.id.pid, dec.id.starttime)
    /\ NoCall /\ UNCHANGED <<kernel, collector>>

CheckPasses ==
    /\ GuardPasses
    /\ starttime_is(dec.id.pid, dec.id.starttime)
    /\ seen' = Len(procs)
    /\ cage_step' = IF dec.kind = "CAGE" THEN "root" ELSE "none"
    /\ hit' = NoHit
    /\ UNCHANGED <<kernel, collector, turned>>

Hits(pid) ==
    hit' = [target |-> IF Holder(pid) = {} THEN 0 ELSE CHOOSE n \in Holder(pid) : TRUE,
            judged |-> dec.id.starttime]

\* setpriority and SIGSTOP leave nothing the rest of the program reads.
ReniceOrStop ==
    /\ Renice \/ Stop
    /\ Hits(dec.id.pid)
    /\ UNCHANGED <<kernel, collector, cage_step, turned, seen>>

SendKill ==
    /\ Kill
    /\ Hits(dec.id.pid)
    /\ sigkill(dec.id.pid)
    /\ UNCHANGED <<execs, groups, limited, collector, cage_step, turned, seen>>

-----------------------------------------------------------------------------
(***************************************************************************)
(* pg_cage_apply_sysfs, one action per file of the cgroup tree it touches; *)
(* CageBreaks is the failure of any of them, which leaves the others done. *)
(***************************************************************************)
Caging(step) == phase = "apply" /\ dec.kind = "CAGE" /\ cage_step = step

GoOn(step) ==
    /\ cage_step' = step /\ hit' = NoHit
    /\ UNCHANGED <<vars, procs, execs, collector, turned, seen>>

\* The root and its cpu controller, which is enabled if it may be.
MakeRoot == Caging("root") /\ GoOn("mkdir") /\ UNCHANGED <<groups, limited>>

MakeGroup ==
    /\ Caging("mkdir") /\ GoOn("limit")
    /\ groups' = groups \cup {dec.id.pid} /\ UNCHANGED limited

WriteLimit ==
    /\ Caging("limit") /\ GoOn("move")
    /\ limited' = limited \cup {dec.id.pid} /\ UNCHANGED groups

\* A bug: the process is moved in before its limit is written.
MoveIn_unlimited ==
    /\ cage_step \in {"limit", "move"} /\ Caging(cage_step)
    /\ Holder(dec.id.pid) # {}
    /\ CageApplied
    /\ Hits(dec.id.pid)
    /\ join(dec.id.pid)
    /\ cage_step' = "none"
    /\ UNCHANGED <<execs, groups, limited, collector, turned, seen>>

MoveIn ==
    /\ Caging("move") /\ Holder(dec.id.pid) # {}
    /\ CageApplied
    /\ Hits(dec.id.pid)
    /\ join(dec.id.pid)
    /\ cage_step' = "none"
    /\ UNCHANGED <<execs, groups, limited, collector, turned, seen>>

\* A bug: the process is registered whatever cage_apply returns.
CageBreaks_registers ==
    /\ cage_step # "none" /\ phase = "apply"
    /\ Advance("cage_failed", "none")
    /\ caged' = registered(dec.id)
    /\ cage_step' = "none" /\ hit' = NoHit
    /\ UNCHANGED <<ringvars, kernel, collector, turned, seen>>

CageBreaks ==
    /\ cage_step # "none"
    /\ CageFailed
    /\ cage_step' = "none" /\ hit' = NoHit
    /\ UNCHANGED <<kernel, collector, turned, seen>>

(***************************************************************************)
(* pg_cage_release_sysfs is an rmdir by pid: it fails while a process      *)
(* lives in the group, and cage_gc does not look.                          *)
(***************************************************************************)
Release ==
    /\ CageGcRelease
    /\ LET pid == caged[i].pid IN
        IF Members(pid) = {}
        THEN groups' = groups \ {pid} /\ limited' = limited \ {pid}
        ELSE UNCHANGED <<groups, limited>>
    /\ NoCall /\ UNCHANGED <<procs, execs, collector>>

\* The store keeps an id while its process is there to be scanned.
Collect ==
    /\ StateGc
    /\ \A id \in present : starttime_is(id.pid, id.starttime) => id \in present'
    /\ NoCall /\ UNCHANGED <<kernel, collector>>

-----------------------------------------------------------------------------
\* The program is about to read /proc, to make a call or to touch the tree.
Looking ==
    \/ phase = "idle" /\ dir = "reading"
    \/ phase = "act" /\ i <= Len(decs)
    \/ phase \in {"apply", "cage_gc"}

WorldStep ==
    /\ Looking
    /\ World
    /\ turned' = turned \cup
            {n \in DOMAIN procs : procs[n].marks # Marks /\ procs'[n].marks = Marks}
    /\ hit' = NoHit
    /\ UNCHANGED <<vars, collector, cage_step, seen>>

GovernanceStopped == phase = "stopped" /\ UNCHANGED govvars

Program ==
    \/ ScanStep \/ Begin \/ End \/ Compute \/ CheckFails \/ CheckPasses
    \/ ReniceOrStop \/ SendKill \/ MakeRoot \/ MakeGroup \/ WriteLimit \/ MoveIn
    \/ CageBreaks \/ Release \/ Collect

GovernanceNext == Program \/ WorldStep \/ GovernanceStopped

GovernanceSpec == GovernanceInit /\ [][GovernanceNext]_govvars

-----------------------------------------------------------------------------
(***************************************************************************)
(* A system call reaches the process that was judged, or one that took its *)
(* pid after the identity check: the check leaves no older mistake         *)
(* (collector_scan, toctou_ok, kill).                                      *)
(***************************************************************************)
HitsTheJudged == hit.target \in {0, hit.judged} \/ hit.target > seen

(***************************************************************************)
(* A protected process is reniced, stopped, killed or caged only when it   *)
(* took the pid after the check, or became protected after its stat was    *)
(* read: the check compares the start time, which an execve leaves as it   *)
(* is. Up to there no exit, no reuse of its pid and no execve among the    *)
(* reads of its sample gives it away (read_proc_exe, whitelist_reason,     *)
(* toctou_ok).                                                             *)
(***************************************************************************)
GuardiansUntouched ==
    hit.target # 0 /\ procs[hit.target].marks = Marks =>
        hit.target > seen \/ hit.target \in turned

(***************************************************************************)
(* No process runs in a group without a limit, and none in a group that is *)
(* no more: not during an apply, not after one that broke, not after a     *)
(* release by a pid that is in use again (pg_cage_apply_sysfs, cage_gc).   *)
(***************************************************************************)
ConfinedIsLimited ==
    \A n \in DOMAIN procs :
        Alive(n) /\ procs[n].group # NoGroup => procs[n].group \in groups \cap limited

(***************************************************************************)
(* What the register counts as caged is: a process of the register that    *)
(* lives is in the group of its pid (cage_one, cage_gc).                   *)
(***************************************************************************)
RegisteredIsConfined ==
    \A k \in DOMAIN caged :
        Alive(caged[k].starttime) => procs[caged[k].starttime].group = caged[k].pid

(***************************************************************************)
(* alert_cage.h: "rmdir del subárbol del pid (vacío tras su muerte)": the  *)
(* group of a process that is gone has no process left when cage_gc        *)
(* releases it.                                                            *)
(***************************************************************************)
ReleasedIsEmpty ==
    CageGcIter /\ caged[i] \notin present => Members(caged[i].pid) = {}
=============================================================================
