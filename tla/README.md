# ProcGuard in TLA+

ProcGuard is a Linux daemon that samples `/proc`, compares metrics of every
process with the policies of an INI file, and acts on the processes that stay
above a threshold: a warning, a new nice value, a CPU cage, SIGSTOP, SIGKILL.
This directory holds TLA+ modules of the program, from the first call of `main`
to its exit, the TLC configurations that check them on small instances, and
proofs for every value of the constants. Paths below are relative to the
repository.

```
tlc -workers 2 -config MCAlertEngine_ladder.cfg MCAlertEngine     # one run
tlapm AlertEngine_proofs.tla                                      # the proofs
```

`PROJECT.json` lists the runs, the source lines of every definition, a mutation
of the code that breaks each checked property, the hazards, the divergences
found, and the theorems.

## 1. Inventory

The program is one process with one thread that runs one loop (`src/main.c`):

```
scan -> insert all -> evaluate -> validate -> act -> store tick -> engine gc -> sleep
```

| component | source | state | operations | module |
|---|---|---|---|---|
| governance loop | `src/main.c` | previous scan, cycle number | `main`, `run_cycle`, `run_loop` | `Startup`, `AlertEngine`, `Governance` |
| collector | `src/collector` | `/proc` path | `scan`, `read_starttime` | `Collector` |
| sample store | `src/store` | array of entries, each a circular buffer, `absent_cycles`, `seen_this_tick` | `insert`, `get_history`, `tick` | `SampleStore` |
| metrics | `src/metrics` | none | `cpu_percent`, `io_rates` | `Metrics` |
| alert state machine | `src/alert/alert_eval.c`, `alert_act.c` | per (process, policy): streaks, cooldown, active since, level, flag | `apply_zone`, `maybe_deactivate`, `should_emit`, `advance_after_act` | `AlertState`, `AlertEngine` |
| state registry | `src/alert/alert_state.c` | array of pointers to those records | `upsert`, `lookup`, `gc` | `AlertRegistry` |
| validation | `src/alert/alert_validate.c` | none (annotates decisions) | stale id, whitelist, sanity delay | `AlertEngine`, `Governance` |
| action pass | `src/alert/alert_act.c` | kill ring, cage register | `act_one`, `cage_one`, `execute_action` | `KillRing`, `AlertEngine`, `Governance` |
| engine lifecycle | `src/alert/alert.c` | owner of the above | `init`, `cycle`, `gc`, `destroy` | `Startup`, `AlertEngine` |
| policy loader | `src/alert/alert_policy.c` | catalog being built, list of errors | `ini_cb`, `validate_all`, `catalog_load` | `PolicyCatalog` |
| INI reader | `src/common/inih` (vendored) | section, last key, first bad line | `ini_parse_stream` | `IniReader` |
| cage backend | `src/alert/alert_cage.c` | directories under `/sys/fs/cgroup/procguard` | `apply`, `release` | `Governance` |
| inter-thread queues | `src/ipc/queue.c` | ring, head, tail, count, dropped, mutex | `push`, `pop` | `EventQueue` |
| cJSON | `src/common/cjson` (vendored) | | not called | none |

How they interact. The loop owns all of it and calls downwards. Evaluate reads
the store (two samples per process give a delta metric) and writes alert
states; it hands a list of decisions, which lives for one cycle, to validate
and act. Act reads `/proc` once more just before each system call. The store
and the engine meet again in the collection: a state, and a place in the cage
register, live as long as the store keeps the process, which is a grace of ten
cycles. Around it is a kernel that does not wait: processes exit, fork, run
other programs and take pids that are free again between any two files the
program reads. The queues
are the only code meant for several threads (inotify and TUI threads to the
governance thread); `main` does not start them yet.

What is hard here, and what makes each part correct:

- **State machine.** Streaks, cooldown, deactivation and the flag that repeats a
  rung interact across cycles, with acts, skips and frozen cycles in any order.
  Correct: an alert rises exactly on N consecutive high samples and falls only
  on M consecutive low ones; acts climb one rung at a time, a cooldown apart.
- **Decisions that go stale.** A sample is four reads, a decision is made in
  evaluate, allowed in validate, checked and applied in act; the process may go
  at any point, and its pid be another's. Correct: samples of one process; a
  call reaches who was judged, but for what no user program can close (the
  instant between the check and `kill(2)`); a protected process is touched only
  in that instant, or when it became protected after the scan had read it; no
  stop or kill before the alert is `SanityMs` old.
- **Limits.** A ring that forgets old kills must count like the whole history;
  a register of cages must stay bounded, with no place taken twice or kept by
  the dead.
- **Compaction while walking.** Three loops swap the last entry into the freed
  place: each must look at every entry exactly once, and end.
- **Retries.** An act that is held back (ceiling, identity gone) must not spend
  its rung.
- **Partial failure.** No memory for a list, a state or an entry is ignored by
  the callers; nothing else may change. A cage is four steps on a file system,
  and a start is nine allocations: each may stop half way.
- **The catalog.** Keys come in any order, sections come back, errors are found
  on the line or at the end, and the caller's config is written on the way.
  Correct: accepted exactly when well formed, and the defaults after a failure.
- **Threads.** Two ring queues that drop their oldest element when full.

Every hazard is in `PROJECT.json` with its line and the properties that cover it.

## 2. Modules

| module | what it is | source |
|---|---|---|
| `AlertState` | the record of a (process, policy) pair and the pure functions on it | `alert_eval.c:34-74`, `alert_act.c:38-48` |
| `KillBudget` | abstract: kills against the whole history | |
| `KillRing` | the ring of kill times; implements `KillBudget` | `alert_act.c:51-97` |
| `AlertEngine` | the engine and the loop that drives it, in an open environment | `alert*.c`, `main.c` |
| `Kernel` | external: processes, pids, cgroup directories | |
| `Collector` | the scan, file by file, over `Kernel` | `collector.c` |
| `Governance` | `AlertEngine` and `Collector` on `Kernel`, and the cage backend; implements `AlertEngine` | `main.c`, `alert_act.c`, `alert_cage.c`, `alert_validate.c` |
| `ProcessHistory` | abstract: the last samples of each process | |
| `SampleStore` | the array of circular buffers; implements `ProcessHistory` | `store.c` |
| `Metrics` | cpu, io and memory of two samples | `metrics.c` |
| `AlertRegistry` | the array of alert states over the store, and its collection | `alert_state.c`, `main.c` |
| `IniReader` | inih on lines of every shape | `ini.c` |
| `PolicyCatalog` | the loader, call by call, over `IniReader` | `alert_policy.c` |
| `Startup` | `main` around the loader: what is allocated and freed | `main.c`, `alert.c` and the init and destroy functions |
| `LossyFifo` | abstract: an atomic FIFO that drops its oldest | |
| `EventQueue` | push and pop line by line under the mutex; implements `LossyFifo` | `queue.c` |
| `KillRing_proofs`, `AlertEngine_proofs`, `AlertLadder_proofs`, `Governance_proofs`, `EventQueue_proofs`, `SampleStore_proofs`, `AlertRegistry_proofs`, `Startup_proofs` | theorems | |
| `MCAlertEngine`, `MCGovernance`, `MCAlertRegistry`, `MCStartup`, `MCEventQueue` | instances for TLC | |

```
AlertState   KillRing ..> KillBudget     Kernel        SampleStore ..> ProcessHistory
      \       /                             |                |
      AlertEngine                        Collector     AlertRegistry -- Metrics
              \__________________________/
                       Governance                     IniReader
EventQueue ..> LossyFifo                                  |
                                           AlertState -- PolicyCatalog -- Startup
```

A line is EXTENDS, a dotted arrow is "implements". A definition whose comment
begins with "A bug:" is a mutation used to test a property; no specification
uses it.

**AlertEngine.** `phase` is the place in the cycle. One action is one iteration
of a loop of the code: `EvalFrozen` and `EvalScored` are `eval_one` on a pair,
`Validate` is the whole of that pass (it is a function of the list, so its loop
has no intermediate state anyone reads), and each decision of act is
one action, or two when it makes a system call: `GuardPasses` is `toctou_ok`,
and the call is the next step, with `phase = "apply"`. The registry is the set
`registry` of pairs with the function `states` on all pairs, zero outside;
`StateGc` removes from it in one step. `caged` is the register in its order,
collected one entry at a time (`CageGcKeep`, `CageGcRelease`).

What the environment decides is a choice of the model: which processes a scan
returns and which are protected, the metric of each pair (a negative one is the
sentinel), whether the identity check still holds, whether `cage_apply` works,
which absent processes the store still keeps, whether memory runs out for a
state, the list of decisions or a store entry, whether the scan fails. The
clock is read once per cycle, as in `run_cycle`, so it advances only in
`BeginCycle`. `stale_id` and a decision with no state cannot happen inside one
cycle (the list and the scan are the same); the first is kept as a guard, and
the registry test is the guard of every act.

`event`, `recent`, `acted` and `kills` are history variables: what was logged
and called, the last zones of each pair, the last act that counted, every kill.
No guard reads them.

Left out of `AlertEngine`: the parameter of RENICE and the CPU percentage
(passed through), the return values of `kill`, `setpriority` and
`cage_release` (the code ignores them), wording of the log except its label.

**Kernel.** Processes are numbered as they start, so the number of one is its
start time, which never repeats. `Spawn` takes a free pid and inherits a group,
`Exit` leaves a zombie or nothing. `Exec` is `execve`, or
`prctl(PR_SET_NAME)`: the program of a process changes, while its pid, its start
time and its group stay as they are. Of a program there are the two marks that
`whitelist_reason` looks for: a protected name in `comm`, a protected path in
`exe`; a guardian is a process that has both. It is external: it is what the
code takes `/proc`, `kill(2)` and the cgroup tree to be.

**Collector.** One action per file. A file that is open is of one process, so a
field of a sample is the number of the process it was read from, and 0 is the
field `memset` left when the read failed. `marks` are what `comm` and `exe` told
when each of them was read, which are two moments. `ReadStat` skips a pid whose stat
cannot be read; the three others are best effort. `GrowFails` is the loss of
the whole scan when `realloc` fails at a length where it is called.

**Governance.** Every action of `AlertEngine` that left a question to the
environment is taken together with its answer. `Begin` hands over what the
collector found, and computes the whitelist from the marks of the sample, or from
an `exe` that could not be read; `CheckPasses` and `CheckFails` compare with who has the pid; a
CAGE is `MakeRoot`, `MakeGroup`, `WriteLimit`, `MoveIn`, any of which may be
`CageBreaks`, which leaves what was done before; `Release` is an `rmdir` that an
inhabited group refuses, and whose result is not looked at. `WorldStep` is
enabled wherever the program is about to look at the kernel; elsewhere it would
be seen no sooner. `seen`, `hit` and `turned` are history: how many processes had
started at the check, who a call reached and who was meant, and who became a
guardian since its stat was last read.

The policies of `MCGovernance` are on memory, which always has a reading, so
`EvalFrozen` has no part; `AlertEngine` has it, and `AlertRegistry` says when it
happens.

**SampleStore.** A sample is the number of its cycle, which is enough to tell
any two samples of a process apart. The tick walks with one action per entry;
nothing runs between them in the program, but the invariants then also speak of
the middle of the walk. The caller's rule "no id twice between two ticks"
(`store.h:28`) is the variable `recorded`; the collector keeps it
(`CollectorTypeOK`).

**AlertRegistry** runs the store in the order of `run_cycle`. `EvaluateSample`
takes the last two samples from the store, computes every metric of the process
and makes the states that are missing, in catalog order; any of those may find
no memory. `InsertDropped` is `create_entry` without memory: the process is
evaluated all the same, and its states go at the next collection. `GcKeep` and
`GcFree` are the walk of `pg_alert_state_gc`, which asks the store about each.
`Metrics` is a module of functions, with quotients rounded down.

**IniReader.** A line is a record: its shape (blank, section line closed or
open, pair, or text with no sign), whether it is indented, whether it was cut
for its length, the name, and the text as a list of items. Multi-line values
and what ends them, the first line at fault, and the calls of the handler are
those of `ini_parse_stream` with the settings of `ini.h`. A second, stateless
reading of the same file (`Continues`, `SectionAt`, `KeyAt`, `TextAt`) is what
the properties of the loader compare with. A pair whose name is empty
(`=value`) ends a key, as a section line does, since inih keeps the name it has
just read, and an empty one is none. The first form of `Continues` missed that:
the proof that the two readings agree did not go through, and now the files of
the run have such a line.

**PolicyCatalog.** One action per kind of call that `ini_cb` gets, one per
policy that is validated. The strict parsers and the tables are sets of the
value, empty when the text is refused; `to_int` is the cast of a `long` to `int`
with its wrap. A step may find no memory wherever the code allocates
(`ReadNoMemory`, `ValidateNoMemory`, `ReturnNoMemory`); one of those places, the
copy in `parse_single_action`, reports an error of the file instead of a lack of
memory, which is why `starved` is kept beside `oom`. The policies of a catalog
that is accepted are in the set `Policies` of `AlertState` (`CatalogTypeOK`):
that part of `EngineAssumption` is what the loader delivers.

**Startup.** `stage` is the call of `main` that is next, `held` the set of what
is allocated. Each init may fail at each of its allocations, and is undone
partly by itself and partly by its caller; the destructors are functions on
`held`, one per function of the code. Ring and register are not allocated when
their limit is 0. The loader runs inside, as the stage `load`.

**EventQueue.** One action per group of lines between which another thread
could be seen; the element is the number of the push. The two queues of
`queue.c` are the same code on two types.

## 3. Runs

| run | what it asks | distinct states | bounds |
|---|---|---|---|
| `ladder` | the state machine and the two guards of act | 894 k | 1 process (absent, plain, protected), WARN/CAGE/STOP/KILL with no cage backend, N = M = 2, cooldown 2, sanity 3, 10 cycles, clock +1 or +2 |
| `kills` | the ceiling and its refinement; a rung is spent only by its call | 1.77 M | 2 processes, RENICE and 3 kills each, a security policy, 2 kills per window of 3, 5 cycles |
| `cage` | the register, both collections, termination | 158 k | 2 pids, one used again, cap 2, 3 cycles |
| `dry_run` | nothing happens in a dry run | 308 k | 2 processes, WARN/RENICE/CAGE/STOP/KILL with a cage backend, N = 1, M = 2, cooldown 0, ceiling 1, cap 1, 6 cycles |
| `governance` | samples, calls, guardians and cages on a kernel that goes on | 1.30 M | 2 pids, 1 process at the start, 1 more start, 1 exec, a plain program and a guardian's, CAGE/KILL and STOP, cap 1, 2 cycles |
| `store` | histories, grace window, registry, metrics | 398 k | 3 processes, buffers of 2, grace 1, 4 cycles, 1 shortage of memory, 3 metrics |
| `queue` | the queue is an atomic lossy FIFO | 1 k | 2 producers, 2 consumers, 2 slots, 7 pushes, batches 1-3, symmetric |
| `catalog` | what the loader accepts and leaves, what a start holds | 772 k | every file of up to 3 lines of 26; two complete policies and up to 2 lines, or a section line and 2 |
| `zero_hysteresis` | divergence 1 below | | hysteresis 0 |
| `log_term` | divergence 2 below | | ladder of one TERM |
| `fail_loud` | divergence 3 below | | as `catalog` |
| `cage_empty` | divergence 4 below | | as `governance` |

Why the bounds are enough. `ladder`: N = M = 2 is the least for which
consecutive and spread-out samples differ; ten cycles let the alert rise, act
once, fall, rise again, repeat a rung and climb on (one cycle fewer misses a
flag that is never consumed);
the ladder has one rung of each class (log, refused cage, stop, kill) and the
sanity delay is longer than the cooldown and than one interval, so acts meet it
before, on and after its end. `kills`: four kills through a ring of two
overwrite every slot; the window is longer than one interval and shorter than
two of the long ones, so kills are met inside, on the edge and outside. `cage`:
cap 2 with three identities (one pid in two lives) fills the register, refuses,
and swaps. `governance`: the second process is a child that outlives its parent
in the parent's group, a stranger on the other pid, or one that takes the pid of the
first at any point, between the reads of one sample, between the check and the
call, inside an apply, before a release; the exec makes a guardian of a plain
process, or the reverse, at any of the same points. The second cycle meets what
the first one left (a group half made, a register that names a process that is
gone), and both policies emit for one process in it: KILL, then STOP. A third
process takes TLC past five minutes, and a second exec near to it; for any number
of either there are the theorems of section 4, which cover all six properties of
the run. `dry_run`: a policy with N = 1 and no cooldown climbs one rung a cycle, so six cycles reach the KILL, in
cycle 5, with one to spare for a freeze; outside dry_run each of the three
things the property denies (a call, an entry in the ring, an entry in the
register) is reached under the same bounds. `store`: a buffer of two wraps with
the third sample; grace 1 in four cycles lets an entry expire, come back and
age again, and three entries give a swap with an entry that itself expires; the
clock stands still twice, with the cpu counter going back and without, and each
counter goes back with the other and without it. `queue`: two slots
and seven pushes wrap three times. `catalog`: after the two policies, three
lines go back to the section of one of them and set a key twice, rightly and
wrongly, go on with an indented line, or break a header between them; the limits
and the buffer can be 0; `UINT_MAX` is 7, and 8 is a number that does not fit.

Bounds of the model, all named constants: `Cycles` (the program's `--cycles`;
in `SampleStore` a bound of the model), `MaxStarts`, `MaxExecs`, `MaxShortages`,
`MaxPushes`, `BufCaps`, the sets `Readings`, `Scans`, `Intervals`, `Files`.
Counters are natural numbers where none of the C integers comes near its width
(times are 64-bit milliseconds, counters grow by one per cycle); numbers read
from the file keep theirs (`UintMax`, `to_int`).

Deadlock is checked everywhere but in `store`, whose behaviours end at `Cycles`.
`EventQueue` never blocks for good: a consumer can always pop an empty queue.

**Fairness.** Only `Terminates` needs it, under `FairSpec`, weak fairness of
`Next`: one thread runs the loop, no step waits for another process, and the
kernel schedules it. The property then says that no loop of the cycle runs for
ever, which is a real question for `cage_gc`, whose index does not always move.

### What the properties say

- `SanityBeforeStop`, `ProtectedUntouched`: see the hard behaviours above. The
  first is not the guard restated: `sanity_blocks` lets a decision through when
  the alert is inactive, so it holds only because evaluate never emits without
  an active alert, and no later pair of the cycle takes the activity back.
- `EmissionNeedsStreak`, `ActivatesOnStreak`, `DeactivationNeedsLow` relate the
  counters, reset from four places, to the actual last readings.
- `EscalationOrder`: the order and the distance of acts, with the repeated rung
  after a deactivation.
- `RungNeedsCall`: held back means to be retried.
- `KillCeiling`, `CeilingExact`, `BudgetSpec`: never too many, never too few.
- `CagedWithinCap`, `GcComplete`, `Terminates`.
- `DryRunHarmless`: every rung of the ladder is climbed and logged, and the
  register, the ring and the calls stay as they were.
- `MovesOn`: no loop of the cycle runs for ever, whatever is held back or swapped.
- `SampleIsOneProcess`: whatever exits between the four reads, a sample whose
  process is still there has nothing of another. The start time is read first
  and a pid is free only when its holder is gone; that is why it holds. Of one
  process, not of one program: an `execve` between two reads mixes two of those.
- `HitsTheJudged`: a call reaches who was judged, or one that started after the
  check. The exception is real: TLC finds the call on the newcomer when it is
  taken out.
- `GuardiansUntouched`: a protected process is touched only if it took the pid
  after the check, or became protected after its stat was read. A guardian whose
  pid was taken over, or whose program changed, between the reads of its sample
  is not taken for a plain process that is still there. Both exceptions are real,
  and TLC finds each when it is taken out. The second is there because
  `toctou_ok` (`alert_act.c:109-115`) compares the start time alone, which an
  `execve` leaves as it is: who was judged plain on the `comm` and the `exe` of
  the scan may be `sshd` when the call comes, with no pid having changed hands,
  and nothing in the code looks again.
- `ConfinedIsLimited`: no process lives in a group without its limit, nor in one
  that is no more, during or after an apply that broke and after a release by
  a pid that is in use again. `RegisteredIsConfined`: what counts as caged is.
- `HistoryIsLast`, `HistorySpec`, `GraceLower`, `GraceUpper`: contents, order and
  lifetime of the histories.
- `RegistryFollowsStore`: an alert state belongs to the present entry of its
  process, not to one the store has forgotten in between.
- `MetricOfLastTwo`: a metric has the value of the last two samples of that
  entry, and is frozen before there are two. The value is told by what it gives
  back when it is multiplied out, so the pair, `hz`, the clamp and the order of
  the two tests (the io rates look at the time first, `cpu_percent` at the
  counter) all count, to one unit.
- `Conservation`, `InOrder`, `FifoSpec`: nothing lost uncounted, nothing twice,
  nothing out of order.
- `AcceptsExactly`, `LastValueWins`: the loader, a state machine over lines,
  against a definition that looks at the whole file at once. `IniErrorIsFirst`:
  the same of the line number inih returns.
- `FailureLeavesDefaults`: a load that fails after `dry_run = false` does not
  leave a program that acts.
- `NothingLeaks`, `RunningIsReady`: whichever allocation fails, the program exits
  with nothing held, and the loop starts only with all it touches.

### Divergences

1. `zero_hysteresis`. The loader checks `persistence >= 1` but not
   `hysteresis_m` (`alert_policy.c:487`). With `hysteresis_m = 0`,
   `maybe_deactivate` compares `0 >= 0` on the sample that raised the alert: it
   falls before `should_emit`, and the policy never acts. The report promises
   activation after N samples and deactivation after M low ones
   (`ProcGuard_Informe.tex:199-200`, `:227-228`).
2. `log_term`. `alert_internal.h:110-111` says TERM and AFFINITY log "not
   implemented"; they log `executed` (`alert_act.c:98-103`, `:188`) with no
   system call.
3. `fail_loud`. `alert_policy.h:70-71` says that all errors are reported before
   the load is given up. `pg_policy_catalog_load` looks only for -1 in what
   `ini_parse` returns (`alert_policy.c:600`), so the line number of a line inih
   could not read, or cut at 200 characters, is dropped, and the file is
   accepted.
4. `cage_empty`. `alert_cage.h:12` says the group is empty after the death of
   its process. A child it forked is in the group too and may live on: `rmdir`
   fails (`alert_cage.c:67`), `cage_gc` does not look at the result and frees
   the place (`alert.c:133-135`), and the child stays limited for good, in a
   group that counts no more.

Three smaller ones that no run shows. The comment on `kills_last_minute` gives
the window as `[now-60s, now]` (`alert_act.c:63`); the code, and the model with
it, leaves out the kill that is exactly a minute old (`now - ts < KILL_WINDOW_MS`,
`alert_act.c:70`), so the ceiling holds in half-open windows. The header says that a file that does not
open gives `PG_ERR_PARSE` (`alert_policy.h:88`); it gives `PG_ERR_IO`
(`alert_policy.c:603`). A comment says an unknown metric leaves the policy with
none (`alert_policy.c:333-336`); it leaves the one that an earlier line gave.

## 4. Proofs

All theorems hold for every value of the constants under the assumptions named
in the modules: `RingAssumption` (natural ceiling and window, clock above zero
at start: `active_since = 0` means inactive in the code), `EngineAssumption`
(a non-empty catalog of well-formed policies with `persistence >= 1`, which the
loader enforces; a scan lists a pid once, which `Collector` does),
`KernelAssumption` (the processes at the start have a pid each and no group;
pids 0 and 1 are not among them; `MaxExecs` is any number, so no theorem limits
how often a program changes), `QueueAssumption` (room for one element,
batches of one or more, no thread both producer and consumer),
`StoreAssumption` (room for one sample, a grace of one cycle or more) and, for
the registry, `RegistryAssumption` (a reading for each cycle, in the order of
their times) and `MetricsAssumption` (a clock tick and a processor), and, for
the loader and the start, `IniAssumption` (a file is a sequence of lines, of any
length, and a name may be empty) and `CatalogAssumption` (no policy has the name
of one of the two other sections or none, which the model needs to tell sections
apart, and a numeral stands for an integer).

- **The kill ceiling** (`KillRing_proofs`). `KillCeiling` is not inductive: the
  ring knows only its slots. `RingHoldsLast` says slot `s` holds the kill
  `age(s)` places from the end of the history, the history is sorted and past.
  Then the slots that count are exactly the recent kills, by a counting
  argument: all slots are recent if the oldest is. Hence `CeilingExact`, hence
  every kill of the ring is one of the budget (`RingImplementsBudget`).
- **The engine has the ring's properties** (`EngineImplementsRing`): each step
  is a clock step, a `KillAndPush`, or leaves the ring alone, so
  `EngineKeepsCeiling`, `EngineCeilingIsExact`, `EngineImplementsBudget`.
- **Types** (`TypeCorrect`), with `Armed` (a streak long enough to emit belongs
  to an active alert) and `Ready` (a decision under way names a registered pair)
  to make them inductive.
- **No early stop, nothing protected touched** (`SanityHolds`,
  `ProtectionHolds`). The inductive `Safe` says: during evaluate, every decision
  names an active pair the double loop has left behind, so no later iteration
  deactivates it (this uses the distinct pids of a scan); after validate, a
  decision not skipped was seen plain and is old enough, and no act changes
  `active_since`.
- **The register** (`CapHolds`, `GcIsComplete`) with `Walked`: what is behind
  `cage_gc`'s index is in the store.
- **Dry run** (`DryRunIsHarmless`).
- **An end** (`RunsMoveOn`). `ToDo` is what is left: cycles, phases of this one,
  entries of the list it walks, steps on the entry. `InRange` keeps every index
  inside its list or just behind it, so the four are natural numbers, and each
  step lowers the tuple, compared from the left: no list grows while it is
  walked, and the collection of the cages, whose index stays where it swaps, has
  one entry less then. So no behaviour has infinitely many steps, with any
  number of cycles, processes, policies and cages. `Terminates` says more, that
  a run does not stop short of its end, and needs fairness.
- **The ladder** (`AlertLadder_proofs`). The properties that speak of whole
  streaks and of past acts compare the record of a pair with histories (`recent`,
  `acted`) that the code does not have, so they need an invariant that ties the
  two together. `Ladder` says: each counter covers that much of the tail of
  `recent`, as far as the window goes back (`Streaks`); the rung, the cooldown
  and the flag are what the last act that counted left (`Ladders`); a decision
  still to be acted on is on the present rung of an active alert outside its
  cooldown (`Pending`), is the only one of its pair (`OnePerPair`, from the
  distinct pids of a scan) and has the kind of its rung (`KindOfRung`). Hence
  `EmissionsNeedStreaks`, `ActsClimb`, `RungsNeedCalls`. `StreaksActivate` needs
  more, because `apply_zone` compares the counter with `=`: while an alert is not
  active its counter is the whole streak, and too short (`Rises`). That, and
  `FallsNeedLows`, hold under `Lasting`: every policy has `hysteresis_m >= 1`.
  The loader does not demand it, and `zero_hysteresis` shows that the assumption
  cannot be dropped.
- **The queue** (`EventQueue_proofs`). `QueueInv` says that only the holder of
  the mutex is inside `push` or `pop` (`Exclusive`); that the slots from the head
  on hold the last elements pushed, after those a `pop` has copied and not yet
  subtracted (`LastPushed`); and that what came out is older than all of them
  and in order (`Delivered`). `Conservation` and `InOrder` are read off it. For
  `QueueImplementsFifo` the queue a reader sees is those last elements, with the
  one a `push` under way has dropped still in front: a push is one step of the
  FIFO where it stores, its drop included, a pop one where it subtracts, and
  every other line is a stutter.
- **The store** (`SampleStore_proofs`). `StoreInv` says that a process has one
  entry at most, and has one exactly if it has samples (`OneEntry`); that sample
  `k` from the end of its history is `k` slots back from the head (`Buffers`);
  and that the grace count of an entry behind the index of the walk is that of
  after the tick, of one ahead that of before (`Aged`), which is what the swap
  of `free_entry_at` could break. Hence the histories, both bounds of the grace
  window and `StoreImplementsHistory`.
- **The reader and the loader** (`Startup_proofs`). `LoaderInv` says, between any
  two lines of a file of any length, what the state has to do with the lines
  read: the section and the key in force are those of the reading without a
  state (`ReaderInv`); the three tables are what those lines make of the
  defaults, the policies are those that have had a key, and the errors counted
  are the lines at fault (`ReadSoFar`); then, in the validation, the policies
  behind the index are as the whole file makes them, and their faults are
  counted too (`ValidatedSoFar`). The argument goes one line at a time: what
  `n + 1` lines say is what `n` lines say and what one more does to it, so
  nothing is defined by recursion, and the only induction is that of the
  invariant. Hence `CatalogIsTyped`, `CatalogAcceptsExactly`,
  `CatalogHasLastValues`, `ReaderReportsFirst`. A failed allocation is part of
  it: it may cost an error its place in the count, but never gets a file that
  is at fault accepted. `StartupImplementsLoader` (every step of the start is
  one of the loader or leaves it alone) carries all of it over to the program.
- **The start** (`Startup_proofs`). `StartupInv` bounds what is held at each call
  of `main` from above, by what the destructors on the way out free, and from
  below, by what the loop needs; the ring and the register are there exactly if
  their limits are not 0. `LoaderInv` is part of it: a load either failed and
  put the defaults back, or has the limits it says.
- **The registry** (`AlertRegistry_proofs`). Its steps are the store's or leave it
  alone (`RegistryImplementsStore`), so `StoreInv` comes for free. To it
  `RegistryInv` adds that a state was made under the present entry of its
  process or under none, and that there is one behind the index of the
  collection, which holds when the next scan begins (`StatesFollowStore`); and
  that a process of the scan has its present sample last, which with the last but
  one is what the metrics are computed of (`MetricsAreOfLastTwo`). `IoRateIs` and
  `CpuPercentIs` prove the value of each from the division of the library, the
  clamp included. The theorem needs `sample_buffer >= 2`: with 1, which the loader accepts, `prev` is always
  NULL and every metric but the memory is the sentinel for ever.
- **The composition** (`Governance_proofs`). Every step of `Governance` is a step
  of `AlertEngine` or a stutter of it (`GovernanceImplementsEngine`), so all of
  the above holds on a real kernel. Then, each on top of the one before:
  `TableInvariant` (no pid is held twice, and processes only age),
  `ScanInvariant` (a field of a sample is of its process, or that process is
  gone: hence `SamplesAreOfOneProcess`), `TellingInvariant` (the sample of a
  guardian has its name, and its path unless there is no `exe`, or the process
  is in `turned`; the read of a stat takes its process out of `turned`, which
  harms no other sample, as by `ScanOrderInvariant` none is of that process),
  `FaithfulInvariant` (a sample, a decision and a caged id name the process they
  were read from, and a plain sample is of none that is a guardian, unless it is
  in `turned`), `HitInvariant` (in `apply`, the holder of the pid is the one
  judged, or started after the check: hence `CallsHitTheJudged` and
  `GuardiansAreSpared`, which also uses `ProtectionHolds` of the engine).
- **The cages** (`ConfinedAreLimited`, `RegisteredAreConfined`): a limit is
  written before anyone is in the group and goes only with the group, a group
  goes only when no one is in it, and a process changes group only by `MoveIn`;
  an id enters the register in the step that moves its process, or with the pid
  already another's, and then that process is gone for good.
- **The scan** (`ScanOrderInvariant`, `ScanIsTyped`, in `Governance_proofs`).
  `readdir` gives the pids of `/proc` upwards, so what is listed lies behind the
  pid it is at, and one pid cannot be listed twice, though it may change hands
  many times meanwhile. The next pid is the smallest of those still to come,
  which exists by the library's theorem on well-founded relations
  (`HasSmallest`).

Every invariant and every action property that a passing run checks is stated
by a theorem. Only model-checked is `Terminates`: liveness under fairness is
outside the prover's reach, and with it the question whether some step is
always possible, which TLC answers as the absence of deadlock. Its other half is
`RunsMoveOn`, on the engine alone: on the kernel of `Governance`, what other
processes do is bounded only by `MaxStarts`. Three theorems have a hypothesis
that the loader does not enforce, `Lasting` for two on the ladder and
`sample_buffer >= 2` for the metrics; what happens without it is said above.

## 5. Not modelled

- Text: parsing of `/proc`, string comparisons of the whitelist, letter case,
  the truncation of section and key names in inih, formatting of the log and of
  the CPU top. A text of the INI file is a list of words.
- Floating point: readings are integers around integer thresholds; the order of
  a reading and its thresholds is all the code uses.
- `ini_parse_string`, which the program does not call; cJSON, which nothing
  calls yet.
- The queues' init and destroy, and `pg_results_t` (a mutex that guards no field
  yet): nothing in the program starts a thread.
- The filter of kernel threads in the collector: `main` scans with it off.
- A metric of a sample with a failed read (0 in a field): the collector's
  samples say where it happens, the rates take their counters from a table.
- Restarts: nothing is persisted, so each run of the program starts at `Init`;
  the kill ceiling is a promise per run, and groups left by an earlier run are
  found as `mkdir` finds them.
- The unit tests, the demo and the report: read for what is intended.

## 6. Plan

Done: the engine, the ring, the store, the queue, the loader; the composition
with a kernel, the collector, the cage backend; the registry and the metrics;
the INI reader and the start. Left:

1. The queues' init and destroy once a thread uses them.
2. The hazards that have no property yet: a `kill` or `setpriority` that is
   refused, a read of `/proc/pid/io` that fails, a ladder that is exhausted.
