------------------------------ MODULE Startup ------------------------------
(***************************************************************************)
(* main of src/main.c from its first call to its exit, by what it holds:   *)
(* the collector, the engine with the catalog PolicyCatalog loads for it   *)
(* and the arrays sized by its configuration, the store, the sample array  *)
(* of the last cycle. Every allocation may fail, and every failure ends    *)
(* the program after giving back what it had. What a cycle does is         *)
(* AlertEngine's part; here it only leaves its samples behind.             *)
(***************************************************************************)
EXTENDS PolicyCatalog

VARIABLES
    stage,   \* the call of main that is next
    held,    \* what has been allocated and not freed
    status   \* the exit status, "none" while it runs

startupvars == <<catalogvars, stage, held, status>>

\* parse_args: the arguments choose the file, and more than no cycles.
StartupInit == Init /\ stage = "sysconf" /\ held = {} /\ status = "none"

Goes(s) == stage' = s /\ UNCHANGED status
Exits(code) == stage' = "exited" /\ status' = code

-----------------------------------------------------------------------------
\* What the destructors free; a pointer that calloc left NULL is no matter.
collector_destroy(h) == h \ {"collector", "collector.proc_base"}
store_destroy(h) == h \ {"store"}
catalog_destroy(h) == h \ {"policies"}
security_destroy(h) == h \ {"protected_names", "protected_paths"}
registry_destroy(h) == h \ {"registry"}

engine_destroy(h) ==
    registry_destroy(security_destroy(catalog_destroy(h)))
        \ {"proc_base", "kill_ring", "caged", "engine"}

\* pg_alert_engine_init fails: it has freed the engine's part, main the rest.
EngineFails(h) == held' = collector_destroy(h) /\ Exits("failed")

-----------------------------------------------------------------------------
SysParams ==
    /\ stage = "sysconf"
    /\ Goes("collector") \/ Exits("failed")
    /\ UNCHANGED <<catalogvars, held>>

\* pg_collector_init frees its struct when the copy of the path fails.
InitCollector ==
    /\ stage = "collector"
    /\ \/ held' = {"collector", "collector.proc_base"} /\ Goes("engine")
       \/ held' = {} /\ Exits("failed")
    /\ UNCHANGED catalogvars

AllocEngine ==
    /\ stage = "engine"
    /\ \/ held' = held \cup {"engine"} /\ Goes("load")
       \/ EngineFails(held)
    /\ UNCHANGED catalogvars

LoadCatalog ==
    /\ stage = "load"
    /\ Next
    /\ UNCHANGED <<stage, held, status>>

LoadFails ==
    /\ stage = "load" /\ rc \in {"io", "parse", "mem"}
    /\ EngineFails(held \ {"engine"})
    /\ UNCHANGED catalogvars

\* finalize_success hands over the policies and the lists that were set.
LoadWorks ==
    /\ stage = "load" /\ rc = "ok"
    /\ held' = held \cup {"policies"}
                    \cup {key \in DOMAIN security : security[key] # <<>>}
    /\ Goes("registry")
    /\ UNCHANGED catalogvars

\* A bug: the lists of [security] are left.
init_undo_no_security(h) == catalog_destroy(h) \ {"engine"}

init_undo(h) == security_destroy(catalog_destroy(h)) \ {"engine"}

InitRegistry ==
    /\ stage = "registry"
    /\ \/ held' = held \cup {"registry"} /\ Goes("proc_base")
       \/ EngineFails(init_undo(held))
    /\ UNCHANGED catalogvars

\* alloc_runtime: three allocations, of which two may be of nothing and are not
\* made.
AllocRuntime(at, wanted, next) ==
    /\ stage = at
    /\ \/ held' = held \cup {x \in {at} : wanted} /\ Goes(next)
       \/ wanted /\ EngineFails(engine_destroy(held))
    /\ UNCHANGED catalogvars

AllocBase == AllocRuntime("proc_base", TRUE, "kill_ring")
AllocRing == AllocRuntime("kill_ring", global.max_kills_per_minute > 0, "caged")

\* A bug: it is made of the ceiling on kills.
AllocCaged_of_kills == AllocRuntime("caged", global.max_kills_per_minute > 0, "store")

AllocCaged == AllocRuntime("caged", global.max_caged_processes > 0, "store")

\* pg_store_init refuses an empty buffer.
InitStore ==
    /\ stage = "store"
    /\ \/ global.sample_buffer > 0 /\ held' = held \cup {"store"} /\ Goes("run")
       \/ held' = collector_destroy(engine_destroy(held)) /\ Exits("failed")
    /\ UNCHANGED catalogvars

\* A cycle frees the samples of the one before, and the list report_top ranks,
\* which it does without when there is no memory; it keeps its own samples.
RunCycle ==
    /\ stage = "run"
    /\ held' = held \cup {"prev"} /\ Goes("run")
    /\ UNCHANGED catalogvars

\* The cycles are over, or a scan has failed.
EndRun ==
    /\ stage = "run"
    /\ held' = collector_destroy(engine_destroy(store_destroy(held \ {"prev"})))
    /\ \/ "prev" \in held /\ Exits("success")
       \/ Exits("failed")
    /\ UNCHANGED catalogvars

Exited == stage = "exited" /\ UNCHANGED startupvars

StartupNext ==
    \/ SysParams \/ InitCollector \/ AllocEngine \/ LoadCatalog \/ LoadFails
    \/ LoadWorks \/ InitRegistry \/ AllocBase \/ AllocRing \/ AllocCaged
    \/ InitStore \/ RunCycle \/ EndRun \/ Exited

StartupSpec == StartupInit /\ [][StartupNext]_startupvars

-----------------------------------------------------------------------------
(***************************************************************************)
(* However far it came, the program exits with nothing held: what each     *)
(* init had done when a later one failed is undone by someone, and only by *)
(* the one who should (pg_alert_engine_init, main).                        *)
(***************************************************************************)
NothingLeaks == stage = "exited" => held = {}

(***************************************************************************)
(* The loop starts only when everything it touches is there: a catalog,    *)
(* room for a sample, a ring if kills are allowed and a register if cages  *)
(* are; an exit without a run is never a success (alloc_runtime, main).    *)
(***************************************************************************)
RunningIsReady ==
    /\ stage = "run" =>
        /\ rc = "ok" /\ policies # <<>> /\ global.sample_buffer > 0
        /\ {"collector", "engine", "policies", "registry", "store"} \subseteq held
        /\ "kill_ring" \in held <=> global.max_kills_per_minute > 0
        /\ "caged" \in held <=> global.max_caged_processes > 0
    /\ status = "success" => rc = "ok" /\ global.sample_buffer > 0
=============================================================================
