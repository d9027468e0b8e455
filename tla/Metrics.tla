------------------------------ MODULE Metrics ------------------------------
(***************************************************************************)
(* src/metrics/metrics.c and the choice of pg_alert_metric_current, as     *)
(* functions of two samples of one process: a sample is a record of its    *)
(* time in ms, its cpu time in jiffies, its bytes read and its memory.     *)
(* Quotients are rounded down to whole units; nothing here is a float.     *)
(***************************************************************************)
EXTENDS Integers

CONSTANTS hz,     \* jiffies per second
          ncpus   \* processors on line

ASSUME MetricsAssumption == hz \in Nat \ {0} /\ ncpus \in Nat \ {0}

\* The pair cannot be judged: no sample before, or a counter gone backwards.
Sentinel == -1

\* The samples of one scan have one time; two scans may have the same.
elapsed(prev, curr) == curr.time - prev.time

\* A bug: the time is looked at before the direction of the counter.
cpu_percent_time_first(prev, curr) ==
    LET delta == curr.cpu - prev.cpu
        pct == (100 * 1000 * delta) \div (elapsed(prev, curr) * hz)
    IN  CASE elapsed(prev, curr) = 0 -> 0
          [] elapsed(prev, curr) # 0 /\ delta < 0 -> Sentinel
          [] OTHER -> IF pct > 100 * ncpus THEN 100 * ncpus ELSE pct

\* pg_metrics_cpu_percent: a counter gone back is looked at before the time, and the
\* result is clamped to every processor at full.
cpu_percent(prev, curr) ==
    LET delta == curr.cpu - prev.cpu
        pct == (100 * 1000 * delta) \div (elapsed(prev, curr) * hz)
    IN  CASE delta < 0 -> Sentinel
          [] delta >= 0 /\ elapsed(prev, curr) = 0 -> 0
          [] OTHER -> IF pct > 100 * ncpus THEN 100 * ncpus ELSE pct

\* pg_metrics_io_rates: no time gives 0 before the counter is looked at.
io_rate(prev, curr) ==
    IF elapsed(prev, curr) = 0 THEN 0
    ELSE IF curr.io < prev.io THEN Sentinel
    ELSE (1000 * (curr.io - prev.io)) \div elapsed(prev, curr)

\* pg_alert_metric_current; prevs is the sample before, or none. Only the memory
\* can do without it.
metric_current(metric, prevs, curr) ==
    CASE metric = "mem_rss" -> curr.rss
      [] metric # "mem_rss" /\ prevs = {} -> Sentinel
      [] OTHER -> LET prev == CHOOSE s \in prevs : TRUE
                  IN  IF metric = "cpu_percent" THEN cpu_percent(prev, curr)
                      ELSE io_rate(prev, curr)
=============================================================================
