----------------------------- MODULE MCStartup -----------------------------
(***************************************************************************)
(* Startup on every file of up to three lines, and on two complete         *)
(* policies followed by up to two lines or by a section line and two, so   *)
(* that later lines meet their sections again.                             *)
(***************************************************************************)
EXTENDS Startup

\* UINT_MAX is 7 here.
MCIntMax == 3
MCNumerals == ("0" :> 0) @@ ("1" :> 1) @@ ("2" :> 2) @@ ("3" :> 3) @@ ("8" :> 8) @@ ("-1" :> -1)

Item(w) == [word |-> w, param |-> "none"]
With(w, p) == [word |-> w, param |-> p]
Opaque == <<Item("?")>>   \* a line that is no word of any list

Pair(key, text) ==
    [shape |-> "pair", indent |-> FALSE, cut |-> FALSE, name |-> key,
     text |-> text, raw |-> Opaque]
Header(s) == [Pair(s, <<>>) EXCEPT !.shape = "header"]
Bare(text) == [Pair("", <<>>) EXCEPT !.shape = "bare", !.raw = text]
Indented(l) == [l EXCEPT !.indent = TRUE]
Blank == [Pair("", <<>>) EXCEPT !.shape = "blank"]

MCWords == {"", "?", "global", "security", "a", "b", "other", "metric", "actions",
            "threshold", "threshold_low", "persistence", "dry_run",
            "protected_names", "sample_buffer", "max_kills_per_minute", "max_caged_processes", "sshd", "init", "cpu_percent", "mem_rss",
            "warn", "renice", "kill", "stop", "false", "none"} \cup DOMAIN MCNumerals

Lines == {
    Header("global"), Header("security"), Header("a"), Header("b"), Header("other"),
    Indented(Header("b")), [Header("a") EXCEPT !.shape = "open"],
    Blank, Pair("", <<Item("3")>>), Bare(<<Item("stop")>>), Indented(Bare(<<Item("stop"), Item("")>>)),
    Indented(Bare(<<Item("3")>>)),
    Pair("metric", <<Item("cpu_percent")>>), Pair("metric", Opaque),
    Pair("actions", <<Item("warn"), Item("kill")>>),
    [Indented(Pair("renice", <<Item("8")>>)) EXCEPT !.raw = <<With("renice", "8")>>],
    Pair("threshold", <<Item("2")>>), Pair("threshold_low", <<Item("3")>>),
    Pair("persistence", <<Item("0")>>), Pair("persistence", <<Item("8")>>),
    Pair("dry_run", <<Item("false")>>), Pair("sample_buffer", <<Item("0")>>),
    Pair("max_kills_per_minute", <<Item("0")>>), Pair("max_caged_processes", <<Item("0")>>),
    Pair("protected_names", <<Item("sshd"), Item("init")>>),
    [Pair("protected_names", <<Item("sshd")>>) EXCEPT !.cut = TRUE] }

TwoPolicies == <<
    Header("b"), Pair("metric", <<Item("cpu_percent")>>), Pair("actions", <<Item("warn")>>),
    Header("a"), Pair("metric", <<Item("mem_rss")>>), Pair("actions", <<Item("stop")>>),
    Pair("persistence", <<Item("2")>>) >>

UpTo(n) == UNION {[1 .. m -> Lines] : m \in 0 .. n}
Section == {<<l>> : l \in {k \in Lines : k.shape = "header"}}
MCFiles ==
    UpTo(3) \cup {TwoPolicies \o rest : rest \in UpTo(2)}
            \cup {TwoPolicies \o h \o rest : h \in Section, rest \in [1 .. 2 -> Lines]}
=============================================================================
