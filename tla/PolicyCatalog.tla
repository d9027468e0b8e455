--------------------------- MODULE PolicyCatalog ---------------------------
(***************************************************************************)
(* The policy loader of src/alert/alert_policy.c: ini_cb on every call of  *)
(* IniReader, the strict parsers of the values, the errors counted on the  *)
(* way, and the validation of what was built. Letter case is left out of   *)
(* the words; an empty policy name is a section of its own kind, "other".  *)
(* An allocation may fail wherever one is made.                            *)
(***************************************************************************)
EXTENDS AlertState, IniReader, FiniteSetsExt, TLC

CONSTANTS Names,     \* policy names; as a section, [policy:<name>]
          Numerals,  \* the words strtoul, strtol and strtof take, with their values
          IntMax     \* INT_MAX; UINT_MAX is twice that and one

UintMax == 2 * IntMax + 1

ASSUME CatalogAssumption ==
    /\ Names \cap {"", "global", "security"} = {}
    /\ IntMax \in Nat
    /\ Numerals \in [DOMAIN Numerals -> Int]

GlobalDefaults ==
    [sample_interval |-> 500, sample_buffer |-> 120, max_kills_per_minute |-> 3,
     max_caged_processes |-> 10, cage_cpu_percent |-> 50, dry_run |-> TRUE]

SecurityDefaults == [protected_names |-> <<>>, protected_paths |-> <<>>]

\* threshold_low is -1 while no line has set it; actions is the raw list, and
\* <<>> while there is none.
PolicyDefaults ==
    [type |-> "performance", risk |-> "medium", metric |-> "unknown",
     threshold |-> 0, threshold_low |-> -1, persistence |-> 1,
     hysteresis_m |-> 1, cooldown_s |-> 0, actions |-> <<>>]

-----------------------------------------------------------------------------
(***************************************************************************)
(* The strict parsers: the set of the value, or {} when the text is        *)
(* refused.                                                                *)
(***************************************************************************)
word(text) == IF Len(text) = 1 /\ text[1].param = "none" THEN {text[1].word} ELSE {}

look_up(table, text) == {table[w] : w \in word(text) \cap DOMAIN table}

parse_uint_strict(text) == look_up(Numerals, text) \cap 0 .. UintMax
parse_float_strict(text) == look_up(Numerals, text)
parse_bool_strict(text) ==
    look_up(("true" :> TRUE) @@ ("1" :> TRUE) @@ ("false" :> FALSE) @@ ("0" :> FALSE), text)

lookup_metric(text) ==
    word(text) \cap {"cpu_percent", "mem_rss", "io_read_rate", "io_write_rate"}
lookup_risk(text) == word(text) \cap {"low", "medium", "high", "critical"}
lookup_policy_type(text) ==
    look_up([performance |-> "performance", perf |-> "performance",
             security |-> "security"], text)
lookup_action_kind(w) ==
    LET table == [warn |-> "WARN", renice |-> "RENICE", affinity |-> "AFFINITY",
                  cage |-> "CAGE", stop |-> "STOP", term |-> "TERM", kill |-> "KILL"]
    IN  {table[v] : v \in {w} \cap DOMAIN table}

\* An item that is empty spoils the list.
split_csv_trim(text) ==
    IF \A k \in DOMAIN text : text[k] # [word |-> "", param |-> "none"]
    THEN {text} ELSE {}

\* (int) of a long: the low bits, read as a signed number.
to_int(n) == ((n + IntMax + 1) % (UintMax + 1)) - IntMax - 1

\* renice and affinity need a number, the other kinds refuse one.
parse_single_action(item) ==
    IF item.param = "none"
    THEN [kind : lookup_action_kind(item.word) \ {"RENICE", "AFFINITY"}, param : {0}]
    ELSE [kind : lookup_action_kind(item.word) \cap {"RENICE", "AFFINITY"},
          param : {to_int(Numerals[w]) : w \in {item.param} \cap DOMAIN Numerals}]

parse_global(key, text) ==
    IF key = "dry_run" THEN parse_bool_strict(text) ELSE parse_uint_strict(text)

parse_scalar(key, text) ==
    CASE key = "type"   -> lookup_policy_type(text)
      [] key = "risk"   -> lookup_risk(text)
      [] key = "metric" -> lookup_metric(text)
      [] key \in {"threshold", "threshold_low"} -> parse_float_strict(text)
      [] key \in {"persistence", "hysteresis_m", "cooldown_s"} -> parse_uint_strict(text)
      [] key = "actions" -> {text}

\* The value a key of the section takes from the text, or {}: an unknown key
\* has none.
parse(sec, key, text) ==
    CASE sec = "global"   -> IF key \in DOMAIN GlobalDefaults
                             THEN parse_global(key, text) ELSE {}
      [] sec = "security" -> IF key \in DOMAIN SecurityDefaults
                             THEN split_csv_trim(text) ELSE {}
      [] sec \in Names    -> IF key \in DOMAIN PolicyDefaults
                             THEN parse_scalar(key, text) ELSE {}
      [] OTHER            -> {}

\* What counts as an error; a metric that is not known is one only at the end.
at_fault(sec, key, text) ==
    parse(sec, key, text) = {} /\ ~(sec \in Names /\ key = "metric")

VARIABLES
    phase,     \* "start", "read", "validate" or "done"
    policies,  \* the catalog being built: names and fields
    global, security, n_errors, oom,
    starved,   \* history: an allocation has failed, whether or not oom tells
    idx,       \* the policy that is validated next
    rc         \* what pg_policy_catalog_load returns

parsed == <<policies, global, security>>
catalogvars == <<inivars, phase, parsed, n_errors, oom, starved, idx, rc>>

Init ==
    /\ IniInit
    /\ phase = "start"
    /\ policies = <<>> /\ global = GlobalDefaults /\ security = SecurityDefaults
    /\ n_errors = 0 /\ oom = FALSE /\ starved = FALSE
    /\ idx = 1 /\ rc = "none"

-----------------------------------------------------------------------------
\* fopen works, or ini_parse returns -1.
Open ==
    /\ phase = "start"
    /\ \/ phase' = "read" /\ UNCHANGED rc
       \/ phase' = "done" /\ rc' = "io"
    /\ UNCHANGED <<inivars, parsed, n_errors, oom, starved, idx>>

Reading == phase = "read" /\ pos <= Len(file) /\ UNCHANGED <<phase, idx, rc>>
Memory == UNCHANGED <<oom, starved>>

ReadQuietly ==
    /\ Reading
    /\ IniBlank \/ IniHeader \/ IniOpen \/ IniBare
    /\ Memory
    /\ UNCHANGED <<parsed, n_errors>>

\* ini_cb: an error is counted and the line goes on as read; only after a failed
\* allocation does it refuse.
value == parse(section, call_name, call_text)
Count == n_errors' = n_errors + (IF at_fault(section, call_name, call_text) THEN 1 ELSE 0)

Calling == Reading /\ ~oom /\ IniCall(FALSE) /\ Count /\ Memory

\* The key takes the value, if there is one.
set(rec, key, values) ==
    IF values = {} THEN rec ELSE [rec EXCEPT ![key] = TheOne(values)]

ReadGlobal ==
    /\ section = "global" /\ Calling
    /\ global' = set(global, call_name, value)
    /\ UNCHANGED <<policies, security>>

\* A list with an empty item leaves the list that was there.
ReadSecurity ==
    /\ section = "security" /\ Calling
    /\ security' = set(security, call_name, value)
    /\ UNCHANGED <<policies, global>>

find_policy(name) == {k \in DOMAIN policies : policies[k].name = name}

\* A policy comes into being with its first key.
created(name) == IF find_policy(name) = {}
                 THEN Append(policies, [name |-> name, fields |-> PolicyDefaults])
                 ELSE policies

place(ps, name) == CHOOSE k \in DOMAIN ps : ps[k].name = name

ReadPolicy ==
    /\ section \in Names /\ Calling
    /\ LET ps == created(section)
       IN  policies' = [ps EXCEPT ![place(ps, section)].fields =
                            set(@, call_name, value)]
    /\ UNCHANGED <<global, security>>

ReadOther ==
    /\ section \notin Names \cup {"global", "security"} /\ Calling
    /\ UNCHANGED parsed

\* The array of policies starts with 8 places and doubles.
full == Len(policies) \in {0} \cup {8 * 2^k : k \in 0 .. Len(policies)}

\* The calls that allocate: every error is a string of its own.
allocates ==
    \/ section = "security" \/ at_fault(section, call_name, call_text)
    \/ section \in Names /\ \/ call_name = "actions"
                            \/ find_policy(section) = {} /\ full

\* An allocation of the callback fails. What it leaves half done nobody reads:
\* the load is lost, and everything is freed.
ReadNoMemory ==
    /\ Reading /\ ~oom
    /\ IniCall(TRUE) /\ allocates
    /\ oom' = TRUE /\ starved' = TRUE
    /\ UNCHANGED <<parsed, n_errors>>

\* ini_cb returns at once.
ReadAfterOom ==
    /\ Reading /\ oom
    /\ IniCall(TRUE)
    /\ Memory
    /\ UNCHANGED <<parsed, n_errors>>

-----------------------------------------------------------------------------
\* A bug: the defaults are not put back.
abort_keeps_global(code) ==
    /\ phase' = "done" /\ rc' = code
    /\ policies' = <<>> /\ security' = SecurityDefaults
    /\ UNCHANGED global

\* abort_with_errors: everything is freed and the defaults are put back.
abort(code) ==
    /\ phase' = "done" /\ rc' = code
    /\ policies' = <<>> /\ security' = SecurityDefaults
    /\ global' = GlobalDefaults

EndOfFile ==
    /\ phase = "read" /\ pos > Len(file)
    /\ \/ oom /\ abort("mem")
       \/ ~oom /\ phase' = "validate" /\ UNCHANGED <<policies, global, security, rc>>
    /\ UNCHANGED <<inivars, n_errors, oom, starved, idx>>

check_duplicate_names ==
    Cardinality({two \in (DOMAIN policies) \X (DOMAIN policies) :
                    two[1] < two[2] /\ policies[two[1]].name = policies[two[2]].name})

\* validate_policy_fields, which applies the default of threshold_low first.
with_low(p) == IF p.threshold_low < 0
               THEN [p EXCEPT !.threshold_low = p.threshold] ELSE p

\* A bug: the persistence is not checked.
field_errors_no_persistence(p) ==
    {e \in {"metric", "low"} :
        \/ e = "metric" /\ p.metric = "unknown"
        \/ e = "low" /\ with_low(p).threshold_low > p.threshold}

field_errors(p) ==
    {e \in {"metric", "low", "persistence"} :
        \/ e = "metric" /\ p.metric = "unknown"
        \/ e = "low" /\ with_low(p).threshold_low > p.threshold
        \/ e = "persistence" /\ p.persistence < 1}

\* A bug: only the first item of the list is parsed.
actions_valid_first(p) == p.actions # <<>> /\ parse_single_action(p.actions[1]) # {}

\* validate_policy_actions: the first bad item is the one that is reported.
actions_valid(p) ==
    p.actions # <<>> /\ \A k \in DOMAIN p.actions : parse_single_action(p.actions[k]) # {}

ValidatePolicy ==
    /\ phase = "validate" /\ idx <= Len(policies)
    /\ LET p == policies[idx].fields
       IN  /\ n_errors' = n_errors + Cardinality(field_errors(p))
                                   + (IF actions_valid(p) THEN 0 ELSE 1)
           /\ policies' = [policies EXCEPT ![idx].fields = with_low(p)]
    /\ idx' = idx + 1
    /\ UNCHANGED <<inivars, phase, global, security, oom, starved, rc>>

\* An allocation fails for this policy. Most raise oom, and any of the errors
\* may be the one that is lost; the copy of an item that parse_single_action
\* makes is reported as one more error instead.
ValidateNoMemory ==
    /\ phase = "validate" /\ idx <= Len(policies)
    /\ LET p == policies[idx].fields
       IN  /\ \/ oom' = TRUE /\ n_errors' \in n_errors .. n_errors + Cardinality(field_errors(p))
              \/ /\ p.actions # <<>> /\ split_csv_trim(p.actions) # {}
                 /\ n_errors' = n_errors + Cardinality(field_errors(p)) + 1 /\ UNCHANGED oom
           /\ policies' = [policies EXCEPT ![idx].fields = with_low(p)]
    /\ starved' = TRUE /\ idx' = idx + 1
    /\ UNCHANGED <<inivars, phase, global, security, rc>>

errors_in_all == n_errors + check_duplicate_names
                          + (IF policies = <<>> THEN 1 ELSE 0)

Return ==
    /\ phase = "validate" /\ idx > Len(policies)
    /\ n_errors' = errors_in_all
    /\ \/ oom /\ abort("mem")
       \/ ~oom /\ errors_in_all > 0 /\ abort("parse")
       \/ /\ ~oom /\ errors_in_all = 0
          /\ phase' = "done" /\ rc' = "ok"
          /\ UNCHANGED <<policies, global, security>>
    /\ UNCHANGED <<inivars, oom, starved, idx>>

\* The message of validate_all itself finds no memory.
ReturnNoMemory ==
    /\ phase = "validate" /\ idx > Len(policies)
    /\ errors_in_all > n_errors
    /\ oom' = TRUE /\ starved' = TRUE
    /\ abort("mem")
    /\ UNCHANGED <<inivars, n_errors, idx>>

Next == \/ Open \/ ReadQuietly \/ ReadGlobal \/ ReadSecurity \/ ReadPolicy
        \/ ReadOther \/ ReadNoMemory \/ ReadAfterOom \/ EndOfFile
        \/ ValidatePolicy \/ ValidateNoMemory \/ Return \/ ReturnNoMemory

Spec == Init /\ [][Next]_catalogvars

-----------------------------------------------------------------------------
\* What alert_eval.c and alert_act.c read of a policy; the engine counts in ms.
Compiled(p) ==
    [type |-> p.type, threshold |-> p.threshold, threshold_low |-> p.threshold_low,
     persistence |-> p.persistence, hysteresis_m |-> p.hysteresis_m,
     cooldown |-> p.cooldown_s * 1000,
     actions |-> [k \in DOMAIN p.actions |->
        TheOne(parse_single_action(p.actions[k])).kind]]

Faults(p) ==
    {f \in {"metric", "low", "persistence", "actions"} :
        \/ f = "metric" /\ p.metric = "unknown"
        \/ f = "low" /\ p.threshold_low > p.threshold
        \/ f = "persistence" /\ p.persistence < 1
        \/ f = "actions" /\ \/ p.actions = <<>>
                            \/ \E k \in DOMAIN p.actions :
                                parse_single_action(p.actions[k]) = {}}

\* The types, and what the engine is built on: a catalog that is accepted is not
\* empty and is made of policies AlertState can work with.
CatalogTypeOK ==
    /\ phase \in {"start", "read", "validate", "done"}
    /\ pos \in 1 .. Len(file) + 1 /\ ini_error \in 0 .. pos - 1
    /\ section \in Words /\ prev_name \in Words
    /\ rc = "none" => idx \in 1 .. Len(policies) + 1
    /\ n_errors \in Nat /\ oom \in BOOLEAN /\ starved \in BOOLEAN /\ (oom => starved)
    /\ rc \in {"none", "ok", "io", "parse", "mem"}
    /\ rc = "ok" => /\ policies # <<>>
                    /\ \A k \in DOMAIN policies :
                        /\ Faults(policies[k].fields) = {}
                        /\ Compiled(policies[k].fields) \in Policies

-----------------------------------------------------------------------------
(***************************************************************************)
(* The loader against the file as a whole, with no state: the section of a *)
(* line is that of the last header, and the value of a key is that of the  *)
(* last line of its section, indented or not, that sets it.                *)
(***************************************************************************)
CallsIn(sec) == {k \in DOMAIN file : IsCall(k) /\ SectionAt(k) = sec}

Value(sec, key, default) ==
    LET sets == {k \in CallsIn(sec) : KeyAt(k) = key /\ parse(sec, key, TextAt(k)) # {}}
    IN  IF sets = {} THEN default
        ELSE TheOne(parse(sec, key, TextAt(Max(sets))))

Declared == {n \in Names : CallsIn(n) # {}}

FinalFields(n) ==
    with_low([key \in DOMAIN PolicyDefaults |-> Value(n, key, PolicyDefaults[key])])

FaultyLines ==
    {k \in DOMAIN file : IsCall(k) /\ at_fault(SectionAt(k), KeyAt(k), TextAt(k))}

\* One error for each line at fault and each fault of a policy, or for no policy.
NumberOfFaults ==
    Cardinality(FaultyLines)
    + Cardinality(UNION {{n} \X Faults(FinalFields(n)) : n \in Declared})
    + (IF Declared = {} THEN 1 ELSE 0)

(***************************************************************************)
(* A file is accepted only when no line of it is at fault, whatever later  *)
(* lines put right, and the values its policies end up with are well       *)
(* formed, however their sections are split and ordered; unless memory     *)
(* fails, any other file is refused with one error for each of its faults  *)
(* (ini_cb, validate_all).                                                 *)
(***************************************************************************)
AcceptsExactly ==
    /\ rc = "ok" => NumberOfFaults = 0
    /\ rc = "parse" /\ ~starved => n_errors = NumberOfFaults /\ n_errors > 0
    /\ rc = "mem" => starved

(***************************************************************************)
(* An accepted catalog has each declared policy once, and every key of     *)
(* every section has the last value the file gives it, sections met again  *)
(* and lines that go on included (get_or_create_policy, handle_policy,     *)
(* ini_parse_stream).                                                      *)
(***************************************************************************)
LastValueWins ==
    rc = "ok" =>
        /\ {policies[k].name : k \in DOMAIN policies} = Declared
        /\ Len(policies) = Cardinality(Declared)
        /\ \A k \in DOMAIN policies : policies[k].fields = FinalFields(policies[k].name)
        /\ \A key \in DOMAIN GlobalDefaults :
            global[key] = Value("global", key, GlobalDefaults[key])
        /\ \A key \in DOMAIN SecurityDefaults :
            security[key] = Value("security", key, SecurityDefaults[key])

(***************************************************************************)
(* A load that fails, at whatever line, leaves the caller the defaults and *)
(* nothing to free; a run on what was read so far might not be a dry one   *)
(* (abort_with_errors).                                                    *)
(***************************************************************************)
FailureLeavesDefaults ==
    rc \in {"io", "parse", "mem"} =>
        global = GlobalDefaults /\ security = SecurityDefaults /\ policies = <<>>

(***************************************************************************)
(* What ini_parse returns, and the loader drops, is the first line that it *)
(* could not read whole (ini_parse_stream).                                *)
(***************************************************************************)
IniErrorIsFirst ==
    phase = "validate" =>
        ini_error = IF \A k \in DOMAIN file : ~Bad(k) THEN 0
                    ELSE Min({k \in DOMAIN file : Bad(k)})

(***************************************************************************)
(* alert_policy.h: "Reporta TODOS los errores a stderr antes de abortar    *)
(* (filosofía fail-loud)": a file with a line that cannot be read, or that *)
(* is cut for its length, is not accepted.                                 *)
(***************************************************************************)
FailLoud == rc = "ok" => ini_error = 0
=============================================================================
