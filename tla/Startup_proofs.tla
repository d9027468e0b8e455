--------------------------- MODULE Startup_proofs ---------------------------
(***************************************************************************)
(* The start and the exit of the program for every file, every numeral and *)
(* every allocation that may fail. The reader and the loader go from line  *)
(* to line: what they have made so far is what the lines read so far say,  *)
(* in terms that know no state, and the file ends by having been read. So  *)
(* what a whole file says needs no induction of its own. Around them the   *)
(* start: the loop begins only with all it needs, and nothing is held at   *)
(* exit.                                                                   *)
(***************************************************************************)
EXTENDS Startup, FiniteSetTheorems, FunctionTheorems, TLAPS

-----------------------------------------------------------------------------
(***************************************************************************)
(* The reader: its state, after some lines, is what the file says of them. *)
(***************************************************************************)
ReaderInv ==
    /\ file \in Seq(FileLines)
    /\ pos \in 1 .. Len(file) + 1
    /\ section \in Words /\ prev_name \in Words /\ ini_error \in 0 .. pos - 1
    /\ section = SectionAt(pos - 1)
    /\ prev_name # "" <=> Going(pos - 1)
    /\ prev_name # "" => prev_name = KeyAt(pos - 1)

\* The error that is returned is of the first line at fault, as long as no call
\* has been refused.
FirstFault ==
    /\ ini_error = 0 => \A k \in 1 .. pos - 1 : ~Bad(k)
    /\ ini_error # 0 => Bad(ini_error) /\ \A k \in 1 .. ini_error - 1 : ~Bad(k)

\* What the file says does not change.
LEMMA SameFile ==
    ASSUME file' = file, NEW k
    PROVE  /\ SectionAt(k)' = SectionAt(k) /\ KeyAt(k)' = KeyAt(k)
           /\ TextAt(k)' = TextAt(k)
           /\ Going(k)' <=> Going(k)
           /\ IsCall(k)' <=> IsCall(k)
           /\ Bad(k)' <=> Bad(k)
BY DEF SectionAt, KeyAt, TextAt, Last, IsCall, Bad, Continues, Going, Opens, Ends

\* A line is the last of its shape, or does not change which is.
LEMMA LastStep ==
    ASSUME file \in Seq(FileLines), NEW k \in 1 .. Len(file), NEW shape
    PROVE  Last(shape, k) = IF file[k].shape = shape /\ ~Continues(k)
                            THEN {k} ELSE Last(shape, k - 1)
BY DEF Last

\* A line opens a key, or leaves the one there is, or ends it.
LEMMA GoingStep ==
    ASSUME file \in Seq(FileLines), NEW k \in 1 .. Len(file)
    PROVE  Going(k) <=> Opens(k) \/ (Going(k - 1) /\ (Ends(k) => file[k].indent))
<1>1. ASSUME Going(k), ~Opens(k)
      PROVE  Going(k - 1) /\ (Ends(k) => file[k].indent)
  <2>1. PICK j \in 1 .. k : Opens(j) /\ \A h \in j .. k : Ends(h) => file[h].indent
    BY <1>1 DEF Going
  <2>2. j \in 1 .. k - 1
    BY <1>1, <2>1
  <2> QED BY <2>1, <2>2 DEF Going
<1>2. ASSUME Opens(k) PROVE Going(k)
  <2>1. ~Ends(k)
    BY <1>2 DEF Opens, Ends
  <2> QED BY <1>2, <2>1 DEF Going
<1>3. ASSUME Going(k - 1), Ends(k) => file[k].indent PROVE Going(k)
  <2>1. PICK j \in 1 .. k - 1 : Opens(j) /\ \A h \in j .. k - 1 : Ends(h) => file[h].indent
    BY <1>3 DEF Going
  <2>2. \A h \in j .. k : Ends(h) => file[h].indent
    BY <1>3, <2>1
  <2> QED BY <2>1, <2>2 DEF Going
<1> QED BY <1>1, <1>2, <1>3

\* The section and the key after a line.
LEMMA SectionStep ==
    ASSUME file \in Seq(FileLines), NEW k \in 1 .. Len(file)
    PROVE  SectionAt(k) = IF file[k].shape = "header" /\ ~Continues(k)
                          THEN file[k].name ELSE SectionAt(k - 1)
<1>1. TheOne({k}) = k
  BY DEF TheOne
<1> QED BY <1>1, LastStep DEF SectionAt

\* Likewise the key, of the last pair at the margin.
LEMMA KeyStep ==
    ASSUME file \in Seq(FileLines), NEW k \in 1 .. Len(file)
    PROVE  KeyAt(k) = IF file[k].shape = "pair" /\ ~Continues(k)
                      THEN file[k].name ELSE KeyAt(k - 1)
<1>1. TheOne({k}) = k
  BY DEF TheOne
<1> QED BY <1>1, LastStep DEF KeyAt

\* Types, for the provers.
LEMMA ReaderFacts ==
    ASSUME ReaderInv
    PROVE  /\ file \in Seq(FileLines) /\ Len(file) \in Nat /\ DOMAIN file = 1 .. Len(file)
           /\ pos \in 1 .. Len(file) + 1 /\ pos \in Nat /\ ini_error \in 0 .. pos - 1
<1>1. file \in Seq(FileLines) /\ pos \in 1 .. Len(file) + 1 /\ ini_error \in 0 .. pos - 1
  BY DEF ReaderInv
<1>2. Len(file) \in Nat /\ DOMAIN file = 1 .. Len(file)
  BY <1>1
<1> QED BY <1>1, <1>2

\* What the reader makes of the next line is what the file says of it.
LEMMA LineIs ==
    ASSUME ReaderInv, pos <= Len(file)
    PROVE  /\ pos \in 1 .. Len(file) /\ line \in FileLines
           /\ continues <=> Continues(pos)
           /\ Calls <=> IsCall(pos)
           /\ Calls => /\ section = SectionAt(pos) /\ call_name = KeyAt(pos)
                       /\ call_text = TextAt(pos) /\ call_text \in Seq(Items)
<1>1. pos \in 1 .. Len(file) /\ line = file[pos] /\ line \in FileLines
  <2>1. pos \in 1 .. Len(file)
    BY ReaderFacts
  <2> QED BY <2>1, ReaderFacts DEF line
<1>2. continues <=> Continues(pos)
  BY <1>1 DEF ReaderInv, continues, Continues
<1>3. Calls <=> IsCall(pos)
  BY <1>1, <1>2 DEF Calls, Is, IsCall
<1>4. ASSUME Calls
      PROVE  /\ section = SectionAt(pos) /\ call_name = KeyAt(pos)
             /\ call_text = TextAt(pos) /\ call_text \in Seq(Items)
  <2>1. section = SectionAt(pos)
    BY <1>1, <1>2, <1>4, SectionStep DEF ReaderInv, Calls, Is
  <2>2. call_name = KeyAt(pos)
    BY <1>1, <1>2, <1>4, KeyStep DEF ReaderInv, Calls, Is, call_name, continues
  <2>3. call_text = TextAt(pos) /\ call_text \in Seq(Items)
    BY <1>1, <1>2 DEF call_text, TextAt, FileLines
  <2> QED BY <2>1, <2>2, <2>3
<1> QED BY <1>1, <1>2, <1>3, <1>4

\* A line is read: the reader's actions, of which one is a call.
Line(bad) == IniBlank \/ IniHeader \/ IniOpen \/ IniBare \/ IniCall(bad)

\* Whatever the line, the reader is where the file says it is after it
\* (ini_parse_stream).
LEMMA LineStep ==
    ASSUME ReaderInv, pos <= Len(file), NEW bad \in BOOLEAN, Line(bad)
    PROVE  ReaderInv' /\ pos' = pos + 1 /\ file' = file
<1>1. /\ pos \in 1 .. Len(file) /\ line \in FileLines /\ line = file[pos]
      /\ continues <=> Continues(pos)
  BY LineIs DEF line
<1>2. pos' = pos + 1 /\ file' = file /\ ini_error' \in 0 .. pos
  <2>1. pos' = pos + 1 /\ file' = file /\ ini_error' \in {pos, ini_error}
    BY DEF Line, IniBlank, IniHeader, IniOpen, IniBare, IniCall, step
  <2> QED BY <2>1, ReaderFacts
<1>3. /\ SectionAt(pos) = IF line.shape = "header" /\ ~continues
                          THEN line.name ELSE section
      /\ prev_name # "" => 
            KeyAt(pos) = IF line.shape = "pair" /\ ~continues THEN line.name ELSE prev_name
      /\ line.shape = "pair" /\ ~continues => KeyAt(pos) = line.name
  BY <1>1, SectionStep, KeyStep DEF ReaderInv
<1>4. Going(pos) <=> \/ line.shape = "pair" /\ line.name # ""
                     \/ /\ prev_name # ""
                        /\ \/ line.shape = "header"
                           \/ line.shape = "pair" /\ line.name = ""
                           => line.indent
  BY <1>1, GoingStep DEF ReaderInv, Opens, Ends
<1>5. continues <=> prev_name # "" /\ line.indent /\ line.shape # "blank"
  BY DEF continues
<1>6. /\ section' \in Words /\ prev_name' \in Words
      /\ section' = SectionAt(pos)
      /\ prev_name' # "" <=> Going(pos)
      /\ prev_name' # "" => prev_name' = KeyAt(pos)
  <2>1. CASE IniBlank
    BY <1>1, <1>3, <1>4, <1>5, <2>1 DEF IniBlank, Is, ReaderInv
  <2>2. CASE IniHeader
    BY <1>1, <1>3, <1>4, <1>5, <2>2, IniAssumption DEF IniHeader, Is, ReaderInv, FileLines
  <2>3. CASE IniOpen
    BY <1>1, <1>3, <1>4, <1>5, <2>3 DEF IniOpen, Is, ReaderInv
  <2>4. CASE IniBare
    BY <1>1, <1>3, <1>4, <1>5, <2>4 DEF IniBare, Is, ReaderInv
  <2>5. CASE IniCall(bad)
    BY <1>1, <1>3, <1>4, <1>5, <2>5
       DEF IniCall, Calls, call_name, Is, ReaderInv, FileLines
  <2> QED BY <2>1, <2>2, <2>3, <2>4, <2>5 DEF Line
<1>7. pos = pos' - 1 /\ pos' \in 1 .. Len(file) + 1
  BY <1>1, <1>2
<1>8. file' \in Seq(FileLines)
  BY <1>2 DEF ReaderInv
<1>9. /\ (SectionAt(pos - 1))' = SectionAt(pos)
      /\ (Going(pos - 1))' <=> Going(pos)
      /\ (KeyAt(pos - 1))' = KeyAt(pos)
  BY <1>2, <1>7, SameFile
<1> QED BY <1>2, <1>6, <1>7, <1>8, <1>9 DEF ReaderInv

\* Of the lines, those at fault are counted where they are read.
LEMMA FaultStep ==
    ASSUME ReaderInv, FirstFault, pos <= Len(file), Line(FALSE)
    PROVE  FirstFault'
<1>1. /\ pos \in 1 .. Len(file) /\ line \in FileLines /\ line = file[pos]
      /\ continues <=> Continues(pos)
  BY LineIs DEF line
<1>2. pos' = pos + 1 /\ file' = file
  BY LineStep
<1>3. ini_error' = IF ini_error = 0 /\ Bad(pos) THEN pos ELSE ini_error
  <2>1. CASE IniBlank
    BY <1>1, <2>1 DEF IniBlank, Is, step, Bad
  <2>2. CASE IniHeader
    BY <1>1, <2>2 DEF IniHeader, Is, step, Bad
  <2>3. CASE IniOpen
    BY <1>1, <2>3 DEF IniOpen, Is, step, Bad
  <2>4. CASE IniBare
    BY <1>1, <2>4 DEF IniBare, Is, step, Bad
  <2>5. CASE IniCall(FALSE)
    BY <1>1, <2>5 DEF IniCall, Calls, Is, step, Bad
  <2> QED BY <2>1, <2>2, <2>3, <2>4, <2>5 DEF Line
<1>4. ini_error \in 0 .. pos - 1
  BY DEF ReaderInv
<1> QED BY <1>1, <1>2, <1>3, <1>4, SameFile DEF FirstFault

-----------------------------------------------------------------------------
(***************************************************************************)
(* What the first n lines of the file say: the last of them that sets a    *)
(* key gives it its value, a policy is declared by its first call.         *)
(***************************************************************************)
Sets(sec, key, k) ==
    /\ IsCall(k) /\ SectionAt(k) = sec /\ KeyAt(k) = key
    /\ parse(sec, key, TextAt(k)) # {}

Setters(sec, key, n) == {k \in 1 .. n : Sets(sec, key, k)}

ValueAfter(sec, key, default, n) ==
    IF Setters(sec, key, n) = {} THEN default
    ELSE TheOne(parse(sec, key, TextAt(Max(Setters(sec, key, n)))))

TableAfter(sec, defaults, n) ==
    [key \in DOMAIN defaults |-> ValueAfter(sec, key, defaults[key], n)]

CalledFor(name, k) == IsCall(k) /\ SectionAt(k) = name

DeclaredAfter(n) == {name \in Names : \E k \in 1 .. n : CalledFor(name, k)}

FaultyLine(k) == IsCall(k) /\ at_fault(SectionAt(k), KeyAt(k), TextAt(k))
FaultyAfter(n) == {k \in 1 .. n : FaultyLine(k)}

\* The values of the keys of a policy.
FieldType ==
    [type |-> {"performance", "security"}, risk |-> {"low", "medium", "high", "critical"},
     metric |-> {"cpu_percent", "mem_rss", "io_read_rate", "io_write_rate", "unknown"},
     threshold |-> Int, threshold_low |-> Int, persistence |-> Nat,
     hysteresis_m |-> Nat, cooldown_s |-> Nat, actions |-> Seq(Items)]

Keys == DOMAIN PolicyDefaults

Tables ==
    {r \in [Keys -> UNION {FieldType[key] : key \in Keys}] :
        \A key \in Keys : r[key] \in FieldType[key]}

-----------------------------------------------------------------------------
\* The last line that sets a key gives it its value.
LEMMA ValueStep ==
    ASSUME NEW sec, NEW key, NEW default, NEW k \in Nat \ {0}
    PROVE  ValueAfter(sec, key, default, k) =
            IF Sets(sec, key, k) THEN TheOne(parse(sec, key, TextAt(k)))
            ELSE ValueAfter(sec, key, default, k - 1)
<1>1. CASE ~Sets(sec, key, k)
  <2>1. Setters(sec, key, k) = Setters(sec, key, k - 1)
    BY <1>1 DEF Setters
  <2> QED BY <1>1, <2>1 DEF ValueAfter
<1>2. CASE Sets(sec, key, k)
  <2>1. /\ k \in Setters(sec, key, k)
        /\ \A j \in Setters(sec, key, k) : j \in Nat /\ j <= k
    BY <1>2 DEF Setters
  <2>2. Max(Setters(sec, key, k)) = k
    BY <2>1 DEF Max
  <2> QED BY <1>2, <2>1, <2>2 DEF ValueAfter
<1> QED BY <1>1, <1>2

\* Before the first line there is nothing but the defaults.
LEMMA NothingSaid ==
    /\ \A sec, key, default : ValueAfter(sec, key, default, 0) = default
    /\ DeclaredAfter(0) = {} /\ FaultyAfter(0) = {}
<1>1. \A sec, key : Setters(sec, key, 0) = {}
  BY DEF Setters
<1> QED BY <1>1 DEF ValueAfter, DeclaredAfter, FaultyAfter

\* A policy that is not declared has its defaults.
LEMMA UndeclaredIsDefault ==
    ASSUME NEW n \in Nat, NEW name \in Names, name \notin DeclaredAfter(n)
    PROVE  TableAfter(name, PolicyDefaults, n) = PolicyDefaults
<1>1. \A key : Setters(name, key, n) = {}
  BY DEF Setters, Sets, DeclaredAfter, CalledFor
<1>2. \A key, default : ValueAfter(name, key, default, n) = default
  BY <1>1 DEF ValueAfter
<1> QED BY <1>2 DEF TableAfter, PolicyDefaults

\* The whole file.
LEMMA WholeFile ==
    ASSUME file \in Seq(FileLines), NEW n, n = Len(file)
    PROVE  /\ \A sec, key, default : Value(sec, key, default) = ValueAfter(sec, key, default, n)
           /\ Declared = DeclaredAfter(n) /\ FaultyLines = FaultyAfter(n)
           /\ \A name : FinalFields(name) = with_low(TableAfter(name, PolicyDefaults, n))
<1>1. DOMAIN file = 1 .. n
  OBVIOUS
<1>2. ASSUME NEW sec, NEW key, NEW default
      PROVE  Value(sec, key, default) = ValueAfter(sec, key, default, n)
  <2> DEFINE sets == {k \in CallsIn(sec) : KeyAt(k) = key /\ parse(sec, key, TextAt(k)) # {}}
  <2>1. sets = Setters(sec, key, n)
    BY <1>1 DEF CallsIn, Setters, Sets
  <2>2. Value(sec, key, default) =
            IF sets = {} THEN default ELSE TheOne(parse(sec, key, TextAt(Max(sets))))
    BY DEF Value
  <2> HIDE DEF sets
  <2> QED BY <2>1, <2>2 DEF ValueAfter
<1>3. Declared = DeclaredAfter(n)
  BY <1>1 DEF Declared, CallsIn, DeclaredAfter, CalledFor
<1>4. FaultyLines = FaultyAfter(n)
  BY <1>1 DEF FaultyLines, FaultyAfter, FaultyLine
<1>5. ASSUME NEW name
      PROVE  FinalFields(name) = with_low(TableAfter(name, PolicyDefaults, n))
  BY <1>2 DEF FinalFields, TableAfter
<1> QED BY <1>2, <1>3, <1>4, <1>5

\* What the file says does not change, and neither does what its lines say.
LEMMA SameTables ==
    ASSUME file' = file
    PROVE  /\ \A sec, defaults, n :
                TableAfter(sec, defaults, n)' = TableAfter(sec, defaults, n)
           /\ \A n : DeclaredAfter(n)' = DeclaredAfter(n) /\ FaultyAfter(n)' = FaultyAfter(n)
           /\ \A name : FinalFields(name)' = FinalFields(name)
           /\ NumberOfFaults' = NumberOfFaults
           /\ Declared' = Declared
<1>1. \A k : /\ SectionAt(k)' = SectionAt(k) /\ KeyAt(k)' = KeyAt(k)
             /\ TextAt(k)' = TextAt(k)
             /\ IsCall(k)' <=> IsCall(k)
  BY SameFile
<1>2. \A sec, key, n : Setters(sec, key, n)' = Setters(sec, key, n)
  BY <1>1 DEF Setters, Sets
<1>3. \A sec, key, default, n : ValueAfter(sec, key, default, n)' = ValueAfter(sec, key, default, n)
  BY <1>1, <1>2 DEF ValueAfter
<1>4. \A sec, defaults, n : TableAfter(sec, defaults, n)' = TableAfter(sec, defaults, n)
  BY <1>3 DEF TableAfter
<1>5. \A n : DeclaredAfter(n)' = DeclaredAfter(n) /\ FaultyAfter(n)' = FaultyAfter(n)
  BY <1>1 DEF DeclaredAfter, CalledFor, FaultyAfter, FaultyLine
<1>6. \A sec : CallsIn(sec)' = CallsIn(sec)
  BY <1>1 DEF CallsIn
<1>7. \A sec, key, default : Value(sec, key, default)' = Value(sec, key, default)
  BY <1>1, <1>6 DEF Value
<1>8. \A name : FinalFields(name)' = FinalFields(name)
  BY <1>7 DEF FinalFields
<1>9. Declared' = Declared /\ FaultyLines' = FaultyLines
  BY <1>1, <1>6 DEF Declared, FaultyLines
<1>10. NumberOfFaults' = NumberOfFaults
  BY <1>8, <1>9 DEF NumberOfFaults
<1> QED BY <1>4, <1>5, <1>8, <1>9, <1>10

-----------------------------------------------------------------------------
\* What a line that is read says, to the loader that reads it.
LEMMA LineSays ==
    ASSUME ReaderInv, pos <= Len(file)
    PROVE  /\ \A sec, key :
                Sets(sec, key, pos) <=> /\ Calls /\ section = sec /\ call_name = key
                                        /\ value # {}
           /\ \A name : CalledFor(name, pos) <=> Calls /\ section = name
           /\ FaultyLine(pos) <=> Calls /\ at_fault(section, call_name, call_text)
           /\ Calls => value = parse(section, KeyAt(pos), TextAt(pos))
BY LineIs DEF Sets, CalledFor, FaultyLine, value

\* A call sets in the table of its section what the line says (ini_cb).
LEMMA TableStep ==
    ASSUME ReaderInv, pos <= Len(file), Calls, NEW defaults
    PROVE  set(TableAfter(section, defaults, pos - 1), call_name, value)
                = TableAfter(section, defaults, pos)
<1> DEFINE T(n) == TableAfter(section, defaults, n)
<1>1. pos \in Nat \ {0}
  BY ReaderFacts
<1>2. ASSUME NEW key \in DOMAIN defaults
      PROVE  T(pos)[key] = IF call_name = key /\ value # {} THEN TheOne(value)
                           ELSE T(pos - 1)[key]
  BY <1>1, LineSays, LineIs, ValueStep DEF TableAfter, value
<1>3. DOMAIN T(pos) = DOMAIN defaults /\ DOMAIN T(pos - 1) = DOMAIN defaults
  BY DEF TableAfter
<1>4. T(pos) = [key \in DOMAIN defaults |-> T(pos)[key]]
  BY DEF TableAfter
<1> DEFINE S == set(T(pos - 1), call_name, value)
<1>5. DOMAIN S = DOMAIN defaults /\ S = [key \in DOMAIN defaults |-> S[key]]
  BY <1>3 DEF set, TableAfter
<1>6. ASSUME NEW key \in DOMAIN defaults PROVE S[key] = T(pos)[key]
  BY <1>2, <1>3 DEF set
<1> HIDE DEF S, T
<1>7. S = T(pos)
  BY <1>4, <1>5, <1>6
<1> QED BY <1>7 DEF S, T

\* A line that is not for a section leaves its table.
LEMMA TableStays ==
    ASSUME ReaderInv, pos <= Len(file), NEW sec, ~(Calls /\ section = sec), NEW defaults
    PROVE  TableAfter(sec, defaults, pos) = TableAfter(sec, defaults, pos - 1)
<1>1. pos \in Nat \ {0}
  BY ReaderFacts
<1>2. \A key : ~Sets(sec, key, pos)
  BY LineSays
<1> QED BY <1>1, <1>2, ValueStep DEF TableAfter

\* A call for a policy declares it, and nothing else does.
LEMMA DeclaredStep ==
    ASSUME ReaderInv, pos <= Len(file)
    PROVE  DeclaredAfter(pos) = IF Calls /\ section \in Names
                                THEN DeclaredAfter(pos - 1) \cup {section}
                                ELSE DeclaredAfter(pos - 1)
<1>1. pos \in Nat \ {0}
  BY ReaderFacts
<1>2. \A name \in Names : name \in DeclaredAfter(pos) <=>
        name \in DeclaredAfter(pos - 1) \/ CalledFor(name, pos)
  BY <1>1 DEF DeclaredAfter
<1>3. DeclaredAfter(pos) \subseteq Names /\ DeclaredAfter(pos - 1) \subseteq Names
  BY DEF DeclaredAfter
<1> QED BY <1>2, <1>3, LineSays

\* A line at fault is one fault more.
LEMMA FaultyStep ==
    ASSUME ReaderInv, pos <= Len(file)
    PROVE  /\ Cardinality(FaultyAfter(pos - 1)) \in Nat
           /\ Cardinality(FaultyAfter(pos)) =
                IF Calls /\ at_fault(section, call_name, call_text)
                THEN Cardinality(FaultyAfter(pos - 1)) + 1
                ELSE Cardinality(FaultyAfter(pos - 1))
<1>1. pos \in Nat \ {0}
  BY ReaderFacts
<1>2. IsFiniteSet(FaultyAfter(pos - 1)) /\ pos \notin FaultyAfter(pos - 1)
  <2>1. IsFiniteSet(1 .. pos - 1)
    BY <1>1, FS_Interval
  <2>2. FaultyAfter(pos - 1) \in SUBSET (1 .. pos - 1)
    BY DEF FaultyAfter
  <2> QED BY <1>1, <2>1, <2>2, FS_Subset
<1>3. CASE FaultyLine(pos)
  <2>1. FaultyAfter(pos) = FaultyAfter(pos - 1) \cup {pos}
    BY <1>1, <1>3 DEF FaultyAfter
  <2> QED BY <1>2, <1>3, <2>1, FS_AddElement, FS_CardinalityType, LineSays
<1>4. CASE ~FaultyLine(pos)
  <2>1. FaultyAfter(pos) = FaultyAfter(pos - 1)
    BY <1>1, <1>4 DEF FaultyAfter
  <2> QED BY <1>2, <1>4, <2>1, FS_CardinalityType, LineSays
<1> QED BY <1>3, <1>4

-----------------------------------------------------------------------------
(***************************************************************************)
(* The values the parsers take are of the types of the keys.               *)
(***************************************************************************)
LEMMA KeysAre ==
    /\ Keys = {"type", "risk", "metric", "threshold", "threshold_low", "persistence",
               "hysteresis_m", "cooldown_s", "actions"}
    /\ FieldType["type"] = {"performance", "security"}
    /\ FieldType["risk"] = {"low", "medium", "high", "critical"}
    /\ FieldType["metric"] =
        {"cpu_percent", "mem_rss", "io_read_rate", "io_write_rate", "unknown"}
    /\ FieldType["threshold"] = Int /\ FieldType["threshold_low"] = Int
    /\ FieldType["persistence"] = Nat /\ FieldType["hysteresis_m"] = Nat
    /\ FieldType["cooldown_s"] = Nat /\ FieldType["actions"] = Seq(Items)
BY DEF Keys, PolicyDefaults, FieldType

\* A value that is found in a table is one of its values.
LEMMA FoundInTable ==
    ASSUME NEW table, NEW text, NEW T, \A w \in DOMAIN table : table[w] \in T
    PROVE  look_up(table, text) \subseteq T
BY DEF look_up

\* What a parser accepts is a value of its key's type (parse_uint_strict,
\* parse_float_strict, lookup_metric, lookup_risk, lookup_policy_type).
LEMMA ParsedIsTyped ==
    ASSUME NEW key \in Keys, NEW text \in Seq(Items)
    PROVE  parse_scalar(key, text) \subseteq FieldType[key]
<1>1. look_up(Numerals, text) \subseteq Int
  BY CatalogAssumption, FoundInTable
<1>2. parse_uint_strict(text) \subseteq Nat
  BY DEF parse_uint_strict
<1>3. CASE key = "type"
  <2> DEFINE table == [performance |-> "performance", perf |-> "performance",
                       security |-> "security"]
  <2>1. \A w \in DOMAIN table : table[w] \in {"performance", "security"}
    OBVIOUS
  <2>2. lookup_policy_type(text) = look_up(table, text)
    BY DEF lookup_policy_type
  <2> HIDE DEF table
  <2>3. look_up(table, text) \subseteq {"performance", "security"}
    BY <2>1, FoundInTable
  <2>4. parse_scalar(key, text) = lookup_policy_type(text)
    BY <1>3 DEF parse_scalar
  <2> QED BY <1>3, <2>2, <2>3, <2>4, KeysAre
<1>4. CASE key = "risk"
  BY <1>4, KeysAre DEF parse_scalar, lookup_risk
<1>5. CASE key = "metric"
  BY <1>5, KeysAre DEF parse_scalar, lookup_metric
<1>6. CASE key \in {"threshold", "threshold_low"}
  BY <1>1, <1>6, KeysAre DEF parse_scalar, parse_float_strict
<1>7. CASE key \in {"persistence", "hysteresis_m", "cooldown_s"}
  BY <1>2, <1>7, KeysAre DEF parse_scalar
<1>8. CASE key = "actions"
  BY <1>8, KeysAre DEF parse_scalar
<1> QED BY <1>3, <1>4, <1>5, <1>6, <1>7, <1>8, KeysAre

\* So is what a key of a policy takes from a line (handle_policy).
LEMMA PolicyValues ==
    ASSUME NEW sec \in Names, NEW key \in Keys, NEW text \in Seq(Items)
    PROVE  parse(sec, key, text) \subseteq FieldType[key]
<1>1. sec # "global" /\ sec # "security"
  BY CatalogAssumption
<1>2. parse(sec, key, text) = parse_scalar(key, text)
  BY <1>1 DEF parse, Keys
<1> QED BY <1>2, ParsedIsTyped

\* A policy begins with values of the right types (get_or_create_policy).
LEMMA DefaultsTyped == PolicyDefaults \in Tables
<1>1. \A key \in Keys : PolicyDefaults[key] \in FieldType[key]
  <2>1. /\ PolicyDefaults["type"] = "performance" /\ PolicyDefaults["risk"] = "medium"
        /\ PolicyDefaults["metric"] = "unknown" /\ PolicyDefaults["threshold"] = 0
        /\ PolicyDefaults["threshold_low"] = -1 /\ PolicyDefaults["persistence"] = 1
        /\ PolicyDefaults["hysteresis_m"] = 1 /\ PolicyDefaults["cooldown_s"] = 0
        /\ PolicyDefaults["actions"] = <<>>
    BY DEF PolicyDefaults
  <2> SUFFICES ASSUME NEW key \in Keys PROVE PolicyDefaults[key] \in FieldType[key]
    OBVIOUS
  <2>2. CASE key = "actions"
    <3>1. <<>> \in Seq(Items)
      OBVIOUS
    <3>2. PolicyDefaults[key] = <<>> /\ FieldType[key] = Seq(Items)
      BY <2>1, <2>2, KeysAre
    <3> QED BY <3>1, <3>2, Zenon
  <2>3. CASE key \in {"type", "risk", "metric"}
    BY <2>1, <2>3, KeysAre
  <2>4. CASE key \in {"threshold", "threshold_low"}
    BY <2>1, <2>4, KeysAre
  <2>5. CASE key \in {"persistence", "hysteresis_m", "cooldown_s"}
    BY <2>1, <2>5, KeysAre
  <2> QED BY <2>2, <2>3, <2>4, <2>5, KeysAre
<1>2. PolicyDefaults = [key \in Keys |-> PolicyDefaults[key]]
  BY DEF PolicyDefaults, Keys
<1> HIDE DEF Tables
<1> QED BY <1>1, <1>2 DEF Tables

\* Setting a key keeps a table one of values of the right types.
LEMMA SetTyped ==
    ASSUME NEW r \in Tables, NEW name \in Names, NEW key, NEW text \in Seq(Items)
    PROVE  set(r, key, parse(name, key, text)) \in Tables
<1> DEFINE values == parse(name, key, text)
           s == set(r, key, values)
<1>1. /\ r \in [Keys -> UNION {FieldType[h] : h \in Keys}]
      /\ \A h \in Keys : r[h] \in FieldType[h]
  BY DEF Tables
<1>2. key \in Keys /\ values # {} => TheOne(values) \in FieldType[key]
  BY PolicyValues DEF TheOne
<1>3. s = [h \in Keys |-> s[h]]
  BY <1>1 DEF set
<1>4. \A h \in Keys : s[h] = IF h = key /\ values # {} THEN TheOne(values) ELSE r[h]
  <2> HIDE DEF values
  <2> QED BY <1>1 DEF set
<1>5. \A h \in Keys : s[h] \in FieldType[h]
  BY <1>1, <1>2, <1>4
<1> HIDE DEF s
<1>6. s \in Tables
  BY <1>3, <1>5 DEF Tables
<1> QED BY <1>6 DEF s

\* The default of threshold_low, applied, stays.
LEMMA WithLow ==
    ASSUME NEW p \in Tables
    PROVE  /\ with_low(p) \in Tables /\ with_low(with_low(p)) = with_low(p)
           /\ with_low(p).threshold = p.threshold /\ with_low(p).metric = p.metric
           /\ with_low(p).persistence = p.persistence
           /\ with_low(p).actions = p.actions
<1>1. /\ p \in [Keys -> UNION {FieldType[h] : h \in Keys}]
      /\ \A h \in Keys : p[h] \in FieldType[h]
  BY DEF Tables
<1>2. CASE ~(p.threshold_low < 0)
  BY <1>2 DEF with_low
<1>3. CASE p.threshold_low < 0
  <2> DEFINE q == with_low(p)
  <2>1. q = [p EXCEPT !["threshold_low"] = p.threshold]
    BY <1>3 DEF with_low
  <2>2. q = [h \in Keys |-> q[h]]
    BY <1>1, <2>1
  <2>3. \A h \in Keys : q[h] = IF h = "threshold_low" THEN p.threshold ELSE p[h]
    BY <1>1, <2>1
  <2> HIDE DEF q
  <2>4. \A h \in Keys : q[h] \in FieldType[h]
    BY <1>1, <2>3, KeysAre
  <2>5. q \in Tables
    BY <2>2, <2>4 DEF Tables
  <2>6. /\ q.threshold = p.threshold /\ q.metric = p.metric /\ q.actions = p.actions
        /\ q.persistence = p.persistence /\ q.threshold_low = p.threshold
    BY <2>3, KeysAre
  <2>7. with_low(q) = q
    <3>1. CASE q.threshold_low < 0
      <4>1. with_low(q) = [q EXCEPT !["threshold_low"] = q["threshold_low"]]
        BY <2>6, <3>1 DEF with_low
      <4> QED BY <2>2, <4>1
    <3>2. CASE ~(q.threshold_low < 0)
      BY <3>2 DEF with_low
    <3> QED BY <3>1, <3>2
  <2> QED BY <2>5, <2>6, <2>7 DEF q
<1> QED BY <1>2, <1>3

\* The faults of a policy are what its validation counts.
LEMMA FaultCount ==
    ASSUME NEW p \in Tables
    PROVE  /\ IsFiniteSet(Faults(with_low(p))) /\ Cardinality(field_errors(p)) \in Nat
           /\ Cardinality(Faults(with_low(p))) =
                Cardinality(field_errors(p)) + (IF actions_valid(p) THEN 0 ELSE 1)
<1>1. IsFiniteSet(field_errors(p)) /\ "actions" \notin field_errors(p)
  <2>1. IsFiniteSet({"metric", "low", "persistence"})
    <3>1. IsFiniteSet({"metric"})
      BY FS_Singleton
    <3>2. IsFiniteSet({"metric"} \cup {"low"})
      BY <3>1, FS_AddElement
    <3>3. IsFiniteSet({"metric"} \cup {"low"} \cup {"persistence"})
      BY <3>2, FS_AddElement
    <3>4. {"metric"} \cup {"low"} \cup {"persistence"} = {"metric", "low", "persistence"}
      OBVIOUS
    <3> QED BY <3>3, <3>4
  <2>2. field_errors(p) \in SUBSET {"metric", "low", "persistence"}
    BY DEF field_errors
  <2> QED BY <2>1, <2>2, FS_Subset
<1> DEFINE q == with_low(p)
<1>2. /\ q.metric = p.metric /\ q.threshold = p.threshold
      /\ q.persistence = p.persistence /\ q.actions = p.actions
  BY WithLow
<1>3. actions_valid(p) <=>
        ~(p.actions = <<>> \/ \E k \in DOMAIN p.actions :
                                parse_single_action(p.actions[k]) = {})
  BY DEF actions_valid
<1> HIDE DEF q
<1>4. field_errors(p) =
        {e \in {"metric", "low", "persistence"} :
            \/ e = "metric" /\ q.metric = "unknown"
            \/ e = "low" /\ q.threshold_low > q.threshold
            \/ e = "persistence" /\ q.persistence < 1}
  BY <1>2 DEF field_errors, q
<1>5. Faults(q) = IF actions_valid(p) THEN field_errors(p)
                  ELSE field_errors(p) \cup {"actions"}
  BY <1>2, <1>3, <1>4 DEF Faults
<1>6. Cardinality(field_errors(p)) \in Nat
  BY <1>1, FS_CardinalityType
<1> QED BY <1>1, <1>5, <1>6, FS_AddElement, SMTT(30) DEF q

-----------------------------------------------------------------------------
(***************************************************************************)
(* The loader between two of its steps: what is built is what the lines    *)
(* read so far say, and what is counted is what is wrong with them.        *)
(***************************************************************************)
\* The policies, each under a name of its own.
PolicyRecords == [name : Names, fields : Tables]

Catalog ==
    /\ policies \in Seq(PolicyRecords)
    /\ \A k, l \in DOMAIN policies : policies[k].name = policies[l].name => k = l

\* Where the load is, what it counts and what it knows of memory.
Control ==
    /\ phase \in {"start", "read", "validate", "done"}
    /\ rc \in {"none", "ok", "io", "parse", "mem"} /\ (phase # "done" <=> rc = "none")
    /\ n_errors \in Nat /\ oom \in BOOLEAN /\ starved \in BOOLEAN /\ (oom => starved)
    /\ phase \in {"start", "read"} => idx = 1 /\ (starved => oom)
    /\ phase = "start" => /\ pos = 1 /\ policies = <<>>
                          /\ global = GlobalDefaults /\ security = SecurityDefaults
    /\ phase = "validate" => idx \in 1 .. Len(policies) + 1

\* The tables of [global] and [security] after n lines, and the policies there are.
Built(n) ==
    /\ global = TableAfter("global", GlobalDefaults, n)
    /\ security = TableAfter("security", SecurityDefaults, n)
    /\ {policies[k].name : k \in DOMAIN policies} = DeclaredAfter(n)

\* The fields a policy has after n lines.
Read(k, n) == policies[k].fields = TableAfter(policies[k].name, PolicyDefaults, n)

\* While memory lasts, what is built and counted is what the lines read so far say.
ReadSoFar ==
    phase \in {"start", "read"} /\ ~oom =>
        /\ FirstFault
        /\ Built(pos - 1)
        /\ \A k \in DOMAIN policies : Read(k, pos - 1)
        /\ n_errors = Cardinality(FaultyAfter(pos - 1))

\* The faults of the policies up to i.
Found(i) == UNION {{policies[k].name} \X Faults(FinalFields(policies[k].name)) : k \in 1 .. i}

\* A policy is what the whole file makes of it.
Validated(k) == policies[k].fields = FinalFields(policies[k].name)

\* After the last line, the faults of the policies before idx are counted too; an
\* error that memory lost left one in its place, or oom.
ValidatedSoFar ==
    phase = "validate" =>
        /\ pos = Len(file) + 1 /\ FirstFault
        /\ Built(Len(file))
        /\ \A k \in DOMAIN policies :
            IF k < idx THEN Validated(k) ELSE Read(k, Len(file))
        /\ IsFiniteSet(Found(idx - 1))
        /\ ~starved => n_errors = Cardinality(FaultyLines) + Cardinality(Found(idx - 1))
        /\ starved /\ ~oom => n_errors > 0

\* What the return code stands for.
Returned ==
    /\ rc = "ok" => /\ NumberOfFaults = 0 /\ Built(Len(file)) /\ policies # <<>>
                    /\ \A k \in DOMAIN policies :
                        Validated(k) /\ Faults(policies[k].fields) = {}
    /\ rc = "parse" /\ ~starved => n_errors = NumberOfFaults /\ n_errors > 0
    /\ rc = "mem" => starved
    /\ FailureLeavesDefaults

LoaderInv ==
    ReaderInv /\ Control /\ Catalog /\ ReadSoFar /\ ValidatedSoFar /\ Returned

-----------------------------------------------------------------------------
\* The catalog, for the provers.
LEMMA CatalogFacts ==
    ASSUME Catalog
    PROVE  /\ Len(policies) \in Nat /\ DOMAIN policies = 1 .. Len(policies)
           /\ \A k \in DOMAIN policies : /\ policies[k] \in PolicyRecords
                                         /\ policies[k].name \in Names
                                         /\ policies[k].fields \in Tables
<1>1. policies \in Seq(PolicyRecords)
  BY DEF Catalog
<1>2. Len(policies) \in Nat /\ DOMAIN policies = 1 .. Len(policies)
  BY <1>1
<1>3. \A k \in DOMAIN policies : policies[k] \in PolicyRecords
  BY <1>1, <1>2
<1> QED BY <1>2, <1>3 DEF PolicyRecords

\* Before the first line there are the defaults, which is what no line says.
LEMMA LoaderInitInv ==
    ASSUME Init
    PROVE  LoaderInv
<1>0. pos = 1 /\ section = "" /\ prev_name = "" /\ ini_error = 0
  BY DEF Init, IniInit
<1>1. pos = 1 /\ section = "" /\ prev_name = "" /\ ini_error = 0 /\ pos - 1 = 0
  <2>1. 1 - 1 = 0
    OBVIOUS
  <2> QED BY <1>0, <2>1, Zenon
<1>7. file \in Seq(FileLines)
  BY IniAssumption DEF Init, IniInit
<1>2. /\ phase = "start" /\ policies = <<>> /\ global = GlobalDefaults
      /\ security = SecurityDefaults /\ n_errors = 0 /\ oom = FALSE /\ starved = FALSE
      /\ idx = 1 /\ rc = "none"
  BY DEF Init
<1>3. ReaderInv
  <2>1. SectionAt(0) = "" /\ ~Going(0)
    BY DEF SectionAt, Last, Going
  <2>2. Len(file) \in Nat
    BY <1>7
  <2>4. 1 \in 1 .. Len(file) + 1 /\ 0 \in 0 .. 0
    BY <2>2
  <2>3. pos \in 1 .. Len(file) + 1 /\ ini_error \in 0 .. pos - 1
    BY <1>1, <2>4, Zenon
  <2> QED BY <1>1, <1>7, <2>1, <2>3, IniAssumption DEF ReaderInv
<1>4. Control
  BY <1>1, <1>2 DEF Control
<1>5. Catalog /\ DOMAIN policies = {}
  BY <1>2 DEF Catalog
<1>6. ReadSoFar
  <2>1. TableAfter("global", GlobalDefaults, 0) = GlobalDefaults
    BY NothingSaid DEF TableAfter, GlobalDefaults
  <2>2. TableAfter("security", SecurityDefaults, 0) = SecurityDefaults
    BY NothingSaid DEF TableAfter, SecurityDefaults
  <2>4. Built(0)
    BY <1>2, <1>5, <2>1, <2>2, NothingSaid DEF Built
  <2>5. n_errors = Cardinality(FaultyAfter(0))
    BY <1>2, NothingSaid, FS_EmptySet
  <2>8. 1 .. 0 = {}
    OBVIOUS
  <2>9. 1 .. pos - 1 = {}
    BY <1>1, <2>8, Zenon
  <2>6. FirstFault
    BY <1>1, <2>9, Zenon DEF FirstFault
  <2>7. \A k \in DOMAIN policies : Read(k, 0)
    BY <1>5
  <2> QED BY <1>1, <1>5, <2>4, <2>5, <2>6, <2>7 DEF ReadSoFar
<1> QED BY <1>2, <1>3, <1>4, <1>5, <1>6
        DEF LoaderInv, ValidatedSoFar, Returned, FailureLeavesDefaults

-----------------------------------------------------------------------------
\* Nothing more is read once memory has failed.
LEMMA ReadAfterFailure ==
    ASSUME LoaderInv, Reading, NEW bad \in BOOLEAN, Line(bad), oom' = TRUE, starved' = TRUE,
           UNCHANGED <<parsed, n_errors>>
    PROVE  LoaderInv'
<1>1. phase = "read" /\ pos <= Len(file) /\ UNCHANGED <<phase, idx, rc>>
  BY DEF Reading
<1>2. ReaderInv'
  BY <1>1, LineStep DEF LoaderInv
<1>3. Control'
  BY <1>1 DEF LoaderInv, Control
<1>4. Catalog'
  BY DEF LoaderInv, Catalog, parsed
<1>5. rc' = "none"
  BY <1>1 DEF LoaderInv, Control
<1> QED BY <1>1, <1>2, <1>3, <1>4, <1>5
        DEF LoaderInv, ReadSoFar, ValidatedSoFar, Returned, FailureLeavesDefaults

\* A line is read: what it says is built and counted.
LEMMA ReadLine ==
    ASSUME LoaderInv, Reading, ~oom, Line(FALSE), UNCHANGED <<oom, starved>>,
           Catalog', n_errors' \in Nat,
           n_errors' = n_errors + (IF Calls /\ at_fault(section, call_name, call_text)
                                   THEN 1 ELSE 0),
           global' = TableAfter("global", GlobalDefaults, pos),
           security' = TableAfter("security", SecurityDefaults, pos),
           {policies'[k].name : k \in DOMAIN policies'} = DeclaredAfter(pos),
           \A k \in DOMAIN policies' :
                policies'[k].fields = TableAfter(policies'[k].name, PolicyDefaults, pos)
    PROVE  LoaderInv'
<1>1. phase = "read" /\ pos <= Len(file) /\ UNCHANGED <<phase, idx, rc>>
  BY DEF Reading
<1>2. ReaderInv /\ FirstFault /\ Control
  BY <1>1 DEF LoaderInv, ReadSoFar
<1>3. ReaderInv' /\ pos' = pos + 1 /\ file' = file
  BY <1>1, <1>2, LineStep
<1>4. FirstFault'
  BY <1>1, <1>2, FaultStep
<1>5. pos' - 1 = pos
  BY <1>2, <1>3, ReaderFacts
<1>6. (Built(pos - 1))' /\ \A k \in DOMAIN policies' : (Read(k, pos - 1))'
  BY <1>3, <1>5, SameTables DEF Built, Read
<1>7. n_errors' = (Cardinality(FaultyAfter(pos - 1)))'
  <2>1. n_errors = Cardinality(FaultyAfter(pos - 1))
    BY <1>1 DEF LoaderInv, ReadSoFar
  <2>2. n_errors' = Cardinality(FaultyAfter(pos))
    BY <1>1, <1>2, <2>1, FaultyStep
  <2> QED BY <1>3, <1>5, <2>2, SameTables
<1>8. Control'
  BY <1>1, <1>2 DEF Control
<1>9. ReadSoFar'
  BY <1>4, <1>6, <1>7 DEF ReadSoFar
<1>10. rc' = "none"
  BY <1>1, <1>2 DEF Control
<1> QED BY <1>1, <1>3, <1>8, <1>9, <1>10
        DEF LoaderInv, ValidatedSoFar, Returned, FailureLeavesDefaults

-----------------------------------------------------------------------------
\* What a line that is read starts from.
LEMMA BeforeLine ==
    ASSUME LoaderInv, Reading, ~oom
    PROVE  /\ ReaderInv /\ pos <= Len(file) /\ Catalog /\ n_errors \in Nat
           /\ global = TableAfter("global", GlobalDefaults, pos - 1)
           /\ security = TableAfter("security", SecurityDefaults, pos - 1)
           /\ {policies[k].name : k \in DOMAIN policies} = DeclaredAfter(pos - 1)
           /\ \A k \in DOMAIN policies :
                policies[k].fields = TableAfter(policies[k].name, PolicyDefaults, pos - 1)
<1>1. phase = "read" /\ pos <= Len(file)
  BY DEF Reading
<1>2. ReaderInv /\ Catalog /\ n_errors \in Nat
  BY DEF LoaderInv, Control
<1>3. Built(pos - 1) /\ \A k \in DOMAIN policies : Read(k, pos - 1)
  BY <1>1 DEF LoaderInv, ReadSoFar
<1> QED BY <1>1, <1>2, <1>3 DEF Built, Read

\* A line for which no section of the loader is called leaves the tables.
LEMMA UnheardLine ==
    ASSUME LoaderInv, Reading, ~oom, Line(FALSE), UNCHANGED <<parsed, oom, starved>>,
           Calls => section \notin Names \cup {"global", "security"},
           n_errors' = n_errors + (IF Calls /\ at_fault(section, call_name, call_text)
                                   THEN 1 ELSE 0)
    PROVE  LoaderInv'
<1>1. /\ ReaderInv /\ pos <= Len(file) /\ Catalog /\ n_errors \in Nat
      /\ global = TableAfter("global", GlobalDefaults, pos - 1)
      /\ security = TableAfter("security", SecurityDefaults, pos - 1)
      /\ {policies[k].name : k \in DOMAIN policies} = DeclaredAfter(pos - 1)
      /\ \A k \in DOMAIN policies :
            policies[k].fields = TableAfter(policies[k].name, PolicyDefaults, pos - 1)
  BY BeforeLine
<1>2. policies' = policies /\ global' = global /\ security' = security
  BY DEF parsed
<1>3. Catalog' /\ n_errors' \in Nat
  BY <1>1, <1>2 DEF Catalog
<1>4. global' = TableAfter("global", GlobalDefaults, pos)
  BY <1>1, <1>2, TableStays
<1>5. security' = TableAfter("security", SecurityDefaults, pos)
  BY <1>1, <1>2, TableStays
<1>6. {policies'[k].name : k \in DOMAIN policies'} = DeclaredAfter(pos)
  BY <1>1, <1>2, DeclaredStep
<1>7. ASSUME NEW k \in DOMAIN policies'
      PROVE  policies'[k].fields = TableAfter(policies'[k].name, PolicyDefaults, pos)
  <2>1. k \in DOMAIN policies /\ policies[k].name \in Names
    BY <1>1, <1>2, CatalogFacts
  <2> QED BY <1>1, <1>2, <2>1, TableStays
<1> QED BY <1>3, <1>4, <1>5, <1>6, <1>7, ReadLine

\* Blank lines, section lines and lines at fault build nothing.
LEMMA QuietStep ==
    ASSUME LoaderInv, ReadQuietly
    PROVE  LoaderInv'
<1>1. ~Calls /\ Line(FALSE) /\ Reading
  BY DEF ReadQuietly, Line, IniBlank, IniHeader, IniOpen, IniBare, Calls, Is
<1>2. UNCHANGED <<parsed, n_errors, oom, starved>>
  BY DEF ReadQuietly, Memory
<1>3. CASE oom
  <2>1. oom' = TRUE /\ starved' = TRUE
    BY <1>2, <1>3 DEF LoaderInv, Control
  <2> QED BY <1>1, <1>2, <2>1, ReadAfterFailure
<1>4. CASE ~oom
  <2>1. n_errors' = n_errors + 0
    BY <1>1, <1>2, <1>4, BeforeLine
  <2> QED BY <1>1, <1>2, <1>4, <2>1, UnheardLine
<1> QED BY <1>3, <1>4

\* What a call of the callback that finds memory is.
LEMMA CallIs ==
    ASSUME Calling
    PROVE  /\ Reading /\ ~oom /\ Line(FALSE) /\ Calls /\ UNCHANGED <<oom, starved>>
           /\ n_errors' = n_errors + (IF Calls /\ at_fault(section, call_name, call_text)
                                      THEN 1 ELSE 0)
BY DEF Calling, Line, IniCall, Count, Memory

\* A key outside every known section is an error and no more (ini_cb).
LEMMA OtherStep ==
    ASSUME LoaderInv, ReadOther
    PROVE  LoaderInv'
<1>1. Calling /\ UNCHANGED parsed /\ section \notin Names \cup {"global", "security"}
  BY DEF ReadOther
<1> QED BY <1>1, CallIs, UnheardLine

\* A key of [global] (handle_global).
LEMMA GlobalStep ==
    ASSUME LoaderInv, ReadGlobal
    PROVE  LoaderInv'
<1>1. /\ Calling /\ section = "global" /\ policies' = policies /\ security' = security
      /\ global' = set(global, call_name, value)
  BY DEF ReadGlobal
<1>2. /\ Reading /\ ~oom /\ Line(FALSE) /\ Calls /\ UNCHANGED <<oom, starved>>
      /\ n_errors' = n_errors + (IF Calls /\ at_fault(section, call_name, call_text)
                                 THEN 1 ELSE 0)
  BY <1>1, CallIs
<1>3. /\ ReaderInv /\ pos <= Len(file) /\ Catalog /\ n_errors \in Nat
      /\ global = TableAfter("global", GlobalDefaults, pos - 1)
      /\ security = TableAfter("security", SecurityDefaults, pos - 1)
      /\ {policies[k].name : k \in DOMAIN policies} = DeclaredAfter(pos - 1)
      /\ \A k \in DOMAIN policies :
            policies[k].fields = TableAfter(policies[k].name, PolicyDefaults, pos - 1)
  BY <1>2, BeforeLine
<1>4. Catalog' /\ n_errors' \in Nat
  BY <1>1, <1>2, <1>3 DEF Catalog
<1>5. global' = TableAfter("global", GlobalDefaults, pos)
  BY <1>1, <1>2, <1>3, TableStep
<1>6. security' = TableAfter("security", SecurityDefaults, pos)
  BY <1>1, <1>3, TableStays
<1>7. section \notin Names
  BY <1>1, CatalogAssumption
<1>8. {policies'[k].name : k \in DOMAIN policies'} = DeclaredAfter(pos)
  BY <1>1, <1>3, <1>7, DeclaredStep
<1>9. ASSUME NEW k \in DOMAIN policies'
      PROVE  policies'[k].fields = TableAfter(policies'[k].name, PolicyDefaults, pos)
  <2>1. k \in DOMAIN policies /\ policies[k].name \in Names
    BY <1>1, <1>3, CatalogFacts
  <2> QED BY <1>1, <1>3, <1>7, <2>1, TableStays
<1> QED BY <1>2, <1>4, <1>5, <1>6, <1>8, <1>9, ReadLine

\* A key of [security] (handle_security).
LEMMA SecurityStep ==
    ASSUME LoaderInv, ReadSecurity
    PROVE  LoaderInv'
<1>1. /\ Calling /\ section = "security" /\ policies' = policies /\ global' = global
      /\ security' = set(security, call_name, value)
  BY DEF ReadSecurity
<1>2. /\ Reading /\ ~oom /\ Line(FALSE) /\ Calls /\ UNCHANGED <<oom, starved>>
      /\ n_errors' = n_errors + (IF Calls /\ at_fault(section, call_name, call_text)
                                 THEN 1 ELSE 0)
  BY <1>1, CallIs
<1>3. /\ ReaderInv /\ pos <= Len(file) /\ Catalog /\ n_errors \in Nat
      /\ global = TableAfter("global", GlobalDefaults, pos - 1)
      /\ security = TableAfter("security", SecurityDefaults, pos - 1)
      /\ {policies[k].name : k \in DOMAIN policies} = DeclaredAfter(pos - 1)
      /\ \A k \in DOMAIN policies :
            policies[k].fields = TableAfter(policies[k].name, PolicyDefaults, pos - 1)
  BY <1>2, BeforeLine
<1>4. Catalog' /\ n_errors' \in Nat
  BY <1>1, <1>2, <1>3 DEF Catalog
<1>5. security' = TableAfter("security", SecurityDefaults, pos)
  BY <1>1, <1>2, <1>3, TableStep
<1>6. global' = TableAfter("global", GlobalDefaults, pos)
  BY <1>1, <1>3, TableStays
<1>7. section \notin Names
  BY <1>1, CatalogAssumption
<1>8. {policies'[k].name : k \in DOMAIN policies'} = DeclaredAfter(pos)
  BY <1>1, <1>3, <1>7, DeclaredStep
<1>9. ASSUME NEW k \in DOMAIN policies'
      PROVE  policies'[k].fields = TableAfter(policies'[k].name, PolicyDefaults, pos)
  <2>1. k \in DOMAIN policies /\ policies[k].name \in Names
    BY <1>1, <1>3, CatalogFacts
  <2> QED BY <1>1, <1>3, <1>7, <2>1, TableStays
<1> QED BY <1>2, <1>4, <1>5, <1>6, <1>8, <1>9, ReadLine

\* An allocation of the callback fails, or one has.
LEMMA NoMemoryStep ==
    ASSUME LoaderInv, ReadNoMemory \/ ReadAfterOom
    PROVE  LoaderInv'
<1>1. /\ Reading /\ Line(TRUE) /\ UNCHANGED <<parsed, n_errors>>
      /\ oom' = TRUE /\ starved' = TRUE
  BY DEF ReadNoMemory, ReadAfterOom, Memory, Line, LoaderInv, Control
<1> QED BY <1>1, ReadAfterFailure

\* The policy of a section is there, once, before its key is set.
LEMMA CreatedOnce ==
    ASSUME Catalog, NEW name \in Names, NEW ps, ps = created(name)
    PROVE  /\ ps \in Seq(PolicyRecords)
           /\ \A k, l \in DOMAIN ps : ps[k].name = ps[l].name => k = l
           /\ {ps[k].name : k \in DOMAIN ps} =
                {policies[k].name : k \in DOMAIN policies} \cup {name}
           /\ \A k \in DOMAIN ps :
                \/ k \in DOMAIN policies /\ ps[k] = policies[k]
                \/ /\ ps[k] = [name |-> name, fields |-> PolicyDefaults]
                   /\ name \notin {policies[l].name : l \in DOMAIN policies}
<1> DEFINE new == [name |-> name, fields |-> PolicyDefaults]
<1>1. /\ Len(policies) \in Nat /\ DOMAIN policies = 1 .. Len(policies)
      /\ policies \in Seq(PolicyRecords)
      /\ \A k, l \in DOMAIN policies : policies[k].name = policies[l].name => k = l
  BY CatalogFacts DEF Catalog
<1>2. CASE find_policy(name) # {}
  <2>1. ps = policies /\ name \in {policies[k].name : k \in DOMAIN policies}
    BY <1>2 DEF created, find_policy
  <2> QED BY <1>1, <2>1
<1>3. CASE find_policy(name) = {}
  <2>1. ps = Append(policies, new)
    BY <1>3 DEF created
  <2>2. new \in PolicyRecords /\ new.name = name
    BY DefaultsTyped DEF PolicyRecords
  <2> HIDE DEF new
  <2>3. /\ ps \in Seq(PolicyRecords) /\ Len(ps) = Len(policies) + 1
        /\ DOMAIN ps = 1 .. Len(policies) + 1
    BY <1>1, <2>1, <2>2
  <2>4. /\ \A k \in DOMAIN policies : k \in DOMAIN ps /\ ps[k] = policies[k]
        /\ ps[Len(policies) + 1] = new
    BY <1>1, <2>1, <2>2
  <2>5. \A k \in DOMAIN ps : k \in DOMAIN policies \/ k = Len(policies) + 1
    BY <1>1, <2>3
  <2>6. \A k \in DOMAIN policies : policies[k].name # name
    BY <1>3 DEF find_policy
  <2>7. ASSUME NEW k \in DOMAIN ps, NEW l \in DOMAIN ps, ps[k].name = ps[l].name
        PROVE  k = l
    BY <1>1, <2>2, <2>4, <2>5, <2>6, <2>7
  <2>8. Len(policies) + 1 \in DOMAIN ps
    BY <1>1, <2>3
  <2>9. {ps[k].name : k \in DOMAIN ps} =
            {policies[k].name : k \in DOMAIN policies} \cup {name}
    BY <2>2, <2>4, <2>5, <2>8
  <2> QED BY <2>3, <2>4, <2>5, <2>6, <2>7, <2>9 DEF new
<1> QED BY <1>2, <1>3

\* A policy's fields are replaced.
LEMMA FieldsSet ==
    ASSUME NEW ps \in Seq(PolicyRecords), NEW i \in DOMAIN ps, NEW r \in Tables,
           NEW qs, qs = [ps EXCEPT ![i].fields = r],
           \A k, l \in DOMAIN ps : ps[k].name = ps[l].name => k = l
    PROVE  /\ qs \in Seq(PolicyRecords) /\ DOMAIN qs = DOMAIN ps /\ Len(qs) = Len(ps)
           /\ \A k, l \in DOMAIN qs : qs[k].name = qs[l].name => k = l
           /\ \A k \in DOMAIN qs : /\ qs[k].name = ps[k].name
                                   /\ k # i => qs[k] = ps[k]
           /\ qs[i].fields = r
           /\ {qs[k].name : k \in DOMAIN qs} = {ps[k].name : k \in DOMAIN ps}
<1>1. DOMAIN ps = 1 .. Len(ps) /\ Len(ps) \in Nat
  OBVIOUS
<1>2. ps[i] \in PolicyRecords
  BY <1>1
<1>3. [ps[i] EXCEPT !.fields = r] \in PolicyRecords
  BY <1>2 DEF PolicyRecords
<1>4. [ps[i] EXCEPT !.fields = r].name = ps[i].name /\ [ps[i] EXCEPT !.fields = r].fields = r
  BY <1>2 DEF PolicyRecords
<1>5. /\ DOMAIN qs = DOMAIN ps /\ qs[i] = [ps[i] EXCEPT !.fields = r]
      /\ \A k \in DOMAIN ps : k # i => qs[k] = ps[k]
  OBVIOUS
<1>6. qs \in Seq(PolicyRecords) /\ Len(qs) = Len(ps)
  <2>1. qs = [k \in DOMAIN ps |-> IF k = i THEN [ps[i] EXCEPT !.fields = r] ELSE ps[k]]
    OBVIOUS
  <2>2. qs \in [1 .. Len(ps) -> PolicyRecords]
    BY <1>1, <1>3, <2>1
  <2> QED BY <1>1, <2>2
<1>7. \A k \in DOMAIN ps : qs[k].name = ps[k].name
  BY <1>4, <1>5
<1>8. {qs[k].name : k \in DOMAIN qs} = {ps[k].name : k \in DOMAIN ps}
  BY <1>5, <1>7
<1>9. ASSUME NEW k \in DOMAIN qs, NEW l \in DOMAIN qs, qs[k].name = qs[l].name
      PROVE  k = l
  BY <1>5, <1>7, <1>9
<1> QED BY <1>4, <1>5, <1>6, <1>7, <1>8, <1>9

\* A key of a policy, which the first one creates (handle_policy).
LEMMA PolicyStep ==
    ASSUME LoaderInv, ReadPolicy
    PROVE  LoaderInv'
<1> DEFINE ps == created(section)
           i == place(ps, section)
           r == set(ps[i].fields, call_name, value)
<1>1. /\ Calling /\ section \in Names /\ global' = global /\ security' = security
      /\ policies' = [ps EXCEPT ![i].fields = r]
  BY DEF ReadPolicy
<1>2. /\ Reading /\ ~oom /\ Line(FALSE) /\ Calls /\ UNCHANGED <<oom, starved>>
      /\ n_errors' = n_errors + (IF Calls /\ at_fault(section, call_name, call_text)
                                 THEN 1 ELSE 0)
  BY <1>1, CallIs
<1>3. /\ ReaderInv /\ pos <= Len(file) /\ Catalog /\ n_errors \in Nat
      /\ global = TableAfter("global", GlobalDefaults, pos - 1)
      /\ security = TableAfter("security", SecurityDefaults, pos - 1)
      /\ {policies[k].name : k \in DOMAIN policies} = DeclaredAfter(pos - 1)
      /\ \A k \in DOMAIN policies :
            policies[k].fields = TableAfter(policies[k].name, PolicyDefaults, pos - 1)
  BY <1>2, BeforeLine
<1>4. pos - 1 \in Nat
  BY <1>3, ReaderFacts
<1>5. section # "global" /\ section # "security"
  BY <1>1, CatalogAssumption
<1>6. global' = TableAfter("global", GlobalDefaults, pos)
  BY <1>1, <1>3, <1>5, TableStays
<1>7. security' = TableAfter("security", SecurityDefaults, pos)
  BY <1>1, <1>3, <1>5, TableStays
<1> HIDE DEF ps
<1>8. /\ ps \in Seq(PolicyRecords)
      /\ \A k, l \in DOMAIN ps : ps[k].name = ps[l].name => k = l
      /\ {ps[k].name : k \in DOMAIN ps} =
            {policies[k].name : k \in DOMAIN policies} \cup {section}
      /\ \A k \in DOMAIN ps :
            \/ k \in DOMAIN policies /\ ps[k] = policies[k]
            \/ /\ ps[k] = [name |-> section, fields |-> PolicyDefaults]
               /\ section \notin {policies[l].name : l \in DOMAIN policies}
  BY <1>1, <1>3, CreatedOnce DEF ps
<1>9. i \in DOMAIN ps /\ ps[i].name = section
  <2>1. \E k \in DOMAIN ps : ps[k].name = section
    BY <1>8
  <2> QED BY <2>1 DEF place
<1> HIDE DEF i
<1>10. \A k \in DOMAIN ps : /\ ps[k].name \in Names /\ ps[k].fields \in Tables
                            /\ ps[k] \in PolicyRecords
  <2>1. \A k \in DOMAIN ps : ps[k] \in PolicyRecords
    <3>1. DOMAIN ps = 1 .. Len(ps)
      BY <1>8
    <3> QED BY <1>8, <3>1
  <2> QED BY <2>1 DEF PolicyRecords
<1>11. ASSUME NEW k \in DOMAIN ps
       PROVE  ps[k].fields = TableAfter(ps[k].name, PolicyDefaults, pos - 1)
  <2>1. CASE k \in DOMAIN policies /\ ps[k] = policies[k]
    BY <1>3, <2>1
  <2>2. CASE /\ ps[k] = [name |-> section, fields |-> PolicyDefaults]
             /\ section \notin {policies[l].name : l \in DOMAIN policies}
    BY <1>1, <1>3, <1>4, <2>2, UndeclaredIsDefault
  <2> QED BY <1>8, <2>1, <2>2
<1>12. r \in Tables
  <2>1. call_text \in Seq(Items)
    BY <1>2, <1>3, LineIs
  <2> QED BY <1>1, <1>9, <1>10, <2>1, SetTyped DEF value
<1>13. r = TableAfter(section, PolicyDefaults, pos)
  BY <1>2, <1>3, <1>9, <1>11, TableStep
<1> HIDE DEF r
<1>14. /\ policies' \in Seq(PolicyRecords) /\ DOMAIN policies' = DOMAIN ps
       /\ \A k, l \in DOMAIN policies' : policies'[k].name = policies'[l].name => k = l
       /\ \A k \in DOMAIN policies' : /\ policies'[k].name = ps[k].name
                                      /\ k # i => policies'[k] = ps[k]
       /\ policies'[i].fields = r
       /\ {policies'[k].name : k \in DOMAIN policies'} = {ps[k].name : k \in DOMAIN ps}
  BY <1>1, <1>8, <1>9, <1>12, FieldsSet, SMTT(30)
<1>15. Catalog' /\ n_errors' \in Nat
  BY <1>2, <1>3, <1>14 DEF Catalog
<1>16. {policies'[k].name : k \in DOMAIN policies'} = DeclaredAfter(pos)
  BY <1>1, <1>2, <1>3, <1>8, <1>14, DeclaredStep
<1>17. ASSUME NEW k \in DOMAIN policies'
       PROVE  policies'[k].fields = TableAfter(policies'[k].name, PolicyDefaults, pos)
  <2>1. CASE k = i
    BY <1>9, <1>13, <1>14, <2>1
  <2>2. CASE k # i
    <3>1. policies'[k] = ps[k] /\ ps[k].name # section
      BY <1>8, <1>9, <1>14, <2>2
    <3> QED BY <1>3, <1>11, <1>14, <3>1, TableStays
  <2> QED BY <2>1, <2>2
<1> QED BY <1>2, <1>6, <1>7, <1>15, <1>16, <1>17, ReadLine

-----------------------------------------------------------------------------
\* The reader is done, and stays what it was.
LEMMA ReaderStays ==
    ASSUME UNCHANGED inivars
    PROVE  /\ ReaderInv' <=> ReaderInv
           /\ FirstFault' <=> FirstFault
           /\ file' = file /\ pos' = pos
<1>1. /\ file' = file /\ pos' = pos /\ section' = section /\ prev_name' = prev_name
      /\ ini_error' = ini_error
  BY DEF inivars
<1>2. /\ (SectionAt(pos - 1))' = SectionAt(pos - 1)
      /\ (Going(pos - 1))' <=> Going(pos - 1)
      /\ (KeyAt(pos - 1))' = KeyAt(pos - 1)
  BY <1>1, SameFile
<1>3. \A k : Bad(k)' <=> Bad(k)
  BY <1>1, SameFile
<1> QED BY <1>1, <1>2, <1>3 DEF ReaderInv, FirstFault

\* The file opens, or the load ends with the defaults (pg_policy_catalog_load).
LEMMA OpenStep ==
    ASSUME LoaderInv, Open
    PROVE  LoaderInv'
<1>1. /\ phase = "start" /\ UNCHANGED <<inivars, parsed, n_errors, oom, starved, idx>>
      /\ \/ phase' = "read" /\ rc' = rc
         \/ phase' = "done" /\ rc' = "io"
  BY DEF Open
<1>2. ReaderInv' /\ Catalog'
  BY <1>1, ReaderStays DEF LoaderInv, Catalog, parsed
<1>3. Control'
  BY <1>1 DEF LoaderInv, Control, parsed
<1>4. ReadSoFar'
  <2> SUFFICES ASSUME phase' = "read", ~oom' PROVE ReadSoFar'
    BY <1>1 DEF ReadSoFar
  <2>1. /\ FirstFault /\ Built(pos - 1) /\ \A k \in DOMAIN policies : Read(k, pos - 1)
        /\ n_errors = Cardinality(FaultyAfter(pos - 1))
    BY <1>1 DEF LoaderInv, ReadSoFar
  <2>2. FirstFault'
    BY <1>1, <2>1, ReaderStays
  <2>3. pos' = pos /\ file' = file /\ policies' = policies
    BY <1>1 DEF inivars, parsed
  <2>4. (Built(pos - 1))' /\ \A k \in DOMAIN policies' : (Read(k, pos - 1))'
    BY <1>1, <2>1, <2>3, SameTables DEF Built, Read, parsed
  <2>5. n_errors' = (Cardinality(FaultyAfter(pos - 1)))'
    BY <1>1, <2>1, <2>3, SameTables
  <2> QED BY <2>2, <2>4, <2>5 DEF ReadSoFar
<1>5. rc' \notin {"ok", "parse", "mem"} /\ phase' # "validate"
  BY <1>1 DEF LoaderInv, Control
<1>6. FailureLeavesDefaults'
  BY <1>1, <1>5 DEF LoaderInv, Control, FailureLeavesDefaults, parsed
<1> QED BY <1>2, <1>3, <1>4, <1>5, <1>6 DEF LoaderInv, ValidatedSoFar, Returned

\* The load is given up: nothing is left of what was built.
LEMMA AbortInv ==
    ASSUME LoaderInv, UNCHANGED inivars, NEW code \in {"parse", "mem"}, abort(code),
           n_errors' \in Nat, oom' \in BOOLEAN, starved' \in BOOLEAN, oom' => starved',
           code = "mem" => starved',
           code = "parse" /\ ~starved' => n_errors' = NumberOfFaults /\ n_errors' > 0
    PROVE  LoaderInv'
<1>1. phase' = "done" /\ rc' = code /\ policies' = <<>>
  BY DEF abort
<1>2. ReaderInv'
  BY ReaderStays DEF LoaderInv
<1>3. Catalog'
  BY <1>1 DEF Catalog
<1>4. Control'
  BY <1>1 DEF Control
<1>5. NumberOfFaults' = NumberOfFaults
  BY SameTables DEF inivars
<1>6. FailureLeavesDefaults'
  BY DEF abort, FailureLeavesDefaults
<1> QED BY <1>1, <1>2, <1>3, <1>4, <1>5, <1>6
        DEF LoaderInv, ReadSoFar, ValidatedSoFar, Returned

\* After the last line what is built is what the whole file says.
LEMMA EndOfFileStep ==
    ASSUME LoaderInv, EndOfFile
    PROVE  LoaderInv'
<1>1. /\ phase = "read" /\ pos > Len(file)
      /\ UNCHANGED <<inivars, n_errors, oom, starved, idx>>
      /\ \/ oom /\ abort("mem")
         \/ ~oom /\ phase' = "validate" /\ UNCHANGED <<policies, global, security, rc>>
  BY DEF EndOfFile
<1>2. Control /\ Catalog /\ ReaderInv
  BY DEF LoaderInv
<1>3. CASE oom /\ abort("mem")
  <2>1. /\ n_errors' \in Nat /\ oom' \in BOOLEAN /\ starved' \in BOOLEAN /\ (oom' => starved')
        /\ starved' /\ UNCHANGED inivars
    BY <1>1, <1>2, <1>3 DEF Control
  <2> QED BY <1>3, <2>1, AbortInv
<1>4. CASE ~oom /\ phase' = "validate" /\ UNCHANGED <<policies, global, security, rc>>
  <2>1. /\ FirstFault /\ Built(pos - 1) /\ \A k \in DOMAIN policies : Read(k, pos - 1)
        /\ n_errors = Cardinality(FaultyAfter(pos - 1))
    BY <1>1, <1>4 DEF LoaderInv, ReadSoFar
  <2>2. ~starved /\ idx = 1
    BY <1>1, <1>2, <1>4 DEF Control
  <2>3. pos = Len(file) + 1 /\ pos - 1 = Len(file) /\ file \in Seq(FileLines)
    BY <1>1, <1>2, ReaderFacts
  <2>4. Built(Len(file)) /\ \A k \in DOMAIN policies : Read(k, Len(file))
    BY <2>1, <2>3
  <2>5. n_errors = Cardinality(FaultyLines) + 0
    <3>1. n_errors = Cardinality(FaultyLines)
      BY <2>1, <2>3, WholeFile
    <3> QED BY <3>1, <1>2 DEF Control
  <2>6. ReaderInv' /\ FirstFault' /\ Catalog' /\ pos' = pos /\ file' = file
    BY <1>1, <1>2, <1>4, <2>1, ReaderStays DEF Catalog
  <2>7. Control'
    <3>1. Len(policies) \in Nat
      BY <1>2, CatalogFacts
    <3>2. 1 \in 1 .. Len(policies) + 1
      BY <3>1
    <3> QED BY <1>1, <1>2, <1>4, <2>2, <3>2 DEF Control
  <2>8. /\ Built(Len(file))'
        /\ \A k \in DOMAIN policies' : Read(k, Len(file))'
    BY <1>4, <2>4, <2>6, SameTables DEF Built, Read
  <2>9. Found(idx - 1)' = {}
    <3>1. 1 - 1 = 0
      OBVIOUS
    <3>2. idx' - 1 = 0
      BY <1>1, <2>2, <3>1, Zenon
    <3> QED BY <3>2 DEF Found
  <2>10. Cardinality(Found(idx - 1)') = 0 /\ IsFiniteSet(Found(idx - 1)')
    BY <2>9, FS_EmptySet
  <2>11. FaultyLines' = FaultyLines
    BY <2>3, <2>6, WholeFile, SameTables, SameFile DEF FaultyLines
  <2>12. \A k \in DOMAIN policies' : ~(k < idx')
    BY <1>1, <1>2, <1>4, <2>2, CatalogFacts
  <2>13. rc' = "none" /\ ~starved'
    BY <1>1, <1>2, <1>4, <2>2 DEF Control
  <2>14. ValidatedSoFar'
    BY <1>1, <2>3, <2>5, <2>6, <2>8, <2>10, <2>11, <2>12, <2>13 DEF ValidatedSoFar
  <2> QED BY <1>4, <2>6, <2>7, <2>13, <2>14
            DEF LoaderInv, ReadSoFar, Returned, FailureLeavesDefaults
<1> QED BY <1>1, <1>3, <1>4

-----------------------------------------------------------------------------
\* The faults up to a policy are those before it and its own.
LEMMA FoundStep ==
    ASSUME Catalog, NEW i \in DOMAIN policies, IsFiniteSet(Found(i - 1)),
           NEW F, F = Faults(FinalFields(policies[i].name)), IsFiniteSet(F)
    PROVE  /\ IsFiniteSet(Found(i)) /\ Cardinality(Found(i - 1)) \in Nat
           /\ Cardinality(F) \in Nat
           /\ Cardinality(Found(i)) = Cardinality(Found(i - 1)) + Cardinality(F)
<1> DEFINE n == policies[i].name
           own == {n} \X F
<1>1. DOMAIN policies = 1 .. Len(policies) /\ Len(policies) \in Nat
  BY CatalogFacts
<1>2. Found(i) = Found(i - 1) \cup own
  <2>1. 1 .. i = (1 .. i - 1) \cup {i}
    BY <1>1
  <2>2. Found(i) = UNION {{policies[k].name} \X Faults(FinalFields(policies[k].name)) :
                            k \in (1 .. i - 1) \cup {i}}
    BY <2>1 DEF Found
  <2> QED BY <2>2 DEF Found
<1>3. Found(i - 1) \cap own = {}
  <2> SUFFICES ASSUME NEW x \in Found(i - 1), x \in own PROVE FALSE
    OBVIOUS
  <2>1. PICK k \in 1 .. i - 1 : x \in {policies[k].name} \X Faults(FinalFields(policies[k].name))
    BY DEF Found
  <2>2. policies[k].name = n
    BY <2>1
  <2>3. k \in DOMAIN policies /\ k # i
    BY <1>1
  <2> QED BY <2>2, <2>3 DEF Catalog
<1>4. IsFiniteSet(own) /\ Cardinality(own) = Cardinality(F)
  <2>1. IsFiniteSet({n}) /\ Cardinality({n}) = 1
    BY FS_Singleton
  <2>2. IsFiniteSet(own) /\ Cardinality(own) = 1 * Cardinality(F)
    BY <2>1, FS_Product
  <2> QED BY <2>2, FS_CardinalityType
<1> HIDE DEF own
<1>5. /\ IsFiniteSet(Found(i - 1) \cup own)
      /\ Cardinality(Found(i - 1) \cup own) =
            Cardinality(Found(i - 1)) + Cardinality(own) - Cardinality(Found(i - 1) \cap own)
  BY <1>4, FS_Union
<1>6. Cardinality({}) = 0
  BY FS_EmptySet
<1>7. Cardinality(Found(i - 1)) \in Nat /\ Cardinality(F) \in Nat
  BY FS_CardinalityType
<1>8. /\ IsFiniteSet(Found(i))
      /\ Cardinality(Found(i)) = Cardinality(Found(i - 1)) + Cardinality(own) - 0
  BY <1>2, <1>3, <1>5, <1>6, Zenon
<1>9. Cardinality(Found(i)) = Cardinality(Found(i - 1)) + Cardinality(F) - 0
  BY <1>4, <1>8, Zenon
<1> QED BY <1>7, <1>8, <1>9

\* What every step of the validation starts from.
LEMMA BeforePolicy ==
    ASSUME LoaderInv, phase = "validate"
    PROVE  /\ ReaderInv /\ FirstFault /\ Catalog /\ Control
           /\ idx \in 1 .. Len(policies) + 1 /\ n_errors \in Nat
           /\ Len(policies) \in Nat /\ DOMAIN policies = 1 .. Len(policies)
           /\ file \in Seq(FileLines)
           /\ pos = Len(file) + 1 /\ Built(Len(file))
           /\ \A k \in DOMAIN policies :
                IF k < idx THEN Validated(k) ELSE Read(k, Len(file))
           /\ IsFiniteSet(Found(idx - 1)) /\ Cardinality(Found(idx - 1)) \in Nat
           /\ ~starved => n_errors = Cardinality(FaultyLines) + Cardinality(Found(idx - 1))
           /\ starved /\ ~oom => n_errors > 0
           /\ (oom => starved) /\ oom \in BOOLEAN /\ starved \in BOOLEAN /\ rc = "none"
<1>1. ReaderInv /\ Catalog /\ Control /\ ValidatedSoFar
  BY DEF LoaderInv
<1>2. file \in Seq(FileLines)
  BY <1>1 DEF ReaderInv
<1>3. Len(policies) \in Nat /\ DOMAIN policies = 1 .. Len(policies)
  BY <1>1, CatalogFacts
<1>4. /\ pos = Len(file) + 1 /\ FirstFault /\ Built(Len(file))
      /\ \A k \in DOMAIN policies :
            IF k < idx THEN Validated(k) ELSE Read(k, Len(file))
      /\ IsFiniteSet(Found(idx - 1))
      /\ ~starved => n_errors = Cardinality(FaultyLines) + Cardinality(Found(idx - 1))
      /\ starved /\ ~oom => n_errors > 0
  BY <1>1 DEF ValidatedSoFar
<1>5. Cardinality(Found(idx - 1)) \in Nat
  BY <1>4, FS_CardinalityType
<1> QED BY <1>1, <1>2, <1>3, <1>4, <1>5 DEF Control

\* A policy is validated, whether or not memory fails.
LEMMA ValidStep ==
    ASSUME LoaderInv, phase = "validate", idx <= Len(policies),
           policies' = [policies EXCEPT ![idx].fields = with_low(policies[idx].fields)],
           idx' = idx + 1, UNCHANGED <<inivars, phase, global, security, rc>>,
           n_errors' \in Nat, oom' \in BOOLEAN, starved' \in BOOLEAN, oom' => starved',
           ~starved' =>
                /\ ~starved
                /\ n_errors' = n_errors + Cardinality(field_errors(policies[idx].fields))
                        + (IF actions_valid(policies[idx].fields) THEN 0 ELSE 1),
           starved' /\ ~oom' => n_errors' > 0
    PROVE  LoaderInv'
<1> DEFINE p == policies[idx].fields
           n == policies[idx].name
           F == Faults(FinalFields(n))
<1>1. /\ ReaderInv /\ FirstFault /\ Catalog /\ Control
      /\ idx \in 1 .. Len(policies) + 1 /\ n_errors \in Nat
      /\ Len(policies) \in Nat /\ DOMAIN policies = 1 .. Len(policies)
      /\ file \in Seq(FileLines)
      /\ pos = Len(file) + 1 /\ Built(Len(file))
      /\ \A k \in DOMAIN policies :
            IF k < idx THEN Validated(k) ELSE Read(k, Len(file))
      /\ IsFiniteSet(Found(idx - 1)) /\ Cardinality(Found(idx - 1)) \in Nat
      /\ ~starved => n_errors = Cardinality(FaultyLines) + Cardinality(Found(idx - 1))
      /\ rc = "none"
  BY BeforePolicy
<1>2. idx \in DOMAIN policies
  BY <1>1
<1>3. p \in Tables /\ n \in Names /\ policies \in Seq(PolicyRecords)
  BY <1>1, <1>2, CatalogFacts DEF Catalog
<1>4. with_low(p) \in Tables /\ with_low(p) = FinalFields(n)
  <2>1. ~(idx < idx)
    BY <1>1
  <2>2. p = TableAfter(n, PolicyDefaults, Len(file))
    BY <1>1, <1>2, <2>1 DEF Read
  <2>3. FinalFields(n) = with_low(TableAfter(n, PolicyDefaults, Len(file)))
    BY <1>1, WholeFile
  <2> QED BY <1>3, <2>2, <2>3, WithLow
<1>5. /\ IsFiniteSet(F) /\ Cardinality(field_errors(p)) \in Nat
      /\ Cardinality(F) = Cardinality(field_errors(p)) + (IF actions_valid(p) THEN 0 ELSE 1)
  BY <1>3, <1>4, FaultCount
<1>6. /\ policies' \in Seq(PolicyRecords) /\ DOMAIN policies' = DOMAIN policies
      /\ Len(policies') = Len(policies)
      /\ \A k, l \in DOMAIN policies' : policies'[k].name = policies'[l].name => k = l
      /\ \A k \in DOMAIN policies' : /\ policies'[k].name = policies[k].name
                                     /\ k # idx => policies'[k] = policies[k]
      /\ policies'[idx].fields = with_low(p)
      /\ {policies'[k].name : k \in DOMAIN policies'} = {policies[k].name : k \in DOMAIN policies}
  <2> DEFINE w == with_low(p)
  <2>1. policies' = [policies EXCEPT ![idx].fields = w]
    OBVIOUS
  <2>2. \A k, l \in DOMAIN policies : policies[k].name = policies[l].name => k = l
    BY <1>1 DEF Catalog
  <2>3. w \in Tables
    BY <1>4
  <2> HIDE DEF w
  <2>4. /\ policies' \in Seq(PolicyRecords) /\ DOMAIN policies' = DOMAIN policies
        /\ Len(policies') = Len(policies)
        /\ \A k, l \in DOMAIN policies' : policies'[k].name = policies'[l].name => k = l
        /\ \A k \in DOMAIN policies' : /\ policies'[k].name = policies[k].name
                                       /\ k # idx => policies'[k] = policies[k]
        /\ policies'[idx].fields = w
        /\ {policies'[k].name : k \in DOMAIN policies'} = {policies[k].name : k \in DOMAIN policies}
    <3>1. policies \in Seq(PolicyRecords) /\ idx \in DOMAIN policies
      BY <1>2, <1>3
    <3> HIDE DEF p, n
    <3> QED BY <2>1, <2>2, <2>3, <3>1, FieldsSet, SMTT(30)
  <2> QED BY <2>4 DEF w
<1>7. file' = file /\ pos' = pos /\ ReaderInv' /\ FirstFault'
  BY <1>1, ReaderStays
<1>8. Catalog'
  BY <1>6 DEF Catalog
<1>9. Control'
  <2>1. idx' \in 1 .. Len(policies') + 1
    BY <1>1, <1>6
  <2> QED BY <1>1, <2>1 DEF Control
<1>10. Built(Len(file))'
  BY <1>1, <1>6, <1>7, SameTables DEF Built
<1>11. \A k \in DOMAIN policies' :
            (IF k < idx THEN Validated(k) ELSE Read(k, Len(file)))'
  <2> SUFFICES ASSUME NEW k \in DOMAIN policies'
               PROVE  IF k < idx' THEN Validated(k)' ELSE Read(k, Len(file))'
    OBVIOUS
  <2>1. k \in Nat /\ k \in DOMAIN policies /\ idx \in Nat
    BY <1>1, <1>6
  <2>2. CASE k = idx
    <3>3. policies'[k].name = n /\ policies'[k].fields = FinalFields(n)
      BY <1>4, <1>6, <2>2
    <3>4. FinalFields(policies[k].name)' = FinalFields(policies'[k].name)
      BY <1>7, SameTables
    <3>1. Validated(k)'
      BY <3>3, <3>4 DEF Validated
    <3> QED BY <2>1, <2>2, <3>1
  <2>3. CASE k # idx
    <3>1. policies'[k] = policies[k]
      BY <1>6, <2>3
    <3>2. (k < idx' <=> k < idx)
      BY <2>1, <2>3
    <3>4. /\ FinalFields(policies[k].name)' = FinalFields(policies'[k].name)
          /\ TableAfter(policies[k].name, PolicyDefaults, Len(file))'
                = TableAfter(policies'[k].name, PolicyDefaults, Len(file))
      BY <1>7, SameTables
    <3>3. /\ Validated(k)' <=> Validated(k)
          /\ Read(k, Len(file))' <=> Read(k, Len(file))
      BY <3>1, <3>4 DEF Validated, Read
    <3> QED BY <1>1, <2>1, <3>2, <3>3
  <2> QED BY <2>2, <2>3
<1>12. (Found(idx - 1))' = Found(idx)
  <2>1. idx' - 1 = idx
    BY <1>1
  <2>2. \A k \in 1 .. idx : policies'[k].name = policies[k].name
    BY <1>1, <1>6
  <2>3. \A name : FinalFields(name)' = FinalFields(name)
    BY <1>7, SameTables
  <2>4. \A k \in 1 .. idx : FinalFields(policies[k].name)' = FinalFields(policies[k].name)
    BY <2>2, <2>3
  <2> QED BY <2>1, <2>2, <2>4 DEF Found
<1>13. /\ IsFiniteSet(Found(idx)) /\ Cardinality(F) \in Nat
       /\ Cardinality(Found(idx)) = Cardinality(Found(idx - 1)) + Cardinality(F)
  BY <1>1, <1>2, <1>5, FoundStep
<1>14. FaultyLines' = FaultyLines /\ Cardinality(FaultyLines) \in Nat
  <2>1. FaultyLines' = FaultyLines
    BY <1>7, SameFile DEF FaultyLines
  <2>2. IsFiniteSet(DOMAIN file) /\ FaultyLines \in SUBSET DOMAIN file
    <3>1. DOMAIN file = 1 .. Len(file) /\ Len(file) \in Nat
      BY <1>1
    <3> QED BY <3>1, FS_Interval DEF FaultyLines
  <2> QED BY <2>1, <2>2, FS_Subset, FS_CardinalityType
<1> HIDE DEF F, p
<1>15. ~starved' => n_errors' = Cardinality(FaultyLines) + Cardinality(Found(idx))
  <2> SUFFICES ASSUME ~starved'
               PROVE  n_errors' = Cardinality(FaultyLines) + Cardinality(Found(idx))
    OBVIOUS
  <2>1. ~starved /\ n_errors' = n_errors + Cardinality(field_errors(p))
                                        + (IF actions_valid(p) THEN 0 ELSE 1)
    BY DEF p
  <2>2. n_errors = Cardinality(FaultyLines) + Cardinality(Found(idx - 1))
    BY <1>1, <2>1
  <2> DEFINE c == Cardinality(field_errors(p))
             e == IF actions_valid(p) THEN 0 ELSE 1
             a == Cardinality(FaultyLines)
             b == Cardinality(Found(idx - 1))
  <2>3. /\ a \in Nat /\ b \in Nat /\ c \in Nat /\ e \in Nat
        /\ n_errors' = n_errors + c + e /\ n_errors = a + b
        /\ Cardinality(F) = c + e /\ Cardinality(Found(idx)) = b + Cardinality(F)
    BY <1>1, <1>5, <1>13, <1>14, <2>1, <2>2
  <2> HIDE DEF a, b, c, e
  <2>4. n_errors' = a + Cardinality(Found(idx))
    BY <2>3
  <2> QED BY <2>4 DEF a
<1>16. ValidatedSoFar'
  BY <1>7, <1>10, <1>11, <1>12, <1>13, <1>14, <1>15, <1>1 DEF ValidatedSoFar
<1> QED BY <1>1, <1>7, <1>8, <1>9, <1>16
        DEF LoaderInv, ReadSoFar, Returned, FailureLeavesDefaults

\* One more policy has its final fields and its faults counted (validate_all).
LEMMA ValidatePolicyStep ==
    ASSUME LoaderInv, ValidatePolicy \/ ValidateNoMemory
    PROVE  LoaderInv'
<1> DEFINE p == policies[idx].fields
<1>1. /\ phase = "validate" /\ idx <= Len(policies)
      /\ policies' = [policies EXCEPT ![idx].fields = with_low(policies[idx].fields)]
      /\ idx' = idx + 1 /\ UNCHANGED <<inivars, phase, global, security, rc>>
  BY DEF ValidatePolicy, ValidateNoMemory
<1>2. /\ n_errors \in Nat /\ oom \in BOOLEAN /\ starved \in BOOLEAN /\ (oom => starved)
      /\ starved /\ ~oom => n_errors > 0
      /\ idx \in DOMAIN policies /\ Catalog
  BY <1>1, BeforePolicy
<1>3. Cardinality(field_errors(p)) \in Nat
  BY <1>2, CatalogFacts, FaultCount
<1>4. CASE ValidatePolicy
  <2>1. /\ n_errors' = n_errors + Cardinality(field_errors(p)) + (IF actions_valid(p) THEN 0 ELSE 1)
        /\ oom' = oom /\ starved' = starved
    BY <1>4 DEF ValidatePolicy
  <2>2. n_errors' \in Nat /\ n_errors' >= n_errors
    BY <1>2, <1>3, <2>1
  <2>3. starved' /\ ~oom' => n_errors' > 0
    BY <1>2, <2>1, <2>2
  <2> QED BY <1>1, <1>2, <2>1, <2>2, <2>3, ValidStep
<1>5. CASE ValidateNoMemory
  <2>1. /\ \/ oom' = TRUE /\ n_errors' \in n_errors .. n_errors + Cardinality(field_errors(p))
           \/ n_errors' = n_errors + Cardinality(field_errors(p)) + 1 /\ oom' = oom
        /\ starved' = TRUE
    BY <1>5 DEF ValidateNoMemory
  <2>2. n_errors' \in Nat /\ (oom' = TRUE \/ n_errors' > 0) /\ oom' \in BOOLEAN
    <3> DEFINE c == Cardinality(field_errors(p))
    <3> HIDE DEF c
    <3>1. c \in Nat
      BY <1>3 DEF c
    <3>2. CASE oom' = TRUE /\ n_errors' \in n_errors .. n_errors + c
      BY <1>2, <3>1, <3>2
    <3>3. CASE n_errors' = n_errors + c + 1 /\ oom' = oom
      BY <1>2, <3>1, <3>3
    <3> QED BY <2>1, <3>2, <3>3 DEF c
  <2> QED BY <1>1, <2>1, <2>2, ValidStep
<1> QED BY <1>4, <1>5

-----------------------------------------------------------------------------
\* All policies are validated: what is counted is what is wrong with the file.
LEMMA AllFound ==
    ASSUME Catalog, file \in Seq(FileLines), Built(Len(file))
    PROVE  /\ Found(Len(policies)) =
                UNION {{n} \X Faults(FinalFields(n)) : n \in Declared}
           /\ policies = <<>> <=> Declared = {}
           /\ check_duplicate_names = 0
<1>1. DOMAIN policies = 1 .. Len(policies) /\ Len(policies) \in Nat
  BY CatalogFacts
<1>2. Declared = {policies[k].name : k \in DOMAIN policies}
  BY WholeFile DEF Built
<1>3. Found(Len(policies)) = UNION {{n} \X Faults(FinalFields(n)) : n \in Declared}
  BY <1>1, <1>2 DEF Found
<1>4. policies = <<>> <=> Declared = {}
  <2>1. policies = <<>> <=> DOMAIN policies = {}
    BY <1>1 DEF Catalog
  <2> QED BY <1>2, <2>1
<1>5. check_duplicate_names = 0
  <2>1. {two \in (DOMAIN policies) \X (DOMAIN policies) :
            two[1] < two[2] /\ policies[two[1]].name = policies[two[2]].name} = {}
    <3> SUFFICES ASSUME NEW two \in (DOMAIN policies) \X (DOMAIN policies),
                        two[1] < two[2], policies[two[1]].name = policies[two[2]].name
                 PROVE  FALSE
      OBVIOUS
    <3>1. two[1] \in DOMAIN policies /\ two[2] \in DOMAIN policies
      OBVIOUS
    <3>2. two[1] = two[2]
      BY <3>1 DEF Catalog
    <3> QED BY <1>1, <3>1, <3>2
  <2> QED BY <2>1, FS_EmptySet DEF check_duplicate_names
<1> QED BY <1>3, <1>4, <1>5

\* The lines at fault can be counted.
LEMMA FaultyFinite ==
    ASSUME file \in Seq(FileLines)
    PROVE  Cardinality(FaultyLines) \in Nat
<1>1. DOMAIN file = 1 .. Len(file) /\ Len(file) \in Nat
  OBVIOUS
<1>2. FaultyLines \in SUBSET DOMAIN file /\ IsFiniteSet(DOMAIN file)
  BY <1>1, FS_Interval DEF FaultyLines
<1> QED BY <1>2, FS_Subset, FS_CardinalityType

\* The load succeeds only when nothing was counted (validate_all, finalize_success,
\* abort_with_errors).
LEMMA ReturnStep ==
    ASSUME LoaderInv, Return \/ ReturnNoMemory
    PROVE  LoaderInv'
<1> DEFINE all == UNION {{n} \X Faults(FinalFields(n)) : n \in Declared}
           none == IF policies = <<>> THEN 1 ELSE 0
<1>1. phase = "validate" /\ idx > Len(policies) /\ UNCHANGED inivars /\ idx' = idx
  BY DEF Return, ReturnNoMemory
<1>2. /\ ReaderInv /\ FirstFault /\ Catalog /\ Control
      /\ idx \in 1 .. Len(policies) + 1 /\ n_errors \in Nat
      /\ Len(policies) \in Nat /\ DOMAIN policies = 1 .. Len(policies)
      /\ file \in Seq(FileLines)
      /\ Built(Len(file))
      /\ \A k \in DOMAIN policies :
            IF k < idx THEN Validated(k) ELSE Read(k, Len(file))
      /\ IsFiniteSet(Found(idx - 1)) /\ Cardinality(Found(idx - 1)) \in Nat
      /\ ~starved => n_errors = Cardinality(FaultyLines) + Cardinality(Found(idx - 1))
      /\ starved /\ ~oom => n_errors > 0
      /\ (oom => starved) /\ oom \in BOOLEAN /\ starved \in BOOLEAN /\ rc = "none"
  BY <1>1, BeforePolicy
<1>3. idx - 1 = Len(policies) /\ \A k \in DOMAIN policies : k < idx
  BY <1>1, <1>2
<1>4. /\ Found(idx - 1) = all /\ (policies = <<>> <=> Declared = {})
      /\ check_duplicate_names = 0
  BY <1>2, <1>3, AllFound
<1>5. NumberOfFaults = Cardinality(FaultyLines) + Cardinality(all) + none
  BY <1>4 DEF NumberOfFaults
<1>6. errors_in_all = n_errors + none /\ none \in Nat
  BY <1>2, <1>4 DEF errors_in_all
<1>7. Cardinality(FaultyLines) \in Nat /\ Cardinality(all) \in Nat /\ IsFiniteSet(all)
  BY <1>2, <1>4, FaultyFinite
<1> HIDE DEF all, none
<1>8. ~starved => errors_in_all = NumberOfFaults
  BY <1>2, <1>4, <1>5, <1>6
<1>9. errors_in_all \in Nat
  BY <1>2, <1>6
<1>10. ASSUME NEW code \in {"parse", "mem"}, abort(code), n_errors' \in {n_errors, errors_in_all},
              oom' \in BOOLEAN, starved' \in BOOLEAN, oom' => starved',
              code = "mem" => starved',
              code = "parse" => n_errors' = errors_in_all /\ n_errors' > 0 /\ starved' = starved
       PROVE  LoaderInv'
  <2>1. n_errors' \in Nat
    BY <1>2, <1>9, <1>10
  <2>2. code = "parse" /\ ~starved' => n_errors' = NumberOfFaults /\ n_errors' > 0
    BY <1>8, <1>10
  <2> QED BY <1>1, <1>10, <2>1, <2>2, AbortInv
<1>11. CASE ReturnNoMemory
  <2>1. abort("mem") /\ oom' = TRUE /\ starved' = TRUE /\ n_errors' = n_errors
    BY <1>11 DEF ReturnNoMemory
  <2> QED BY <1>10, <2>1
<1>12. CASE Return
  <2>1. /\ n_errors' = errors_in_all /\ oom' = oom /\ starved' = starved
        /\ \/ oom /\ abort("mem")
           \/ ~oom /\ errors_in_all > 0 /\ abort("parse")
           \/ /\ ~oom /\ errors_in_all = 0
              /\ phase' = "done" /\ rc' = "ok"
              /\ UNCHANGED <<policies, global, security>>
    BY <1>12 DEF Return
  <2>2. CASE oom /\ abort("mem")
    BY <1>2, <1>10, <2>1, <2>2
  <2>3. CASE ~oom /\ errors_in_all > 0 /\ abort("parse")
    BY <1>2, <1>10, <2>1, <2>3
  <2>4. CASE /\ ~oom /\ errors_in_all = 0
             /\ phase' = "done" /\ rc' = "ok"
             /\ UNCHANGED <<policies, global, security>>
    <3>1. n_errors = 0 /\ none = 0 /\ ~starved
      <4>1. n_errors = 0 /\ none = 0
        BY <1>2, <1>6, <2>4
      <4> QED BY <1>2, <2>4, <4>1
    <3>2. NumberOfFaults = 0 /\ Cardinality(all) = 0
      <4>1. Cardinality(FaultyLines) + Cardinality(all) = 0
        BY <1>2, <1>4, <3>1
      <4> QED BY <1>5, <1>7, <3>1, <4>1
    <3>3. all = {}
      BY <1>7, <3>2, FS_EmptySet
    <3>4. policies # <<>>
      BY <3>1 DEF none
    <3>5. \A k \in DOMAIN policies : Validated(k)
      BY <1>2, <1>3
    <3>6. \A k \in DOMAIN policies : Faults(policies[k].fields) = {}
      <4> SUFFICES ASSUME NEW k \in DOMAIN policies, NEW f \in Faults(policies[k].fields)
                   PROVE  FALSE
        OBVIOUS
      <4>1. policies[k].fields = FinalFields(policies[k].name)
        BY <3>5 DEF Validated
      <4>2. policies[k].name \in Declared
        BY <1>2, WholeFile DEF Built
      <4>3. <<policies[k].name, f>> \in all
        BY <4>1, <4>2 DEF all
      <4> QED BY <3>3, <4>3
    <3>7. ReaderInv' /\ Catalog' /\ file' = file
      BY <1>1, <1>2, <2>4, ReaderStays DEF Catalog
    <3>8. Control'
      BY <1>2, <1>9, <2>1, <2>4 DEF Control
    <3>9. NumberOfFaults' = 0 /\ Built(Len(file))'
      BY <1>2, <2>4, <3>2, <3>7, SameTables DEF Built
    <3>10. \A k \in DOMAIN policies' : Validated(k)' /\ Faults(policies'[k].fields) = {}
      BY <2>4, <3>5, <3>6, <3>7, SameTables DEF Validated
    <3>11. Returned'
      BY <2>4, <3>4, <3>9, <3>10 DEF Returned, FailureLeavesDefaults
    <3> QED BY <2>4, <3>7, <3>8, <3>11 DEF LoaderInv, ReadSoFar, ValidatedSoFar
  <2> QED BY <2>1, <2>2, <2>3, <2>4
<1> QED BY <1>11, <1>12

-----------------------------------------------------------------------------
\* The rest of the start leaves the catalog alone.
LEMMA LoaderStays ==
    ASSUME LoaderInv, UNCHANGED catalogvars
    PROVE  LoaderInv'
<1>1. /\ UNCHANGED inivars /\ UNCHANGED parsed
      /\ UNCHANGED <<phase, n_errors, oom, starved, idx, rc>>
  BY DEF catalogvars
<1>2. file' = file /\ pos' = pos /\ policies' = policies /\ global' = global /\ security' = security
  BY <1>1 DEF inivars, parsed
<1>3. ReaderInv' /\ (FirstFault' <=> FirstFault)
  BY <1>1, ReaderStays DEF LoaderInv
<1>4. Control' /\ Catalog'
  BY <1>1, <1>2 DEF LoaderInv, Control, Catalog
<1>5. /\ (Built(pos - 1))' <=> Built(pos - 1)
      /\ Built(Len(file))' <=> Built(Len(file))
      /\ \A k : /\ (Read(k, pos - 1))' <=> Read(k, pos - 1)
                /\ Read(k, Len(file))' <=> Read(k, Len(file))
                /\ Validated(k)' <=> Validated(k)
  BY <1>1, <1>2, SameTables DEF Built, Read, Validated
<1>6. /\ (Cardinality(FaultyAfter(pos - 1)))' = Cardinality(FaultyAfter(pos - 1))
      /\ Cardinality(FaultyLines)' = Cardinality(FaultyLines)
      /\ NumberOfFaults' = NumberOfFaults
  <2>1. FaultyLines' = FaultyLines
    BY <1>2, SameFile DEF FaultyLines
  <2> QED BY <1>2, <2>1, SameTables
<1>7. (Found(idx - 1))' = Found(idx - 1)
  <2>1. \A name : FinalFields(name)' = FinalFields(name)
    BY <1>2, SameTables
  <2> QED BY <1>1, <1>2, <2>1 DEF Found
<1>8. ReadSoFar'
  BY <1>1, <1>2, <1>3, <1>5, <1>6 DEF LoaderInv, ReadSoFar
<1>9. ValidatedSoFar'
  BY <1>1, <1>2, <1>3, <1>5, <1>6, <1>7 DEF LoaderInv, ValidatedSoFar
<1>10. Returned'
  BY <1>1, <1>2, <1>5, <1>6 DEF LoaderInv, Returned, FailureLeavesDefaults
<1> QED BY <1>3, <1>4, <1>8, <1>9, <1>10 DEF LoaderInv

\* Every step of the loader, and every one that leaves it alone.
LEMMA LoaderStep ==
    ASSUME LoaderInv, [Next]_catalogvars
    PROVE  LoaderInv'
<1>1. CASE Next
  BY <1>1, OpenStep, QuietStep, GlobalStep, SecurityStep, PolicyStep, OtherStep,
     NoMemoryStep, EndOfFileStep, ValidatePolicyStep, ReturnStep DEF Next
<1>2. CASE UNCHANGED catalogvars
  BY <1>2, LoaderStays
<1> QED BY <1>1, <1>2

-----------------------------------------------------------------------------
(***************************************************************************)
(* What main may hold when it comes to a call: what the calls before it    *)
(* allocated, all of which some destructor gives back.                     *)
(***************************************************************************)
OfCollector == {"collector", "collector.proc_base"}
OfLoader == {"policies", "protected_names", "protected_paths"}

MayHold ==
    [sysconf   |-> {},
     collector |-> {},
     engine    |-> OfCollector,
     load      |-> OfCollector \cup {"engine"},
     registry  |-> OfCollector \cup {"engine"} \cup OfLoader,
     proc_base |-> OfCollector \cup {"engine", "registry"} \cup OfLoader,
     kill_ring |-> OfCollector \cup {"engine", "registry", "proc_base"} \cup OfLoader,
     caged     |-> OfCollector \cup {"engine", "registry", "proc_base", "kill_ring"}
                               \cup OfLoader,
     store     |-> OfCollector \cup {"engine", "registry", "proc_base", "kill_ring", "caged"}
                               \cup OfLoader,
     run       |-> OfCollector \cup {"engine", "registry", "proc_base", "kill_ring", "caged",
                                     "store", "prev"} \cup OfLoader,
     exited    |-> {}]

\* What it does hold, for the loop to be ready.
Holds ==
    /\ stage \in {"load", "registry", "proc_base", "kill_ring", "caged", "store", "run"} =>
        {"collector", "engine"} \subseteq held
    /\ stage = "engine" => "collector" \in held
    /\ stage \in {"registry", "proc_base", "kill_ring", "caged", "store", "run"} =>
        "policies" \in held /\ rc = "ok"
    /\ stage \in {"proc_base", "kill_ring", "caged", "store", "run"} => "registry" \in held
    /\ stage \in {"caged", "store", "run"} =>
        ("kill_ring" \in held <=> global.max_kills_per_minute > 0)
    /\ stage \in {"store", "run"} =>
        ("caged" \in held <=> global.max_caged_processes > 0)
    /\ stage = "run" => "store" \in held /\ global.sample_buffer > 0

StartupInv ==
    /\ LoaderInv
    /\ stage \in DOMAIN MayHold /\ held \subseteq MayHold[stage]
    /\ Holds
    /\ status = "success" => stage = "exited" /\ rc = "ok" /\ global.sample_buffer > 0

-----------------------------------------------------------------------------
\* What may be held at each call, for the provers.
LEMMA MayHoldIs ==
    /\ DOMAIN MayHold = {"sysconf", "collector", "engine", "load", "registry", "proc_base",
                         "kill_ring", "caged", "store", "run", "exited"}
    /\ MayHold["sysconf"] = {} /\ MayHold["collector"] = {} /\ MayHold["exited"] = {}
    /\ MayHold["engine"] = OfCollector
    /\ MayHold["load"] = OfCollector \cup {"engine"}
    /\ MayHold["registry"] = MayHold["load"] \cup OfLoader
    /\ MayHold["proc_base"] = MayHold["registry"] \cup {"registry"}
    /\ MayHold["kill_ring"] = MayHold["proc_base"] \cup {"proc_base"}
    /\ MayHold["caged"] = MayHold["kill_ring"] \cup {"kill_ring"}
    /\ MayHold["store"] = MayHold["caged"] \cup {"caged"}
    /\ MayHold["run"] = MayHold["store"] \cup {"store", "prev"}
BY DEF MayHold

\* A failure that gives back all it holds ends the program with nothing.
LEMMA FailsEmpty ==
    ASSUME StartupInv, UNCHANGED catalogvars, Exits("failed"), held' = {}
    PROVE  StartupInv'
<1>1. LoaderInv'
  BY LoaderStays DEF StartupInv
<1>2. stage' = "exited" /\ status' = "failed"
  BY DEF Exits
<1> QED BY <1>1, <1>2, MayHoldIs DEF StartupInv, Holds

\* pg_alert_engine_destroy and pg_collector_destroy give back all but the store.
LEMMA DestroyedIsEmpty ==
    ASSUME NEW h, h \subseteq MayHold["store"]
    PROVE  collector_destroy(engine_destroy(h)) = {}
<1>1. h \subseteq {"collector", "collector.proc_base", "engine", "policies",
                   "protected_names", "protected_paths", "registry", "proc_base",
                   "kill_ring", "caged"}
  BY MayHoldIs DEF OfCollector, OfLoader
<1> QED BY <1>1 DEF collector_destroy, engine_destroy, registry_destroy, catalog_destroy,
                    security_destroy

\* An allocation of alloc_runtime works, is not made, or undoes the engine.
LEMMA AllocStep ==
    ASSUME StartupInv, UNCHANGED catalogvars,
           NEW at \in {"proc_base", "kill_ring", "caged"}, NEW wanted \in BOOLEAN,
           NEW next, AllocRuntime(at, wanted, next),
           \/ at = "proc_base" /\ next = "kill_ring"
           \/ at = "kill_ring" /\ next = "caged" /\ wanted = (global.max_kills_per_minute > 0)
           \/ at = "caged" /\ next = "store" /\ wanted = (global.max_caged_processes > 0)
    PROVE  StartupInv'
<1>1. LoaderInv' /\ rc' = rc /\ global' = global
  BY LoaderStays DEF StartupInv, catalogvars, parsed
<1>2. stage = at /\ held \subseteq MayHold[at]
  BY DEF AllocRuntime, StartupInv
<1>3. CASE held' = held \cup {x \in {at} : wanted} /\ Goes(next)
  <2>1. stage' = next /\ status' = status /\ stage' \in DOMAIN MayHold
    BY <1>3, MayHoldIs DEF Goes
  <2>2. held' \subseteq MayHold[next]
    BY <1>2, <1>3, MayHoldIs
  <2>3. status' # "success"
    BY <1>2, <2>1 DEF StartupInv
  <2>4. at \notin held
    BY <1>2, MayHoldIs DEF OfCollector, OfLoader
  <2>5. (at \in held' <=> wanted) /\ \A x : x # at => (x \in held' <=> x \in held)
    BY <1>3, <2>4
  <2>6. Holds'
    <3>1. CASE at = "proc_base"
      BY <1>1, <1>2, <2>1, <2>5, <3>1 DEF StartupInv, Holds
    <3>2. CASE at = "kill_ring"
      BY <1>1, <1>2, <2>1, <2>5, <3>2 DEF StartupInv, Holds
    <3>3. CASE at = "caged"
      BY <1>1, <1>2, <2>1, <2>5, <3>3 DEF StartupInv, Holds
    <3> QED BY <3>1, <3>2, <3>3
  <2> QED BY <1>1, <2>1, <2>2, <2>3, <2>6 DEF StartupInv
<1>4. CASE EngineFails(engine_destroy(held))
  <2>1. held \subseteq MayHold["store"]
    BY <1>2, MayHoldIs
  <2>2. held' = {} /\ Exits("failed")
    BY <1>4, <2>1, DestroyedIsEmpty DEF EngineFails
  <2> QED BY <2>2, FailsEmpty
<1> QED BY <1>3, <1>4 DEF AllocRuntime

\* Every step of the start, the run and the exit keeps the invariant.
LEMMA StartupStep ==
    ASSUME StartupInv, [StartupNext]_startupvars
    PROVE  StartupInv'
<1>1. held \subseteq MayHold[stage] /\ stage \in DOMAIN MayHold /\ LoaderInv
  BY DEF StartupInv
<1>2. ASSUME UNCHANGED catalogvars
      PROVE  LoaderInv' /\ rc' = rc /\ global' = global
  BY <1>1, <1>2, LoaderStays DEF catalogvars, parsed
<1>3. stage # "exited" => status # "success"
  BY DEF StartupInv
<1>4. CASE SysParams
  <2>1. held = {} /\ held' = held /\ stage = "sysconf" /\ UNCHANGED catalogvars
    BY <1>1, <1>4, MayHoldIs DEF SysParams
  <2>2. CASE Goes("collector")
    BY <1>2, <1>3, <2>1, <2>2, MayHoldIs DEF StartupInv, Holds, Goes
  <2>3. CASE Exits("failed")
    BY <2>1, <2>3, FailsEmpty
  <2> QED BY <1>4, <2>2, <2>3 DEF SysParams
<1>5. CASE InitCollector
  <2>1. stage = "collector" /\ UNCHANGED catalogvars
    BY <1>5 DEF InitCollector
  <2>2. CASE held' = {"collector", "collector.proc_base"} /\ Goes("engine")
    BY <1>2, <1>3, <2>1, <2>2, MayHoldIs DEF StartupInv, Holds, Goes, OfCollector
  <2>3. CASE held' = {} /\ Exits("failed")
    BY <2>1, <2>3, FailsEmpty
  <2> QED BY <1>5, <2>2, <2>3 DEF InitCollector
<1>6. CASE AllocEngine
  <2>1. stage = "engine" /\ UNCHANGED catalogvars /\ held \subseteq OfCollector
        /\ "collector" \in held
    BY <1>1, <1>6, MayHoldIs DEF AllocEngine, StartupInv, Holds
  <2>2. CASE held' = held \cup {"engine"} /\ Goes("load")
    BY <1>2, <1>3, <2>1, <2>2, MayHoldIs DEF StartupInv, Holds, Goes
  <2>3. CASE EngineFails(held)
    <3>1. held' = {} /\ Exits("failed")
      BY <2>1, <2>3 DEF EngineFails, collector_destroy, OfCollector
    <3> QED BY <2>1, <3>1, FailsEmpty
  <2> QED BY <1>6, <2>2, <2>3 DEF AllocEngine
<1>7. CASE LoadCatalog
  <2>1. stage = "load" /\ UNCHANGED <<stage, held, status>> /\ Next
    BY <1>7 DEF LoadCatalog
  <2>2. LoaderInv'
    BY <1>1, <2>1, LoaderStep
  <2> QED BY <1>1, <1>3, <2>1, <2>2 DEF StartupInv, Holds
<1>8. CASE LoadFails
  <2>1. stage = "load" /\ UNCHANGED catalogvars /\ held \subseteq OfCollector \cup {"engine"}
    BY <1>1, <1>8, MayHoldIs DEF LoadFails
  <2>2. held' = {} /\ Exits("failed")
    BY <1>8, <2>1 DEF LoadFails, EngineFails, collector_destroy, OfCollector
  <2> QED BY <2>1, <2>2, FailsEmpty
<1>9. CASE LoadWorks
  <2>1. /\ stage = "load" /\ UNCHANGED catalogvars /\ rc = "ok" /\ Goes("registry")
        /\ held' = held \cup {"policies"}
                        \cup {key \in DOMAIN security : security[key] # <<>>}
    BY <1>9 DEF LoadWorks
  <2>2. held' \subseteq MayHold["registry"] /\ held \subseteq held' /\ "policies" \in held'
    <3>1. DOMAIN security = {"protected_names", "protected_paths"}
      BY <1>1, <2>1 DEF LoaderInv, Returned, Built, TableAfter, SecurityDefaults
    <3> QED BY <1>1, <2>1, <3>1, MayHoldIs DEF OfLoader
  <2>3. stage' = "registry" /\ status' = status /\ {"collector", "engine"} \subseteq held
    BY <2>1 DEF Goes, StartupInv, Holds
  <2> QED BY <1>2, <1>3, <2>1, <2>2, <2>3, MayHoldIs DEF StartupInv, Holds
<1>10. CASE InitRegistry
  <2>1. stage = "registry" /\ UNCHANGED catalogvars
        /\ held \subseteq OfCollector \cup {"engine"} \cup OfLoader
    BY <1>1, <1>10, MayHoldIs DEF InitRegistry
  <2>2. CASE held' = held \cup {"registry"} /\ Goes("proc_base")
    <3>1. held' \subseteq MayHold["proc_base"]
      BY <1>1, <2>1, <2>2, MayHoldIs
    <3>2. stage' = "proc_base" /\ status' = status
      BY <2>2 DEF Goes
    <3> QED BY <1>2, <1>3, <2>1, <2>2, <3>1, <3>2, MayHoldIs DEF StartupInv, Holds
  <2>3. CASE EngineFails(init_undo(held))
    <3>1. held' = {} /\ Exits("failed")
      BY <2>1, <2>3 DEF EngineFails, init_undo, collector_destroy, security_destroy,
                        catalog_destroy, OfCollector, OfLoader
    <3> QED BY <2>1, <3>1, FailsEmpty
  <2> QED BY <1>10, <2>2, <2>3 DEF InitRegistry
<1>11. CASE AllocBase
  <2>1. AllocRuntime("proc_base", TRUE, "kill_ring") /\ UNCHANGED catalogvars
    BY <1>11 DEF AllocBase, AllocRuntime
  <2> QED BY <2>1, AllocStep
<1>12. CASE AllocRing
  <2> DEFINE wanted == global.max_kills_per_minute > 0
  <2>1. AllocRuntime("kill_ring", wanted, "caged") /\ UNCHANGED catalogvars
    BY <1>12 DEF AllocRing, AllocRuntime
  <2>2. wanted \in BOOLEAN /\ wanted = (global.max_kills_per_minute > 0)
    OBVIOUS
  <2> HIDE DEF wanted
  <2> QED BY <2>1, <2>2, AllocStep
<1>13. CASE AllocCaged
  <2> DEFINE wanted == global.max_caged_processes > 0
  <2>1. AllocRuntime("caged", wanted, "store") /\ UNCHANGED catalogvars
    BY <1>13 DEF AllocCaged, AllocRuntime
  <2>2. wanted \in BOOLEAN /\ wanted = (global.max_caged_processes > 0)
    OBVIOUS
  <2> HIDE DEF wanted
  <2> QED BY <2>1, <2>2, AllocStep
<1>14. CASE InitStore
  <2>1. stage = "store" /\ UNCHANGED catalogvars /\ held \subseteq MayHold["store"]
    BY <1>1, <1>14 DEF InitStore
  <2>2. CASE global.sample_buffer > 0 /\ held' = held \cup {"store"} /\ Goes("run")
    <3>1. held' \subseteq MayHold["run"]
      BY <2>1, <2>2, MayHoldIs
    <3>2. stage' = "run" /\ status' = status
      BY <2>2 DEF Goes
    <3> QED BY <1>2, <1>3, <2>1, <2>2, <3>1, <3>2, MayHoldIs DEF StartupInv, Holds
  <2>3. CASE held' = collector_destroy(engine_destroy(held)) /\ Exits("failed")
    BY <2>1, <2>3, DestroyedIsEmpty, FailsEmpty
  <2> QED BY <1>14, <2>2, <2>3 DEF InitStore
<1>15. CASE RunCycle
  <2>1. stage = "run" /\ UNCHANGED catalogvars /\ held' = held \cup {"prev"}
        /\ stage' = "run" /\ status' = status
    BY <1>15 DEF RunCycle, Goes
  <2>2. held' \subseteq MayHold["run"]
    BY <1>1, <2>1, MayHoldIs
  <2> QED BY <1>2, <1>3, <2>1, <2>2, MayHoldIs DEF StartupInv, Holds
<1>16. CASE EndRun
  <2>1. stage = "run" /\ UNCHANGED catalogvars
        /\ held' = collector_destroy(engine_destroy(store_destroy(held \ {"prev"})))
        /\ stage' = "exited"
    BY <1>16 DEF EndRun, Exits
  <2>2. store_destroy(held \ {"prev"}) \subseteq MayHold["store"]
    BY <1>1, <2>1, MayHoldIs DEF store_destroy
  <2>3. held' = {}
    BY <2>1, <2>2, DestroyedIsEmpty
  <2>4. rc = "ok" /\ global.sample_buffer > 0
    BY <2>1 DEF StartupInv, Holds
  <2> QED BY <1>2, <2>1, <2>3, <2>4, MayHoldIs DEF StartupInv, Holds
<1>17. CASE Exited \/ UNCHANGED startupvars
  <2>1. UNCHANGED <<stage, held, status>> /\ UNCHANGED catalogvars
    BY <1>17 DEF Exited, startupvars
  <2> QED BY <1>2, <2>1 DEF StartupInv, Holds
<1> QED BY <1>4, <1>5, <1>6, <1>7, <1>8, <1>9, <1>10, <1>11, <1>12, <1>13, <1>14, <1>15,
           <1>16, <1>17 DEF StartupNext

\* main begins with nothing, and the loader with the defaults.
LEMMA StartupInitInv ==
    ASSUME StartupInit
    PROVE  StartupInv
<1>1. LoaderInv
  BY LoaderInitInv DEF StartupInit
<1> QED BY <1>1, MayHoldIs DEF StartupInit, StartupInv, Holds

-----------------------------------------------------------------------------
\* The start drives the loader by its own steps, and by no others.
LEMMA StartLoads ==
    ASSUME [StartupNext]_startupvars
    PROVE  [Next]_catalogvars
BY DEF StartupNext, startupvars, SysParams, InitCollector, AllocEngine, LoadCatalog,
       LoadFails, LoadWorks, InitRegistry, AllocBase, AllocRing, AllocCaged, AllocRuntime,
       InitStore, RunCycle, EndRun, Exited

\* Seen from the catalog, a start of the program is a load: main calls
\* pg_policy_catalog_load once and writes nothing of what it returns.
THEOREM StartupImplementsLoader == StartupSpec => Spec
<1>1. StartupInit => Init
  BY DEF StartupInit
<1>2. [StartupNext]_startupvars => [Next]_catalogvars
  BY StartLoads
<1> QED BY <1>1, <1>2, PTL DEF StartupSpec, Spec

\* At every line the loader has built and counted what the lines read so far
\* say, and what it returns is about the whole file (ini_cb, validate_all).
THEOREM LoaderInvariant == Spec => []LoaderInv
<1>1. Init => LoaderInv
  BY LoaderInitInv
<1>2. LoaderInv /\ [Next]_catalogvars => LoaderInv'
  BY LoaderStep
<1> QED BY <1>1, <1>2, PTL DEF Spec

-----------------------------------------------------------------------------
\* An action that is parsed is of one of the seven kinds.
LEMMA ActionParsed ==
    ASSUME NEW item \in Items, parse_single_action(item) # {}
    PROVE  TheOne(parse_single_action(item)).kind \in ActionKinds
<1>1. \A w : lookup_action_kind(w) \subseteq ActionKinds
  <2> DEFINE table == [warn |-> "WARN", renice |-> "RENICE", affinity |-> "AFFINITY",
                       cage |-> "CAGE", stop |-> "STOP", term |-> "TERM", kill |-> "KILL"]
  <2>1. \A v \in DOMAIN table : table[v] \in ActionKinds
    BY DEF ActionKinds
  <2>2. \A w : lookup_action_kind(w) = {table[v] : v \in {w} \cap DOMAIN table}
    BY DEF lookup_action_kind
  <2> HIDE DEF table
  <2> QED BY <2>1, <2>2
<1>2. \A a \in parse_single_action(item) : a.kind \in ActionKinds
  BY <1>1 DEF parse_single_action
<1> QED BY <1>2 DEF TheOne

\* A policy without a fault is one the engine can work with.
LEMMA FaultlessIsPolicy ==
    ASSUME NEW p \in Tables, Faults(p) = {}
    PROVE  Compiled(p) \in Policies
<1>1. /\ p.type \in {"performance", "security"} /\ p.threshold \in Int
      /\ p.threshold_low \in Int /\ p.persistence \in Nat /\ p.hysteresis_m \in Nat
      /\ p.cooldown_s \in Nat /\ p.actions \in Seq(Items)
  BY KeysAre DEF Tables
<1>2. "persistence" \notin Faults(p) /\ "actions" \notin Faults(p)
  OBVIOUS
<1>3. /\ ~(p.persistence < 1) /\ p.actions # <<>>
      /\ \A k \in DOMAIN p.actions : parse_single_action(p.actions[k]) # {}
  BY <1>2 DEF Faults
<1> DEFINE acts == [k \in DOMAIN p.actions |-> TheOne(parse_single_action(p.actions[k])).kind]
<1>4. acts \in Seq(ActionKinds) /\ acts # <<>>
  <2>1. DOMAIN p.actions = 1 .. Len(p.actions) /\ Len(p.actions) \in Nat
    BY <1>1
  <2>2. \A k \in DOMAIN p.actions : p.actions[k] \in Items
    BY <1>1, <2>1
  <2>3. acts \in [1 .. Len(p.actions) -> ActionKinds]
    BY <1>3, <2>1, <2>2, ActionParsed
  <2>4. acts \in Seq(ActionKinds)
    BY <2>1, <2>3
  <2>5. DOMAIN acts # {}
    BY <1>1, <1>3, <2>1
  <2> QED BY <2>4, <2>5
<1>5. p.cooldown_s * 1000 \in Nat /\ p.persistence \in Nat \ {0}
  BY <1>1, <1>3
<1> HIDE DEF acts
<1>6. Compiled(p) = [type |-> p.type, threshold |-> p.threshold,
                     threshold_low |-> p.threshold_low, persistence |-> p.persistence,
                     hysteresis_m |-> p.hysteresis_m, cooldown |-> p.cooldown_s * 1000,
                     actions |-> acts]
  BY DEF Compiled, acts
<1> QED BY <1>1, <1>4, <1>5, <1>6 DEF Policies

\* Whatever the file, the loader stays within its types, and a catalog it accepts
\* is made of policies the alert engine can work with (validate_policy_fields).
THEOREM CatalogIsTyped == StartupSpec => []CatalogTypeOK
<1>1. LoaderInv => CatalogTypeOK
  <2> SUFFICES ASSUME LoaderInv PROVE CatalogTypeOK
    OBVIOUS
  <2>1. ReaderInv /\ Control /\ Catalog /\ Returned
    BY DEF LoaderInv
  <2>2. Len(policies) \in Nat /\ 1 \in 1 .. Len(policies) + 1
    <3>1. Len(policies) \in Nat
      BY <2>1, CatalogFacts
    <3> QED BY <3>1
  <2>3. rc = "none" => idx \in 1 .. Len(policies) + 1
    BY <2>1, <2>2 DEF Control
  <2>4. rc = "ok" => /\ policies # <<>>
                     /\ \A k \in DOMAIN policies :
                          /\ Faults(policies[k].fields) = {}
                          /\ Compiled(policies[k].fields) \in Policies
    BY <2>1, CatalogFacts, FaultlessIsPolicy DEF Returned
  <2> QED BY <2>1, <2>3, <2>4 DEF ReaderInv, Control, CatalogTypeOK
<1> QED BY <1>1, StartupImplementsLoader, LoaderInvariant, PTL

\* A file is accepted only without a fault, and unless memory fails it is refused
\* with exactly as many errors as it has (ini_cb, validate_all).
THEOREM CatalogAcceptsExactly == StartupSpec => []AcceptsExactly
<1>1. LoaderInv => AcceptsExactly
  BY DEF LoaderInv, Returned, AcceptsExactly
<1> QED BY <1>1, StartupImplementsLoader, LoaderInvariant, PTL

\* An accepted catalog has every declared policy once, and every key has the last
\* value the file gives it (get_or_create_policy, handle_policy, ini_parse_stream).
THEOREM CatalogHasLastValues == StartupSpec => []LastValueWins
<1>1. LoaderInv => LastValueWins
  <2> SUFFICES ASSUME LoaderInv, rc = "ok" PROVE LastValueWins
    BY DEF LastValueWins
  <2>1. /\ ReaderInv /\ Catalog /\ Built(Len(file)) /\ policies # <<>>
        /\ \A k \in DOMAIN policies : Validated(k)
    BY DEF LoaderInv, Returned
  <2>2. file \in Seq(FileLines) /\ Len(policies) \in Nat /\ DOMAIN policies = 1 .. Len(policies)
    BY <2>1, CatalogFacts DEF ReaderInv
  <2>3. {policies[k].name : k \in DOMAIN policies} = Declared
    BY <2>1, <2>2, WholeFile DEF Built
  <2>4. Len(policies) = Cardinality(Declared)
    <3> DEFINE f == [k \in 1 .. Len(policies) |-> policies[k].name]
    <3>1. f \in [1 .. Len(policies) -> Declared]
      BY <2>2, <2>3
    <3>2. ASSUME NEW k \in 1 .. Len(policies), NEW l \in 1 .. Len(policies), f[k] = f[l]
          PROVE  k = l
      BY <2>1, <2>2, <3>2 DEF Catalog
    <3>3. \A n \in Declared : \E k \in 1 .. Len(policies) : f[k] = n
      BY <2>2, <2>3
    <3> HIDE DEF f
    <3>4. f \in Bijection(1 .. Len(policies), Declared)
      BY <3>1, <3>2, <3>3, Fun_IsBij
    <3>5. ExistsBijection(1 .. Len(policies), Declared)
      BY <3>4 DEF ExistsBijection
    <3> QED BY <2>2, <3>5, FS_CountingElements
  <2>5. \A k \in DOMAIN policies : policies[k].fields = FinalFields(policies[k].name)
    BY <2>1 DEF Validated
  <2>6. /\ global = TableAfter("global", GlobalDefaults, Len(file))
        /\ security = TableAfter("security", SecurityDefaults, Len(file))
    BY <2>1 DEF Built
  <2>7. \A sec, key, default : Value(sec, key, default) = ValueAfter(sec, key, default, Len(file))
    BY <2>2, WholeFile
  <2>8. \A key \in DOMAIN GlobalDefaults :
            global[key] = Value("global", key, GlobalDefaults[key])
    BY <2>6, <2>7 DEF TableAfter
  <2>9. \A key \in DOMAIN SecurityDefaults :
            security[key] = Value("security", key, SecurityDefaults[key])
    BY <2>6, <2>7 DEF TableAfter
  <2> QED BY <2>3, <2>4, <2>5, <2>8, <2>9 DEF LastValueWins
<1> QED BY <1>1, StartupImplementsLoader, LoaderInvariant, PTL

\* What ini_parse returns is the first line that could not be read whole
\* (ini_parse_stream).
THEOREM ReaderReportsFirst == StartupSpec => []IniErrorIsFirst
<1>1. LoaderInv => IniErrorIsFirst
  <2> SUFFICES ASSUME LoaderInv, phase = "validate" PROVE IniErrorIsFirst
    BY DEF IniErrorIsFirst
  <2>1. ReaderInv /\ FirstFault /\ pos = Len(file) + 1 /\ file \in Seq(FileLines)
    BY BeforePolicy
  <2>2. /\ DOMAIN file = 1 .. Len(file) /\ pos - 1 = Len(file) /\ Len(file) \in Nat
        /\ ini_error \in 0 .. Len(file)
    BY <2>1, ReaderFacts
  <2>3. CASE ini_error = 0
    BY <2>1, <2>2, <2>3 DEF FirstFault, IniErrorIsFirst
  <2>4. CASE ini_error # 0
    <3> DEFINE S == {k \in DOMAIN file : Bad(k)}
    <3>1. ini_error \in S /\ \A k \in 1 .. ini_error - 1 : ~Bad(k)
      BY <2>1, <2>2, <2>4 DEF FirstFault
    <3>2. \A k \in S : k \in Nat /\ ini_error =< k
      BY <2>2, <2>4, <3>1
    <3>3. ~\A k \in DOMAIN file : ~Bad(k)
      BY <3>1
    <3> HIDE DEF S
    <3>5. ini_error \in S /\ ini_error \in Nat
      BY <2>2, <3>1
    <3>6. \A x \in S : (\A y \in S : x =< y) => x = ini_error
      BY <3>2, <3>5
    <3>4. Min(S) = ini_error
      BY <3>2, <3>5, <3>6 DEF Min
    <3> QED BY <3>3, <3>4 DEF IniErrorIsFirst, S
  <2> QED BY <2>3, <2>4
<1> QED BY <1>1, StartupImplementsLoader, LoaderInvariant, PTL

-----------------------------------------------------------------------------
(***************************************************************************)
(* What main holds at each of its calls is no more than the calls before   *)
(* it allocated, and no less than the next ones touch (main, alloc_runtime,*)
(* pg_alert_engine_init).                                                  *)
(***************************************************************************)
THEOREM StartupInvariant == StartupSpec => []StartupInv
<1>1. StartupInit => StartupInv
  BY StartupInitInv
<1>2. StartupInv /\ [StartupNext]_startupvars => StartupInv'
  BY StartupStep
<1> QED BY <1>1, <1>2, PTL DEF StartupSpec

\* The program exits with nothing held, however far it came.
THEOREM ExitsWithNothing == StartupSpec => []NothingLeaks
<1>1. StartupInv => NothingLeaks
  BY MayHoldIs DEF StartupInv, NothingLeaks
<1> QED BY <1>1, StartupInvariant, PTL

\* The loop starts only when everything it touches is there.
THEOREM RunsWhenReady == StartupSpec => []RunningIsReady
<1>1. StartupInv => RunningIsReady
  BY DEF StartupInv, LoaderInv, Returned, Holds, RunningIsReady
<1> QED BY <1>1, StartupInvariant, PTL

\* A load that fails, at whatever line, leaves the defaults and nothing to free.
THEOREM FailuresLeaveDefaults == StartupSpec => []FailureLeavesDefaults
BY StartupInvariant, PTL DEF StartupInv, LoaderInv, Returned
=============================================================================
