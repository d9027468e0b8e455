------------------------- MODULE Governance_proofs -------------------------
(***************************************************************************)
(* What holds of the program in its surroundings, for every table of       *)
(* processes, every order of their starts, exits and execs against the     *)
(* reads and the calls, every catalog and every clock: everything proved   *)
(* of the engine, and what a call and a cage do to the processes.          *)
(***************************************************************************)
EXTENDS Governance, AlertEngine_proofs, SequenceTheorems, WellFoundedInduction

-----------------------------------------------------------------------------
\* A step of the program is a step of the engine or does not touch it.
LEMMA GovernanceStepIsEngineStep ==
    ASSUME [GovernanceNext]_govvars
    PROVE  [Next]_vars
<1>1. CASE ScanStep \/ WorldStep \/ GovernanceStopped \/ UNCHANGED govvars
  BY <1>1 DEF ScanStep, WorldStep, GovernanceStopped, govvars
<1>2. CASE Begin \/ End
  BY <1>2 DEF Begin, End, Next
<1>3. CASE Compute
  BY <1>3 DEF Compute, Next, Evaluate, Act, Apply, Gc
<1>4. CASE CheckFails \/ CheckPasses
  BY <1>4 DEF CheckFails, CheckPasses, Next, Act
<1>5. CASE ReniceOrStop \/ SendKill \/ MoveIn \/ CageBreaks
  BY <1>5 DEF ReniceOrStop, SendKill, MoveIn, CageBreaks, Next, Apply
<1>6. CASE MakeRoot \/ MakeGroup \/ WriteLimit
  BY <1>6 DEF MakeRoot, MakeGroup, WriteLimit, GoOn
<1>7. CASE Release \/ Collect
  BY <1>7 DEF Release, Collect, Next, Gc
<1> QED BY <1>1, <1>2, <1>3, <1>4, <1>5, <1>6, <1>7 DEF GovernanceNext, Program

(***************************************************************************)
(* The program against a kernel that goes on implements the engine with    *)
(* its environment left open: what is proved of the engine holds of it.    *)
(***************************************************************************)
THEOREM GovernanceImplementsEngine == GovernanceSpec => Spec
<1>1. GovernanceInit => Init
  BY DEF GovernanceInit
<1>2. [GovernanceNext]_govvars => [Next]_vars
  BY GovernanceStepIsEngineStep
<1> QED BY <1>1, <1>2, PTL DEF GovernanceSpec, Spec

-----------------------------------------------------------------------------
\* The table of processes: no two hold one pid, and a step of anyone leaves
\* every process with its pid and none comes back.

OneHolder ==
    /\ procs \in Seq(Processes)
    /\ \A m, n \in DOMAIN procs :
        /\ procs[m].pid = procs[n].pid
        /\ procs[m].state # "gone" /\ procs[n].state # "gone"
        => m = n

Kept(n) ==
    /\ n \in DOMAIN procs'
    /\ procs'[n].pid = procs[n].pid
    /\ procs[n].state = "gone" => procs'[n].state = "gone"
    /\ procs'[n].state = "alive" => procs[n].state = "alive"

KernelMoves ==
    /\ OneHolder'
    /\ \A n \in DOMAIN procs : Kept(n)
    /\ Len(procs) \in Nat /\ Len(procs') \in Nat /\ Len(procs) <= Len(procs')
    /\ \A n \in DOMAIN procs' \ DOMAIN procs : n > Len(procs)

\* Another state for a process, and another group.
LEMMA NewState ==
    ASSUME NEW p \in Processes, NEW s \in {"alive", "zombie", "gone"}
    PROVE  /\ [p EXCEPT !.state = s] \in Processes
           /\ [p EXCEPT !.state = s].pid = p.pid
           /\ [p EXCEPT !.state = s].marks = p.marks
           /\ [p EXCEPT !.state = s].group = p.group
           /\ [p EXCEPT !.state = s].state = s
BY DEF Processes

\* Likewise when only its group is replaced.
LEMMA NewGroup ==
    ASSUME NEW p \in Processes, NEW g \in PidSpace
    PROVE  /\ [p EXCEPT !.group = g] \in Processes
           /\ [p EXCEPT !.group = g].pid = p.pid
           /\ [p EXCEPT !.group = g].marks = p.marks
           /\ [p EXCEPT !.group = g].group = g
           /\ [p EXCEPT !.group = g].state = p.state
BY DEF Processes

\* And when it runs another program.
LEMMA NewImage ==
    ASSUME NEW p \in Processes, NEW m \in Images
    PROVE  /\ [p EXCEPT !.marks = m] \in Processes
           /\ [p EXCEPT !.marks = m].pid = p.pid
           /\ [p EXCEPT !.marks = m].group = p.group
           /\ [p EXCEPT !.marks = m].state = p.state
BY DEF Processes

\* A step that changes only processes already in the table.
LEMMA InPlace ==
    ASSUME OneHolder, procs' \in Seq(Processes), Len(procs') = Len(procs),
           \A n \in DOMAIN procs : Kept(n)
    PROVE  KernelMoves
<1>1. DOMAIN procs' = DOMAIN procs /\ Len(procs) \in Nat
  BY DEF OneHolder
<1>2. \A m, n \in DOMAIN procs' :
        /\ procs'[m].pid = procs'[n].pid
        /\ procs'[m].state # "gone" /\ procs'[n].state # "gone"
        => m = n
  BY <1>1 DEF OneHolder, Kept
<1> QED BY <1>1, <1>2 DEF KernelMoves, OneHolder

\* Nothing happens to the processes.
LEMMA StillMoves ==
    ASSUME OneHolder, procs' = procs
    PROVE  KernelMoves
BY InPlace DEF OneHolder, Kept

\* A process starts on a free pid.
LEMMA SpawnMoves ==
    ASSUME OneHolder, KernelAssumption, Spawn
    PROVE  KernelMoves
<1> PICK pid \in PidSpace, marks \in Images,
         g \in {NoGroup} \cup {procs[n].group : n \in {m \in DOMAIN procs : Alive(m)}} :
        /\ Holder(pid) = {}
        /\ procs' = Append(procs, [pid |-> pid, marks |-> marks,
                                   state |-> "alive", group |-> g])
  BY DEF Spawn
<1> DEFINE new == [pid |-> pid, marks |-> marks, state |-> "alive", group |-> g]
<1>1. \A n \in DOMAIN procs : procs[n] \in Processes
  BY DEF OneHolder
<1>2. g \in PidSpace \cup {NoGroup}
  BY <1>1 DEF Processes
<1>3. new \in Processes
  BY <1>2 DEF Processes
<1>4. /\ procs' \in Seq(Processes) /\ Len(procs') = Len(procs) + 1
      /\ Len(procs) \in Nat /\ DOMAIN procs = 1 .. Len(procs)
      /\ DOMAIN procs' = 1 .. Len(procs) + 1
      /\ \A n \in DOMAIN procs : procs'[n] = procs[n]
      /\ procs'[Len(procs) + 1] = new
  BY <1>3 DEF OneHolder
<1>5. \A n \in DOMAIN procs : Kept(n)
  BY <1>4 DEF Kept
<1>6. \A n \in DOMAIN procs : procs[n].pid = pid => procs[n].state = "gone"
  BY DEF Holder
<1>7. \A m, n \in DOMAIN procs' :
        /\ procs'[m].pid = procs'[n].pid
        /\ procs'[m].state # "gone" /\ procs'[n].state # "gone"
        => m = n
  BY <1>4, <1>6 DEF OneHolder
<1> QED BY <1>4, <1>5, <1>7 DEF KernelMoves, OneHolder

\* A process ends, or is waited for.
LEMMA ExitMoves ==
    ASSUME OneHolder, Exit
    PROVE  KernelMoves
<1> PICK n \in DOMAIN procs, s \in {"zombie", "gone"} :
        /\ procs[n].state # "gone"
        /\ procs' = [procs EXCEPT ![n].state = s]
  BY DEF Exit
<1>1. /\ procs[n] \in Processes
      /\ procs' = [procs EXCEPT ![n] = [procs[n] EXCEPT !.state = s]]
  BY DEF OneHolder
<1>2. /\ procs' \in Seq(Processes) /\ Len(procs') = Len(procs)
      /\ DOMAIN procs' = DOMAIN procs
  <2>1. [procs[n] EXCEPT !.state = s] \in Processes
    BY <1>1, NewState
  <2> QED BY <1>1, <2>1 DEF OneHolder
<1>3. \A m \in DOMAIN procs :
        procs'[m] = IF m = n THEN [procs[n] EXCEPT !.state = s] ELSE procs[m]
  BY <1>1 DEF OneHolder
<1>4. \A m \in DOMAIN procs : Kept(m)
  BY <1>1, <1>2, <1>3, NewState DEF Kept
<1> QED BY <1>2, <1>4, InPlace

\* A process runs another program.
LEMMA ExecMoves ==
    ASSUME OneHolder, Exec
    PROVE  /\ KernelMoves
           /\ DOMAIN procs' = DOMAIN procs
           /\ \A n \in DOMAIN procs : procs'[n].group = procs[n].group
<1> PICK n \in DOMAIN procs, marks \in Images :
        procs' = [procs EXCEPT ![n].marks = marks]
  BY DEF Exec
<1>1. /\ procs[n] \in Processes
      /\ procs' = [procs EXCEPT ![n] = [procs[n] EXCEPT !.marks = marks]]
  BY DEF OneHolder
<1>2. /\ procs' \in Seq(Processes) /\ Len(procs') = Len(procs)
      /\ DOMAIN procs' = DOMAIN procs
  <2>1. [procs[n] EXCEPT !.marks = marks] \in Processes
    BY <1>1, NewImage
  <2> QED BY <1>1, <2>1 DEF OneHolder
<1>3. \A m \in DOMAIN procs :
        procs'[m] = IF m = n THEN [procs[n] EXCEPT !.marks = marks] ELSE procs[m]
  BY <1>1 DEF OneHolder
<1>4. \A m \in DOMAIN procs : Kept(m) /\ procs'[m].group = procs[m].group
  BY <1>1, <1>2, <1>3, NewImage DEF Kept
<1> QED BY <1>2, <1>4, InPlace

\* SIGKILL leaves a zombie.
LEMMA SigkillMoves ==
    ASSUME OneHolder, NEW pid, sigkill(pid)
    PROVE  /\ KernelMoves
           /\ \A n \in DOMAIN procs :
                procs'[n].group = procs[n].group /\ procs'[n].marks = procs[n].marks
<1>1. DOMAIN procs = 1 .. Len(procs) /\ Len(procs) \in Nat
  BY DEF OneHolder
<1>2. \A n \in DOMAIN procs :
        procs'[n] = IF n \in Holder(pid) THEN [procs[n] EXCEPT !.state = "zombie"]
                    ELSE procs[n]
  BY DEF sigkill
<1>3. \A n \in DOMAIN procs : procs[n] \in Processes
  BY DEF OneHolder
<1>4. procs' \in Seq(Processes) /\ Len(procs') = Len(procs) /\ DOMAIN procs' = DOMAIN procs
  <2> DEFINE f(n) == IF n \in Holder(pid)
                     THEN [procs[n] EXCEPT !.state = "zombie"] ELSE procs[n]
  <2>1. \A n \in DOMAIN procs : f(n) \in Processes
    BY <1>3, NewState
  <2>2. procs' = [n \in DOMAIN procs |-> f(n)]
    BY DEF sigkill
  <2> HIDE DEF f
  <2>3. procs' \in [1 .. Len(procs) -> Processes]
    BY <1>1, <2>1, <2>2
  <2> QED BY <1>1, <2>3
<1>5. \A n \in DOMAIN procs :
        /\ Kept(n)
        /\ procs'[n].group = procs[n].group /\ procs'[n].marks = procs[n].marks
  <2> TAKE n \in DOMAIN procs
  <2>1. CASE n \in Holder(pid)
    <3>1. procs'[n] = [procs[n] EXCEPT !.state = "zombie"]
      BY <1>2, <2>1
    <3>2. procs[n].state # "gone"
      BY <2>1 DEF Holder
    <3> QED BY <1>3, <1>4, <3>1, <3>2, NewState DEF Kept
  <2>2. CASE n \notin Holder(pid)
    BY <1>2, <1>4, <2>2 DEF Kept
  <2> QED BY <2>1, <2>2
<1> QED BY <1>4, <1>5, InPlace

\* A move into a group is one of whoever lives on the pid.
LEMMA JoinMoves ==
    ASSUME OneHolder, NEW pid \in PidSpace, join(pid)
    PROVE  /\ KernelMoves
           /\ \A n \in DOMAIN procs :
                /\ procs'[n].state = procs[n].state
                /\ procs'[n].marks = procs[n].marks
                /\ procs'[n].group = IF procs[n].pid = pid /\ Alive(n)
                                     THEN pid ELSE procs[n].group
<1>1. DOMAIN procs = 1 .. Len(procs) /\ Len(procs) \in Nat
  BY DEF OneHolder
<1>2. \A n \in DOMAIN procs :
        procs'[n] = IF n \in Holder(pid) /\ Alive(n)
                    THEN [procs[n] EXCEPT !.group = pid] ELSE procs[n]
  BY DEF join
<1>3. \A n \in DOMAIN procs : procs[n] \in Processes
  BY DEF OneHolder
<1>4. procs' \in Seq(Processes) /\ Len(procs') = Len(procs) /\ DOMAIN procs' = DOMAIN procs
  <2> DEFINE f(n) == IF n \in Holder(pid) /\ Alive(n)
                     THEN [procs[n] EXCEPT !.group = pid] ELSE procs[n]
  <2>1. \A n \in DOMAIN procs : f(n) \in Processes
    BY <1>3, NewGroup
  <2>2. procs' = [n \in DOMAIN procs |-> f(n)]
    BY DEF join
  <2> HIDE DEF f
  <2>3. procs' \in [1 .. Len(procs) -> Processes]
    BY <1>1, <2>1, <2>2
  <2> QED BY <1>1, <2>3
<1>5. \A n \in DOMAIN procs :
        /\ Kept(n) /\ procs'[n].state = procs[n].state
        /\ procs'[n].marks = procs[n].marks
        /\ procs'[n].group = IF procs[n].pid = pid /\ Alive(n)
                             THEN pid ELSE procs[n].group
  <2> TAKE n \in DOMAIN procs
  <2>1. n \in Holder(pid) /\ Alive(n) <=> procs[n].pid = pid /\ Alive(n)
    BY DEF Holder, Alive
  <2>2. CASE n \in Holder(pid) /\ Alive(n)
    <3>1. procs'[n] = [procs[n] EXCEPT !.group = pid]
      BY <1>2, <2>2
    <3> QED BY <1>3, <1>4, <2>1, <2>2, <3>1, NewGroup DEF Kept
  <2>3. CASE ~(n \in Holder(pid) /\ Alive(n))
    <3>1. procs'[n] = procs[n]
      BY <1>2, <2>3
    <3> QED BY <1>4, <2>1, <2>3, <3>1 DEF Kept
  <2> QED BY <2>2, <2>3
<1> QED BY <1>4, <1>5, InPlace

\* Whatever the program or the world does, the table moves on as a kernel's.
LEMMA GovernanceMoves ==
    ASSUME OneHolder, KernelAssumption, [GovernanceNext]_govvars
    PROVE  KernelMoves
<1>1. CASE WorldStep
  BY <1>1, SpawnMoves, ExitMoves, ExecMoves DEF WorldStep, World
<1>2. CASE SendKill
  BY <1>2, SigkillMoves DEF SendKill
<1>3. CASE MoveIn
  <2>1. PICK n \in DOMAIN procs : procs[n].pid = dec.id.pid
    BY <1>3 DEF MoveIn, Holder
  <2>2. procs[n] \in Processes
    BY DEF OneHolder
  <2>3. dec.id.pid \in PidSpace
    BY <2>1, <2>2 DEF Processes
  <2> QED BY <1>3, <2>3, JoinMoves DEF MoveIn
<1>4. CASE ScanStep \/ Begin \/ End \/ Compute \/ CheckFails \/ CheckPasses
             \/ ReniceOrStop \/ CageBreaks
  <2>1. procs' = procs
    BY <1>4 DEF ScanStep, Begin, End, Compute, CheckFails, CheckPasses, ReniceOrStop,
                CageBreaks, kernel
  <2> QED BY <2>1, StillMoves
<1>5. CASE MakeRoot \/ MakeGroup \/ WriteLimit \/ Release \/ Collect
  <2>1. procs' = procs
    BY <1>5 DEF MakeRoot, MakeGroup, WriteLimit, GoOn, Release, Collect, kernel
  <2> QED BY <2>1, StillMoves
<1>6. CASE GovernanceStopped \/ UNCHANGED govvars
  BY <1>6, StillMoves DEF GovernanceStopped, govvars, kernel
<1> QED BY <1>1, <1>2, <1>3, <1>4, <1>5, <1>6 DEF GovernanceNext, Program

\* Only the world makes a guardian of a process, and it is noted.
LEMMA MarksMove ==
    ASSUME OneHolder, [GovernanceNext]_govvars
    PROVE  \A n \in DOMAIN procs :
            procs'[n].marks = Marks => procs[n].marks = Marks \/ n \in turned'
<1>1. CASE procs' = procs
  BY <1>1
<1>2. CASE WorldStep
  BY <1>2 DEF WorldStep
<1>3. CASE SendKill
  BY <1>3, SigkillMoves DEF SendKill
<1>4. CASE MoveIn
  <2>1. PICK n \in DOMAIN procs : procs[n].pid = dec.id.pid
    BY <1>4 DEF MoveIn, Holder
  <2>2. procs[n] \in Processes
    BY DEF OneHolder
  <2>3. dec.id.pid \in PidSpace
    BY <2>1, <2>2 DEF Processes
  <2> QED BY <1>4, <2>3, JoinMoves DEF MoveIn
<1>5. CASE ScanStep \/ Begin \/ End \/ Compute \/ CheckFails \/ CheckPasses
             \/ ReniceOrStop \/ CageBreaks
  BY <1>1, <1>5 DEF ScanStep, Begin, End, Compute, CheckFails, CheckPasses,
                    ReniceOrStop, CageBreaks, kernel
<1>6. CASE MakeRoot \/ MakeGroup \/ WriteLimit \/ Release \/ Collect
  BY <1>1, <1>6 DEF MakeRoot, MakeGroup, WriteLimit, GoOn, Release, Collect, kernel
<1>7. CASE GovernanceStopped \/ UNCHANGED govvars
  BY <1>1, <1>7 DEF GovernanceStopped, govvars, kernel
<1> QED BY <1>2, <1>3, <1>4, <1>5, <1>6, <1>7 DEF GovernanceNext, Program

\* Only the read of a stat forgets that its process became one.
LEMMA TurnedMoves ==
    ASSUME [GovernanceNext]_govvars
    PROVE  turned \subseteq turned' \/ ScanStep
<1>1. CASE WorldStep \/ GovernanceStopped \/ UNCHANGED govvars
  BY <1>1 DEF WorldStep, GovernanceStopped, govvars
<1>2. CASE Begin \/ End \/ Compute \/ CheckFails \/ Release \/ Collect
  BY <1>2 DEF Begin, End, Compute, CheckFails, Release, Collect, NoCall
<1>3. CASE MakeRoot \/ MakeGroup \/ WriteLimit
  BY <1>3 DEF MakeRoot, MakeGroup, WriteLimit, GoOn
<1>4. CASE CheckPasses \/ ReniceOrStop \/ SendKill \/ MoveIn \/ CageBreaks
  BY <1>4 DEF CheckPasses, ReniceOrStop, SendKill, MoveIn, CageBreaks
<1> QED BY <1>1, <1>2, <1>3, <1>4 DEF GovernanceNext, Program

\* No pid is ever held by two processes.
THEOREM TableInvariant == GovernanceSpec => []OneHolder
<1> USE KernelAssumption
<1>1. GovernanceInit => OneHolder
  BY DEF GovernanceInit, KernelInit, OneHolder, KernelAssumption
<1>2. OneHolder /\ [GovernanceNext]_govvars => OneHolder'
  BY GovernanceMoves DEF KernelMoves
<1> QED BY <1>1, <1>2, PTL DEF GovernanceSpec

-----------------------------------------------------------------------------
\* The scan. A sample is sound when its stat named a process that has had its
\* pid ever since, and its other fields are of that process while it is there.

Files == {"statm", "io", "exe"}

Sound(ps, s) ==
    /\ s.stat \in DOMAIN ps /\ ps[s.stat].pid = s.pid
    /\ \A file \in Files : s[file] \in {0, s.stat} \/ ps[s.stat].state = "gone"

ScanSound ==
    /\ sample \in RawSamples /\ arr \in Seq(RawSamples) /\ todo \in Seq(Files)
    /\ todo # <<>> => Sound(procs, sample)
    /\ \A k \in DOMAIN arr : Sound(procs, arr[k])

\* A sound sample stays so while processes start and end.
LEMMA SoundStays ==
    ASSUME KernelMoves, NEW s, Sound(procs, s)
    PROVE  Sound(procs', s)
BY DEF KernelMoves, Kept, Sound

\* A read that whoever has the pid answers, or nobody.
LEMMA AnswerIsSound ==
    ASSUME OneHolder, sample \in RawSamples, Sound(procs, sample),
           NEW file \in Files, NEW n \in answers(file)
    PROVE  /\ answered(file, n) \in RawSamples
           /\ answered(file, n).pid = sample.pid
           /\ answered(file, n).stat = sample.stat
           /\ answered(file, n)[file] = n
           /\ \A f \in Files : f # file => answered(file, n)[f] = sample[f]
           /\ answered(file, n).marks = sample.marks \cup path_mark(file, n)
           /\ Sound(procs, answered(file, n))
<1> DEFINE s == answered(file, n)
<1>1. n \in Nat
  <2>1. sample[file] \in Nat
    BY DEF RawSamples, Files
  <2>2. \A m \in DOMAIN procs : m \in Nat
    BY DEF OneHolder
  <2> QED BY <2>1, <2>2 DEF answers, Holder
<1>2. /\ s \in RawSamples /\ s.stat = sample.stat /\ s.pid = sample.pid
      /\ s[file] = n /\ \A f \in Files : f # file => s[f] = sample[f]
      /\ s.marks = sample.marks \cup path_mark(file, n)
  <2> DEFINE marks == sample.marks \cup path_mark(file, n)
             r == [sample EXCEPT ![file] = n]
  <2>1. DOMAIN sample = {"pid", "stat", "statm", "io", "exe", "marks"}
    BY DEF RawSamples
  <2>2. marks \in SUBSET Marks
    BY DEF RawSamples, path_mark, Marks
  <2>3. /\ r \in RawSamples /\ r.pid = sample.pid /\ r.stat = sample.stat
        /\ r[file] = n /\ r.marks = sample.marks
        /\ \A f \in Files : f # file => r[f] = sample[f]
    BY <1>1, <2>1 DEF RawSamples, Files
  <2>4. s = [r EXCEPT !.marks = marks]
    BY <2>3 DEF answered
  <2> HIDE DEF r, marks, s
  <2>5. /\ s \in RawSamples /\ s.pid = r.pid /\ s.stat = r.stat /\ s.marks = marks
        /\ \A f \in Files : s[f] = r[f]
    BY <2>2, <2>3, <2>4 DEF RawSamples, Files
  <2> QED BY <2>3, <2>5 DEF marks
<1> HIDE DEF s
<1>3. n = sample[file] \/ n \in Holder(sample.pid)
  BY DEF answers
<1>4. n \in {0, sample.stat} \/ procs[sample.stat].state = "gone"
  <2>1. CASE n = sample[file]
    BY <2>1 DEF Sound
  <2>2. CASE n \in Holder(sample.pid)
    BY <2>2 DEF Sound, OneHolder, Holder
  <2> QED BY <1>3, <2>1, <2>2
<1>5. Sound(procs, s)
  BY <1>2, <1>4 DEF Sound
<1> QED BY <1>2, <1>5 DEF s

\* Every step of the scan leaves sound samples.
LEMMA ScanStepSound ==
    ASSUME OneHolder, KernelAssumption, ScanSound, ScanStep
    PROVE  ScanSound'
<1>1. procs' = procs
  BY DEF ScanStep, kernel
<1>2. CASE OpenDir \/ CloseDir
  BY <1>1, <1>2 DEF OpenDir, CloseDir, ScanSound
<1>3. CASE GrowFails
  BY <1>1, <1>3 DEF GrowFails, ScanSound
<1>4. CASE ReadStat
  <2>1. CASE UNCHANGED <<sample, todo>>
    BY <1>1, <1>4, <2>1 DEF ReadStat, ScanSound
  <2>2. CASE ~UNCHANGED <<sample, todo>>
    <3>1. PICK n \in Holder(NextListed) :
            sample' = started(n) /\ todo' = <<"statm", "io", "exe">>
      BY <1>4, <2>2 DEF ReadStat
    <3>2. n \in DOMAIN procs /\ procs[n] \in Processes /\ procs[n].pid = NextListed
      BY DEF Holder, OneHolder
    <3>3. n \in Nat /\ NextListed \in PidSpace
      BY <3>2 DEF OneHolder, Processes
    <3>4. sample' = [pid |-> NextListed, stat |-> n, statm |-> 0, io |-> 0, exe |-> 0,
                     marks |-> procs[n].marks \cap {"name"}]
      BY <3>1 DEF started, blank, NoSample
    <3>5. sample' \in RawSamples
      BY <3>3, <3>4 DEF RawSamples, Marks
    <3>6. Sound(procs, sample')
      BY <3>2, <3>4 DEF Sound, Files
    <3>7. todo' \in Seq(Files)
      BY <3>1 DEF Files
    <3> QED BY <1>1, <1>4, <3>5, <3>6, <3>7 DEF ReadStat, ScanSound
  <2> QED BY <2>1, <2>2
<1>5. CASE ReadBestEffort
  <2>1. todo # <<>> /\ todo' = Tail(todo)
    BY <1>5 DEF ReadBestEffort
  <2>2. Head(todo) \in Files /\ Tail(todo) \in Seq(Files) /\ Len(todo) \in Nat \ {0}
    BY <2>1 DEF ScanSound
  <2>3. PICK n \in answers(Head(todo)) :
            IF Len(todo) = 1
            THEN /\ arr' = Append(arr, answered(Head(todo), n))
                 /\ sample' = NoSample
            ELSE /\ sample' = answered(Head(todo), n)
                 /\ arr' = arr
    BY <1>5 DEF ReadBestEffort
  <2> DEFINE s == answered(Head(todo), n)
  <2>4. s \in RawSamples /\ Sound(procs, s)
    BY <2>1, <2>2, AnswerIsSound DEF ScanSound
  <2> HIDE DEF s
  <2>5. CASE Len(todo) = 1
    <3>1. arr' = Append(arr, s) /\ sample' = NoSample
      BY <2>3, <2>5 DEF s
    <3>2. Tail(todo) = <<>>
      <4>1. Len(Tail(todo)) = 0
        BY <2>1, <2>5 DEF ScanSound
      <4> QED BY <2>2, <4>1, EmptySeq
    <3>3. NoSample \in RawSamples
      BY DEF NoSample, RawSamples
    <3>4. arr' \in Seq(RawSamples) /\ \A k \in DOMAIN arr' : Sound(procs, arr'[k])
      BY <2>4, <3>1 DEF ScanSound
    <3> QED BY <1>1, <2>1, <2>2, <3>1, <3>2, <3>3, <3>4 DEF ScanSound
  <2>6. CASE Len(todo) # 1
    <3>1. sample' = s /\ arr' = arr
      BY <2>3, <2>6 DEF s
    <3> QED BY <1>1, <2>1, <2>2, <2>4, <3>1 DEF ScanSound
  <2> QED BY <2>5, <2>6
<1> QED BY <1>2, <1>3, <1>4, <1>5 DEF ScanStep, Scan

\* Every sample, in the array or under way, is sound.
THEOREM ScanInvariant == GovernanceSpec => []ScanSound
<1> USE KernelAssumption
<1>1. GovernanceInit => ScanSound
  BY DEF GovernanceInit, CollectorInit, ScanSound, NoSample, RawSamples
<1>2. OneHolder /\ ScanSound /\ [GovernanceNext]_govvars => ScanSound'
  <2> SUFFICES ASSUME OneHolder, ScanSound, [GovernanceNext]_govvars
               PROVE  ScanSound'
    OBVIOUS
  <2>1. CASE ScanStep
    BY <2>1, ScanStepSound
  <2>2. CASE UNCHANGED collector
    <3>1. sample' = sample /\ todo' = todo /\ arr' = arr
      BY <2>2 DEF collector
    <3> QED BY <3>1, GovernanceMoves, SoundStays DEF ScanSound
  <2>3. CASE Begin
    <3>1. sample' = sample /\ todo' = todo /\ arr' = <<>>
      BY <2>3 DEF Begin, TakeScan
    <3> QED BY <3>1, GovernanceMoves, SoundStays DEF ScanSound
  <2>4. CASE Program /\ ~ScanStep /\ ~Begin
    <3>1. UNCHANGED collector
      BY <2>4 DEF Program, End, Compute, CheckFails, CheckPasses, ReniceOrStop,
                  SendKill, MakeRoot, MakeGroup, WriteLimit, GoOn, MoveIn,
                  CageBreaks, Release, Collect
    <3> QED BY <2>2, <3>1
  <2>5. CASE WorldStep \/ GovernanceStopped \/ UNCHANGED govvars
    BY <2>2, <2>5 DEF WorldStep, GovernanceStopped, govvars
  <2> QED BY <2>1, <2>3, <2>4, <2>5 DEF GovernanceNext
<1> QED BY <1>1, <1>2, TableInvariant, PTL DEF GovernanceSpec

(***************************************************************************)
(* A sample has nothing of another process while its own is there, however *)
(* the pid changes hands between the reads (populate_sample).              *)
(***************************************************************************)
THEOREM SamplesAreOfOneProcess == GovernanceSpec => []SampleIsOneProcess
<1>1. ScanSound => SampleIsOneProcess
  BY DEF ScanSound, Sound, SampleIsOneProcess, Files
<1> QED BY <1>1, ScanInvariant, PTL

-----------------------------------------------------------------------------
(***************************************************************************)
(* The order of the scan. readdir gives the pids of /proc in their order,  *)
(* so the samples made so far are of pids up to the last it gave, and one  *)
(* that is under way is of that pid, which no other sample has.            *)
(***************************************************************************)
ScanInOrder ==
    /\ dir \in {"closed", "reading", "done", "failed"}
    /\ at \in PidSpace \cup {0}
    /\ dir # "reading" => todo = <<>>
    /\ dir = "closed" => arr = <<>>
    /\ todo # <<>> => sample.pid = at /\ sample.stat # 0
    /\ \A k \in DOMAIN arr :
        /\ arr[k].pid <= at /\ (todo # <<>> => arr[k].pid # at)
        /\ arr[k].stat # 0
    /\ \A k, l \in DOMAIN arr : arr[k].pid = arr[l].pid => k = l

\* A set of numbers that is not empty has a smallest one.
LEMMA HasSmallest ==
    ASSUME NEW S, S \subseteq Nat, S # {}
    PROVE  \E x \in S : \A y \in S : x <= y
<1> DEFINE R == OpToRel(<, Nat)
<1>1. IsWellFoundedOn(R, Nat)
  BY NatLessThanWellFounded
<1>2. R = {ss \in Nat \X Nat : ss[1] < ss[2]}
  BY DEF OpToRel
<1> HIDE DEF R
<1>3. PICK x \in S : \A y \in S : ~(<<y, x>> \in R)
  BY <1>1, WFMin
<1>4. ASSUME NEW y \in S PROVE x <= y
  <2>1. ~(<<y, x>> \in {ss \in Nat \X Nat : ss[1] < ss[2]})
    BY <1>2, <1>3
  <2>2. x \in Nat /\ y \in Nat
    OBVIOUS
  <2>3. ~(y < x)
    BY <2>1, <2>2
  <2> QED BY <2>2, <2>3
<1> QED BY <1>4

\* The next entry is one that is still to be given (readdir).
LEMMA NextIsListed ==
    ASSUME KernelAssumption, Listed # {}
    PROVE  NextListed \in Listed
<1>1. Listed \subseteq Nat
  BY DEF Listed, KernelAssumption
<1>2. \E pid \in Listed : \A other \in Listed : pid <= other
  BY <1>1, HasSmallest
<1> QED BY <1>2 DEF NextListed

\* The numbers of a scan are natural ones, for the provers.
LEMMA ScanFacts ==
    ASSUME KernelAssumption, ScanSound, ScanInOrder
    PROVE  /\ at \in Nat /\ Len(arr) \in Nat /\ DOMAIN arr = 1 .. Len(arr)
           /\ \A k \in DOMAIN arr : arr[k] \in RawSamples /\ arr[k].pid \in Nat
<1>1. PidSpace \cup {0} \subseteq Nat
  BY DEF KernelAssumption
<1>2. at \in Nat
  BY <1>1 DEF ScanInOrder
<1>3. arr \in Seq(RawSamples)
  BY DEF ScanSound
<1>4. Len(arr) \in Nat /\ DOMAIN arr = 1 .. Len(arr)
  BY <1>3
<1>5. \A k \in DOMAIN arr : arr[k] \in RawSamples
  BY <1>3, <1>4
<1> QED BY <1>1, <1>2, <1>4, <1>5 DEF RawSamples

\* Every step of the scan keeps its order.
LEMMA OrderStep ==
    ASSUME OneHolder, KernelAssumption, ScanSound, ScanInOrder, ScanStep
    PROVE  ScanInOrder'
<1>1. /\ at \in Nat /\ Len(arr) \in Nat /\ DOMAIN arr = 1 .. Len(arr)
      /\ \A k \in DOMAIN arr : arr[k] \in RawSamples /\ arr[k].pid \in Nat
  BY ScanFacts
<1>2. CASE OpenDir
  <2>1. arr = <<>> /\ todo = <<>> /\ at' = 0 /\ dir' \in {"reading", "failed"}
        /\ arr' = arr /\ todo' = todo
    BY <1>2 DEF OpenDir, ScanInOrder
  <2> QED BY <2>1 DEF ScanInOrder
<1>3. CASE ReadStat
  <2>1. /\ dir = "reading" /\ todo = <<>> /\ Listed # {} /\ at' = NextListed
        /\ dir' = dir /\ arr' = arr
    BY <1>3 DEF ReadStat, Walking
  <2>2. NextListed \in PidSpace /\ NextListed \in Nat /\ NextListed > at
    BY <2>1, NextIsListed DEF Listed, KernelAssumption
  <2>3. \A k \in DOMAIN arr : arr[k].pid <= at' /\ arr[k].pid # at'
    BY <1>1, <2>1, <2>2 DEF ScanInOrder
  <2>4. todo' # <<>> => sample'.pid = at' /\ sample'.stat # 0
    <3>1. CASE UNCHANGED <<sample, todo>>
      BY <2>1, <3>1
    <3>2. CASE \E n \in Holder(NextListed) : sample' = started(n)
      <4>1. PICK n \in Holder(NextListed) : sample' = started(n)
        BY <3>2
      <4>2. n # 0
        BY DEF Holder, OneHolder
      <4>3. sample'.pid = NextListed /\ sample'.stat = n
        BY <4>1 DEF started, blank, NoSample
      <4> QED BY <2>1, <4>2, <4>3
    <3> QED BY <1>3, <3>1, <3>2 DEF ReadStat
  <2> QED BY <2>1, <2>2, <2>3, <2>4 DEF ScanInOrder
<1>4. CASE GrowFails
  BY <1>4 DEF GrowFails, Walking, ScanInOrder
<1>5. CASE CloseDir
  BY <1>5 DEF CloseDir, Walking, ScanInOrder
<1>6. CASE ReadBestEffort
  <2>1. /\ dir = "reading" /\ todo # <<>> /\ todo' = Tail(todo) /\ dir' = dir /\ at' = at
        /\ sample.pid = at /\ sample.stat # 0
    BY <1>6 DEF ReadBestEffort, ScanInOrder
  <2>2. PICK n \in answers(Head(todo)) :
            IF Len(todo) = 1
            THEN /\ arr' = Append(arr, answered(Head(todo), n))
                 /\ sample' = NoSample
            ELSE /\ sample' = answered(Head(todo), n)
                 /\ arr' = arr
    BY <1>6 DEF ReadBestEffort
  <2>3. Head(todo) \in Files /\ Len(todo) \in Nat \ {0} /\ todo \in Seq(Files)
    BY <2>1 DEF ScanSound
  <2> DEFINE s == answered(Head(todo), n)
  <2>4. s.pid = at /\ s.stat # 0
    BY <2>1, <2>3, AnswerIsSound DEF ScanSound
  <2> HIDE DEF s
  <2>5. CASE Len(todo) = 1
    <3>1. arr' = Append(arr, s)
      BY <2>2, <2>5 DEF s
    <3>2. todo' = <<>>
      <4>1. Tail(todo) \in Seq(Files) /\ Len(Tail(todo)) = 0
        BY <2>1, <2>3, <2>5
      <4> QED BY <2>1, <4>1, EmptySeq
    <3>3. /\ DOMAIN arr' = 1 .. Len(arr) + 1 /\ arr'[Len(arr) + 1] = s
          /\ \A k \in DOMAIN arr : arr'[k] = arr[k]
      <4>1. arr \in Seq(RawSamples)
        BY DEF ScanSound
      <4> QED BY <1>1, <3>1, <4>1
    <3>4. \A k \in DOMAIN arr' : k = Len(arr) + 1 \/ k \in DOMAIN arr
      BY <1>1, <3>3
    <3>5. \A k \in DOMAIN arr : arr[k].pid <= at /\ arr[k].pid # at /\ arr[k].stat # 0
      BY <2>1 DEF ScanInOrder
    <3>6. \A k \in DOMAIN arr' : arr'[k].pid <= at /\ arr'[k].stat # 0
      BY <1>1, <2>4, <3>3, <3>4, <3>5
    <3>7. \A k, l \in DOMAIN arr' : arr'[k].pid = arr'[l].pid => k = l
      BY <2>4, <3>3, <3>4, <3>5 DEF ScanInOrder
    <3> QED BY <2>1, <3>2, <3>6, <3>7 DEF ScanInOrder
  <2>6. CASE Len(todo) # 1
    <3>1. sample' = s /\ arr' = arr
      BY <2>2, <2>6 DEF s
    <3> QED BY <2>1, <2>4, <3>1 DEF ScanInOrder
  <2> QED BY <2>5, <2>6
<1> QED BY <1>2, <1>3, <1>4, <1>5, <1>6 DEF ScanStep, Scan

\* A scan goes through the pids in their order, whatever starts and ends.
THEOREM ScanOrderInvariant == GovernanceSpec => []ScanInOrder
<1> USE KernelAssumption
<1>1. GovernanceInit => ScanInOrder
  BY DEF GovernanceInit, CollectorInit, ScanInOrder
<1>2. OneHolder /\ ScanSound /\ ScanInOrder /\ [GovernanceNext]_govvars => ScanInOrder'
  <2> SUFFICES ASSUME OneHolder, ScanSound, ScanInOrder, [GovernanceNext]_govvars
               PROVE  ScanInOrder'
    OBVIOUS
  <2>1. CASE ScanStep
    BY <2>1, OrderStep
  <2>2. CASE UNCHANGED collector
    BY <2>2 DEF collector, ScanInOrder
  <2>3. CASE Begin
    BY <2>3 DEF Begin, TakeScan, ScanInOrder
  <2>4. CASE Program /\ ~ScanStep /\ ~Begin
    <3>1. UNCHANGED collector
      BY <2>4 DEF Program, End, Compute, CheckFails, CheckPasses, ReniceOrStop,
                  SendKill, MakeRoot, MakeGroup, WriteLimit, GoOn, MoveIn,
                  CageBreaks, Release, Collect
    <3> QED BY <2>2, <3>1
  <2>5. CASE WorldStep \/ GovernanceStopped \/ UNCHANGED govvars
    BY <2>2, <2>5 DEF WorldStep, GovernanceStopped, govvars
  <2> QED BY <2>1, <2>3, <2>4, <2>5 DEF GovernanceNext
<1> QED BY <1>1, <1>2, TableInvariant, ScanInvariant, PTL DEF GovernanceSpec

\* A scan has each pid once, each with a start time, which is what the store and
\* the engine take for granted of it (pg_collector_scan).
THEOREM ScanIsTyped == GovernanceSpec => []CollectorTypeOK
<1>1. ScanSound /\ ScanInOrder => CollectorTypeOK
  BY DEF ScanSound, ScanInOrder, Files, CollectorTypeOK
<1> QED BY <1>1, ScanInvariant, ScanOrderInvariant, PTL

-----------------------------------------------------------------------------
\* What a sample tells of a guardian: its name from the stat, and its path, unless
\* its exe could not be read. The exception is one that became a guardian since.

Plain(ps, n) == ps[n].marks # Marks \/ ps[n].state = "gone"

Spared(ps, ts, n) == Plain(ps, n) \/ n \in ts

Told(ps, ts, s) ==
    Spared(ps, ts, s.stat) \/ ("name" \in s.marks /\ (s.exe # 0 => "path" \in s.marks))

ScanTells ==
    /\ todo = <<>> => sample.stat = 0
    /\ todo # <<>> => Told(procs, turned, sample)
    /\ \A k \in DOMAIN arr : Told(procs, turned, arr[k])

\* Who is no guardian stays so, or is noted.
LEMMA SparedStays ==
    ASSUME OneHolder, KernelAssumption, [GovernanceNext]_govvars, ~ScanStep,
           NEW n \in DOMAIN procs, Spared(procs, turned, n)
    PROVE  Spared(procs', turned', n)
<1>1. KernelMoves /\ turned \subseteq turned'
  BY GovernanceMoves, TurnedMoves
<1>2. procs'[n].marks = Marks => procs[n].marks = Marks \/ n \in turned'
  BY MarksMove
<1>3. procs[n].state = "gone" => procs'[n].state = "gone"
  BY <1>1 DEF KernelMoves, Kept
<1> QED BY <1>1, <1>2, <1>3 DEF Spared, Plain

\* The samples made so far are not of the process whose stat is read next.
LEMMA NextIsAnother ==
    ASSUME OneHolder, KernelAssumption, ScanSound, ScanInOrder, Listed # {},
           NEW n \in Holder(NextListed), NEW k \in DOMAIN arr
    PROVE  arr[k].stat # n
<1>1. NextListed \in Nat /\ NextListed > at
  BY NextIsListed DEF Listed, KernelAssumption
<1>2. at \in Nat /\ arr[k].pid \in Nat /\ arr[k].pid <= at
  BY ScanFacts DEF ScanInOrder
<1>3. procs[arr[k].stat].pid = arr[k].pid /\ procs[n].pid = NextListed
  BY DEF ScanSound, Sound, Holder
<1> QED BY <1>1, <1>2, <1>3

\* An answer to a read tells what there is to tell.
LEMMA AnswerTells ==
    ASSUME OneHolder, ScanSound, todo # <<>>, Told(procs, turned, sample),
           NEW file \in Files, NEW n \in answers(file)
    PROVE  Told(procs, turned, answered(file, n))
<1> DEFINE s == answered(file, n)
<1>1. sample \in RawSamples /\ Sound(procs, sample)
  BY DEF ScanSound
<1>2. /\ s.stat = sample.stat /\ s[file] = n
      /\ file # "exe" => s.exe = sample.exe
      /\ s.marks = sample.marks \cup path_mark(file, n)
  BY <1>1, AnswerIsSound DEF Files
<1> HIDE DEF s
<1>3. CASE Spared(procs, turned, sample.stat)
  BY <1>2, <1>3 DEF Told, s
<1>4. CASE ~Spared(procs, turned, sample.stat)
  <2>1. /\ "name" \in sample.marks /\ (sample.exe # 0 => "path" \in sample.marks)
        /\ procs[sample.stat].marks = Marks /\ procs[sample.stat].state # "gone"
    BY <1>4 DEF Told, Spared, Plain
  <2>2. ASSUME file = "exe", n # 0 PROVE "path" \in s.marks
    <3>1. CASE n = sample.exe
      BY <1>2, <2>1, <2>2, <3>1
    <3>2. CASE n \in Holder(sample.pid)
      <4>1. n = sample.stat
        BY <1>1, <2>1, <3>2 DEF Sound, Holder, OneHolder
      <4> QED BY <1>2, <2>1, <2>2, <4>1 DEF path_mark, Marks
    <3> QED BY <2>2, <3>1, <3>2 DEF answers
  <2> QED BY <1>2, <2>1, <2>2 DEF Told, s
<1> QED BY <1>3, <1>4

\* No step of the scan takes a guardian for something else.
LEMMA TellingStep ==
    ASSUME OneHolder, KernelAssumption, ScanSound, ScanInOrder, ScanTells, ScanStep
    PROVE  ScanTells'
<1>1. /\ procs' = procs
      /\ turned' = IF todo = <<>> THEN turned \ {sample'.stat} ELSE turned
  BY DEF ScanStep, kernel
<1>2. \A k \in DOMAIN arr : Told(procs, turned, arr[k]) /\ arr[k].stat # 0
  BY DEF ScanTells, ScanInOrder
<1>3. ASSUME todo = <<>>, todo' = todo, sample' = sample, arr' \in {arr, <<>>}
      PROVE  ScanTells'
  <2>1. sample'.stat = 0 /\ turned' = turned \ {0}
    BY <1>1, <1>3 DEF ScanTells
  <2>2. \A k \in DOMAIN arr : Told(procs', turned', arr[k])
    BY <1>1, <1>2, <1>3, <2>1 DEF Told, Spared, Plain
  <2>3. \A k \in DOMAIN arr' : Told(procs', turned', arr'[k])
    <3>1. CASE arr' = arr
      BY <2>2, <3>1
    <3>2. CASE arr' = <<>>
      BY <3>2
    <3> QED BY <1>3, <3>1, <3>2
  <2> QED BY <1>3, <2>1, <2>3 DEF ScanTells
<1>4. CASE OpenDir
  BY <1>3, <1>4 DEF OpenDir, ScanInOrder
<1>5. CASE GrowFails \/ CloseDir
  BY <1>3, <1>5 DEF GrowFails, CloseDir, Walking
<1>6. CASE ReadStat
  <2>1. todo = <<>> /\ Listed # {} /\ arr' = arr
    BY <1>6 DEF ReadStat, Walking
  <2>2. CASE UNCHANGED <<sample, todo>>
    BY <1>3, <2>1, <2>2
  <2>3. CASE ~UNCHANGED <<sample, todo>>
    <3>1. PICK n \in Holder(NextListed) :
            sample' = started(n) /\ todo' = <<"statm", "io", "exe">>
      BY <1>6, <2>3 DEF ReadStat
    <3>2. /\ sample'.stat = n /\ sample'.exe = 0
          /\ sample'.marks = procs[n].marks \cap {"name"}
      BY <3>1 DEF started, blank, NoSample
    <3>3. turned' = turned \ {n}
      BY <1>1, <2>1, <3>2
    <3>4. \A k \in DOMAIN arr : arr[k].stat # n
      BY <2>1, NextIsAnother
    <3>5. \A k \in DOMAIN arr' : Told(procs', turned', arr'[k])
      BY <1>1, <1>2, <2>1, <3>3, <3>4 DEF Told, Spared, Plain
    <3>6. Told(procs', turned', sample')
      BY <1>1, <3>2 DEF Told, Spared, Plain, Marks
    <3> QED BY <3>1, <3>5, <3>6 DEF ScanTells
  <2> QED BY <2>2, <2>3
<1>7. CASE ReadBestEffort
  <2>1. todo # <<>> /\ todo' = Tail(todo) /\ Told(procs, turned, sample)
    BY <1>7 DEF ReadBestEffort, ScanTells
  <2>2. Head(todo) \in Files /\ Len(todo) \in Nat \ {0} /\ todo \in Seq(Files)
    BY <2>1 DEF ScanSound
  <2>3. PICK n \in answers(Head(todo)) :
            IF Len(todo) = 1
            THEN /\ arr' = Append(arr, answered(Head(todo), n))
                 /\ sample' = NoSample
            ELSE /\ sample' = answered(Head(todo), n)
                 /\ arr' = arr
    BY <1>7 DEF ReadBestEffort
  <2> DEFINE s == answered(Head(todo), n)
  <2>4. Told(procs, turned, s)
    BY <2>1, <2>2, AnswerTells
  <2> HIDE DEF s
  <2>5. procs' = procs /\ turned' = turned
    BY <1>1, <2>1
  <2>6. CASE Len(todo) = 1
    <3>1. arr' = Append(arr, s) /\ sample' = NoSample
      BY <2>3, <2>6 DEF s
    <3>2. Len(Tail(todo)) = 0 /\ Tail(todo) \in Seq(Files)
      BY <2>2, <2>6
    <3>3. todo' = <<>>
      BY <2>1, <3>2, EmptySeq
    <3>4. \A k \in DOMAIN arr' : arr'[k] = s \/ (k \in DOMAIN arr /\ arr'[k] = arr[k])
      BY <3>1 DEF ScanSound
    <3>5. \A k \in DOMAIN arr' : Told(procs', turned', arr'[k])
      BY <1>2, <2>4, <2>5, <3>4
    <3> QED BY <3>1, <3>3, <3>5 DEF ScanTells, NoSample
  <2>7. CASE Len(todo) # 1
    <3>1. sample' = s /\ arr' = arr
      BY <2>3, <2>7 DEF s
    <3>2. Len(Tail(todo)) # 0 /\ Tail(todo) \in Seq(Files)
      BY <2>2, <2>7
    <3>3. todo' # <<>>
      BY <2>1, <3>2, EmptySeq
    <3> QED BY <1>2, <2>4, <2>5, <3>1, <3>3 DEF ScanTells
  <2> QED BY <2>6, <2>7
<1> QED BY <1>4, <1>5, <1>6, <1>7 DEF ScanStep, Scan

\* Every sample tells whether its process is a guardian, however the reads of it were
\* interleaved with exits, starts and execs (populate_sample, read_proc_exe).
THEOREM TellingInvariant == GovernanceSpec => []ScanTells
<1> USE KernelAssumption
<1>1. GovernanceInit => ScanTells
  BY DEF GovernanceInit, CollectorInit, ScanTells, NoSample
<1>2. /\ OneHolder /\ ScanSound /\ ScanInOrder /\ ScanTells
      /\ [GovernanceNext]_govvars
      => ScanTells'
  <2> SUFFICES ASSUME OneHolder, ScanSound, ScanInOrder, ScanTells,
                      [GovernanceNext]_govvars
               PROVE  ScanTells'
    OBVIOUS
  <2>1. CASE ScanStep
    BY <2>1, TellingStep
  <2>2. ASSUME ~ScanStep, todo' = todo, sample' = sample, arr' \in {arr, <<>>}
        PROVE  ScanTells'
    <3>1. \A n \in DOMAIN procs : Spared(procs, turned, n) => Spared(procs', turned', n)
      BY <2>2, SparedStays
    <3>2. todo # <<>> => sample.stat \in DOMAIN procs /\ Told(procs, turned, sample)
      BY DEF ScanSound, Sound, ScanTells
    <3>3. \A k \in DOMAIN arr : arr[k].stat \in DOMAIN procs /\ Told(procs, turned, arr[k])
      BY DEF ScanSound, Sound, ScanTells
    <3>4. todo' # <<>> => Told(procs', turned', sample')
      BY <2>2, <3>1, <3>2 DEF Told
    <3>5. \A k \in DOMAIN arr' : Told(procs', turned', arr'[k])
      BY <2>2, <3>1, <3>3 DEF Told
    <3> QED BY <2>2, <3>4, <3>5 DEF ScanTells
  <2>3. CASE ~ScanStep /\ UNCHANGED collector
    BY <2>2, <2>3 DEF collector
  <2>4. CASE ~ScanStep /\ Begin
    BY <2>2, <2>4 DEF Begin, TakeScan
  <2>5. CASE Program /\ ~ScanStep /\ ~Begin
    <3>1. UNCHANGED collector
      BY <2>5 DEF Program, End, Compute, CheckFails, CheckPasses, ReniceOrStop,
                  SendKill, MakeRoot, MakeGroup, WriteLimit, GoOn, MoveIn,
                  CageBreaks, Release, Collect
    <3> QED BY <2>3, <2>5, <3>1
  <2>6. CASE ~ScanStep /\ (WorldStep \/ GovernanceStopped \/ UNCHANGED govvars)
    BY <2>3, <2>6 DEF WorldStep, GovernanceStopped, govvars
  <2> QED BY <2>1, <2>4, <2>5, <2>6 DEF GovernanceNext
<1> QED BY <1>1, <1>2, TableInvariant, ScanInvariant, ScanOrderInvariant, PTL
        DEF GovernanceSpec

-----------------------------------------------------------------------------
\* What the engine holds names processes: each sample, decision and caged id is
\* of the process with that number and pid, and an unprotected sample is of one
\* that is no guardian, is gone, or became a guardian since its stat was read.

Real(ps, id) == id.starttime \in DOMAIN ps /\ ps[id.starttime].pid = id.pid

Faithful ==
    /\ phase = "idle" => samples = <<>>
    /\ \A k \in DOMAIN samples :
        /\ Real(procs, samples[k].id)
        /\ samples[k].protected \/ Spared(procs, turned, samples[k].id.starttime)
    /\ \A k \in DOMAIN decs : Real(procs, decs[k].id)
    /\ \A k \in DOMAIN caged : Real(procs, caged[k])

\* An id that names a process goes on naming it.
LEMMA RealStays ==
    ASSUME KernelMoves, NEW id, Real(procs, id)
    PROVE  Real(procs', id)
BY DEF KernelMoves, Kept, Real

\* The scan of a cycle is dropped at its end.
LEMMA SamplesStep ==
    ASSUME [Next]_vars
    PROVE  \/ samples' = <<>> \/ BeginCycle
           \/ samples' = samples /\ (phase' = "idle" => phase = "idle")
<1>1. CASE Evaluate \/ Gc
  BY <1>1 DEF Evaluate, EvalFrozen, EvalScored, Evaluating, Gc, StateGc, CageGcKeep,
              CageGcRelease, CageGcIter, EndCycle
<1>2. CASE Act
  BY <1>2 DEF Act, ActSkipped, ActDryRun, ActLogOnly, CageRefused, GuardFails,
              GuardPasses, Skip, Advance
<1>3. CASE Apply
  BY <1>3 DEF Apply, Renice, Stop, KillHeldBack, Kill, CageApplied, CageFailed,
              Skip, Advance
<1>4. CASE Finish \/ Validate \/ CycleNoMemory \/ Stopped \/ UNCHANGED vars
  BY <1>4 DEF Finish, Validate, CycleNoMemory, Stopped, vars, engine
<1> QED BY <1>1, <1>2, <1>3, <1>4 DEF Next

\* A decision is on a process of the scan, and keeps its id.
LEMMA DecsStep ==
    ASSUME Core, EngineAssumption, [Next]_vars, NEW k \in DOMAIN decs'
    PROVE  \/ \E l \in DOMAIN decs : decs'[k].id = decs[l].id
           \/ \E l \in DOMAIN samples : decs'[k].id = samples[l].id
<1>1. decs \in Seq(Decisions) /\ EngineTypeOK
  BY DEF Core, EngineTypeOK
<1>2. CASE decs' = decs
  BY <1>2
<1>3. CASE decs' = <<>>
  BY <1>3
<1>4. CASE EvalScored
  <2>1. PICK m \in Readings :
            decs' \in {decs, Append(decs, decision(CurPair,
                            apply_zone(states[CurPair], Catalog[pi], m, now)))}
    BY <1>4 DEF EvalScored
  <2> DEFINE d == decision(CurPair, apply_zone(states[CurPair], Catalog[pi], m, now))
  <2>2. d.id = samples[i].id /\ i \in DOMAIN samples
    BY <1>1, <1>4, CurPairFacts DEF decision, EvalScored
  <2> HIDE DEF d
  <2>3. CASE decs' = Append(decs, d)
    <3>1. (k \in DOMAIN decs /\ decs'[k] = decs[k]) \/ decs'[k] = d
      BY <1>1, <2>3
    <3> QED BY <2>2, <3>1
  <2> QED BY <1>2, <2>1, <2>3 DEF d
<1>5. CASE Validate
  <2>1. DOMAIN decs' = DOMAIN decs /\ decs'[k] = [decs[k] EXCEPT !.skip = skip_reason(decs[k])]
    BY <1>5 DEF Validate
  <2>2. decs[k] \in Decisions
    BY <1>1, <2>1
  <2>3. decs'[k].id = decs[k].id
    BY <2>1, <2>2 DEF Decisions
  <2> QED BY <2>1, <2>3
<1>6. CASE Gc \/ BeginCycle
  BY <1>2, <1>3, <1>6 DEF Gc, StateGc, CageGcKeep, CageGcRelease, EndCycle, BeginCycle
<1>7. CASE Act
  BY <1>2, <1>7 DEF Act, ActSkipped, ActDryRun, ActLogOnly, CageRefused, GuardFails,
              GuardPasses, Skip, Advance
<1>8. CASE Apply
  BY <1>2, <1>8 DEF Apply, Renice, Stop, KillHeldBack, Kill, CageApplied, CageFailed,
              Skip, Advance
<1>9. CASE EvalFrozen \/ Finish \/ CycleNoMemory \/ Stopped \/ UNCHANGED vars
  BY <1>2, <1>9 DEF EvalFrozen, Finish, CycleNoMemory, Stopped, vars, engine
<1> QED BY <1>4, <1>5, <1>6, <1>7, <1>8, <1>9 DEF Next, Evaluate

\* Only the id of the decision under way is added to the register.
LEMMA CagedStep ==
    ASSUME Core, EngineAssumption, [Next]_vars, NEW k \in DOMAIN caged'
    PROVE  \/ \E l \in DOMAIN caged : caged'[k] = caged[l]
           \/ (CageApplied /\ caged'[k] = dec.id /\ i \in DOMAIN decs)
<1>1. caged \in Seq(Ids)
  BY DEF Core, EngineTypeOK
<1>2. CASE caged' = caged
  BY <1>2
<1>3. CASE CageApplied
  <2>1. i \in DOMAIN decs /\ caged' \in {caged, Append(caged, dec.id)}
    BY <1>3 DEF CageApplied, registered, Core, Ready
  <2> QED BY <1>1, <1>2, <1>3, <2>1
<1>4. CASE CageGcRelease
  <2>1. i \in DOMAIN caged /\ caged' = swap_with_last(i)
    BY <1>1, <1>4 DEF CageGcRelease, CageGcIter, Core, EngineTypeOK
  <2>2. k \in 1 .. Len(caged) - 1 /\ caged'[k] \in {caged[k], caged[Len(caged)]}
    BY <2>1 DEF swap_with_last
  <2> QED BY <1>1, <2>2
<1>5. CASE Evaluate \/ BeginCycle \/ Finish \/ Validate \/ CycleNoMemory
  BY <1>2, <1>5 DEF Evaluate, EvalFrozen, EvalScored, BeginCycle, Finish, Validate,
                    CycleNoMemory
<1>6. CASE Act
  BY <1>2, <1>6 DEF Act, ActSkipped, ActDryRun, ActLogOnly, CageRefused, GuardFails,
                    GuardPasses
<1>7. CASE Renice \/ Stop \/ KillHeldBack \/ Kill \/ CageFailed
  BY <1>2, <1>7 DEF Renice, Stop, KillHeldBack, Kill, CageFailed
<1>8. CASE StateGc \/ CageGcKeep \/ EndCycle
  BY <1>2, <1>8 DEF StateGc, CageGcKeep, EndCycle
<1>9. CASE Stopped \/ UNCHANGED vars
  BY <1>2, <1>9 DEF Stopped, vars, engine
<1> QED BY <1>3, <1>4, <1>5, <1>6, <1>7, <1>8, <1>9 DEF Next, Apply, Gc

\* What the engine is handed names processes, and spares the guardians.
LEMMA ScannedIsFaithful ==
    ASSUME ScanSound, ScanTells, NEW k \in DOMAIN Scanned
    PROVE  /\ Real(procs, Scanned[k].id)
           /\ Scanned[k].protected \/ Spared(procs, turned, Scanned[k].id.starttime)
<1>1. /\ k \in DOMAIN arr /\ Sound(procs, arr[k])
      /\ Scanned[k].id.pid = arr[k].pid /\ Scanned[k].id.starttime = arr[k].stat
      /\ Scanned[k].protected = protected(arr[k])
  BY DEF Scanned, ScanSound
<1>2. Told(procs, turned, arr[k]) /\ arr[k].marks \subseteq Marks
  <2>1. arr[k] \in RawSamples
    BY <1>1 DEF ScanSound
  <2>2. arr[k].marks \subseteq Marks
    BY <2>1 DEF RawSamples
  <2> QED BY <1>1, <2>2 DEF ScanTells
<1>3. protected(arr[k]) \/ Spared(procs, turned, arr[k].stat)
  BY <1>2 DEF Told, protected, Marks
<1> QED BY <1>1, <1>3 DEF Real, Sound

\* No step gives the engine an id that was read from another process.
LEMMA FaithfulStep ==
    ASSUME OneHolder, KernelAssumption, ScanSound, ScanTells, Core, EngineAssumption,
           Faithful, [GovernanceNext]_govvars
    PROVE  Faithful'
<1>1. KernelMoves /\ [Next]_vars
  BY GovernanceMoves, GovernanceStepIsEngineStep
<1>2. \A k \in DOMAIN decs' : Real(procs', decs'[k].id)
  BY <1>1, DecsStep, RealStays DEF Faithful
<1>3. \A k \in DOMAIN caged' : Real(procs', caged'[k])
  <2>1. \A k \in DOMAIN decs : Real(procs', decs[k].id)
    BY <1>1, RealStays DEF Faithful
  <2> QED BY <1>1, <2>1, CagedStep, RealStays DEF Faithful, dec
<1>4. /\ phase' = "idle" => samples' = <<>>
      /\ \A k \in DOMAIN samples' :
        /\ Real(procs', samples'[k].id)
        /\ samples'[k].protected \/ Spared(procs', turned', samples'[k].id.starttime)
  <2>1. CASE Begin
    <3>1. samples' = Scanned /\ procs' = procs /\ turned' = turned /\ phase' # "idle"
      BY <2>1 DEF Begin, BeginCycle, NoCall, kernel
    <3>2. \A k \in DOMAIN Scanned :
            /\ Real(procs, Scanned[k].id)
            /\ Scanned[k].protected \/ Spared(procs, turned, Scanned[k].id.starttime)
      BY ScannedIsFaithful
    <3> QED BY <3>1, <3>2 DEF Spared
  <2>2. CASE samples' = samples /\ (phase' = "idle" => phase = "idle")
    <3>1. CASE ScanStep
      <4>1. samples' = <<>>
        BY <2>2, <3>1 DEF ScanStep, Faithful
      <4> QED BY <4>1
    <3>2. CASE ~ScanStep
      <4>1. \A n \in DOMAIN procs : Spared(procs, turned, n) => Spared(procs', turned', n)
        BY <3>2, SparedStays
      <4>2. \A k \in DOMAIN samples : samples[k].id.starttime \in DOMAIN procs
        BY DEF Faithful, Real
      <4>3. \A k \in DOMAIN samples : Real(procs', samples[k].id)
        BY <1>1, RealStays DEF Faithful
      <4> QED BY <2>2, <4>1, <4>2, <4>3 DEF Faithful
    <3> QED BY <3>1, <3>2
  <2>3. BeginCycle => Begin
    <3>1. BeginCycle => phase = "idle" /\ phase' = "evaluate"
      BY DEF BeginCycle
    <3>2. CASE ScanStep \/ WorldStep \/ GovernanceStopped \/ UNCHANGED govvars
      BY <3>1, <3>2 DEF ScanStep, WorldStep, GovernanceStopped, govvars, vars, engine
    <3>3. CASE MakeRoot \/ MakeGroup \/ WriteLimit
      BY <3>1, <3>3 DEF MakeRoot, MakeGroup, WriteLimit, GoOn, vars, engine
    <3>4. CASE Compute
      BY <3>1, <3>4 DEF Compute, EvalScored, Evaluating, Validate, CycleNoMemory,
            ActSkipped, ActDryRun, ActLogOnly, CageRefused, Applying, Acting,
            KillHeldBack, CageGcKeep, CageGcIter, EndCycle
    <3>5. CASE End \/ CheckFails \/ CheckPasses \/ Release \/ Collect
      BY <3>1, <3>5 DEF End, Finish, CheckFails, CheckPasses, GuardFails, GuardPasses,
            Applying, Acting, Release, CageGcRelease, CageGcIter, Collect, StateGc
    <3>6. CASE ReniceOrStop \/ SendKill \/ MoveIn \/ CageBreaks
      BY <3>1, <3>6 DEF ReniceOrStop, Renice, Stop, SendKill, Kill, MoveIn, CageApplied,
            CageBreaks, CageFailed
    <3> QED BY <3>2, <3>3, <3>4, <3>5, <3>6 DEF GovernanceNext, Program
  <2>4. CASE samples' = <<>>
    BY <2>4
  <2> QED BY <1>1, <2>1, <2>2, <2>3, <2>4, SamplesStep
<1> QED BY <1>2, <1>3, <1>4 DEF Faithful

\* Every id the engine holds is that of the process it was read from, and who is
\* not protected was no guardian when its stat was read.
THEOREM FaithfulInvariant == GovernanceSpec => []Faithful
<1> USE KernelAssumption, EngineAssumption
<1>1. GovernanceInit => Faithful
  BY DEF GovernanceInit, Init, Faithful
<1>2. /\ OneHolder /\ ScanSound /\ ScanTells /\ Core /\ Faithful
      /\ [GovernanceNext]_govvars
      => Faithful'
  BY FaithfulStep
<1> QED BY <1>1, <1>2, TableInvariant, ScanInvariant, TellingInvariant, CoreInvariant,
           GovernanceImplementsEngine, PTL DEF GovernanceSpec

-----------------------------------------------------------------------------
\* The calls. From the identity check to the call, whoever has the pid is the
\* process that was judged, or started after the check.

Checked ==
    /\ seen \in Nat /\ seen <= Len(procs)
    /\ phase = "apply" =>
        \A n \in Holder(dec.id.pid) : n = dec.id.starttime \/ n > seen

Hitting ==
    /\ hit.target \in DOMAIN procs \cup {0}
    /\ HitsTheJudged /\ GuardiansUntouched

\* Only the identity check starts an apply, and nothing moves the decision in it.
LEMMA ApplyStep ==
    ASSUME [Next]_vars, phase' = "apply"
    PROVE  GuardPasses \/ (phase = "apply" /\ dec' = dec)
<1>1. CASE Evaluate
  BY <1>1 DEF Evaluate, EvalFrozen, EvalScored, Evaluating
<1>2. CASE Gc \/ BeginCycle \/ Finish \/ Validate \/ CycleNoMemory
  BY <1>2 DEF Gc, StateGc, CageGcKeep, CageGcRelease, CageGcIter, EndCycle,
              BeginCycle, Finish, Validate, CycleNoMemory
<1>3. CASE Act
  BY <1>3 DEF Act, ActSkipped, ActDryRun, ActLogOnly, CageRefused, GuardFails,
              Skip, Advance
<1>4. CASE Apply
  BY <1>4 DEF Apply, Renice, Stop, KillHeldBack, Kill, CageApplied, CageFailed,
              Skip, Advance
<1>5. CASE Stopped \/ UNCHANGED vars
  BY <1>5 DEF Stopped, vars, engine, dec
<1> QED BY <1>1, <1>2, <1>3, <1>4, <1>5 DEF Next

\* Where the program passes the check it notes what it saw; nowhere else.
LEMMA SeenStep ==
    ASSUME [GovernanceNext]_govvars
    PROVE  CheckPasses \/ (seen' = seen /\ (GuardPasses => vars' = vars))
<1>1. CASE ScanStep \/ WorldStep \/ GovernanceStopped \/ UNCHANGED govvars
  BY <1>1 DEF ScanStep, WorldStep, GovernanceStopped, govvars
<1>2. CASE MakeRoot \/ MakeGroup \/ WriteLimit
  BY <1>2 DEF MakeRoot, MakeGroup, WriteLimit, GoOn
<1> DEFINE Elsewhere == seen' = seen /\ phase' # "apply"
<1>3. Elsewhere => seen' = seen /\ ~GuardPasses
  BY DEF GuardPasses
<1>4. CASE Begin \/ End \/ Compute
  BY <1>3, <1>4 DEF Begin, BeginCycle, End, Finish, NoCall, Compute, EvalScored, Evaluating,
        Validate, CycleNoMemory, ActSkipped, ActDryRun, ActLogOnly, CageRefused,
        KillHeldBack, CageGcKeep, CageGcIter, EndCycle, Skip, Advance
<1>5. CASE CheckFails \/ Release \/ Collect
  BY <1>3, <1>5 DEF CheckFails, GuardFails, Skip, NoCall, Release, CageGcRelease,
        CageGcIter, Collect, StateGc
<1>6. CASE ReniceOrStop \/ SendKill \/ MoveIn \/ CageBreaks
  BY <1>3, <1>6 DEF ReniceOrStop, Renice, Stop, SendKill, Kill, MoveIn, CageApplied,
        CageBreaks, CageFailed, Advance
<1> QED BY <1>1, <1>2, <1>3, <1>4, <1>5, <1>6 DEF GovernanceNext, Program

\* The identity check holds up to the call it guards, but for what starts later.
LEMMA CheckedStep ==
    ASSUME OneHolder, KernelAssumption, Checked, [GovernanceNext]_govvars
    PROVE  Checked'
<1>1. KernelMoves /\ [Next]_vars
  BY GovernanceMoves, GovernanceStepIsEngineStep
<1>2. CASE CheckPasses
  <2>1. procs' = procs /\ seen' = Len(procs) /\ dec' = dec
    BY <1>2 DEF CheckPasses, kernel, GuardPasses, dec
  <2>2. \A n \in Holder(dec.id.pid) : n = dec.id.starttime
    BY <1>2 DEF CheckPasses, starttime_is, Holder, OneHolder
  <2> QED BY <1>1, <2>1, <2>2 DEF Checked, KernelMoves, Holder
<1>3. CASE seen' = seen /\ (GuardPasses => vars' = vars)
  <2>1. seen' \in Nat /\ seen' <= Len(procs')
    BY <1>1, <1>3 DEF Checked, KernelMoves
  <2>2. ASSUME phase' = "apply", NEW n \in Holder(dec.id.pid)'
        PROVE  n = dec'.id.starttime \/ n > seen'
    <3>1. phase = "apply" /\ dec' = dec
      BY <1>1, <1>3, <2>2, ApplyStep DEF vars, engine, dec
    <3>2. n \in DOMAIN procs' /\ procs'[n].pid = dec.id.pid /\ procs'[n].state # "gone"
      BY <2>2, <3>1 DEF Holder
    <3>3. CASE n \in DOMAIN procs
      <4>1. n \in Holder(dec.id.pid)
        BY <1>1, <3>2, <3>3 DEF KernelMoves, Kept, Holder
      <4> QED BY <1>3, <3>1, <4>1 DEF Checked
    <3>4. CASE n \notin DOMAIN procs
      <4>1. n > Len(procs) /\ n \in Nat
        BY <1>1, <3>2, <3>4 DEF KernelMoves, OneHolder
      <4> QED BY <1>1, <1>3, <4>1 DEF Checked, KernelMoves
    <3> QED BY <3>3, <3>4
  <2> QED BY <2>1, <2>2 DEF Checked
<1> QED BY <1>2, <1>3, SeenStep

\* A call that reaches whoever has the pid of the decision.
LEMMA CallHits ==
    ASSUME OneHolder, KernelMoves, Checked, Faithful, ProtectedUntouched',
           phase = "apply", Hits(dec.id.pid), seen' = seen, samples' = samples,
           turned' = turned, \A n \in DOMAIN procs : procs'[n].marks = Marks =>
                                procs[n].marks = Marks \/ n \in turned',
           event'.call # "none", event'.pair = PairOf(dec)
    PROVE  Hitting'
<1> DEFINE n == hit'.target
<1>1. CASE Holder(dec.id.pid) = {}
  <2>1. n = 0
    BY <1>1 DEF Hits
  <2> QED BY <2>1 DEF Hitting, HitsTheJudged, GuardiansUntouched
<1>2. CASE Holder(dec.id.pid) # {}
  <2>1. n \in Holder(dec.id.pid) /\ hit'.judged = dec.id.starttime
    BY <1>2 DEF Hits
  <2>2. n \in DOMAIN procs /\ procs[n].state # "gone"
    BY <2>1 DEF Holder
  <2>3. n = dec.id.starttime \/ n > seen
    BY <2>1 DEF Checked
  <2>4. n \in DOMAIN procs'
    BY <2>2 DEF KernelMoves, Kept
  <2>5. n = dec.id.starttime => procs[n].marks # Marks \/ n \in turned
    <3>1. event'.pair[1] = dec.id
      BY DEF PairOf
    <3>2. PICK k \in DOMAIN samples : samples[k].id = dec.id /\ ~samples[k].protected
      BY <3>1 DEF ProtectedUntouched
    <3> QED BY <2>2, <3>2 DEF Faithful, Spared, Plain
  <2> HIDE DEF n
  <2>6. HitsTheJudged'
    BY <2>1, <2>3 DEF HitsTheJudged, n
  <2>7. GuardiansUntouched'
    BY <2>2, <2>3, <2>5 DEF GuardiansUntouched, n
  <2> QED BY <2>4, <2>6, <2>7 DEF Hitting, n
<1> QED BY <1>1, <1>2

\* No step calls on an older process than the check saw, but the one that was judged.
LEMMA HittingStep ==
    ASSUME OneHolder, KernelAssumption, Checked, Faithful, Hitting,
           ProtectedUntouched', [GovernanceNext]_govvars
    PROVE  Hitting'
<1>1. KernelMoves
  BY GovernanceMoves
<1>2. CASE hit' = NoHit
  BY <1>2 DEF NoHit, Hitting, HitsTheJudged, GuardiansUntouched
<1>3. CASE GovernanceStopped \/ UNCHANGED govvars
  <2>1. UNCHANGED <<hit, seen, turned, procs>>
    BY <1>3 DEF GovernanceStopped, govvars, kernel
  <2> QED BY <2>1 DEF Hitting, HitsTheJudged, GuardiansUntouched
<1>4. CASE ReniceOrStop \/ SendKill \/ MoveIn
  <2>1. /\ phase = "apply" /\ Hits(dec.id.pid) /\ seen' = seen /\ turned' = turned
        /\ \/ Advance("executed", "setpriority") \/ Advance("executed", "SIGSTOP")
           \/ Advance("executed", "SIGKILL") \/ Advance("caged", "cage_apply")
    BY <1>4 DEF ReniceOrStop, Renice, Stop, SendKill, Kill, MoveIn, Caging, CageApplied
  <2>2. samples' = samples /\ event'.call # "none" /\ event'.pair = PairOf(dec)
    BY <2>1 DEF Advance, Logged
  <2> QED BY <1>1, <2>1, <2>2, MarksMove, CallHits
<1>5. CASE ScanStep \/ WorldStep
  BY <1>2, <1>5 DEF ScanStep, WorldStep
<1>6. CASE Begin \/ End \/ Compute \/ CheckFails \/ CheckPasses \/ Release \/ Collect
  BY <1>2, <1>6 DEF Begin, End, Compute, CheckFails, CheckPasses, Release, Collect, NoCall
<1>7. CASE MakeRoot \/ MakeGroup \/ WriteLimit \/ CageBreaks
  BY <1>2, <1>7 DEF MakeRoot, MakeGroup, WriteLimit, GoOn, CageBreaks
<1> QED BY <1>3, <1>4, <1>5, <1>6, <1>7 DEF GovernanceNext, Program

\* The window between check and call is the only one: no call reaches another
\* process for any other reason (toctou_ok, kill).
THEOREM HitInvariant == GovernanceSpec => [](Checked /\ Hitting)
<1> USE KernelAssumption
<1>1. GovernanceInit => Checked /\ Hitting
  <2> SUFFICES ASSUME GovernanceInit PROVE Checked /\ Hitting
    OBVIOUS
  <2>1. seen = 0 /\ hit = NoHit /\ phase = "idle" /\ Len(procs) \in Nat
    BY DEF GovernanceInit, Init, KernelInit, KernelAssumption
  <2> QED BY <2>1 DEF Checked, Hitting, HitsTheJudged, GuardiansUntouched, NoHit
<1>2. OneHolder /\ Checked /\ [GovernanceNext]_govvars => Checked'
  BY CheckedStep
<1>3. /\ OneHolder /\ Checked /\ Faithful /\ Hitting /\ ProtectedUntouched'
      /\ [GovernanceNext]_govvars
      => Hitting'
  BY HittingStep
<1> QED BY <1>1, <1>2, <1>3, TableInvariant, FaithfulInvariant, ProtectionHolds,
           GovernanceImplementsEngine, PTL DEF GovernanceSpec

\* A call reaches the process that was judged, or one that started after the
\* identity check (toctou_ok, kill).
THEOREM CallsHitTheJudged == GovernanceSpec => []HitsTheJudged
BY HitInvariant, PTL DEF Hitting

\* A protected process is touched only if it took the pid after the check, or
\* became protected after its stat was read (whitelist_reason, toctou_ok).
THEOREM GuardiansAreSpared == GovernanceSpec => []GuardiansUntouched
BY HitInvariant, PTL DEF Hitting

-----------------------------------------------------------------------------
\* The cages. Whose group a step changes, and to what.

Stays(n) == procs'[n].group = procs[n].group

Joins(n) ==
    MoveIn /\ procs[n].pid = dec.id.pid /\ procs'[n].group = dec.id.pid

GroupsMove ==
    /\ \A n \in DOMAIN procs : Stays(n) \/ Joins(n)
    /\ \A n \in DOMAIN procs' \ DOMAIN procs :
        \/ procs'[n].group = NoGroup
        \/ \E m \in DOMAIN procs : Alive(m) /\ procs'[n].group = procs[m].group

\* A child starts in the group of the process that forked it.
LEMMA SpawnGroups ==
    ASSUME OneHolder, Spawn
    PROVE  GroupsMove
<1> PICK pid \in PidSpace, marks \in Images,
         g \in {NoGroup} \cup {procs[n].group : n \in {m \in DOMAIN procs : Alive(m)}} :
        procs' = Append(procs, [pid |-> pid, marks |-> marks,
                                state |-> "alive", group |-> g])
  BY DEF Spawn
<1>1. \A n \in DOMAIN procs : procs'[n] = procs[n]
  BY DEF OneHolder
<1>2. \A n \in DOMAIN procs' \ DOMAIN procs : procs'[n].group = g
  BY DEF OneHolder
<1>3. g = NoGroup \/ \E m \in DOMAIN procs : Alive(m) /\ g = procs[m].group
  OBVIOUS
<1> QED BY <1>1, <1>2, <1>3 DEF GroupsMove, Stays

\* An exit moves nobody.
LEMMA ExitGroups ==
    ASSUME OneHolder, Exit
    PROVE  GroupsMove
<1> PICK n \in DOMAIN procs, s \in {"zombie", "gone"} :
        procs' = [procs EXCEPT ![n].state = s]
  BY DEF Exit
<1>1. /\ procs[n] \in Processes
      /\ procs' = [procs EXCEPT ![n] = [procs[n] EXCEPT !.state = s]]
  BY DEF OneHolder
<1>2. DOMAIN procs' = DOMAIN procs
  BY <1>1
<1>3. \A m \in DOMAIN procs : Stays(m)
  BY <1>1, NewState DEF Stays
<1> QED BY <1>2, <1>3 DEF GroupsMove

\* Nor does another program.
LEMMA ExecGroups ==
    ASSUME OneHolder, Exec
    PROVE  GroupsMove
BY ExecMoves DEF GroupsMove, Stays

\* Whatever the program or the world does, a process enters a group by a fork or by
\* the last step of an apply.
LEMMA GovernanceGroups ==
    ASSUME OneHolder, KernelAssumption, [GovernanceNext]_govvars
    PROVE  GroupsMove
<1>1. CASE procs' = procs
  BY <1>1 DEF GroupsMove, Stays
<1>2. CASE WorldStep
  BY <1>2, SpawnGroups, ExitGroups, ExecGroups DEF WorldStep, World
<1>3. CASE SendKill
  <2>1. DOMAIN procs' = DOMAIN procs
    BY <1>3 DEF SendKill, sigkill
  <2> QED BY <1>3, <2>1, SigkillMoves DEF SendKill, GroupsMove, Stays
<1>4. CASE MoveIn
  <2>1. PICK n \in DOMAIN procs : procs[n].pid = dec.id.pid
    BY <1>4 DEF MoveIn, Holder
  <2>2. procs[n] \in Processes
    BY DEF OneHolder
  <2>3. dec.id.pid \in PidSpace
    BY <2>1, <2>2 DEF Processes
  <2>4. DOMAIN procs' = DOMAIN procs
    BY <1>4 DEF MoveIn, join
  <2> QED BY <1>4, <2>3, <2>4, JoinMoves DEF MoveIn, GroupsMove, Stays, Joins
<1>5. CASE ScanStep \/ Begin \/ End \/ Compute \/ CheckFails \/ CheckPasses
             \/ ReniceOrStop \/ CageBreaks
  BY <1>1, <1>5 DEF ScanStep, Begin, End, Compute, CheckFails, CheckPasses,
                    ReniceOrStop, CageBreaks, kernel
<1>6. CASE MakeRoot \/ MakeGroup \/ WriteLimit \/ Release \/ Collect
  BY <1>1, <1>6 DEF MakeRoot, MakeGroup, WriteLimit, GoOn, Release, Collect, kernel
<1>7. CASE GovernanceStopped \/ UNCHANGED govvars
  BY <1>1, <1>7 DEF GovernanceStopped, govvars, kernel
<1> QED BY <1>2, <1>3, <1>4, <1>5, <1>6, <1>7 DEF GovernanceNext, Program

\* While a cage is being applied, its group is there from the step after mkdir
\* and has its limit from the step after cpu.max.
Confining ==
    /\ ConfinedIsLimited
    /\ Caging("limit") => dec.id.pid \in groups
    /\ Caging("move") => dec.id.pid \in groups \cap limited

\* Who is in a group after a step that takes no directory away.
LEMMA StillLimited ==
    ASSUME KernelMoves, GroupsMove, ConfinedIsLimited, groups \subseteq groups',
           limited \subseteq limited',
           MoveIn => dec.id.pid \in groups \cap limited
    PROVE  ConfinedIsLimited'
<1> SUFFICES ASSUME NEW n \in DOMAIN procs', procs'[n].state = "alive",
                    procs'[n].group # NoGroup
             PROVE  procs'[n].group \in groups \cap limited
  BY DEF ConfinedIsLimited, Alive
<1>1. CASE n \in DOMAIN procs
  <2>1. procs[n].state = "alive"
    BY <1>1 DEF KernelMoves, Kept
  <2> QED BY <1>1, <2>1 DEF GroupsMove, Stays, Joins, ConfinedIsLimited, Alive
<1>2. CASE n \notin DOMAIN procs
  BY <1>2 DEF GroupsMove, ConfinedIsLimited, Alive
<1> QED BY <1>1, <1>2

\* No step leaves a process in a group that has lost its limit or its directory.
LEMMA ConfiningStep ==
    ASSUME OneHolder, KernelAssumption, Confining, [GovernanceNext]_govvars
    PROVE  Confining'
<1>1. KernelMoves /\ GroupsMove /\ [Next]_vars
  BY GovernanceMoves, GovernanceGroups, GovernanceStepIsEngineStep
<1>2. CASE Release
  <2> DEFINE pid == caged[i].pid
  <2>1. procs' = procs /\ phase = "cage_gc" /\ phase' = "cage_gc"
    BY <1>2 DEF Release, CageGcRelease, CageGcIter
  <2>2. CASE Members(pid) = {}
    <3>1. groups' = groups \ {pid} /\ limited' = limited \ {pid}
      BY <1>2, <2>2 DEF Release
    <3>2. \A n \in DOMAIN procs : Alive(n) => procs[n].group # pid
      BY <2>2 DEF Members
    <3>3. ConfinedIsLimited'
      BY <2>1, <3>1, <3>2 DEF Confining, ConfinedIsLimited, Alive
    <3> QED BY <2>1, <3>3 DEF Confining, Caging
  <2>3. CASE Members(pid) # {}
    <3>1. groups' = groups /\ limited' = limited
      BY <1>2, <2>3 DEF Release
    <3>2. ConfinedIsLimited'
      BY <2>1, <3>1 DEF Confining, ConfinedIsLimited, Alive
    <3> QED BY <2>1, <3>2 DEF Confining, Caging
  <2> QED BY <2>2, <2>3
<1>3. CASE MakeRoot \/ MakeGroup \/ WriteLimit
  <2>1. UNCHANGED vars /\ dec' = dec /\ ~MoveIn
    BY <1>3 DEF MakeRoot, MakeGroup, WriteLimit, GoOn, vars, engine, dec, MoveIn, Caging
  <2>2. groups \subseteq groups' /\ limited \subseteq limited'
    BY <1>3 DEF MakeRoot, MakeGroup, WriteLimit
  <2>3. ConfinedIsLimited'
    BY <1>1, <2>1, <2>2, StillLimited DEF Confining
  <2>4. CASE MakeRoot
    BY <2>3, <2>4 DEF MakeRoot, GoOn, Confining, Caging
  <2>5. CASE MakeGroup
    BY <2>1, <2>3, <2>5 DEF MakeGroup, GoOn, Confining, Caging
  <2>6. CASE WriteLimit
    BY <2>1, <2>3, <2>6 DEF WriteLimit, GoOn, Confining, Caging
  <2> QED BY <1>3, <2>4, <2>5, <2>6
<1>4. ASSUME groups' = groups, limited' = limited,
             \/ cage_step' \notin {"limit", "move"} \/ phase' # "apply"
             \/ cage_step' = cage_step /\ UNCHANGED vars
      PROVE  Confining'
  <2>1. ConfinedIsLimited'
    BY <1>1, <1>4, StillLimited DEF Confining, MoveIn
  <2>2. CASE cage_step' \notin {"limit", "move"} \/ phase' # "apply"
    BY <2>1, <2>2 DEF Confining, Caging
  <2>3. CASE cage_step' = cage_step /\ UNCHANGED vars
    <3>1. Caging("limit")' = Caging("limit") /\ Caging("move")' = Caging("move") /\ dec' = dec
      BY <2>3 DEF Caging, dec, vars, engine
    <3> QED BY <1>4, <2>1, <3>1 DEF Confining
  <2> QED BY <1>4, <2>2, <2>3
<1>5. CASE ScanStep \/ WorldStep \/ GovernanceStopped \/ UNCHANGED govvars
  BY <1>4, <1>5 DEF ScanStep, WorldStep, World, Spawn, Exit, Exec, GovernanceStopped,
                    govvars, kernel
<1>6. CASE Begin \/ End \/ Compute
  BY <1>4, <1>6 DEF Begin, BeginCycle, End, Finish, kernel, Compute, EvalScored,
        Evaluating, Validate, CycleNoMemory, ActSkipped, ActDryRun, ActLogOnly,
        CageRefused, KillHeldBack, CageGcKeep, CageGcIter, EndCycle, Skip, Advance
<1>7. CASE CheckFails \/ CheckPasses \/ Collect
  BY <1>4, <1>7 DEF CheckFails, GuardFails, Skip, kernel, CheckPasses, Collect, StateGc
<1>8. CASE ReniceOrStop \/ SendKill \/ MoveIn \/ CageBreaks
  BY <1>4, <1>8 DEF ReniceOrStop, Renice, Stop, SendKill, Kill, MoveIn, CageApplied,
        CageBreaks, CageFailed, Advance, kernel
<1> QED BY <1>2, <1>3, <1>5, <1>6, <1>7, <1>8 DEF GovernanceNext, Program

(***************************************************************************)
(* No process lives in a group without its limit or in one that is no      *)
(* more, whatever breaks an apply and whatever pid a release names.        *)
(***************************************************************************)
THEOREM ConfinedAreLimited == GovernanceSpec => []ConfinedIsLimited
<1> USE KernelAssumption
<1>1. GovernanceInit => Confining
  <2> SUFFICES ASSUME GovernanceInit PROVE Confining
    OBVIOUS
  <2>1. phase = "idle" /\ procs = Initial
    BY DEF GovernanceInit, Init, KernelInit
  <2> QED BY <2>1 DEF Confining, ConfinedIsLimited, Caging, KernelAssumption, Alive
<1>2. OneHolder /\ Confining /\ [GovernanceNext]_govvars => Confining'
  BY ConfiningStep
<1>3. Confining => ConfinedIsLimited
  BY DEF Confining
<1> QED BY <1>1, <1>2, <1>3, TableInvariant, PTL DEF GovernanceSpec

\* Only the last step of an apply and a release change the register.
LEMMA RegisterMoves ==
    ASSUME [GovernanceNext]_govvars
    PROVE  caged' = caged \/ MoveIn \/ Release
<1>1. CASE ScanStep \/ WorldStep \/ GovernanceStopped \/ UNCHANGED govvars
  BY <1>1 DEF ScanStep, WorldStep, GovernanceStopped, govvars, vars, engine
<1>2. CASE MakeRoot \/ MakeGroup \/ WriteLimit
  BY <1>2 DEF MakeRoot, MakeGroup, WriteLimit, GoOn, vars, engine
<1>3. CASE Begin \/ End \/ Compute
  BY <1>3 DEF Begin, BeginCycle, End, Finish, Compute, EvalScored, Validate,
        CycleNoMemory, ActSkipped, ActDryRun, ActLogOnly, CageRefused,
        KillHeldBack, CageGcKeep, EndCycle
<1>4. CASE CheckFails \/ CheckPasses \/ Collect
  BY <1>4 DEF CheckFails, GuardFails, CheckPasses, GuardPasses, Collect, StateGc
<1>5. CASE ReniceOrStop \/ SendKill \/ CageBreaks
  BY <1>5 DEF ReniceOrStop, Renice, Stop, SendKill, Kill, CageBreaks, CageFailed
<1> QED BY <1>1, <1>2, <1>3, <1>4, <1>5 DEF GovernanceNext, Program

\* No step leaves an id in the register whose process lives outside its cage.
LEMMA RegisteredStep ==
    ASSUME OneHolder, KernelAssumption, EngineAssumption, Core, Faithful,
           RegisteredIsConfined, [GovernanceNext]_govvars
    PROVE  RegisteredIsConfined'
<1>1. KernelMoves /\ GroupsMove /\ [Next]_vars
  BY GovernanceMoves, GovernanceGroups, GovernanceStepIsEngineStep
<1> SUFFICES ASSUME NEW k \in DOMAIN caged',
                    procs'[caged'[k].starttime].state = "alive"
             PROVE  procs'[caged'[k].starttime].group = caged'[k].pid
  BY DEF RegisteredIsConfined, Alive
<1> DEFINE n == caged'[k].starttime
<1>2. CASE \E l \in DOMAIN caged : caged'[k] = caged[l]
  <2>1. n \in DOMAIN procs /\ procs[n].pid = caged'[k].pid
    BY <1>2 DEF Faithful, Real
  <2>2. Alive(n)
    BY <1>1, <2>1 DEF KernelMoves, Kept, Alive
  <2>3. procs[n].group = caged'[k].pid
    BY <1>2, <2>2 DEF RegisteredIsConfined
  <2> QED BY <1>1, <2>1, <2>3 DEF GroupsMove, Stays, Joins
<1>3. CASE ~\E l \in DOMAIN caged : caged'[k] = caged[l]
  <2>1. CageApplied /\ caged'[k] = dec.id /\ i \in DOMAIN decs
    BY <1>1, <1>3, CagedStep
  <2>2. MoveIn
    BY <1>3, <2>1, RegisterMoves DEF Release, CageGcRelease, CageGcIter, CageApplied
  <2>3. n \in DOMAIN procs /\ procs[n].pid = dec.id.pid
    BY <2>1 DEF Faithful, Real, dec
  <2>4. procs[n] \in Processes
    BY <2>3 DEF OneHolder
  <2>5. dec.id.pid \in PidSpace /\ join(dec.id.pid)
    BY <2>2, <2>3, <2>4 DEF Processes, MoveIn
  <2>6. Alive(n)
    BY <1>1, <2>3 DEF KernelMoves, Kept, Alive
  <2> QED BY <2>1, <2>3, <2>5, <2>6, JoinMoves
<1> QED BY <1>2, <1>3

\* What the register counts as caged is in the cage of its pid while it lives.
THEOREM RegisteredAreConfined == GovernanceSpec => []RegisteredIsConfined
<1> USE KernelAssumption, EngineAssumption
<1>1. GovernanceInit => RegisteredIsConfined
  BY DEF GovernanceInit, Init, RegisteredIsConfined
<1>2. /\ OneHolder /\ Core /\ Faithful /\ RegisteredIsConfined
      /\ [GovernanceNext]_govvars
      => RegisteredIsConfined'
  BY RegisteredStep
<1> QED BY <1>1, <1>2, TableInvariant, FaithfulInvariant, CoreInvariant,
           GovernanceImplementsEngine, PTL DEF GovernanceSpec
=============================================================================
