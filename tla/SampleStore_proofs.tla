------------------------- MODULE SampleStore_proofs -------------------------
(***************************************************************************)
(* The sample store for any processes, any size of buffer and any grace:   *)
(* each history is the last samples of its own process, the grace window   *)
(* is kept on both sides, and the array of circular buffers implements the *)
(* history per process.                                                    *)
(***************************************************************************)
EXTENDS SampleStore, SequenceTheorems, TLAPS

\* The slot of the k-th newest sample of a buffer whose head is h.
Back(h, k) == IF k <= h THEN h - k ELSE h - k + NPerProc

Kept(s) == IF Len(s) < NPerProc THEN Len(s) ELSE NPerProc

\* A buffer holds the last samples of s, as many as it has room for.
HoldsLast(e, s) ==
    /\ e.count = Kept(s)
    /\ \A k \in 1 .. Kept(s) : e.samples[Back(e.head, k)] = s[Len(s) - k + 1]

Latest(p) == log[p][Len(log[p])]

\* No process has two entries, and one has an entry as long as it has a log.
OneEntry ==
    /\ \A j, k \in DOMAIN entries : entries[j].id = entries[k].id => j = k
    /\ \A p \in Procs : log[p] # <<>> => Places(p) # {}
    /\ ticking => cycle <= Cycles /\ idx <= Len(entries) + 1

Buffers ==
    \A k \in DOMAIN entries :
        /\ log[entries[k].id] # <<>>
        /\ HoldsLast(entries[k], log[entries[k].id])

\* An entry the walk has not come to yet, or that no walk looks at; its process
\* was last recorded so many cycles ago, and in this one if it is fresh.
Waiting(e, absent, fresh) ==
    /\ fresh => absent = 0 /\ (~e.seen_this_tick => e.absent_cycles = 0)
    /\ ~fresh => /\ ~e.seen_this_tick /\ absent > 0 /\ e.absent_cycles <= Grace
                 /\ e.absent_cycles \in {absent - 1, absent}

\* An entry the walk has passed.
Passed(e, absent) ==
    /\ ~e.seen_this_tick /\ absent >= 0 /\ e.absent_cycles <= Grace
    /\ e.absent_cycles \in {absent, absent + 1}

Aged ==
    \A k \in DOMAIN entries :
        LET e == entries[k]
            absent == cycle - Latest(e.id)
        IN  IF ticking /\ k < idx THEN Passed(e, absent)
            ELSE Waiting(e, absent, e.id \in recorded)

StoreInv == StoreTypeOK /\ OneEntry /\ Buffers /\ Aged

-----------------------------------------------------------------------------
\* Up to one lap the remainder is a subtraction.
LEMMA OneLap ==
    ASSUME NEW c \in Nat \ {0}, NEW x \in Nat, x < c + c
    PROVE  x % c = IF x < c THEN x ELSE x - c
OBVIOUS

\* The slots behind a head, and the slot get_history begins with.
LEMMA BackFacts ==
    ASSUME StoreAssumption, NEW h \in Slots
    PROVE  /\ (h + 1) % NPerProc \in Slots
           /\ \A k \in 1 .. NPerProc : Back(h, k) \in Slots
           /\ Back((h + 1) % NPerProc, 1) = h
           /\ \A k \in 2 .. NPerProc : /\ Back((h + 1) % NPerProc, k) = Back(h, k - 1)
                                       /\ Back(h, k - 1) # h
           /\ \A take \in 0 .. NPerProc : \A n \in 1 .. take :
                (((h + NPerProc - take) % NPerProc) + n - 1) % NPerProc = Back(h, take - n + 1)
<1>1. NPerProc \in Nat \ {0} /\ h \in 0 .. NPerProc - 1
  BY DEF StoreAssumption, Slots
<1>2. (h + 1) % NPerProc = IF h + 1 < NPerProc THEN h + 1 ELSE 0
  <2> DEFINE x == h + 1
  <2>1. x \in Nat /\ x < NPerProc + NPerProc /\ (x < NPerProc \/ x = NPerProc)
    BY <1>1
  <2> HIDE DEF x
  <2>2. x % NPerProc = IF x < NPerProc THEN x ELSE x - NPerProc
    BY <1>1, <2>1, OneLap
  <2>3. x % NPerProc = IF x < NPerProc THEN x ELSE 0
    BY <1>1, <2>1, <2>2
  <2> QED BY <2>3 DEF x
<1>3. (h + 1) % NPerProc \in Slots
  BY <1>1, <1>2 DEF Slots
<1>4. \A k \in 1 .. NPerProc : Back(h, k) \in Slots
  BY <1>1 DEF Back, Slots
<1>5. Back((h + 1) % NPerProc, 1) = h
  BY <1>1, <1>2 DEF Back
<1>6. \A k \in 2 .. NPerProc : /\ Back((h + 1) % NPerProc, k) = Back(h, k - 1)
                               /\ Back(h, k - 1) # h
  BY <1>1, <1>2 DEF Back
<1>7. \A take \in 0 .. NPerProc : \A n \in 1 .. take :
        (((h + NPerProc - take) % NPerProc) + n - 1) % NPerProc = Back(h, take - n + 1)
  <2> TAKE take \in 0 .. NPerProc
  <2> TAKE n \in 1 .. take
  <2> DEFINE x == h + NPerProc - take
             f == x % NPerProc
             y == f + n - 1
  <2>1. x \in Nat /\ x < NPerProc + NPerProc
    BY <1>1
  <2>2. f = IF x < NPerProc THEN x ELSE x - NPerProc
    <3> HIDE DEF x
    <3> QED BY <1>1, <2>1, OneLap
  <2> HIDE DEF f
  <2>3. y \in Nat /\ y < NPerProc + NPerProc
    BY <1>1, <2>1, <2>2
  <2>4. y % NPerProc = IF y < NPerProc THEN y ELSE y - NPerProc
    <3> HIDE DEF y
    <3> QED BY <1>1, <2>3, OneLap
  <2>5. y % NPerProc = Back(h, take - n + 1)
    BY <1>1, <2>1, <2>2, <2>4 DEF Back
  <2> QED BY <2>5 DEF f
<1> QED BY <1>3, <1>4, <1>5, <1>6, <1>7

\* pg_store_insert writes one sample more into the buffer of its process.
LEMMA WriteKeeps ==
    ASSUME StoreAssumption, NEW e \in Entries, NEW s \in Seq(Nat), NEW c \in Nat,
           HoldsLast(e, s)
    PROVE  /\ write(e, c) \in Entries
           /\ HoldsLast(write(e, c), Append(s, c))
           /\ write(e, c).id = e.id /\ write(e, c).absent_cycles = e.absent_cycles
           /\ write(e, c).seen_this_tick = e.seen_this_tick
<1> DEFINE w == write(e, c)
           t == Append(s, c)
<1>1. /\ NPerProc \in Nat \ {0} /\ e.head \in Slots /\ e.samples \in [Slots -> Nat]
      /\ e.count \in 0 .. NPerProc
  BY DEF StoreAssumption, Entries
<1>2. /\ w.samples = [e.samples EXCEPT ![e.head] = c] /\ w.head = (e.head + 1) % NPerProc
      /\ w.count = (IF e.count < NPerProc THEN e.count + 1 ELSE e.count)
      /\ w.id = e.id /\ w.absent_cycles = e.absent_cycles
      /\ w.seen_this_tick = e.seen_this_tick
  BY DEF write, Entries
<1>3. w.head \in Slots /\ w.samples \in [Slots -> Nat] /\ w.count \in 0 .. NPerProc
  BY <1>1, <1>2, BackFacts, SMTT(30)
<1>4. w \in Entries
  BY <1>1, <1>3, BackFacts DEF write, Entries
<1>5. /\ Len(s) \in Nat /\ Len(t) = Len(s) + 1 /\ t[Len(s) + 1] = c
      /\ \A k \in 1 .. Len(s) : t[k] = s[k]
  BY AppendProperties, LenProperties
<1>6. w.count = Kept(t)
  BY <1>1, <1>2, <1>5 DEF HoldsLast, Kept
<1>7. \A k \in 1 .. Kept(t) : w.samples[Back(w.head, k)] = t[Len(t) - k + 1]
  <2> TAKE k \in 1 .. Kept(t)
  <2>1. CASE k = 1
    <3>1. Back(w.head, k) = e.head
      BY <1>1, <1>2, <2>1, BackFacts
    <3>2. w.samples[e.head] = c
      BY <1>1, <1>2
    <3>3. Len(t) - k + 1 = Len(s) + 1
      BY <1>5, <2>1
    <3> QED BY <1>5, <3>1, <3>2, <3>3
  <2>2. CASE k # 1
    <3>1. k \in 2 .. NPerProc /\ k - 1 \in 1 .. Kept(s) /\ k - 1 \in 1 .. Len(s)
      BY <1>1, <1>5, <2>2 DEF Kept
    <3>2. Back(w.head, k) = Back(e.head, k - 1) /\ Back(e.head, k - 1) # e.head
          /\ Back(e.head, k - 1) \in Slots
      <4>1. k - 1 \in 1 .. NPerProc
        BY <1>1, <3>1
      <4> QED BY <1>1, <1>2, <3>1, <4>1, BackFacts, SMTT(30)
    <3>3. w.samples[Back(w.head, k)] = s[Len(s) - (k - 1) + 1]
      BY <1>1, <1>2, <3>1, <3>2, SMTT(30) DEF HoldsLast
    <3>4. Len(s) - (k - 1) + 1 \in 1 .. Len(s) /\ Len(s) - (k - 1) + 1 = Len(t) - k + 1
      BY <1>5, <3>1
    <3> QED BY <1>5, <3>3, <3>4
  <2> QED BY <2>1, <2>2
<1> QED BY <1>2, <1>4, <1>6, <1>7 DEF HoldsLast

-----------------------------------------------------------------------------
\* The last samples of s, for a buffer that has room for n.
Take(s, n) == IF n < Kept(s) THEN n ELSE Kept(s)

Recent(s, n) == SubSeq(s, Len(s) - Take(s, n) + 1, Len(s))

\* Its length and its elements.
LEMMA RecentFacts ==
    ASSUME StoreAssumption, NEW s \in Seq(Nat), NEW n \in Nat
    PROVE  /\ Take(s, n) \in 0 .. Len(s) /\ Take(s, n) <= Kept(s) /\ Kept(s) <= NPerProc
           /\ Len(s) \in Nat /\ Kept(s) \in Nat /\ NPerProc \in Nat \ {0}
           /\ Recent(s, n) \in Seq(Nat) /\ Len(Recent(s, n)) = Take(s, n)
           /\ \A k \in 1 .. Take(s, n) : Recent(s, n)[k] = s[Len(s) - Take(s, n) + k]
<1> DEFINE len == Len(s)
           take == Take(s, n)
<1>1. /\ take \in 0 .. len /\ take <= Kept(s) /\ Kept(s) <= NPerProc
      /\ len \in Nat /\ Kept(s) \in Nat /\ NPerProc \in Nat \ {0}
  BY DEF StoreAssumption, Take, Kept
<1>2. \A k \in len - take + 1 .. len : s[k] \in Nat
  BY <1>1, SMTT(30)
<1> HIDE DEF take
<1>3. /\ SubSeq(s, len - take + 1, len) \in Seq(Nat)
      /\ Len(SubSeq(s, len - take + 1, len)) =
            IF len - take + 1 <= len THEN len - (len - take + 1) + 1 ELSE 0
      /\ \A k \in 1 .. len - (len - take + 1) + 1 :
            SubSeq(s, len - take + 1, len)[k] = s[len - take + 1 + k - 1]
  <2>1. len - take + 1 \in Int /\ len \in Int
    BY <1>1
  <2> QED BY <1>2, <2>1, SubSeqProperties
<1>4. (IF len - take + 1 <= len THEN len - (len - take + 1) + 1 ELSE 0) = take
  BY <1>1
<1>5. \A k \in 1 .. take : /\ k \in 1 .. len - (len - take + 1) + 1
                           /\ len - take + 1 + k - 1 = len - take + k
  BY <1>1
<1>6. Recent(s, n) = SubSeq(s, len - take + 1, len)
  BY DEF Recent, take
<1>7. /\ Recent(s, n) \in Seq(Nat) /\ Len(Recent(s, n)) = take
      /\ \A k \in 1 .. take : Recent(s, n)[k] = s[len - take + k]
  BY <1>3, <1>4, <1>5, <1>6
<1> QED BY <1>1, <1>7 DEF take

\* From the end of a history instead of from its beginning.
LEMMA CountBack ==
    ASSUME NEW len \in Nat, NEW kept \in Nat, NEW room \in Nat, NEW take \in 0 .. len,
           take <= kept, kept <= room, NEW m \in 1 .. take
    PROVE  /\ take \in 0 .. room /\ take - m + 1 \in 1 .. kept
           /\ take - m + 1 \in 1 .. room /\ len - (take - m + 1) + 1 = len - take + m
OBVIOUS

\* pg_store_get_history finds them in the buffer of the process.
LEMMA HistoryIs ==
    ASSUME StoreInv, StoreAssumption, NEW p \in Procs, NEW n \in Nat
    PROVE  get_history(p, n) = Recent(log[p], n)
<1> DEFINE s == log[p]
           take == Take(s, n)
<1>1. s \in Seq(Nat)
  BY DEF StoreInv, StoreTypeOK
<1>2. /\ take \in 0 .. Len(s) /\ take <= Kept(s) /\ Kept(s) <= NPerProc
      /\ Len(s) \in Nat /\ Kept(s) \in Nat /\ NPerProc \in Nat \ {0}
      /\ Recent(s, n) \in Seq(Nat) /\ Len(Recent(s, n)) = take
      /\ \A k \in 1 .. take : Recent(s, n)[k] = s[Len(s) - take + k]
  BY <1>1, RecentFacts
<1>3. CASE Places(p) = {}
  <2>1. s = <<>> /\ get_history(p, n) = <<>>
    BY <1>3 DEF StoreInv, OneEntry, get_history
  <2>2. Len(Recent(s, n)) = 0
    BY <1>2, <2>1
  <2>3. Recent(s, n) = <<>>
    BY <1>2, <2>2, EmptySeq
  <2> QED BY <2>1, <2>3
<1>4. CASE Places(p) # {}
  <2> DEFINE k == CHOOSE j \in Places(p) : TRUE
             e == entries[k]
  <2>1. k \in Places(p)
    BY <1>4
  <2>2. k \in DOMAIN entries /\ e.id = p
    BY <2>1 DEF Places
  <2>3. e \in Entries /\ HoldsLast(e, s)
    BY <2>2 DEF StoreInv, StoreTypeOK, Buffers
  <2>4. get_history(p, n) =
            LET t == IF n < e.count THEN n ELSE e.count
            IN  [m \in 1 .. t |-> e.samples[(first_idx(e, t) + m - 1) % NPerProc]]
    BY <1>4 DEF get_history
  <2> HIDE DEF k
  <2>5. e.head \in Slots /\ e.samples \in [Slots -> Nat]
    BY <2>3 DEF Entries
  <2> HIDE DEF e
  <2>6. (IF n < e.count THEN n ELSE e.count) = take
    BY <2>3 DEF HoldsLast, Take
  <2> DEFINE h == [m \in 1 .. take |-> e.samples[(first_idx(e, take) + m - 1) % NPerProc]]
  <2>7. get_history(p, n) = h
    BY <2>4, <2>6
  <2> HIDE DEF take
  <2>8. \A m \in 1 .. take : h[m] = s[Len(s) - take + m] /\ h[m] \in Nat
    <3> TAKE m \in 1 .. take
    <3>0. h[m] = e.samples[(first_idx(e, take) + m - 1) % NPerProc]
      OBVIOUS
    <3> HIDE DEF h
    <3>1. take \in 0 .. NPerProc /\ take - m + 1 \in 1 .. Kept(s)
          /\ take - m + 1 \in 1 .. NPerProc
          /\ Len(s) - (take - m + 1) + 1 = Len(s) - take + m
      BY <1>2, CountBack
    <3>2. (first_idx(e, take) + m - 1) % NPerProc = Back(e.head, take - m + 1)
      <4>1. \A t \in 0 .. NPerProc : \A j \in 1 .. t :
                (((e.head + NPerProc - t) % NPerProc) + j - 1) % NPerProc
                    = Back(e.head, t - j + 1)
        BY <2>5, BackFacts
      <4> QED BY <3>1, <4>1 DEF first_idx
    <3>3. e.samples[Back(e.head, take - m + 1)] = s[Len(s) - take + m]
      BY <2>3, <3>1 DEF HoldsLast
    <3>4. Back(e.head, take - m + 1) \in Slots
      BY <2>5, <3>1, BackFacts
    <3> QED BY <2>5, <3>0, <3>2, <3>3, <3>4
  <2>9. h \in Seq(Nat) /\ Len(h) = take
    <3>1. h \in [1 .. take -> Nat]
      BY <2>8
    <3> HIDE DEF h
    <3>2. h \in Seq(Nat)
      BY <1>2, <3>1, SeqDef
    <3> QED BY <1>2, <3>1, <3>2, LenProperties
  <2> HIDE DEF h
  <2>10. h = Recent(s, n)
    BY <1>2, <2>8, <2>9, SeqEqual
  <2> QED BY <2>7, <2>10
<1> QED BY <1>3, <1>4

-----------------------------------------------------------------------------
\* What the provers need of the array and of the clock.
LEMMA StoreFacts ==
    ASSUME StoreInv, StoreAssumption
    PROVE  /\ NPerProc \in Nat \ {0} /\ Grace \in Nat \ {0} /\ Cycles \in Nat
           /\ entries \in Seq(Entries) /\ Len(entries) \in Nat
           /\ DOMAIN entries = 1 .. Len(entries)
           /\ \A k \in DOMAIN entries : /\ entries[k] \in Entries
                                        /\ entries[k].id \in Procs
                                        /\ entries[k].absent_cycles \in Nat
           /\ log \in [Procs -> Seq(Nat)]
           /\ \A p \in Procs : log[p] # <<>> => Latest(p) \in Nat
           /\ cycle \in Nat /\ idx \in Nat \ {0}
<1>1. entries \in Seq(Entries) /\ log \in [Procs -> Seq(Nat)] /\ cycle \in Nat /\ idx \in Nat \ {0}
  BY DEF StoreInv, StoreTypeOK, StoreAssumption
<1>2. Len(entries) \in Nat /\ DOMAIN entries = 1 .. Len(entries)
  BY <1>1, LenProperties
<1>3. \A k \in DOMAIN entries : /\ entries[k] \in Entries
                                /\ entries[k].id \in Procs
                                /\ entries[k].absent_cycles \in Nat
  <2> TAKE k \in DOMAIN entries
  <2>1. entries[k] \in Entries
    BY <1>1, <1>2, ElementOfSeq
  <2> QED BY <2>1 DEF Entries
<1>4. \A p \in Procs : log[p] # <<>> => Latest(p) \in Nat
  <2> TAKE p \in Procs
  <2> HAVE log[p] # <<>>
  <2>1. log[p] \in Seq(Nat) /\ Len(log[p]) \in Nat \ {0}
    BY <1>1, EmptySeq
  <2> QED BY <2>1 DEF Latest
<1> QED BY <1>1, <1>2, <1>3, <1>4 DEF StoreAssumption

\* What an insertion does to the histories.
LEMMA InsertLog ==
    ASSUME StoreInv, StoreAssumption, NEW p \in Procs, Insert(p)
    PROVE  /\ log' \in [Procs -> Seq(Nat)] /\ log'[p] = Append(log[p], cycle)
           /\ log'[p] # <<>> /\ Latest(p)' = cycle /\ cycle' = cycle
           /\ \A q \in Procs \ {p} : log'[q] = log[q] /\ Latest(q)' = Latest(q)
<1>1. log \in [Procs -> Seq(Nat)] /\ cycle \in Nat /\ cycle' = cycle
      /\ log' = [log EXCEPT ![p] = Append(@, cycle)]
  BY StoreFacts DEF Insert
<1>2. /\ log[p] \in Seq(Nat) /\ Append(log[p], cycle) \in Seq(Nat)
      /\ Append(log[p], cycle) # <<>>
      /\ Append(log[p], cycle)[Len(Append(log[p], cycle))] = cycle
  BY <1>1, AppendProperties, LenProperties, SMTT(30)
<1>3. log'[p] = Append(log[p], cycle) /\ \A q \in Procs \ {p} : log'[q] = log[q]
  BY <1>1
<1> QED BY <1>1, <1>2, <1>3 DEF Latest

\* The entry of another process is as it was, in age and in content.
LEMMA OthersStay ==
    ASSUME StoreInv, StoreAssumption, NEW p \in Procs, Insert(p),
           NEW k \in DOMAIN entries, NEW q \in Procs \ {p}, entries[k].id = q
    PROVE  /\ log'[q] = log[q] /\ log[q] # <<>> /\ HoldsLast(entries[k], log'[q])
           /\ Waiting(entries[k], cycle' - Latest(q)', q \in recorded')
<1>1. ~ticking /\ recorded' = recorded \cup {p} /\ cycle' = cycle
  BY DEF Insert
<1>2. HoldsLast(entries[k], log[q]) /\ log[q] # <<>>
  BY DEF StoreInv, Buffers
<1>3. Waiting(entries[k], cycle - Latest(q), q \in recorded)
  BY <1>1 DEF StoreInv, Aged
<1>4. log'[q] = log[q] /\ Latest(q)' = Latest(q) /\ (q \in recorded' <=> q \in recorded)
  BY <1>1, InsertLog
<1>5. Waiting(entries[k], cycle' - Latest(q)', q \in recorded')
  BY <1>1, <1>3, <1>4 DEF Waiting
<1> QED BY <1>2, <1>4, <1>5

\* pg_store_insert, for a process without an entry and for one with.
LEMMA InsertInv ==
    ASSUME StoreInv, StoreAssumption, NEW p \in Procs, Insert(p)
    PROVE  StoreInv'
<1>1. /\ ~ticking /\ ticking' = ticking /\ p \notin recorded /\ recorded' = recorded \cup {p}
      /\ cycle' = cycle /\ idx' = idx
  BY DEF Insert
<1>2. /\ log' \in [Procs -> Seq(Nat)] /\ log'[p] = Append(log[p], cycle)
      /\ log'[p] # <<>> /\ Latest(p)' = cycle
      /\ \A q \in Procs \ {p} : log'[q] = log[q]
  BY InsertLog
<1>3. /\ entries \in Seq(Entries) /\ Len(entries) \in Nat
      /\ DOMAIN entries = 1 .. Len(entries)
      /\ \A k \in DOMAIN entries : entries[k] \in Entries /\ entries[k].id \in Procs
      /\ log[p] \in Seq(Nat) /\ cycle \in Nat /\ NPerProc \in Nat \ {0}
  BY StoreFacts
<1>4. /\ cycle' \in 1 .. Cycles + 1 /\ ticking' \in BOOLEAN /\ idx' \in Nat \ {0}
      /\ recorded' \subseteq Procs
  BY <1>1 DEF StoreInv, StoreTypeOK
<1>5. ASSUME NEW e \in Entries, e.id = p, HoldsLast(e, log'[p]), NEW m \in DOMAIN entries',
             e.seen_this_tick \/ e.absent_cycles = 0,
             entries' \in Seq(Entries), entries'[m] = e,
             DOMAIN entries \subseteq DOMAIN entries',
             \A k \in DOMAIN entries' \ {m} :
                k \in DOMAIN entries /\ entries'[k] = entries[k] /\ entries[k].id # p,
             m \in DOMAIN entries => entries[m].id = p
      PROVE  StoreInv'
  <2>1. StoreTypeOK'
    BY <1>2, <1>4, <1>5 DEF StoreTypeOK
  <2>2. OneEntry'
    <3>1. \A j, k \in DOMAIN entries' : entries'[j].id = entries'[k].id => j = k
      BY <1>5 DEF StoreInv, OneEntry
    <3>2. ASSUME NEW q \in Procs, log'[q] # <<>>
          PROVE  Places(q)' # {}
      <4>1. CASE q = p
        BY <1>5, <4>1 DEF Places
      <4>2. CASE q # p
        <5>1. PICK k \in DOMAIN entries : entries[k].id = q
          BY <1>2, <3>2, <4>2 DEF StoreInv, OneEntry, Places
        <5>2. k \in DOMAIN entries' /\ k # m /\ entries'[k] = entries[k]
          BY <1>5, <4>2, <5>1
        <5> QED BY <5>1, <5>2 DEF Places
      <4> QED BY <4>1, <4>2
    <3> QED BY <1>1, <3>1, <3>2 DEF OneEntry
  <2>3. ASSUME NEW k \in DOMAIN entries'
        PROVE  /\ log'[entries'[k].id] # <<>>
               /\ HoldsLast(entries'[k], log'[entries'[k].id])
               /\ Waiting(entries'[k], cycle' - log'[entries'[k].id][Len(log'[entries'[k].id])],
                          entries'[k].id \in recorded')
    <3>1. CASE k = m
      <4>1. cycle' - log'[p][Len(log'[p])] = 0 /\ p \in recorded'
        BY <1>1, <1>2, <1>3 DEF Latest
      <4>2. entries'[k] = e /\ e.id = p
        BY <1>5, <3>1
      <4>3. HoldsLast(entries'[k], log'[p]) /\ log'[p] # <<>>
        BY <1>2, <1>5, <4>2
      <4>4. Waiting(entries'[k], cycle' - log'[p][Len(log'[p])], p \in recorded')
        BY <1>5, <4>1, <4>2 DEF Waiting
      <4> QED BY <4>2, <4>3, <4>4
    <3>2. CASE k # m
      <4>1. PICK q \in Procs \ {p} : entries[k].id = q
        BY <1>3, <1>5, <3>2
      <4>2. k \in DOMAIN entries /\ entries'[k] = entries[k]
        BY <1>5, <3>2
      <4>3. /\ log'[q] = log[q] /\ log[q] # <<>> /\ HoldsLast(entries[k], log'[q])
            /\ Waiting(entries[k], cycle' - Latest(q)', q \in recorded')
        BY <4>1, <4>2, OthersStay
      <4> QED BY <4>1, <4>2, <4>3 DEF Latest
    <3> QED BY <3>1, <3>2
  <2>4. Buffers'
    BY <2>3 DEF Buffers, HoldsLast, Back, Kept
  <2>5. Aged'
    BY <1>1, <2>3 DEF Aged, Latest, Waiting
  <2> QED BY <2>1, <2>2, <2>4, <2>5 DEF StoreInv
<1>6. CASE Places(p) = {}
  <2> DEFINE new == NewEntry(p)
             e == write(new, cycle)
  <2>1. log[p] = <<>> /\ \A k \in DOMAIN entries : entries[k].id # p
    BY <1>6 DEF StoreInv, OneEntry, Places
  <2>2. new \in Entries /\ new.id = p /\ new.absent_cycles = 0
    BY <1>3 DEF NewEntry, Entries, Slots
  <2>3. HoldsLast(new, log[p])
    <3>1. Kept(log[p]) = 0 /\ new.count = 0
      BY <1>3, <2>1 DEF Kept, NewEntry
    <3> QED BY <3>1 DEF HoldsLast
  <2> HIDE DEF new
  <2>4. e \in Entries /\ HoldsLast(e, log'[p]) /\ e.id = p /\ e.absent_cycles = 0
    BY <1>2, <1>3, <2>2, <2>3, WriteKeeps, SMTT(30)
  <2>5. entries' = Append(entries, e)
    BY <1>6 DEF Insert, new
  <2> HIDE DEF e
  <2>6. /\ entries' \in Seq(Entries) /\ Len(entries') = Len(entries) + 1
        /\ \A k \in 1 .. Len(entries) : entries'[k] = entries[k]
        /\ entries'[Len(entries) + 1] = e
    BY <1>3, <2>4, <2>5, AppendProperties
  <2> DEFINE m == Len(entries) + 1
  <2>7. DOMAIN entries' = 1 .. m /\ m \in DOMAIN entries' /\ m \notin DOMAIN entries
    BY <1>3, <2>6, LenProperties
  <2>8. \A k \in DOMAIN entries' \ {m} :
            k \in DOMAIN entries /\ entries'[k] = entries[k] /\ entries[k].id # p
    BY <1>3, <2>1, <2>6, <2>7
  <2>9. DOMAIN entries \subseteq DOMAIN entries'
    BY <1>3, <2>7
  <2> HIDE DEF m
  <2> QED BY <1>5, <2>4, <2>6, <2>7, <2>8, <2>9 DEF m
<1>7. CASE Places(p) # {}
  <2>1. PICK m \in DOMAIN entries : entries[m].id = p
    BY <1>7 DEF Places
  <2>2. Places(p) = {m}
    BY <2>1 DEF StoreInv, OneEntry, Places
  <2> DEFINE w == write(entries[m], cycle)
             e == [w EXCEPT !.seen_this_tick = TRUE]
  <2>3. /\ w \in Entries /\ HoldsLast(w, log'[p]) /\ w.id = p
    BY <1>2, <1>3, <2>1, WriteKeeps DEF StoreInv, Buffers
  <2> HIDE DEF w
  <2>4. e \in Entries /\ HoldsLast(e, log'[p]) /\ e.id = p /\ e.seen_this_tick
    BY <2>3 DEF Entries, HoldsLast
  <2>5. entries' = [k \in DOMAIN entries |-> IF k = m THEN e ELSE entries[k]]
    BY <1>7, <2>2 DEF Insert, w
  <2> HIDE DEF e
  <2>6. /\ DOMAIN entries' = DOMAIN entries /\ entries'[m] = e
        /\ \A k \in DOMAIN entries' \ {m} :
                k \in DOMAIN entries /\ entries'[k] = entries[k] /\ entries[k].id # p
    BY <2>1, <2>2, <2>5 DEF Places
  <2>7. entries' \in Seq(Entries)
    <3>1. entries' \in [1 .. Len(entries) -> Entries]
      BY <1>3, <2>4, <2>5
    <3> QED BY <1>3, <3>1, SeqDef, SMTT(30)
  <2> QED BY <1>5, <2>1, <2>4, <2>6, <2>7
<1> QED BY <1>6, <1>7

-----------------------------------------------------------------------------
\* The walk ages an entry, or clears it, and goes on to the next.
LEMMA WalkStep ==
    ASSUME StoreInv, StoreAssumption, Walking, NEW e \in Entries,
           entries' = [entries EXCEPT ![idx] = e],
           e.id = entries[idx].id, e.samples = entries[idx].samples,
           e.head = entries[idx].head, e.count = entries[idx].count,
           Passed(e, cycle - Latest(e.id)),
           idx' = idx + 1, UNCHANGED <<cycle, ticking, recorded, log>>
    PROVE  StoreInv'
<1>1. /\ entries \in Seq(Entries) /\ Len(entries) \in Nat
      /\ DOMAIN entries = 1 .. Len(entries) /\ log \in [Procs -> Seq(Nat)]
      /\ cycle \in Nat /\ idx \in 1 .. Len(entries) /\ idx \in Nat \ {0} /\ ticking
  BY StoreFacts DEF Walking
<1>2. /\ entries' \in Seq(Entries) /\ Len(entries') = Len(entries) /\ entries'[idx] = e
      /\ \A k \in DOMAIN entries \ {idx} : entries'[k] = entries[k]
      /\ DOMAIN entries' = DOMAIN entries
  <2>1. /\ [entries EXCEPT ![idx] = e] \in Seq(Entries)
        /\ Len([entries EXCEPT ![idx] = e]) = Len(entries)
    BY <1>1, ExceptSeq
  <2> QED BY <1>1, <2>1
<1>3. StoreTypeOK'
  BY <1>1, <1>2 DEF StoreInv, StoreTypeOK
<1>4. \A k \in DOMAIN entries : entries'[k].id = entries[k].id
  BY <1>1, <1>2
<1>5. OneEntry'
  <2>1. \A j, k \in DOMAIN entries' : entries'[j].id = entries'[k].id => j = k
    BY <1>2, <1>4 DEF StoreInv, OneEntry
  <2>2. \A p \in Procs : log'[p] # <<>> => Places(p)' # {}
    BY <1>2, <1>4 DEF StoreInv, OneEntry, Places
  <2>3. cycle' <= Cycles /\ idx' <= Len(entries') + 1
    BY <1>1, <1>2 DEF StoreInv, OneEntry
  <2> QED BY <2>1, <2>2, <2>3 DEF OneEntry
<1>6. Buffers'
  <2>1. ASSUME NEW k \in DOMAIN entries
        PROVE  log[entries'[k].id] # <<>> /\ HoldsLast(entries'[k], log[entries'[k].id])
    <3>1. log[entries[k].id] # <<>> /\ HoldsLast(entries[k], log[entries[k].id])
      BY DEF StoreInv, Buffers
    <3>2. CASE k = idx
      BY <1>2, <3>1, <3>2, SMTT(30) DEF HoldsLast
    <3>3. CASE k # idx
      BY <1>2, <3>1, <3>3
    <3> QED BY <3>2, <3>3
  <2> QED BY <1>2, <2>1 DEF Buffers, HoldsLast, Back, Kept
<1>7. Aged'
  <2>1. ASSUME NEW k \in DOMAIN entries
        PROVE  IF k < idx + 1 THEN Passed(entries'[k], cycle - Latest(entries'[k].id))
               ELSE Waiting(entries'[k], cycle - Latest(entries'[k].id),
                            entries'[k].id \in recorded)
    <3>1. CASE k = idx
      BY <1>1, <1>2, <3>1
    <3>2. CASE k # idx
      <4>1. k \in Nat /\ (k < idx + 1 <=> k < idx) /\ entries'[k] = entries[k]
        BY <1>1, <1>2, <3>2
      <4> QED BY <1>1, <4>1 DEF StoreInv, Aged
    <3> QED BY <3>1, <3>2
  <2> QED BY <1>1, <1>2, <2>1 DEF Aged, Latest, Passed, Waiting
<1> QED BY <1>3, <1>5, <1>6, <1>7 DEF StoreInv

\* pg_store_tick begins its walk.
LEMMA TickBeginInv ==
    ASSUME StoreInv, StoreAssumption, TickBegin
    PROVE  StoreInv'
<1>1. /\ ~ticking /\ cycle <= Cycles /\ ticking' = TRUE /\ idx' = 1
      /\ UNCHANGED <<entries, cycle, recorded, log>>
      /\ Len(entries) \in Nat /\ DOMAIN entries = 1 .. Len(entries)
  BY StoreFacts DEF TickBegin
<1>2. StoreTypeOK' /\ OneEntry'
  BY <1>1 DEF StoreInv, StoreTypeOK, OneEntry, Places
<1>3. Buffers'
  BY <1>1 DEF StoreInv, Buffers, HoldsLast, Back, Kept
<1>4. \A k \in DOMAIN entries : ~(k < 1)
  BY <1>1
<1>5. Aged'
  BY <1>1, <1>4 DEF StoreInv, Aged, Latest, Waiting, Passed
<1> QED BY <1>2, <1>3, <1>5 DEF StoreInv

\* An entry that was seen is cleared.
LEMMA TickSeenInv ==
    ASSUME StoreInv, StoreAssumption, TickSeen
    PROVE  StoreInv'
<1> DEFINE e == [entries[idx] EXCEPT !.seen_this_tick = FALSE, !.absent_cycles = 0]
<1>1. /\ Walking /\ entries[idx].seen_this_tick /\ idx' = idx + 1
      /\ UNCHANGED <<cycle, ticking, recorded, log>>
      /\ entries' = [entries EXCEPT ![idx].seen_this_tick = FALSE, ![idx].absent_cycles = 0]
      /\ ticking /\ idx \in DOMAIN entries /\ entries[idx] \in Entries
      /\ Grace \in Nat /\ ~(idx < idx)
  BY StoreFacts DEF TickSeen, Walking
<1>2. entries' = [entries EXCEPT ![idx] = e]
  BY <1>1, StoreFacts
<1>3. /\ e \in Entries /\ e.id = entries[idx].id /\ e.samples = entries[idx].samples
      /\ e.head = entries[idx].head /\ e.count = entries[idx].count
      /\ e.seen_this_tick = FALSE /\ e.absent_cycles = 0
  BY <1>1 DEF Entries
<1>4. Waiting(entries[idx], cycle - Latest(entries[idx].id), entries[idx].id \in recorded)
  BY <1>1 DEF StoreInv, Aged
<1>5. cycle - Latest(entries[idx].id) = 0
  BY <1>1, <1>4 DEF Waiting
<1> HIDE DEF e
<1>6. Passed(e, cycle - Latest(e.id))
  BY <1>1, <1>3, <1>5 DEF Passed
<1> QED BY <1>1, <1>2, <1>3, <1>6, WalkStep

\* An entry that was not seen is a cycle older.
LEMMA TickAgeInv ==
    ASSUME StoreInv, StoreAssumption, TickAge
    PROVE  StoreInv'
<1> DEFINE e == [entries[idx] EXCEPT !.absent_cycles = @ + 1]
<1>1. /\ Walking /\ ~entries[idx].seen_this_tick /\ idx' = idx + 1
      /\ entries[idx].absent_cycles + 1 <= Grace /\ entries[idx].absent_cycles \in Nat
      /\ UNCHANGED <<cycle, ticking, recorded, log>>
      /\ entries' = [entries EXCEPT ![idx].absent_cycles = @ + 1]
      /\ ticking /\ idx \in DOMAIN entries /\ entries[idx] \in Entries
      /\ Grace \in Nat /\ ~(idx < idx)
  BY StoreFacts DEF TickAge, Walking, expired
<1>2. entries' = [entries EXCEPT ![idx] = e]
  BY <1>1, StoreFacts
<1>3. /\ e \in Entries /\ e.id = entries[idx].id /\ e.samples = entries[idx].samples
      /\ e.head = entries[idx].head /\ e.count = entries[idx].count
      /\ e.seen_this_tick = entries[idx].seen_this_tick
      /\ e.absent_cycles = entries[idx].absent_cycles + 1
  BY <1>1 DEF Entries
<1>4. Waiting(entries[idx], cycle - Latest(entries[idx].id), entries[idx].id \in recorded)
  BY <1>1 DEF StoreInv, Aged
<1>5. cycle - Latest(entries[idx].id) \in Int
  <2>1. log[entries[idx].id] # <<>> /\ entries[idx].id \in Procs
    BY <1>1, StoreFacts DEF StoreInv, Buffers
  <2> QED BY <2>1, StoreFacts
<1> HIDE DEF e
<1>6. Passed(e, cycle - Latest(e.id))
  <2> DEFINE absent == cycle - Latest(entries[idx].id)
  <2>1. absent \in Int /\ absent >= 0
        /\ entries[idx].absent_cycles + 1 \in {absent, absent + 1}
    BY <1>1, <1>4, <1>5 DEF Waiting
  <2> HIDE DEF absent
  <2>2. Passed(e, absent)
    BY <1>1, <1>3, <2>1 DEF Passed
  <2> QED BY <1>3, <2>2 DEF absent
<1> QED BY <1>1, <1>2, <1>3, <1>6, WalkStep

(***************************************************************************)
(* An entry is freed no sooner than the tick of the Grace-th cycle without *)
(* its process, and never in a cycle that recorded it.                     *)
(***************************************************************************)
LEMMA FreedIsOld ==
    ASSUME StoreInv, StoreAssumption, TickFree
    PROVE  /\ entries[idx].id \in Procs /\ entries[idx].id \notin recorded
           /\ cycle - Latest(entries[idx].id) >= Grace
<1>1. /\ idx \in DOMAIN entries /\ ~(idx < idx) /\ ~entries[idx].seen_this_tick
      /\ entries[idx].absent_cycles + 1 > Grace /\ entries[idx].absent_cycles \in Nat
      /\ entries[idx].id \in Procs /\ Grace \in Nat \ {0}
  BY StoreFacts DEF TickFree, Walking, expired
<1>2. Waiting(entries[idx], cycle - Latest(entries[idx].id), entries[idx].id \in recorded)
  BY <1>1 DEF StoreInv, Aged
<1>3. log[entries[idx].id] # <<>>
  BY <1>1 DEF StoreInv, Buffers
<1> DEFINE absent == cycle - Latest(entries[idx].id)
<1>4. absent \in Int
  BY <1>1, <1>3, StoreFacts
<1> HIDE DEF absent
<1>5. entries[idx].id \notin recorded
  BY <1>1, <1>2 DEF Waiting
<1>6. entries[idx].absent_cycles \in {absent - 1, absent}
  BY <1>2, <1>5 DEF Waiting, absent
<1>7. absent >= Grace
  BY <1>1, <1>4, <1>6
<1> QED BY <1>1, <1>5, <1>7 DEF absent

\* The place of an entry before the last one was swapped into the free place i.
Origin(j, i, last) == IF j = i THEN last ELSE j

\* Every other entry is still in one place, on the same side of the walk.
LEMMA SwapFacts ==
    ASSUME NEW last \in Nat, NEW i \in 1 .. last
    PROVE  /\ \A j \in 1 .. last - 1 : /\ Origin(j, i, last) \in (1 .. last) \ {i}
                                       /\ (Origin(j, i, last) < i <=> j < i)
           /\ \A j, k \in 1 .. last - 1 : Origin(j, i, last) = Origin(k, i, last) => j = k
           /\ \A k \in (1 .. last) \ {i} : \E j \in 1 .. last - 1 : Origin(j, i, last) = k
<1>1. \A j \in 1 .. last - 1 : /\ Origin(j, i, last) \in (1 .. last) \ {i}
                               /\ (Origin(j, i, last) < i <=> j < i)
  BY DEF Origin
<1>2. \A j, k \in 1 .. last - 1 : Origin(j, i, last) = Origin(k, i, last) => j = k
  BY DEF Origin
<1>3. ASSUME NEW k \in (1 .. last) \ {i}
      PROVE  \E j \in 1 .. last - 1 : Origin(j, i, last) = k
  <2>1. CASE k = last
    <3>1. i \in 1 .. last - 1 /\ Origin(i, i, last) = k
      BY <2>1 DEF Origin
    <3> QED BY <3>1
  <2>2. CASE k # last
    <3>1. k \in 1 .. last - 1 /\ Origin(k, i, last) = k
      BY <2>2 DEF Origin
    <3> QED BY <3>1
  <2> QED BY <2>1, <2>2
<1> QED BY <1>1, <1>2, <1>3

\* An expired entry is freed, and the last one takes its place in the walk.
LEMMA TickFreeInv ==
    ASSUME StoreInv, StoreAssumption, TickFree
    PROVE  StoreInv'
<1> DEFINE last == Len(entries)
           p == entries[idx].id
           Moved(j) == Origin(j, idx, last)
<1>1. /\ entries \in Seq(Entries) /\ last \in Nat /\ DOMAIN entries = 1 .. last
      /\ log \in [Procs -> Seq(Nat)] /\ idx \in 1 .. last /\ idx \in Nat \ {0} /\ ticking
      /\ \A k \in DOMAIN entries : entries[k] \in Entries /\ entries[k].id \in Procs
      /\ UNCHANGED <<cycle, ticking, idx, recorded>>
      /\ p \in Procs /\ log' = [log EXCEPT ![p] = <<>>]
      /\ entries' = [j \in 1 .. last - 1 |-> IF j = idx THEN entries[last] ELSE entries[j]]
  BY StoreFacts DEF TickFree, Walking, free_entry_at
<1>2. /\ \A j \in 1 .. last - 1 : /\ Moved(j) \in DOMAIN entries /\ Moved(j) # idx
                                  /\ entries'[j] = entries[Moved(j)]
                                  /\ (Moved(j) < idx <=> j < idx)
      /\ \A j, k \in 1 .. last - 1 : Moved(j) = Moved(k) => j = k
      /\ \A k \in DOMAIN entries \ {idx} : \E j \in 1 .. last - 1 : Moved(j) = k
  <2>1. /\ \A j \in 1 .. last - 1 : /\ Moved(j) \in (1 .. last) \ {idx}
                                    /\ (Moved(j) < idx <=> j < idx)
        /\ \A j, k \in 1 .. last - 1 : Moved(j) = Moved(k) => j = k
        /\ \A k \in (1 .. last) \ {idx} : \E j \in 1 .. last - 1 : Moved(j) = k
    BY <1>1, SwapFacts
  <2>2. \A j \in 1 .. last - 1 : entries'[j] = entries[Moved(j)]
    BY <1>1 DEF Origin
  <2> HIDE DEF Moved
  <2> QED BY <1>1, <2>1, <2>2
<1> HIDE DEF Moved
<1> HIDE DEF last
<1>3. entries' \in Seq(Entries) /\ Len(entries') = last - 1 /\ DOMAIN entries' = 1 .. last - 1
  <2>1. entries' \in [1 .. last - 1 -> Entries] /\ last - 1 \in Nat
    BY <1>1, <1>2
  <2>2. entries' \in Seq(Entries)
    BY <2>1, SeqDef
  <2> QED BY <2>1, <2>2, LenProperties
<1>4. /\ log' \in [Procs -> Seq(Nat)] /\ log'[p] = <<>>
      /\ \A q \in Procs \ {p} : log'[q] = log[q]
  BY <1>1
<1>5. \A k \in DOMAIN entries \ {idx} : entries[k].id # p
  BY <1>1 DEF StoreInv, OneEntry
<1>6. StoreTypeOK'
  BY <1>1, <1>3, <1>4 DEF StoreInv, StoreTypeOK
<1>7. OneEntry'
  <2>1. \A j, k \in DOMAIN entries' : entries'[j].id = entries'[k].id => j = k
    BY <1>2, <1>3 DEF StoreInv, OneEntry
  <2>2. ASSUME NEW q \in Procs, log'[q] # <<>>
        PROVE  Places(q)' # {}
    <3>1. q # p /\ log[q] # <<>>
      BY <1>4, <2>2
    <3>2. PICK k \in DOMAIN entries : entries[k].id = q
      BY <3>1 DEF StoreInv, OneEntry, Places
    <3>3. k # idx
      BY <3>1, <3>2
    <3>4. PICK j \in 1 .. last - 1 : Moved(j) = k
      BY <1>2, <3>3
    <3>5. j \in DOMAIN entries' /\ entries'[j].id = q
      BY <1>2, <1>3, <3>2, <3>4
    <3> QED BY <3>5 DEF Places
  <2>3. cycle' <= Cycles /\ idx' <= Len(entries') + 1
    BY <1>1, <1>3 DEF StoreInv, OneEntry
  <2> QED BY <2>1, <2>2, <2>3 DEF OneEntry
<1>8. ASSUME NEW j \in DOMAIN entries'
      PROVE  /\ log'[entries'[j].id] # <<>>
             /\ HoldsLast(entries'[j], log'[entries'[j].id])
             /\ IF j < idx
                THEN Passed(entries'[j],
                            cycle - log'[entries'[j].id][Len(log'[entries'[j].id])])
                ELSE Waiting(entries'[j],
                             cycle - log'[entries'[j].id][Len(log'[entries'[j].id])],
                             entries'[j].id \in recorded)
  <2> DEFINE k == Moved(j)
  <2>1. /\ k \in DOMAIN entries /\ k # idx /\ entries'[j] = entries[k] /\ (k < idx <=> j < idx)
    BY <1>2, <1>3, <1>8
  <2> HIDE DEF k
  <2>2. log'[entries[k].id] = log[entries[k].id]
    BY <1>1, <1>4, <1>5, <2>1
  <2>3. log[entries[k].id] # <<>> /\ HoldsLast(entries[k], log[entries[k].id])
    BY <2>1 DEF StoreInv, Buffers
  <2>4. IF k < idx THEN Passed(entries[k], cycle - Latest(entries[k].id))
        ELSE Waiting(entries[k], cycle - Latest(entries[k].id), entries[k].id \in recorded)
    BY <1>1, <2>1 DEF StoreInv, Aged
  <2> QED BY <2>1, <2>2, <2>3, <2>4 DEF Latest
<1>9. Buffers'
  BY <1>8, SMTT(30) DEF Buffers, HoldsLast, Back, Kept
<1>10. Aged'
  <2> SUFFICES ASSUME NEW j \in DOMAIN entries'
               PROVE  IF j < idx
                      THEN Passed(entries'[j], cycle - Latest(entries[j].id)')
                      ELSE Waiting(entries'[j], cycle - Latest(entries[j].id)',
                                   entries'[j].id \in recorded)
    BY <1>1 DEF Aged, Passed, Waiting
  <2> QED BY <1>8 DEF Latest
<1> QED BY <1>6, <1>7, <1>9, <1>10 DEF StoreInv

\* The walk ends, and with it the cycle.
LEMMA TickEndInv ==
    ASSUME StoreInv, StoreAssumption, TickEnd
    PROVE  StoreInv'
<1>1. /\ ticking /\ idx > Len(entries) /\ ticking' = FALSE /\ cycle' = cycle + 1
      /\ recorded' = {} /\ UNCHANGED <<entries, idx, log>>
      /\ Len(entries) \in Nat /\ DOMAIN entries = 1 .. Len(entries)
      /\ cycle \in Nat /\ Cycles \in Nat /\ idx \in Nat \ {0}
  BY StoreFacts DEF TickEnd
<1>2. StoreTypeOK'
  <2>1. cycle' \in 1 .. Cycles + 1
    BY <1>1 DEF StoreInv, StoreTypeOK, OneEntry
  <2> QED BY <1>1, <2>1 DEF StoreInv, StoreTypeOK
<1>3. OneEntry'
  BY <1>1 DEF StoreInv, OneEntry, Places
<1>4. Buffers'
  BY <1>1 DEF StoreInv, Buffers, HoldsLast, Back, Kept
<1>5. ASSUME NEW k \in DOMAIN entries
      PROVE  Waiting(entries[k], cycle + 1 - Latest(entries[k].id), FALSE)
  <2> DEFINE latest == Latest(entries[k].id)
  <2>1. k < idx
    BY <1>1
  <2>2. Passed(entries[k], cycle - latest)
    BY <1>1, <2>1 DEF StoreInv, Aged
  <2>3. latest \in Nat /\ entries[k].absent_cycles \in Nat
    BY StoreFacts DEF StoreInv, Buffers
  <2> HIDE DEF latest
  <2>4. Waiting(entries[k], cycle + 1 - latest, FALSE)
    BY <1>1, <2>2, <2>3, StoreFacts DEF Passed, Waiting
  <2> QED BY <2>4 DEF latest
<1>6. Aged'
  <2>1. ASSUME NEW k \in DOMAIN entries
        PROVE  Waiting(entries[k], cycle' - log[entries[k].id][Len(log[entries[k].id])],
                       entries[k].id \in recorded')
    <3> DEFINE latest == Latest(entries[k].id)
    <3>1. Waiting(entries[k], cycle + 1 - latest, FALSE)
      BY <1>5
    <3>2. cycle' = cycle + 1 /\ entries[k].id \notin recorded' /\ cycle \in Nat
          /\ latest \in Nat
      BY <1>1, StoreFacts DEF StoreInv, Buffers
    <3> HIDE DEF latest
    <3>3. Waiting(entries[k], cycle' - latest, entries[k].id \in recorded')
      <4>1. entries[k].id \in recorded' <=> FALSE
        BY <3>2
      <4>2. cycle' - latest = cycle + 1 - latest
        BY <3>2
      <4> DEFINE absent == cycle' - latest
      <4>3. Waiting(entries[k], absent, FALSE)
        BY <3>1, <4>2
      <4> HIDE DEF absent
      <4>4. Waiting(entries[k], absent, entries[k].id \in recorded')
        BY <4>1, <4>3 DEF Waiting
      <4> QED BY <4>4 DEF absent
    <3> QED BY <3>3 DEF latest, Latest
  <2> QED BY <1>1, <2>1 DEF Aged, Latest, Waiting
<1> QED BY <1>2, <1>3, <1>4, <1>6 DEF StoreInv

\* Every step of the store keeps the invariant.
LEMMA StoreStep ==
    ASSUME StoreInv, StoreAssumption, [Next]_vars
    PROVE  StoreInv'
<1>1. ASSUME NEW p \in Procs, Insert(p) PROVE StoreInv'
  BY <1>1, InsertInv
<1>2. CASE TickBegin
  BY <1>2, TickBeginInv
<1>3. CASE TickSeen
  BY <1>3, TickSeenInv
<1>4. CASE TickAge
  BY <1>4, TickAgeInv
<1>5. CASE TickFree
  BY <1>5, TickFreeInv
<1>6. CASE TickEnd
  BY <1>6, TickEndInv
<1>7. CASE UNCHANGED vars
  <2>1. StoreTypeOK' /\ OneEntry'
    BY <1>7 DEF vars, StoreInv, StoreTypeOK, OneEntry, Places
  <2>2. Buffers' /\ Aged'
    BY <1>7 DEF vars, StoreInv, Buffers, HoldsLast, Back, Kept, Aged, Latest, Waiting, Passed
  <2> QED BY <2>1, <2>2 DEF StoreInv
<1> QED BY <1>1, <1>2, <1>3, <1>4, <1>5, <1>6, <1>7 DEF Next

\* The store starts empty, in its first cycle.
LEMMA StoreInitInv ==
    ASSUME Init, StoreAssumption
    PROVE  StoreInv
<1>1. /\ entries = <<>> /\ DOMAIN entries = {} /\ cycle = 1 /\ ticking = FALSE /\ idx = 1
      /\ recorded = {} /\ log = [p \in Procs |-> <<>>] /\ Cycles \in Nat
  BY DEF Init, StoreAssumption
<1>2. StoreTypeOK
  <2>1. entries \in Seq(Entries) /\ log \in [Procs -> Seq(Nat)]
    <3>1. <<>> \in Seq(Entries)
      BY EmptySeq
    <3>2. <<>> \in Seq(Nat)
      BY EmptySeq
    <3> QED BY <1>1, <3>1, <3>2
  <2>2. cycle \in 1 .. Cycles + 1 /\ idx \in Nat \ {0} /\ ticking \in BOOLEAN
    <3>1. cycle = 1 /\ Cycles \in Nat
      BY <1>1
    <3>2. cycle \in 1 .. Cycles + 1
      BY <3>1
    <3>3. ticking \in BOOLEAN
      BY DEF Init
    <3>4. idx \in Nat \ {0}
      BY <1>1
    <3> QED BY <3>2, <3>3, <3>4
  <2>3. recorded \subseteq Procs
    BY <1>1
  <2> QED BY <2>1, <2>2, <2>3 DEF StoreTypeOK
<1>3. OneEntry /\ Buffers /\ Aged
  BY <1>1 DEF OneEntry, Buffers, Aged
<1> QED BY <1>2, <1>3 DEF StoreInv

-----------------------------------------------------------------------------
(***************************************************************************)
(* No process has two entries, each buffer holds the last samples of its   *)
(* own process, and no entry is aged twice or not at all in a tick, for    *)
(* any processes, buffer and grace (pg_store_insert, pg_store_tick).       *)
(***************************************************************************)
THEOREM StoreInvariant == Spec => []StoreInv
<1> USE StoreAssumption
<1>1. Init => StoreInv
  BY StoreInitInv
<1>2. StoreInv /\ [Next]_vars => StoreInv'
  BY StoreStep
<1> QED BY <1>1, <1>2, PTL DEF Spec

\* Every variable of the store has its type.
THEOREM StoreTypes == Spec => []StoreTypeOK
BY StoreInvariant, PTL DEF StoreInv

\* pg_store_get_history returns the last samples of the process, oldest first.
THEOREM HistoriesAreLast == Spec => []HistoryIsLast
<1> USE StoreAssumption
<1>1. StoreInv => HistoryIsLast
  <2> SUFFICES ASSUME StoreInv, NEW p \in Procs, NEW n \in 1 .. NPerProc + 1
               PROVE  get_history(p, n) = Recent(log[p], n)
    BY DEF HistoryIsLast, Recent, Take, Kept
  <2>1. n \in Nat
    BY DEF StoreAssumption
  <2> QED BY <2>1, HistoryIs
<1> QED BY <1>1, StoreInvariant, PTL

\* A process with an entry was recorded in the last Grace + 1 cycles.
THEOREM GraceEnds == Spec => []GraceUpper
<1> USE StoreAssumption
<1>1. StoreInv => GraceUpper
  <2> SUFFICES ASSUME StoreInv, ~ticking, NEW p \in Procs, log[p] # <<>>
               PROVE  cycle - Latest(p) <= Grace + 1
    BY DEF GraceUpper, Absent, Latest
  <2>1. PICK k \in DOMAIN entries : entries[k].id = p
    BY DEF StoreInv, OneEntry, Places
  <2>2. Waiting(entries[k], cycle - Latest(p), p \in recorded)
    BY <2>1 DEF StoreInv, Aged
  <2>3. cycle \in Nat /\ Latest(p) \in Nat /\ Grace \in Nat /\ entries[k].absent_cycles \in Nat
    BY <2>1, StoreFacts
  <2> QED BY <2>2, <2>3 DEF Waiting
<1> QED BY <1>1, StoreInvariant, PTL

\* An entry is freed no sooner than the tick of the Grace-th cycle without it.
THEOREM GraceLasts == Spec => GraceLower
<1> USE StoreAssumption
<1>1. StoreInv /\ [Next]_vars =>
        [\A p \in Procs : log[p] # <<>> /\ log'[p] = <<>> => Absent(p) >= Grace]_vars
  <2> SUFFICES ASSUME StoreInv, Next, NEW p \in Procs, log[p] # <<>>, log'[p] = <<>>
               PROVE  cycle - Latest(p) >= Grace
    BY DEF Absent, Latest
  <2>1. ASSUME NEW q \in Procs, Insert(q) PROVE FALSE
    BY <2>1, InsertLog
  <2>2. CASE TickFree
    <3>1. entries[idx].id = p
      BY <2>2, FreedIsOld, StoreFacts DEF TickFree
    <3> QED BY <2>2, <3>1, FreedIsOld
  <2>3. CASE TickBegin \/ TickSeen \/ TickAge \/ TickEnd
    BY <2>3 DEF TickBegin, TickSeen, TickAge, TickEnd
  <2> QED BY <2>1, <2>2, <2>3 DEF Next
<1> QED BY <1>1, StoreInvariant, PTL DEF Spec, GraceLower

-----------------------------------------------------------------------------
\* One sample more: it comes last, and the oldest goes when there is no room.
LEMMA RecentAppend ==
    ASSUME StoreAssumption, NEW s \in Seq(Nat), NEW c \in Nat
    PROVE  Recent(Append(s, c), NPerProc) =
                History!LastOf(Append(Recent(s, NPerProc), c))
<1> DEFINE r == Recent(s, NPerProc)
           t == Append(s, c)
           q == Recent(t, NPerProc)
           a == Append(r, c)
           n == Len(s)
           m == Kept(s)
<1>1. /\ NPerProc \in Nat \ {0} /\ n \in Nat /\ m \in Nat /\ m <= n
      /\ m = IF n < NPerProc THEN n ELSE NPerProc
  BY DEF StoreAssumption, Kept
<1>2. r \in Seq(Nat) /\ Len(r) = m /\ \A k \in 1 .. m : r[k] = s[n - m + k]
  <2>1. Take(s, NPerProc) = m
    BY <1>1 DEF Take
  <2>2. /\ Recent(s, NPerProc) \in Seq(Nat)
        /\ Len(Recent(s, NPerProc)) = Take(s, NPerProc)
        /\ \A k \in 1 .. Take(s, NPerProc) :
             Recent(s, NPerProc)[k] = s[Len(s) - Take(s, NPerProc) + k]
    BY <1>1, RecentFacts
  <2> HIDE DEF m
  <2> QED BY <2>1, <2>2
<1>3. t \in Seq(Nat) /\ Len(t) = n + 1 /\ t[n + 1] = c /\ \A k \in 1 .. n : t[k] = s[k]
  BY AppendProperties, LenProperties
<1>4. Kept(t) = IF n < NPerProc THEN m + 1 ELSE m
  BY <1>1, <1>3 DEF Kept
<1>5. /\ q \in Seq(Nat) /\ Len(q) = Kept(t)
      /\ \A k \in 1 .. Kept(t) : q[k] = t[n + 1 - Kept(t) + k]
  <2>1. Take(t, NPerProc) = Kept(t)
    BY <1>1, <1>4 DEF Take
  <2> HIDE DEF t
  <2>2. /\ Recent(t, NPerProc) \in Seq(Nat)
        /\ Len(Recent(t, NPerProc)) = Take(t, NPerProc)
        /\ \A k \in 1 .. Take(t, NPerProc) :
             Recent(t, NPerProc)[k] = t[Len(t) - Take(t, NPerProc) + k]
    BY <1>1, <1>3, RecentFacts
  <2>3. t \in Seq(Nat) /\ Len(t) = n + 1
    BY <1>3
  <2>4. q \in Seq(Nat) /\ Len(q) = Kept(t)
    BY <2>1, <2>2
  <2>5. ASSUME NEW k \in 1 .. Kept(t)
        PROVE  q[k] = t[n + 1 - Kept(t) + k]
    <3>1. q[k] = t[Len(t) - Kept(t) + k]
      BY <2>1, <2>2
    <3>2. n \in Nat /\ Kept(t) \in Nat /\ k \in Nat /\ Len(t) = n + 1
      BY <1>1, <1>4, <2>3
    <3> HIDE DEF n, q
    <3>3. Len(t) - Kept(t) + k = n + 1 - Kept(t) + k
      BY <3>2
    <3> QED BY <3>1, <3>3
  <2> QED BY <2>4, <2>5
<1> HIDE DEF r, t, m, n, q
<1>6. a \in Seq(Nat) /\ Len(a) = m + 1 /\ a[m + 1] = c /\ \A k \in 1 .. m : a[k] = r[k]
  BY <1>2, AppendProperties
<1> HIDE DEF a
<1>7. CASE n < NPerProc
  <2>1. m = n /\ Kept(t) = n + 1 /\ ~(Len(a) > NPerProc)
    BY <1>1, <1>4, <1>6, <1>7
  <2>2. Len(q) = Len(a)
    BY <1>5, <1>6, <2>1
  <2>3. \A k \in 1 .. Len(q) : q[k] = a[k]
    <3> TAKE k \in 1 .. Len(q)
    <3>1. k \in 1 .. n + 1 /\ k \in Nat /\ n + 1 - (n + 1) + k = k
      BY <1>1, <1>5, <2>1
    <3>2. q[k] = t[k]
      BY <1>5, <2>1, <3>1
    <3>3. CASE k = n + 1
      BY <1>3, <1>6, <2>1, <3>2, <3>3
    <3>4. CASE k # n + 1
      <4>1. k \in 1 .. n /\ n - n + k = k
        BY <1>1, <3>1, <3>4
      <4> QED BY <1>2, <1>3, <1>6, <2>1, <3>2, <4>1, SMTT(30)
    <3> QED BY <3>3, <3>4
  <2>4. q = a
    BY <1>5, <1>6, <2>2, <2>3, SeqEqual
  <2>5. History!LastOf(a) = a
    BY <2>1 DEF History!LastOf
  <2> QED BY <2>4, <2>5 DEF q, t, a, r
<1>8. CASE n >= NPerProc
  <2>1. m = NPerProc /\ Kept(t) = m /\ Len(a) > NPerProc
    BY <1>1, <1>4, <1>6, <1>8
  <2>2. a # <<>>
    BY <1>1, <1>6
  <2> DEFINE b == Tail(a)
  <2>3. b \in Seq(Nat) /\ Len(b) = m /\ \A k \in 1 .. m : b[k] = a[k + 1]
    <3>1. /\ Tail(a) \in Seq(Nat) /\ Len(Tail(a)) = Len(a) - 1
          /\ \A k \in 1 .. Len(Tail(a)) : Tail(a)[k] = a[k + 1]
      BY <1>6, <2>2, HeadTailProperties
    <3>2. Len(a) - 1 = m
      BY <1>1, <1>6
    <3> QED BY <3>1, <3>2
  <2> HIDE DEF b
  <2>4. \A k \in 1 .. Len(q) : q[k] = b[k]
    <3> TAKE k \in 1 .. Len(q)
    <3>1. k \in 1 .. m /\ k \in Nat
      BY <1>1, <1>5, <2>1
    <3>2. q[k] = t[n + 1 - m + k] /\ b[k] = a[k + 1]
      BY <1>5, <2>1, <2>3, <3>1
    <3>3. CASE k = m
      <4>1. n + 1 - m + k = n + 1
        BY <1>1, <3>3
      <4> QED BY <1>3, <1>6, <3>2, <3>3, <4>1
    <3>4. CASE k # m
      <4>1. k + 1 \in 1 .. m /\ n + 1 - m + k \in 1 .. n /\ n + 1 - m + k = n - m + (k + 1)
        BY <1>1, <3>1, <3>4
      <4>2. b[k] = s[n - m + (k + 1)]
        BY <1>2, <1>6, <3>2, <4>1
      <4>3. q[k] = s[n + 1 - m + k]
        BY <1>3, <3>2, <4>1
      <4> QED BY <4>1, <4>2, <4>3
    <3> QED BY <3>3, <3>4
  <2>5. q = b
    BY <1>5, <2>1, <2>3, <2>4, SeqEqual
  <2>6. History!LastOf(a) = b
    BY <2>1 DEF History!LastOf, b
  <2> QED BY <2>5, <2>6 DEF q, t, a, r
<1> QED BY <1>1, <1>7, <1>8

\* What the users of the store see of it.
Hist == [p \in Procs |-> get_history(p, NPerProc)]

HistIs == Hist = [p \in Procs |-> Recent(log[p], NPerProc)]

\* Every step of the store records, forgets, begins a new cycle or shows nothing.
LEMMA StoreStepIsHistoryStep ==
    ASSUME StoreInv, StoreAssumption, HistIs, HistIs', [Next]_vars
    PROVE  [History!Next]_<<Hist, recorded>>
<1>1. /\ Hist = [p \in Procs |-> Recent(log[p], NPerProc)]
      /\ Hist' = [p \in Procs |-> Recent(log'[p], NPerProc)]
      /\ NPerProc \in Nat
  BY DEF HistIs, Recent, Take, Kept, StoreAssumption
<1>2. ASSUME UNCHANGED log
      PROVE  UNCHANGED Hist
  BY <1>1, <1>2
<1>3. ASSUME NEW p \in Procs, Insert(p)
      PROVE  [History!Next]_<<Hist, recorded>>
  <2>1. p \notin recorded /\ recorded' = recorded \cup {p} /\ cycle \in 1 .. Cycles + 1
    BY <1>3 DEF Insert, StoreInv, StoreTypeOK
  <2>2. log[p] \in Seq(Nat) /\ cycle \in Nat
    BY StoreFacts
  <2>3. log'[p] = Append(log[p], cycle) /\ \A q \in Procs \ {p} : log'[q] = log[q]
    BY <1>3, InsertLog
  <2>4. Hist'[p] = History!LastOf(Append(Hist[p], cycle))
    BY <1>1, <2>2, <2>3, RecentAppend
  <2>5. \A q \in Procs \ {p} : Hist'[q] = Hist[q]
    BY <1>1, <2>3
  <2>6. Hist' = [Hist EXCEPT ![p] = History!LastOf(Append(@, cycle))]
    BY <1>1, <2>4, <2>5
  <2>7. History!Record(p, cycle)
    BY <2>1, <2>6 DEF History!Record, Hist
  <2> QED BY <2>1, <2>7 DEF History!Next
<1>4. CASE TickFree
  <2> DEFINE p == entries[idx].id
  <2>1. p \in Procs /\ p \notin recorded
    BY <1>4, FreedIsOld
  <2>2. log' = [log EXCEPT ![p] = <<>>] /\ recorded' = recorded /\ log[p] # <<>>
        /\ log \in [Procs -> Seq(Nat)]
    <3>1. idx \in DOMAIN entries
      BY <1>4, StoreFacts DEF TickFree, Walking
    <3> QED BY <1>4, <3>1, StoreFacts DEF TickFree, StoreInv, Buffers
  <2> HIDE DEF p
  <2>3. log'[p] = <<>> /\ \A q \in Procs \ {p} : log'[q] = log[q]
    BY <2>1, <2>2
  <2>4. Recent(<<>>, NPerProc) = <<>>
    <3>1. <<>> \in Seq(Nat) /\ Len(<<>>) = 0
      BY EmptySeq
    <3>2. Take(<<>>, NPerProc) = 0
      BY <1>1, <3>1 DEF Take, Kept
    <3>3. /\ Recent(<<>>, NPerProc) \in Seq(Nat)
          /\ Len(Recent(<<>>, NPerProc)) = Take(<<>>, NPerProc)
      BY <1>1, <3>1, RecentFacts
    <3> QED BY <3>2, <3>3, EmptySeq
  <2>5. Hist[p] # <<>>
    <3>1. log[p] \in Seq(Nat) /\ Len(log[p]) \in Nat \ {0}
      BY <2>1, <2>2, EmptySeq
    <3>2. Take(log[p], NPerProc) > 0
      BY <3>1 DEF Take, Kept, StoreAssumption
    <3>3. Len(Recent(log[p], NPerProc)) > 0
      BY <1>1, <3>1, <3>2, RecentFacts
    <3>4. Recent(log[p], NPerProc) # <<>>
      BY <3>3
    <3> QED BY <1>1, <2>1, <3>4
  <2>6. Hist' = [Hist EXCEPT ![p] = <<>>]
    BY <1>1, <2>1, <2>3, <2>4
  <2>7. History!Forget(p)
    BY <2>1, <2>2, <2>5, <2>6 DEF History!Forget, Hist
  <2> QED BY <2>1, <2>7 DEF History!Next
<1>5. CASE TickEnd
  <2>1. UNCHANGED Hist /\ recorded' = {}
    BY <1>2, <1>5 DEF TickEnd
  <2>2. History!Tick
    BY <2>1 DEF History!Tick, Hist
  <2> QED BY <2>2 DEF History!Next
<1>6. CASE TickBegin \/ TickSeen \/ TickAge \/ UNCHANGED vars
  <2>1. UNCHANGED log /\ UNCHANGED recorded
    BY <1>6 DEF TickBegin, TickSeen, TickAge, vars
  <2> QED BY <1>2, <2>1
<1> QED BY <1>3, <1>4, <1>5, <1>6 DEF Next

(***************************************************************************)
(* The array of circular buffers, with its compaction, implements the      *)
(* history per process.                                                    *)
(***************************************************************************)
THEOREM StoreImplementsHistory == Spec => HistorySpec
<1> USE StoreAssumption
<1>1. StoreInv => HistIs
  <2> SUFFICES ASSUME StoreInv PROVE HistIs
    OBVIOUS
  <2>1. NPerProc \in Nat
    BY DEF StoreAssumption
  <2> QED BY <2>1, HistoryIs DEF HistIs, Hist
<1>2. Init => History!Init
  <2> SUFFICES ASSUME Init PROVE History!Init
    OBVIOUS
  <2>1. \A p \in Procs : get_history(p, NPerProc) = <<>>
    <3>1. DOMAIN entries = {}
      BY DEF Init
    <3>2. \A p \in Procs : Places(p) = {}
      BY <3>1 DEF Places
    <3> QED BY <3>2 DEF get_history
  <2> QED BY <2>1 DEF Init, History!Init
<1>3. StoreInv /\ HistIs /\ HistIs' /\ [Next]_vars =>
        [History!Next]_<<[p \in Procs |-> get_history(p, NPerProc)], recorded>>
  BY StoreStepIsHistoryStep DEF Hist
<1> QED BY <1>1, <1>2, <1>3, StoreInvariant, PTL DEF Spec, HistorySpec, History!Spec
=============================================================================
