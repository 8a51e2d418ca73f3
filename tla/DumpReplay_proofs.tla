--------------------------- MODULE DumpReplay_proofs ---------------------------
(***************************************************************************)
(* A dump tells the truth: whatever the emulator did, wherever the process *)
(* that wrote it crashed and however often a viewer rewinds, for memories  *)
(* of any size and any number of calls.                                    *)
(***************************************************************************)
EXTENDS DumpReplay, FiniteSetTheorems, SequenceTheorems, WellFoundedInduction, TLAPS

-----------------------------------------------------------------------------
(* Blocks in ascending order. *)

LEMMA BlockFacts ==
    /\ \E n \in Nat : Blocks = 1 .. n
    /\ \A b \in Blocks : b \in Nat
    /\ \A S \in SUBSET Blocks : IsFiniteSet(S) /\ Cardinality(S) \in Nat
<1>1. PICK n \in Blocks : Blocks = 1 .. n
  BY BlocksAssumption
<1>2. n \in 1 .. n
  BY <1>1
<1>3. n \in Nat
  BY <1>2
<1>4. IsFiniteSet(Blocks)
  BY <1>1, <1>3, FS_Interval
<1>5. \A S \in SUBSET Blocks : IsFiniteSet(S)
  BY <1>4, FS_Subset
<1>. QED BY <1>1, <1>3, <1>5, FS_CardinalityType

(* A set of blocks that is not empty has a last one. *)
LEMMA LastBlock ==
    ASSUME NEW S \in SUBSET Blocks, S # {}
    PROVE  \E b \in S : \A c \in S : c <= b
<1>1. PICK n \in Nat : Blocks = 1 .. n
  BY BlockFacts
<1>. DEFINE T == {n - b : b \in S}
<1>2. T \subseteq Nat /\ T # {}
  <2>1. \A b \in S : b \in 1 .. n
    BY <1>1
  <2>2. \A b \in S : n - b \in Nat
    BY <2>1
  <2>. QED BY <2>2
<1>3. \E x \in T : \A y \in T : ~ (<<y, x>> \in OpToRel(<, Nat))
  BY <1>2, WFMin, NatLessThanWellFounded, Zenon
<1>4. PICK b \in S : \A y \in T : ~ (<<y, n - b>> \in OpToRel(<, Nat))
  BY <1>3
<1>5. ASSUME NEW c \in S PROVE c <= b
  <2>1. b \in 1 .. n /\ c \in 1 .. n
    BY <1>1
  <2>2. n - c \in T /\ n - c \in Nat /\ n - b \in Nat
    BY <2>1
  <2>3. ~ (n - c < n - b)
    BY <1>4, <2>2 DEF OpToRel
  <2>. QED BY <2>1, <2>3
<1>. QED BY <1>5

Enumerates(s, S) ==
    /\ s \in [1 .. Cardinality(S) -> S]
    /\ \A i, j \in 1 .. Cardinality(S) : i < j => s[i] < s[j]
    /\ \A b \in S : \E i \in 1 .. Cardinality(S) : s[i] = b

(* Without its last one, a set has one block less. *)
LEMMA EnumerationGrows ==
    ASSUME NEW S \in SUBSET Blocks, NEW b \in S, \A c \in S : c <= b,
           NEW s, Enumerates(s, S \ {b})
    PROVE  \E t : Enumerates(t, S)
<1>1. IsFiniteSet(S) /\ Cardinality(S) \in Nat
  BY BlockFacts
<1>2. PICK n \in Nat : n = Cardinality(S) /\ n # 0 /\ Cardinality(S \ {b}) = n - 1
  BY <1>1, FS_RemoveElement, FS_EmptySet
<1>. DEFINE t == [i \in 1 .. n |-> IF i = n THEN b ELSE s[i]]
<1>s. /\ s \in [1 .. n - 1 -> S \ {b}]
      /\ \A i, j \in 1 .. n - 1 : i < j => s[i] < s[j]
      /\ \A c \in S \ {b} : \E i \in 1 .. n - 1 : s[i] = c
  BY <1>2 DEF Enumerates
<1>3. t \in [1 .. n -> S]
  BY <1>s
<1>4. ASSUME NEW i \in 1 .. n, NEW j \in 1 .. n, i < j PROVE t[i] < t[j]
  <2>1. i \in 1 .. n - 1 /\ t[i] = s[i]
    BY <1>4
  <2>2. CASE j = n
    <3>1. s[i] \in S /\ s[i] # b /\ s[i] <= b
      BY <1>s, <2>1
    <3>2. t[j] = b
      BY <2>2
    <3>3. s[i] \in Nat /\ b \in Nat
      BY <3>1, BlockFacts
    <3>. QED BY <2>1, <3>1, <3>2, <3>3
  <2>3. CASE j # n
    <3>1. j \in 1 .. n - 1 /\ t[j] = s[j]
      BY <2>3
    <3>. QED BY <1>s, <1>4, <2>1, <3>1
  <2>. QED BY <2>2, <2>3
<1>5. ASSUME NEW c \in S PROVE \E i \in 1 .. n : t[i] = c
  <2>1. CASE c = b
    BY <1>2, <2>1
  <2>2. CASE c # b
    <3>1. PICK i \in 1 .. n - 1 : s[i] = c
      BY <1>s, <2>2
    <3>. QED BY <3>1
  <2>. QED BY <2>1, <2>2
<1>6. Enumerates(t, S)
  BY <1>2, <1>3, <1>4, <1>5 DEF Enumerates
<1>. QED BY <1>6

(* The blocks that are written are all that changed. *)
LEMMA AscendingEnumerates ==
    ASSUME NEW S \in SUBSET Blocks
    PROVE  Enumerates(Ascending(S), S)
<1>. DEFINE Bad == {n \in Nat : \E T \in SUBSET Blocks :
                                    Cardinality(T) = n /\ ~ \E t : Enumerates(t, T)}
<1>1. \A T \in SUBSET Blocks : IsFiniteSet(T) /\ Cardinality(T) \in Nat
  BY BlockFacts
<1>2. Bad = {}
  <2>1. SUFFICES ASSUME Bad # {} PROVE FALSE
    OBVIOUS
  <2>2. \E x \in Bad : \A y \in Bad : ~ (<<y, x>> \in OpToRel(<, Nat))
    BY <2>1, WFMin, NatLessThanWellFounded, Zenon
  <2>3. PICK n \in Bad : \A y \in Bad : ~ (<<y, n>> \in OpToRel(<, Nat))
    BY <2>2
  <2>4. PICK T \in SUBSET Blocks : Cardinality(T) = n /\ ~ \E t : Enumerates(t, T)
    OBVIOUS
  <2>5. CASE T = {}
    <3>1. Cardinality(T) = 0
      BY <2>5, FS_EmptySet
    <3>2. Enumerates([i \in {} |-> 0], T)
      BY <2>5, <3>1 DEF Enumerates
    <3>. QED BY <2>4, <3>2
  <2>6. CASE T # {}
    <3>1. PICK b \in T : \A c \in T : c <= b
      BY <2>6, LastBlock
    <3>2. Cardinality(T \ {b}) = n - 1 /\ n - 1 \in Nat /\ n \in Nat
      BY <1>1, <2>4, <2>6, FS_RemoveElement, FS_EmptySet
    <3>3. n - 1 \notin Bad
      <4>1. n - 1 < n
        BY <3>2
      <4>2. <<n - 1, n>> \in OpToRel(<, Nat)
        BY <3>2, <4>1 DEF OpToRel
      <4>. QED BY <2>3, <4>2
    <3>4. \E t : Enumerates(t, T \ {b})
      BY <3>2, <3>3
    <3>. QED BY <2>4, <3>1, <3>4, EnumerationGrows
  <2>. QED BY <2>5, <2>6
<1>3. \E t : Enumerates(t, S)
  BY <1>1, <1>2
<1>4. PICK t \in [1 .. Cardinality(S) -> S] :
          \A i, j \in DOMAIN t : i < j => t[i] < t[j]
  BY <1>3 DEF Enumerates
<1>. DEFINE a == Ascending(S)
<1>5. /\ a \in [1 .. Cardinality(S) -> S]
      /\ \A i, j \in DOMAIN a : i < j => a[i] < a[j]
  BY <1>4 DEF Ascending
<1>6. IsFiniteSet(S) /\ Cardinality(S) \in Nat
  BY <1>1
<1>7. a \in Injection(1 .. Cardinality(S), S)
  <2>1. ASSUME NEW i \in 1 .. Cardinality(S), NEW j \in 1 .. Cardinality(S), i # j
        PROVE  a[i] # a[j]
    <3>1. a[i] \in Nat /\ a[j] \in Nat
      <4>1. a[i] \in S /\ a[j] \in S
        BY <1>5
      <4>. QED BY <4>1, BlockFacts
    <3>2. i < j \/ j < i
      BY <2>1
    <3>. QED BY <1>5, <3>1, <3>2
  <2>. QED BY <1>5, <2>1 DEF Injection, IsInjective
<1>8. a \in Surjection(1 .. Cardinality(S), S)
  <2>1. IsFiniteSet(1 .. Cardinality(S)) /\ Cardinality(1 .. Cardinality(S)) = Cardinality(S)
    BY <1>6, FS_Interval
  <2>. QED BY <1>6, <1>7, <2>1, FS_Injection
<1>. QED BY <1>5, <1>8 DEF Enumerates, Surjection
-----------------------------------------------------------------------------
(* Types. *)

Value == 0 .. Values
Memory == [Memories -> [Blocks -> Value]]
Device == [mem : Memory, tmem : Value, vi : Value]
Counts == [draws : Nat, frames : Nat, syncs : Nat]

Records ==
    [rec : {"update"}, of : Memories, block : Blocks, data : Value]
    \union [rec : {"flush"}, of : Memories, was : Device, host : SUBSET Blocks, touched : BOOLEAN]
    \union [rec : {"command"}, cmd : Commands]
    \union [rec : {"vi"}, value : Value]
    \union [rec : {"end_frame"}, was : Device]
    \union [rec : {"complete", "eof"}]

(* What a record may be, field by field. *)
LEMMA RecordFields ==
    ASSUME NEW r \in Records
    PROVE  /\ r.rec \in {"update", "flush", "command", "vi", "end_frame", "complete", "eof"}
           /\ r.rec = "update" => r.of \in Memories /\ r.block \in Blocks /\ r.data \in Value
           /\ r.rec = "flush" => r.of \in Memories /\ r.was \in Device /\ r.host \in SUBSET Blocks
                                     /\ r.touched \in BOOLEAN
           /\ r.rec = "command" => r.cmd \in Commands
           /\ r.rec = "vi" => r.value \in Value
           /\ r.rec = "end_frame" => r.was \in Device
  BY DEF Records

LEMMA MoreType == \A v \in Value, n \in 0 .. Values + 2 : More(v, n) \in Value
  BY NumAssumption DEF More, Value

LEMMA NewTypes == Zero \in Memory /\ NewDevice \in Device
<1>1. 0 \in Value /\ 1 \in Value
  BY NumAssumption DEF Value
<1>. QED BY <1>1 DEF Zero, NewDevice, Memory, Device, Memories

(* A command leaves the registers alone, and what it does does not depend  *)
(* on them.                                                                *)
Same(d, e) == d.mem = e.mem /\ d.tmem = e.tmem

LEMMA ExecutedFacts ==
    ASSUME NEW d \in Device, NEW cmd \in Commands, NEW wrongly \in BOOLEAN
    PROVE  /\ Executed(d, cmd, wrongly) \in Device
           /\ Executed(d, cmd, wrongly).vi = d.vi
           /\ \A e \in Device : Same(d, e) => Same(Executed(d, cmd, wrongly), Executed(e, cmd, wrongly))
<1>1. /\ cmd.op \in {"load", "draw", "sync"}
      /\ cmd.op \in {"load", "draw"} => cmd.block \in Blocks
  <2>1. CASE cmd \in [op : {"load"}, block : Textures]
    BY <2>1, BlocksAssumption
  <2>2. CASE cmd \in [op : {"draw"}, block : Blocks]
    BY <2>2
  <2>3. CASE cmd = [op |-> "sync"]
    BY <2>3
  <2>. QED BY <2>1, <2>2, <2>3 DEF Commands
<1>2. /\ d.tmem \in Value /\ d.mem \in Memory /\ d.vi \in Value
      /\ \A m \in Memories, b \in Blocks : d.mem[m][b] \in Value
  BY DEF Device, Memory
<1>3. {1, 2} \subseteq 0 .. Values + 2 /\ \A v \in Value : v + 1 \in 0 .. Values + 2 /\ v + 2 \in 0 .. Values + 2
  BY NumAssumption DEF Value
<1>4. CASE cmd.op = "load"
  <2>1. d.mem.rdram[cmd.block] \in Value
    BY <1>1, <1>2, <1>4 DEF Memories
  <2>2. More(d.mem.rdram[cmd.block], 1) \in Value
    BY <1>3, <2>1, MoreType
  <2>. QED BY <1>4, <2>1, <2>2 DEF Executed, Same, Device
<1>5. CASE cmd.op = "draw"
  <2>1. /\ d.mem.rdram[cmd.block] \in Value /\ d.mem.hidden[cmd.block] \in Value
        /\ d.tmem + 1 \in 0 .. Values + 2 /\ d.tmem + 2 \in 0 .. Values + 2
    BY <1>1, <1>2, <1>3, <1>5 DEF Memories
  <2>2. /\ More(d.mem.rdram[cmd.block], d.tmem + 1) \in Value
        /\ More(d.mem.rdram[cmd.block], d.tmem + 2) \in Value
        /\ More(d.mem.hidden[cmd.block], 1) \in Value
    BY <1>3, <2>1, MoreType
  <2>3. PICK v \in Value : v = More(d.mem.rdram[cmd.block], d.tmem + (IF wrongly THEN 2 ELSE 1))
    BY <2>2
  <2>4. /\ Executed(d, cmd, wrongly).tmem = d.tmem /\ Executed(d, cmd, wrongly).vi = d.vi
        /\ Executed(d, cmd, wrongly).mem \in Memory
        /\ Executed(d, cmd, wrongly) \in Device
    BY <1>5, <2>2, <2>3 DEF Executed, Device, Memory, Memories
  <2>5. ASSUME NEW e \in Device, Same(d, e)
        PROVE  Same(Executed(d, cmd, wrongly), Executed(e, cmd, wrongly))
    BY <1>5, <2>5 DEF Executed, Same, Device
  <2>. QED BY <2>4, <2>5
<1>6. CASE cmd.op = "sync"
  <2>1. \A e : Executed(e, cmd, wrongly) = e
    BY <1>6 DEF Executed
  <2>. QED BY <2>1
<1>. QED BY <1>1, <1>4, <1>5, <1>6
-----------------------------------------------------------------------------
(* The story that a dump tells: what a player has, and what the first      *)
(* driver makes of it, before each record.                                 *)

State == [cache : Memory, dev : Device]
Beginning == [cache |-> Zero, dev |-> NewDevice]

Step(s, r) ==
    [cache |-> IF r.rec = "update" THEN [s.cache EXCEPT ![r.of][r.block] = r.data] ELSE s.cache,
     dev   |-> CASE r.rec = "flush" -> [s.dev EXCEPT !.mem[r.of] = s.cache[r.of]]
                 [] r.rec = "command" -> Executed(s.dev, r.cmd, FALSE)
                 [] r.rec = "vi" -> [s.dev EXCEPT !.vi = r.value]
                 [] OTHER -> s.dev]

\* What a record says of the device that was recorded is true in the story, save for blocks
\* that the host has written.
Sound(s, r) ==
    /\ r.rec = "flush" =>
           /\ s.cache[r.of] = r.was.mem[r.of]
           /\ ~r.touched =>
                  /\ \A b \in Blocks \ (IF r.of = "rdram" THEN r.host ELSE {}) :
                         s.dev.mem[r.of][b] = r.was.mem[r.of][b]
                  /\ s.dev.tmem = r.was.tmem
    /\ r.rec = "end_frame" => s.dev.vi = r.was.vi /\ s.dev.mem = r.was.mem

Told(h, f) ==
    /\ h \in [1 .. Len(f) + 1 -> State]
    /\ h[1] = Beginning
    /\ \A i \in 1 .. Len(f) : h[i + 1] = Step(h[i], f[i]) /\ Sound(h[i], f[i])

LEMMA StepType ==
    ASSUME NEW s \in State, NEW r \in Records
    PROVE  Step(s, r) \in State
<1>. s.cache \in Memory /\ s.dev \in Device
  BY DEF State
<1>1. CASE r.rec = "update"
  BY <1>1, RecordFields DEF Step, State, Memory
<1>2. CASE r.rec = "flush"
  <2>1. r.of \in Memories /\ s.cache[r.of] \in [Blocks -> Value]
    BY <1>2, RecordFields DEF Memory
  <2>2. [s.dev EXCEPT !.mem[r.of] = s.cache[r.of]] \in Device
    BY <2>1 DEF Device, Memory
  <2>. QED BY <1>2, <2>2 DEF Step, State
<1>3. CASE r.rec = "command"
  BY <1>3, RecordFields, ExecutedFacts DEF Step, State
<1>4. CASE r.rec = "vi"
  BY <1>4, RecordFields DEF Step, State, Device
<1>5. CASE r.rec \in {"end_frame", "complete", "eof"}
  BY <1>5 DEF Step, State
<1>. QED BY <1>1, <1>2, <1>3, <1>4, <1>5, RecordFields

(* One more record that is sound goes on with the story. *)
LEMMA StoryGoesOn ==
    ASSUME NEW f \in Seq(Records), NEW h, Told(h, f), NEW r \in Records, Sound(h[Len(f) + 1], r)
    PROVE  \E k : Told(k, Append(f, r)) /\ k[Len(Append(f, r)) + 1] = Step(h[Len(f) + 1], r)
<1>. DEFINE n == Len(f)
            g == Append(f, r)
            k == [i \in 1 .. n + 2 |-> IF i = n + 2 THEN Step(h[n + 1], r) ELSE h[i]]
<1>1. /\ n \in Nat /\ Len(g) = n + 1 /\ g[n + 1] = r /\ \A i \in 1 .. n : g[i] = f[i]
      /\ h \in [1 .. n + 1 -> State] /\ h[1] = Beginning
      /\ \A i \in 1 .. n : h[i + 1] = Step(h[i], f[i]) /\ Sound(h[i], f[i])
  BY DEF Told
<1>2. h[n + 1] \in State /\ Step(h[n + 1], r) \in State
  BY <1>1, StepType
<1>3. k \in [1 .. n + 2 -> State] /\ k[1] = Beginning
  BY <1>1, <1>2
<1>4. ASSUME NEW i \in 1 .. n + 1 PROVE k[i + 1] = Step(k[i], g[i]) /\ Sound(k[i], g[i])
  <2>1. CASE i = n + 1
    BY <1>1, <2>1
  <2>2. CASE i # n + 1
    BY <1>1, <2>2
  <2>. QED BY <2>1, <2>2
<1>5. Told(k, g)
  BY <1>1, <1>3, <1>4 DEF Told
<1>6. k[n + 2] = Step(h[n + 1], r) /\ Len(g) + 1 = n + 2
  BY <1>1
<1>. QED BY <1>5, <1>6

(* Updates bring the blocks of one memory that differ from dev's. *)
LEMMA UpdatesTold ==
    ASSUME NEW f \in Seq(Records), NEW h, Told(h, f), NEW m \in Memories, NEW M \in [Blocks -> Value],
           NEW u \in Seq(Records), 
           \A i \in 1 .. Len(u) : u[i].rec = "update" /\ u[i].of = m /\ u[i].data = M[u[i].block],
           \A b \in Blocks : M[b] # h[Len(f) + 1].cache[m][b] => \E i \in 1 .. Len(u) : u[i].block = b
    PROVE  \E k : /\ Told(k, f \o u)
                  /\ k[Len(f \o u) + 1] = [cache |-> [h[Len(f) + 1].cache EXCEPT ![m] = M],
                                            dev |-> h[Len(f) + 1].dev]
<1>. DEFINE n == Len(f)
            s == h[n + 1]
            Brought(j) == [b \in Blocks |-> IF \E i \in 1 .. j : u[i].block = b THEN M[b] ELSE s.cache[m][b]]
            After(j) == [cache |-> [s.cache EXCEPT ![m] = Brought(j)], dev |-> s.dev]
            g == f \o u
            k == [i \in 1 .. n + Len(u) + 1 |-> IF i <= n THEN h[i] ELSE After(i - (n + 1))]
<1>1. /\ n \in Nat /\ Len(u) \in Nat /\ Len(g) = n + Len(u)
      /\ \A i \in 1 .. n : g[i] = f[i]
      /\ \A j \in 1 .. Len(u) : g[n + j] = u[j]
  <2>1. g \in Seq(Records) /\ Len(g) = n + Len(u)
        /\ \A i \in 1 .. n + Len(u) : g[i] = IF i <= n THEN f[i] ELSE u[i - n]
    BY ConcatProperties
  <2>2. n \in Nat /\ Len(u) \in Nat
    OBVIOUS
  <2>. QED BY <2>1, <2>2
<1>2. /\ h \in [1 .. n + 1 -> State] /\ h[1] = Beginning
      /\ \A i \in 1 .. n : h[i + 1] = Step(h[i], f[i]) /\ Sound(h[i], f[i])
      /\ s \in State /\ s.cache \in Memory
  BY <1>1 DEF Told, State
<1>3. \A j \in 0 .. Len(u) : After(j) \in State /\ After(j).cache[m] = Brought(j)
  <2>1. \A j \in 0 .. Len(u) : Brought(j) \in [Blocks -> Value]
    BY <1>2 DEF Memory
  <2>. HIDE DEF Brought
  <2>. QED BY <1>2, <2>1 DEF State, Memory
<1>4. Brought(0) = s.cache[m] /\ After(0) = s
  <2>1. Brought(0) = s.cache[m]
    BY <1>2 DEF Memory
  <2>. HIDE DEF Brought
  <2>2. [s.cache EXCEPT ![m] = s.cache[m]] = s.cache
    BY <1>2 DEF Memory
  <2>. QED BY <1>2, <2>1, <2>2 DEF State
<1>5. Brought(Len(u)) = M
  OBVIOUS
<1>6. ASSUME NEW j \in 1 .. Len(u) PROVE After(j) = Step(After(j - 1), u[j]) /\ Sound(After(j - 1), u[j])
  <2>1. u[j] \in Records /\ u[j].rec = "update" /\ u[j].of = m /\ u[j].block \in Blocks
        /\ u[j].data = M[u[j].block] /\ j - 1 \in 0 .. Len(u)
    BY RecordFields
  <2>2. Brought(j) = [Brought(j - 1) EXCEPT ![u[j].block] = u[j].data]
    <3>1. ASSUME NEW b \in Blocks
          PROVE  Brought(j)[b] = IF b = u[j].block THEN M[b] ELSE Brought(j - 1)[b]
      <4>1. \A i : i \in 1 .. j <=> i \in 1 .. j - 1 \/ i = j
        BY <2>1
      <4>. QED BY <4>1
    <3>2. Brought(j) \in [Blocks -> Value] /\ Brought(j - 1) \in [Blocks -> Value]
      BY <1>2 DEF Memory
    <3>. HIDE DEF Brought
    <3>. QED BY <2>1, <3>1, <3>2
  <2>. HIDE DEF Brought
  <2>3. [After(j - 1).cache EXCEPT ![m][u[j].block] = u[j].data]
            = [s.cache EXCEPT ![m] = [Brought(j - 1) EXCEPT ![u[j].block] = u[j].data]]
    BY <1>2, <2>1 DEF Memory
  <2>4. Step(After(j - 1), u[j])
            = [cache |-> [After(j - 1).cache EXCEPT ![m][u[j].block] = u[j].data], dev |-> s.dev]
    BY <2>1 DEF Step
  <2>. QED BY <2>1, <2>2, <2>3, <2>4 DEF Sound
<1>. HIDE DEF Brought, After
<1>7. k \in [1 .. n + Len(u) + 1 -> State] /\ k[1] = Beginning
  <2>1. \A i \in 1 .. n + Len(u) + 1 : k[i] \in State
    BY <1>1, <1>2, <1>3
  <2>2. k[1] = Beginning
    BY <1>1, <1>2, <1>4
  <2>. QED BY <2>1, <2>2
<1>8. ASSUME NEW i \in 1 .. n + Len(u) PROVE k[i + 1] = Step(k[i], g[i]) /\ Sound(k[i], g[i])
  <2>1. CASE i < n
    BY <1>1, <1>2, <2>1
  <2>2. CASE i = n
    <3>1. k[i + 1] = After(0) /\ k[i] = h[i] /\ g[i] = f[i] /\ i \in 1 .. n
      BY <1>1, <2>2
    <3>. QED BY <1>2, <1>4, <2>2, <3>1
  <2>3. CASE i > n
    <3>1. PICK j \in 1 .. Len(u) : i = n + j
      BY <1>1, <2>3
    <3>2. k[i + 1] = After(j) /\ k[i] = After(j - 1) /\ g[i] = u[j]
      BY <1>1, <3>1
    <3>. QED BY <1>6, <3>2
  <2>. QED BY <1>1, <2>1, <2>2, <2>3
<1>9. Told(k, g)
  BY <1>1, <1>7, <1>8 DEF Told
<1>10. k[Len(g) + 1] = [cache |-> [s.cache EXCEPT ![m] = M], dev |-> s.dev]
  <2>1. k[n + Len(u) + 1] = After(Len(u))
    <3>1. n + Len(u) + 1 > n /\ n + Len(u) + 1 - (n + 1) = Len(u) /\ n + Len(u) + 1 \in 1 .. n + Len(u) + 1
      BY <1>1
    <3>. QED BY <3>1
  <2>. QED BY <1>1, <1>5, <2>1 DEF After
<1>. QED BY <1>9, <1>10
-----------------------------------------------------------------------------
(* What a flush tells. *)

\* The memories agree where the host has not written since the last flush, and TMEM does.
Behind(written, d, e) ==
    /\ \A m \in Memories : \A b \in Blocks \ (IF m = "rdram" THEN written ELSE {}) : d.mem[m][b] = e.mem[m][b]
    /\ d.tmem = e.tmem

LEMMA BehindNothing ==
    ASSUME host = {}, NEW d \in Device, NEW e \in Device
    PROVE  Behind(host, d, e) <=> Same(d, e)
<1>1. d.mem \in Memory /\ e.mem \in Memory
  BY DEF Device
<1>2. (\A m \in Memories, b \in Blocks : d.mem[m][b] = e.mem[m][b]) => d.mem = e.mem
  <2>1. SUFFICES ASSUME \A m \in Memories, b \in Blocks : d.mem[m][b] = e.mem[m][b] PROVE d.mem = e.mem
    OBVIOUS
  <2>2. \A m \in Memories : d.mem[m] = e.mem[m]
    BY <1>1, <2>1 DEF Memory
  <2>. QED BY <1>1, <2>2 DEF Memory
<1>. QED BY <1>2 DEF Behind, Same

NoEnd(f) == \A i \in 1 .. Len(f) : f[i].rec # "eof"

\* One memory: the player has what the device has, and so have the drivers.
FlushedOne(s, m) == [cache |-> [s.cache EXCEPT ![m] = dev.mem[m]], dev |-> [s.dev EXCEPT !.mem[m] = dev.mem[m]]]

LEMMA FlushTold ==
    ASSUME NEW f \in Seq(Records), NEW h, Told(h, f), NoEnd(f), NEW m \in Memories,
           dev \in Device, cache \in Memory, host \in SUBSET Blocks, touched \in BOOLEAN,
           h[Len(f) + 1].cache[m] = cache[m], ~touched => Behind(host, h[Len(f) + 1].dev, dev)
    PROVE  /\ f \o Flush(m) \in Seq(Records) /\ Flush(m) \in Seq(Records) /\ NoEnd(f \o Flush(m))
           /\ \E k : /\ Told(k, f \o Flush(m))
                     /\ k[Len(f \o Flush(m)) + 1] = FlushedOne(h[Len(f) + 1], m)
<1>. DEFINE s == h[Len(f) + 1]
            blocks == Ascending(Changed(m))
            M == dev.mem[m]
            u == [i \in 1 .. Len(blocks) |->
                     [rec |-> "update", of |-> m, block |-> blocks[i], data |-> M[blocks[i]]]]
            r == [rec |-> "flush", of |-> m, was |-> dev, host |-> host, touched |-> touched]
<1>1. /\ Changed(m) \in SUBSET Blocks /\ Enumerates(blocks, Changed(m))
      /\ Cardinality(Changed(m)) \in Nat
  BY AscendingEnumerates, BlockFacts DEF Changed
<1>2. /\ Len(blocks) \in Nat /\ \A i \in 1 .. Len(blocks) : blocks[i] \in Changed(m)
      /\ \A b \in Changed(m) : \E i \in 1 .. Len(blocks) : blocks[i] = b
  <2>1. blocks \in Seq(Changed(m)) /\ Len(blocks) = Cardinality(Changed(m))
    BY <1>1 DEF Enumerates
  <2>. QED BY <1>1, <2>1 DEF Enumerates
<1>3. M \in [Blocks -> Value] /\ dev.mem \in Memory /\ s \in State
  BY DEF Device, Memory, Told
<1>. HIDE DEF blocks
<1>4. /\ u \in Seq(Records) /\ Len(u) = Len(blocks)
      /\ \A i \in 1 .. Len(u) : /\ u[i].rec = "update" /\ u[i].of = m /\ u[i].block = blocks[i]
                                /\ u[i].data = M[u[i].block]
  <2>1. \A i \in 1 .. Len(blocks) :
            [rec |-> "update", of |-> m, block |-> blocks[i], data |-> M[blocks[i]]] \in Records
    BY <1>1, <1>2, <1>3 DEF Records
  <2>2. u \in Seq(Records) /\ Len(u) = Len(blocks)
    BY <1>2, <2>1, IsASeq
  <2>3. \A i \in 1 .. Len(blocks) :
            u[i] = [rec |-> "update", of |-> m, block |-> blocks[i], data |-> M[blocks[i]]]
    OBVIOUS
  <2>. HIDE DEF u, M
  <2>4. ASSUME NEW i \in 1 .. Len(u)
        PROVE  u[i].rec = "update" /\ u[i].of = m /\ u[i].block = blocks[i] /\ u[i].data = M[u[i].block]
    <3>1. u[i] = [rec |-> "update", of |-> m, block |-> blocks[i], data |-> M[blocks[i]]]
      BY <2>2, <2>3
    <3>. QED BY <3>1
  <2>. QED BY <2>2, <2>4
<1>5. r \in Records
  BY DEF Records
<1>. HIDE DEF u
<1>6. PICK k1 : /\ Told(k1, f \o u)
                /\ k1[Len(f \o u) + 1] = [cache |-> [s.cache EXCEPT ![m] = M], dev |-> s.dev]
  <2>1. \A b \in Blocks : M[b] # s.cache[m][b] => \E i \in 1 .. Len(u) : u[i].block = b
    <3>1. SUFFICES ASSUME NEW b \in Blocks, M[b] # cache[m][b] PROVE \E i \in 1 .. Len(u) : u[i].block = b
      OBVIOUS
    <3>2. b \in Changed(m)
      BY <3>1 DEF Changed
    <3>3. PICK i \in 1 .. Len(blocks) : blocks[i] = b
      BY <1>2, <3>2
    <3>. QED BY <1>4, <3>3
  <2>. HIDE DEF M
  <2>. QED BY <1>3, <1>4, <2>1, UpdatesTold
<1>7. f \o u \in Seq(Records) /\ NoEnd(f \o u)
  <2>0. u \in Seq(Records)
    BY <1>4
  <2>1. f \o u \in Seq(Records) /\ Len(f \o u) = Len(f) + Len(u)
        /\ \A i \in 1 .. Len(f) + Len(u) : (f \o u)[i] = IF i <= Len(f) THEN f[i] ELSE u[i - Len(f)]
    BY <2>0, ConcatProperties
  <2>2. \A i \in 1 .. Len(u) : u[i].rec # "eof"
    BY <1>4
  <2>3. Len(f) \in Nat /\ Len(u) \in Nat
    BY <1>4
  <2>4. ASSUME NEW i \in 1 .. Len(f) + Len(u) PROVE (f \o u)[i].rec # "eof"
    <3>1. CASE i <= Len(f)
      BY <2>1, <2>3, <3>1 DEF NoEnd
    <3>2. CASE i > Len(f)
      <4>1. i - Len(f) \in 1 .. Len(u) /\ (f \o u)[i] = u[i - Len(f)]
        BY <2>1, <2>3, <3>2
      <4>. QED BY <2>2, <4>1
    <3>. QED BY <2>3, <3>1, <3>2
  <2>. QED BY <2>1, <2>4 DEF NoEnd
<1>8. Sound(k1[Len(f \o u) + 1], r)
  <2>1. [s.cache EXCEPT ![m] = M][m] = M
    BY <1>3 DEF State, Memory
  <2>. QED BY <1>6, <2>1 DEF Sound, Behind
<1>9. PICK k : /\ Told(k, Append(f \o u, r))
               /\ k[Len(Append(f \o u, r)) + 1] = Step(k1[Len(f \o u) + 1], r)
  BY <1>5, <1>6, <1>7, <1>8, StoryGoesOn
<1>10. Step(k1[Len(f \o u) + 1], r)
           = [cache |-> [s.cache EXCEPT ![m] = M], dev |-> [s.dev EXCEPT !.mem[m] = M]]
  <2>1. [s.cache EXCEPT ![m] = M][m] = M
    BY <1>3 DEF State, Memory
  <2>. QED BY <1>6, <2>1 DEF Step
<1>11. Flush(m) = u \o <<r>>
  BY DEF Flush, u, blocks
<1>12. f \o Flush(m) = Append(f \o u, r) /\ Flush(m) \in Seq(Records)
  <2>1. <<r>> \in Seq(Records)
    BY <1>5
  <2>2. f \o Flush(m) = (f \o u) \o <<r>>
    BY <1>4, <1>11, <2>1, ConcatAssociative
  <2>3. Flush(m) \in Seq(Records)
    BY <1>4, <1>11, <2>1, ConcatProperties
  <2>. HIDE DEF r
  <2>. QED BY <1>5, <1>7, <2>2, <2>3, AppendIsConcat
<1>13. Append(f \o u, r) \in Seq(Records) /\ NoEnd(Append(f \o u, r))
  BY <1>5, <1>7, AppendProperties DEF NoEnd
<1>14. Step(k1[Len(f \o u) + 1], r) = FlushedOne(s, m)
  BY <1>10 DEF FlushedOne
<1>. HIDE DEF r
<1>. QED BY <1>9, <1>12, <1>13, <1>14

\* Both memories: the player has what the device has, and so have the drivers.
FlushedState(s) == [cache |-> dev.mem, dev |-> [s.dev EXCEPT !.mem = dev.mem]]

LEMMA FlushAllTold ==
    ASSUME NEW f \in Seq(Records), NEW h, Told(h, f), NoEnd(f),
           dev \in Device, cache \in Memory, host \in SUBSET Blocks, touched \in BOOLEAN,
           h[Len(f) + 1].cache = cache, ~touched => Behind(host, h[Len(f) + 1].dev, dev)
    PROVE  /\ f \o FlushAll \in Seq(Records) /\ NoEnd(f \o FlushAll)
           /\ \E k : /\ Told(k, f \o FlushAll)
                     /\ k[Len(f \o FlushAll) + 1] = FlushedState(h[Len(f) + 1])
<1>. DEFINE s == h[Len(f) + 1]
            g == f \o Flush("rdram")
<1>0. "rdram" \in Memories /\ "hidden" \in Memories /\ s \in State /\ dev.mem \in Memory
      /\ s.cache \in Memory /\ s.dev.mem \in Memory
  BY DEF Memories, Told, State, Device
<1>r. h[Len(f) + 1].cache["rdram"] = cache["rdram"]
  OBVIOUS
<1>1a. PICK k1 : Told(k1, g) /\ k1[Len(g) + 1] = FlushedOne(s, "rdram")
  BY <1>0, <1>r, FlushTold
<1>1. /\ Told(k1, g)
      /\ k1[Len(g) + 1] = [cache |-> [s.cache EXCEPT !["rdram"] = dev.mem["rdram"]],
                           dev   |-> [s.dev EXCEPT !.mem["rdram"] = dev.mem["rdram"]]]
  BY <1>1a DEF FlushedOne
<1>2. g \in Seq(Records) /\ Flush("rdram") \in Seq(Records) /\ NoEnd(g)
  BY <1>0, <1>r, FlushTold
<1>3. k1[Len(g) + 1].cache["hidden"] = cache["hidden"]
  BY <1>0, <1>1 DEF Memory
<1>4. ~touched => Behind(host, k1[Len(g) + 1].dev, dev)
  <2>1. SUFFICES ASSUME ~touched PROVE Behind(host, k1[Len(g) + 1].dev, dev)
    OBVIOUS
  <2>2. /\ k1[Len(g) + 1].dev.mem["rdram"] = dev.mem["rdram"]
        /\ k1[Len(g) + 1].dev.mem["hidden"] = s.dev.mem["hidden"]
        /\ k1[Len(g) + 1].dev.tmem = s.dev.tmem
    BY <1>0, <1>1 DEF Memory, Device, State
  <2>3. Behind(host, s.dev, dev)
    BY <2>1
  <2>. QED BY <2>2, <2>3 DEF Behind, Memories
<1>5a. PICK k : /\ Told(k, g \o Flush("hidden"))
                /\ k[Len(g \o Flush("hidden")) + 1] = FlushedOne(k1[Len(g) + 1], "hidden")
  <2>1. "hidden" \in Memories /\ Told(k1, g) /\ g \in Seq(Records) /\ NoEnd(g)
    BY <1>0, <1>1, <1>2
  <2>. HIDE DEF g, s
  <2>. QED BY <2>1, <1>3, <1>4, FlushTold
<1>5. /\ Told(k, g \o Flush("hidden"))
      /\ k[Len(g \o Flush("hidden")) + 1]
             = [cache |-> [k1[Len(g) + 1].cache EXCEPT !["hidden"] = dev.mem["hidden"]],
                dev   |-> [k1[Len(g) + 1].dev EXCEPT !.mem["hidden"] = dev.mem["hidden"]]]
  BY <1>5a DEF FlushedOne
<1>6. g \o Flush("hidden") \in Seq(Records) /\ NoEnd(g \o Flush("hidden")) /\ Flush("hidden") \in Seq(Records)
  <2>1. "hidden" \in Memories /\ Told(k1, g) /\ g \in Seq(Records) /\ NoEnd(g)
    BY <1>0, <1>1, <1>2
  <2>. HIDE DEF g, s
  <2>. QED BY <2>1, <1>3, <1>4, FlushTold
<1>7. f \o FlushAll = g \o Flush("hidden")
  BY <1>2, <1>6, ConcatAssociative DEF FlushAll
<1>8. \A c \in Memory : [[c EXCEPT !["rdram"] = dev.mem["rdram"]] EXCEPT !["hidden"] = dev.mem["hidden"]] = dev.mem
  BY <1>0 DEF Memory, Memories
<1>9. k[Len(f \o FlushAll) + 1] = FlushedState(s)
  <2>1. k[Len(f \o FlushAll) + 1].cache = dev.mem
    BY <1>0, <1>1, <1>5, <1>7, <1>8
  <2>2. k[Len(f \o FlushAll) + 1].dev = [s.dev EXCEPT !.mem = dev.mem]
    <3>1. k[Len(f \o FlushAll) + 1].dev
              = [[s.dev EXCEPT !.mem["rdram"] = dev.mem["rdram"]] EXCEPT !.mem["hidden"] = dev.mem["hidden"]]
      <4>1. k1[Len(g) + 1].dev = [s.dev EXCEPT !.mem["rdram"] = dev.mem["rdram"]]
        BY <1>1
      <4>2. k[Len(f \o FlushAll) + 1].dev = [k1[Len(g) + 1].dev EXCEPT !.mem["hidden"] = dev.mem["hidden"]]
        BY <1>5, <1>7
      <4>. HIDE DEF g, s
      <4>. QED BY <4>1, <4>2
    <3>2. s.dev \in Device
      BY <1>0 DEF State
    <3>. HIDE DEF s
    <3>3. /\ [[s.dev EXCEPT !.mem["rdram"] = dev.mem["rdram"]] EXCEPT !.mem["hidden"] = dev.mem["hidden"]]
                 = [s.dev EXCEPT !.mem = [[s.dev.mem EXCEPT !["rdram"] = dev.mem["rdram"]]
                                             EXCEPT !["hidden"] = dev.mem["hidden"]]]
      BY <1>0, <3>2 DEF Device, Memory
    <3>4. [[s.dev.mem EXCEPT !["rdram"] = dev.mem["rdram"]] EXCEPT !["hidden"] = dev.mem["hidden"]] = dev.mem
      BY <1>0, <1>8
    <3>. QED BY <3>1, <3>3, <3>4
  <2>. QED BY <1>5, <1>7, <2>1, <2>2 DEF FlushedState
<1>. QED BY <1>5, <1>6, <1>7, <1>9
-----------------------------------------------------------------------------
(* What the queue will make of the device.  The registers of the VI do not *)
(* matter to it.                                                           *)

Reaches(d, q, e) ==
    \E g \in [1 .. Len(q) + 1 -> Device] :
        /\ Same(d, g[1])
        /\ \A i \in 1 .. Len(q) : Same(g[i + 1], Executed(g[i], q[i], FALSE))
        /\ g[Len(q) + 1] = e

LEMMA ReachesIdle ==
    ASSUME NEW d \in Device, NEW e \in Device
    PROVE  Reaches(d, <<>>, e) <=> Same(d, e)
<1>1. ASSUME Same(d, e) PROVE Reaches(d, <<>>, e)
  <2>. DEFINE g == [i \in 1 .. 1 |-> e]
  <2>1. g \in [1 .. Len(<<>>) + 1 -> Device] /\ g[1] = e /\ g[Len(<<>>) + 1] = e
    OBVIOUS
  <2>. HIDE DEF g
  <2>. QED BY <1>1, <2>1 DEF Reaches
<1>2. ASSUME Reaches(d, <<>>, e) PROVE Same(d, e)
  <2>1. Len(<<>>) + 1 = 1
    OBVIOUS
  <2>. QED BY <1>2, <2>1 DEF Reaches
<1>. QED BY <1>1, <1>2

LEMMA ReachesSame ==
    ASSUME NEW d, NEW c, NEW q, NEW e, Same(d, c), Reaches(d, q, e)
    PROVE  Reaches(c, q, e)
  BY DEF Reaches, Same

LEMMA ReachesAppend ==
    ASSUME NEW d, NEW q \in Seq(Commands), NEW e \in Device, Reaches(d, q, e), NEW cmd \in Commands
    PROVE  Executed(e, cmd, FALSE) \in Device /\ Reaches(d, Append(q, cmd), Executed(e, cmd, FALSE))
<1>. DEFINE x == Executed(e, cmd, FALSE)
            n == Len(q)
<1>1. x \in Device
  BY ExecutedFacts
<1>2. PICK g \in [1 .. n + 1 -> Device] :
          /\ Same(d, g[1])
          /\ \A i \in 1 .. n : Same(g[i + 1], Executed(g[i], q[i], FALSE))
          /\ g[n + 1] = e
  BY DEF Reaches
<1>3. /\ n \in Nat /\ Len(Append(q, cmd)) = n + 1 /\ Append(q, cmd)[n + 1] = cmd
      /\ \A i \in 1 .. n : Append(q, cmd)[i] = q[i]
  OBVIOUS
<1>. DEFINE k == [i \in 1 .. n + 2 |-> IF i = n + 2 THEN x ELSE g[i]]
<1>. HIDE DEF x
<1>4. k \in [1 .. n + 2 -> Device] /\ Same(d, k[1]) /\ k[n + 2] = x
  BY <1>1, <1>2, <1>3
<1>5. ASSUME NEW i \in 1 .. n + 1 PROVE Same(k[i + 1], Executed(k[i], Append(q, cmd)[i], FALSE))
  <2>1. CASE i = n + 1
    <3>1. k[i + 1] = x /\ k[i] = e /\ Append(q, cmd)[i] = cmd
      BY <1>2, <1>3, <2>1
    <3>. QED BY <3>1 DEF Same, x
  <2>2. CASE i # n + 1
    <3>1. k[i + 1] = g[i + 1] /\ k[i] = g[i] /\ Append(q, cmd)[i] = q[i] /\ i \in 1 .. n
      BY <1>3, <2>2
    <3>. QED BY <1>2, <3>1
  <2>. QED BY <2>1, <2>2
<1>. HIDE DEF k
<1>6. Reaches(d, Append(q, cmd), x)
  <2>1. Len(Append(q, cmd)) + 1 = n + 2
    BY <1>3
  <2>2. /\ k \in [1 .. Len(Append(q, cmd)) + 1 -> Device]
        /\ \A i \in 1 .. Len(Append(q, cmd)) : Same(k[i + 1], Executed(k[i], Append(q, cmd)[i], FALSE))
        /\ k[Len(Append(q, cmd)) + 1] = x
    BY <1>3, <1>4, <1>5, <2>1
  <2>. QED BY <1>4, <2>2 DEF Reaches
<1>. QED BY <1>1, <1>6 DEF x

LEMMA ReachesTail ==
    ASSUME NEW d \in Device, NEW q \in Seq(Commands), q # <<>>, NEW e, Reaches(d, q, e)
    PROVE  Reaches(Executed(d, Head(q), FALSE), Tail(q), e)
<1>. DEFINE n == Len(q)
<1>1. PICK g \in [1 .. n + 1 -> Device] :
          /\ Same(d, g[1])
          /\ \A i \in 1 .. n : Same(g[i + 1], Executed(g[i], q[i], FALSE))
          /\ g[n + 1] = e
  BY DEF Reaches
<1>2. /\ n \in Nat /\ n > 0 /\ Len(Tail(q)) = n - 1 /\ Head(q) = q[1] /\ q[1] \in Commands
      /\ \A i \in 1 .. n - 1 : Tail(q)[i] = q[i + 1]
  OBVIOUS
<1>. DEFINE k == [i \in 1 .. n |-> g[i + 1]]
<1>3. k \in [1 .. n -> Device] /\ k[1] = g[2] /\ k[n] = e
  <2>1. \A i \in 1 .. n : k[i] = g[i + 1] /\ g[i + 1] \in Device
    <3>1. \A i \in 1 .. n : i + 1 \in 1 .. n + 1
      BY <1>2
    <3>. QED BY <1>1, <3>1
  <2>2. 1 \in 1 .. n /\ n \in 1 .. n /\ 1 + 1 = 2
    BY <1>2
  <2>3. k \in [1 .. n -> Device]
    BY <2>1
  <2>. HIDE DEF k
  <2>. QED BY <1>1, <2>1, <2>2, <2>3
<1>4. Same(Executed(d, Head(q), FALSE), k[1])
  <2>1. g[1] \in Device /\ Same(g[2], Executed(g[1], q[1], FALSE))
    <3>1. 1 \in 1 .. n /\ 1 \in 1 .. n + 1 /\ 1 + 1 = 2
      BY <1>2
    <3>. HIDE DEF k, n
    <3>2. Same(g[1 + 1], Executed(g[1], q[1], FALSE))
      BY <1>1, <3>1
    <3>. QED BY <1>1, <3>1, <3>2
  <2>2. Same(Executed(d, q[1], FALSE), Executed(g[1], q[1], FALSE))
    BY <1>1, <1>2, <2>1, ExecutedFacts
  <2>. QED BY <1>2, <1>3, <2>1, <2>2 DEF Same
<1>5. ASSUME NEW i \in 1 .. n - 1 PROVE Same(k[i + 1], Executed(k[i], Tail(q)[i], FALSE))
  <2>1. k[i + 1] = g[i + 2] /\ k[i] = g[i + 1] /\ Tail(q)[i] = q[i + 1] /\ i + 1 \in 1 .. n
    BY <1>2
  <2>2. g[(i + 1) + 1] = g[i + 2]
    BY <1>2
  <2>. QED BY <1>1, <2>1, <2>2
<1>. HIDE DEF k
<1>6. Len(Tail(q)) + 1 = n /\ 1 .. Len(Tail(q)) = 1 .. n - 1
  BY <1>2
<1>. QED BY <1>3, <1>4, <1>5, <1>6 DEF Reaches
-----------------------------------------------------------------------------
(* The invariant.                                                          *)

TypeOK ==
    /\ dev \in Device /\ queue \in Seq(Commands) /\ open \in BOOLEAN /\ cache \in Memory
    /\ file \in Seq(Records) /\ host \in SUBSET Blocks /\ touched \in BOOLEAN
    /\ phase \in {"record", "replay"} /\ (phase = "replay" => user \in Users)
    /\ at \in 1 .. Len(file) + 1 /\ player_cache \in Memory /\ drivers \in [1 .. 2 -> Device]
    /\ wrong \in BOOLEAN /\ seen \in Counts /\ last \in Counts
    /\ is_eof \in BOOLEAN /\ failed \in BOOLEAN /\ result \in {"none", "failure", "success"}
    /\ rewinds \in Nat

\* While it is written, the dump knows what it has flushed, and leads to what the device will be.
Recorded(h) ==
    /\ NoEnd(file)
    /\ h[Len(file) + 1].cache = cache
    /\ h[Len(file) + 1].dev.vi = dev.vi
    /\ ~touched =>
           /\ \E e \in Device : Reaches(dev, queue, e) /\ Behind(host, h[Len(file) + 1].dev, e)
           /\ host # {} => Idle /\ ~open

\* No one reads it yet.
AtRest ==
    /\ at = 1 /\ player_cache = Zero /\ drivers = <<NewDevice, NewDevice>> /\ ~wrong
    /\ ~is_eof /\ ~failed /\ result = "none" /\ rewinds = 0

\* A reader is somewhere in the story.
Replaying(h) ==
    /\ \A i \in 1 .. Len(file) : file[i].rec = "eof" => i = Len(file)
    /\ player_cache = h[at].cache
    /\ rewinds = 0 => drivers[1] = h[at].dev
    /\ at > 1 /\ file[at - 1].rec = "flush" =>
           \A i \in 1 .. 2 : drivers[i].mem[file[at - 1].of] = h[at - 1].cache[file[at - 1].of]

\* A difference is found before the validator goes on, and it only passes at the end.
Judging ==
    /\ wrong =>
           \/ result = "failure"
           \/ result = "none" /\ Differ(drivers) /\ seen.frames >= user.begin_frame /\ ~GoesOn
    /\ is_eof => file # <<>> /\ file[Len(file)].rec = "eof" /\ AtEnd
    /\ result = "success" => is_eof /\ ~wrong
    /\ user.tool = "viewer" => ~wrong /\ ~is_eof /\ result = "none"

Inv ==
    /\ TypeOK
    /\ \E h : /\ Told(h, file)
              /\ phase = "record" => AtRest /\ Recorded(h)
              /\ phase = "replay" => Replaying(h) /\ Judging
-----------------------------------------------------------------------------
(* The emulator. *)

LEMMA InitInv == Init => Inv
<1>. SUFFICES ASSUME Init PROVE Inv
  OBVIOUS
<1>. USE DEF Init
<1>1. /\ Zero \in Memory /\ NewDevice \in Device /\ <<>> \in Seq(Commands) /\ <<>> \in Seq(Records)
      /\ Len(<<>>) = 0 /\ drivers \in [1 .. 2 -> Device]
  BY NewTypes
<1>2. TypeOK
  <2>1. /\ dev \in Device /\ queue \in Seq(Commands) /\ file \in Seq(Records) /\ cache \in Memory
        /\ player_cache \in Memory
    BY <1>1
  <2>2. seen \in Counts /\ last \in Counts
    BY DEF Counts
  <2>3. at \in 1 .. Len(file) + 1 /\ rewinds \in Nat
    BY <1>1
  <2>. QED BY <1>1, <2>1, <2>2, <2>3 DEF TypeOK
<1>. DEFINE h == [i \in 1 .. 1 |-> Beginning]
<1>3. Beginning \in State /\ Beginning.cache = cache /\ Beginning.dev = dev
  BY <1>1 DEF Beginning, State
<1>4. h \in [1 .. Len(file) + 1 -> State] /\ h[1] = Beginning /\ h[Len(file) + 1] = Beginning
  BY <1>1, <1>3
<1>. HIDE DEF h
<1>5. Told(h, file)
  BY <1>1, <1>4 DEF Told
<1>6. Recorded(h)
  <2>1. Reaches(dev, queue, dev) /\ Behind(host, h[Len(file) + 1].dev, dev)
    BY <1>1, <1>3, <1>4, ReachesIdle DEF Behind, Same
  <2>. QED BY <1>1, <1>3, <1>4, <2>1 DEF Recorded, NoEnd
<1>7. AtRest
  BY DEF AtRest
<1>. QED BY <1>2, <1>5, <1>6, <1>7 DEF Inv

(* What a call of the emulator may count on. *)
LEMMA WhileRecording ==
    ASSUME Inv, phase = "record"
    PROVE  /\ TypeOK /\ AtRest
           /\ \E h : Told(h, file) /\ Recorded(h) /\ h[Len(file) + 1] \in State
<1>1. PICK h : Told(h, file) /\ (phase = "record" => AtRest /\ Recorded(h))
  BY DEF Inv
<1>2. Len(file) \in Nat
  BY DEF Inv, TypeOK
<1>3. h[Len(file) + 1] \in State
  BY <1>1, <1>2 DEF Told
<1>. QED BY <1>1, <1>3 DEF Inv

(* An idle device that is flushed. *)
LEMMA FlushedStory ==
    ASSUME TypeOK, Idle, NEW h, Told(h, file), Recorded(h)
    PROVE  /\ file \o FlushAll \in Seq(Records) /\ NoEnd(file \o FlushAll)
           /\ \E k : /\ Told(k, file \o FlushAll)
                     /\ k[Len(file \o FlushAll) + 1] \in State
                     /\ k[Len(file \o FlushAll) + 1].cache = dev.mem
                     /\ k[Len(file \o FlushAll) + 1].dev.mem = dev.mem
                     /\ k[Len(file \o FlushAll) + 1].dev.vi = dev.vi
                     /\ ~touched => k[Len(file \o FlushAll) + 1].dev.tmem = dev.tmem
<1>. DEFINE s == h[Len(file) + 1]
            f == file \o FlushAll
<1>0. /\ dev \in Device /\ cache \in Memory /\ host \in SUBSET Blocks /\ touched \in BOOLEAN
      /\ file \in Seq(Records) /\ Len(file) \in Nat
  BY DEF TypeOK
<1>1. s \in State /\ s.cache = cache /\ s.dev.vi = dev.vi /\ NoEnd(file)
  BY <1>0 DEF Told, Recorded
<1>2. ~touched => Behind(host, s.dev, dev)
  <2>1. SUFFICES ASSUME ~touched PROVE Behind(host, s.dev, dev)
    OBVIOUS
  <2>2. PICK e \in Device : Reaches(dev, queue, e) /\ Behind(host, s.dev, e)
    BY <2>1 DEF Recorded
  <2>3. Same(dev, e)
    BY <1>0, <2>2, ReachesIdle DEF Idle
  <2>. QED BY <2>2, <2>3 DEF Same, Behind
<1>3. f \in Seq(Records) /\ NoEnd(f) /\ \E k : Told(k, f) /\ k[Len(f) + 1] = FlushedState(s)
  <2>. HIDE DEF s
  <2>1. h[Len(file) + 1].cache = cache /\ (~touched => Behind(host, h[Len(file) + 1].dev, dev))
    BY <1>1, <1>2 DEF s
  <2>. QED BY <1>0, <1>1, <2>1, FlushAllTold DEF s
<1>4. PICK k : Told(k, f) /\ k[Len(f) + 1] = FlushedState(s)
  BY <1>3
<1>5. s.dev \in Device /\ dev.mem \in Memory
  BY <1>0, <1>1 DEF State, Device
<1>. HIDE DEF s
<1>6. /\ FlushedState(s).cache = dev.mem /\ FlushedState(s).dev.mem = dev.mem
      /\ FlushedState(s).dev.vi = s.dev.vi /\ FlushedState(s).dev.tmem = s.dev.tmem
      /\ FlushedState(s) \in State
  BY <1>5 DEF FlushedState, State, Device
<1>7. ~touched => s.dev.tmem = dev.tmem
  BY <1>2 DEF Behind
<1>. HIDE DEF f
<1>8. /\ k[Len(f) + 1] \in State /\ k[Len(f) + 1].cache = dev.mem /\ k[Len(f) + 1].dev.mem = dev.mem
      /\ k[Len(f) + 1].dev.vi = dev.vi /\ (~touched => k[Len(f) + 1].dev.tmem = dev.tmem)
  BY <1>1, <1>4, <1>6, <1>7
<1>. QED BY <1>3, <1>4, <1>8 DEF f

LEMMA ExecuteInv == Inv /\ Execute => Inv'
<1>. SUFFICES ASSUME Inv, Execute PROVE Inv'
  OBVIOUS
<1>1. /\ phase = "record" /\ queue # <<>> /\ dev' = Executed(dev, Head(queue), FALSE) /\ queue' = Tail(queue)
      /\ UNCHANGED <<open, cache, file, host, touched, calls, phase, user, replay>>
  BY DEF Execute
<1>2. TypeOK /\ AtRest
  BY <1>1, WhileRecording
<1>3. PICK h : Told(h, file) /\ Recorded(h)
  BY <1>1, WhileRecording
<1>4. dev \in Device /\ queue \in Seq(Commands) /\ Head(queue) \in Commands /\ Tail(queue) \in Seq(Commands)
  BY <1>1, <1>2, HeadTailProperties DEF TypeOK
<1>5. dev' \in Device /\ dev'.vi = dev.vi
  BY <1>1, <1>4, ExecutedFacts
<1>6. TypeOK' /\ AtRest'
  BY <1>1, <1>2, <1>4, <1>5 DEF TypeOK, AtRest, AtEnd, replay
<1>7. Recorded(h)'
  <2>1. ASSUME ~touched
        PROVE  /\ \E e \in Device : Reaches(dev', queue', e) /\ Behind(host, h[Len(file) + 1].dev, e)
               /\ host = {}
    <3>1. PICK e \in Device : Reaches(dev, queue, e) /\ Behind(host, h[Len(file) + 1].dev, e)
      BY <1>3, <2>1 DEF Recorded
    <3>2. Reaches(dev', queue', e)
      BY <1>1, <1>4, <3>1, ReachesTail
    <3>. QED BY <1>1, <1>3, <2>1, <3>1, <3>2 DEF Recorded, Idle
  <2>. QED BY <1>1, <1>3, <1>5, <2>1 DEF Recorded, Behind, NoEnd
<1>. QED BY <1>1, <1>3, <1>6, <1>7 DEF Inv

LEMMA HostWriteInv == \A b \in Blocks : Inv /\ HostWrite(b) => Inv'
<1>. SUFFICES ASSUME NEW b \in Blocks, Inv, HostWrite(b) PROVE Inv'
  OBVIOUS
<1>1. /\ phase = "record" /\ phase' = phase /\ UNCHANGED <<user, replay>> /\ queue = <<>>
      /\ dev' = [dev EXCEPT !.mem["rdram"][b] = More(@, 1)]
      /\ host' = host \union {b} /\ touched' = (touched \/ open)
      /\ UNCHANGED <<queue, open, cache, file>>
  BY DEF HostWrite, Call, Idle
<1>2. TypeOK /\ AtRest
  BY <1>1, WhileRecording
<1>3. PICK h : Told(h, file) /\ Recorded(h) /\ h[Len(file) + 1] \in State
  BY <1>1, WhileRecording
<1>4. dev \in Device /\ dev.mem \in Memory /\ dev.mem["rdram"][b] \in Value
  BY <1>2 DEF TypeOK, Device, Memory, Memories
<1>5. More(dev.mem["rdram"][b], 1) \in Value
  BY <1>4, MoreType, NumAssumption
<1>6. /\ dev' \in Device /\ dev'.vi = dev.vi /\ dev'.tmem = dev.tmem
      /\ \A m \in Memories, c \in Blocks : ~ (m = "rdram" /\ c = b) => dev'.mem[m][c] = dev.mem[m][c]
  BY <1>1, <1>4, <1>5 DEF Device, Memory, Memories
<1>7. TypeOK' /\ AtRest'
  BY <1>1, <1>2, <1>6 DEF TypeOK, AtRest, replay
<1>8. Recorded(h)'
  <2>1. ASSUME ~touched' PROVE Reaches(dev', queue', dev') /\ Behind(host', h[Len(file) + 1].dev, dev')
    <3>1. ~touched /\ ~open
      BY <1>1, <2>1
    <3>2. PICK e \in Device : Reaches(dev, queue, e) /\ Behind(host, h[Len(file) + 1].dev, e)
      BY <1>3, <3>1 DEF Recorded
    <3>3. Same(dev, e)
      BY <1>1, <1>4, <3>2, ReachesIdle
    <3>4. Behind(host, h[Len(file) + 1].dev, dev)
      BY <3>2, <3>3 DEF Behind, Same
    <3>5. Behind(host', h[Len(file) + 1].dev, dev')
      BY <1>1, <1>6, <3>4 DEF Behind
    <3>6. Reaches(dev', queue', dev')
      BY <1>1, <1>6, ReachesIdle DEF Same
    <3>. QED BY <3>5, <3>6
  <2>2. ~touched' => ~open'
    BY <1>1
  <2>. QED BY <1>1, <1>3, <1>6, <2>1, <2>2 DEF Recorded, NoEnd, Idle
<1>. QED BY <1>1, <1>3, <1>7, <1>8 DEF Inv

(* The dump grows; the emulator does whatever else it does. *)
LEMMA Grows ==
    ASSUME Inv, phase = "record", UNCHANGED <<phase, user, replay>>, TypeOK',
           NEW k, Told(k, file'), Recorded(k)'
    PROVE  Inv'
<1>1. AtRest
  BY WhileRecording
<1>2. AtRest'
  BY <1>1 DEF AtRest, replay
<1>. QED BY <1>2 DEF Inv

LEMMA SetViRegisterInv == Inv /\ SetViRegister => Inv'
<1>. SUFFICES ASSUME Inv, SetViRegister PROVE Inv'
  OBVIOUS
<1>. DEFINE r == [rec |-> "vi", value |-> dev'.vi]
<1>1. /\ phase = "record" /\ UNCHANGED <<phase, user, replay>>
      /\ dev' = [dev EXCEPT !.vi = More(@, 1)]
      /\ file' = Append(file, r)
      /\ UNCHANGED <<queue, open, cache, host, touched>>
  BY DEF SetViRegister, Call
<1>2. TypeOK
  BY <1>1, WhileRecording
<1>3. PICK h : Told(h, file) /\ Recorded(h) /\ h[Len(file) + 1] \in State
  BY <1>1, WhileRecording
<1>4. dev \in Device /\ dev.vi \in Value /\ file \in Seq(Records) /\ Len(file) \in Nat
  BY <1>2 DEF TypeOK, Device
<1>5. dev' \in Device /\ Same(dev, dev') /\ dev'.vi \in Value
  <2>1. More(dev.vi, 1) \in Value
    BY <1>4, MoreType, NumAssumption
  <2>. QED BY <1>1, <1>4, <2>1 DEF Device, Same
<1>6. r \in Records /\ Sound(h[Len(file) + 1], r) /\ r.rec # "eof"
  BY <1>5 DEF Records, Sound
<1>7. PICK k : Told(k, file') /\ k[Len(file') + 1] = Step(h[Len(file) + 1], r)
  <2>1. \E k : Told(k, Append(file, r)) /\ k[Len(Append(file, r)) + 1] = Step(h[Len(file) + 1], r)
    <3>. HIDE DEF r
    <3>. QED BY <1>3, <1>4, <1>6, StoryGoesOn
  <2>. QED BY <1>1, <2>1
<1>8. /\ k[Len(file') + 1].cache = h[Len(file) + 1].cache
      /\ k[Len(file') + 1].dev.vi = dev'.vi
      /\ Same(k[Len(file') + 1].dev, h[Len(file) + 1].dev)
  BY <1>3, <1>7 DEF Step, Same, State, Device
<1>. HIDE DEF r
<1>9. /\ file' \in Seq(Records) /\ Len(file') = Len(file) + 1
      /\ \A i \in 1 .. Len(file') : file'[i] = IF i = Len(file) + 1 THEN r ELSE file[i]
  BY <1>1, <1>4, <1>6, AppendProperties
<1>10. TypeOK'
  <2>1. at' \in 1 .. Len(file') + 1
    BY <1>1, <1>2, <1>4, <1>9 DEF TypeOK, replay
  <2>. QED BY <1>1, <1>2, <1>5, <1>9, <2>1 DEF TypeOK, replay
<1>11. Recorded(k)'
  <2>1. NoEnd(file)'
    BY <1>3, <1>4, <1>6, <1>9 DEF NoEnd, Recorded
  <2>2. ASSUME ~touched
        PROVE  \E e \in Device : Reaches(dev', queue, e) /\ Behind(host, k[Len(file') + 1].dev, e)
    <3>1. PICK e \in Device : Reaches(dev, queue, e) /\ Behind(host, h[Len(file) + 1].dev, e)
      BY <1>3, <2>2 DEF Recorded
    <3>2. Reaches(dev', queue, e)
      BY <1>5, <3>1, ReachesSame
    <3>. QED BY <1>8, <3>1, <3>2 DEF Behind, Same
  <2>3. ~touched => (host # {} => Idle /\ ~open)
    BY <1>3 DEF Recorded
  <2>. QED BY <1>1, <1>3, <1>8, <2>1, <2>2, <2>3 DEF Recorded, Idle
<1>. QED BY <1>1, <1>7, <1>10, <1>11, Grows

LEMMA ScanoutInv == Inv /\ Scanout => Inv'
<1>. SUFFICES ASSUME Inv, Scanout PROVE Inv'
  OBVIOUS
<1>. DEFINE r == [rec |-> "end_frame", was |-> dev]
            f == file \o FlushAll
<1>1. /\ phase = "record" /\ UNCHANGED <<phase, user, replay>> /\ Idle
      /\ file' = f \o <<r>> /\ cache' = dev.mem /\ host' = {}
      /\ UNCHANGED <<dev, queue, open, touched>>
  BY DEF Scanout, Call, Flushed
<1>2. TypeOK
  BY <1>1, WhileRecording
<1>3. PICK h : Told(h, file) /\ Recorded(h)
  BY <1>1, WhileRecording
<1>4. /\ f \in Seq(Records) /\ NoEnd(f) /\ Len(f) \in Nat
      /\ \E g : /\ Told(g, f) /\ g[Len(f) + 1] \in State /\ g[Len(f) + 1].cache = dev.mem
                /\ g[Len(f) + 1].dev.mem = dev.mem /\ g[Len(f) + 1].dev.vi = dev.vi
                /\ ~touched => g[Len(f) + 1].dev.tmem = dev.tmem
  BY <1>1, <1>2, <1>3, FlushedStory
<1>. HIDE DEF f
<1>5. PICK g : /\ Told(g, f) /\ g[Len(f) + 1] \in State /\ g[Len(f) + 1].cache = dev.mem
               /\ g[Len(f) + 1].dev.mem = dev.mem /\ g[Len(f) + 1].dev.vi = dev.vi
               /\ ~touched => g[Len(f) + 1].dev.tmem = dev.tmem
  BY <1>4
<1>6. dev \in Device /\ dev.mem \in Memory /\ file \in Seq(Records)
  BY <1>2 DEF TypeOK, Device
<1>7. r \in Records /\ Sound(g[Len(f) + 1], r) /\ r.rec # "eof" /\ Step(g[Len(f) + 1], r) = g[Len(f) + 1]
  BY <1>5, <1>6 DEF Records, Sound, Step, State
<1>. HIDE DEF r
<1>8. file' = Append(f, r)
  BY <1>1, <1>4, <1>7, AppendIsConcat
<1>9. PICK k : Told(k, file') /\ k[Len(file') + 1] = g[Len(f) + 1]
  BY <1>4, <1>5, <1>7, <1>8, StoryGoesOn
<1>10. /\ file' \in Seq(Records) /\ Len(file') = Len(f) + 1
       /\ \A i \in 1 .. Len(file') : file'[i] = IF i = Len(f) + 1 THEN r ELSE f[i]
  BY <1>4, <1>7, <1>8, AppendProperties
<1>11. TypeOK'
  <2>1. at = 1
    BY <1>1, WhileRecording DEF AtRest
  <2>2. at' \in 1 .. Len(file') + 1
    BY <1>1, <1>4, <1>10, <2>1 DEF replay
  <2>. QED BY <1>1, <1>2, <1>6, <1>10, <2>2 DEF TypeOK, replay
<1>12. Recorded(k)'
  <2>1. NoEnd(file)'
    BY <1>4, <1>7, <1>10 DEF NoEnd
  <2>2. ~touched' => Reaches(dev', queue', dev') /\ Behind(host', k[Len(file') + 1].dev, dev')
    BY <1>1, <1>5, <1>6, <1>9, ReachesIdle DEF Idle, Same, Behind
  <2>. QED BY <1>1, <1>5, <1>6, <1>9, <2>1, <2>2 DEF Recorded
<1>. QED BY <1>1, <1>9, <1>11, <1>12, Grows

LEMMA EnqueueInv == \A cmd \in Commands : Inv /\ Enqueue(cmd) => Inv'
<1>. SUFFICES ASSUME NEW cmd \in Commands, Inv, Enqueue(cmd) PROVE Inv'
  OBVIOUS
<1>. DEFINE r == IF cmd.op = "sync" THEN [rec |-> "complete"] ELSE [rec |-> "command", cmd |-> cmd]
<1>1. /\ phase = "record" /\ UNCHANGED <<phase, user, replay>> /\ Opens
      /\ queue' = Append(queue, cmd)
      /\ file' = file \o (IF open THEN <<>> ELSE FlushAll) \o <<r>>
      /\ IF open THEN UNCHANGED <<cache, host>> ELSE Flushed
      /\ open' = (cmd.op # "sync")
      /\ UNCHANGED <<dev, touched>>
  BY DEF Enqueue, Call
<1>2. TypeOK
  BY <1>1, WhileRecording
<1>3. PICK h : Told(h, file) /\ Recorded(h) /\ h[Len(file) + 1] \in State
  BY <1>1, WhileRecording
<1>4. dev \in Device /\ dev.mem \in Memory /\ file \in Seq(Records) /\ queue \in Seq(Commands)
  BY <1>2 DEF TypeOK, Device
<1>5. \E f \in Seq(Records) : \E g :
          /\ NoEnd(f) /\ file' = f \o <<r>> /\ Told(g, f)
          /\ g[Len(f) + 1] \in State /\ g[Len(f) + 1].cache = cache' /\ g[Len(f) + 1].dev.vi = dev.vi
          /\ cache' \in Memory /\ host' \in SUBSET Blocks
          /\ ~touched => /\ host' = {}
                         /\ \E e \in Device : Reaches(dev, queue, e) /\ Same(g[Len(f) + 1].dev, e)
  <2>. HIDE DEF r
  <2>1. CASE open
    <3>1. file' = file \o <<r>> /\ cache' = cache /\ host' = host
      BY <1>1, <1>4, <2>1, ConcatEmptySeq
    <3>2. ASSUME ~touched
          PROVE  /\ host' = {}
                 /\ \E e \in Device : Reaches(dev, queue, e) /\ Same(h[Len(file) + 1].dev, e)
      <4>1. host = {}
        BY <1>3, <2>1, <3>2 DEF Recorded
      <4>2. PICK e \in Device : Reaches(dev, queue, e) /\ Behind(host, h[Len(file) + 1].dev, e)
        BY <1>3, <3>2 DEF Recorded
      <4>3. h[Len(file) + 1].dev \in Device
        BY <1>3 DEF State
      <4>. QED BY <3>1, <4>1, <4>2, <4>3, BehindNothing
    <3>3. /\ NoEnd(file) /\ h[Len(file) + 1].cache = cache' /\ h[Len(file) + 1].dev.vi = dev.vi
          /\ cache' \in Memory /\ host' \in SUBSET Blocks
      BY <1>2, <1>3, <3>1 DEF Recorded, TypeOK
    <3>. QED BY <1>3, <1>4, <3>1, <3>2, <3>3
  <2>2. CASE ~open
    <3>. DEFINE f == file \o FlushAll
    <3>1. file' = f \o <<r>> /\ cache' = dev.mem /\ host' = {} /\ Idle
      BY <1>1, <2>2 DEF Flushed, Opens
    <3>2. /\ f \in Seq(Records) /\ NoEnd(f)
          /\ \E g : /\ Told(g, f) /\ g[Len(f) + 1] \in State /\ g[Len(f) + 1].cache = dev.mem
                    /\ g[Len(f) + 1].dev.mem = dev.mem /\ g[Len(f) + 1].dev.vi = dev.vi
                    /\ ~touched => g[Len(f) + 1].dev.tmem = dev.tmem
      BY <1>2, <1>3, <3>1, FlushedStory
    <3>3. Reaches(dev, queue, dev)
      BY <1>4, <3>1, ReachesIdle DEF Idle, Same
    <3>. HIDE DEF f
    <3>4. PICK g : /\ Told(g, f) /\ g[Len(f) + 1] \in State /\ g[Len(f) + 1].cache = dev.mem
                   /\ g[Len(f) + 1].dev.mem = dev.mem /\ g[Len(f) + 1].dev.vi = dev.vi
                   /\ ~touched => g[Len(f) + 1].dev.tmem = dev.tmem
      BY <3>2
    <3>5. ~touched => Same(g[Len(f) + 1].dev, dev)
      BY <3>4 DEF Same
    <3>. QED BY <1>4, <3>1, <3>2, <3>3, <3>4, <3>5
  <2>. QED BY <2>1, <2>2
<1>6. PICK f \in Seq(Records) : \E g :
          /\ NoEnd(f) /\ file' = f \o <<r>> /\ Told(g, f)
          /\ g[Len(f) + 1] \in State /\ g[Len(f) + 1].cache = cache' /\ g[Len(f) + 1].dev.vi = dev.vi
          /\ cache' \in Memory /\ host' \in SUBSET Blocks
          /\ ~touched => /\ host' = {}
                         /\ \E e \in Device : Reaches(dev, queue, e) /\ Same(g[Len(f) + 1].dev, e)
  <2>. HIDE DEF r
  <2>. QED BY <1>5
<1>7. PICK g : /\ NoEnd(f) /\ file' = f \o <<r>> /\ Told(g, f)
               /\ g[Len(f) + 1] \in State /\ g[Len(f) + 1].cache = cache' /\ g[Len(f) + 1].dev.vi = dev.vi
               /\ cache' \in Memory /\ host' \in SUBSET Blocks
               /\ ~touched => /\ host' = {}
                              /\ \E e \in Device : Reaches(dev, queue, e) /\ Same(g[Len(f) + 1].dev, e)
  <2>. HIDE DEF r
  <2>. QED BY <1>6
<1>. DEFINE s == g[Len(f) + 1]
<1>8. r \in Records /\ r.rec # "eof" /\ Sound(s, r)
  BY DEF Records, Sound
<1>9. Step(s, r).cache = s.cache /\ Step(s, r).dev = Executed(s.dev, cmd, FALSE)
  <2>1. CASE cmd.op = "sync"
    BY <2>1 DEF Step, Executed
  <2>2. CASE cmd.op # "sync"
    BY <2>2 DEF Step
  <2>. QED BY <2>1, <2>2
<1>. HIDE DEF r
<1>10. file' = Append(f, r)
  BY <1>7, <1>8, AppendIsConcat
<1>11. PICK k : Told(k, file') /\ k[Len(file') + 1] = Step(s, r)
  BY <1>7, <1>8, <1>10, StoryGoesOn
<1>12. /\ file' \in Seq(Records) /\ Len(f) \in Nat /\ Len(file') = Len(f) + 1
       /\ \A i \in 1 .. Len(file') : file'[i] = IF i = Len(f) + 1 THEN r ELSE f[i]
  BY <1>8, <1>10, AppendProperties
<1>13. TypeOK'
  <2>1. at = 1
    BY <1>1, WhileRecording DEF AtRest
  <2>2. at' \in 1 .. Len(file') + 1
    BY <1>1, <1>12, <2>1 DEF replay
  <2>3. queue' \in Seq(Commands) /\ open' \in BOOLEAN
    BY <1>1, <1>4, AppendProperties
  <2>. QED BY <1>1, <1>2, <1>4, <1>7, <1>12, <2>2, <2>3 DEF TypeOK, replay
<1>14. s.dev \in Device
  BY <1>7 DEF State
<1>15. Recorded(k)'
  <2>1. NoEnd(file)'
    BY <1>7, <1>8, <1>12 DEF NoEnd
  <2>2. ASSUME ~touched
        PROVE  \E e \in Device : Reaches(dev', queue', e) /\ Behind(host', k[Len(file') + 1].dev, e)
    <3>1. PICK e \in Device : Reaches(dev, queue, e) /\ Same(s.dev, e)
      BY <1>7, <2>2
    <3>2. /\ Executed(e, cmd, FALSE) \in Device
          /\ Reaches(dev, Append(queue, cmd), Executed(e, cmd, FALSE))
      BY <1>4, <3>1, ReachesAppend
    <3>3. Same(Executed(s.dev, cmd, FALSE), Executed(e, cmd, FALSE))
      BY <1>14, <3>1, ExecutedFacts
    <3>4. Behind(host', k[Len(file') + 1].dev, Executed(e, cmd, FALSE))
      BY <1>9, <1>11, <3>3 DEF Behind, Same
    <3>. QED BY <1>1, <3>2, <3>4
  <2>3. k[Len(file') + 1].cache = cache' /\ k[Len(file') + 1].dev.vi = dev'.vi
    <3>1. Executed(s.dev, cmd, FALSE).vi = s.dev.vi
      BY <1>14, ExecutedFacts
    <3>. QED BY <1>1, <1>7, <1>9, <1>11, <3>1
  <2>4. ~touched' => (host' # {} => Idle' /\ ~open')
    BY <1>1, <1>7
  <2>. QED BY <1>1, <2>1, <2>2, <2>3, <2>4 DEF Recorded
<1>. QED BY <1>1, <1>11, <1>13, <1>15, Grows

(* The end of the emulator, whichever way. *)
LEMMA Opened ==
    ASSUME Inv, phase = "record", phase' = "replay", user' \in Users, Gone, UNCHANGED replay,
           file' \in Seq(Records), NEW k, Told(k, file'),
           \A i \in 1 .. Len(file') : file'[i].rec = "eof" => i = Len(file')
    PROVE  Inv'
<1>1. AtRest /\ TypeOK
  BY WhileRecording
<1>2. AtRest'
  BY <1>1 DEF AtRest, replay
<1>3. Len(file') \in Nat
  OBVIOUS
<1>4. TypeOK'
  <2>1. at' \in 1 .. Len(file') + 1
    BY <1>2, <1>3 DEF AtRest
  <2>2. dev' \in Device /\ queue' \in Seq(Commands) /\ cache' \in Memory /\ host' \in SUBSET Blocks
    BY NewTypes DEF Gone
  <2>. QED BY <1>1, <2>1, <2>2 DEF TypeOK, Gone, replay
<1>5. Replaying(k)'
  <2>1. k[1] = Beginning /\ at' = 1 /\ player_cache' = Zero /\ drivers'[1] = NewDevice
    BY <1>2 DEF Told, AtRest
  <2>2. player_cache' = k[at'].cache /\ drivers'[1] = k[at'].dev
    BY <2>1 DEF Beginning
  <2>. QED BY <2>1, <2>2 DEF Replaying
<1>6. Judging'
  BY <1>2 DEF Judging, AtRest
<1>. QED BY <1>4, <1>5, <1>6 DEF Inv

LEMMA EndInv == Inv /\ End => Inv'
<1>. SUFFICES ASSUME Inv, End PROVE Inv'
  OBVIOUS
<1>. DEFINE r == [rec |-> "eof"]
<1>1. /\ phase = "record" /\ file' = Append(file, r) /\ phase' = "replay" /\ user' \in Users
      /\ Gone /\ UNCHANGED replay
  BY DEF End
<1>2. file \in Seq(Records) /\ Len(file) \in Nat
  BY <1>1, WhileRecording DEF TypeOK
<1>3. PICK h : Told(h, file) /\ Recorded(h)
  BY <1>1, WhileRecording
<1>4. r \in Records /\ Sound(h[Len(file) + 1], r)
  BY DEF Records, Sound
<1>. HIDE DEF r
<1>5. PICK k : Told(k, file')
  BY <1>1, <1>2, <1>3, <1>4, StoryGoesOn
<1>6. /\ file' \in Seq(Records) /\ Len(file') = Len(file) + 1
      /\ \A i \in 1 .. Len(file) : file'[i] = file[i]
  BY <1>1, <1>2, <1>4, AppendProperties
<1>7. \A i \in 1 .. Len(file') : file'[i].rec = "eof" => i = Len(file')
  BY <1>2, <1>3, <1>6 DEF Recorded, NoEnd
<1>. QED BY <1>1, <1>5, <1>6, <1>7, Opened

LEMMA CrashInv == Inv /\ Crash => Inv'
<1>. SUFFICES ASSUME Inv, Crash PROVE Inv'
  OBVIOUS
<1>1. /\ phase = "record" /\ phase' = "replay" /\ user' \in Users /\ Gone /\ UNCHANGED replay
  BY DEF Crash
<1>2. file \in Seq(Records) /\ Len(file) \in Nat
  BY <1>1, WhileRecording DEF TypeOK
<1>3. PICK n \in 0 .. Len(file) : file' = SubSeq(file, 1, n)
  BY DEF Crash
<1>4. PICK h : Told(h, file) /\ Recorded(h)
  BY <1>1, WhileRecording
<1>5. /\ file' \in Seq(Records) /\ Len(file') = n /\ n \in Nat /\ n <= Len(file)
      /\ \A i \in 1 .. n : file'[i] = file[i]
  <2>1. n \in Nat /\ n <= Len(file)
    BY <1>2, <1>3
  <2>2. \A i \in 1 .. n : file[i] \in Records
    BY <1>2, <2>1
  <2>. QED BY <1>2, <1>3, <2>1, <2>2, SubSeqProperties
<1>. DEFINE k == [i \in 1 .. n + 1 |-> h[i]]
<1>6. Told(k, file')
  <2>1. /\ h \in [1 .. Len(file) + 1 -> State] /\ h[1] = Beginning
        /\ \A i \in 1 .. Len(file) : h[i + 1] = Step(h[i], file[i]) /\ Sound(h[i], file[i])
    BY <1>4 DEF Told
  <2>2. k \in [1 .. n + 1 -> State] /\ k[1] = Beginning
    BY <1>2, <1>5, <2>1
  <2>3. ASSUME NEW i \in 1 .. n PROVE k[i + 1] = Step(k[i], file'[i]) /\ Sound(k[i], file'[i])
    <3>1. k[i + 1] = h[i + 1] /\ k[i] = h[i] /\ i \in 1 .. Len(file) /\ file'[i] = file[i]
      BY <1>2, <1>5
    <3>. HIDE DEF k
    <3>. QED BY <2>1, <3>1
  <2>. HIDE DEF k
  <2>. QED BY <1>5, <2>2, <2>3 DEF Told
<1>7. \A i \in 1 .. Len(file') : file'[i].rec = "eof" => i = Len(file')
  BY <1>2, <1>4, <1>5 DEF Recorded, NoEnd
<1>. HIDE DEF k
<1>. QED BY <1>1, <1>5, <1>6, <1>7, Opened
-----------------------------------------------------------------------------
(* The readers. *)

LEMMA ReplayedType ==
    ASSUME NEW d \in Device, NEW r \in Records, NEW second \in BOOLEAN, player_cache \in Memory
    PROVE  Replayed(d, r, second) \in Device
<1>1. CASE r.rec = "flush"
  <2>1. r.of \in Memories /\ player_cache[r.of] \in [Blocks -> Value]
    BY <1>1, RecordFields DEF Memory
  <2>2. [d EXCEPT !.mem[r.of] = player_cache[r.of]] \in Device
    BY <2>1 DEF Device, Memory
  <2>. QED BY <1>1, <2>2 DEF Replayed
<1>2. CASE r.rec = "command"
  <2>1. r.cmd \in Commands
    BY <1>2, RecordFields
  <2>2. \A w \in BOOLEAN : Executed(d, r.cmd, w) \in Device
    BY <2>1, ExecutedFacts
  <2>3. Replayed(d, r, second) = Executed(d, r.cmd, second /\ Faulty(r.cmd))
    BY <1>2 DEF Replayed
  <2>4. (second /\ Faulty(r.cmd)) \in BOOLEAN
    OBVIOUS
  <2>. QED BY <2>2, <2>3, <2>4
<1>3. CASE r.rec = "vi"
  <2>1. r.value \in Value
    BY <1>3, RecordFields
  <2>2. [d EXCEPT !.vi = r.value] \in Device
    BY <2>1 DEF Device
  <2>. QED BY <1>3, <2>2 DEF Replayed
<1>4. CASE r.rec \notin {"flush", "command", "vi"}
  BY <1>4 DEF Replayed
<1>. QED BY <1>1, <1>2, <1>3, <1>4

(* The first driver does as the story says. *)
LEMMA FirstDriver ==
    ASSUME NEW s, NEW r, player_cache = s.cache
    PROVE  Replayed(s.dev, r, FALSE) = Step(s, r).dev
<1>1. Executed(s.dev, r.cmd, FALSE /\ Faulty(r.cmd)) = Executed(s.dev, r.cmd, FALSE)
  <2>1. (FALSE /\ Faulty(r.cmd)) = FALSE
    OBVIOUS
  <2>. QED BY <2>1
<1>2. CASE r.rec = "flush"
  BY <1>2 DEF Replayed, Step
<1>3. CASE r.rec = "command"
  BY <1>1, <1>3 DEF Replayed, Step
<1>4. CASE r.rec = "vi"
  BY <1>4 DEF Replayed, Step
<1>5. CASE r.rec \notin {"flush", "command", "vi"}
  BY <1>5 DEF Replayed, Step
<1>. QED BY <1>2, <1>3, <1>4, <1>5

LEMMA CountedType ==
    ASSUME seen \in Counts, NEW r
    PROVE  Counted(r) \in Counts
  BY DEF Counted, Counts

\* A record that is applied.
LEMMA ApplyFacts ==
    ASSUME TypeOK, NEW h, Told(h, file), Replaying(h), at <= Len(file), Apply(file[at]), file' = file
    PROVE  /\ at' \in 1 .. Len(file) + 1 /\ player_cache' \in Memory /\ drivers' \in [1 .. 2 -> Device]
           /\ wrong' \in BOOLEAN /\ seen' \in Counts
           /\ rewinds' = rewinds => Replaying(h)'
<1>. DEFINE r == file[at]
            s == h[at]
<1>1. /\ at \in Nat /\ at > 0 /\ Len(file) \in Nat /\ at \in 1 .. Len(file) /\ r \in Records
      /\ player_cache \in Memory /\ seen \in Counts /\ wrong \in BOOLEAN
      /\ drivers \in [1 .. 2 -> Device] /\ drivers[1] \in Device /\ drivers[2] \in Device
  BY DEF TypeOK
<1>2. /\ s \in State /\ h[at + 1] = Step(s, r) /\ player_cache = s.cache
      /\ rewinds = 0 => drivers[1] = s.dev
  BY <1>1 DEF Told, Replaying
<1>3. /\ player_cache' = IF r.rec = "update" THEN [player_cache EXCEPT ![r.of][r.block] = r.data] ELSE player_cache
      /\ drivers' = SideBySide(r) /\ seen' = Counted(r) /\ at' = at + 1
      /\ wrong' = (wrong \/ (Compared(r) /\ Differ(drivers')))
  BY DEF Apply
<1>. HIDE DEF r, s
<1>4. drivers'[1] = Replayed(drivers[1], r, FALSE) /\ drivers'[2] = Replayed(drivers[2], r, TRUE)
      /\ drivers' \in [1 .. 2 -> Device]
  <2>1. drivers' = [i \in 1 .. 2 |-> Replayed(drivers[i], r, i = 2)]
    BY <1>3 DEF SideBySide
  <2>2. (1 = 2) = FALSE /\ (2 = 2) = TRUE
    OBVIOUS
  <2>3. drivers'[1] = Replayed(drivers[1], r, 1 = 2) /\ drivers'[2] = Replayed(drivers[2], r, 2 = 2)
    BY <2>1
  <2>4. drivers'[1] = Replayed(drivers[1], r, FALSE) /\ drivers'[2] = Replayed(drivers[2], r, TRUE)
    BY <2>2, <2>3
  <2>5. drivers'[1] \in Device /\ drivers'[2] \in Device
    BY <1>1, <2>4, ReplayedType
  <2>6. \A i \in 1 .. 2 : i = 1 \/ i = 2
    OBVIOUS
  <2>7. drivers' = [i \in 1 .. 2 |-> drivers'[i]]
    BY <2>1
  <2>. QED BY <2>4, <2>5, <2>6, <2>7
<1>5. h[at + 1] \in State /\ player_cache' = h[at + 1].cache
  <2>1. Step(s, r) \in State
    BY <1>1, <1>2, StepType
  <2>2. Step(s, r).cache = IF r.rec = "update" THEN [s.cache EXCEPT ![r.of][r.block] = r.data] ELSE s.cache
    BY DEF Step
  <2>3. player_cache' = Step(s, r).cache
    BY <1>2, <1>3, <2>2
  <2>. QED BY <1>2, <2>1, <2>3
<1>6. rewinds = 0 => drivers'[1] = h[at + 1].dev
  <2>1. SUFFICES ASSUME rewinds = 0 PROVE drivers'[1] = h[at + 1].dev
    OBVIOUS
  <2>2. Replayed(s.dev, r, FALSE) = Step(s, r).dev
    BY <1>2, FirstDriver
  <2>. QED BY <1>2, <1>4, <2>1, <2>2
<1>7. r.rec = "flush" => \A i \in 1 .. 2 : drivers'[i].mem[r.of] = s.cache[r.of]
  <2>1. SUFFICES ASSUME r.rec = "flush", NEW i \in 1 .. 2 PROVE drivers'[i].mem[r.of] = s.cache[r.of]
    OBVIOUS
  <2>2. i = 1 \/ i = 2
    OBVIOUS
  <2>3. drivers'[i] = [drivers[i] EXCEPT !.mem[r.of] = player_cache[r.of]]
    BY <1>4, <2>1, <2>2 DEF Replayed
  <2>4. r.of \in Memories /\ drivers[i] \in Device /\ drivers[i].mem \in Memory
    BY <1>1, <2>1, <2>2, RecordFields DEF Device
  <2>. QED BY <1>2, <2>3, <2>4 DEF Device, Memory
<1>8. wrong' \in BOOLEAN /\ seen' \in Counts /\ at' \in 1 .. Len(file) + 1 /\ player_cache' \in Memory
  BY <1>1, <1>3, <1>5, CountedType DEF State
<1>9. ASSUME rewinds' = rewinds PROVE Replaying(h)'
  <2>1. at' = at + 1 /\ at' - 1 = at /\ file' = file
    BY <1>1, <1>3
  <2>2. \A i \in 1 .. Len(file) : file[i].rec = "eof" => i = Len(file)
    BY DEF Replaying
  <2>3. file'[at' - 1] = r
    BY <2>1 DEF r
  <2>4. h[at' - 1] = s
    BY <2>1 DEF s
  <2>5. player_cache' = h[at'].cache /\ (rewinds' = 0 => drivers'[1] = h[at'].dev)
    BY <1>5, <1>6, <1>9, <2>1
  <2>. QED BY <1>7, <2>1, <2>2, <2>3, <2>4, <2>5 DEF Replaying
<1>. QED BY <1>4, <1>8, <1>9

(* What a reader may count on. *)
LEMMA WhileReplaying ==
    ASSUME Inv, phase = "replay"
    PROVE  TypeOK /\ Judging /\ \E h : Told(h, file) /\ Replaying(h)
  BY DEF Inv

LEMMA IterateInv == Inv /\ Iterate /\ UNCHANGED <<recorder, file, phase, user>> => Inv'
<1>. SUFFICES ASSUME Inv, Iterate, UNCHANGED <<recorder, file, phase, user>> PROVE Inv'
  OBVIOUS
<1>1. /\ phase = "replay" /\ user.tool = "validator" /\ result = "none" /\ GoesOn
      /\ Record.rec \notin Ending /\ Apply(Record)
      /\ UNCHANGED <<last, is_eof, failed, result, rewinds>>
  BY DEF Iterate, Validating
<1>2. TypeOK /\ Judging
  BY <1>1, WhileReplaying
<1>3. PICK h : Told(h, file) /\ Replaying(h)
  BY <1>1, WhileReplaying
<1>4. ~AtEnd /\ Record = file[at]
  BY <1>1 DEF Record, Ending
<1>5. at <= Len(file) /\ Apply(file[at])
  BY <1>1, <1>2, <1>4 DEF AtEnd, TypeOK
<1>6. /\ at' \in 1 .. Len(file) + 1 /\ player_cache' \in Memory /\ drivers' \in [1 .. 2 -> Device]
      /\ wrong' \in BOOLEAN /\ seen' \in Counts /\ Replaying(h)'
  BY <1>1, <1>2, <1>3, <1>5, ApplyFacts
<1>7. TypeOK'
  BY <1>1, <1>2, <1>6 DEF TypeOK, recorder
<1>8. ~wrong /\ ~is_eof
  BY <1>1, <1>2, <1>4 DEF Judging
<1>9. wrong' => Differ(drivers') /\ seen'.frames >= user.begin_frame /\ ~GoesOn'
  <2>. DEFINE r == file[at]
  <2>1. SUFFICES ASSUME wrong' PROVE Differ(drivers') /\ seen'.frames >= user.begin_frame /\ ~GoesOn'
    OBVIOUS
  <2>2. Compared(r) /\ Differ(drivers') /\ seen' = Counted(r)
    BY <1>5, <1>8, <2>1 DEF Apply
  <2>3. seen \in Counts /\ last \in Counts
    BY <1>2 DEF TypeOK
  <2>4. seen.frames >= user.begin_frame
    BY <2>2 DEF Compared
  <2>. HIDE DEF r
  <2>5. CASE user.sync_only
    <3>1. r.rec = "complete"
      BY <2>2, <2>5 DEF Compared
    <3>2. seen' = [seen EXCEPT !.syncs = @ + 1]
      BY <2>2, <3>1 DEF Counted
    <3>3. seen.syncs = last.syncs
      BY <1>1, <2>5 DEF GoesOn
    <3>4. seen'.frames = seen.frames /\ seen'.syncs = seen.syncs + 1 /\ seen.syncs \in Nat
      BY <2>3, <3>2 DEF Counts
    <3>5. seen'.syncs # last'.syncs
      BY <1>1, <3>3, <3>4
    <3>6. ~GoesOn'
      BY <2>5, <3>5 DEF GoesOn
    <3>. QED BY <2>2, <2>4, <3>4, <3>6
  <2>6. CASE ~user.sync_only
    <3>1. r.rec = "command" /\ r.cmd.op = "draw"
      BY <2>2, <2>6 DEF Compared
    <3>2. seen' = [seen EXCEPT !.draws = @ + 1]
      BY <2>2, <3>1 DEF Counted
    <3>3. seen.draws = last.draws
      BY <1>1, <2>6 DEF GoesOn
    <3>4. seen'.frames = seen.frames /\ seen'.draws = seen.draws + 1 /\ seen.draws \in Nat
      BY <2>3, <3>2 DEF Counts
    <3>5. seen'.draws # last'.draws
      BY <1>1, <3>3, <3>4
    <3>6. ~GoesOn'
      BY <2>6, <3>5 DEF GoesOn
    <3>. QED BY <2>2, <2>4, <3>4, <3>6
  <2>. QED BY <2>5, <2>6
<1>10. Judging'
  BY <1>1, <1>8, <1>9 DEF Judging
<1>. QED BY <1>1, <1>3, <1>6, <1>7, <1>10 DEF Inv

LEMMA IterateFailsInv == Inv /\ IterateFails /\ UNCHANGED <<recorder, file, phase, user>> => Inv'
<1>. SUFFICES ASSUME Inv, IterateFails, UNCHANGED <<recorder, file, phase, user>> PROVE Inv'
  OBVIOUS
<1>1. /\ phase = "replay" /\ user.tool = "validator" /\ result = "none" /\ GoesOn
      /\ Record.rec \in Ending /\ failed' = TRUE /\ is_eof' = EofSeen
      /\ at' = IF AtEnd THEN at ELSE at + 1
      /\ UNCHANGED <<player_cache, drivers, wrong, seen, last, result, rewinds>>
  BY DEF IterateFails, Validating
<1>2. TypeOK /\ Judging
  BY <1>1, WhileReplaying
<1>3. PICK h : Told(h, file) /\ Replaying(h)
  BY <1>1, WhileReplaying
<1>4. ~wrong
  BY <1>1, <1>2 DEF Judging
<1>5. file \in Seq(Records) /\ Len(file) \in Nat /\ at \in 1 .. Len(file) + 1 /\ is_eof \in BOOLEAN
  BY <1>2 DEF TypeOK
<1>6. CASE AtEnd
  <2>1. at' = at /\ is_eof' = is_eof
    BY <1>1, <1>5, <1>6 DEF EofSeen
  <2>2. TypeOK'
    BY <1>1, <1>2, <2>1 DEF TypeOK, recorder
  <2>3. Replaying(h)'
    BY <1>1, <1>3, <2>1 DEF Replaying
  <2>4. Judging'
    BY <1>1, <1>2, <1>4, <2>1 DEF Judging, AtEnd
  <2>. QED BY <1>1, <1>3, <2>2, <2>3, <2>4 DEF Inv
<1>7. CASE ~AtEnd
  <2>1. Record = file[at] /\ at \in 1 .. Len(file) /\ file[at] \in Records /\ at' = at + 1 /\ is_eof' = TRUE
    <3>1. Record = file[at] /\ at' = at + 1
      BY <1>1, <1>7 DEF Record
    <3>2. is_eof' = TRUE
      BY <1>1, <1>7 DEF EofSeen
    <3>3. at \in 1 .. Len(file)
      BY <1>5, <1>7 DEF AtEnd
    <3>4. file[at] \in Records
      BY <1>5, <3>3
    <3>. QED BY <3>1, <3>2, <3>3, <3>4
  <2>2. file[at].rec = "eof"
    BY <1>1, <2>1, RecordFields DEF Ending
  <2>3. at = Len(file)
    BY <1>3, <2>1, <2>2 DEF Replaying
  <2>4. TypeOK'
    <3>1. at' \in 1 .. Len(file') + 1
      BY <1>1, <1>5, <2>1
    <3>. QED BY <1>1, <1>2, <2>1, <3>1 DEF TypeOK, recorder
  <2>5. Replaying(h)'
    <3>1. h[at + 1] = Step(h[at], file[at])
      BY <1>3, <2>1 DEF Told
    <3>2. h[at] \in State
      BY <1>3, <1>5 DEF Told
    <3>3. h[at + 1].cache = h[at].cache /\ h[at + 1].dev = h[at].dev
      BY <2>2, <3>1, <3>2 DEF Step, State
    <3>4. at' - 1 = at
      BY <1>5, <2>1
    <3>5. file'[at' - 1].rec = "eof"
      BY <2>2, <3>4
    <3>. QED BY <1>1, <1>3, <2>1, <3>3, <3>5 DEF Replaying
  <2>6. Judging'
    <3>1. file # <<>> /\ at' > Len(file)
      BY <1>5, <2>1, <2>3
    <3>. QED BY <1>1, <1>4, <2>1, <2>2, <2>3, <3>1 DEF Judging, AtEnd
  <2>. QED BY <1>1, <1>3, <2>4, <2>5, <2>6 DEF Inv
<1>. QED BY <1>6, <1>7

LEMMA CompareInv == Inv /\ Compare /\ UNCHANGED <<recorder, file, phase, user>> => Inv'
<1>. SUFFICES ASSUME Inv, Compare, UNCHANGED <<recorder, file, phase, user>> PROVE Inv'
  OBVIOUS
<1>1. /\ phase = "replay" /\ user.tool = "validator" /\ result = "none"
      /\ failed' = FALSE /\ last' = seen
      /\ result' = IF seen.frames >= user.begin_frame /\ Differ(drivers) THEN "failure"
                     ELSE IF is_eof THEN "success" ELSE "none"
      /\ UNCHANGED <<at, player_cache, drivers, wrong, seen, is_eof, rewinds>>
  BY DEF Compare, Validating
<1>2. TypeOK /\ Judging
  BY <1>1, WhileReplaying
<1>3. PICK h : Told(h, file) /\ Replaying(h)
  BY <1>1, WhileReplaying
<1>4. TypeOK'
  <2>1. result' \in {"none", "failure", "success"}
    BY <1>1
  <2>. QED BY <1>1, <1>2, <2>1 DEF TypeOK, recorder
<1>5. Replaying(h)'
  BY <1>1, <1>3 DEF Replaying
<1>6. wrong => result' = "failure"
  BY <1>1, <1>2 DEF Judging
<1>7. result' = "success" => is_eof /\ ~wrong
  BY <1>1, <1>6
<1>8. is_eof => file # <<>> /\ file[Len(file)].rec = "eof" /\ AtEnd
  BY <1>2 DEF Judging
<1>9. Judging'
  BY <1>1, <1>6, <1>7, <1>8 DEF Judging, AtEnd
<1>. QED BY <1>1, <1>3, <1>4, <1>5, <1>9 DEF Inv

LEMMA ViewInv == Inv /\ View => Inv'
<1>. SUFFICES ASSUME Inv, View PROVE Inv'
  OBVIOUS
<1>1. /\ phase = "replay" /\ user.tool = "viewer"
      /\ UNCHANGED <<recorder, file, phase, user, last, is_eof, failed, result>>
  BY DEF View
<1>2. TypeOK /\ Judging
  BY <1>1, WhileReplaying
<1>3. PICK h : Told(h, file) /\ Replaying(h)
  BY <1>1, WhileReplaying
<1>4. ~wrong /\ ~is_eof /\ result = "none"
  BY <1>1, <1>2 DEF Judging
<1>5. CASE ~AtEnd /\ Apply(file[at]) /\ UNCHANGED rewinds
  <2>1. at <= Len(file)
    BY <1>2, <1>5 DEF AtEnd, TypeOK
  <2>2. /\ at' \in 1 .. Len(file) + 1 /\ player_cache' \in Memory /\ drivers' \in [1 .. 2 -> Device]
        /\ wrong' \in BOOLEAN /\ seen' \in Counts /\ Replaying(h)'
    BY <1>1, <1>2, <1>3, <1>5, <2>1, ApplyFacts
  <2>3. TypeOK'
    BY <1>1, <1>2, <1>5, <2>2 DEF TypeOK, recorder
  <2>4. ~wrong'
    BY <1>1, <1>4, <1>5 DEF Apply, Compared
  <2>5. Judging'
    BY <1>1, <1>4, <2>4 DEF Judging
  <2>. QED BY <1>1, <1>3, <2>2, <2>3, <2>5 DEF Inv
<1>6. CASE /\ rewinds' = rewinds + 1 /\ at' = 1 /\ player_cache' = Rewound
           /\ UNCHANGED <<drivers, wrong, seen>>
  <2>1. rewinds \in Nat /\ Len(file) \in Nat
    BY <1>2 DEF TypeOK
  <2>2. TypeOK'
    <3>1. at' \in 1 .. Len(file') + 1 /\ rewinds' \in Nat /\ player_cache' \in Memory
      BY <1>1, <1>6, <2>1, NewTypes DEF Rewound
    <3>. QED BY <1>1, <1>2, <1>6, <3>1 DEF TypeOK, recorder
  <2>3. Replaying(h)'
    <3>1. player_cache' = h[at'].cache
      BY <1>3, <1>6 DEF Told, Beginning, Rewound
    <3>2. rewinds' # 0 /\ ~ (at' > 1)
      BY <1>6, <2>1
    <3>. QED BY <1>1, <1>3, <3>1, <3>2 DEF Replaying
  <2>4. Judging'
    BY <1>1, <1>4, <1>6 DEF Judging
  <2>. QED BY <1>1, <1>3, <2>2, <2>3, <2>4 DEF Inv
<1>. QED BY <1>5, <1>6 DEF View
-----------------------------------------------------------------------------
LEMMA StutterInv == Inv /\ UNCHANGED vars => Inv'
<1>. SUFFICES ASSUME Inv, UNCHANGED vars PROVE Inv'
  OBVIOUS
<1>1. PICK h : /\ Told(h, file)
               /\ phase = "record" => AtRest /\ Recorded(h)
               /\ phase = "replay" => Replaying(h) /\ Judging
  BY DEF Inv
<1>. USE DEF vars, recorder, replay
<1>2. TypeOK'
  BY DEF Inv, TypeOK
<1>3. phase' = "record" => AtRest' /\ Recorded(h)'
  BY <1>1 DEF AtRest, Recorded, Idle
<1>4. Replaying(h) => Replaying(h)'
  BY DEF Replaying
<1>5. Judging => Judging'
  BY DEF Judging, GoesOn, AtEnd
<1>. QED BY <1>1, <1>2, <1>3, <1>4, <1>5 DEF Inv

(* The invariant of the recorder and the readers.                          *)
THEOREM DumpInvariant == Spec => []Inv
<1>1. Inv /\ [Next]_vars => Inv'
  <2>. SUFFICES ASSUME Inv, [Next]_vars PROVE Inv'
    OBVIOUS
  <2>1. ASSUME NEW cmd \in Commands, Enqueue(cmd) PROVE Inv'
    BY <2>1, EnqueueInv
  <2>2. CASE Execute
    BY <2>2, ExecuteInv
  <2>3. ASSUME NEW b \in Blocks, HostWrite(b) PROVE Inv'
    BY <2>3, HostWriteInv
  <2>4. CASE SetViRegister
    BY <2>4, SetViRegisterInv
  <2>5. CASE Scanout
    BY <2>5, ScanoutInv
  <2>6. CASE End
    BY <2>6, EndInv
  <2>7. CASE Crash
    BY <2>7, CrashInv
  <2>8. CASE Validate
    <3>1. UNCHANGED <<recorder, file, phase, user>> /\ (Iterate \/ IterateFails \/ Compare)
      BY <2>8 DEF Validate
    <3>. QED BY <3>1, IterateInv, IterateFailsInv, CompareInv
  <2>9. CASE View
    BY <2>9, ViewInv
  <2>10. CASE UNCHANGED vars
    BY <2>10, StutterInv
  <2>. QED BY <2>1, <2>2, <2>3, <2>4, <2>5, <2>6, <2>7, <2>8, <2>9, <2>10 DEF Next
<1>. QED BY <1>1, InitInv, PTL DEF Spec

(* Types, of the recorder, the dump and the readers.                       *)
THEOREM TypeCorrect == Spec => []TypeOK
<1>1. Inv => TypeOK
  BY DEF Inv
<1>. QED BY <1>1, DumpInvariant, PTL

(* A replay is given the memory that was recorded at every flush, after a  *)
(* crash and after rewinds too, and unless the host wrote in a list a      *)
(* first replay makes of it what the device did; its frames are shown from *)
(* what they were shown from.  For every number of blocks, values and      *)
(* calls.                                                                  *)
THEOREM ReplayTellsTheTruth == Spec => []ReplayIsFaithful
<1>1. Inv => ReplayIsFaithful
  <2>. SUFFICES ASSUME Inv, phase = "replay" PROVE ReplayIsFaithful
    BY DEF ReplayIsFaithful, FlushRestores, ReplayMatches
  <2>1. TypeOK
    BY WhileReplaying
  <2>2. PICK h : Told(h, file) /\ Replaying(h)
    BY WhileReplaying
  <2>3. /\ file \in Seq(Records) /\ Len(file) \in Nat /\ at \in 1 .. Len(file) + 1
        /\ drivers[1] \in Device
    BY <2>1 DEF TypeOK
  <2>4. FlushRestores
    <3>1. SUFFICES ASSUME at > 1, file[at - 1].rec = "flush", NEW i \in 1 .. 2
                   PROVE  drivers[i].mem[file[at - 1].of] = file[at - 1].was.mem[file[at - 1].of]
      BY DEF FlushRestores
    <3>2. drivers[i].mem[file[at - 1].of] = h[at - 1].cache[file[at - 1].of]
      BY <2>2, <3>1 DEF Replaying
    <3>3. at - 1 \in 1 .. Len(file)
      BY <2>3, <3>1
    <3>4. Sound(h[at - 1], file[at - 1])
      BY <2>2, <3>3 DEF Told
    <3>. QED BY <3>1, <3>2, <3>4 DEF Sound
  <2>5. ReplayMatches
    <3>1. CASE AtEnd
      <4>1. Record.rec = "none"
        BY <3>1 DEF Record
      <4>. QED BY <4>1 DEF ReplayMatches
    <3>2. CASE ~AtEnd
      <4>. DEFINE r == file[at]
      <4>1. Record = r /\ at \in 1 .. Len(file) /\ r \in Records
        BY <2>3, <3>2 DEF Record, AtEnd
      <4>2. Sound(h[at], r)
        BY <2>2, <4>1 DEF Told
      <4>. HIDE DEF r
      <4>3. SUFFICES ASSUME rewinds = 0
                     PROVE  /\ r.rec = "flush" /\ ~r.touched =>
                                   /\ \A b \in Blocks \ (IF r.of = "rdram" /\ at > 1 THEN r.host ELSE {}) :
                                          drivers[1].mem[r.of][b] = r.was.mem[r.of][b]
                                   /\ drivers[1].tmem = r.was.tmem
                            /\ r.rec = "end_frame" => /\ drivers[1].vi = r.was.vi
                                                      /\ drivers[1].mem = r.was.mem
        BY <4>1 DEF ReplayMatches
      <4>4. drivers[1] = h[at].dev
        BY <2>2, <4>3 DEF Replaying
      <4>5. r.rec = "end_frame" => drivers[1].vi = r.was.vi /\ drivers[1].mem = r.was.mem
        BY <4>2, <4>4 DEF Sound
      <4>6. ASSUME r.rec = "flush", ~r.touched
            PROVE  /\ \A b \in Blocks \ (IF r.of = "rdram" /\ at > 1 THEN r.host ELSE {}) :
                          drivers[1].mem[r.of][b] = r.was.mem[r.of][b]
                   /\ drivers[1].tmem = r.was.tmem
        <5>1. /\ \A b \in Blocks \ (IF r.of = "rdram" THEN r.host ELSE {}) :
                     drivers[1].mem[r.of][b] = r.was.mem[r.of][b]
              /\ drivers[1].tmem = r.was.tmem
          BY <4>2, <4>4, <4>6 DEF Sound
        <5>2. CASE at > 1
          BY <5>1, <5>2
        <5>3. CASE r.of # "rdram"
          BY <5>1, <5>3
        <5>4. CASE at = 1 /\ r.of = "rdram"
          \* The first record is a flush only if the memory is still what it was.
          <6>1. h[1] = Beginning
            BY <2>2 DEF Told
          <6>2. r.was.mem["rdram"] = Zero["rdram"]
            BY <4>2, <4>6, <5>4, <6>1 DEF Sound, Beginning
          <6>3. \A b \in Blocks : drivers[1].mem["rdram"][b] = Zero["rdram"][b]
            BY <4>4, <5>4, <6>1 DEF Beginning, NewDevice, Zero, Memories
          <6>. QED BY <5>1, <5>4, <6>2, <6>3
        <5>. QED BY <2>3, <5>2, <5>3, <5>4
      <4>. QED BY <4>5, <4>6
    <3>. QED BY <3>1, <3>2
  <2>. QED BY <2>4, <2>5 DEF ReplayIsFaithful
<1>. QED BY <1>1, DumpInvariant, PTL

(* A dump passes only if it is complete, all of it was replayed and the    *)
(* two devices never differed where the validator may look.                *)
THEOREM ValidationIsSound == Spec => []ValidatorIsSound
<1>1. Inv => ValidatorIsSound
  <2>1. ASSUME Inv, phase = "replay" PROVE ValidatorIsSound
    <3>1. Judging
      BY <2>1, WhileReplaying
    <3>. QED BY <3>1 DEF Judging, ValidatorIsSound
  <2>2. ASSUME Inv, phase = "record" PROVE ValidatorIsSound
    <3>1. result = "none"
      BY <2>2, WhileRecording DEF AtRest
    <3>. QED BY <3>1 DEF ValidatorIsSound
  <2>. QED BY <2>1, <2>2 DEF Inv, TypeOK
<1>. QED BY <1>1, DumpInvariant, PTL
=============================================================================
