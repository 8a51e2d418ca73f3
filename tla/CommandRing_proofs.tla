------------------------- MODULE CommandRing_proofs -------------------------
(***************************************************************************)
(* Proofs about the command ring, for every ring size, every set of        *)
(* callers and every bound.                                                *)
(***************************************************************************)
EXTENDS CommandRing, TLAPS

-----------------------------------------------------------------------------
(* Arithmetic of `& mask`. *)

LEMMA ModUnique ==
    ASSUME NEW q \in Int, NEW r \in 0 .. Size - 1, NEW a \in Int,
           a = q * Size + r
    PROVE  a % Size = r
<1>1. (q * Size + r) % Size = r
  BY SizeAssumption
<1>. QED BY <1>1

(* The distance between the slot of position u and position w. *)
LEMMA SlotDistance ==
    ASSUME NEW u \in Nat, NEW w \in Nat
    PROVE  /\ u % Size \in 0 .. Size - 1
           /\ u >= w /\ u < w + Size => ((u % Size) - w) % Size = u - w
           /\ u < w /\ w <= u + Size => ((u % Size) - w) % Size = u - w + Size
<1>1. Size \in Nat \ {0}
  BY SizeAssumption
<1>. DEFINE p == u \div Size
            s == u % Size
<1>2. p \in Int /\ s \in 0 .. Size - 1 /\ u = Size * p + s
  BY <1>1
<1>3. ASSUME u >= w, u < w + Size
      PROVE  (s - w) % Size = u - w
  <2>1. u - w \in 0 .. Size - 1
    BY <1>1, <1>3
  <2>2. s - w = (-p) * Size + (u - w)
    BY <1>1, <1>2
  <2>. QED BY <1>2, <2>1, <2>2, ModUnique
<1>4. ASSUME u < w, w <= u + Size
      PROVE  (s - w) % Size = u - w + Size
  <2>1. u - w + Size \in 0 .. Size - 1
    BY <1>1, <1>4
  <2>2. s - w = (-p - 1) * Size + (u - w + Size)
    BY <1>1, <1>2
  <2>. QED BY <1>2, <2>1, <2>2, ModUnique
<1>. QED BY <1>2, <1>3, <1>4

-----------------------------------------------------------------------------
(* The inductive invariant.  QueuedIntact and the rest say what the callers *)
(* rely on; to carry them from step to step one must also know where the   *)
(* commands lie (Layout), how far the thread has got (Progressed), that    *)
(* nothing follows the sentinel (Closed), who can be asleep (Asleep) and   *)
(* how completed_count trails read_count (Completed).                      *)

\* The position behind command i.
End(i) == sent[i].at + Len(sent[i].words) + 1

(* Commands lie one behind the other, without gaps, up to write_count, and *)
(* read_count is the header of the first one that was not popped.          *)
Layout ==
    /\ taken <= Len(sent)
    /\ write_count = IF sent = <<>> THEN 0 ELSE End(Len(sent))
    /\ read_count = IF taken < Len(sent) THEN sent[taken + 1].at ELSE write_count
    /\ write_count <= read_count + Size
    /\ \A i \in 1 .. Len(sent) : i < Len(sent) => sent[i + 1].at = End(i)
    /\ \A i, j \in 1 .. Len(sent) : i < j => End(i) <= sent[j].at

\* The thread holds a command that it has not finished.
Holding == \/ rpc = "run" /\ ~is_idle
           \/ rpc \in {"exited", "off"} /\ sent # <<>>

Progressed ==
    /\ taken = Len(executed) + (IF Holding THEN 1 ELSE 0)
    /\ rpc = "run" /\ ~is_idle => tmp_buffer = sent[taken].words
    /\ rpc = "run" /\ is_idle => tmp_buffer # Sentinel
    /\ rpc \in {"exited", "off"} /\ sent # <<>> => taken = Len(sent) /\ Closing
    /\ rpc = "complete" => taken > 0
    /\ rpc = "exited" => sent # <<>>

TearingDown(c) == \/ pc[c] \in {"join", "reset"}
                  \/ pc[c] = "enqueue" /\ arg[c] = Sentinel

(* While one caller tears the ring down no other one is inside a method,   *)
(* so the sentinel is the last command.                                    *)
Closed ==
    /\ \A i \in 1 .. Len(sent) : i < Len(sent) => sent[i].words # Sentinel
    /\ Closing => \E c \in Callers : pc[c] \in {"join", "reset", "dead"}
    /\ \A c \in Callers :
        /\ TearingDown(c) => Quiet(c) /\ after[c] \in {"reset", "dead"}
        /\ TearingDown(c) /\ after[c] = "reset" => \A d \in Callers \ {c} : pc[d] = "idle"
        /\ pc[c] = "reset" => after[c] = "reset"
        /\ pc[c] = "join" => Closing
        /\ pc[c] = "enqueue" => rpc # "off"
        /\ pc[c] \in {"reset", "dead"} => rpc = "off"

Asleep ==
    /\ RingThread \in waiting => rpc = "poll"
    /\ \A c \in waiting \ {RingThread} : pc[c] \in {"enqueue", "drain"}

\* The thread has published everything it popped.
CaughtUp == \/ rpc \in {"poll", "expired"}
            \/ rpc = "run" /\ is_idle
            \/ sent = <<>>

Completed ==
    /\ inits = 0 => completed_count = 0 /\ rpc = "off" /\ sent = <<>>
    /\ inits <= 1 => IF CaughtUp THEN completed_count = read_count
                                 ELSE completed_count < read_count

IInv == /\ TypeOK /\ Layout /\ QueuedIntact /\ Progressed /\ ExecutedInOrder
        /\ Closed /\ Asleep /\ Completed /\ WakeupOwed
-----------------------------------------------------------------------------
(* Every command is a sequence of words that fits in the ring. *)
LEMMA CommandType ==
    ASSUME NEW cmd \in Command \union {Sentinel}
    PROVE  /\ cmd \in Seq(Nat)
           /\ Len(cmd) \in 0 .. MaxWords
           /\ cmd \in Command => cmd # Sentinel
<1>1. CASE cmd = Sentinel
  <2>1. ASSUME NEW n \in 1 .. MaxWords, NEW f \in [1 .. n -> Word] PROVE f # <<>>
    <3>1. DOMAIN f = 1 .. n /\ 1 \in 1 .. n
      BY FitAssumption
    <3>2. DOMAIN <<>> = {}
      OBVIOUS
    <3>. QED BY <3>1, <3>2
  <2>. QED BY <1>1, <2>1, FitAssumption DEF Sentinel, Command
<1>2. CASE cmd # Sentinel
  <2>1. PICK n \in 1 .. MaxWords : cmd \in [1 .. n -> Word]
    BY <1>2 DEF Command
  <2>2. cmd \in [1 .. n -> Nat]
    BY <2>1, WordAssumption
  <2>3. n \in Nat
    BY FitAssumption
  <2>4. cmd \in Seq(Nat) /\ Len(cmd) = n
    BY <2>2, <2>3
  <2>. QED BY <1>2, <2>4
<1>. QED BY <1>1, <1>2

(* What a caller that is let through by NotifyOne can be. *)
LEMMA NotifyOneShrinks ==
    ASSUME waiting' \in NotifyOne
    PROVE  /\ waiting' \subseteq waiting
           /\ \A t : waiting \subseteq {t} => waiting' = {}
BY Zenon DEF NotifyOne

(* Type correctness of every step. *)
LEMMA TypeStep == TypeOK /\ [Next]_vars => TypeOK'
<1>. SUFFICES ASSUME TypeOK, [Next]_vars PROVE TypeOK'
  OBVIOUS
<1>. USE DEF TypeOK, CallerPhase, RingPhase
<1>1. ASSUME NEW c \in Callers, Enqueue(c) PROVE TypeOK'
  <2>1. arg[c] \in Command \union {Sentinel}
    OBVIOUS
  <2>2. arg[c] \in Seq(Nat) /\ Len(arg[c]) \in Nat
    BY <2>1, CommandType, FitAssumption
  <2>3. ring' \in [0 .. Size - 1 -> Nat]
    <3>1. ASSUME NEW i \in 0 .. Size - 1
          PROVE  ring'[i] \in Nat
      <4>1. (i - write_count) % Size \in 0 .. Size - 1
        BY SizeAssumption
      <4>. DEFINE d == (i - write_count) % Size
      <4>2. ring'[i] = IF d = 0 THEN Len(arg[c])
                       ELSE IF d <= Len(arg[c]) THEN arg[c][d] ELSE ring[i]
        BY <1>1 DEF Enqueue, Written
      <4>. HIDE DEF d
      <4>3. d \in 0 .. Size - 1
        BY <4>1 DEF d
      <4>4. d <= Len(arg[c]) /\ d # 0 => arg[c][d] \in Nat
        BY <2>2, <4>3
      <4>5. ring[i] \in Nat
        OBVIOUS
      <4>. HIDE DEF TypeOK
      <4>. QED BY <2>2, <4>2, <4>4, <4>5
    <3>2. ring' = [i \in 0 .. Size - 1 |-> ring'[i]]
      BY <1>1 DEF Enqueue, Written
    <3>. QED BY <3>1, <3>2
  <2>4. waiting' \subseteq Callers \union {RingThread}
    BY <1>1, NotifyOneShrinks DEF Enqueue
  <2>5. write_count' \in Nat
    BY <1>1, <2>2 DEF Enqueue
  <2>6. sent' \in Seq([at : Nat, words : Command \union {Sentinel}])
    BY <1>1, <2>1 DEF Enqueue
  <2>. QED BY <1>1, <2>3, <2>4, <2>5, <2>6 DEF Enqueue, thread
<1>2. CASE RingPop
  <2>1. read_count % Size \in 0 .. Size - 1
    BY SlotDistance
  <2>2. ring[read_count % Size] \in Nat
    BY <2>1
  <2>3. \A i \in 1 .. ring[read_count % Size] : ring[(read_count + i) % Size] \in Nat
    <3>1. \A i \in 1 .. ring[read_count % Size] : read_count + i \in Nat
      BY <2>2
    <3>. QED BY <3>1, SlotDistance
  <2>4. Popped(read_count) \in Seq(Nat)
    <3>. DEFINE n == ring[read_count % Size]
    <3>1. Popped(read_count) \in [1 .. n -> Nat]
      BY <2>3 DEF Popped
    <3>. HIDE DEF n, TypeOK
    <3>2. n \in Nat
      BY <2>2 DEF n
    <3>. QED BY <3>1, <3>2
  <2>5. read_count' \in Nat /\ taken' \in Nat
    BY <1>2, <2>2 DEF RingPop
  <2>. QED BY <1>2, <2>4, <2>5 DEF RingPop, callers
<1>3. CASE RingComplete
  <2>1. waiting' \subseteq Callers \union {RingThread}
    BY <1>3, NotifyOneShrinks DEF RingComplete
  <2>. QED BY <1>3, <2>1 DEF RingComplete, callers, history
<1>4. CASE RingExecute
  BY <1>4 DEF RingExecute, shared, callers
<1>5. CASE RingWait \/ RingTimeout \/ RingIdle \/ RingBreak
  <2>1. <<MetaIdle>> \in Seq(Nat)
    BY WordAssumption
  <2>. QED
    BY <1>5, <2>1
       DEF RingWait, RingTimeout, RingIdle, RingBreak, shared, callers, thread, history
<1>6. ASSUME NEW c \in Callers,
             EnqueueWait(c) \/ DrainWait(c) \/ DrainReturn(c) \/ Join(c)
      PROVE  TypeOK'
  BY <1>6 DEF EnqueueWait, DrainWait, DrainReturn, Join, shared, callers, thread, history
<1>7. ASSUME NEW c \in Callers, Reset(c) PROVE TypeOK'
  BY <1>7 DEF Reset
<1>8. ASSUME NEW c \in Callers, CallEnqueue(c) PROVE TypeOK'
  BY <1>8 DEF CallEnqueue, shared, thread, history
<1>9. ASSUME NEW c \in Callers, CallDrain(c) PROVE TypeOK'
  BY <1>9 DEF CallDrain, shared, thread, history
<1>10. ASSUME NEW c \in Callers, NEW next \in {"reset", "dead"}, Teardown(c, next)
       PROVE  TypeOK'
  BY <1>10 DEF Teardown, shared, thread, history
<1>11. ASSUME NEW t, Spurious(t) PROVE TypeOK'
  BY <1>11 DEF Spurious, shared, callers, thread, history
<1>12. CASE UNCHANGED vars
  BY <1>12 DEF vars, shared, callers, thread, history
<1>. QED
  BY <1>1, <1>2, <1>3, <1>4, <1>5, <1>6, <1>7, <1>8, <1>9, <1>10, <1>11, <1>12
     DEF Next, RingStep, Progress, Call, CallInit, CallDestroy, Terminated
-----------------------------------------------------------------------------
(* Consequences of the layout. *)
LEMMA SentType ==
    ASSUME TypeOK, NEW i \in 1 .. Len(sent)
    PROVE  /\ sent[i] \in [at : Nat, words : Command \union {Sentinel}]
           /\ sent[i].at \in Nat
           /\ sent[i].words \in Seq(Nat)
           /\ Len(sent[i].words) \in 0 .. MaxWords
           /\ Len(sent[i].words) \in Nat
           /\ End(i) \in Nat
<1>1. sent[i] \in [at : Nat, words : Command \union {Sentinel}]
  <2>. DEFINE S == [at : Nat, words : Command \union {Sentinel}]
  <2>1. sent \in Seq(S)
    BY DEF TypeOK
  <2>. HIDE DEF S
  <2>2. sent[i] \in S
    BY <2>1
  <2>. QED BY <2>2 DEF S
<1>2. sent[i].words \in Command \union {Sentinel} /\ sent[i].at \in Nat
  BY <1>1
<1>3. sent[i].words \in Seq(Nat) /\ Len(sent[i].words) \in 0 .. MaxWords
  BY <1>2, CommandType
<1>. QED BY <1>1, <1>2, <1>3, FitAssumption DEF End

(* Commands still queued lie between the two counters. *)
LEMMA Positions ==
    ASSUME TypeOK, Layout, NEW i \in 1 .. Len(sent)
    PROVE  /\ End(i) <= write_count
           /\ i > taken => read_count <= sent[i].at
<1>1. Len(sent) \in Nat /\ taken \in Nat /\ write_count \in Nat /\ read_count \in Nat
  BY DEF TypeOK
<1>2. End(i) <= write_count
  <2>1. write_count = End(Len(sent)) /\ Len(sent) \in 1 .. Len(sent)
    <3>1. sent # <<>> /\ Len(sent) \in 1 .. Len(sent)
      BY <1>1
    <3>. QED BY <3>1 DEF Layout
  <2>2. CASE i < Len(sent)
    <3>1. End(i) <= sent[Len(sent)].at
      BY <2>1, <2>2 DEF Layout
    <3>2. sent[Len(sent)].at <= End(Len(sent))
      BY <2>1, SentType DEF End
    <3>. QED BY <2>1, <3>1, <3>2, SentType
  <2>. QED BY <1>1, <2>1, <2>2, SentType
<1>3. ASSUME i > taken PROVE read_count <= sent[i].at
  <2>1. read_count = sent[taken + 1].at /\ taken + 1 \in 1 .. Len(sent)
    BY <1>1, <1>3 DEF Layout
  <2>2. CASE taken + 1 < i
    <3>1. End(taken + 1) <= sent[i].at
      BY <2>1, <2>2 DEF Layout
    <3>2. sent[taken + 1].at <= End(taken + 1)
      BY <2>1, SentType DEF End
    <3>. QED BY <2>1, <3>1, <3>2, SentType
  <2>. QED BY <1>1, <1>3, <2>1, <2>2, SentType
<1>. QED BY <1>2, <1>3

(* The reader has caught up with the writer exactly when every command has *)
(* been popped.                                                            *)
LEMMA AllTaken ==
    ASSUME TypeOK, Layout
    PROVE  /\ read_count <= write_count
           /\ HasCommand <=> taken < Len(sent)
<1>1. Len(sent) \in Nat /\ taken \in Nat /\ write_count \in Nat /\ read_count \in Nat
  BY DEF TypeOK
<1>2. CASE taken < Len(sent)
  <2>1. taken + 1 \in 1 .. Len(sent) /\ read_count = sent[taken + 1].at
    BY <1>1, <1>2 DEF Layout
  <2>2. End(taken + 1) <= write_count
    BY <2>1, Positions
  <2>3. read_count < End(taken + 1)
    BY <2>1, SentType DEF End
  <2>. QED BY <1>1, <1>2, <2>1, <2>2, <2>3, SentType DEF HasCommand
<1>3. CASE ~(taken < Len(sent))
  BY <1>1, <1>3 DEF Layout, HasCommand
<1>. QED BY <1>2, <1>3

(* What RingPop reads is the oldest command that was not popped. *)
LEMMA PoppedIsNext ==
    ASSUME TypeOK, Layout, QueuedIntact, HasCommand
    PROVE  /\ taken + 1 \in 1 .. Len(sent)
           /\ ring[read_count % Size] = Len(sent[taken + 1].words)
           /\ Popped(read_count) = sent[taken + 1].words
           /\ read_count + ring[read_count % Size] + 1 = End(taken + 1)
<1>1. Len(sent) \in Nat /\ taken \in Nat
  BY DEF TypeOK
<1>. DEFINE k == taken + 1
            w == sent[k].words
<1>2. k \in 1 .. Len(sent) /\ k \in taken + 1 .. Len(sent)
  BY <1>1, AllTaken
<1>3. read_count = sent[k].at
  BY <1>1, <1>2 DEF Layout
<1>4. w \in Seq(Nat) /\ Len(w) \in Nat
  BY <1>2, SentType
<1>5. ring[read_count % Size] = Len(w)
  BY <1>2, <1>3 DEF QueuedIntact
<1>6. \A j \in 1 .. Len(w) : ring[(read_count + j) % Size] = w[j]
  BY <1>2, <1>3 DEF QueuedIntact
<1>7. Popped(read_count) = [j \in 1 .. Len(w) |-> w[j]]
  BY <1>5, <1>6 DEF Popped
<1>8. w = [j \in 1 .. Len(w) |-> w[j]]
  BY <1>4
<1>. QED BY <1>2, <1>3, <1>5, <1>7, <1>8 DEF End
-----------------------------------------------------------------------------
(* Only three actions touch the queue itself. *)
LEMMA QueueFrame ==
    ASSUME [Next]_vars
    PROVE  \/ \E c \in Callers : Enqueue(c)
           \/ \E c \in Callers : Reset(c)
           \/ RingPop
           \/ UNCHANGED <<ring, write_count, read_count, sent, taken>>
BY Zenon DEF Next, RingStep, Progress, Call, CallInit, CallDestroy, Terminated, vars,
       shared, history, RingWait, RingTimeout, RingIdle, RingExecute,
       RingComplete, RingBreak, EnqueueWait, DrainWait, DrainReturn, Join,
       CallEnqueue, CallDrain, Teardown, Spurious

(* What Enqueue does to the history. *)
LEMMA EnqueueSent ==
    ASSUME TypeOK, NEW c \in Callers, Enqueue(c)
    PROVE  /\ arg[c] \in Seq(Nat) /\ Len(arg[c]) \in 0 .. MaxWords
           /\ Len(sent) \in Nat
           /\ Len(sent') = Len(sent) + 1
           /\ \A i \in 1 .. Len(sent) : sent'[i] = sent[i] /\ End(i)' = End(i)
           /\ sent'[Len(sent) + 1] = [at |-> write_count, words |-> arg[c]]
           /\ End(Len(sent))' = write_count + Len(arg[c]) + 1
           /\ sent' # <<>>
<1>1. arg[c] \in Seq(Nat) /\ Len(arg[c]) \in 0 .. MaxWords
  <2>1. arg[c] \in Command \union {Sentinel}
    BY DEF TypeOK
  <2>. QED BY <2>1, CommandType
<1>. DEFINE S == [at : Nat, words : Command \union {Sentinel}]
            m == [at |-> write_count, words |-> arg[c]]
<1>2. sent \in Seq(S) /\ m \in S /\ sent' = Append(sent, m)
  BY DEF TypeOK, Enqueue
<1>. HIDE DEF S
<1>3. /\ Len(sent) \in Nat /\ Len(sent') = Len(sent) + 1
      /\ \A i \in 1 .. Len(sent) : sent'[i] = sent[i]
      /\ sent'[Len(sent) + 1] = m
      /\ sent' # <<>>
  BY <1>2
<1>4. \A i \in 1 .. Len(sent) : End(i)' = End(i)
  BY <1>3 DEF End
<1>5. End(Len(sent))' = m.at + Len(m.words) + 1
  BY <1>3 DEF End
<1>. QED BY <1>1, <1>3, <1>4, <1>5

(* The commands lie one behind the other, wherever they are written.       *)
LEMMA LayoutStep == TypeOK /\ Layout /\ QueuedIntact /\ [Next]_vars => Layout'
<1>. SUFFICES ASSUME TypeOK, Layout, QueuedIntact, [Next]_vars PROVE Layout'
  OBVIOUS
<1>0. Len(sent) \in Nat /\ taken \in Nat /\ write_count \in Nat /\ read_count \in Nat
  BY DEF TypeOK
<1>1. ASSUME NEW c \in Callers, Enqueue(c) PROVE Layout'
  <2>0. /\ arg[c] \in Seq(Nat) /\ Len(arg[c]) \in 0 .. MaxWords
        /\ Len(sent') = Len(sent) + 1
        /\ \A i \in 1 .. Len(sent) : sent'[i] = sent[i] /\ End(i)' = End(i)
        /\ sent'[Len(sent) + 1] = [at |-> write_count, words |-> arg[c]]
        /\ End(Len(sent))' = write_count + Len(arg[c]) + 1
        /\ sent' # <<>>
    BY <1>1, EnqueueSent
  <2>1. taken' = taken /\ read_count' = read_count
    BY <1>1 DEF Enqueue
  <2>2. write_count' = write_count + Len(arg[c]) + 1
    BY <1>1 DEF Enqueue
  <2>3. write_count' <= read_count' + Size
    BY <1>0, <1>1, <2>0, <2>1, <2>2, FitAssumption, SizeAssumption DEF Enqueue, HasSpace
  <2>4. write_count' = End(Len(sent))'
    BY <1>1, <2>2, <2>0
  <2>5. ASSUME NEW i \in 1 .. Len(sent'), i < Len(sent')
        PROVE  sent'[i + 1].at = End(i)'
    <3>1. i \in 1 .. Len(sent) /\ End(i)' = End(i)
      BY <1>1, <2>5, <2>0
    <3>2. CASE i < Len(sent)
      <4>1. sent'[i + 1] = sent[i + 1]
        BY <1>1, <3>1, <3>2, <2>0
      <4>. QED BY <3>1, <3>2, <4>1 DEF Layout
    <3>3. CASE i = Len(sent)
      <4>1. sent'[i + 1].at = write_count
        BY <1>1, <3>3, <2>0
      <4>2. write_count = End(i)
        <5>1. sent # <<>>
          BY <3>1
        <5>. QED BY <3>3, <5>1 DEF Layout
      <4>. QED BY <3>1, <4>1, <4>2
    <3>. QED BY <1>0, <3>1, <3>2, <3>3
  <2>6. ASSUME NEW i \in 1 .. Len(sent'), NEW j \in 1 .. Len(sent'), i < j
        PROVE  End(i)' <= sent'[j].at
    <3>1. i \in 1 .. Len(sent) /\ End(i)' = End(i)
      BY <1>1, <2>6, <2>0
    <3>2. CASE j \in 1 .. Len(sent)
      <4>1. sent'[j] = sent[j]
        BY <1>1, <3>2, <2>0
      <4>. QED BY <2>6, <3>1, <3>2, <4>1 DEF Layout
    <3>3. CASE j = Len(sent) + 1
      <4>1. sent'[j].at = write_count
        BY <1>1, <3>3, <2>0
      <4>. QED BY <3>1, <4>1, Positions
    <3>. QED BY <1>1, <3>2, <3>3, <2>0
  <2>7. read_count' = IF taken' < Len(sent') THEN sent'[taken' + 1].at ELSE write_count'
    <3>1. taken' < Len(sent')
      BY <1>0, <1>1, <2>1, <2>0 DEF Layout
    <3>2. CASE taken < Len(sent)
      <4>1. taken + 1 \in 1 .. Len(sent)
        BY <1>0, <3>2
      <4>2. sent'[taken + 1] = sent[taken + 1]
        BY <1>1, <4>1, <2>0
      <4>. QED BY <2>1, <3>1, <3>2, <4>2 DEF Layout
    <3>3. CASE taken = Len(sent)
      <4>1. sent'[taken + 1].at = write_count
        BY <1>1, <3>3, <2>0
      <4>. QED BY <1>0, <2>1, <3>1, <3>3, <4>1 DEF Layout
    <3>. QED BY <1>0, <3>2, <3>3 DEF Layout
  <2>8. taken' <= Len(sent') /\ sent' # <<>>
    BY <1>0, <1>1, <2>1, <2>0 DEF Layout
  <2>9. Len(sent') = Len(sent) + 1
    BY <2>0
  <2>10. write_count' = IF sent' = <<>> THEN 0 ELSE End(Len(sent))'
    BY <2>4, <2>8
  <2>. QED BY <2>3, <2>5, <2>6, <2>7, <2>8, <2>10 DEF Layout
<1>2. ASSUME NEW c \in Callers, Reset(c) PROVE Layout'
  BY <1>2, SizeAssumption DEF Reset, Layout
<1>3. CASE RingPop
  <2>1. HasCommand
    BY <1>3 DEF RingPop
  <2>2. taken' = taken + 1 /\ UNCHANGED <<sent, write_count>>
    BY <1>3 DEF RingPop
  <2>3. taken + 1 \in 1 .. Len(sent) /\ read_count' = End(taken + 1)
    BY <1>3, <2>1, PoppedIsNext DEF RingPop
  <2>4. read_count' >= read_count
    BY <1>0, <2>3, Positions, SentType DEF End
  <2>5. read_count' = IF taken' < Len(sent) THEN sent[taken' + 1].at ELSE write_count
    <3>1. CASE taken + 1 < Len(sent)
      BY <2>2, <2>3, <3>1 DEF Layout
    <3>2. CASE taken + 1 = Len(sent)
      <4>1. sent # <<>>
        BY <1>0, <2>3
      <4>. QED BY <1>0, <2>2, <2>3, <3>2, <4>1 DEF Layout
    <3>. QED BY <1>0, <2>3, <3>1, <3>2
  <2>6. write_count <= read_count' + Size
    BY <1>0, <2>3, <2>4, SentType, SizeAssumption DEF Layout
  <2>. QED BY <1>0, <2>2, <2>3, <2>5, <2>6 DEF Layout, End
<1>4. CASE UNCHANGED <<ring, write_count, read_count, sent, taken>>
  BY <1>4 DEF Layout, End
<1>. QED BY <1>1, <1>2, <1>3, <1>4, QueueFrame

(* No queued word is overwritten. *)
LEMMA QueuedIntactStep ==
    TypeOK /\ Layout /\ QueuedIntact /\ [Next]_vars => QueuedIntact'
<1>. SUFFICES ASSUME TypeOK, Layout, QueuedIntact, [Next]_vars PROVE QueuedIntact'
  OBVIOUS
<1>0. Len(sent) \in Nat /\ taken \in Nat /\ write_count \in Nat /\ read_count \in Nat
  BY DEF TypeOK
<1>1. ASSUME NEW c \in Callers, Enqueue(c) PROVE QueuedIntact'
  <2>0. /\ arg[c] \in Seq(Nat) /\ Len(arg[c]) \in 0 .. MaxWords
        /\ Len(sent') = Len(sent) + 1
        /\ \A i \in 1 .. Len(sent) : sent'[i] = sent[i]
        /\ sent'[Len(sent) + 1] = [at |-> write_count, words |-> arg[c]]
    BY <1>1, EnqueueSent
  <2>1. taken' = taken /\ write_count + Len(arg[c]) + 1 <= read_count + Size
    BY <1>1 DEF Enqueue, HasSpace
  <2>2. Size \in Nat \ {0}
    BY SizeAssumption
  <2>3. ASSUME NEW i \in 0 .. Size - 1, NEW d, d = (i - write_count) % Size
        PROVE  ring'[i] = IF d = 0 THEN Len(arg[c])
                          ELSE IF d <= Len(arg[c]) THEN arg[c][d] ELSE ring[i]
    BY <1>1, <2>3 DEF Enqueue, Written
  <2>4. ASSUME NEW u \in Nat, read_count <= u, u < write_count
        PROVE  ring'[u % Size] = ring[u % Size]
    <3>1. u % Size \in 0 .. Size - 1
      BY SlotDistance
    <3>2. write_count <= u + Size
      BY <1>0, <2>0, <2>1, <2>2, <2>4
    <3>3. ((u % Size) - write_count) % Size = u - write_count + Size
      BY <1>0, <2>4, <3>2, SlotDistance
    <3>4. u - write_count + Size > Len(arg[c])
      BY <1>0, <2>0, <2>1, <2>2, <2>4
    <3>5. u - write_count + Size # 0 /\ ~(u - write_count + Size <= Len(arg[c]))
      BY <1>0, <2>0, <2>2, <3>4
    <3>. QED BY <2>3, <3>1, <3>3, <3>5
  <2>5. ASSUME NEW j \in 0 .. Len(arg[c])
        PROVE  ring'[(write_count + j) % Size] = IF j = 0 THEN Len(arg[c]) ELSE arg[c][j]
    <3>1. write_count + j \in Nat /\ j < Size
      BY <1>0, <2>0, <2>2, FitAssumption
    <3>2. (write_count + j) % Size \in 0 .. Size - 1
      BY <3>1, SlotDistance
    <3>3. (((write_count + j) % Size) - write_count) % Size = j
      <4>1. write_count + j >= write_count /\ write_count + j < write_count + Size
        BY <1>0, <2>0, <2>2, <3>1
      <4>2. (write_count + j) - write_count = j
        BY <1>0, <2>0
      <4>. QED BY <1>0, <3>1, <4>1, <4>2, SlotDistance
    <3>4. j <= Len(arg[c])
      BY <2>0
    <3>. QED BY <2>3, <3>2, <3>3, <3>4
  <2>6. ASSUME NEW i \in taken + 1 .. Len(sent)
        PROVE  /\ ring'[sent[i].at % Size] = Len(sent[i].words)
               /\ \A j \in 1 .. Len(sent[i].words) :
                      ring'[(sent[i].at + j) % Size] = sent[i].words[j]
    <3>1. i \in 1 .. Len(sent) /\ i > taken
      BY <1>0
    <3>2. /\ sent[i].at \in Nat /\ Len(sent[i].words) \in Nat
          /\ read_count <= sent[i].at
          /\ sent[i].at + Len(sent[i].words) + 1 <= write_count
      BY <3>1, SentType, Positions DEF End
    <3>3. ring'[sent[i].at % Size] = ring[sent[i].at % Size]
      BY <1>0, <2>4, <3>2
    <3>4. ASSUME NEW j \in 1 .. Len(sent[i].words)
          PROVE  ring'[(sent[i].at + j) % Size] = ring[(sent[i].at + j) % Size]
      <4>1. sent[i].at + j \in Nat /\ read_count <= sent[i].at + j
            /\ sent[i].at + j < write_count
        BY <1>0, <3>2
      <4>. QED BY <2>4, <4>1
    <3>. QED BY <3>3, <3>4 DEF QueuedIntact
  <2>7. ASSUME NEW i \in taken' + 1 .. Len(sent')
        PROVE  /\ ring'[sent'[i].at % Size] = Len(sent'[i].words)
               /\ \A j \in 1 .. Len(sent'[i].words) :
                      ring'[(sent'[i].at + j) % Size] = sent'[i].words[j]
    <3>1. CASE i \in 1 .. Len(sent)
      <4>1. i \in taken + 1 .. Len(sent) /\ sent'[i] = sent[i]
        BY <1>0, <2>0, <2>1, <3>1
      <4>. QED BY <2>6, <4>1
    <3>2. CASE i = Len(sent) + 1
      <4>1. sent'[i].at = write_count /\ sent'[i].words = arg[c]
        BY <2>0, <3>2
      <4>2. ring'[write_count % Size] = Len(arg[c])
        <5>1. 0 \in 0 .. Len(arg[c]) /\ write_count + 0 = write_count
          BY <1>0, <2>0
        <5>. QED BY <2>5, <5>1
      <4>3. ASSUME NEW j \in 1 .. Len(arg[c])
            PROVE  ring'[(write_count + j) % Size] = arg[c][j]
        <5>1. j \in 0 .. Len(arg[c]) /\ j # 0
          BY <2>0
        <5>. QED BY <2>5, <5>1
      <4>. QED BY <4>1, <4>2, <4>3
    <3>. QED BY <1>0, <2>0, <2>1, <3>1, <3>2
  <2>. QED BY <2>7 DEF QueuedIntact
<1>2. ASSUME NEW c \in Callers, Reset(c) PROVE QueuedIntact'
  BY <1>2 DEF Reset, QueuedIntact
<1>3. CASE RingPop
  BY <1>0, <1>3 DEF RingPop, QueuedIntact
<1>4. CASE UNCHANGED <<ring, write_count, read_count, sent, taken>>
  BY <1>4 DEF QueuedIntact
<1>. QED BY <1>1, <1>2, <1>3, <1>4, QueueFrame

-----------------------------------------------------------------------------
(* Nothing is enqueued behind the sentinel. *)
LEMMA ClosedStep == TypeOK /\ Closed /\ [Next]_vars => Closed'
<1>. SUFFICES ASSUME TypeOK, Closed, [Next]_vars PROVE Closed'
  OBVIOUS
<1>0. /\ pc \in [Callers -> CallerPhase]
      /\ arg \in [Callers -> Command \union {Sentinel}]
      /\ after \in [Callers -> {"idle", "reset", "dead"}]
      /\ Len(sent) \in Nat
  BY DEF TypeOK
<1>1. ASSUME NEW c \in Callers, Enqueue(c) PROVE Closed'
  <2>0. /\ Len(sent') = Len(sent) + 1
        /\ \A i \in 1 .. Len(sent) : sent'[i] = sent[i]
        /\ sent'[Len(sent) + 1].words = arg[c]
        /\ sent' # <<>>
    <3>1. sent'[Len(sent) + 1] = [at |-> write_count, words |-> arg[c]]
      BY <1>1, EnqueueSent
    <3>2. sent'[Len(sent) + 1].words = arg[c]
      BY <3>1
    <3>. QED BY <1>1, <3>2, EnqueueSent
  <2>1. pc[c] = "enqueue" /\ UNCHANGED <<arg, after, rpc>> /\ rpc # "off"
    BY <1>1 DEF Enqueue, thread, Closed
  <2>2. pc' = [pc EXCEPT ![c] = IF arg[c] = Sentinel THEN "join" ELSE "idle"]
    BY <1>1 DEF Enqueue
  <2>3. ~Closing
    <3>1. ASSUME Closing PROVE FALSE
      <4>1. PICK d \in Callers : pc[d] \in {"join", "reset", "dead"}
        BY <3>1 DEF Closed
      <4>2. pc[d] = "join" /\ d # c
        BY <2>1, <4>1 DEF Closed
      <4>3. Quiet(d)
        BY <4>2 DEF Closed, TearingDown
      <4>. QED BY <2>1, <4>2, <4>3 DEF Quiet
    <3>. QED BY <3>1
  <2>4. \A i \in 1 .. Len(sent) : sent[i].words # Sentinel
    <3>1. ASSUME NEW i \in 1 .. Len(sent) PROVE sent[i].words # Sentinel
      <4>1. CASE i < Len(sent)
        BY <4>1 DEF Closed
      <4>2. CASE i = Len(sent)
        <5>1. sent # <<>>
          BY <1>0, <4>2
        <5>. QED BY <2>3, <4>2, <5>1 DEF Closing
      <4>. QED BY <1>0, <4>1, <4>2
    <3>. QED BY <3>1
  <2>5. \A i \in 1 .. Len(sent') : i < Len(sent') => sent'[i].words # Sentinel
    BY <1>0, <2>0, <2>4
  <2>6. Closing' <=> arg[c] = Sentinel
    BY <2>0 DEF Closing
  <2>7. \A d \in Callers : pc[d] # "join"
    BY <2>1, <2>3 DEF Closed
  <2>8. CASE arg[c] = Sentinel
    <3>1. TearingDown(c) /\ Quiet(c)
      BY <2>1, <2>8 DEF Closed, TearingDown
    <3>2. \A d \in Callers \ {c} : pc'[d] = pc[d] /\ pc'[d] \in {"idle", "dead"}
      BY <1>0, <2>2, <3>1 DEF Quiet
    <3>3. pc'[c] = "join"
      BY <1>0, <2>2, <2>8
    <3>4. ~TearingDown(c)' \/ Quiet(c)'
      BY <3>2 DEF Quiet
    <3>5. \A d \in Callers \ {c} : ~TearingDown(d)'
      BY <3>2 DEF TearingDown
    <3>. QED BY <2>1, <2>5, <2>6, <2>8, <3>1, <3>2, <3>3, <3>4, <3>5 DEF Closed
  <2>9. CASE arg[c] # Sentinel
    <3>1. \A d \in Callers : pc'[d] = IF d = c THEN "idle" ELSE pc[d]
      BY <1>0, <2>2, <2>9
    <3>2. \A d \in Callers : TearingDown(d)' => TearingDown(d)
      BY <2>1, <3>1 DEF TearingDown
    <3>3. \A d \in Callers : TearingDown(d)' => Quiet(d)'
      BY <3>1, <3>2 DEF Closed, Quiet
    <3>. QED BY <2>1, <2>5, <2>6, <2>7, <2>9, <3>1, <3>2, <3>3 DEF Closed
  <2>. QED BY <2>8, <2>9
<1>2. ASSUME NEW c \in Callers, Reset(c) PROVE Closed'
  <2>1. pc[c] = "reset" /\ after[c] = "reset" /\ TearingDown(c)
    BY <1>2 DEF Reset, Closed, TearingDown
  <2>2. \A d \in Callers : pc'[d] = "idle"
    BY <1>0, <1>2, <2>1 DEF Reset, Closed
  <2>3. sent' = <<>>
    BY <1>2 DEF Reset
  <2>. QED BY <2>2, <2>3 DEF Closed, TearingDown, Closing
<1>3. ASSUME NEW c \in Callers, Join(c) PROVE Closed'
  <2>1. pc[c] = "join" /\ rpc' = "off" /\ UNCHANGED <<arg, after, sent>>
    BY <1>3 DEF Join, history
  <2>2. Quiet(c) /\ Closing /\ after[c] \in {"reset", "dead"}
    BY <2>1 DEF Closed, TearingDown
  <2>3. pc'[c] = after[c] /\ \A d \in Callers \ {c} : pc'[d] = pc[d] /\ pc[d] \in {"idle", "dead"}
    BY <1>0, <1>3, <2>2 DEF Join, Quiet
  <2>4. TearingDown(c)
    BY <2>1 DEF TearingDown
  <2>5. Quiet(c)'
    BY <2>3 DEF Quiet
  <2>6. \A d \in Callers \ {c} : ~TearingDown(d)'
    BY <2>3 DEF TearingDown
  <2>. QED BY <2>1, <2>2, <2>3, <2>4, <2>5, <2>6 DEF Closed, Closing
<1>4. ASSUME NEW c \in Callers, CallEnqueue(c) \/ CallDrain(c) PROVE Closed'
  <2>1. UNCHANGED <<sent, rpc>> /\ (pc'[c] = "enqueue" => rpc # "off")
    BY <1>0, <1>4 DEF CallEnqueue, CallDrain, thread, history
  <2>2. \A d \in Callers : pc'[d] \in {"idle", "enqueue", "drain"}
    BY <1>0, <1>4 DEF CallEnqueue, CallDrain
  <2>3. \A d \in Callers : pc'[d] = "enqueue" => arg'[d] # Sentinel
    <3>1. \A cmd \in Command : cmd # Sentinel
      BY CommandType
    <3>. QED BY <1>0, <1>4, <3>1 DEF CallEnqueue, CallDrain
  <2>4. \A d \in Callers \ {c} : pc'[d] = pc[d]
    BY <1>0, <1>4 DEF CallEnqueue, CallDrain
  <2>5. \A d \in Callers : pc[d] \in {"idle", "enqueue", "drain"}
    BY <1>4 DEF CallEnqueue, CallDrain
  <2>6. ~Closing
    BY <2>5 DEF Closed
  <2>. QED BY <2>1, <2>2, <2>3, <2>4, <2>6 DEF Closed, Closing, TearingDown
<1>5. ASSUME NEW c \in Callers, CallInit(c) \/ CallDestroy(c) PROVE Closed'
  <2>1. PICK next \in {"reset", "dead"} :
            /\ Teardown(c, next)
            /\ next = "reset" => \A d \in Callers : pc[d] = "idle"
    BY <1>5 DEF CallInit, CallDestroy
  <2>2. pc[c] = "idle" /\ Quiet(c) /\ UNCHANGED <<sent, rpc>>
    BY <2>1 DEF Teardown, thread, history
  <2>3. arg'[c] = Sentinel /\ after'[c] = next
        /\ pc'[c] = IF rpc = "off" THEN next ELSE "enqueue"
    BY <1>0, <2>1 DEF Teardown
  <2>4. \A d \in Callers \ {c} : pc'[d] = pc[d] /\ pc[d] \in {"idle", "dead"}
    BY <1>0, <2>1, <2>2 DEF Teardown, Quiet
  <2>5. Quiet(c)' /\ \A d \in Callers \ {c} : ~TearingDown(d)'
    BY <2>4 DEF Quiet, TearingDown
  <2>6. Closing' <=> Closing
    BY <2>2 DEF Closing
  <2>7. Closing => \E d \in Callers : pc'[d] \in {"join", "reset", "dead"}
    BY <2>2, <2>4 DEF Closed
  <2>8. \A d \in Callers \ {c} : pc'[d] = "dead" => rpc = "off"
    BY <2>4 DEF Closed
  <2>9. \A i \in 1 .. Len(sent') : i < Len(sent') => sent'[i].words # Sentinel
    BY <2>2 DEF Closed
  <2>. QED BY <2>1, <2>2, <2>3, <2>4, <2>5, <2>6, <2>7, <2>8, <2>9 DEF Closed, TearingDown
<1>6. ASSUME NEW c \in Callers, DrainReturn(c) PROVE Closed'
  <2>1. UNCHANGED <<sent, rpc, arg, after>> /\ pc[c] = "drain"
    BY <1>6 DEF DrainReturn, thread, history
  <2>2. \A d \in Callers : pc'[d] = IF d = c THEN "idle" ELSE pc[d]
    BY <1>0, <1>6 DEF DrainReturn
  <2>3. \A d \in Callers : TearingDown(d)' => TearingDown(d)
    BY <2>1, <2>2 DEF TearingDown
  <2>4. \A d \in Callers : TearingDown(d)' => Quiet(d)'
    BY <2>2, <2>3 DEF Closed, Quiet
  <2>5. Closing' <=> Closing
    BY <2>1 DEF Closing
  <2>. QED BY <2>1, <2>2, <2>3, <2>4, <2>5 DEF Closed
<1>7. ASSUME UNCHANGED <<pc, arg, after, sent>>, (rpc' = "off") <=> (rpc = "off")
      PROVE  Closed'
  BY <1>7 DEF Closed, Closing, TearingDown, Quiet
<1>8. ASSUME RingStep PROVE UNCHANGED <<pc, arg, after, sent>> /\ rpc' # "off" /\ rpc # "off"
  BY <1>8 DEF RingStep, RingWait, RingTimeout, RingPop, RingIdle, RingExecute,
              RingComplete, RingBreak, callers, history, thread
<1>9. ASSUME NEW c \in Callers, EnqueueWait(c) \/ DrainWait(c)
      PROVE  UNCHANGED <<pc, arg, after, sent, rpc>>
  BY <1>9 DEF EnqueueWait, DrainWait, callers, history, thread
<1>10. ASSUME NEW t, Spurious(t) PROVE UNCHANGED <<pc, arg, after, sent, rpc>>
  BY <1>10 DEF Spurious, callers, history, thread
<1>11. CASE UNCHANGED vars
  BY <1>7, <1>11 DEF vars, callers, history, thread
<1>. QED
  BY <1>1, <1>2, <1>3, <1>4, <1>5, <1>6, <1>7, <1>8, <1>9, <1>10, <1>11
     DEF Next, Progress, Call, Terminated

(* How far the thread has got. *)
LEMMA ProgressedStep ==
    /\ TypeOK /\ Layout /\ QueuedIntact /\ Progressed /\ ExecutedInOrder /\ Closed
    /\ [Next]_vars
    => Progressed' /\ ExecutedInOrder'
<1>. SUFFICES ASSUME TypeOK, Layout, QueuedIntact, Progressed, ExecutedInOrder, Closed,
                     [Next]_vars
              PROVE  Progressed' /\ ExecutedInOrder'
  OBVIOUS
<1>0. /\ Len(sent) \in Nat /\ taken \in Nat /\ Len(executed) \in Nat
      /\ is_idle \in BOOLEAN /\ executed \in Seq(Seq(Nat)) /\ tmp_buffer \in Seq(Nat)
  BY DEF TypeOK
<1>1. ASSUME NEW c \in Callers, Enqueue(c) PROVE Progressed' /\ ExecutedInOrder'
  <2>0. /\ Len(sent') = Len(sent) + 1
        /\ \A i \in 1 .. Len(sent) : sent'[i] = sent[i]
        /\ sent' # <<>>
    BY <1>1, EnqueueSent
  <2>1. UNCHANGED <<taken, executed, rpc, tmp_buffer, is_idle>> /\ pc[c] = "enqueue"
    BY <1>1 DEF Enqueue, thread
  <2>2. rpc # "off" /\ ~Closing
    <3>1. rpc # "off"
      BY <2>1 DEF Closed
    <3>2. ASSUME Closing PROVE FALSE
      <4>1. PICK d \in Callers : pc[d] = "join"
        BY <3>1, <3>2 DEF Closed
      <4>2. Quiet(d) /\ d # c
        BY <2>1, <4>1 DEF Closed, TearingDown
      <4>. QED BY <2>1, <4>2 DEF Quiet
    <3>. QED BY <3>1, <3>2
  <2>3. rpc # "exited"
    BY <2>2 DEF Progressed
  <2>4. Holding' <=> Holding
    BY <2>1, <2>2, <2>3 DEF Holding
  <2>5. ExecutedInOrder'
    <3>1. \A i \in 1 .. Len(executed) : i \in 1 .. Len(sent)
      BY <1>0 DEF ExecutedInOrder
    <3>2. \A i \in 1 .. Len(executed) : executed[i] = sent'[i].words
      BY <2>0, <3>1 DEF ExecutedInOrder
    <3>3. Len(executed) <= Len(sent')
      BY <1>0, <2>0 DEF ExecutedInOrder
    <3>. QED BY <2>1, <3>2, <3>3 DEF ExecutedInOrder
  <2>6. rpc = "run" /\ ~is_idle => tmp_buffer = sent'[taken].words
    <3>1. ASSUME rpc = "run", ~is_idle PROVE taken \in 1 .. Len(sent)
      BY <1>0, <3>1 DEF Progressed, Holding, Layout
    <3>. QED BY <2>0, <3>1 DEF Progressed
  <2>7. taken' = Len(executed') + (IF Holding' THEN 1 ELSE 0)
    BY <2>1, <2>4 DEF Progressed
  <2>. QED BY <2>0, <2>1, <2>2, <2>3, <2>5, <2>6, <2>7 DEF Progressed
<1>2. ASSUME NEW c \in Callers, Reset(c) PROVE Progressed' /\ ExecutedInOrder'
  BY <1>2 DEF Reset, Progressed, ExecutedInOrder, Holding
<1>3. CASE RingPop
  <2>1. /\ tmp_buffer' = sent[taken + 1].words /\ taken' = taken + 1
        /\ is_idle' = FALSE /\ rpc' = "run" /\ UNCHANGED <<sent, executed>>
        /\ rpc \in {"poll", "expired"}
    BY <1>3, PoppedIsNext DEF RingPop
  <2>2. ~Holding /\ Holding'
    BY <2>1 DEF Holding
  <2>3. taken' = Len(executed') + 1
    BY <1>0, <2>1, <2>2 DEF Progressed
  <2>. QED BY <2>1, <2>2, <2>3 DEF Progressed, ExecutedInOrder
<1>4. CASE RingExecute
  <2>1. CASE is_idle
    <3>1. rpc' = "poll" /\ UNCHANGED <<sent, taken, executed>>
      BY <1>4, <2>1 DEF RingExecute
    <3>2. ~Holding /\ ~Holding'
      BY <1>4, <2>1, <3>1 DEF Holding, RingExecute
    <3>. QED BY <3>1, <3>2 DEF Progressed, ExecutedInOrder
  <2>2. CASE ~is_idle
    <3>1. /\ rpc = "run" /\ rpc' = "complete" /\ UNCHANGED <<sent, taken>>
          /\ executed' = Append(executed, tmp_buffer)
      BY <1>4, <2>2 DEF RingExecute
    <3>2. Holding /\ ~Holding'
      BY <2>2, <3>1 DEF Holding
    <3>3. taken = Len(executed) + 1 /\ tmp_buffer = sent[taken].words
      BY <2>2, <3>1, <3>2 DEF Progressed
    <3>4. /\ Len(executed') = Len(executed) + 1
          /\ \A i \in 1 .. Len(executed) : executed'[i] = executed[i]
          /\ executed'[Len(executed) + 1] = tmp_buffer
      BY <1>0, <3>1
    <3>5. taken <= Len(sent)
      BY DEF Layout
    <3>6. ASSUME NEW i \in 1 .. Len(executed') PROVE executed'[i] = sent[i].words
      BY <1>0, <3>3, <3>4 DEF ExecutedInOrder
    <3>7. ExecutedInOrder'
      BY <1>0, <3>1, <3>3, <3>4, <3>5, <3>6 DEF ExecutedInOrder
    <3>. QED BY <1>0, <3>1, <3>2, <3>3, <3>4, <3>7 DEF Progressed
  <2>. QED BY <1>0, <2>1, <2>2
<1>5. CASE RingIdle
  <2>1. /\ rpc = "expired" /\ rpc' = "run" /\ is_idle' = TRUE
        /\ tmp_buffer' = <<MetaIdle>> /\ UNCHANGED history
    BY <1>5 DEF RingIdle
  <2>2. ~Holding /\ ~Holding'
    BY <2>1 DEF Holding
  <2>3. tmp_buffer' # Sentinel
    BY <2>1 DEF Sentinel
  <2>. QED BY <2>1, <2>2, <2>3 DEF Progressed, ExecutedInOrder, history
<1>6. CASE RingBreak
  <2>1. /\ rpc = "run" /\ tmp_buffer = Sentinel /\ rpc' = "exited"
        /\ UNCHANGED <<history, is_idle, tmp_buffer>>
    BY <1>6 DEF RingBreak
  <2>2. ~is_idle
    BY <2>1 DEF Progressed
  <2>3. Holding /\ sent[taken].words = Sentinel
    BY <1>0, <2>1, <2>2 DEF Progressed, Holding
  <2>4. taken \in 1 .. Len(sent)
    BY <1>0, <2>3 DEF Progressed, Layout
  <2>5. taken = Len(sent)
    BY <1>0, <2>3, <2>4 DEF Closed
  <2>6. sent # <<>>
    BY <2>4
  <2>7. Closing /\ Holding'
    BY <2>1, <2>3, <2>5, <2>6 DEF Closing, Holding, history
  <2>. QED BY <2>1, <2>3, <2>5, <2>6, <2>7
           DEF Progressed, ExecutedInOrder, history, Closing
<1>7. ASSUME NEW c \in Callers, Join(c) PROVE Progressed' /\ ExecutedInOrder'
  <2>1. rpc = "exited" /\ rpc' = "off" /\ UNCHANGED <<history, is_idle, tmp_buffer>>
    BY <1>7 DEF Join
  <2>2. Holding' <=> Holding
    BY <2>1 DEF Holding, history
  <2>. QED BY <2>1, <2>2 DEF Progressed, ExecutedInOrder, history, Closing
<1>8. CASE RingTimeout \/ RingComplete
  <2>1. /\ rpc \in {"poll", "complete"} /\ rpc' \in {"poll", "expired"}
        /\ UNCHANGED <<history, is_idle, tmp_buffer>>
    BY <1>8 DEF RingTimeout, RingComplete
  <2>2. ~Holding /\ ~Holding'
    BY <2>1 DEF Holding
  <2>. QED BY <2>1, <2>2 DEF Progressed, ExecutedInOrder, history
<1>9. ASSUME UNCHANGED <<history, thread>> PROVE Progressed' /\ ExecutedInOrder'
  BY <1>9 DEF Progressed, ExecutedInOrder, Holding, Closing, history, thread
<1>10. CASE RingWait
  BY <1>9, <1>10 DEF RingWait
<1>11. ASSUME NEW c \in Callers, EnqueueWait(c) \/ DrainWait(c) \/ DrainReturn(c) \/ Call(c)
       PROVE  UNCHANGED <<history, thread>>
  BY <1>11 DEF EnqueueWait, DrainWait, DrainReturn, Call, CallEnqueue, CallDrain,
               CallInit, CallDestroy, Teardown
<1>12. ASSUME NEW t, Spurious(t) PROVE UNCHANGED <<history, thread>>
  BY <1>12 DEF Spurious
<1>13. CASE UNCHANGED vars
  BY <1>9, <1>13 DEF vars
<1>. QED
  BY <1>1, <1>2, <1>3, <1>4, <1>5, <1>6, <1>7, <1>8, <1>9, <1>10, <1>11, <1>12, <1>13
     DEF Next, RingStep, Progress, Terminated

(* Who can be asleep in cond. *)
LEMMA AsleepStep == TypeOK /\ Asleep /\ [Next]_vars => Asleep'
<1>. SUFFICES ASSUME TypeOK, Asleep, [Next]_vars PROVE Asleep'
  OBVIOUS
<1>0. pc \in [Callers -> CallerPhase] /\ RingThread \notin Callers
      /\ waiting \subseteq Callers \union {RingThread}
  BY ThreadAssumption DEF TypeOK
<1>1. ASSUME NEW c \in Callers, Enqueue(c) PROVE Asleep'
  <2>1. c \notin waiting /\ waiting' \subseteq waiting /\ rpc' = rpc
    BY <1>1, NotifyOneShrinks DEF Enqueue, Ready, thread
  <2>2. \A d \in Callers \ {c} : pc'[d] = pc[d]
    BY <1>0, <1>1 DEF Enqueue
  <2>. QED BY <1>0, <2>1, <2>2 DEF Asleep
<1>2. ASSUME NEW c \in Callers, EnqueueWait(c) \/ DrainWait(c) PROVE Asleep'
  <2>1. waiting' = waiting \union {c} /\ UNCHANGED <<pc, rpc>> /\ pc[c] \in {"enqueue", "drain"}
    BY <1>2 DEF EnqueueWait, DrainWait, callers, thread
  <2>. QED BY <1>0, <2>1 DEF Asleep
<1>3. ASSUME NEW c \in Callers, DrainReturn(c) \/ Call(c) PROVE Asleep'
  <2>1. c \notin waiting /\ UNCHANGED <<waiting, rpc>>
    <3>1. CASE DrainReturn(c)
      BY <3>1 DEF DrainReturn, Ready, thread
    <3>2. CASE Call(c)
      <4>1. pc[c] = "idle" /\ UNCHANGED <<waiting, rpc>>
        BY <3>2 DEF Call, CallEnqueue, CallDrain, CallInit, CallDestroy, Teardown, thread
      <4>. QED BY <1>0, <4>1 DEF Asleep
    <3>. QED BY <1>3, <3>1, <3>2
  <2>2. \A d \in Callers \ {c} : pc'[d] = pc[d]
    BY <1>0, <1>3
       DEF DrainReturn, Call, CallEnqueue, CallDrain, CallInit, CallDestroy, Teardown
  <2>. QED BY <1>0, <2>1, <2>2 DEF Asleep
<1>4. ASSUME NEW c \in Callers, Join(c) \/ Reset(c) PROVE Asleep'
  <2>1. c \notin waiting /\ RingThread \notin waiting /\ UNCHANGED waiting
    BY <1>0, <1>4 DEF Join, Reset, Asleep
  <2>2. \A d \in Callers \ {c} : pc'[d] = pc[d]
    BY <1>0, <1>4 DEF Join, Reset
  <2>. QED BY <1>0, <2>1, <2>2 DEF Asleep
<1>5. CASE RingWait
  BY <1>0, <1>5 DEF RingWait, Asleep, callers, thread
<1>6. CASE RingTimeout \/ RingPop \/ RingIdle \/ RingExecute \/ RingBreak
  <2>1. RingThread \notin waiting' /\ waiting' \subseteq waiting /\ pc' = pc
    BY <1>6 DEF RingTimeout, RingPop, RingIdle, RingExecute, RingBreak, callers, Asleep
  <2>. QED BY <1>0, <2>1 DEF Asleep
<1>7. CASE RingComplete
  <2>1. waiting' \subseteq waiting /\ pc' = pc /\ rpc' = "poll"
    BY <1>7, NotifyOneShrinks DEF RingComplete, callers
  <2>. QED BY <1>0, <2>1 DEF Asleep
<1>8. ASSUME NEW t, Spurious(t) PROVE Asleep'
  BY <1>0, <1>8 DEF Spurious, Asleep, callers, thread
<1>9. CASE UNCHANGED vars
  BY <1>9 DEF vars, Asleep, callers, thread
<1>. QED
  BY <1>1, <1>2, <1>3, <1>4, <1>5, <1>6, <1>7, <1>8, <1>9
     DEF Next, RingStep, Progress, Terminated

(* completed_count never claims what was not executed. *)
LEMMA CompletedStep ==
    /\ TypeOK /\ Layout /\ QueuedIntact /\ Progressed /\ Closed /\ Completed
    /\ [Next]_vars
    => Completed'
<1>. SUFFICES ASSUME TypeOK, Layout, QueuedIntact, Progressed, Closed, Completed, [Next]_vars
              PROVE  Completed'
  OBVIOUS
<1>0. /\ completed_count \in Nat /\ read_count \in Nat /\ inits \in Nat /\ taken \in Nat
      /\ is_idle \in BOOLEAN /\ Len(sent) \in Nat /\ Len(executed) \in Nat
  BY DEF TypeOK
<1>1. ASSUME NEW c \in Callers, Enqueue(c) PROVE Completed'
  <2>1. UNCHANGED <<inits, completed_count, read_count, rpc, is_idle>> /\ pc[c] = "enqueue"
    BY <1>1 DEF Enqueue, thread
  <2>2. sent' # <<>>
    BY <1>1, EnqueueSent
  <2>3. rpc # "off"
    BY <2>1 DEF Closed
  <2>4. sent = <<>> => rpc \in {"poll", "expired"} \/ (rpc = "run" /\ is_idle)
    <3>1. ASSUME sent = <<>> PROVE taken = 0
      BY <1>0, <3>1 DEF Layout
    <3>2. ASSUME sent = <<>> PROVE rpc \notin {"complete", "exited"} /\ ~Holding
      BY <1>0, <3>1, <3>2 DEF Progressed
    <3>3. rpc \in RingPhase
      BY DEF TypeOK
    <3>. QED BY <2>3, <3>2, <3>3 DEF Holding, RingPhase
  <2>5. CaughtUp' <=> CaughtUp
    BY <2>1, <2>2, <2>4 DEF CaughtUp
  <2>. QED BY <2>1, <2>3, <2>5 DEF Completed
<1>2. ASSUME NEW c \in Callers, Reset(c) PROVE Completed'
  <2>1. inits' = inits + 1 /\ completed_count' = completed_count /\ read_count' = 0 /\ sent' = <<>>
    BY <1>2 DEF Reset
  <2>. QED BY <1>0, <2>1 DEF Completed, CaughtUp
<1>3. CASE RingPop
  <2>1. /\ read_count' = End(taken + 1) /\ taken + 1 \in 1 .. Len(sent)
        /\ UNCHANGED <<completed_count, inits, sent>> /\ rpc \in {"poll", "expired"}
        /\ rpc' = "run" /\ is_idle' = FALSE
    BY <1>3, PoppedIsNext DEF RingPop
  <2>2. read_count < read_count'
    BY <1>0, <2>1, SentType, Positions DEF End
  <2>3. CaughtUp /\ ~CaughtUp'
    BY <2>1 DEF CaughtUp
  <2>. QED BY <1>0, <2>1, <2>2, <2>3 DEF Completed
<1>4. CASE RingComplete
  <2>1. completed_count' = read_count /\ UNCHANGED <<read_count, inits>> /\ rpc' = "poll"
        /\ rpc = "complete"
    BY <1>4 DEF RingComplete
  <2>2. CaughtUp'
    BY <2>1 DEF CaughtUp
  <2>3. inits # 0
    BY <2>1 DEF Completed
  <2>. QED BY <2>1, <2>2, <2>3 DEF Completed
<1>5. CASE RingTimeout \/ RingIdle \/ RingExecute
  <2>1. UNCHANGED <<completed_count, read_count, inits, sent>>
    BY <1>5 DEF RingTimeout, RingIdle, RingExecute, shared, history
  <2>2. CaughtUp' <=> CaughtUp
    BY <1>5, <2>1 DEF RingTimeout, RingIdle, RingExecute, CaughtUp
  <2>3. inits # 0
    BY <1>5 DEF RingTimeout, RingIdle, RingExecute, Completed
  <2>. QED BY <2>1, <2>2, <2>3 DEF Completed
<1>6. CASE RingBreak
  <2>1. UNCHANGED <<completed_count, read_count, inits, sent>> /\ rpc' = "exited" /\ rpc = "run"
        /\ ~is_idle
    BY <1>6 DEF RingBreak, shared, history, Progressed
  <2>2. CaughtUp' <=> CaughtUp
    BY <2>1 DEF CaughtUp
  <2>. QED BY <2>1, <2>2 DEF Completed
<1>7. ASSUME NEW c \in Callers, Join(c) PROVE Completed'
  <2>1. UNCHANGED <<completed_count, read_count, inits, sent>> /\ rpc' = "off" /\ rpc = "exited"
    BY <1>7 DEF Join, shared, history
  <2>2. CaughtUp' <=> CaughtUp
    BY <2>1 DEF CaughtUp
  <2>. QED BY <2>1, <2>2 DEF Completed
<1>8. ASSUME UNCHANGED <<shared, inits, sent, rpc, is_idle>> PROVE Completed'
  BY <1>8 DEF Completed, CaughtUp, shared
<1>9. ASSUME NEW c \in Callers,
             EnqueueWait(c) \/ DrainWait(c) \/ DrainReturn(c) \/ Call(c)
      PROVE  UNCHANGED <<shared, inits, sent, rpc, is_idle>>
  BY <1>9 DEF EnqueueWait, DrainWait, DrainReturn, Call, CallEnqueue, CallDrain,
              CallInit, CallDestroy, Teardown, thread, history
<1>10. ASSUME RingWait \/ (\E t \in Callers \union {RingThread} : Spurious(t)) \/ UNCHANGED vars
       PROVE  UNCHANGED <<shared, inits, sent, rpc, is_idle>>
  BY <1>10 DEF RingWait, Spurious, vars, thread, history
<1>. QED
  BY <1>1, <1>2, <1>3, <1>4, <1>5, <1>6, <1>7, <1>8, <1>9, <1>10
     DEF Next, RingStep, Progress, Terminated

(* A lone sleeping caller whose condition holds is owed a notification. *)
LEMMA WakeupOwedStep ==
    /\ TypeOK /\ Layout /\ Progressed /\ Closed /\ Asleep /\ WakeupOwed
    /\ [Next]_vars
    => WakeupOwed'
<1>. SUFFICES ASSUME TypeOK, Layout, Progressed, Closed, Asleep, WakeupOwed, [Next]_vars,
                     NEW c \in waiting', Callers = {c}, Runnable(c)'
              PROVE  rpc' \in {"run", "complete"} /\ ~is_idle'
  BY DEF WakeupOwed
<1>0. /\ pc \in [Callers -> CallerPhase] /\ arg \in [Callers -> Command \union {Sentinel}]
      /\ c \in Callers /\ c # RingThread /\ waiting \subseteq {c, RingThread}
      /\ is_idle \in BOOLEAN
  BY ThreadAssumption DEF TypeOK
<1>1. ASSUME NEW d \in Callers, Progress(d) PROVE FALSE
  <2>1. d = c
    BY <1>1
  <2>2. CASE EnqueueWait(c)
    BY <2>2 DEF EnqueueWait, Runnable, HasSpace, shared, callers
  <2>3. CASE DrainWait(c)
    BY <2>3 DEF DrainWait, Runnable, Drained, shared, callers
  <2>4. CASE Enqueue(c)
    BY <1>0, <2>4, NotifyOneShrinks DEF Enqueue, Ready
  <2>5. CASE DrainReturn(c)
    BY <2>5 DEF DrainReturn, Ready
  <2>6. CASE Join(c) \/ Reset(c)
    BY <1>0, <2>6 DEF Join, Reset, Asleep
  <2>. QED BY <1>1, <2>1, <2>2, <2>3, <2>4, <2>5, <2>6 DEF Progress
<1>2. ASSUME NEW d \in Callers, Call(d) PROVE FALSE
  <2>1. d = c
    BY <1>2
  <2>2. pc[c] = "idle" /\ waiting' = waiting
    BY <1>2, <2>1 DEF Call, CallEnqueue, CallDrain, CallInit, CallDestroy, Teardown
  <2>. QED BY <1>0, <2>2 DEF Asleep
<1>3. CASE RingComplete
  <2>1. RingThread \notin waiting
    BY <1>3 DEF RingComplete, Asleep
  <2>2. waiting \subseteq {c}
    BY <1>0, <2>1
  <2>3. waiting' = {}
    BY <1>3, <2>2, NotifyOneShrinks DEF RingComplete
  <2>. QED BY <2>3
<1>4. CASE RingPop
  BY <1>4 DEF RingPop
<1>5. ASSUME UNCHANGED <<pc, arg, shared>>, waiting' \subseteq waiting \union {RingThread}
      PROVE  rpc \in {"run", "complete"} /\ ~is_idle
  <2>1. c \in waiting
    BY <1>0, <1>5
  <2>2. Runnable(c)
    BY <1>5 DEF Runnable, HasSpace, Drained, shared
  <2>. QED BY <2>1, <2>2 DEF WakeupOwed
<1>6. CASE RingWait \/ RingTimeout \/ RingIdle
  <2>1. UNCHANGED <<pc, arg, shared>> /\ waiting' \subseteq waiting \union {RingThread}
        /\ rpc \in {"poll", "expired"}
    BY <1>6 DEF RingWait, RingTimeout, RingIdle, callers
  <2>. QED BY <1>5, <2>1
<1>7. CASE RingExecute
  <2>1. UNCHANGED <<pc, arg, shared>> /\ waiting' = waiting /\ is_idle' = is_idle
        /\ rpc' = IF is_idle THEN "poll" ELSE "complete"
    BY <1>7 DEF RingExecute, callers
  <2>. QED BY <1>5, <2>1
<1>8. CASE RingBreak
  <2>1. /\ UNCHANGED <<pc, arg, shared, waiting>> /\ rpc = "run" /\ tmp_buffer = Sentinel
    BY <1>8 DEF RingBreak, callers
  <2>2. ~is_idle
    BY <1>5, <2>1
  <2>3. sent[taken].words = Sentinel /\ Holding
    BY <1>0, <2>1, <2>2 DEF Progressed, Holding
  <2>4. pc[c] \in {"enqueue", "drain"}
    BY <1>0, <2>1 DEF Asleep
  <2>5. taken \in Nat /\ Len(sent) \in Nat /\ Len(executed) \in Nat
    BY DEF TypeOK
  <2>6. taken \in 1 .. Len(sent)
    BY <2>3, <2>5 DEF Progressed, Layout
  <2>7. taken = Len(sent) /\ sent # <<>>
    BY <2>3, <2>5, <2>6 DEF Closed
  <2>8. Closing
    BY <2>3, <2>7 DEF Closing
  <2>. QED BY <1>0, <2>4, <2>8 DEF Closed
<1>9. ASSUME (\E t \in Callers \union {RingThread} : Spurious(t)) \/ UNCHANGED vars
      PROVE  UNCHANGED <<pc, arg, shared, rpc, is_idle>> /\ waiting' \subseteq waiting
  BY <1>9 DEF Spurious, vars, callers, thread
<1>. QED
  BY <1>1, <1>2, <1>3, <1>4, <1>5, <1>6, <1>7, <1>8, <1>9
     DEF Next, RingStep, Terminated

-----------------------------------------------------------------------------
(* The inductive invariant holds before the first call.                    *)
LEMMA IInvInit == Init => IInv
<1>. SUFFICES ASSUME Init PROVE IInv
  OBVIOUS
<1>1. TypeOK
  <2>1. ring \in [0 .. Size - 1 -> Nat]
    BY SizeAssumption DEF Init
  <2>2. tmp_buffer \in Seq(Nat) /\ executed \in Seq(Seq(Nat))
        /\ sent \in Seq([at : Nat, words : Command \union {Sentinel}])
    BY DEF Init, Sentinel
  <2>. QED BY <2>1, <2>2 DEF Init, TypeOK, CallerPhase, RingPhase
<1>2. Layout
  BY SizeAssumption DEF Init, Layout
<1>3. QueuedIntact /\ Progressed /\ ExecutedInOrder
  BY DEF Init, QueuedIntact, Progressed, ExecutedInOrder, Holding
<1>4. Closed /\ Asleep /\ Completed /\ WakeupOwed
  BY DEF Init, Closed, Asleep, Completed, WakeupOwed, Closing, TearingDown, CaughtUp
<1>. QED BY <1>1, <1>2, <1>3, <1>4 DEF IInv

(* Every step preserves the inductive invariant.                           *)
LEMMA IInvStep == IInv /\ [Next]_vars => IInv'
BY TypeStep, LayoutStep, QueuedIntactStep, ProgressedStep, ClosedStep, AsleepStep,
   CompletedStep, WakeupOwedStep DEF IInv

(* The inductive invariant holds in every reachable state. *)
THEOREM IInvHolds == Spec => []IInv
BY IInvInit, IInvStep, PTL DEF Spec

(* The counters stay ordered and every variable keeps its type, whatever   *)
(* the threads do (command_ring.cpp, all of it).                           *)
THEOREM TypeCorrect == Spec => [](TypeOK /\ CountersOrdered)
<1>1. IInv => TypeOK /\ CountersOrdered
  <2>. SUFFICES ASSUME IInv PROVE CountersOrdered
    BY DEF IInv
  <2>1. TypeOK /\ Layout /\ Completed
    BY DEF IInv
  <2>2. read_count \in Nat /\ completed_count \in Nat
    BY <2>1 DEF TypeOK
  <2>3. read_count <= write_count
    BY <2>1, AllTaken
  <2>4. inits <= 1 => completed_count <= read_count
    BY <2>1, <2>2 DEF Completed
  <2>. QED BY <2>1, <2>3, <2>4 DEF CountersOrdered, Layout
<1>. QED BY <1>1, IInvHolds, PTL

(* No queued word is ever overwritten, and the thread executes exactly the *)
(* commands that were enqueued, in that order (enqueue_command's space     *)
(* check and thread_loop's pop agree about the ring).                      *)
THEOREM CommandsSurvive == Spec => [](QueuedIntact /\ ExecutedInOrder)
<1>1. IInv => QueuedIntact /\ ExecutedInOrder
  BY DEF IInv
<1>. QED BY <1>1, IInvHolds, PTL

(* What drain() waits for implies that every command was executed.         *)
LEMMA IInvDrained == ASSUME IInv, inits <= 1, Drained PROVE Len(executed) = Len(sent)
<1>1. TypeOK /\ Layout /\ Completed /\ Progressed
  BY DEF IInv
<1>2. /\ read_count \in Nat /\ write_count \in Nat /\ completed_count \in Nat
      /\ taken \in Nat /\ Len(sent) \in Nat /\ Len(executed) \in Nat
  BY <1>1 DEF TypeOK
<1>3. read_count <= write_count /\ (HasCommand <=> taken < Len(sent))
  BY <1>1, AllTaken
<1>4. CaughtUp /\ completed_count = read_count
  BY <1>1, <1>2, <1>3 DEF Completed, Drained
<1>5. taken = Len(sent)
  <2>1. ~HasCommand
    BY <1>2, <1>4 DEF Drained, HasCommand
  <2>2. taken <= Len(sent)
    BY <1>1 DEF Layout
  <2>. QED BY <1>2, <1>3, <2>1, <2>2
<1>6. ~Holding
  <2>1. CASE sent = <<>>
    BY <1>1, <1>2, <1>5, <2>1 DEF Progressed
  <2>2. CASE sent # <<>>
    BY <1>4, <2>2 DEF CaughtUp, Holding
  <2>. QED BY <2>1, <2>2
<1>. QED BY <1>1, <1>2, <1>5, <1>6 DEF Progressed

(* drain() only returns when everything enqueued has been executed.        *)
THEOREM DrainIsSound == Spec => []DrainSound
<1>1. IInv => DrainSound
  BY IInvDrained DEF DrainSound
<1>. QED BY <1>1, IInvHolds, PTL

(* Teardown loses no command, and the renderer is told it is idle only     *)
(* when no command is left.                                                *)
THEOREM TeardownIsComplete == Spec => [](TeardownComplete /\ IdleOnlyWhenEmpty)
<1>1. IInv => TeardownComplete /\ IdleOnlyWhenEmpty
  <2>. SUFFICES ASSUME IInv PROVE TeardownComplete /\ IdleOnlyWhenEmpty
    OBVIOUS
  <2>1. TypeOK /\ Layout /\ Progressed
    BY DEF IInv
  <2>2. taken \in Nat /\ Len(sent) \in Nat /\ Len(executed) \in Nat
        /\ is_idle \in BOOLEAN
    BY <2>1 DEF TypeOK
  <2>3. TeardownComplete
    BY <2>1, <2>2 DEF TeardownComplete, Progressed, Holding, Layout, Closing
  <2>4. IdleOnlyWhenEmpty
    BY <2>1, <2>2 DEF IdleOnlyWhenEmpty, Progressed, Holding
  <2>. QED BY <2>3, <2>4
<1>. QED BY <1>1, IInvHolds, PTL

(* drain() and teardown_thread() return to callers whose work is done, and *)
(* the renderer is told that it is idle when it is.                        *)
THEOREM CompletionIsSound == Spec => []CompletionSound
<1>1. DrainSound /\ TeardownComplete /\ IdleOnlyWhenEmpty => CompletionSound
  BY DEF CompletionSound
<1>. QED BY <1>1, DrainIsSound, TeardownIsComplete, PTL

(* With one caller no wakeup is lost on the shared condition variable.     *)
THEOREM NoLostWakeup == Spec => []WakeupOwed
<1>1. IInv => WakeupOwed
  BY DEF IInv
<1>. QED BY <1>1, IInvHolds, PTL
-----------------------------------------------------------------------------
(* init() is called at most MaxInits times. *)
InitsBounded ==
    /\ inits <= MaxInits
    /\ \A c \in Callers : TearingDown(c) /\ after[c] = "reset" => inits < MaxInits

(* init() is not called more often than MaxInits allows.                   *)
LEMMA InitsBoundedStep == IInv /\ InitsBounded /\ [Next]_vars => InitsBounded'
<1>. SUFFICES ASSUME TypeOK, Closed, InitsBounded, [Next]_vars PROVE InitsBounded'
  BY DEF IInv
<1>0. /\ pc \in [Callers -> CallerPhase] /\ arg \in [Callers -> Command \union {Sentinel}]
      /\ after \in [Callers -> {"idle", "reset", "dead"}] /\ inits \in Nat /\ MaxInits \in Nat
  BY BoundAssumption DEF TypeOK
<1>1. ASSUME NEW c \in Callers, Reset(c) PROVE InitsBounded'
  <2>1. pc[c] = "reset" /\ after[c] = "reset" /\ TearingDown(c) /\ inits' = inits + 1
    BY <1>1 DEF Reset, Closed, TearingDown
  <2>2. \A d \in Callers : pc'[d] = "idle"
    BY <1>0, <1>1, <2>1 DEF Reset, Closed
  <2>. QED BY <1>0, <2>1, <2>2 DEF InitsBounded, TearingDown
<1>2. ASSUME NEW c \in Callers, CallInit(c) \/ CallDestroy(c) PROVE InitsBounded'
  <2>1. PICK next \in {"reset", "dead"} :
            Teardown(c, next) /\ (next = "reset" => inits < MaxInits)
    BY <1>2 DEF CallInit, CallDestroy
  <2>2. after'[c] = next /\ inits' = inits
    BY <1>0, <2>1 DEF Teardown
  <2>3. \A d \in Callers \ {c} : pc'[d] = pc[d] /\ arg'[d] = arg[d] /\ after'[d] = after[d]
    BY <1>0, <2>1 DEF Teardown
  <2>. QED BY <2>1, <2>2, <2>3 DEF InitsBounded, TearingDown
<1>3. ASSUME NEW c \in Callers, CallEnqueue(c) \/ CallDrain(c) PROVE InitsBounded'
  <2>1. after'[c] \in {"idle", after[c]} /\ inits' = inits
        /\ pc'[c] \in {"enqueue", "drain"} /\ (pc'[c] = "enqueue" => after'[c] = "idle")
    BY <1>0, <1>3 DEF CallEnqueue, CallDrain
  <2>2. \A d \in Callers \ {c} : pc'[d] = pc[d] /\ arg'[d] = arg[d] /\ after'[d] = after[d]
    BY <1>0, <1>3 DEF CallEnqueue, CallDrain
  <2>. QED BY <2>1, <2>2 DEF InitsBounded, TearingDown
<1>4. ASSUME NEW c \in Callers, Enqueue(c) \/ DrainReturn(c) \/ Join(c) PROVE InitsBounded'
  <2>1. UNCHANGED <<arg, after, inits>>
    BY <1>4 DEF Enqueue, DrainReturn, Join
  <2>2. \A d \in Callers \ {c} : pc'[d] = pc[d]
    BY <1>0, <1>4 DEF Enqueue, DrainReturn, Join
  <2>3. pc'[c] \in {"join", "reset"} => TearingDown(c)
    BY <1>0, <1>4 DEF Enqueue, DrainReturn, Join, TearingDown
  <2>4. pc'[c] # "enqueue"
    BY <1>0, <1>4 DEF Enqueue, DrainReturn, Join
  <2>. QED BY <2>1, <2>2, <2>3, <2>4 DEF InitsBounded, TearingDown
<1>5. ASSUME UNCHANGED <<pc, arg, after, inits>> PROVE InitsBounded'
  BY <1>5 DEF InitsBounded, TearingDown
<1>6. ASSUME RingStep \/ (\E c \in Callers : EnqueueWait(c) \/ DrainWait(c))
             \/ (\E t \in Callers \union {RingThread} : Spurious(t)) \/ UNCHANGED vars
      PROVE  UNCHANGED <<pc, arg, after, inits>>
  BY <1>6 DEF RingStep, RingWait, RingTimeout, RingPop, RingIdle, RingExecute, RingComplete,
              RingBreak, EnqueueWait, DrainWait, Spurious, vars, callers
<1>. QED
  BY <1>1, <1>2, <1>3, <1>4, <1>5, <1>6 DEF Next, Progress, Call, Terminated

(* Nothing is left to execute once the thread is gone. *)
LEMMA OffAllExecuted == ASSUME IInv, rpc \in {"exited", "off"} PROVE Fifo!AllExecuted
<1>1. Len(sent) \in Nat /\ Len(executed) \in Nat /\ taken \in Nat
  BY DEF IInv, TypeOK
<1>2. CASE sent = <<>>
  <2>1. Len(executed) = 0
    BY <1>1, <1>2 DEF IInv, ExecutedInOrder
  <2>2. Accepted = <<>>
    BY <1>2 DEF Accepted, Closing
  <2>. QED BY <2>1, <2>2 DEF Fifo!AllExecuted
<1>3. CASE sent # <<>>
  <2>1. Closing /\ taken = Len(sent) /\ Holding
    BY <1>3 DEF IInv, Progressed, Holding
  <2>2. Len(executed) = Len(sent) - 1
    BY <1>1, <2>1 DEF IInv, Progressed
  <2>3. Len(Accepted) = Len(sent) - 1
    BY <1>1, <1>3, <2>1 DEF Accepted
  <2>. QED BY <2>2, <2>3 DEF Fifo!AllExecuted
<1>. QED BY <1>2, <1>3

(* One step of the ring is one step of the FIFO, or none. *)
LEMMA FifoStep ==
    ASSUME MaxInits <= 1, IInv, InitsBounded, [Next]_vars
    PROVE  [Fifo!Next]_(Fifo!vars)
<1>. DEFINE ph == [c \in Callers |-> PhaseOf(c)]
<1>0. /\ pc \in [Callers -> CallerPhase] /\ arg \in [Callers -> Command \union {Sentinel}]
      /\ after \in [Callers -> {"idle", "reset", "dead"}]
      /\ Len(sent) \in Nat /\ Len(executed) \in Nat /\ taken \in Nat /\ inits \in Nat
      /\ inits <= 1
  BY BoundAssumption DEF IInv, TypeOK, InitsBounded
<1>1. ASSUME UNCHANGED <<sent, executed>>, ph' = ph PROVE UNCHANGED Fifo!vars
  BY <1>1 DEF Fifo!vars, Accepted, Closing
<1>2. ASSUME UNCHANGED <<pc, arg>> PROVE ph' = ph
  BY <1>2 DEF PhaseOf
<1>3. ASSUME UNCHANGED sent PROVE UNCHANGED Accepted
  BY <1>3 DEF Accepted, Closing
<1>4. ASSUME NEW c \in Callers,
             \A d \in Callers \ {c} : pc'[d] = pc[d] /\ arg'[d] = arg[d]
      PROVE  ph' = [ph EXCEPT ![c] = PhaseOf(c)']
  <2>1. \A d \in Callers \ {c} : PhaseOf(d)' = PhaseOf(d)
    BY <1>4 DEF PhaseOf
  <2>. QED BY <2>1
<1>5. ASSUME NEW c \in Callers, Enqueue(c) PROVE [Fifo!Next]_(Fifo!vars)
  <2>0. /\ Len(sent') = Len(sent) + 1
        /\ \A i \in 1 .. Len(sent) : sent'[i] = sent[i]
        /\ sent'[Len(sent) + 1].words = arg[c]
        /\ sent' # <<>>
    <3>1. sent'[Len(sent) + 1] = [at |-> write_count, words |-> arg[c]]
      BY <1>5, EnqueueSent DEF IInv
    <3>2. sent'[Len(sent) + 1].words = arg[c]
      BY <3>1
    <3>. QED BY <1>5, <3>2, EnqueueSent DEF IInv
  <2>1. pc[c] = "enqueue" /\ UNCHANGED <<executed, arg>>
        /\ pc' = [pc EXCEPT ![c] = IF arg[c] = Sentinel THEN "join" ELSE "idle"]
    BY <1>5 DEF Enqueue
  <2>2. ph' = [ph EXCEPT ![c] = PhaseOf(c)']
    BY <1>0, <1>4, <2>1
  <2>3. ~Closing
    <3>1. ASSUME Closing PROVE FALSE
      <4>1. PICK d \in Callers : pc[d] \in {"join", "reset", "dead"}
        BY <3>1 DEF IInv, Closed
      <4>2. pc[d] = "join" /\ d # c
        BY <2>1, <4>1 DEF IInv, Closed
      <4>3. Quiet(d)
        BY <4>2 DEF IInv, Closed, TearingDown
      <4>. QED BY <2>1, <4>2, <4>3 DEF Quiet
    <3>. QED BY <3>1
  <2>4. Closing' <=> arg[c] = Sentinel
    BY <2>0 DEF Closing
  <2>5. Accepted = [i \in 1 .. Len(sent) |-> sent[i].words]
    BY <2>3 DEF Accepted
  <2>6. CASE arg[c] = Sentinel
    <3>1. Accepted' = [i \in 1 .. Len(sent) |-> sent'[i].words]
      BY <1>0, <2>0, <2>4, <2>6 DEF Accepted
    <3>2. Accepted' = Accepted
      BY <2>0, <2>5, <3>1
    <3>3. PhaseOf(c)' = PhaseOf(c)
      BY <1>0, <2>1, <2>6 DEF PhaseOf
    <3>4. ph' = ph
      BY <2>2, <3>3
    <3>. QED BY <2>1, <3>2, <3>4 DEF Fifo!vars
  <2>7. CASE arg[c] # Sentinel
    <3>1. Accepted' = [i \in 1 .. Len(sent) + 1 |-> sent'[i].words]
      BY <2>0, <2>4, <2>7 DEF Accepted
    <3>2. Accepted' = Append(Accepted, arg[c])
      <4>1. \A i \in 1 .. Len(sent) + 1 :
                Append(Accepted, arg[c])[i] = IF i = Len(sent) + 1 THEN arg[c] ELSE sent[i].words
        BY <1>0, <2>5
      <4>2. DOMAIN Append(Accepted, arg[c]) = 1 .. Len(sent) + 1
        BY <1>0, <2>5
      <4>3. Append(Accepted, arg[c]) = [i \in 1 .. Len(sent) + 1 |-> Append(Accepted, arg[c])[i]]
        BY <1>0, <2>5, <4>2
      <4>. QED BY <1>0, <2>0, <3>1, <4>1, <4>3
    <3>3. ph[c] = "put" /\ PhaseOf(c)' = "idle"
      BY <1>0, <2>1, <2>7 DEF PhaseOf
    <3>4. arg[c] \in Command
      BY <1>0, <2>7
    <3>5. Fifo!Put(c)
      BY <2>1, <2>2, <3>2, <3>3, <3>4 DEF Fifo!Put, Fifo!Goto
    <3>. QED BY <3>5 DEF Fifo!Next
  <2>. QED BY <2>6, <2>7
<1>6. ASSUME NEW c \in Callers, Call(c) PROVE [Fifo!Next]_(Fifo!vars)
  <2>1. /\ pc[c] = "idle" /\ UNCHANGED <<sent, executed>>
        /\ \A d \in Callers \ {c} : pc'[d] = pc[d] /\ arg'[d] = arg[d]
    BY <1>0, <1>6 DEF Call, CallEnqueue, CallDrain, CallInit, CallDestroy, Teardown, history
  <2>2. PhaseOf(c)' \in {"put", "drain", "close", "reset", "dead"}
        /\ (PhaseOf(c)' = "dead" => rpc = "off")
    <3>1. CASE CallEnqueue(c)
      <4>1. pc'[c] = "enqueue" /\ arg'[c] \in Command
        BY <1>0, <3>1 DEF CallEnqueue
      <4>. QED BY <4>1, CommandType DEF PhaseOf
    <3>2. CASE CallDrain(c)
      BY <1>0, <3>2 DEF CallDrain, PhaseOf
    <3>3. CASE CallInit(c) \/ CallDestroy(c)
      BY <1>0, <3>3 DEF CallInit, CallDestroy, Teardown, PhaseOf
    <3>. QED BY <1>6, <3>1, <3>2, <3>3 DEF Call
  <2>3. ph' = [ph EXCEPT ![c] = PhaseOf(c)'] /\ ph[c] = "idle" /\ Accepted' = Accepted
    BY <1>3, <1>4, <2>1 DEF PhaseOf
  <2>4. PhaseOf(c)' = "dead" => Fifo!AllExecuted
    BY <2>2, OffAllExecuted
  <2>5. Fifo!Call(c)
    BY <2>1, <2>2, <2>3, <2>4 DEF Fifo!Call, Fifo!Goto
  <2>. QED BY <2>5 DEF Fifo!Next
<1>7. ASSUME NEW c \in Callers, DrainReturn(c) PROVE [Fifo!Next]_(Fifo!vars)
  <2>1. /\ pc[c] = "drain" /\ UNCHANGED <<sent, executed, arg>> /\ Drained
        /\ pc' = [pc EXCEPT ![c] = "idle"]
    BY <1>7 DEF DrainReturn, history
  <2>2. ph' = [ph EXCEPT ![c] = "idle"] /\ ph[c] = "drain" /\ Accepted' = Accepted
    BY <1>0, <1>3, <1>4, <2>1 DEF PhaseOf
  <2>3. Fifo!AllExecuted
    <3>1. CASE Closing
      <4>1. PICK d \in Callers : pc[d] \in {"join", "reset", "dead"}
        BY <3>1 DEF IInv, Closed
      <4>2. pc[d] # "join"
        BY <2>1, <4>1 DEF IInv, Closed, TearingDown, Quiet
      <4>3. rpc = "off"
        BY <4>1, <4>2 DEF IInv, Closed
      <4>. QED BY <4>3, OffAllExecuted
    <3>2. CASE ~Closing
      <4>1. Len(executed) = Len(sent)
        BY <1>0, <2>1, IInvDrained
      <4>. QED BY <1>0, <3>2, <4>1 DEF Fifo!AllExecuted, Accepted
    <3>. QED BY <3>1, <3>2
  <2>4. Fifo!DrainReturn(c)
    BY <2>1, <2>2, <2>3 DEF Fifo!DrainReturn, Fifo!Goto
  <2>. QED BY <2>4 DEF Fifo!Next
<1>8. ASSUME NEW c \in Callers, Join(c) PROVE [Fifo!Next]_(Fifo!vars)
  <2>1. /\ pc[c] = "join" /\ UNCHANGED <<sent, executed, arg>> /\ rpc = "exited"
        /\ pc' = [pc EXCEPT ![c] = after[c]]
    BY <1>8 DEF Join, history
  <2>2. after[c] \in {"reset", "dead"}
    BY <2>1 DEF IInv, Closed, TearingDown
  <2>3. ph' = [ph EXCEPT ![c] = after[c]] /\ ph[c] = "close" /\ Accepted' = Accepted
    <3>1. PhaseOf(c)' = after[c] /\ PhaseOf(c) = "close"
      BY <1>0, <2>1, <2>2 DEF PhaseOf
    <3>2. \A d \in Callers \ {c} : pc'[d] = pc[d] /\ arg'[d] = arg[d]
      BY <1>0, <2>1
    <3>. QED BY <1>3, <1>4, <2>1, <3>1, <3>2
  <2>4. Fifo!AllExecuted
    BY <2>1, OffAllExecuted
  <2>5. Fifo!Closed(c)
    BY <2>1, <2>2, <2>3, <2>4 DEF Fifo!Closed, Fifo!Goto
  <2>. QED BY <2>5 DEF Fifo!Next
<1>9. ASSUME NEW c \in Callers, Reset(c) PROVE [Fifo!Next]_(Fifo!vars)
  <2>1. /\ pc[c] = "reset" /\ rpc = "off" /\ sent' = <<>> /\ executed' = <<>> /\ arg' = arg
        /\ pc' = [pc EXCEPT ![c] = "idle"]
    BY <1>9 DEF Reset
  <2>2. ph' = [ph EXCEPT ![c] = "idle"] /\ ph[c] = "reset"
    BY <1>0, <1>4, <2>1 DEF PhaseOf
  <2>3. Accepted' = <<>>
    BY <2>1 DEF Accepted, Closing
  <2>4. Fifo!Reopen(c)
    BY <2>1, <2>2, <2>3, OffAllExecuted DEF Fifo!Reopen, Fifo!Goto
  <2>. QED BY <2>4 DEF Fifo!Next
<1>10. CASE RingExecute
  <2>1. CASE is_idle
    BY <1>1, <1>2, <1>10, <2>1 DEF RingExecute, callers
  <2>2. CASE ~is_idle
    <3>1. /\ rpc = "run" /\ tmp_buffer # Sentinel /\ UNCHANGED <<sent, pc, arg>>
          /\ executed' = Append(executed, tmp_buffer)
      BY <1>10, <2>2 DEF RingExecute, callers
    <3>2. taken = Len(executed) + 1 /\ tmp_buffer = sent[taken].words /\ taken <= Len(sent)
      BY <2>2, <3>1 DEF IInv, Progressed, Holding, Layout
    <3>3. taken <= Len(Accepted) /\ Accepted[taken] = tmp_buffer /\ Len(Accepted) \in Nat
      <4>1. CASE Closing
        <5>1. taken < Len(sent)
          BY <1>0, <3>1, <3>2, <4>1 DEF Closing
        <5>. QED BY <1>0, <3>2, <4>1, <5>1 DEF Accepted
      <4>2. CASE ~Closing
        BY <1>0, <3>2, <4>2 DEF Accepted
      <4>. QED BY <4>1, <4>2
    <3>4. ~Fifo!AllExecuted
      BY <1>0, <3>2, <3>3 DEF Fifo!AllExecuted
    <3>5. Fifo!Execute
      BY <1>2, <1>3, <3>1, <3>2, <3>3, <3>4 DEF Fifo!Execute
    <3>. QED BY <3>5 DEF Fifo!Next
  <2>. QED BY <2>1, <2>2
<1>11. ASSUME \/ RingWait \/ RingTimeout \/ RingPop \/ RingIdle \/ RingComplete \/ RingBreak
              \/ \E c \in Callers : EnqueueWait(c) \/ DrainWait(c)
              \/ \E t \in Callers \union {RingThread} : Spurious(t)
              \/ UNCHANGED vars
       PROVE  UNCHANGED <<sent, executed, pc, arg>>
  BY <1>11 DEF RingWait, RingTimeout, RingPop, RingIdle, RingComplete, RingBreak,
               EnqueueWait, DrainWait, Spurious, vars, callers, history
<1>. QED
  BY <1>1, <1>2, <1>5, <1>6, <1>7, <1>8, <1>9, <1>10, <1>11
     DEF Next, RingStep, Progress, Terminated

(* With one init(), as the CommandProcessor makes, the ring with its array, *)
(* counters, timeouts and wakeups is a FIFO: in order, nothing lost, drain *)
(* and close only when all is executed.                                    *)
THEOREM RingImplementsFifo == ASSUME MaxInits <= 1 PROVE Spec => Fifo!Spec
<1>1. Init => Fifo!Init /\ InitsBounded
  <2>. SUFFICES ASSUME Init PROVE Fifo!Init /\ InitsBounded
    OBVIOUS
  <2>1. Accepted = <<>>
    BY DEF Init, Accepted, Closing
  <2>2. [c \in Callers |-> PhaseOf(c)] = [c \in Callers |-> "idle"]
    BY DEF Init, PhaseOf
  <2>3. InitsBounded
    BY BoundAssumption DEF Init, InitsBounded, TearingDown
  <2>. QED BY <2>1, <2>2, <2>3 DEF Init, Fifo!Init
<1>2. IInv /\ InitsBounded /\ [Next]_vars => [Fifo!Next]_(Fifo!vars)
  BY FifoStep
<1>. QED
  BY <1>1, <1>2, IInvInit, IInvStep, InitsBoundedStep, PTL DEF Spec, Fifo!Spec
=============================================================================
