---------------------------- MODULE CommandRing ----------------------------
(***************************************************************************)
(* The ring buffer between the threads that submit RDP commands and the    *)
(* one thread that executes them (parallel-rdp/command_ring.cpp).          *)
(*                                                                         *)
(* Every critical section of the mutex `lock` is one action.  The single   *)
(* condition variable `cond` is shared by producers waiting for space,     *)
(* by drain() and by the ring thread: `waiting` is the set of threads      *)
(* blocked in it, notify_one() removes an arbitrary member, and a thread   *)
(* that was removed re-evaluates its predicate under the lock.             *)
(*                                                                         *)
(* The words of all commands share one array, the header (the number of    *)
(* words that follow) included: nothing but the three counters tells a     *)
(* header from a payload word.                                             *)
(***************************************************************************)
EXTENDS Integers, Sequences

CONSTANTS
    Callers,        \* threads that call the public methods
    RingThread,     \* the thread that runs thread_loop()
    Size,           \* ring.size()
    Word,           \* the 32-bit payload words that commands are made of
    MaxWords,       \* the longest command, in words
    MetaIdle,       \* the word of the MetaIdle command
    MaxCmds,        \* bound: commands enqueued after an init()
    MaxInits        \* bound: calls of init()

\* The size is a power of two (asserted by init), which makes `& mask` the
\* same as `% Size`, and the longest command fits in an empty ring.
ASSUME SizeAssumption == /\ Size \in Nat \ {0}
                         /\ \E k \in 0 .. 31 : Size = 2 ^ k
ASSUME WordAssumption == Word \subseteq Nat /\ MetaIdle \in Nat
ASSUME FitAssumption == MaxWords \in Nat /\ MaxWords + 1 <= Size
ASSUME ThreadAssumption == RingThread \notin Callers
ASSUME BoundAssumption == MaxCmds \in Nat /\ MaxInits \in Nat

VARIABLES
    ring, write_count, read_count, completed_count,     \* guarded by lock
    waiting,                        \* threads blocked in cond
    pc, arg, after,                 \* the callers: phase, command, return point
    rpc, tmp_buffer, is_idle,       \* the ring thread and its locals
    inits,                          \* calls of init() so far
    sent, taken, executed           \* history since the last init()

shared == <<ring, write_count, read_count, completed_count>>
callers == <<pc, arg, after>>
thread == <<rpc, tmp_buffer, is_idle>>
history == <<sent, taken, executed>>
vars == <<shared, waiting, callers, thread, inits, history>>

\* The commands a user may enqueue; <<>> is the sentinel of teardown_thread().
Command == UNION {[1 .. n -> Word] : n \in 1 .. MaxWords}
Sentinel == <<>>

CallerPhase == {"idle", "enqueue", "drain", "join", "reset", "dead"}
RingPhase == {"off", "poll", "expired", "run", "complete", "exited"}
-----------------------------------------------------------------------------
Init ==
    /\ ring = [i \in 0 .. Size - 1 |-> 0]
    /\ write_count = 0 /\ read_count = 0 /\ completed_count = 0
    /\ waiting = {}
    /\ pc = [c \in Callers |-> "idle"]
    /\ arg = [c \in Callers |-> Sentinel]
    /\ after = [c \in Callers |-> "idle"]
    /\ rpc = "off" /\ tmp_buffer = Sentinel /\ is_idle = FALSE
    /\ inits = 0
    /\ sent = <<>> /\ taken = 0 /\ executed = <<>>

\* The waiting sets that cond.notify_one() can leave behind.
NotifyOne == IF waiting = {} THEN {{}} ELSE {waiting \ {t} : t \in waiting}

\* Mutant: the header word is forgotten.
HasSpaceNoHeader(cmd) == write_count + Len(cmd) <= read_count + Size
HasSpace(cmd) == write_count + Len(cmd) + 1 <= read_count + Size
\* Mutant: popped commands count as executed.
DrainedPopped == write_count = read_count
Drained == write_count = completed_count
HasCommand == write_count > read_count

\* The array after a header and the words of cmd are written at position w.
Written(r, w, cmd) ==
    [i \in 0 .. Size - 1 |->
        LET d == (i - w) % Size
        IN  IF d = 0 THEN Len(cmd) ELSE IF d <= Len(cmd) THEN cmd[d] ELSE r[i]]

\* The words behind the header at position r.
Popped(r) == [i \in 1 .. ring[r % Size] |-> ring[(r + i) % Size]]

Ready(c) == c \notin waiting
Quiet(c) == \A d \in Callers \ {c} : pc[d] \in {"idle", "dead"}
-----------------------------------------------------------------------------
(* enqueue_command *)
CallEnqueue(c) ==
    /\ pc[c] = "idle" /\ inits > 0 /\ rpc # "off"
    /\ Len(sent) < MaxCmds
    /\ \A d \in Callers : pc[d] \in {"idle", "enqueue", "drain"}
    /\ \A d \in Callers : pc[d] = "enqueue" => arg[d] # Sentinel
    /\ \E cmd \in Command : arg' = [arg EXCEPT ![c] = cmd]
    /\ pc' = [pc EXCEPT ![c] = "enqueue"]
    /\ after' = [after EXCEPT ![c] = "idle"]
    /\ UNCHANGED <<shared, waiting, thread, inits, history>>

EnqueueWait(c) ==
    /\ pc[c] = "enqueue" /\ Ready(c) /\ ~HasSpace(arg[c])
    /\ waiting' = waiting \union {c}
    /\ UNCHANGED <<shared, callers, thread, inits, history>>

Enqueue(c) ==
    /\ pc[c] = "enqueue" /\ Ready(c) /\ HasSpace(arg[c])
    /\ ring' = Written(ring, write_count, arg[c])
    /\ write_count' = write_count + Len(arg[c]) + 1
    /\ sent' = Append(sent, [at |-> write_count, words |-> arg[c]])
    /\ waiting' \in NotifyOne
    /\ pc' = [pc EXCEPT ![c] = IF arg[c] = Sentinel THEN "join" ELSE "idle"]
    /\ UNCHANGED <<read_count, completed_count, arg, after, thread, inits,
                   taken, executed>>

(* drain *)
CallDrain(c) ==
    /\ pc[c] = "idle"
    /\ \A d \in Callers : pc[d] \in {"idle", "enqueue", "drain"}
    /\ \A d \in Callers : pc[d] = "enqueue" => arg[d] # Sentinel
    /\ pc' = [pc EXCEPT ![c] = "drain"]
    /\ UNCHANGED <<shared, waiting, arg, after, thread, inits, history>>

DrainWait(c) ==
    /\ pc[c] = "drain" /\ Ready(c) /\ ~Drained
    /\ waiting' = waiting \union {c}
    /\ UNCHANGED <<shared, callers, thread, inits, history>>

DrainReturn(c) ==
    /\ pc[c] = "drain" /\ Ready(c) /\ Drained
    /\ pc' = [pc EXCEPT ![c] = "idle"]
    /\ UNCHANGED <<shared, waiting, arg, after, thread, inits, history>>

(* teardown_thread, the first half of init() and the whole destructor: the *)
(* sentinel goes through enqueue_command like every other command.         *)
Teardown(c, next) ==
    /\ pc[c] = "idle" /\ Quiet(c)
    /\ arg' = [arg EXCEPT ![c] = Sentinel]
    /\ after' = [after EXCEPT ![c] = next]
    /\ pc' = [pc EXCEPT ![c] = IF rpc = "off" THEN next ELSE "enqueue"]
    /\ UNCHANGED <<shared, waiting, thread, inits, history>>

CallInit(c) ==
    /\ inits < MaxInits
    /\ \A d \in Callers : pc[d] = "idle"
    /\ Teardown(c, "reset")

CallDestroy(c) == Teardown(c, "dead")

Join(c) ==
    /\ pc[c] = "join" /\ rpc = "exited"
    /\ rpc' = "off"
    /\ pc' = [pc EXCEPT ![c] = after[c]]
    /\ UNCHANGED <<shared, waiting, arg, after, tmp_buffer, is_idle, inits,
                   history>>

(* The rest of init(): completed_count keeps its value. *)
Reset(c) ==
    /\ pc[c] = "reset" /\ rpc = "off"
    /\ ring' = [i \in 0 .. Size - 1 |-> 0]
    /\ write_count' = 0 /\ read_count' = 0
    /\ sent' = <<>> /\ taken' = 0 /\ executed' = <<>>
    /\ rpc' = "poll"
    /\ inits' = inits + 1
    /\ pc' = [pc EXCEPT ![c] = "idle"]
    /\ UNCHANGED <<completed_count, waiting, arg, after, tmp_buffer, is_idle>>
-----------------------------------------------------------------------------
(* thread_loop *)
RingWait ==
    /\ rpc = "poll" /\ RingThread \notin waiting /\ ~HasCommand
    /\ waiting' = waiting \union {RingThread}
    /\ UNCHANGED <<shared, callers, thread, inits, history>>

(* 500us pass without a notification. *)
RingTimeout ==
    /\ rpc = "poll" /\ RingThread \in waiting
    /\ waiting' = waiting \ {RingThread}
    /\ rpc' = "expired"
    /\ UNCHANGED <<shared, callers, tmp_buffer, is_idle, inits, history>>

RingPop ==
    /\ rpc \in {"poll", "expired"} /\ RingThread \notin waiting /\ HasCommand
    /\ tmp_buffer' = Popped(read_count)
    /\ read_count' = read_count + ring[read_count % Size] + 1
    /\ is_idle' = FALSE
    /\ taken' = taken + 1
    /\ rpc' = "run"
    /\ UNCHANGED <<ring, write_count, completed_count, waiting, callers, inits,
                   sent, executed>>

RingIdle ==
    /\ rpc = "expired" /\ ~HasCommand
    /\ tmp_buffer' = <<MetaIdle>>
    /\ is_idle' = TRUE
    /\ rpc' = "run"
    /\ UNCHANGED <<shared, waiting, callers, inits, history>>

(* processor->enqueue_command_direct, outside the lock. *)
RingExecute ==
    /\ rpc = "run" /\ tmp_buffer # Sentinel
    /\ executed' = IF is_idle THEN executed ELSE Append(executed, tmp_buffer)
    /\ rpc' = IF is_idle THEN "poll" ELSE "complete"
    /\ UNCHANGED <<shared, waiting, callers, tmp_buffer, is_idle, inits, sent,
                   taken>>

\* Mutant: the notification is missing.
RingCompleteSilently ==
    /\ rpc = "complete"
    /\ completed_count' = read_count
    /\ rpc' = "poll"
    /\ UNCHANGED <<ring, write_count, read_count, waiting, callers, tmp_buffer, is_idle,
                   inits, history>>

RingComplete ==
    /\ rpc = "complete"
    /\ completed_count' = read_count
    /\ waiting' \in NotifyOne
    /\ rpc' = "poll"
    /\ UNCHANGED <<ring, write_count, read_count, callers, tmp_buffer, is_idle,
                   inits, history>>

\* Mutant: being idle ends the loop, too.
RingBreakOnIdle ==
    /\ rpc = "run" /\ (tmp_buffer = Sentinel \/ is_idle)
    /\ rpc' = "exited"
    /\ UNCHANGED <<shared, waiting, callers, tmp_buffer, is_idle, inits,
                   history>>

(* The sentinel: the loop ends, completed_count is not brought up to date. *)
RingBreak ==
    /\ rpc = "run" /\ tmp_buffer = Sentinel
    /\ rpc' = "exited"
    /\ UNCHANGED <<shared, waiting, callers, tmp_buffer, is_idle, inits,
                   history>>

(* A spurious wakeup, which the standard allows at any time. *)
Spurious(t) ==
    /\ t \in waiting
    /\ waiting' = waiting \ {t}
    /\ UNCHANGED <<shared, callers, thread, inits, history>>

(* Every caller is done with the object. *)
Terminated ==
    /\ \A c \in Callers : pc[c] = "dead"
    /\ UNCHANGED vars
-----------------------------------------------------------------------------
RingStep == \/ RingWait \/ RingTimeout \/ RingPop \/ RingIdle
            \/ RingExecute \/ RingComplete \/ RingBreak

\* The steps of a method that has been called.
Progress(c) == \/ EnqueueWait(c) \/ Enqueue(c) \/ DrainWait(c) \/ DrainReturn(c)
               \/ Join(c) \/ Reset(c)

Call(c) == CallEnqueue(c) \/ CallDrain(c) \/ CallInit(c) \/ CallDestroy(c)

Next == \/ RingStep
        \/ \E c \in Callers : Progress(c) \/ Call(c)
        \/ \E t \in Callers \union {RingThread} : Spurious(t)
        \/ Terminated

Spec == Init /\ [][Next]_vars

\* Both threads are scheduled, and a wait_for whose time is up returns.  No
\* caller is obliged to call anything and no spurious wakeup has to happen.
Fairness == /\ WF_vars(RingStep)
            /\ \A c \in Callers : WF_vars(Progress(c))

FairSpec == Spec /\ Fairness
-----------------------------------------------------------------------------
(* Types: counters are unbounded naturals (64 bits in the code). *)
TypeOK ==
    /\ ring \in [0 .. Size - 1 -> Nat]
    /\ write_count \in Nat /\ read_count \in Nat /\ completed_count \in Nat
    /\ waiting \subseteq Callers \union {RingThread}
    /\ pc \in [Callers -> CallerPhase]
    /\ arg \in [Callers -> Command \union {Sentinel}]
    /\ after \in [Callers -> {"idle", "reset", "dead"}]
    /\ rpc \in RingPhase
    /\ tmp_buffer \in Seq(Nat)
    /\ is_idle \in BOOLEAN
    /\ inits \in Nat
    /\ sent \in Seq([at : Nat, words : Command \union {Sentinel}])
    /\ taken \in Nat
    /\ executed \in Seq(Seq(Nat))

(* No producer overwrites a word that has not been popped: the header and  *)
(* every word of each command still queued are in the array, at the place  *)
(* the reader will look for them (the `+ 1` for the header in              *)
(* enqueue_command's space check, and the two `& mask`).                   *)
QueuedIntact ==
    \A i \in taken + 1 .. Len(sent) :
        /\ ring[sent[i].at % Size] = Len(sent[i].words)
        /\ \A j \in 1 .. Len(sent[i].words) :
               ring[(sent[i].at + j) % Size] = sent[i].words[j]

(* The counters never pass one another, and no more than Size words are in *)
(* flight.  completed_count is only comparable as long as init() has not   *)
(* been called twice: it is the one counter that init() does not reset.    *)
CountersOrdered ==
    /\ read_count <= write_count
    /\ write_count <= read_count + Size
    /\ inits <= 1 => completed_count <= read_count

(* The thread executes exactly what was enqueued, in that order, however   *)
(* pops, timeouts and wraparound interleave with the producers.            *)
ExecutedInOrder ==
    /\ Len(executed) <= Len(sent)
    /\ \A i \in 1 .. Len(executed) : executed[i] = sent[i].words

(* drain() returns only when every command enqueued so far has been        *)
(* executed and not merely popped: scanout() and begin_frame_context()     *)
(* touch the renderer right after it, without any other lock.              *)
DrainSound ==
    inits <= 1 =>
        \A c \in Callers : pc[c] = "drain" /\ Drained => Len(executed) = Len(sent)

(* Once the ring thread is gone, nothing is left unexecuted but the        *)
(* sentinel itself, which was the last word of the ring: teardown_thread() *)
(* loses no command.                                                       *)
TeardownComplete ==
    rpc \in {"exited", "off"} /\ sent # <<>> =>
        /\ Len(executed) = Len(sent) - 1
        /\ sent[Len(sent)].words = Sentinel
        /\ read_count = write_count

(* A MetaIdle is only executed when the ring was found empty: the renderer *)
(* is never told it is idle with an older command still queued.            *)
IdleOnlyWhenEmpty == rpc = "run" /\ is_idle => Len(executed) = taken

(* Nobody takes for done what is not: neither who returns from drain(),    *)
(* nor who has joined the thread, nor the renderer when it is idle.        *)
CompletionSound == DrainSound /\ TeardownComplete /\ IdleOnlyWhenEmpty

\* The condition c waits for holds.
Runnable(c) == \/ pc[c] = "enqueue" /\ HasSpace(arg[c])
               \/ pc[c] = "drain" /\ Drained

(* No wakeup of a lone caller is lost.  The pop that frees space does not  *)
(* notify, and cond is shared, so a caller may be asleep with its          *)
(* condition already true: then the ring thread still owes a notification. *)
WakeupOwed ==
    \A c \in waiting : Callers = {c} /\ Runnable(c) =>
                          rpc \in {"run", "complete"} /\ ~is_idle

(* A method that was called returns: enqueue_command finds space, drain    *)
(* sees the end of the queue, teardown joins the thread.                   *)
CallsReturn == \A c \in Callers : pc[c] \notin {"idle", "dead"} ~> pc[c] \in {"idle", "dead"}

(* The abstract FIFO that the ring implements. *)
Closing == sent # <<>> /\ sent[Len(sent)].words = Sentinel
Accepted == [i \in 1 .. (IF Closing THEN Len(sent) - 1 ELSE Len(sent)) |-> sent[i].words]
PhaseOf(c) == IF pc[c] = "enqueue" /\ arg[c] # Sentinel THEN "put"
              ELSE IF pc[c] \in {"enqueue", "join"} THEN "close" ELSE pc[c]
Fifo == INSTANCE WorkFifo WITH
    accepted <- Accepted, phase <- [c \in Callers |-> PhaseOf(c)]

(* The ring with its array, counters and wakeups is that FIFO, and every   *)
(* accepted command is eventually executed.                                *)
Implements == Fifo!FairSpec
=============================================================================
