-------------------------- MODULE CommandProcessor --------------------------
(***************************************************************************)
(* The public interface of parallel-rdp (rdp_device.cpp): how the calls of *)
(* the emulator's thread, the command ring, the renderer, the timeline     *)
(* worker and the GPU work together.  The parts appear as what their own   *)
(* modules show of them: the ring is the FIFO of WorkFifo, the renderer    *)
(* submits work in order and leaves nothing behind in flush_and_signal     *)
(* (RenderQueue!FlushLeavesNothing), the worker performs its operations in *)
(* order (TimelineWorker!Implements).                                      *)
(*                                                                         *)
(* A call is the list of the steps it has left.  The renderer has no lock  *)
(* of its own: the ring thread is inside it while rpc is "run" or "kick",  *)
(* the caller while its next step is "render".                             *)
(***************************************************************************)
EXTENDS Integers, Sequences

CONSTANTS
    MaxWork,        \* bound: commands that make work for the renderer
    MaxSignals,     \* bound: calls of signal_timeline
    MaxCalls        \* bound: other calls

ASSUME BoundAssumption == MaxWork \in Nat /\ MaxSignals \in Nat /\ MaxCalls \in Nat

VARIABLES
    threaded, dumping,              \* ~single_threaded_processing, dump_writer
    todo, index, timeline_value,    \* the caller: steps, argument of wait
    in_list,                        \* dump_in_command_list
    queue, rpc, running,            \* the ring and its thread
    idle_lock,                      \* its holder
    executed, submitted,            \* units of work the renderer was given and
                                    \* has submitted
    submissions, gpu_done,          \* units covered by every submission
    ops, ops_done, thread_timeline_value, worker_alive,     \* timeline worker
    enqueued, covers, calls         \* history: units, units before a signal

config == <<threaded, dumping>>
caller == <<todo, index, timeline_value, in_list>>
ring == <<queue, rpc, running>>
renderer == <<executed, submitted, submissions>>
worker == <<ops_done, thread_timeline_value, worker_alive>>
history == <<enqueued, covers, calls>>
vars == <<config, caller, ring, idle_lock, renderer, gpu_done, ops, worker, history>>

\* A command is the unit of work it makes, or what it asks for.
Work == [op |-> "work", value |-> 0]
SyncFull == [op |-> "flush", value |-> 0]
MetaFlush == [op |-> "flush", value |-> 0]
MetaSignal(v) == [op |-> "signal", value |-> v]
Sentinel == [op |-> "exit", value |-> 0]
MetaIdle == [op |-> "idle", value |-> 0]
Command == [op : {"work", "flush", "signal", "exit", "idle"}, value : Nat]

Step == {"work", "sync", "flush", "signal", "exit", "wait", "drain", "open", "close", "snapshot",
         "lock", "render", "unlock", "scan", "frame", "stop", "join", "gone"}

Doing(step) == todo # <<>> /\ Head(todo) = step

Init ==
    /\ threaded \in BOOLEAN /\ dumping \in BOOLEAN
    /\ todo = <<>> /\ index = 0 /\ timeline_value = 0 /\ in_list = FALSE
    /\ queue = <<>> /\ rpc = (IF threaded THEN "poll" ELSE "off") /\ running = MetaIdle
    /\ idle_lock = "free"
    /\ executed = 0 /\ submitted = 0 /\ submissions = <<>> /\ gpu_done = 0
    /\ ops = <<>> /\ ops_done = 0 /\ thread_timeline_value = 0 /\ worker_alive = TRUE
    /\ enqueued = 0 /\ covers = <<>> /\ calls = 0
-----------------------------------------------------------------------------
(* The renderer. *)

\* submit_to_queue and the operations it pushes, with those that follow: a
\* fence for the worker to wait for, if there is anything to submit.
Submit(units, following) ==
    IF units > submitted
    THEN /\ submitted' = units /\ submissions' = Append(submissions, units)
         /\ ops' = ops \o <<[fence |-> Len(submissions) + 1, value |-> 0]>> \o following
    ELSE /\ ops' = ops \o following
         /\ UNCHANGED <<submitted, submissions>>

\* enqueue_command_direct: what a command does to the renderer.  Work may be
\* submitted at once, with all that came before it.
ExecuteWork ==
    /\ executed' = executed + 1
    /\ \/ UNCHANGED <<submitted, submissions, ops>>
       \/ Submit(executed + 1, <<>>)

ExecuteFlush == Submit(executed, <<>>) /\ UNCHANGED executed

SignalOps(v) == <<[fence |-> 0, value |-> v]>>
\* Mutant: the signal does not flush.
ExecuteSignalUnflushed(v) == Submit(submitted, SignalOps(v)) /\ UNCHANGED executed
ExecuteSignal(v) == Submit(executed, SignalOps(v)) /\ UNCHANGED executed

Execute(cmd) == \/ cmd.op = "work" /\ ExecuteWork
                \/ cmd.op = "flush" /\ ExecuteFlush
                \/ cmd.op = "signal" /\ ExecuteSignal(cmd.value)
                \/ cmd.op \in {"exit", "idle"} /\ UNCHANGED <<renderer, ops>>
-----------------------------------------------------------------------------
(* The calls. *)

IdleSteps == <<"flush", "signal", "wait">>
DumpSteps(step) == IF dumping THEN <<"signal", "wait", step>> ELSE <<>>
EnqueueSteps(cmd) == (IF in_list THEN <<>> ELSE DumpSteps("open"))
                        \o (IF cmd = "sync" THEN <<"sync", "close">> ELSE <<cmd>>)
\* Mutants: scanout() does not drain the ring; does not unlock.
ScanoutStepsUndrained == DumpSteps("snapshot") \o <<"lock", "render", "unlock", "scan">>
ScanoutStepsLocked == <<"drain">> \o DumpSteps("snapshot") \o <<"lock", "render", "scan">>
ScanoutSteps == <<"drain">> \o DumpSteps("snapshot") \o <<"lock", "render", "unlock", "scan">>
FrameSteps == <<"flush", "drain", "frame">>

\* The destructor, then those of timeline_worker and of ring, in that order.
\* Mutant: the destructor does nothing itself.
DestroyStepsBusy == <<"stop", "exit", "join", "gone">>
DestroySteps == IdleSteps \o <<"stop", "exit", "join", "gone">>

Call ==
    /\ todo = <<>>
    /\ \/ /\ enqueued < MaxWork /\ todo' = EnqueueSteps("work")
          /\ UNCHANGED <<index, calls>>
       \/ /\ todo' = <<"signal">> /\ timeline_value < MaxSignals
          /\ UNCHANGED <<index, calls>>
       \/ /\ index' \in 1 .. timeline_value /\ todo' = <<"wait">>
          /\ UNCHANGED calls
       \/ /\ calls < MaxCalls /\ calls' = calls + 1
          /\ \/ todo' = EnqueueSteps("sync")
             \/ todo' = <<"flush">>
             \/ todo' = IdleSteps
             \/ todo' = ScanoutSteps
             \/ todo' = FrameSteps
          /\ UNCHANGED index
       \/ todo' = DestroySteps /\ UNCHANGED <<index, calls>>
    /\ UNCHANGED <<config, timeline_value, in_list, ring, idle_lock, renderer, gpu_done, ops,
                   worker, enqueued, covers>>

(* enqueue_command_inner: through the ring, or at once. *)
Post(cmd) ==
    IF threaded
    THEN queue' = Append(queue, cmd) /\ UNCHANGED <<renderer, ops>>
    ELSE Execute(cmd) /\ UNCHANGED queue

Posted == /\ todo' = Tail(todo)
          /\ UNCHANGED <<config, in_list, rpc, running, idle_lock, gpu_done, worker, calls>>

PostWork ==
    /\ Doing("work") /\ Post(Work) /\ Posted
    /\ enqueued' = enqueued + 1
    /\ UNCHANGED <<index, timeline_value, covers>>

PostFlush ==
    /\ \/ Doing("sync") /\ Post(SyncFull)
       \/ Doing("flush") /\ Post(MetaFlush)
    /\ Posted
    /\ UNCHANGED <<index, timeline_value, enqueued, covers>>

PostSignal ==
    /\ Doing("signal")
    /\ timeline_value' = timeline_value + 1
    /\ index' = timeline_value'
    /\ Post(MetaSignal(timeline_value')) /\ Posted
    /\ covers' = Append(covers, enqueued)
    /\ UNCHANGED enqueued

PostSentinel ==
    /\ Doing("exit") /\ Post(Sentinel) /\ Posted
    /\ UNCHANGED <<index, timeline_value, enqueued, covers>>

Done == /\ todo' = Tail(todo)
        /\ UNCHANGED <<config, index, timeline_value, queue, rpc, running, gpu_done, ops_done,
                       thread_timeline_value, history>>

WaitForTimeline ==
    /\ Doing("wait") /\ thread_timeline_value >= index /\ Done
    /\ UNCHANGED <<in_list, idle_lock, renderer, ops, worker_alive>>

Drain ==
    /\ Doing("drain") /\ Done
    /\ queue = <<>> /\ rpc # "run"
    /\ UNCHANGED <<in_list, idle_lock, renderer, ops, worker_alive>>

\* RDRAM is written to the dump: before a list of commands, or in scanout.
Snapshot ==
    /\ \/ Doing("open") /\ in_list' = TRUE
       \/ Doing("snapshot") /\ UNCHANGED in_list
       \/ Doing("close") /\ in_list' = FALSE
    /\ Done
    /\ UNCHANGED <<idle_lock, renderer, ops, worker_alive>>

LockCommandProcessing ==
    /\ Doing("lock") /\ idle_lock = "free" /\ Done
    /\ idle_lock' = "caller"
    /\ UNCHANGED <<in_list, renderer, ops, worker_alive>>

\* flush_and_signal, resolve_coherency_external; on the caller's thread.
Render ==
    /\ Doing("render") /\ Done
    /\ ExecuteFlush
    /\ UNCHANGED <<in_list, idle_lock, worker_alive>>

UnlockCommandProcessing ==
    /\ Doing("unlock") /\ Done
    /\ idle_lock' = "free"
    /\ UNCHANGED <<in_list, renderer, ops, worker_alive>>

\* VideoInterface::scanout, Device::next_frame_context.
UseDevice ==
    /\ Doing("scan") \/ Doing("frame")
    /\ Done
    /\ UNCHANGED <<in_list, idle_lock, renderer, ops, worker_alive>>

StopWorker ==
    /\ Doing("stop") /\ Done
    /\ ops_done = Len(ops)
    /\ worker_alive' = FALSE
    /\ UNCHANGED <<in_list, idle_lock, renderer, ops>>

JoinRing ==
    /\ Doing("join") /\ Done
    /\ rpc \in {"exited", "off"}
    /\ UNCHANGED <<in_list, idle_lock, renderer, ops, worker_alive>>
-----------------------------------------------------------------------------
(* The thread of the ring, the worker and the GPU. *)

RingPop ==
    /\ rpc = "poll" /\ queue # <<>>
    /\ running' = Head(queue) /\ queue' = Tail(queue)
    /\ rpc' = IF Head(queue) = Sentinel THEN "exited" ELSE "run"
    /\ UNCHANGED <<config, caller, idle_lock, renderer, gpu_done, ops, worker, history>>

RingRun ==
    /\ rpc = "run" /\ rpc' = "poll"
    /\ Execute(running)
    /\ UNCHANGED <<config, caller, queue, running, idle_lock, gpu_done, worker, history>>

\* The ring was found empty after 500 us: MetaIdle.
RingTimeout ==
    /\ rpc = "poll" /\ queue = <<>>
    /\ rpc' = "idle" /\ running' = MetaIdle
    /\ UNCHANGED <<config, caller, queue, idle_lock, renderer, gpu_done, ops, worker, history>>

\* maintain_queues_idle, which submits when enough is pending.
IdleLock ==
    /\ rpc = "idle" /\ idle_lock = "free"
    /\ idle_lock' = "ring" /\ rpc' = "kick"
    /\ UNCHANGED <<config, caller, queue, running, renderer, gpu_done, ops, worker, history>>

IdleKick ==
    /\ rpc = "kick" /\ rpc' = "poll"
    /\ idle_lock' = "free"
    /\ ExecuteFlush \/ UNCHANGED <<renderer, ops>>
    /\ UNCHANGED <<config, caller, queue, running, gpu_done, worker, history>>

Perform ==
    /\ worker_alive /\ ops_done < Len(ops)
    /\ LET op == ops[ops_done + 1] IN
        /\ op.fence <= gpu_done
        /\ thread_timeline_value' = IF op.value # 0 THEN op.value ELSE thread_timeline_value
    /\ ops_done' = ops_done + 1
    /\ UNCHANGED <<config, caller, ring, idle_lock, renderer, gpu_done, ops, worker_alive,
                   history>>

Complete ==
    /\ gpu_done < Len(submissions)
    /\ gpu_done' = gpu_done + 1
    /\ UNCHANGED <<config, caller, ring, idle_lock, renderer, ops, worker, history>>

Terminated == Doing("gone") /\ UNCHANGED vars
-----------------------------------------------------------------------------
Progress == \/ PostWork \/ PostFlush \/ PostSignal \/ PostSentinel
            \/ WaitForTimeline \/ Drain \/ Snapshot \/ Render
            \/ UnlockCommandProcessing \/ UseDevice \/ StopWorker \/ JoinRing
RingStep == RingPop \/ RingRun \/ RingTimeout \/ IdleLock \/ IdleKick

Next == \/ Call \/ Progress \/ LockCommandProcessing
        \/ RingStep \/ Perform \/ Complete
        \/ Terminated

Spec == Init /\ [][Next]_vars

\* Threads are scheduled and the GPU makes progress.  The ring thread holds
\* idle_lock for a moment every 500 us at most: a caller gets it eventually.
FairSpec == Spec /\ WF_vars(Progress) /\ SF_vars(LockCommandProcessing)
                 /\ WF_vars(RingStep) /\ WF_vars(Perform) /\ WF_vars(Complete)
-----------------------------------------------------------------------------
(* The renderer, which has no lock, is never entered by two threads: in    *)
(* scanout() the ring has been drained, only the caller could refill it,   *)
(* and idle_lock keeps the callback of the idle ring thread out.           *)
RendererExclusive == ~(Doing("render") /\ rpc \in {"run", "kick"})

\* The timeline worker has seen the fence of a submission that covers the
\* first n units, and has copied their pages back.
Seen(n) == n = 0 \/ \E i \in 1 .. ops_done : /\ ops[i].fence # 0
                                             /\ submissions[ops[i].fence] >= n

(* wait_for_timeline(v) returns only when everything that was enqueued     *)
(* before signal_timeline() returned v has been executed, submitted,       *)
(* completed by the GPU and copied back.                                   *)
SignalCovers == \A v \in 1 .. thread_timeline_value : Seen(covers[v])

(* RDRAM is dumped only when the host sees all the work so far.            *)
SnapshotCurrent == Doing("open") \/ Doing("snapshot") => Seen(enqueued)

(* Who waits, or dumps, has the results of all the work before.            *)
ResultsSeen == SignalCovers /\ SnapshotCurrent

(* When the frame is scanned out, and when the Vulkan frame context moves  *)
(* on, all the work so far has been submitted.  No lock is held then, but  *)
(* the ring thread has nothing to record either, not even when it idles.   *)
DeviceQuiet ==
    Doing("scan") \/ Doing("frame") =>
        rpc # "run" /\ executed = enqueued /\ submitted = enqueued

(* The caller has the renderer, or the device, for itself.                 *)
CallerAlone == RendererExclusive /\ DeviceQuiet

(* Members are destroyed in reverse order, the timeline worker before the  *)
(* ring whose thread may still find itself idle: because the destructor    *)
(* calls idle() first, nothing is pushed to the dead worker.               *)
NoPushAfterDestruction == [][~worker_alive => ops' = ops]_vars

(* Every call returns, and destruction finishes. *)
CallsReturn == todo # <<>> ~> todo = <<>> \/ Doing("gone")
=============================================================================
