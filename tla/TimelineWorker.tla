--------------------------- MODULE TimelineWorker ---------------------------
(***************************************************************************)
(* The timeline worker: WorkerThread (worker_thread.hpp) running the       *)
(* FenceExecutor of the CommandProcessor (rdp_device.cpp).  The thread     *)
(* that owns the renderer (the feeder) pushes fences of GPU submissions,   *)
(* copies of GPU-written pages back to host RDRAM, and timeline signals;   *)
(* the worker performs them strictly in order, and wait_for_timeline()     *)
(* sleeps until the signal it asks for has been performed.                 *)
(*                                                                         *)
(* Every critical section of to_thread_mutex and of to_main_mutex is one   *)
(* action.  Both mutexes are never held together.                          *)
(***************************************************************************)
EXTENDS Integers, Sequences, FiniteSets

CONSTANTS
    Waiters,        \* threads that call wait_for_timeline
    Page,           \* pages of incoherent RDRAM
    MaxSubmits,     \* bound: GPU submissions with a fence
    MaxSignals      \* bound: calls of signal_timeline

ASSUME BoundAssumption == MaxSubmits \in Nat /\ MaxSignals \in Nat

VARIABLES
    work_queue, worker_asleep,              \* guarded by to_thread_mutex
    thread_timeline_value, waiting,         \* guarded by to_main_mutex
    wpc, value, copies,                     \* worker thread, op it holds, pages
                                            \* of it that are left to copy
    fpc, fpages,                            \* feeder: phase, pages of its op
    timeline_value,                         \* last value handed out
    active_submissions, pending_writes,     \* atomics shared with the renderer
    fence, gpu_done,                        \* submissions made / completed
    pc, index,                              \* waiters: phase, value waited for
    pushed, performed,                      \* history of push and perform_work
    written, host                           \* history: last GPU write per page,
                                            \* last write copied to the host

queue == <<work_queue, worker_asleep>>
main == <<thread_timeline_value, waiting>>
worker == <<wpc, value, copies>>
feeder == <<fpc, fpages, timeline_value>>
counters == <<active_submissions, pending_writes>>
gpu == <<fence, gpu_done>>
waiters == <<pc, index>>
vars == <<queue, main, worker, feeder, counters, gpu, waiters, pushed, performed,
          written, host>>

Op == [fence : 0 .. MaxSubmits, value : 0 .. MaxSignals, cookie : BOOLEAN,
       pages : SUBSET Page]

\* The three kinds of CoherencyOperation; 0 is a null fence or no signal.
FenceOp(f) == [fence |-> f, value |-> 0, cookie |-> TRUE, pages |-> {}]
CopyOp(f, P) == [fence |-> f, value |-> 0, cookie |-> FALSE, pages |-> P]
SignalOp(v) == [fence |-> 0, value |-> v, cookie |-> FALSE, pages |-> {}]

\* The default-constructed operation that the destructor pushes.
Default == [fence |-> 0, value |-> 0, cookie |-> FALSE, pages |-> {}]
\* Mutant: the fence is not looked at.
IsSentinelByValue(op) == op.value = 0
IsSentinel(op) == op.fence = 0 /\ op.value = 0

WorkerPhase == {"poll", "wait_fence", "copy", "notify", "exited"}
FeederPhase == {"idle", "fence", "copy", "signal", "join", "dead"}
-----------------------------------------------------------------------------
Init ==
    /\ work_queue = <<>> /\ worker_asleep = FALSE
    /\ thread_timeline_value = 0 /\ waiting = {}
    /\ wpc = "poll" /\ value = Default /\ copies = {}
    /\ fpc = "idle" /\ fpages = {} /\ timeline_value = 0
    /\ active_submissions = 0 /\ pending_writes = [p \in Page |-> 0]
    /\ fence = 0 /\ gpu_done = 0
    /\ pc = [w \in Waiters |-> "idle"] /\ index = [w \in Waiters |-> 0]
    /\ pushed = <<>> /\ performed = <<>>
    /\ written = [p \in Page |-> 0] /\ host = [p \in Page |-> 0]
-----------------------------------------------------------------------------
(* The feeder. *)

Push(op) ==
    /\ work_queue' = Append(work_queue, op)
    /\ pushed' = Append(pushed, op)
    /\ worker_asleep' = FALSE

(* submit_to_queue up to the submission: the pages written since the last  *)
(* one are counted as pending before the GPU can have written them.  P is  *)
(* empty for coherent RDRAM.                                               *)
Submit(P) ==
    /\ fpc = "idle" /\ fence < MaxSubmits
    /\ pending_writes' = [p \in Page |-> pending_writes[p] + (IF p \in P THEN 1 ELSE 0)]
    /\ fence' = fence + 1
    /\ written' = [p \in Page |-> IF p \in P THEN fence + 1 ELSE written[p]]
    /\ fpages' = P
    /\ fpc' = "fence"
    /\ UNCHANGED <<queue, main, worker, timeline_value, active_submissions, gpu_done,
                   waiters, pushed, performed, host>>

(* enqueue_fence_wait *)
EnqueueFenceWait ==
    /\ fpc = "fence"
    /\ active_submissions' = active_submissions + 1
    /\ Push(FenceOp(fence))
    /\ fpc' = IF fpages = {} THEN "idle" ELSE "copy"
    /\ UNCHANGED <<main, worker, fpages, timeline_value, pending_writes, gpu, waiters,
                   performed, written, host>>

(* The copy operation that submit_to_queue pushes behind the fence. *)
EnqueueCopies ==
    /\ fpc = "copy"
    /\ Push(CopyOp(fence, fpages))
    /\ fpc' = "idle"
    /\ UNCHANGED <<main, worker, fpages, timeline_value, counters, gpu, waiters, performed,
                   written, host>>

(* signal_timeline hands the value out ... *)
SignalTimeline ==
    /\ fpc = "idle" /\ timeline_value < MaxSignals
    /\ timeline_value' = timeline_value + 1
    /\ fpc' = "signal"
    /\ UNCHANGED <<queue, main, worker, fpages, counters, gpu, waiters, pushed, performed,
                   written, host>>

(* ... and the MetaSignalTimeline command it enqueues is executed. *)
EnqueueSignal ==
    /\ fpc = "signal"
    /\ Push(SignalOp(timeline_value))
    /\ fpc' = "idle"
    /\ UNCHANGED <<main, worker, fpages, timeline_value, counters, gpu, waiters, performed,
                   written, host>>

(* ~WorkerThread; no other thread uses the object any more. *)
Destroy ==
    /\ fpc = "idle" /\ \A w \in Waiters : pc[w] = "idle"
    /\ Push(Default)
    /\ fpc' = "join"
    /\ UNCHANGED <<main, worker, fpages, timeline_value, counters, gpu, waiters, performed,
                   written, host>>

Join ==
    /\ fpc = "join" /\ wpc = "exited"
    /\ fpc' = "dead"
    /\ UNCHANGED <<queue, main, worker, fpages, timeline_value, counters, gpu, waiters,
                   pushed, performed, written, host>>
-----------------------------------------------------------------------------
(* main_loop of the worker. *)

Sleep ==
    /\ wpc = "poll" /\ ~worker_asleep /\ work_queue = <<>>
    /\ worker_asleep' = TRUE
    /\ UNCHANGED <<work_queue, main, worker, feeder, counters, gpu, waiters, pushed,
                   performed, written, host>>

Pop ==
    /\ wpc = "poll" /\ ~worker_asleep /\ work_queue # <<>>
    /\ value' = Head(work_queue)
    /\ work_queue' = Tail(work_queue)
    /\ copies' = Head(work_queue).pages
    /\ wpc' = IF IsSentinel(Head(work_queue)) THEN "exited" ELSE "wait_fence"
    /\ UNCHANGED <<worker_asleep, main, feeder, counters, gpu, waiters, pushed, performed,
                   written, host>>

(* perform_work: wait for the fence, give the submission back. *)
\* Mutants: the fence is not waited for; every operation has a cookie.
WaitFenceNot ==
    /\ wpc = "wait_fence"
    /\ active_submissions' = active_submissions - (IF value.cookie THEN 1 ELSE 0)
    /\ wpc' = IF copies = {} THEN "notify" ELSE "copy"
    /\ performed' = IF copies = {} THEN Append(performed, value) ELSE performed
    /\ UNCHANGED <<queue, main, value, copies, feeder, pending_writes, gpu, waiters, pushed,
                   written, host>>

WaitFenceNoCookie ==
    /\ wpc = "wait_fence" /\ value.fence <= gpu_done
    /\ active_submissions' = active_submissions - 1
    /\ wpc' = IF copies = {} THEN "notify" ELSE "copy"
    /\ performed' = IF copies = {} THEN Append(performed, value) ELSE performed
    /\ UNCHANGED <<queue, main, value, copies, feeder, pending_writes, gpu, waiters, pushed,
                   written, host>>

WaitFence ==
    /\ wpc = "wait_fence" /\ value.fence <= gpu_done
    /\ active_submissions' = active_submissions - (IF value.cookie THEN 1 ELSE 0)
    /\ wpc' = IF copies = {} THEN "notify" ELSE "copy"
    /\ performed' = IF copies = {} THEN Append(performed, value) ELSE performed
    /\ UNCHANGED <<queue, main, value, copies, feeder, pending_writes, gpu, waiters, pushed,
                   written, host>>

(* perform_work: copy one page, then give it back (fetch_sub with release). *)
CopyPage(p) ==
    /\ wpc = "copy" /\ p \in copies
    /\ host' = [host EXCEPT ![p] = value.fence]
    /\ pending_writes' = [pending_writes EXCEPT ![p] = @ - 1]
    /\ copies' = copies \ {p}
    /\ wpc' = IF copies = {p} THEN "notify" ELSE "copy"
    /\ performed' = IF copies = {p} THEN Append(performed, value) ELSE performed
    /\ UNCHANGED <<queue, main, value, feeder, active_submissions, gpu, waiters, pushed,
                   written>>

(* notify_work_locked and notify_one, under to_main_mutex. *)
\* Mutant: nobody is woken.
NotifySilently ==
    /\ wpc = "notify"
    /\ thread_timeline_value' = IF value.value # 0 THEN value.value ELSE thread_timeline_value
    /\ wpc' = "poll"
    /\ UNCHANGED <<queue, waiting, value, copies, feeder, counters, gpu, waiters, pushed,
                   performed, written, host>>

Notify ==
    /\ wpc = "notify"
    /\ thread_timeline_value' = IF value.value # 0 THEN value.value ELSE thread_timeline_value
    /\ waiting' \in IF waiting = {} THEN {{}} ELSE {waiting \ {w} : w \in waiting}
    /\ wpc' = "poll"
    /\ UNCHANGED <<queue, value, copies, feeder, counters, gpu, waiters, pushed, performed,
                   written, host>>

(* The GPU completes submissions in order and signals their fences. *)
Complete ==
    /\ gpu_done < fence
    /\ gpu_done' = gpu_done + 1
    /\ UNCHANGED <<queue, main, worker, feeder, counters, fence, waiters, pushed, performed,
                   written, host>>
-----------------------------------------------------------------------------
(* wait_for_timeline, with a value that signal_timeline has returned. *)

CallWait(w) ==
    /\ pc[w] = "idle" /\ fpc \notin {"join", "dead"}
    /\ \E i \in 1 .. timeline_value : index' = [index EXCEPT ![w] = i]
    /\ pc' = [pc EXCEPT ![w] = "wait"]
    /\ UNCHANGED <<queue, main, worker, feeder, counters, gpu, pushed, performed, written,
                   host>>

WaitBlock(w) ==
    /\ pc[w] = "wait" /\ w \notin waiting /\ thread_timeline_value < index[w]
    /\ waiting' = waiting \union {w}
    /\ UNCHANGED <<queue, thread_timeline_value, worker, feeder, counters, gpu, waiters,
                   pushed, performed, written, host>>

WaitReturn(w) ==
    /\ pc[w] = "wait" /\ w \notin waiting /\ thread_timeline_value >= index[w]
    /\ pc' = [pc EXCEPT ![w] = "idle"]
    /\ UNCHANGED <<queue, main, worker, feeder, counters, gpu, index, pushed, performed,
                   written, host>>

Spurious(w) ==
    /\ w \in waiting
    /\ waiting' = waiting \ {w}
    /\ UNCHANGED <<queue, thread_timeline_value, worker, feeder, counters, gpu, waiters,
                   pushed, performed, written, host>>

Terminated == fpc = "dead" /\ UNCHANGED vars
-----------------------------------------------------------------------------
WorkerStep == Sleep \/ Pop \/ WaitFence \/ Notify \/ \E p \in Page : CopyPage(p)
FeederStep == EnqueueFenceWait \/ EnqueueCopies \/ EnqueueSignal \/ Join
WaiterStep(w) == WaitBlock(w) \/ WaitReturn(w)

Next == \/ WorkerStep \/ FeederStep \/ Complete
        \/ SignalTimeline \/ Destroy \/ (\E P \in SUBSET Page : Submit(P))
        \/ \E w \in Waiters : WaiterStep(w) \/ CallWait(w) \/ Spurious(w)
        \/ Terminated

Spec == Init /\ [][Next]_vars

\* Threads are scheduled, an operation that was begun is finished, and the
\* GPU completes what was submitted.
Fairness == /\ WF_vars(WorkerStep) /\ WF_vars(FeederStep) /\ WF_vars(Complete)
            /\ \A w \in Waiters : WF_vars(WaiterStep(w))

FairSpec == Spec /\ Fairness
-----------------------------------------------------------------------------
(* A timeline value becomes visible only when every operation pushed       *)
(* before its signal is done: its fence has signalled and its pages are in *)
(* host RDRAM.  This is all that wait_for_timeline() waits for, the signal *)
(* itself carries no fence.                                                *)
TimelineSound ==
    \A i \in 1 .. Len(pushed) :
        pushed[i].value # 0 /\ pushed[i].value <= thread_timeline_value =>
            \A j \in 1 .. i - 1 : /\ j <= Len(performed)
                                  /\ pushed[j].fence <= gpu_done
                                  /\ \A p \in pushed[j].pages : host[p] >= pushed[j].fence

\* Copies of page p that are still to be made.
CopiesOf(p) ==
    Cardinality({i \in Len(performed) + 1 .. Len(pushed) :
        /\ p \in pushed[i].pages
        /\ i = Len(performed) + 1 /\ wpc = "copy" => p \in copies})

(* The counters that the worker lowers are exact.  active_submissions is   *)
(* the number of fences it has not waited for, so maintain_queues' test    *)
(* for 0 means what its comment says ("we have no pending submissions").   *)
(* pending_writes_for_page counts the copies that are still due, from      *)
(* before the submission until after the memcpy; perform_work asserts that *)
(* it is positive.  Neither fetch_sub ever wraps.                          *)
CountersExact ==
    /\ active_submissions =
           Cardinality({i \in Len(performed) + 1 .. Len(pushed) : pushed[i].cookie})
    /\ \A p \in Page : pending_writes[p] =
           CopiesOf(p) + (IF fpc \in {"fence", "copy"} /\ p \in fpages THEN 1 ELSE 0)

(* A page without pending writes is up to date in host RDRAM: then, and    *)
(* only then, may mark_pages_for_gpu_read choose the unmasked copy.        *)
ClearPageIsCurrent == \A p \in Page : pending_writes[p] = 0 => host[p] = written[p]

(* What the renderer decides on is true: whether the GPU is idle, and      *)
(* which pages of the host are up to date.                                 *)
CountersSound == CountersExact /\ ClearPageIsCurrent

(* Whoever begins to wait for a value that was signalled, while nobody     *)
(* sleeps, returns, unless another waiter comes to sleep beside it:        *)
(* notify_one may then wake the wrong one.                                 *)
WaitsReturn ==
    \A w \in Waiters :
        pc[w] = "wait" /\ waiting = {} ~> pc[w] = "idle" \/ waiting \ {w} # {}

(* The worker, too, is a FIFO with one caller: everything pushed is        *)
(* performed, in order.  The sentinel that ~WorkerThread pushes last is    *)
(* how the queue is closed, and no operation of the caller's.              *)
Closing == fpc \in {"join", "dead"}
Accepted == [i \in 1 .. (IF Closing THEN Len(pushed) - 1 ELSE Len(pushed)) |-> pushed[i]]
Phase == CASE fpc \in {"fence", "copy", "signal"} -> "put"
           [] fpc = "join" -> "close"
           [] OTHER -> fpc
Fifo == INSTANCE WorkFifo WITH
    Callers <- {"feeder"}, Command <- Op, accepted <- Accepted, executed <- performed,
    phase <- [c \in {"feeder"} |-> Phase]
Implements == Fifo!FairSpec
=============================================================================
