------------------------------- MODULE Coherency ------------------------------
(***************************************************************************)
(* RDRAM when the GPU cannot import the memory of the emulator.  The host  *)
(* and the GPU have a copy each, kept alike page by page: mark_pages_for_  *)
(* gpu_read chooses how a page goes to the GPU, resolve_coherency_host_to_ *)
(* gpu sends it, lock_pages_for_gpu_write and resolve_coherency_gpu_to_    *)
(* host order the way back, which the timeline worker goes with a mask of  *)
(* the bytes that the GPU has written.                                     *)
(***************************************************************************)
EXTENDS Integers, Sequences, FiniteSets

CONSTANTS
    Page, Offset,       \* a byte is an offset into a page
    Mapped,             \* the host can map the RDRAM of the GPU (integrated GPUs)
    Careful,            \* the host is as careful as HostMayWrite says
    MaxPasses, MaxWrites,
    MaxBytes            \* of a texture, and of a framebuffer, in a pass

ASSUME ConfigAssumption == Mapped \in BOOLEAN /\ Careful \in BOOLEAN
ASSUME BoundAssumption == MaxPasses \in Nat /\ MaxWrites \in Nat /\ MaxBytes \in Nat

VARIABLES
    host, staging,      \* host_rdram and staging_rdram
    rdram, mask,        \* of the GPU: its RDRAM, and the bytes it has written
    page_to_direct_copy, page_to_masked_copy, page_to_pending_readback,
    pending_writes,     \* pending_writes_for_page, shared with the worker
    queue,              \* commands that the renderer has not begun
    rpc, pass, todo,    \* the renderer: phase, its pass, pages still to be copied
    cmd, stream,        \* commands in the open buffer; submitted, not executed
    submits, gpu_done,  \* fences: submitted and signalled
    staging_readback,   \* what every submission read back
    ops, copies,        \* queue of the worker; pages still to be copied for its head
    timeline,           \* all passes up to this one are known to be finished
    passes, truth, writes   \* history: what the program sees as one memory

memory == <<host, staging, rdram, mask>>
marks == <<page_to_direct_copy, page_to_masked_copy, page_to_pending_readback>>
renderer == <<rpc, pass, todo>>
gpu == <<stream, gpu_done, staging_readback>>
worker == <<ops, copies, timeline>>
history == <<passes, truth, writes>>
vars == <<memory, marks, pending_writes, queue, renderer, cmd, submits, gpu, worker, history>>

Byte == Page \X Offset
Bytes(P) == P \X Offset
Pages(B) == {b[1] : b \in B}
Zero == [b \in Byte |-> 0]
Loaded == [b \in Byte |-> 1]

\* f with the bytes of B taken from g.
Overlay(f, B, g) == [b \in Byte |-> IF b \in B THEN g[b] ELSE f[b]]

\* A new value, different from all that were written before.
Fresh == Len(passes) + writes + 2

\* The buffers of the GPU are zeroed, the memory of the host is not.
Init ==
    /\ host = Loaded /\ staging = Zero /\ rdram = Zero /\ mask = {}
    /\ page_to_direct_copy = {} /\ page_to_masked_copy = {} /\ page_to_pending_readback = {}
    /\ pending_writes = [p \in Page |-> 0]
    /\ queue = <<>> /\ rpc = "idle" /\ pass = 0 /\ todo = {}
    /\ cmd = <<>> /\ stream = <<>> /\ submits = 0 /\ gpu_done = 0 /\ staging_readback = <<>>
    /\ ops = <<>> /\ copies = {} /\ timeline = 0
    /\ passes = <<>> /\ truth = Loaded /\ writes = 0
-----------------------------------------------------------------------------
(* The emulator. *)

\* A pass may have a texture, and has a framebuffer.
Texture == {R \in SUBSET Byte : Cardinality(R) <= MaxBytes}
Framebuffer == {W \in SUBSET Byte : Cardinality(W) \in 1 .. MaxBytes}

(* Commands for a render pass that reads the bytes R (textures), and reads *)
(* and writes the bytes W (framebuffer).                                   *)
Enqueue(R, W) ==
    /\ Len(passes) < MaxPasses
    /\ passes' = Append(passes, [reads |-> R, writes |-> W, value |-> Fresh,
                                 expected |-> [b \in R \union W |-> truth[b]]])
    /\ truth' = [b \in Byte |-> IF b \in W THEN Fresh ELSE truth[b]]
    /\ queue' = Append(queue, [op |-> "draw", n |-> Len(passes) + 1])
    /\ UNCHANGED <<memory, marks, pending_writes, renderer, cmd, submits, gpu, worker, writes>>

\* Values on their way, so that one is not signalled twice.
Signalled == {timeline} \union {ops[i].value : i \in DOMAIN ops}
                 \union {queue[i].n : i \in {j \in DOMAIN queue : queue[j].op = "signal"}}

(* signal_timeline, for all passes so far. *)
Signal ==
    /\ Len(passes) \notin Signalled
    /\ queue' = Append(queue, [op |-> "signal", n |-> Len(passes)])
    /\ UNCHANGED <<memory, marks, pending_writes, renderer, cmd, submits, gpu, worker, history>>

\* Passes that the host does not know to be finished.
Unfinished == timeline + 1 .. Len(passes)
WrittenBy(N) == UNION {passes[n].writes : n \in N}
ReadBy(N) == UNION {passes[n].reads : n \in N}

(* "CPU is not allowed to meaningfully overwrite data which the GPU is     *)
(* going to touch".  A careful host, besides, leaves a byte that the GPU   *)
(* has ever written alone while the GPU may still write to the same page.  *)
HostMayWrite(b) ==
    /\ b \notin WrittenBy(Unfinished) \union ReadBy(Unfinished)
    /\ Careful => \/ b[1] \notin Pages(WrittenBy(Unfinished))
                  \/ b \notin WrittenBy(DOMAIN passes)

HostWrite(b) ==
    /\ writes < MaxWrites
    /\ HostMayWrite(b)
    /\ host' = [host EXCEPT ![b] = Fresh]
    /\ truth' = [truth EXCEPT ![b] = Fresh]
    /\ writes' = writes + 1
    /\ UNCHANGED <<staging, rdram, mask, marks, pending_writes, queue, renderer, cmd, submits,
                   gpu, worker, passes>>
-----------------------------------------------------------------------------
(* The renderer. *)

\* Mutant: copies that were submitted do not count.
PendingUnsubmitted(p) == p \in page_to_pending_readback
Pending(p) == p \in page_to_pending_readback \/ pending_writes[p] # 0

(* mark_pages_for_gpu_read *)
Mark(P) ==
    /\ page_to_direct_copy' = page_to_direct_copy \union {p \in P : ~Pending(p)}
    /\ page_to_masked_copy' = page_to_masked_copy \union {p \in P : Pending(p)}

(* load_tile marks what the pass reads, some time before it is flushed. *)
LoadTile ==
    /\ rpc = "idle" /\ queue # <<>> /\ Head(queue).op = "draw"
    /\ pass' = Head(queue).n
    /\ queue' = Tail(queue)
    /\ Mark(Pages(passes[Head(queue).n].reads))
    /\ rpc' = "flush"
    /\ UNCHANGED <<memory, page_to_pending_readback, pending_writes, todo, cmd, submits, gpu,
                   worker, history>>

(* flush_queues marks the framebuffers, and then locks them. *)
Lock ==
    /\ rpc = "flush"
    /\ Mark(Pages(passes[pass].writes))
    /\ page_to_pending_readback' = page_to_pending_readback \union Pages(passes[pass].writes)
    /\ todo' = page_to_direct_copy' \union page_to_masked_copy'
    /\ rpc' = "resolve"
    /\ UNCHANGED <<memory, pending_writes, queue, pass, cmd, submits, gpu, worker, history>>

(* resolve_coherency_host_to_gpu, on the CPU: a page is copied to staging, *)
(* or to the RDRAM of the GPU if that is mapped and the copy is direct.    *)
ResolvePage(p) ==
    /\ rpc = "resolve" /\ p \in todo
    /\ todo' = todo \ {p}
    /\ IF Mapped /\ p \in page_to_direct_copy
       THEN rdram' = Overlay(rdram, Bytes({p}), host) /\ mask' = mask \ Bytes({p})
       ELSE UNCHANGED <<rdram, mask>>
    /\ staging' = IF Mapped /\ p \notin page_to_masked_copy THEN staging
                                                           ELSE Overlay(staging, Bytes({p}), host)
    /\ UNCHANGED <<host, marks, pending_writes, queue, rpc, pass, cmd, submits, gpu, worker,
                   history>>

(* resolve_coherency_host_to_gpu, the commands for the GPU, and the pass. *)
Record ==
    /\ rpc = "resolve" /\ todo = {}
    /\ cmd' = cmd \o <<[op |-> "masked", pages |-> page_to_masked_copy, n |-> pass],
                       [op |-> "copy", n |-> pass,
                        pages |-> IF Mapped THEN {} ELSE page_to_direct_copy \ page_to_masked_copy],
                       [op |-> "render", pages |-> {}, n |-> pass]>>
    /\ page_to_direct_copy' = {} /\ page_to_masked_copy' = {}
    /\ rpc' = "idle"
    /\ UNCHANGED <<memory, page_to_pending_readback, pending_writes, queue, pass, todo, submits,
                   gpu, worker, history>>

Counted(P) == [p \in Page |-> pending_writes[p] + IF p \in P THEN 1 ELSE 0]

(* submit_to_queue with resolve_coherency_gpu_to_host; s are the signals   *)
(* that are pushed behind it.                                              *)
Submit(s) ==
    LET locked == page_to_pending_readback IN
    /\ pending_writes' = Counted(locked)
    /\ page_to_pending_readback' = {}
    /\ stream' = stream \o cmd \o <<[op |-> "end", pages |-> locked, n |-> submits + 1]>>
    /\ ops' = ops \o <<[fence |-> submits + 1, pages |-> locked, value |-> 0]>> \o s
    /\ submits' = submits + 1
    /\ cmd' = <<>>

(* maintain_queues may submit after any pass. *)
MaintainQueues ==
    /\ rpc = "idle" /\ cmd # <<>>
    /\ Submit(<<>>)
    /\ UNCHANGED <<memory, page_to_direct_copy, page_to_masked_copy, queue, renderer, gpu_done,
                   staging_readback, copies, timeline, history>>

(* A signal flushes and submits what there is, and follows it. *)
FlushAndSignal ==
    /\ rpc = "idle" /\ queue # <<>> /\ Head(queue).op = "signal"
    /\ queue' = Tail(queue)
    /\ LET s == <<[fence |-> 0, pages |-> {}, value |-> Head(queue).n]>> IN
       IF cmd # <<>> THEN Submit(s)
       ELSE ops' = ops \o s
            /\ UNCHANGED <<pending_writes, page_to_pending_readback, stream, submits, cmd>>
    /\ UNCHANGED <<memory, page_to_direct_copy, page_to_masked_copy, renderer, gpu_done,
                   staging_readback, copies, timeline, history>>
-----------------------------------------------------------------------------
(* The GPU executes what was submitted, in order. *)
First == Head(stream)
GpuStep(op) == stream # <<>> /\ First.op = op /\ stream' = Tail(stream)

(* masked_rdram_resolve.comp: what the GPU has written stays. *)
MaskedResolve ==
    /\ GpuStep("masked")
    /\ rdram' = Overlay(rdram, Bytes(First.pages) \ mask, staging)
    /\ UNCHANGED <<host, staging, mask, marks, pending_writes, queue, renderer, cmd, submits,
                   gpu_done, staging_readback, worker, history>>

(* clear_write_mask.comp, and the copies that follow it. *)
Copy ==
    /\ GpuStep("copy")
    /\ rdram' = Overlay(rdram, Bytes(First.pages), staging)
    /\ mask' = mask \ Bytes(First.pages)
    /\ UNCHANGED <<host, staging, marks, pending_writes, queue, renderer, cmd, submits, gpu_done,
                   staging_readback, worker, history>>

Render ==
    /\ GpuStep("render")
    /\ LET p == passes[First.n] IN
       /\ rdram' = [b \in Byte |-> IF b \in p.writes THEN p.value ELSE rdram[b]]
       /\ mask' = mask \union p.writes
    /\ UNCHANGED <<host, staging, marks, pending_writes, queue, renderer, cmd, submits, gpu_done,
                   staging_readback, worker, history>>

(* The end of a submission: locked pages and their masks are read back to  *)
(* the staging buffer, if one is needed, and the fence signals.            *)
End ==
    /\ GpuStep("end")
    /\ gpu_done' = First.n
    /\ staging_readback' = IF Mapped THEN staging_readback
                           ELSE Append(staging_readback, [data |-> rdram, mask |-> mask])
    /\ UNCHANGED <<memory, marks, pending_writes, queue, renderer, cmd, submits, worker, history>>
-----------------------------------------------------------------------------
(* The timeline worker (FenceExecutor::perform_work). *)

WaitFence ==
    /\ ops # <<>> /\ copies = {}
    /\ Head(ops).pages # {} /\ Head(ops).fence <= gpu_done
    /\ copies' = Head(ops).pages
    /\ UNCHANGED <<memory, marks, pending_writes, queue, renderer, cmd, submits, gpu, ops,
                   timeline, history>>

\* Mutant: the mask is ignored.
CopyPageUnmasked(p) ==
    /\ p \in copies
    /\ LET from == IF Mapped THEN [data |-> rdram, mask |-> mask]
                             ELSE staging_readback[Head(ops).fence]
       IN  host' = Overlay(host, Bytes({p}), from.data)
    /\ pending_writes' = [pending_writes EXCEPT ![p] = @ - 1]
    /\ copies' = copies \ {p}
    /\ ops' = IF copies' = {} THEN Tail(ops) ELSE ops
    /\ UNCHANGED <<staging, rdram, mask, marks, queue, renderer, cmd, submits, gpu, timeline,
                   history>>

(* masked_memcpy of a page, and its counter. *)
CopyPage(p) ==
    /\ p \in copies
    /\ LET from == IF Mapped THEN [data |-> rdram, mask |-> mask]
                             ELSE staging_readback[Head(ops).fence]
       IN  host' = Overlay(host, Bytes({p}) \intersect from.mask, from.data)
    /\ pending_writes' = [pending_writes EXCEPT ![p] = @ - 1]
    /\ copies' = copies \ {p}
    /\ ops' = IF copies' = {} THEN Tail(ops) ELSE ops
    /\ UNCHANGED <<staging, rdram, mask, marks, queue, renderer, cmd, submits, gpu, timeline,
                   history>>

NotifyTimeline ==
    /\ ops # <<>> /\ Head(ops).value # 0
    /\ timeline' = Head(ops).value
    /\ ops' = Tail(ops)
    /\ UNCHANGED <<memory, marks, pending_writes, queue, renderer, cmd, submits, gpu, copies,
                   history>>
-----------------------------------------------------------------------------
Next ==
    \/ \E b \in Byte : HostWrite(b)
    \/ \E R \in Texture, W \in Framebuffer : Enqueue(R, W)
    \/ Signal
    \/ LoadTile \/ Lock \/ Record \/ MaintainQueues \/ FlushAndSignal
    \/ \E p \in Page : ResolvePage(p) \/ CopyPage(p)
    \/ MaskedResolve \/ Copy \/ Render \/ End
    \/ WaitFence \/ NotifyTimeline

Spec == Init /\ [][Next]_vars
-----------------------------------------------------------------------------
(* A pass finds in the RDRAM of the GPU what the program last wrote there  *)
(* before it, be it the host or an earlier pass.  "Ensure that the GPU     *)
(* sees a coherent view of the CPU memory writes up until now.  Writes     *)
(* made by the GPU which are not known to be resolved on the timeline      *)
(* waiter thread will always win over writes made by CPU"                  *)
(* (resolve_coherency_host_to_gpu).                                        *)
ReadsCurrent ==
    stream # <<>> /\ First.op = "render" =>
        \A b \in DOMAIN passes[First.n].expected : rdram[b] = passes[First.n].expected[b]

(* The host finds in its own memory what was last written, unless a pass   *)
(* that it has not waited for writes there: results of the GPU arrive      *)
(* before the timeline says so, and nothing that the host has written      *)
(* since is overwritten by a GPU write that is known to be resolved.       *)
HostCurrent == \A b \in Byte \ WrittenBy(Unfinished) : host[b] = truth[b]
=============================================================================
