------------------------------ MODULE RenderPass -------------------------------
(***************************************************************************)
(* The commands of a render pass and the barriers between them:            *)
(* flush_queues (rdp_renderer.cpp) records uploads, span setup, binning,   *)
(* TMEM updates, shading, blending and the upkeep of the upscaled domain;  *)
(* scanout (video_interface.cpp) reads the result.  The GPU may execute    *)
(* what was submitted in any order that the barriers leave open, and a     *)
(* command sees what another one wrote only through barriers that name     *)
(* the accesses of both.                                                   *)
(*                                                                         *)
(* RDRAM and its upscaled copy are one pixel here, which holds the number  *)
(* of the write that it got last.  A buffer between two dispatches holds   *)
(* whose work it is: the pass, and whether the upscaled one.  Which pages  *)
(* go to the GPU is the subject of Coherency; which instance is free, and  *)
(* when passes are submitted, of RenderQueue.                              *)
(***************************************************************************)
EXTENDS Integers, Sequences, TLC

CONSTANTS
    NumSyncStates,                          \* number of buffer instances
    Devices,                                \* the devices to look at
    MaxPasses, MaxHostWrites, MaxScanouts   \* bounds

\* upscaling: "none", "domain" (a 1x pass and an upscaled one), "ssaa" (super_sample_readback).
\* discrete: the host maps neither RDRAM nor the buffer instances that the shaders read.
Device == [ubershader : BOOLEAN, upscaling : {"none", "domain", "ssaa"}, discrete : BOOLEAN]

\* The ones to check: what a shader reads does not depend on who maps the memory, so that
\* the pairs of features say enough where there are many passes to run.
CheckedDevices ==
    {device \in Device : IF device.upscaling = "domain" THEN device.ubershader = device.discrete
                         ELSE ~(device.ubershader /\ device.discrete)}

ASSUME DeviceAssumption == Devices \subseteq Device
ASSUME NumAssumption == NumSyncStates \in Nat \ {0}
ASSUME BoundAssumption == {MaxPasses, MaxHostWrites, MaxScanouts} \subseteq Nat

VARIABLES
    caps,               \* the device
    cmd, count,         \* stream.cmd; number of commands so far
    indirect_dispatch_buffer,   \* it was created
    pending_render_passes, pending_render_passes_upscaled,
    page_to_pending_readback,   \* the page of the pixel is in it
    queue,              \* submitted, not executed
    memory,             \* what the resources hold
    written,            \* by whom, and which accesses see it
    host_rdram,         \* what the host sees, where it does not map RDRAM
    fences,             \* submissions that the host waits for: [number, copied, value]
    passes, host_writes, scanouts, uploaded,    \* history: counts, the last pass with uploads
    last                \* history: the last write to the pixel

pendings == <<pending_render_passes, pending_render_passes_upscaled, page_to_pending_readback>>
gpu == <<queue, memory, written>>
host == <<host_rdram, fences>>
history == <<passes, host_writes, scanouts, uploaded, last>>
recording == <<cmd, count, pendings>>
vars == <<caps, indirect_dispatch_buffer, recording, gpu, host, history>>

Upscaling == caps.upscaling # "none"
Ssaa == caps.upscaling = "ssaa"

Instance(index) == "instance" \o ToString(index)
Instances == {Instance(index) : index \in 0 .. NumSyncStates - 1}

\* Buffers that one dispatch fills for another.
WorkBuffers == {"span_setups", "tile_binning", "per_tile_offsets", "tile_work_list", "indirect",
                "shaded", "tmem", "tmem_instances"} \union Instances
Resource == WorkBuffers \union {"rdram", "write_mask", "staging_readback"}
                        \union {"reference", "multisampled", "sample_mask"}

\* What the indirect buffer holds besides the work of a pass; other buffers begin with Zero.
Zero == <<0, FALSE>>
Junk == <<0, TRUE>>
Stale == -1         \* not the last write

NoPass == [number |-> 0]
Accesses == {"shader_read", "shader_write", "indirect_read", "transfer_read", "transfer_write",
             "host_read"}

\* A write that everything submitted later sees.
HostWritten == [by |-> 0, access |-> "host_write", available |-> TRUE, visible |-> Accesses]

Init ==
    /\ caps \in Devices
    /\ cmd = {} /\ count = 0 /\ indirect_dispatch_buffer = FALSE
    /\ pending_render_passes = 0 /\ pending_render_passes_upscaled = 0
    /\ page_to_pending_readback = FALSE
    /\ queue = {}
    /\ memory = [r \in Resource |->
                     CASE r = "indirect" -> Junk
                       [] r \in {"tmem", "tmem_instances", "rdram", "reference",
                                 "staging_readback"} \union Instances -> 0
                       [] r \in {"write_mask", "sample_mask"} -> FALSE
                       [] r = "multisampled" -> [of |-> 0, scaled |-> FALSE]
                       [] OTHER -> Zero]
    /\ written = [r \in Resource |-> HostWritten]
    /\ host_rdram = 0 /\ fences = {}
    /\ passes = 0 /\ host_writes = 0 /\ scanouts = 0 /\ uploaded = 0
    /\ last = [write |-> 0, by |-> "host"]
-----------------------------------------------------------------------------
(* Commands.  A dispatch or a copy names its pass p, whether it is the     *)
(* upscaled one, and what a copy from the host brings.                     *)

Dispatch(op, p, up) == [op |-> op, pass |-> p, up |-> up, staged |-> 0, number |-> 0]
CopyIn(op, p, value) == [op |-> op, pass |-> p, up |-> FALSE, staged |-> value, number |-> 0]

Barrier(src, access, dst, visible) ==
    [op |-> "barrier", src |-> src, access |-> access, dst |-> dst, visible |-> visible,
     number |-> 0]

\* A barrier for what shaders have written so far.
ComputeBarrier(visible) == Barrier({"compute"}, {"shader_write"}, {"compute"}, visible)

If(condition, commands) == IF condition THEN commands ELSE <<>>

Numbered(commands, first) == {[commands[i] EXCEPT !.number = first + i] : i \in DOMAIN commands}

\* Pages that some readback has yet to bring to the host get a masked copy (mark_pages_for_gpu_read).
PendingWrites == page_to_pending_readback \/ \E f \in fences : f.copied

(* The dispatches of a pass p, the upscaled one or not; what they read is  *)
(* in Meant.                                                               *)
SpanSetupJobs(p, up) == Dispatch("span_setup", p, up)
TileBinningCombined(p, up) == Dispatch("tile_binning", p, up)
UpdateTmemInstances(p, up) == If(p.uploads, <<Dispatch("tmem_update", p, up)>>)
Rasterization(p, up) == Dispatch("rasterize", p, up)
RenderDepthBlend(p, up) == Dispatch("depth_blend", p, up)
UpdateUpscaledDomain(stage, p, up) == Dispatch(stage, p, up)
ClearSampleMask(p) == Dispatch("clear_sample_mask", p, TRUE)

\* Mutant: the counts stay for the next pass.
KeepIndirectBuffer(p) == <<>>

\* (clear_indirect_buffer)
ClearIndirectBuffer(p) == <<Dispatch("clear_indirect", p, FALSE)>>

(* ensure_command_buffer: the first one clears the indirect buffer. *)
EnsureCommandBuffer(p) ==
    If(~caps.ubershader /\ ~indirect_dispatch_buffer,
       <<Dispatch("clear_indirect", p, FALSE), ComputeBarrier({"shader_write", "shader_read"})>>)

(* resolve_coherency_host_to_gpu, where the host maps no RDRAM.            *)
ResolveHostToGpu(p) ==
    If(caps.discrete,
       IF PendingWrites
       THEN <<CopyIn("masked_copy", p, host_rdram), ComputeBarrier({"shader_read"})>>
       ELSE <<Dispatch("clear_write_mask", p, FALSE), ComputeBarrier({"shader_read"}),
              Barrier({"compute"}, {}, {"copy"}, {"transfer_write"}),
              CopyIn("copy", p, host_rdram),
              Barrier({"copy"}, {"transfer_write"}, {"compute"}, {"shader_read"})>>)

(* RenderBuffersUpdater::upload, where instances have a CPU copy.          *)
Upload(p) ==
    If(caps.discrete,
       <<Dispatch("upload", p, FALSE),
         Barrier({"copy"}, {"transfer_write"}, {"compute"}, {"shader_read"})>>)

\* Mutant: the indirect arguments are no shader's.
SetupBarrierNoIndirect == ComputeBarrier({"shader_read", "shader_write"})

\* The barrier after the first dispatches of a pass; dispatch_indirect reads the group counts.
SetupBarrier ==
    IF caps.ubershader
    THEN ComputeBarrier({"shader_read", "shader_write"})
    ELSE Barrier({"compute"}, {"shader_write"}, {"compute", "indirect"},
                 {"shader_read", "shader_write", "indirect_read"})

\* From the setup of a pass to its blending.
Shade(p, up) ==
    If(~caps.ubershader, <<Rasterization(p, up), ComputeBarrier({"shader_read"})>>)
        \o <<RenderDepthBlend(p, up)>>

(* submit_render_pass *)
RenderPass1x(p) ==
    If(p.jobs, <<SpanSetupJobs(p, FALSE), TileBinningCombined(p, FALSE)>>
                   \o If(Upscaling, <<UpdateUpscaledDomain("pre", p, FALSE)>>))
        \o UpdateTmemInstances(p, FALSE)
        \o <<SetupBarrier>>
        \o If(p.jobs, Shade(p, FALSE)) \o If(~caps.ubershader, ClearIndirectBuffer(p))
        \o If(p.scaled, <<ComputeBarrier({"shader_read", "shader_write"}),
                          UpdateUpscaledDomain("post", p, FALSE)>>)

(* submit_render_pass_upscaled *)
RenderPassUpscaled(p) ==
    <<SpanSetupJobs(p, TRUE), TileBinningCombined(p, TRUE)>>
        \o If(Ssaa, <<UpdateUpscaledDomain("pre", p, TRUE), ClearSampleMask(p)>>
                        \o UpdateTmemInstances(p, TRUE))
        \o <<SetupBarrier>>
        \o Shade(p, TRUE) \o If(~caps.ubershader, ClearIndirectBuffer(p))
        \o If(Ssaa, <<ComputeBarrier({"shader_read", "shader_write"}),
                      UpdateUpscaledDomain("resolve", p, TRUE)>>)

\* Mutant: no barrier, the next pass has its own.
RenderPassEndless == <<>>

(* submit_render_pass_end *)
RenderPassEnd == <<ComputeBarrier({"shader_read", "shader_write"})>>

(* vram_fetch_stage *)
VramFetch(p) ==
    If(Upscaling, <<UpdateUpscaledDomain("pre", p, FALSE), ComputeBarrier({"shader_read"})>>)
        \o <<Dispatch("extract", p, Upscaling), Barrier({"compute"}, {}, {"compute"}, {})>>

(* What submit_to_queue adds; visible: the host waits for it; copied: and  *)
(* gets a copy of the page (resolve_coherency_gpu_to_host).                *)
SubmitCommands(visible, copied, upscaled_too) ==
    LET need_memory_flush == visible /\ ~upscaled_too
        access == IF need_memory_flush THEN {"shader_write"} ELSE {}
    IN  <<IF caps.discrete THEN Barrier({"compute"}, access, {"copy"}, {"transfer_read"})
          ELSE Barrier({"compute"}, access, {"host"}, {"host_read"})>>
            \o If(copied,
                  <<Dispatch("readback", NoPass, FALSE),
                    Barrier({"copy"}, {"transfer_write"}, {"host", "compute"}, {"host_read"})>>)
-----------------------------------------------------------------------------
(* Recording.  It is out of the GPU's sight until it is submitted.         *)

(* submit_to_queue of the commands before and those in open, when singles  *)
(* and upscaled count what is pending, followed by the commands in rest,   *)
(* which stay in the next command buffer.                                  *)
SubmitToQueue(open, rest, singles, upscaled, page_pending, value) ==
    LET visible == (IF Ssaa THEN upscaled ELSE singles) # 0
        copied == visible /\ page_pending
        commands == open \o SubmitCommands(visible, copied, upscaled # 0)
        number == count + Len(commands)
    IN  /\ queue' = queue \union cmd \union Numbered(commands, count)
        /\ cmd' = Numbered(rest, number) /\ count' = number + Len(rest)
        /\ page_to_pending_readback' = (page_pending /\ ~visible)
        /\ fences' = fences \union IF visible
                                   THEN {[number |-> number, copied |-> copied, value |-> value]}
                                   ELSE {}

(* flush_queues.  The buffer instance is uploaded when no unfinished       *)
(* command uses it any more.  jobs: there are spans to draw; draws: the    *)
(* pixel is among what they cover; scaled: render_pass_is_upscaled.        *)
(* maintained: maintain_queues, whose heuristics may say yes or no at any  *)
(* time, submits between a 1x pass and its upscaled one.                   *)
FlushQueues(jobs, uploads, draws, scaled, maintained) ==
    LET after == IF draws
                 THEN [write |-> last.write + 1, by |-> IF scaled THEN "scaled" ELSE "single"]
                 ELSE last
        p == [number |-> passes + 1, inst |-> Instance(passes % NumSyncStates), jobs |-> jobs,
              uploads |-> uploads, scaled |-> scaled, before |-> last, after |-> after,
              loaded |-> uploaded]
        first == EnsureCommandBuffer(p) \o ResolveHostToGpu(p) \o Upload(p)
                     \o If(~Ssaa, RenderPass1x(p))
        second == If(scaled, RenderPassUpscaled(p)) \o RenderPassEnd
        singles == pending_render_passes + IF Ssaa THEN 0 ELSE 1
        page_pending == caps.discrete /\ (jobs \/ page_to_pending_readback)
    IN  /\ passes < MaxPasses
        /\ jobs \/ uploads
        /\ draws => jobs
        /\ scaled = (Ssaa \/ (scaled /\ Upscaling /\ jobs))
        /\ maintained => scaled /\ ~Ssaa
        /\ \A c \in cmd \union queue :
               c.op # "barrier" /\ c.pass.number > 0 => c.pass.inst # p.inst
        /\ IF maintained
           THEN /\ SubmitToQueue(first, second, singles, pending_render_passes_upscaled,
                                 page_pending, after.write)
                /\ pending_render_passes' = 0 /\ pending_render_passes_upscaled' = 1
           ELSE /\ cmd' = cmd \union Numbered(first \o second, count)
                /\ count' = count + Len(first \o second)
                /\ pending_render_passes' = singles
                /\ pending_render_passes_upscaled' =
                       pending_render_passes_upscaled + IF scaled THEN 1 ELSE 0
                /\ page_to_pending_readback' = page_pending
                /\ UNCHANGED <<queue, fences>>
        /\ indirect_dispatch_buffer' = ~caps.ubershader
        /\ IF caps.discrete THEN UNCHANGED <<memory, written>>
           ELSE /\ memory' = [memory EXCEPT ![p.inst] = p.number]
                /\ written' = [written EXCEPT ![p.inst] = HostWritten]
        /\ passes' = passes + 1 /\ last' = after
        /\ uploaded' = IF uploads THEN passes + 1 ELSE uploaded
        /\ UNCHANGED <<caps, host_rdram, host_writes, scanouts>>

(* maintain_queues at the end of flush_queues, when it submits, and        *)
(* flush_and_signal, when nothing is left to flush.                        *)
FlushAndSignal ==
    /\ cmd # {}
    /\ SubmitToQueue(<<>>, <<>>, pending_render_passes, pending_render_passes_upscaled,
                     page_to_pending_readback, last.write)
    /\ pending_render_passes' = 0 /\ pending_render_passes_upscaled' = 0
    /\ UNCHANGED <<caps, indirect_dispatch_buffer, memory, written, host_rdram, history>>

(* A frame is scanned out (resolve_coherency_external, vram_fetch_stage);  *)
(* all passes were submitted before.                                       *)
Scanout ==
    LET p == [number |-> 0, before |-> last]
        commands == If(caps.discrete, EnsureCommandBuffer(p)) \o ResolveHostToGpu(p)
                        \o VramFetch(p)
    IN  /\ cmd = {} /\ scanouts < MaxScanouts
        /\ queue' = queue \union Numbered(commands, count)
        /\ count' = count + Len(commands)
        /\ indirect_dispatch_buffer' =
               (indirect_dispatch_buffer \/ (caps.discrete /\ ~caps.ubershader))
        /\ scanouts' = scanouts + 1
        /\ UNCHANGED <<caps, cmd, pendings, memory, written, host, passes, host_writes, uploaded,
                       last>>

(* The host, which waited for everything, draws a pixel itself. *)
HostWrite ==
    /\ cmd = {} /\ queue = {} /\ fences = {} /\ host_writes < MaxHostWrites
    /\ last' = [write |-> last.write + 1, by |-> "host"]
    /\ host_writes' = host_writes + 1
    /\ IF caps.discrete
       THEN host_rdram' = last'.write /\ UNCHANGED <<memory, written>>
       ELSE /\ memory' = [memory EXCEPT !["rdram"] = last'.write]
            /\ written' = [written EXCEPT !["rdram"] = HostWritten]
            /\ UNCHANGED host_rdram
    /\ UNCHANGED <<caps, indirect_dispatch_buffer, recording, queue, fences, passes, scanouts,
                   uploaded>>
-----------------------------------------------------------------------------
(* What the commands do: the resources that they write, with the contents. *)

Draws(p) == p.after # p.before

\* The work that a dispatch belongs to.
Work(c) == <<c.pass.number, c.up>>

Nothing == <<>>

\* Tiles are counted with atomics, from what the indirect buffer holds.
TileBinning(c) ==
    [r \in {"tile_binning"} \union IF caps.ubershader THEN {}
                                   ELSE {"per_tile_offsets", "tile_work_list", "indirect"} |->
        IF r = "indirect" /\ memory[r] # Zero THEN Junk ELSE Work(c)]

TmemUpdate(c) == [r \in {"tmem", "tmem_instances"} |-> c.pass.number]

\* force_write_mask or a discrete device: the mask of what was drawn.
DepthBlend(c) ==
    IF ~Draws(c.pass) THEN Nothing
    ELSE IF c.up
    THEN ("multisampled" :> [of |-> c.pass.after.write, scaled |-> TRUE])
             @@ IF Ssaa THEN "sample_mask" :> TRUE ELSE Nothing
    ELSE ("rdram" :> c.pass.after.write)
             @@ IF caps.discrete THEN "write_mask" :> TRUE ELSE Nothing

(* update_upscaled_domain_pre.comp: where RDRAM has changed without the    *)
(* upscaled domain, all samples become what RDRAM holds.                   *)
UpdatePre(c) ==
    IF memory["rdram"] = memory["reference"] THEN Nothing
    ELSE ("multisampled" :> [of |-> memory["rdram"], scaled |-> FALSE])
             @@ ("reference" :> memory["rdram"])

(* update_upscaled_domain_post.comp *)
UpdatePost(c) == "reference" :> memory["rdram"]

(* update_upscaled_domain_resolve.comp *)
UpdateResolve(c) ==
    IF ~memory["sample_mask"] THEN Nothing
    ELSE [r \in {"rdram", "reference"} |-> memory["multisampled"].of]
             @@ IF caps.discrete THEN "write_mask" :> TRUE ELSE Nothing

(* masked_rdram_resolve.comp: what the GPU has drawn, and the host may not *)
(* have yet, stays.                                                        *)
MaskedCopy(c) == IF memory["write_mask"] THEN Nothing ELSE "rdram" :> c.staged

\* RDRAM and its mask are copied; masked_memcpy takes nothing where the mask is clear.
Readback(c) == "staging_readback" :> IF memory["write_mask"] THEN memory["rdram"] ELSE Stale

Effect(c) ==
    CASE c.op = "upload" -> c.pass.inst :> c.pass.number
      [] c.op = "span_setup" -> "span_setups" :> Work(c)
      [] c.op = "tile_binning" -> TileBinning(c)
      [] c.op = "tmem_update" -> TmemUpdate(c)
      [] c.op = "rasterize" -> "shaded" :> Work(c)
      [] c.op = "depth_blend" -> DepthBlend(c)
      [] c.op = "clear_indirect" -> "indirect" :> Zero
      [] c.op = "clear_sample_mask" -> "sample_mask" :> FALSE
      [] c.op = "pre" -> UpdatePre(c)
      [] c.op = "post" -> UpdatePost(c)
      [] c.op = "resolve" -> UpdateResolve(c)
      [] c.op = "clear_write_mask" -> "write_mask" :> FALSE
      [] c.op = "masked_copy" -> MaskedCopy(c)
      [] c.op = "copy" -> "rdram" :> c.staged
      [] c.op = "readback" -> Readback(c)
      [] c.op = "extract" -> Nothing
-----------------------------------------------------------------------------
(* The GPU and the worker that waits for fences. *)

Copies == {"upload", "copy", "readback"}
Stages(c) == CASE c.op \in Copies -> {"copy"}
               [] c.op = "rasterize" -> {"compute", "indirect"}
               [] OTHER -> {"compute"}

Barriers == {c \in queue : c.op = "barrier"}

\* Every command of a stage that they wait for, and every barrier before those, is through.
Retirable ==
    {b \in Barriers :
         \A c \in queue : c.number < b.number =>
             (IF c.op = "barrier" THEN c.dst ELSE Stages(c)) \intersect b.src = {}}

\* The commands that the GPU may execute next.
Executable ==
    {c \in queue \ Barriers :
         \A b \in Barriers : b.number < c.number => b.dst \intersect Stages(c) = {}}

(* A barrier takes effect: writes before it whose access it names, or that *)
(* were available, become visible to the accesses that it names.           *)
Retire ==
    \E b \in Retirable :
        /\ \A other \in Retirable : b.number <= other.number
        /\ queue' = queue \ {b}
        /\ written' = [r \in Resource |->
               LET w == written[r]
                   available == w.available \/ w.access \in b.access
               IN  IF w.by > b.number \/ ~available THEN w
                   ELSE [w EXCEPT !.available = TRUE, !.visible = @ \union b.visible]]
        /\ UNCHANGED <<caps, indirect_dispatch_buffer, recording, memory, host, history>>

Execute ==
    \E c \in Executable :
        /\ Retirable = {}       \* barriers take no time
        /\ queue' = queue \ {c}
        /\ memory' = Effect(c) @@ memory
        /\ written' = [r \in DOMAIN Effect(c) |->
                           [by |-> c.number,
                            access |-> IF c.op \in Copies THEN "transfer_write" ELSE "shader_write",
                            available |-> FALSE, visible |-> {}]] @@ written
        /\ UNCHANGED <<caps, indirect_dispatch_buffer, recording, host, history>>

\* The fences whose submissions are through, and none before them waits.
Signalled == {f \in fences : /\ \A c \in queue : c.number > f.number
                             /\ \A g \in fences : f.number <= g.number}

(* The worker sees a fence, and brings to the host what ResultsReachHost   *)
(* says is there.                                                          *)
FenceDone ==
    \E f \in Signalled :
        /\ fences' = fences \ {f}
        /\ host_rdram' = IF f.copied THEN f.value ELSE host_rdram
        /\ UNCHANGED <<caps, indirect_dispatch_buffer, recording, gpu, history>>
-----------------------------------------------------------------------------
Next ==
    \/ \E jobs, uploads, draws, scaled, maintained \in BOOLEAN :
           FlushQueues(jobs, uploads, draws, scaled, maintained)
    \/ FlushAndSignal \/ Scanout \/ HostWrite
    \/ Retire \/ Execute \/ FenceDone

Spec == Init /\ [][Next]_vars
-----------------------------------------------------------------------------
(* Properties. *)

\* tmem_instances, if the pass has uploads, else tmem.
TmemMeant(c) ==
    IF c.pass.uploads THEN "tmem_instances" :> c.pass.number ELSE "tmem" :> c.pass.loaded

SamplesMeant(write) == [of |-> write.write, scaled |-> write.by = "scaled"]

\* The buffers that a command reads, and what they are meant to hold then.
Meant(c) ==
    CASE c.op = "span_setup" -> c.pass.inst :> c.pass.number
      [] c.op = "tile_binning" ->
             (c.pass.inst :> c.pass.number)
                 @@ IF caps.ubershader THEN Nothing ELSE "indirect" :> Zero
      [] c.op = "tmem_update" -> ("rdram" :> c.pass.before.write) @@ ("tmem" :> c.pass.loaded)
      [] c.op = "rasterize" ->
             (c.pass.inst :> c.pass.number) @@ TmemMeant(c)
                 @@ [r \in {"span_setups", "tile_work_list", "indirect"} |-> Work(c)]
      [] c.op = "depth_blend" ->
             (c.pass.inst :> c.pass.number) @@ ("tile_binning" :> Work(c))
                 @@ (IF c.up THEN "multisampled" :> SamplesMeant(c.pass.before)
                     ELSE "rdram" :> c.pass.before.write)
                 @@ IF caps.ubershader THEN ("span_setups" :> Work(c)) @@ TmemMeant(c)
                    ELSE [r \in {"per_tile_offsets", "shaded"} |-> Work(c)]
      [] c.op = "pre" -> "rdram" :> c.pass.before.write
      [] c.op = "post" -> "rdram" :> c.pass.after.write
      [] c.op = "resolve" ->
             ("sample_mask" :> Draws(c.pass))
                 @@ IF Draws(c.pass) THEN "multisampled" :> SamplesMeant(c.pass.after) ELSE Nothing
      [] c.op = "extract" -> IF c.up THEN "multisampled" :> SamplesMeant(c.pass.before)
                             ELSE "rdram" :> c.pass.before.write
      [] OTHER -> Nothing

\* What else it reads, whatever that holds.
AlsoRead(c) ==
    CASE c.op = "pre" -> {"reference"}
      [] c.op \in {"masked_copy", "readback"} -> {"rdram", "write_mask"}
      [] OTHER -> {}

AccessOf(c, r) == CASE c.op = "rasterize" /\ r = "indirect" -> "indirect_read"
                    [] c.op \in Copies -> "transfer_read"
                    [] OTHER -> "shader_read"

\* A command that may execute sees the last write to everything that it reads: the barriers
\* before it name the access of the writer and its own.
WritesAreSeen ==
    \A c \in Executable : \A r \in DOMAIN Meant(c) \union AlsoRead(c) :
        AccessOf(c, r) \in written[r].visible

\* What a command reads is what its pass means it to read, whatever order the GPU takes: the
\* buffers between dispatches hold the work of this pass, neither overwritten by a later pass
\* or the upscaled one nor still missing, and counts of tiles begin at zero; RDRAM, to load
\* textures from, to blend with and to show, is as the writes before have left it, the host's
\* included, and loses none to an older copy of the host; and the samples follow RDRAM, at
\* full resolution if an upscaled pass has drawn them last.
PassesAreFed ==
    \A c \in Executable : \A r \in DOMAIN Meant(c) : memory[r] = Meant(c)[r]

\* When the host sees a fence signalled, what passes had drawn before it is where the host
\* reads, and visible to it, if nothing later has come on top.
ResultsReachHost ==
    \A f \in Signalled :
        LET r == IF caps.discrete THEN "staging_readback" ELSE "rdram"
        IN  \/ caps.discrete /\ ~f.copied
            \/ written[r].by > f.number
            \/ /\ "host_read" \in written[r].visible
               /\ \/ memory[r] = f.value
                  \/ caps.discrete /\ memory[r] = Stale /\ host_rdram = f.value
=============================================================================
