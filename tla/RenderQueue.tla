---------------------------- MODULE RenderQueue ----------------------------
(***************************************************************************)
(* How the Renderer (rdp_renderer.cpp) turns primitives into render passes *)
(* and render passes into GPU submissions.  Primitives are collected in    *)
(* the stream caches; flush_queues() uploads them to one of NumSyncStates  *)
(* buffer instances and records a render pass that reads the instance;     *)
(* maintain_queues() decides when the recorded passes are submitted.  An   *)
(* instance may be overwritten only when the GPU has finished the passes   *)
(* that read it, which internal_sync and sync_indices_needs_flush track.   *)
(*                                                                         *)
(* One thread at a time is inside the Renderer.  Its handlers are split    *)
(* where they read what the GPU or the timeline worker changes (a fence,   *)
(* active_submissions): phase is the place in the handler, then what       *)
(* follows the flush it is in.  The timeline worker appears as the FIFO of *)
(* fences that module TimelineWorker implements; active_submissions is its *)
(* length (TimelineWorker!SubmissionsExact).                               *)
(***************************************************************************)
EXTENDS Integers, Sequences, FiniteSets

CONSTANTS
    NumSyncStates,      \* buffer instances (Limits, 32)
    MaxPending,         \* MaxPendingRenderPassesBeforeFlush (8)
    MaxPrimitives,      \* capacity of the primitive caches (256)
    MinIdlePasses,      \* MinimumRenderPassesForIdleFlush (2)
    MinIdlePrimitives,  \* MinimumPrimitivesForIdleFlush (32)
    Modes,              \* configurations of the device: subsets of Caps
    MaxPasses,          \* bound: render passes
    MaxDraws,           \* bound: primitives
    MaxFlushes          \* bound: flush_and_signal calls

\* upscaling > 1, super_sample_readback, is_host_coherent; "unlimited" is a build whose
\* limit of pending passes is not below the number of instances: only such a build reaches
\* FlushForced (theorem NoSubmitInMidFlush).
Caps == {"upscaling", "ssaa", "coherent", "unlimited"}

ASSUME SizeAssumption ==
    /\ NumSyncStates \in Nat \ {0} /\ MaxPending \in Nat \ {0}
    /\ MaxPrimitives \in Nat \ {0}
    /\ MinIdlePasses \in Nat \ {0} /\ MinIdlePrimitives \in Nat \ {0}
    /\ \A c \in Modes : c \subseteq Caps /\ ("ssaa" \in c => "upscaling" \in c)
    /\ MaxPasses \in Nat /\ MaxDraws \in Nat /\ MaxFlushes \in Nat

VARIABLES
    caps,
    stream,                             \* what the stream caches hold
    scaled,                             \* should_render_upscaled() for fb
    phase, then,                        \* place in a handler, what follows
    pending_render_passes, pending_render_passes_upscaled,
    pending_primitives, pending_primitives_upscaled,
    buffer_instance, base_primitive_index,
    cmd, recorded,                      \* stream.cmd is open, its passes
    needs_flush,                        \* sync_indices_needs_flush
    sync_fence,                         \* internal_sync[i].fence, 0 if none
    locked,                             \* passes in page_to_pending_readback
    content,                            \* history: pass held by an instance
    submissions, gpu_done,              \* the queue of the GPU
    fences,                             \* fences given to the timeline worker
    passes, drawn, flushes              \* history: passes, primitives, calls

pendings == <<pending_render_passes, pending_render_passes_upscaled,
              pending_primitives, pending_primitives_upscaled>>
sync == <<needs_flush, sync_fence>>
command == <<cmd, recorded>>
gpu == <<submissions, gpu_done>>
history == <<passes, drawn, flushes>>
vars == <<caps, stream, scaled, phase, then, pendings, buffer_instance,
          base_primitive_index, command, sync, locked, content, gpu, fences, history>>

Instance == 0 .. NumSyncStates - 1

Empty == [triangles |-> 0, jobs |-> FALSE, uploads |-> FALSE]

\* A render pass as the GPU sees it: the instance it reads, and whether it
\* writes RDRAM that the host can see.
Read == [pass : Nat, inst : Instance, visible : BOOLEAN]

Phase == {"idle", "upload", "framebuffer", "submit", "external", "flush", "forced", "wait",
          "single", "between", "upscaled", "end", "maintain"}
Continuation == {"idle", "upload", "framebuffer", "submit", "external"}

Upscaling == "upscaling" \in caps
Ssaa == "ssaa" \in caps
Incoherent == "coherent" \notin caps
Limited == "unlimited" \notin caps

Visible(reads) == \E r \in reads : r.visible

\* flush_queues() returns to its caller.
Return == IF then = "external" THEN phase' = "submit" /\ UNCHANGED then
                               ELSE phase' = then /\ then' = "idle"
-----------------------------------------------------------------------------
Init ==
    /\ caps \in Modes
    /\ stream = Empty /\ scaled \in BOOLEAN
    /\ phase = "idle" /\ then = "idle"
    /\ pending_render_passes = 0 /\ pending_render_passes_upscaled = 0
    /\ pending_primitives = 0 /\ pending_primitives_upscaled = 0
    /\ buffer_instance = 0 /\ base_primitive_index = 0
    /\ cmd = FALSE /\ recorded = {}
    /\ needs_flush = {} /\ sync_fence = [i \in Instance |-> 0]
    /\ locked = {} /\ content = [i \in Instance |-> 0]
    /\ submissions = <<>> /\ gpu_done = 0 /\ fences = <<>>
    /\ passes = 0 /\ drawn = 0 /\ flushes = 0
-----------------------------------------------------------------------------
(* Submission. *)

\* Passes whose results the host can see are counted here.
HostVisible == IF Ssaa THEN pending_render_passes_upscaled ELSE pending_render_passes

(* submit_to_queue.  Nobody reads the fence or active_submissions between  *)
(* the submission and the end of the function: it is one step.             *)
SubmitToQueue ==
    LET visible == HostVisible # 0
        f == Len(submissions) + 1
        copied == IF visible /\ cmd /\ Incoherent THEN locked ELSE {}
    IN
    /\ pending_render_passes' = 0 /\ pending_render_passes_upscaled' = 0
    /\ pending_primitives' = 0 /\ pending_primitives_upscaled' = 0
    /\ submissions' = IF cmd \/ visible
                      THEN Append(submissions, [reads |-> recorded, copied |-> copied,
                                                fenced |-> visible])
                      ELSE submissions
    /\ fences' = IF visible THEN Append(fences, f) ELSE fences
    /\ locked' = locked \ copied
    /\ sync_fence' = [i \in Instance |-> IF cmd /\ i \in needs_flush THEN f ELSE sync_fence[i]]
    /\ needs_flush' = IF cmd THEN {} ELSE needs_flush
    /\ cmd' = FALSE /\ recorded' = {}
    /\ UNCHANGED <<caps, stream, scaled, buffer_instance, base_primitive_index, content,
                   gpu_done, history>>

(* maintain_queues; the other reason to submit is that 1 ms has passed     *)
(* since the last submission.                                              *)
\* Mutant: no limit to the passes that pend.
MustSubmitPrimitives ==
    \/ pending_primitives >= MaxPrimitives \/ pending_primitives_upscaled >= MaxPrimitives
    \/ fences = <<>>

MustSubmit ==
    \/ Limited /\ pending_render_passes >= MaxPending
    \/ Limited /\ Ssaa /\ pending_render_passes_upscaled >= MaxPending
    \/ pending_primitives >= MaxPrimitives \/ pending_primitives_upscaled >= MaxPrimitives
    \/ fences = <<>>

Maintained == \/ phase = "between" /\ phase' = "upscaled" /\ UNCHANGED then
              \/ phase = "maintain" /\ Return

MaintainSubmit ==
    /\ Maintained
    /\ SubmitToQueue

MaintainSkip ==
    /\ ~MustSubmit
    /\ Maintained
    /\ UNCHANGED <<caps, stream, scaled, pendings, buffer_instance, base_primitive_index,
                   command, sync, locked, content, gpu, fences, history>>

(* The end of flush_and_signal and of maintain_queues_idle. *)
SubmitFlushed ==
    /\ phase = "submit" /\ phase' = IF then = "external" THEN "external" ELSE "idle"
    /\ then' = "idle"
    /\ SubmitToQueue

(* resolve_coherency_external, which scanout() calls after flush_and_signal. *)
ResolveExternal ==
    /\ phase = "external" /\ phase' = "idle"
    /\ submissions' = Append(submissions, [reads |-> recorded, copied |-> {}, fenced |-> FALSE])
    /\ cmd' = FALSE /\ recorded' = {}
    /\ UNCHANGED <<caps, stream, scaled, then, pendings, buffer_instance, base_primitive_index,
                   sync, locked, content, gpu_done, fences, history>>
-----------------------------------------------------------------------------
(* flush_queues *)

\* Mutant: culled primitives are not numbered.
FlushEmptyUnnumbered ==
    /\ phase = "flush" /\ ~stream.jobs /\ ~stream.uploads
    /\ stream' = Empty
    /\ Return
    /\ UNCHANGED <<caps, scaled, pendings, buffer_instance, base_primitive_index, command, sync,
                   locked, content, gpu, fences, history>>

FlushEmpty ==
    /\ phase = "flush" /\ ~stream.jobs /\ ~stream.uploads
    /\ base_primitive_index' = base_primitive_index + stream.triangles
    /\ stream' = Empty
    /\ Return
    /\ UNCHANGED <<caps, scaled, pendings, buffer_instance, command, sync, locked,
                   content, gpu, fences, history>>

FlushLock ==
    /\ phase = "flush" /\ (stream.jobs \/ stream.uploads)
    /\ locked' = IF Incoherent THEN locked \union {passes + 1} ELSE locked
    /\ phase' = IF buffer_instance \in needs_flush THEN "forced" ELSE "wait"
    /\ UNCHANGED <<caps, stream, scaled, then, pendings, buffer_instance, base_primitive_index,
                   command, sync, content, gpu, fences, history>>

(* The instance has not even been submitted since it was used last. *)
FlushForced ==
    /\ phase = "forced" /\ phase' = "wait" /\ UNCHANGED then
    /\ SubmitToQueue

\* Mutant: the fence is not waited for.
InstanceFreeAlways == TRUE
InstanceFree == sync_fence[buffer_instance] <= gpu_done

(* The fence of the instance has signalled: overwrite it. *)
FlushUpload ==
    /\ phase = "wait" /\ InstanceFree
    /\ needs_flush' = needs_flush \union {buffer_instance}
    /\ sync_fence' = [sync_fence EXCEPT ![buffer_instance] = 0]
    /\ cmd' = TRUE
    /\ content' = [content EXCEPT ![buffer_instance] = passes + 1]
    /\ phase' = IF Ssaa THEN "upscaled" ELSE "single"
    /\ UNCHANGED <<caps, stream, scaled, then, pendings, buffer_instance, base_primitive_index,
                   recorded, locked, gpu, fences, history>>

Record(visible) ==
    recorded' = recorded \union {[pass |-> passes + 1, inst |-> buffer_instance,
                                  visible |-> visible]}

(* submit_render_pass; render_pass_is_upscaled() decides what follows. *)
RenderSingle ==
    /\ phase = "single"
    /\ Record(TRUE)
    /\ pending_render_passes' = pending_render_passes + 1
    /\ phase' = IF Upscaling /\ scaled /\ stream.jobs THEN "between" ELSE "end"
    /\ UNCHANGED <<caps, stream, scaled, then, pending_render_passes_upscaled,
                   pending_primitives, pending_primitives_upscaled, buffer_instance,
                   base_primitive_index, cmd, sync, locked, content, gpu, fences, history>>

(* submit_render_pass_upscaled; the instance is read once more, maybe from *)
(* a new command buffer.                                                   *)
RenderUpscaled ==
    /\ phase = "upscaled" /\ phase' = "end"
    /\ cmd' = TRUE
    /\ Record(Ssaa)
    /\ needs_flush' = needs_flush \union {buffer_instance}
    /\ pending_render_passes_upscaled' = pending_render_passes_upscaled + 1
    /\ pending_primitives_upscaled' = pending_primitives_upscaled + stream.triangles
    /\ UNCHANGED <<caps, stream, scaled, then, pending_render_passes, pending_primitives,
                   buffer_instance, base_primitive_index, sync_fence, locked, content, gpu,
                   fences, history>>

NextInstance == (buffer_instance + 1) % NumSyncStates

(* submit_render_pass_end and begin_new_context *)
EndPass ==
    /\ phase = "end" /\ phase' = "maintain"
    /\ base_primitive_index' = base_primitive_index + stream.triangles
    /\ buffer_instance' = NextInstance
    /\ stream' = Empty
    /\ passes' = passes + 1
    /\ UNCHANGED <<caps, scaled, then, pendings, command, sync, locked, content, gpu, fences,
                   drawn, flushes>>
-----------------------------------------------------------------------------
(* The operations that flush. *)

Flush(next) == phase' = "flush" /\ then' = next

(* draw_shaded_primitive; need_flush() may hold before all MaxPrimitives   *)
(* are there, when another cache is full.  The scissor may leave no jobs.  *)
Draw(jobs, full) ==
    /\ phase = "idle" /\ passes < MaxPasses /\ drawn < MaxDraws
    /\ stream' = [stream EXCEPT !.triangles = @ + 1, !.jobs = @ \/ jobs]
    /\ pending_primitives' = pending_primitives + 1
    /\ drawn' = drawn + 1
    /\ IF full \/ stream.triangles + 1 = MaxPrimitives
       THEN Flush("idle") ELSE UNCHANGED <<phase, then>>
    /\ UNCHANGED <<caps, scaled, pending_render_passes, pending_render_passes_upscaled,
                   pending_primitives_upscaled, buffer_instance, base_primitive_index, command,
                   sync, locked, content, gpu, fences, passes, flushes>>

(* load_tile: tmem_upload_needs_flush() is true only if a primitive may    *)
(* have written what is fetched; an empty tile returns after the flush.    *)
LoadTile ==
    /\ phase = "idle" /\ passes + 1 < MaxPasses
    /\ \/ stream.triangles > 0 /\ (Flush("upload") \/ Flush("idle"))
       \/ phase' = "upload" /\ UNCHANGED then
    /\ UNCHANGED <<caps, stream, scaled, pendings, buffer_instance, base_primitive_index,
                   command, sync, locked, content, gpu, fences, history>>

(* The end of load_tile_iteration; full when the last TMEM instance is used. *)
AddUpload(full) ==
    /\ phase = "upload"
    /\ stream' = [stream EXCEPT !.uploads = TRUE]
    /\ IF full THEN Flush("idle") ELSE phase' = "idle" /\ UNCHANGED then
    /\ UNCHANGED <<caps, scaled, pendings, buffer_instance, base_primitive_index, command, sync,
                   locked, content, gpu, fences, history>>

(* set_color_framebuffer and set_depth_framebuffer *)
SetFramebuffer ==
    /\ phase = "idle" /\ passes < MaxPasses
    /\ Flush("framebuffer")
    /\ UNCHANGED <<caps, stream, scaled, pendings, buffer_instance, base_primitive_index,
                   command, sync, locked, content, gpu, fences, history>>

BindFramebuffer ==
    /\ phase = "framebuffer" /\ phase' = "idle"
    /\ scaled' \in BOOLEAN
    /\ UNCHANGED <<caps, stream, then, pendings, buffer_instance, base_primitive_index, command,
                   sync, locked, content, gpu, fences, history>>

(* flush_and_signal, on its own or as the first half of scanout(). *)
FlushAndSignal ==
    /\ phase = "idle" /\ flushes < MaxFlushes
    /\ \/ Flush("submit")
       \/ Incoherent /\ Flush("external")
    /\ flushes' = flushes + 1
    /\ UNCHANGED <<caps, stream, scaled, pendings, buffer_instance, base_primitive_index,
                   command, sync, locked, content, gpu, fences, passes, drawn>>

\* Mutant: only primitives count.
IdleEnoughPrimitives == pending_primitives >= MinIdlePrimitives
IdleEnough == \/ pending_primitives >= MinIdlePrimitives
              \/ pending_render_passes >= MinIdlePasses

(* maintain_queues_idle, when the command ring has been empty for 500 us. *)
MaintainIdle ==
    /\ phase = "idle"
    /\ IdleEnough
    /\ Flush("submit")
    /\ UNCHANGED <<caps, stream, scaled, pendings, buffer_instance, base_primitive_index,
                   command, sync, locked, content, gpu, fences, history>>
-----------------------------------------------------------------------------
(* The GPU completes the next submission. *)
Complete ==
    /\ gpu_done < Len(submissions)
    /\ gpu_done' = gpu_done + 1
    /\ UNCHANGED <<caps, stream, scaled, phase, then, pendings, buffer_instance,
                   base_primitive_index, command, sync, locked, content, submissions, fences,
                   history>>

(* The timeline worker has waited for the next fence: active_submissions--. *)
Release ==
    /\ fences # <<>> /\ Head(fences) <= gpu_done
    /\ fences' = Tail(fences)
    /\ UNCHANGED <<caps, stream, scaled, phase, then, pendings, buffer_instance,
                   base_primitive_index, command, sync, locked, content, gpu, history>>

Handler ==
    \/ MaintainSubmit \/ MaintainSkip \/ SubmitFlushed \/ ResolveExternal
    \/ FlushEmpty \/ FlushLock \/ FlushForced \/ FlushUpload
    \/ RenderSingle \/ RenderUpscaled \/ EndPass
    \/ (\E full \in BOOLEAN : AddUpload(full)) \/ BindFramebuffer

\* What arrives through the command ring, and scanout().
Command ==
    \/ \E jobs, full \in BOOLEAN : Draw(jobs, full)
    \/ LoadTile \/ SetFramebuffer \/ FlushAndSignal

Next ==
    \/ Handler \/ Command \/ MaintainIdle
    \/ Complete \/ Release

Spec == Init /\ [][Next]_vars

\* A handler that was entered runs on, the ring thread times out when no
\* command comes, the GPU and the timeline worker make progress.
FairSpec == Spec /\ WF_vars(Handler) /\ WF_vars(MaintainIdle) /\ WF_vars(Complete)
                 /\ WF_vars(Release)
-----------------------------------------------------------------------------
(* Types. *)
TypeOK ==
    /\ caps \in Modes
    /\ stream \in [triangles : Nat, jobs : BOOLEAN, uploads : BOOLEAN]
    /\ scaled \in BOOLEAN /\ phase \in Phase /\ then \in Continuation
    /\ pending_render_passes \in Nat /\ pending_render_passes_upscaled \in Nat
    /\ pending_primitives \in Nat /\ pending_primitives_upscaled \in Nat
    /\ buffer_instance \in Instance /\ base_primitive_index \in Nat
    /\ cmd \in BOOLEAN /\ recorded \in SUBSET Read
    /\ needs_flush \subseteq Instance /\ sync_fence \in [Instance -> Nat]
    /\ locked \in SUBSET Nat /\ content \in [Instance -> Nat]
    /\ submissions \in Seq([reads : SUBSET Read, copied : SUBSET Nat, fenced : BOOLEAN])
    /\ gpu_done \in Nat /\ fences \in Seq(Nat)
    /\ passes \in Nat /\ drawn \in Nat /\ flushes \in Nat

(* An instance is never overwritten while a pass that was recorded or      *)
(* submitted, and is not finished, still reads it.                         *)
InstanceStable ==
    /\ \A r \in recorded : content[r.inst] = r.pass
    /\ \A s \in gpu_done + 1 .. Len(submissions) :
           \A r \in submissions[s].reads : content[r.inst] = r.pass

\* Pass p is in the open command buffer, or in a submission.
OnRecord(p) == \/ \E r \in recorded : r.pass = p /\ r.visible
               \/ \E s \in 1 .. Len(submissions) :
                      \E r \in submissions[s].reads : r.pass = p /\ r.visible

(* No pass that was flushed is dropped, and passes are recorded only in an *)
(* open command buffer.                                                    *)
NoPassLost == /\ \A p \in 1 .. passes : OnRecord(p)
              /\ recorded # {} => cmd

(* The counter of host visible passes is non-zero exactly when the open    *)
(* command buffer holds one: the branch of submit_to_queue for a counter   *)
(* without a command buffer is never needed.                               *)
PendingExact == (HostVisible # 0) <=> Visible(recorded)

(* Every submission whose results the host can see has its fence waited    *)
(* for by the timeline worker, so that a later timeline signal covers it.  *)
VisibleIsFenced ==
    \A s \in 1 .. Len(submissions) : Visible(submissions[s].reads) => submissions[s].fenced

(* With incoherent RDRAM the pages of a pass are copied back by the very   *)
(* submission that holds the pass: a copy by an earlier one would give the *)
(* host old contents and forget the new.                                   *)
CopiedWithPass ==
    Incoherent =>
        \A s \in 1 .. Len(submissions) :
            \A r \in submissions[s].reads : r.visible => r.pass \in submissions[s].copied

(* The fence that protects an instance is the one of the last submission   *)
(* that reads it, unless that is still to be submitted.                    *)
LastReader(i) == {s \in 1 .. Len(submissions) : \E r \in submissions[s].reads :
                      r.inst = i /\ r.pass = content[i]}
FenceProtects ==
    \A i \in Instance :
        /\ sync_fence[i] <= Len(submissions)
        /\ \A s \in LastReader(i) : \/ s <= gpu_done \/ s <= sync_fence[i]
        /\ i \notin needs_flush => \A r \in recorded : r.inst # i

(* The current instance is never waiting for a submission when a new pass  *)
(* begins; forcing one there would copy the pages of the new pass back too *)
(* early.  NumSyncStates must exceed the number of passes that may pend.   *)
NeverForced == phase # "forced"

(* The index of a primitive in the noise seed counts every primitive once, *)
(* also those of culled and of upscaled passes.                            *)
PrimitiveIndexExact == base_primitive_index + stream.triangles = drawn

(* When flush_and_signal has returned nothing is left behind: what is      *)
(* signalled next on the timeline covers every primitive drawn before.     *)
FlushLeavesNothing ==
    [][phase = "submit" /\ phase' # "submit" =>
           /\ base_primitive_index' = drawn' /\ recorded' = {} /\ ~cmd'
           /\ needs_flush' = {} /\ HostVisible' = 0 /\ locked' = {}]_vars

(* When commands stop to arrive, the render passes that pend are submitted *)
(* although nobody asks for it.                                            *)
IdleWorkSubmitted ==
    <>[][~Command]_vars =>
        (pending_render_passes >= MinIdlePasses ~> pending_render_passes < MinIdlePasses)
=============================================================================
