# A verification development for paraLLEl-RDP

TLA+ specifications of the parts of paraLLEl-RDP that are hard to test — the
threads, queues, fences, caches and counters between an emulator's call and the
pixels in RDRAM, and the algorithms on the way — with TLC configurations that
check them on small instances and proofs, checked by TLAPS, of what matters most
for every size.

File names below are relative to `parallel-rdp/` in the repository unless they
start with a directory.

## 1. The system

An emulator hands N64 RDP commands to a `CommandProcessor`; they are executed on
another thread, turned into Vulkan compute work, and their results must appear
in RDRAM by the time the emulator is told so. A frame is shown from RDRAM by the
video interface. All of it can be recorded in a dump and replayed.

| Component | State | Operations | Interacts with |
|---|---|---|---|
| Command ring (`command_ring.*`) | array of words, `write_count`, `read_count`, `completed_count`, one mutex, one condition variable | `init`, `enqueue_command`, `drain`, destructor, `thread_loop` | called by the API thread; its thread calls `enqueue_command_direct` of the command processor |
| Timeline worker (`worker_thread.hpp`, `FenceExecutor` in `rdp_device.cpp`) | queue of `CoherencyOperation`s, `thread_timeline_value`, two mutexes, two condition variables | `push`, `wait`, destructor, `main_loop` (`perform_work`, `notify_work_locked`) | fed by whoever is in the renderer; lowers `active_submissions` and `pending_writes_for_page` of the renderer; writes host RDRAM |
| Render queue (`rdp_renderer.*`) | open command buffer, 32 buffer instances with fences, `sync_indices_needs_flush`, counters of pending passes and primitives | `flush_queues`, `maintain_queues(_idle)`, `submit_to_queue`, `flush_and_signal`, `resolve_coherency_external` | the GPU (submissions, fences), the timeline worker, the stream caches |
| Render pass recording (`rdp_renderer.cpp`) | the command buffer | `submit_render_pass(_upscaled)` and their dispatches and barriers | called by the render queue |
| Stream caches (`rdp_data_structures.hpp`, `rdp_renderer.cpp`) | deduplicating caches of states, streams of primitives, span jobs, TMEM uploads | `draw_shaded_primitive`, `load_tile_iteration`, `need_flush`, `reset_context` | uploaded to a buffer instance by `flush_queues` |
| Command processor (`rdp_device.*`) | `timeline_value`, dump state, owns all of the above | the public API, `enqueue_command_direct` | everything |
| Command decoding (`rdp_device.cpp`) | static state, scissor, texture image | `op_*`, `decode_*` | tells the renderer |
| Page coherency (`rdp_renderer.cpp`, `rdp_device.cpp`) | bitmaps per page, `pending_writes_for_page`, staging buffers | `mark_pages_for_gpu_read`, `lock_pages_for_gpu_write`, `resolve_coherency_*`, `masked_memcpy` | render queue, timeline worker, host memory |
| TMEM upload (`rdp_renderer.cpp`, `shaders/tmem_update.comp`) | `tiles[8]`, upload infos, TMEM | `load_tile`, `load_tile_iteration`, `tmem_upload_needs_flush`, the gather of the shader | render queue, page coherency |
| State analysis (`rdp_renderer.cpp`) | none | combiner, blender and texture state normalisation, noise | stream caches, shaders |
| Setup, binning, order (`rdp_renderer.cpp`, `shaders/`) | tile bitmasks, instance offsets | `fixup_triangle_setup`, `allocate_span_jobs`, `update_deduced_height`, span setup, binning, tile work | stream caches, pixel shaders |
| Pixel shaders (`shaders/`) | TMEM instances, frame buffer | texel addresses, filters, depth, coverage, blending, formats | run by the GPU |
| Pipeline worker (`rdp_renderer.cpp`, `worker_thread.hpp`) | pipelines being compiled | `PipelineExecutor` | `submit_rasterization`, `submit_depth_blend` |
| Video interface (`video_interface.*`, `shaders/`) | VI registers, per-scanline registers, the image of the last frame, frame counters | `scanout`, `latch_vi_register_for_scanline`, `decode_vi_registers`, `scanout_memory_range`, the image stages | reads VRAM after `flush_and_signal` |
| Dump writer, player and tools (`rdp_dump_write.cpp`, `../rdp_dump.cpp`, `../rdp_validate_dump.cpp`, `../rdp_replayer.cpp`) | last RDRAM image, file; position, caches | `flush_dram`, `emit_command`, `signal_complete`, `end_frame`; `load_dump`, `iterate`, `rewind` | command processor; a reference renderer beside this one |
| Command builder (`../rdp_command_builder.cpp`, `../triangle_converter.cpp`) | modes, dirty flags | one method per command | makes the lists that conformance tests run |
| Tools, tests, examples (`../*.cpp`) | | | clients of the API |

What is hard here: three host threads and a GPU without a common lock; two
condition variables shared by waiters with different conditions, always notified
with `notify_one`; counters read by one thread and lowered by another; buffers
reused after a fixed number of passes; heuristics that may submit in the middle
of another operation; callbacks of an idle thread that touch the renderer;
destruction in an order that matters; results of passes that are gathered where the
hardware scatters; primitives shaded tile by tile, out of order, and blended in
order; values that wrap around, saturate and alias as the hardware's do. What persists
is the dump: the emulator may crash at any point of it, and a reader must cope. There
is no network: message loss does not arise.

What makes each component correct:

- *Ring*: what is executed is what was enqueued, in that order; `drain` returns
  only when all of it has been executed; no wakeup is lost; teardown loses nothing.
- *Timeline worker*: a value becomes visible only after everything pushed before
  its signal is finished; its counters are exact; waiting ends.
- *Render queue*: a buffer is never overwritten under the GPU; no pass is lost;
  what the host can see is fenced, and copied back with its pass.
- *Render passes*: a dispatch sees, in every buffer that it reads, what its own pass has put there; RDRAM, its
  upscaled samples and the host's copy follow each other.
- *Stream caches*: no array overflows; the indices of a primitive lead to its state.
- *Command processor*: one thread at a time in the renderer; a signal covers all
  that was enqueued before it; destruction is safe.
- *Decoding and builder*: the renderer is told what the builder was asked, each
  field with its width and sign, whatever the fields beside it and earlier commands hold.
- *Page coherency*: passes find what was last written, whichever side wrote it, and so
  does the host once it has waited. Staging slots are not reused too early.
- *TMEM upload*: gathering gives every word of TMEM what scattering would; the pages
  that are read were marked; a load that reads a frame buffer not yet written flushes.
- *State analysis*: what is left out of a state was not needed by the pixels drawn with it.
- *Setup, binning, order*: a covered pixel is shaded, in every tile and slice; primitives are
  blended in the order in which they were drawn.
- *Pixel shaders*: a texel is read from where the format keeps it; a pixel's depth, coverage and
  colour are what the previous passes left, in the format of the frame buffer.
- *Video interface*: a row is shown with the registers of its line; an image of an earlier
  frame is used in the layout and from the owner it has, and only while it is recent; no stage
  reads outside the image before it or outside the memory that was announced; a crop is a window.
- *Dump*: a replay is given the memory that was recorded and does with it what the device did; the
  validator passes only complete dumps without a difference.

## 2. Modules

Three kinds. *Machines* have one action per critical section, handler or step.
*Algorithm modules* hold pure operators: the code's algorithm beside its
reference definition. *Job modules* feed an algorithm module inputs: their one
variable `job` is an input chosen in `Init`, then the code's result for it, so
that each input and each result is a state and a property relates the two.

| Module | Kind | Models | Composed of / used by |
|---|---|---|---|
| `WorkFifo` | abstract machine | the promise of both worker threads: an unbounded FIFO, drain and close | refined by `CommandRing`, `TimelineWorker` |
| `CommandRing` | machine | `command_ring.cpp`, whole | instantiates `WorkFifo` |
| `TimelineWorker` | machine | `worker_thread.hpp` and the `FenceExecutor` with what feeds it | instantiates `WorkFifo` |
| `RenderQueue` | machine | flushing, maintaining and submitting in `rdp_renderer.cpp` | uses the worker as a FIFO of fences |
| `RenderPass` | machine | what passes, submissions and scanout record, executed by a GPU that keeps to the barriers only | buffers that `RenderQueue` hands out |
| `StreamCaches` | machine | caches and their limits | `Primitives`, which runs it beside its jobs |
| `Coherency` | machine | the two copies of RDRAM: pages marked, staged, masked, read back | queue, passes and worker reduced to what touches memory |
| `CommandProcessor` | machine | the public API over all threads | the parts appear as what their modules show of them |
| `DumpReplay` | machine | dump writer, its crash, player, validator and viewer | the device as its memories |
| `ScanlineRegisters` | machine | VI registers that change from line to line, and the rows they reach | `VideoInterface` |
| `ScanoutImages` | machine | `scanout` from frame to frame: the image that is shown, kept, read | `VideoInterface` |
| `ViGeometry`, `ScanoutStages` | algorithms | decoded registers; the memory a frame reads, the stages from VRAM to picture | `VideoInterface` |
| `VideoInterface` | composition, jobs | the three parts of the VI side by side | run `vi` |
| `Bits` | algorithms | words as integers or sets of bits | the modules below |
| `TmemUpload` | algorithms | `load_tile`, its splitting, upload infos, the shader's gather | `Texels` |
| `TextureFetch` | algorithms | texel coordinates and addresses, formats, filters | `Texels` |
| `StaticState` | algorithms | deduced and normalised state | `Pixels` |
| `DepthBlend` | algorithms | depth, coverage, blending, framebuffer formats | `Fragments` |
| `Commands` | algorithms | the builder and the decoder | `Encodings` |
| `Rasterization` | algorithms | setup, spans, binning, order of blending | `Primitives` |
| `StagingReadback` | algorithms | the ring of staging pages | `Primitives` |
| `Texels`, `Pixels`, `Fragments`, `Encodings`, `Primitives` | jobs | inputs of these; each extends the one before | run `primitives` |
| `CommandRing_proofs`, `TimelineWorker_proofs`, `RenderQueue_proofs`, `Primitives_proofs`, `VideoInterface_proofs`, `CommandProcessor_proofs`, `Coherency_proofs`, `DumpReplay_proofs` | proofs | theorems | extend their modules and TLAPS |

### CommandRing

One action per critical section of `lock`. `waiting` is the set of threads
blocked in `cond`; `NotifyOne` removes any one of them, `Spurious` models
spurious wakeups, `RingTimeout` the 500 µs of `wait_for` (it may fire at any time
while the thread waits, and then `wait_for` looks at its predicate once more:
phase `expired`). The array holds headers and payload words as the code's does,
indexed modulo `Size`; the counters are unbounded (64 bits in the code). `arg`
is the command a caller is enqueueing, the empty sequence being the sentinel of
`teardown_thread`. `sent`, `taken` and `executed` are history. A caller may
destroy or re-initialise the ring only when no other is inside a method, as C++
requires of any object.

Not reset by `init`: `completed_count`. Properties about it are stated for
`inits <= 1`; the code's only call of `init` is in the constructor of
`CommandProcessor`.

### TimelineWorker

The feeder — the thread that happens to be inside the renderer, or the API
thread — pushes a fence operation, then the copies, then later signals;
`active_submissions` and `pending_writes` are the atomics it shares with the
worker. `CopyPage` copies one page and lowers its counter; the pages of one
operation are copied in any order. The GPU completes submissions in order, one
queue being used for them. `wait_for_timeline` sleeps in `to_main_cond`.

### RenderQueue

The handlers of the renderer are split into actions where they read what another
thread or the GPU changes: `phase` is the place in the handler, `then` what
follows the flush. `submit_to_queue` is one action (nobody reads what it changes
before it ends). `MaintainSubmit` may always happen, since one of the code's
conditions is that 1 ms has passed; `MaintainSkip` has the negation of the other
conditions as its guard. A pass carries the number of the pass and the instance it reads, so that
overwriting an instance under the GPU is visible. Pages are abstracted to the
pass that locked them. The device's configurations (`upscaling`, super-sampled
read-back, host-coherent RDRAM) are chosen in `Init`, from `Modes`. "unlimited" is a build whose limit of
pending passes is not below the number of instances, so that a flush has to
submit before it starts (`FlushForced`); with the code's 8 and 32 that is proved not to happen.

### RenderPass

The commands that the renderer records — uploads, dispatches, copies, barriers — go into one `queue`, numbered in the
order of submission; a GPU executes any command that no barrier before it holds back (`Executable`), so that two dispatches without a
barrier run in either order. A barrier retires when all that its source stages name is through, and then makes the writes whose access
it names visible to the accesses it names (`Retire`); a write that was made available once stays so. `written` is
who wrote a resource last and who sees it, `memory` what it holds: the pass whose work it is, for the buffers between dispatches; the last
write to the frame buffer, for RDRAM and its copies; the write and the resolution, for the samples of the upscaled domain. `Meant` says
what a command reads and what that should be.

`flush_queues` is one action, `FlushQueues(jobs, uploads, draws, scaled, maintained)`: what it records is seen by nobody
before it is submitted, and `maintained` says which of the two `maintain_queues` submit. Whether an instance is free is the subject of `RenderQueue`; here
a flush waits for the commands that read it. The features of a device (ubershader, upscaling, super-sampling, a discrete GPU that
copies buffers and RDRAM) are a record; `CheckedDevices` pairs them, since all combinations are too many. One page of RDRAM with one location stands for
the frame buffer, textures and what is shown. Not in it: the device whose own RDRAM the host maps (see `Coherency`), a submission without a
command buffer, descriptor sets and timestamps.

### StreamCaches

The caches as arrays with a count and a cached index (0 for -1). A primitive
keeps its indices; `wanted` is the history of what it was drawn with. Values are
elements of small sets: only their equality matters to the code (`memcmp`).
`MaxJobs` and `MaxTiles` are what one primitive may need at most (1024 lines / 64
per job, the tiles of the largest framebuffer). Devices that use the ubershader
do not count tiles: `shaded` is then 0.

### Coherency

Used when the GPU cannot import the memory of the emulator. A byte is an offset
into a page, its value the number of the write that put it there, so that a stale
byte is told from a current one. `truth` is the history of what the program
would see of one memory: a pass remembers in `expected` what it must find.
The host may write a byte unless a pass that it has not waited for reads or
writes it (the comment at `rdp_renderer.cpp:2711`); with `Careful` it also
leaves a byte that the GPU has ever written alone while the GPU may still write
to another byte of the page. `Mapped` is the device whose RDRAM the host can map: direct
copies are then done at once by the CPU, and the worker reads the RDRAM of the GPU.
`load_tile` marks pages before the flush that stages them, page by page, while
the worker copies others back. `stream` is what the GPU has yet to execute. The
end of a submission reads locked pages back; the ring that these pages go to is abstracted to
fresh space for each submission (its reuse is the subject of `StagingReadback`). Depth and
colour framebuffers are one set of bytes. A pass reads and writes at most `MaxBytes` bytes (a bound for TLC; the proof has it arbitrary). Commands carry the
number of their pass or submission, which only the proof looks at.

### ScanlineRegisters

`line_state` is the array of each register, `line` the last line that was latched,
`Junk` memory that nobody wrote. `log`, `top` and `setting` are the history of what the calls asked
for in the words of `rdp_device.hpp:163-185`: the lines latched in order, and the registers at
each. The geometry of the two video standards is shrunk (`OffsetNTSC` ... `ResPAL`); offsets and
heights stay even, as the code's are, and the ends odd. `EffectiveLine` is every line that
`decode_vi_registers` may look at, for every `VStart`, standard and field; the property compares the row
that the code would show with the one the documentation asks for. `Latch` is not called between `End` and
`Scanout`: "state does not change until end of frame". `HStart` and `XScale` are opaque values here; what is
computed from them is in `ScanoutStages`.

### ScanoutImages

One action per exit of `scanout`: no origin, a second blank frame, a frame without visible lines,
a valid frame. An image is the record of what is true of it — its layout, whether its
memory was released to another device, its age in frames that were counted, whether it is blank —
while `prev_image_layout` and `prev_image_is_external` are what the code remembers of it; `used` is how the last call used
an earlier image. `frame_count` wraps around at `CountLimit` (2^32). Ages from `MaxAge` on are one.
An image may fail to be created. Whether images are exported is chosen once (`exporting`): `video_interface.hpp:78` asks
that a frontend that exports does not ask for persistence. The frame that `scale_stage` reads for deinterlacing is the
kept one, whenever there is one; whether it is asked to read it is left out.

### CommandProcessor

Each call of the API is the list of its remaining steps (`todo`), e.g. `idle()` is
`<<"flush", "signal", "wait">>` and `scanout()` is drain, dump if a dump is written,
lock, flush, unlock, scan. The renderer is reduced to how many units of
work it has executed and submitted, the worker to its list of operations. Modes
`threaded` and `dumping` are chosen in `Init`.
There is one API thread: the class is not meant to be called from several (its
members, e.g. `timeline_value`, have no lock).

### TmemUpload and TextureFetch (jobs in Texels)

What a word of TMEM holds is where its two bytes were in RDRAM (`Untouched` if
no load has written it), so that a byte from the wrong place is told from the
right one whatever the data is. `Scatter` is the hardware: it walks through the
texture eight bytes at a time. `LoadTile` is what `load_tile` makes of the same
load — noops, refusals, splitting of long tiles, the upload infos — and `Uploaded`
what the threads of `tmem_update.comp` gather from these. TMEM is shrunk to
`TmemWords`. `Exact` names the loads for which the two differ in the code: see section 5.
`Marked` and `PagesToRead` are the range that `load_tile` marks and the pages
that become of it, with the masks of `mark_pages_for_gpu_read`; `NeedsFlush` is `tmem_upload_needs_flush`.

A texel is the nibbles of RDRAM that it was loaded from. `TextureFetch` takes a
coordinate through shift, clamp, mask and mirror, the byte and its bank in TMEM,
the halves of 32 bits, the palette and its four banks, the copy pipe and the three or
four texels of the filter; the property compares with the image in RDRAM. The arithmetic of the
filter is computed on chosen texel values. Perspective division and level of detail are not modelled.

### StaticState (jobs in Pixels)

A state is the set of its flags and, per cycle and slot of the combiner, the
name of the input. `Deduced`, `Normalize` are the renderer's, `Shaded` is what
`shade_pixel` then samples and which inputs it combines, with constants by name. The
properties compare the pixel of the normalised state with that of the state as it was
set. The equation of the combiner is not modelled: inputs are compared, not sums.

### DepthBlend (jobs in Fragments)

A pixel of a tile is loaded, drawn over and stored. Depth is computed with its real 18 and 14
bits, colours with those of the format; memory is bytes with hidden bits. `InitTile`,
`Apply` (of `Fragments`) and `FinishTile` are the pass; where passes end depends on caches and
must not show. When colour and depth share an address, `AliasColorToDepth` and `AliasDepthToColor` follow `memory_interfacing.h`.

### Commands (jobs in Encodings)

A word is the set of its bits. The builder's methods give words, `Decode` folds
the handlers of the command processor over them and collects what the renderer is
`told`. `Asked...` says what that should be in terms of the builder's arguments, with
the width and the sign of each field. Each argument runs through its least, its most
and some values between, while the others are all at their least or all at their most, on a new device and on one that has
had every bit set.

### Rasterization (jobs in Primitives)

`SpanSetup` is `span_setup.comp`, `Binned` the conservative binning with four
heights, `AllocateSpanJobs` the lines that are computed, `DeducedHeight` the height of the
pass; `Offsets`, `Work` and `Blended` the instances that tiles take with an atomic counter
and the order in which they are blended. The real word is 32 bits with 15 of
fraction; here `Fraction`, `Integer` and `WordBits` keep its structure — the range of an edge
is smaller than that of a word, products leave both — in integers that TLC can compute exactly.

### StagingReadback (jobs in Primitives)

The ring of staging pages: runs of dirty pages, room for their values and then their
masks. The worker is reduced to having copied nothing yet.

### DumpReplay

Phase `record`: the emulator calls, the device executes, the file grows; `End` or `Crash`
(which leaves any prefix of the file) turns to phase `replay`, in which the file
is read by the validator, with one of the two renderers possibly wrong, or by a viewer that
rewinds. Records carry `was`, `host` and `touched`, the history of what the device was like. Blocks are of
4 KiB as the writer's, their values counters modulo `Values + 1`; textures are loaded from the blocks in `Textures`. The processor
that dumps shares RDRAM with its host.

### VideoInterface

`part` says which third a behaviour is about: lines (`ScanlineRegisters`), images
(`ScanoutImages`) or pictures (`ScanoutStages`). They meet in `scanout` only, which
hands over decoded registers and an exit, so nothing is lost by looking at them apart.
A pixel of a stage is the set of VRAM coordinates it is made from; which of its neighbours a filter
weighs is left out, which of them it may look at is kept. `SourceJobs` follow one
frame from memory to the scaled picture; `PictureJobs` three frames in a row with
cropping, interlacing, scaling and persistence.

## 3. Runs

| Run | Bounds | What it shows |
|---|---|---|
| `ring` | 4 words, commands of 1–3 words over {0, 2}, 3 commands, 1 `init`, 1 caller | safety of the ring, refinement of the FIFO, calls return |
| `timeline` | 2 submissions, 2 pages, 2 signals, 2 waiters | order and counters; waits return, refinement |
| `render_queue` | 3 instances, at most 2 pending passes, 2 primitives per pass, 5 passes, 2 draws, 1 `flush_and_signal`, 4 devices | everything about flushing; with "unlimited", the submission forced in mid-flush; idle work is submitted |
| `passes` | 2 instances, 2 passes, 1 host write, 1 scanout, 8 devices | dispatches, barriers and what they leave in memory |
| `processor` | 2 units of work, 2 signals, 2 other calls | the API over all threads; calls return |
| `coherency` | 1 page of 2 bytes, 3 passes of at most one byte of texture and one of framebuffer, 1 host write | host and GPU see what was last written |
| `primitives` | TMEM of 128 words, 16 pages of 64 bytes, a screen of 8 × 4 in tiles of 2 × 2, edges of 5 + 5 bits in words of 13, scales 1 and 2, a staging ring of 16 pages; caches of 2 or 3 entries, 2 tiles per primitive | each algorithm of a primitive against its reference; limits and indices of the caches |
| `vi` | standards of lines 0–3 and 2–5, `VStart` 0–6, 2 values of a register; counters modulo 9; pictures 7 wide with guard bands of 2 and 1, 256 bytes of VRAM | registers of the lines, kept images, pictures |
| `replay` | 2 blocks, textures in the first, values modulo 3, 4 calls, 1 rewind, a crash anywhere | dumps and their readers |
| `coherency_integrated` | `Mapped`, 2 pages, 3 passes, no host write | violated: section 5 |
| `coherency_neighbours` | not `Careful`, 1 page of 2 bytes, 2 passes, 1 host write | violated: section 5 |
| `saturation` | as `primitives` | violated: section 5 |

The properties, by run. Where one name joins several, the parts are named in the module.

- `ring`: `QueuedIntact` — words not yet read are those that were enqueued. `CompletionSound` — `drain` and
  teardown return after their commands only, and `MetaIdle` is executed only when no command is left, the timeout racing
  with an enqueue included. `WakeupOwed` — a caller whose condition holds is awake or will be notified.
  `Implements` — `WorkFifo` with its liveness. `CallsReturn`.
- `timeline`: `TimelineSound`; `CountersSound` — `active_submissions` and `pending_writes_for_page` count
  exactly what is outstanding, and a page that is clear is current; `WaitsReturn`; `Implements`.
- `render_queue`: `InstanceStable`, `CopiedWithPass`, `FlushLeavesNothing`, `IdleWorkSubmitted` — which would fail, too, if
  a handler waited for a fence that is not submitted.
- `passes`: `WritesAreSeen` — barriers make every write visible to the dispatch that reads it. `PassesAreFed` — it finds there the
  work of its own pass, memory and samples as the writes before have left them. `ResultsReachHost` — with its fence.
- `processor`: `CallerAlone` — renderer and, at frame boundaries, the device belong to one thread. `ResultsSeen` — a
  signal covers earlier work, and a dump records what is there. `NoPushAfterDestruction`, `CallsReturn`.
- `coherency`: `ReadsCurrent`, `HostCurrent`.
- `primitives`: `UploadIsScatter`, `LoadSeesMemory`, `TexturesAreExact`, `PixelsKeepTheirInputs`, `BinningFindsEveryTile`,
  `BlendsInOrder`, `ReadbackIntact`, `FramebufferKeeps`, `RendererIsTold`; of the caches `NoOverflow`, `IndicesResolve`.
- `vi`: `ShownAsLatched`, `UsedAsItIs`, `PersistsBriefly`, `ScanoutReadsRange`, `PictureIsWindow`.
- `replay`: `ReplayIsFaithful`, `ValidatorIsSound`.

Why the bounds suffice. The ring has four words and three commands of up to
four words with their headers, so positions wrap around two times and every fill
level occurs; payload words take the values 0 and 2, which a reader that is off by one would take for a
header of the sentinel or of another command. The render queue has more passes than instances, so
that every instance is reused; a device that is not limited reaches the forced submission, the others show that
it does not occur. The caches are so small that
limits are hit in many orders (that of the blend states, of the same template as the raster states, has one value; the proof has no such
bound). Two passes over two instances are one that reads what the other has drawn, in one submission or two, with a host write and a
scanout before, between and after; a third only repeats an instance, which `RenderQueue` is about. Three passes are a copy back that is under way, a copy recorded
meanwhile and one that comes after it, which is what the choice between direct and masked copies
is about; one host write is enough to be lost or to be read too late.

In `primitives`, TMEM is a sixteenth of the real one, so that tiles of a few lines overlap and wrap
around it; loads cover every size, both halves, odd line lengths, empty and refused ones, blocks with slopes that
divide their lines evenly and not; pages are small enough for a texture to span several and to wrap. Texture coordinates lie
left of, in, between and beyond the tile and on both sides of each repeat. Edges start on the screen and on both sides of it, with slopes
that stay, leave the range of an edge and leave that of a word; scissors cut between lines and quarters. Depths are the
real ones around every change of precision. Every field of a command takes both ends of its range between clear and set neighbours.
Four cells of two primitives, and two tiles, in all orders of arrival, is the least in which an order can be wrong.

The frame counter wraps around
after nine frames while an image may last for three, so every position of the wrap within an image's life and any gap between
valid frames occurs. The lines of the two video standards overlap in part, as the real ones do, latches fall on the first line,
between rows, on rows and below the last one, and `VStart` takes values on both sides of every clamp. Pictures begin and end left of,
in and right of the screen, above and below it, with lines that differ; three in a row are what persistence may mix up. Four calls are a list
with a command and its end, and a host write and a frame around it.

For the ring, the timeline worker, the render queue, the command processor, page coherency, the caches, the dump and the video interface the proofs of
section 4 remove the bounds, the single caller and the single `init` of the ring's run included.
What is proved for all sizes and follows from the same invariants
(`ExecutedInOrder`, `CountersOrdered`, `NeverForced`, `NoPassLost`) is not
checked again by a run.

Deadlock is checked except in the runs of `RenderQueue`, `RenderPass` and `Coherency`, whose bounds (and a
client with no more commands) let the model stop, of `Primitives` and the pictures of `VideoInterface`, where a job ends
with its result, and of `DumpReplay`, where a reader ends with the file.

### Fairness

Threads are scheduled (weak fairness of the steps of each thread), a submission
is eventually completed by the GPU, a `wait_for` whose time is up returns. No
caller is obliged to call anything, and no spurious wakeup or early submission
is relied on. `LockCommandProcessing` has strong fairness: the ring thread holds `idle_lock`
for the moment of a check and sleeps 500 µs before it takes it again, so a
caller blocked in `lock()` gets it.

## 4. Proofs

All with TLAPS, for every value of the constants that satisfies the named
assumptions (`SizeAssumption`, `WordAssumption`, ...: sizes are positive, the ring
is a power of two as its `init` asserts, a command fits in an empty ring).

**Command ring** (`CommandRing_proofs`). `QueuedIntact` is not inductive: whether
an enqueue overwrites a queued word depends on where the commands lie.
The invariant `IInv` adds `Layout` (commands lie one behind the other, `read_count`
is the header of the oldest that was not popped), `Progressed` (what the thread
holds), `Closed` (nothing follows the sentinel, nobody else is inside a method
during teardown), `Asleep` (who can be in `cond`) and `Completed`
(`completed_count` equals `read_count` exactly when the thread has nothing in
hand). From it follow `TypeCorrect`, `CommandsSurvive`, `DrainIsSound`,
`TeardownIsComplete`, `CompletionIsSound` (the property of the run, which joins these two), `NoLostWakeup`; `RingImplementsFifo` shows that each step is a
step of `WorkFifo` or stutters, for at most one `init`.

**Render queue** (`RenderQueue_proofs`). `IInv` says which instances are protected
by a fence or marked for the next submission (`Protected`), which is being filled
(`Claimed`), when the command buffer is open and what the counters say about it
(`Opened`), that the visible part of a pass is recorded before the pass ends
(`Kept`) and what a flush leaves (`Flushed`). `InstancesAreStable`,
`PassesAreAccounted` and `FlushIsComplete` need no assumption about sizes.
`NoSubmitInMidFlush` and `PagesFollowPasses` assume `EnoughInstances`: that no device is "unlimited" and
`NumSyncStates > MaxPending` (32
and 8 in the code). `Bounded` counts the instances in use, at most `MaxPending`
when a flush begins, because a submission between the 1x and the upscaled pass
leaves one instance behind that no counter of visible passes knows. Without
the assumption both fail on an incoherent device: the submission forced in mid-flush copies the pages of
the new pass back before the pass is recorded (the unlimited device of `render_queue` is a coherent one, and reaches that submission).

**Timeline worker** (`TimelineWorker_proofs`). `TimelineSound` speaks of what was pushed and what is visible, and says nothing about
what lies between. `IInv` adds that the operations pushed are those performed, the one in hand and the queue, in that order (`Order`);
that values grow from signal to signal, and what has been notified was performed (`Signals`); that the fences of copies do not decrease (`Fences`), so
that a later copy of a page does not undo the promise of an earlier one (`Done`). For the counters, `Counted` says which operations are counted (`Cookies`, `Due`), and
`Latest` that the last copy due for a page, or the one that the feeder is about to push, brings what was written last. From it follow
`TimelineIsSound` and `CountersAreSound`. `WorkerImplementsFifo` shows that each step is a step of `WorkFifo` or stutters; it needs `Followed`, that the
sentinel is the last operation pushed and is never performed (the liveness in `Implements` stays with TLC). Nothing is assumed but that the bounds are natural numbers; the GPU may
complete submissions as slowly as it likes, and waiters may come, wake up spuriously and leave.

**Stream caches** (`Primitives_proofs`). `AddedProperties` is about one `add()`: a value is found where its index says, through a hit of the
cached element, an earlier match or a new element, and no other element changes. `NoOverflow` is not inductive: `Room` adds what
`need_flush` has left for — a whole primitive between draws, the rest of its tiles within one, one more load always. From it follow
`CachesNeverOverflow` and `IndicesAreTrue`, for caches of any size that hold one primitive (`SizeAssumption`), of which the code's are an instance.
There has to be more than one TMEM instance, since the first is TMEM as it was before any load.

**Static state** (`Primitives_proofs`). Two theorems are about one state, and not about the inputs of the run: `StateKeepsPixels` and `StateIsSampled` take any state
that is `Settable` (it has one cycle mode at most, and each slot of the combiner selects one of its inputs), any eight tiles, any first tile and level. `SelectedStays` is the reason why
normalisation may forget selectors, slot by slot: what is not kept is in the constant. `TexelsDepend` says on which flags the texels depend: the two flags of conversion may be dropped
only where there is no second texel, and `DeducedShape` that this is when they are dropped. For the format that is compiled in, `LevelInRange` bounds the tiles that a level of detail asks for
by those that deduction compared, counted from the first and modulo eight: with detail textures one more than levels. Reads that the hardware leaves undefined are excluded as in the run (`Unsampled`).
`PixelsKept` adds the invariant `StateJobs`, that the jobs choose states which are `Settable`. Nothing is assumed of the constants.

**Command processor** (`CommandProcessor_proofs`). For programs of any length, with or without a ring thread. `CallerAlone` and
`ResultsSeen` speak of moments — who is inside the renderer, what a visible value covers — and are true because of what every call has
yet to do. The inductive invariant has ten parts. `TypeOK`. `Scripted`: `todo` is a suffix of the script of a call, and each suffix determines what was
done before it (drained, locked, flushed). `Ledger`: every unit of work is in exactly one place on its way — in the ring, executed, submitted — and
numbered without gaps. `Ordered`: signal values increase along ring, worker and what is visible. `Waiting`: the value that the caller waits for is the last
one in the ring or behind it. `Alone`: between a drain and the next push the ring thread has nothing. `Locked`: who holds `idle_lock`. `Fenced`: a signal
in the worker's queue lies behind a fence that covers all submissions it promises. `Covered`: hence the value does, when the worker comes to it.
`Current`: a copy on its way brings what was drawn last. `Inductive` proves it step by step, first for the caller's actions by the step at the head of its script,
then for the ring, the renderer, the worker and the GPU. From it follow `CallerIsAlone`, `ResultsAreSeen` and `DestroyedSafely`.

**Page coherency** (`Coherency_proofs`). For any pages, bytes, passes and writes, on a device whose own RDRAM is not mapped (`~Mapped`) and with a host that is
`Careful`: `PassesReadCurrent` and `HostIsCurrent`. Without either hypothesis they are false, as `coherency_integrated` and `coherency_neighbours` show. Why a
copy may win over another depends on what each was to bring, and the state does not say: it has the values of host memory, staging pages, RDRAM and its mask, and of
commands that are under way, but not which pass they belong to. The invariant `IInv` therefore says that there *is* a ghost record with which the state agrees, and each
action has a lemma that moves the record along. The record holds what a byte is between any two passes (`val`), where submissions begin and end (`last`, `sub`),
how many of them have arrived in each page of the host (`here`), how many locked it (`count`), how far the GPU is (`rendered`, `step`) and which pages each
pass copies directly or through the mask. Of the invariant's parts, these carry the argument:

- `HostHas`: the host has in each page the bytes as the submissions that arrived there left them. `ReadBack`: a readback that has not arrived agrees with the record
  where its mask says that the GPU drew, and its mask has all that was drawn since. Hence a copy back never undoes a write of the host.
- `Safe`: a page is copied directly only if all earlier results in it are back. It rests on `Tallied` — `pending_writes_for_page` is the number of
  submissions that locked the page and have not arrived — and `Marked`, that `page_to_pending_readback` is what the passes since the last submission draw to.
- `Staged` and `Kept`: staging has for every byte what its pass should find, or something older that will not get to RDRAM, since an earlier pass draws the byte, or has,
  and no direct copy clears its mask before. `Masks`: all that the host does not have yet is in the mask.
- `Overdue`: where the host has written over a result, and the mask still protects the result (`Stale`), the page is copied directly before a pass reads the byte or
  draws in the page. This is where `Careful` is needed. `Ready`: once a pass's copies have run, RDRAM has what it should find.
- `Streamed`, `Opened`, `Queued`, `Fenced`, `Signals`: commands, draws, fences and signals follow one another in the order of passes and submissions.

`HowFar` orders the positions of renderer, GPU, worker and host that all of this speaks of. The lemmas ending in `Frame` say for each part on which variables and which
fields of the record it depends; each action then proves only the parts it disturbs.

**Video interface** (`VideoInterface_proofs`). *Kept image*, for every width of the counter that exceeds four: that an image is recent is
decided by `(frame_count - last_valid_frame_count) % CountLimit`, which says nothing about the image by itself. `KeptInv` ties the two
together — while an image is kept, that distance is its age plus one, and the age at most two — and the layout and owner that are
remembered to those of the image. `Distance` and `DistanceGrows` are the arithmetic of the wrap. From it follow
`TypeCorrect`, `UsedCorrect` and `PersistenceBounded`. *Registers per scanline*, for every geometry of the two standards
(`GeometryAssumption`: sizes are positive, offsets and heights even, the visible lines before the end of the frame) and every set of registers
(`RegisterAssumption`: the vertical registers are natural numbers): the invariant says what an array of
`line_state` holds for a line below, at and above the last one that was latched — the entry of the greatest latched line that is not above it — so
that filling ahead, at the end of a frame, and never looking back comes to what the log asks for. `RowsShownAsLatched` follows, and
`PartsKeepPromises` carries both over to the composition, whose parts leave each other's variables alone.

*Pictures*, for registers, options and geometries of any value, not those of the run. `AnyPictureIsWindow` takes any three frames of one standard
(`SomePictures`: registers with the fields that the VI has, one crop, one scale, serrated or not, blended or not). `PictureFacts` says of one frame
that its picture has the size of the screen and is "now" exactly where the frame draws; it rests on `CoveredIsDrawn` — a pixel lies in the
rectangle of a part of the frame exactly if its row and column are drawn — and `PartsAreYielded` on where the parts leave an earlier image alone. `PicturesAreWindows`
is the invariant of `ViSpec` that follows. *Sources*: `AnyScanoutReadsRange` takes any registers of a frame that fetches something (`SomeSource`). The samples of a row grow with
its pixels (`ScaledDiv`, `UnscaledDiv`, `DivMonotone`), so that the first and last ones bound what each stage reads of the image before it, and these are what
`scanout_memory_range` takes for its bytes. Two hypotheses are needed. `StartsOnRow`: lines above the first are skipped by whole rows of a field, see
"odd `VStart`" in section 5. `LinesStayNear`, for upscaled pictures only: lines that were latched do not reach further beyond those of the frame than the guard bands,
since the range of an upscaled picture is computed when the registers of its lines are gone (see `Forgotten` in section 5). Every input of
the run satisfies them (all 864 sources, half of them upscaled), and without the second the statement is false; since a constant of the module
may contradict it, there is no theorem about `ViSpec` here.

**Dump** (`DumpReplay_proofs`), for memories of any size, any calls, a crash at any record and any number of rewinds. What a replay has made of a dump depends on
all records before, and a crash takes the recorder away, so no relation between the variables of both sides is inductive. The invariant `Inv` says that there is a
*story* `h` of the file: the cache that a player has, and the device that a first replay has, before each record. `Told` fixes it record by record (`Step`) and demands
what each record promises there (`Sound`: a flush finds the memory that the recorder had, a frame its registers). Every prefix of a story is one,
which deals with the crash; appending a record extends it, which is one lemma per call. While recording, `Recorded`
ties the end of the story to the recorder: the writer's cache is the player's, and the device of the story, once it has executed the commands that are still queued, is
`Behind` the emulator's by what the host has written since the last flush — unless the host wrote in an open list (`touched`), when the dump can only catch up at the next flush.
While replaying, `Replaying` says that player and first driver are where the story is at `at` — the driver only before a rewind, which keeps it — and `Judging` that a difference has
been found before the validator goes on. From it follow `TypeCorrect`, `ReplayTellsTheTruth` and `ValidationIsSound`. Blocks have to be numbered from 1, since they are written in ascending order.

Only model-checked: all liveness and the fairness-dependent refinements (TLAPS has no
ENABLED or liveness reasoning that would carry these), `RenderPass`, and of `Primitives` all algorithms but the static state and
the caches: textures, setup and binning, depth and framebuffer formats, staging of readbacks, encodings. `RenderPass` has one invariant per buffer and barrier, and orders of execution that are found by
looking through the queue; its runs are small but complete in the orders of commands. What folds and recursive functions compute for every input needs induction over data, which is out of the provers' reach; the
algorithms are therefore compared with their references on bounded inputs.

## 5. Observations

Shown by runs:

- *Direct copies on mapped RDRAM* (`coherency_integrated`). On a device that can map
  the RDRAM of its GPU but not import host memory, `resolve_coherency_host_to_gpu`
  clears the write mask on the CPU (`rdp_renderer.cpp:2752`) while a masked copy of
  the page recorded earlier may not have run. That copy then finds no mask and puts host
  memory, staged before the result was back, over the result. The unmapped path clears
  the mask on the GPU, in order, and `ReadsCurrent` holds there. The trace: a pass writes page 1
  and is submitted; a second reads page 1 and draws to page 2, and has not run; the worker
  copies page 1 back; a third touches page 1.
- *Neighbours in a page* (`coherency_neighbours`). A write mask is cleared only by a
  direct copy, so while a page is never quiet its mask accumulates, and every readback of the page copies
  all of it. A host write to a byte whose own pass is long known to be finished is
  lost when a later pass that draws elsewhere in the page comes back. The comment at
  `rdp_renderer.cpp:2711` speaks of data, not of pages; a host that keeps to
  `Careful` is safe (`HostCurrent`, run `coherency`).
- *Saturating edges* (`saturation`). `shaders/binning.h:53` adds the start of an edge to a 64-bit product without its
  sign. An edge that starts left of x = 0 seems to overflow where it does not, and an overflow between 2^31 and 2^32 is not seen.
  The first only bins a primitive into more tiles than it needs, and `BinningFindsEveryTile` holds; the second is excluded
  from that property (`Unseen`).

What the conditions of other properties leave out, because the code does not have it right:

- *TMEM upload* (`Exact`): tiles of which 32-bit texels or a format other than the loaded one make `load_tile` underestimate
  the bytes of a line; loads of which a single line runs around TMEM; blocks of texels in two halves with an odd number of fetches;
  loads that are refused.
- *`tmem_upload_needs_flush`* halves the offset for `I8` and not for `IA88` framebuffers, unlike
  `get_byte_size_for_bound_color_framebuffer`: for `IA88` it compares bytes with pixels, and may not flush.
- *Marked pages*: a range that covers a multiple of all the pages has `start_page == end_page` after masking, and marks none.
- *Undefined reads* (`Unsampled`): the level-of-detail fraction in one-cycle mode, and a pipelined second texel with `convert_one` when nothing
  reads the first, are not initialised by the shader.
- *Aliased colour and depth*: `shaders/memory_interfacing.h:107` shifts the coverage of an `RGBA5551` pixel by 3, where it lies in the upper three of 8 bits; `AliasInherits`
  is stated for `IA88`. A depth update of an `IA88` buffer loses its hidden bits when the tile is stored; buffers of 8 and 32 bits ignore depth writes.
- *Upscaled scanout with registers per scanline* (`Forgotten`): `per_line_state` is cleared before `vram_fetch_stage` asks for the range a second time, so a frame
  whose own `HStart` shows nothing gets a range of length 0.
- *Crop at the top with persistence* (`Yields`): the lower part of the picture is found with the height of the cropped one, so the last lines, as many as were cropped,
  do not persist.

Met on the way, without a property:

- With two callers blocked in the ring, `notify_one` on the shared condition
  variable can wake the wrong one and a call may not return although its
  condition holds; `CallsReturn` is checked for one caller. The same goes for two threads in `wait_for_timeline`:
  `WaitsReturn` promises that a waiter returns unless another one is left asleep. The API
  is used from one thread, so this is a restriction and not a defect.
- A second `init` would make `drain` unsound (`completed_count` is not reset).
- `latch_vi_register_for_scanline` clamps a line beyond the last one (`video_interface.cpp:1163`), where `rdp_device.hpp:182` says
  that the call is ignored. It overwrites a line that no frame shows, and refuses later calls for lower lines, as for any
  call that does not increase the line, hence no property fails.
- Registers that were not named to `begin_vi_register_per_scanline` are shown, on a frame whose lines were ended, with the values
  they had when it began, and not with those set meanwhile.
- In super-sampled mode `pending_render_passes` stays 0, so the idle callback
  submits by primitives only.
- The texel of a `YUV` image to the right of the sample takes its chroma two texels further on, and wraps there wrongly with masks.
- `deduce_noise_state` returns early when dithering needs noise, and never sets `NEED_NOISE_DUAL` then.
- `submit_rasterization` sets `dx_shift` to `~1u` for `RGBA8888` and then to 1; `dx_mask` is never set.
- With instances that are copied, the barrier after an upload names shader storage reads only, while `span_info_jobs` is read through a texel
  view, a sampled read.
- `copy_rdram_8` of `update_upscaled_domain_resolve.comp` takes sample 0 where the other sizes take the average of all samples.
- `update_upscaled_domain_pre.comp` aligns the address of a frame buffer down to a word and does not extend the count: the last pixels of one that is
  not aligned are left out.
- The memory barrier of `submit_to_queue` for the host (`need_memory_flush`) is redundant where a barrier before has made the results available.
- `compute_conservative_max_num_tiles` is not always conservative, so tile instances may exceed what `need_flush` counted on.
- The staging ring holds sixteen readbacks of all of RDRAM; nothing waits when more are outstanding. `ReadbackIntact` says what fits.
- Builder: `fill_rectangle_subpixels` does not flush modes; `tex_rect_flip` always disables upscaling; `min_lod` is not masked.
- Dumps: `rdp-validate-dump` does not end on a dump that was cut; with sync-only comparison, draws after the last sync of a frame
  are not compared (`ValidatorIsSound` says so); meta commands are not dumped; what the host writes while a list is open is recorded with the next flush
  only; `flush_dram` ignores `rdram_offset`, and on an incoherent device dumps the GPU's copy; a rewind keeps TMEM, VI registers and drivers.
- VI: `upscale_deinterlacing` has no effect without downscaling; changing the video standard or interlacing between two blended frames reads outside the earlier picture; a crop that
  is too large is reported and still shifts; above the first line an odd `VStart` is truncated differently from the comment's formula.

## 6. Not modelled

See the components in `PROJECT.json`. Not yet, and planned: the equation of the combiner. Left out of render passes: specialization constants, descriptor sets, timestamps. Left out of the modules that exist: the colours that the VI filters compute, `downscale_stage` and `upscale_deinterlace`; the `convert_one` arithmetic, `clamp_z`
and dither coefficients of the pixel shaders; interpolation of attributes; the endianness xor of buffers. Left out for good: the pipeline worker beyond the `WorkerThread` template, since its
executor calls the Vulkan library; Vulkan object management; logging, timestamps, shader compilation options; the validation interface, which
only reports; floating point (the triangle converter, the test tools); generated code and tables.

## 7. Plan

In this order; each module with its runs, mutants and, where it pays, proofs.

1. Proofs: lemmas about `StagingReadback` (`Place`) and `ViGeometry`; the composition of `Coherency` with the ring of staging pages.
2. The combiner's arithmetic: extension and clamping of its 9 bits against a reference; attribute interpolation.
3. `downscale_stage` and `upscale_deinterlace` in `ScanoutStages`.
4. `resolve_coherency_external` with several requests in `Coherency`.
