---------------------------- MODULE StreamCaches ----------------------------
(***************************************************************************)
(* The caches in which the Renderer collects primitives until they are     *)
(* flushed (StateCache and StreamCache in rdp_data_structures.hpp, their   *)
(* use in draw_shaded_primitive and load_tile_iteration).  The arrays have *)
(* fixed sizes and add() only asserts that there is room: need_flush() has *)
(* to leave room for the largest primitive that can follow.                *)
(***************************************************************************)
EXTENDS Integers, Sequences, FiniteSets

CONSTANTS
    RasterState, BlendState, TileInfo,  \* values that the states can have
    MaxRasterStates, MaxBlendStates, MaxTileInfos,      \* 64, 64, 256
    NumTiles,           \* tiles[], 8
    MaxPrimitives,      \* 256
    MaxSpanJobs,        \* MaxSpanSetups / DefaultWorkgroupSize, 512
    MaxJobs,            \* jobs of one primitive: MaxHeight / DefaultWorkgroupSize
    MaxTileInstances,   \* max_num_tile_instances
    MaxTiles,           \* tiles of one primitive: max_tiles_x * max_tiles_y
    MaxTMEMInstances,   \* 256
    IndexRange          \* values of a uint8_t

ASSUME SizeAssumption ==
    /\ MaxRasterStates \in Nat \ {0} /\ MaxBlendStates \in Nat \ {0}
    /\ NumTiles \in Nat \ {0} /\ MaxTileInfos \in Nat /\ NumTiles <= MaxTileInfos
    /\ MaxPrimitives \in Nat \ {0}
    /\ MaxJobs \in Nat /\ MaxSpanJobs \in Nat /\ MaxJobs <= MaxSpanJobs
    /\ MaxTiles \in Nat /\ MaxTileInstances \in Nat /\ MaxTiles <= MaxTileInstances
    /\ MaxTMEMInstances \in Nat \ {0, 1} /\ IndexRange \in Nat \ {0}
    /\ MaxTMEMInstances <= IndexRange
ASSUME StateAssumption == RasterState # {} /\ BlendState # {} /\ TileInfo # {}

VARIABLES
    static_raster_state_cache, depth_blend_state_cache, tile_info_state_cache,
    state_indices,      \* of every primitive, with its span_info_offsets
    span_info_jobs,     \* the primitive of every job
    max_shaded_tiles, tmem_uploads,
    phase,
    wanted              \* history: the state every primitive was drawn with

caches == <<static_raster_state_cache, depth_blend_state_cache, tile_info_state_cache>>
cachesVars == <<caches, state_indices, span_info_jobs, max_shaded_tiles, tmem_uploads, phase, wanted>>

\* A StateCache for N values of the set S: only the first `count` elements
\* are valid; `cached` is the index that add() returned last, 0 if none.
Cache(S, N) == [elements : [1 .. N -> S], count : Nat, cached : 0 .. N]
NewCache(S, N) == [elements |-> [i \in 1 .. N |-> CHOOSE t \in S : TRUE], count |-> 0,
                   cached |-> 0]

Hit(c, t) == c.cached # 0 /\ c.elements[c.cached] = t
Matches(c, t) == {i \in 1 .. c.count : c.elements[i] = t}

\* The index that add() returns: the cached one, the last that matches, or
\* that of a new element.
IndexOf(c, t) == IF Hit(c, t) THEN c.cached
                 ELSE IF Matches(c, t) = {} THEN c.count + 1
                 ELSE CHOOSE i \in Matches(c, t) : \A j \in Matches(c, t) : j <= i

\* The cache after add().
Added(c, t) == LET i == IndexOf(c, t) IN
    [elements |-> IF i = c.count + 1 /\ ~Hit(c, t) THEN [c.elements EXCEPT ![i] = t]
                                                   ELSE c.elements,
     count |-> IF i = c.count + 1 /\ ~Hit(c, t) THEN i ELSE c.count,
     cached |-> i]

\* Mutant: reset() forgets cached_index.
ResetKeepingIndex(c) == [c EXCEPT !.count = 0]
Reset(c) == [c EXCEPT !.count = 0, !.cached = 0]

LastPrimitive == Len(state_indices)

CachesInit ==
    /\ static_raster_state_cache = NewCache(RasterState, MaxRasterStates)
    /\ depth_blend_state_cache = NewCache(BlendState, MaxBlendStates)
    /\ tile_info_state_cache = NewCache(TileInfo, MaxTileInfos)
    /\ state_indices = <<>> /\ span_info_jobs = <<>>
    /\ max_shaded_tiles = 0 /\ tmem_uploads = 0
    /\ phase = "idle" /\ wanted = <<>>
-----------------------------------------------------------------------------
\* The primitives of the jobs that allocate_span_jobs adds.
JobsOf(jobs) == [i \in 1 .. jobs |-> LastPrimitive + 1]

(* draw_shaded_primitive, up to the loop over the tiles: a primitive with  *)
(* `jobs` span jobs (allocate_span_jobs) that touches at most `shaded`     *)
(* tiles, drawn in the states r and b with the tiles t.                    *)
DrawShaded(r, b, t, jobs, shaded) ==
    /\ phase = "idle"
    /\ max_shaded_tiles' = max_shaded_tiles + shaded
    /\ span_info_jobs' = span_info_jobs \o JobsOf(jobs)
    /\ static_raster_state_cache' = Added(static_raster_state_cache, r)
    /\ depth_blend_state_cache' = Added(depth_blend_state_cache, b)
    /\ state_indices' = Append(state_indices,
           [raster |-> IndexOf(static_raster_state_cache, r),
            blend |-> IndexOf(depth_blend_state_cache, b),
            instance |-> tmem_uploads % IndexRange, tiles |-> <<>>,
            offset |-> Len(span_info_jobs), jobs |-> jobs])
    /\ wanted' = Append(wanted, [raster |-> r, blend |-> b, instance |-> tmem_uploads, tiles |-> t])
    /\ phase' = "tiles"
    /\ UNCHANGED <<tile_info_state_cache, tmem_uploads>>

(* The loop over the eight tiles. *)
AddTile ==
    /\ phase = "tiles"
    /\ LET i == Len(state_indices[LastPrimitive].tiles) + 1
           t == wanted[LastPrimitive].tiles[i]
       IN  /\ tile_info_state_cache' = Added(tile_info_state_cache, t)
           /\ state_indices' = [state_indices EXCEPT ![LastPrimitive].tiles =
                                    Append(@, IndexOf(tile_info_state_cache, t))]
           /\ phase' = IF i = NumTiles THEN "drawn" ELSE "tiles"
    /\ UNCHANGED <<static_raster_state_cache, depth_blend_state_cache, span_info_jobs,
                   max_shaded_tiles, tmem_uploads, wanted>>

Full(c, N) == c.count = N

\* Mutant: the tiles only when they are full.
NeedFlushTilesFull ==
    \/ Full(static_raster_state_cache, MaxRasterStates)
    \/ Full(depth_blend_state_cache, MaxBlendStates)
    \/ Full(tile_info_state_cache, MaxTileInfos)
    \/ Len(state_indices) = MaxPrimitives
    \/ Len(span_info_jobs) + MaxJobs > MaxSpanJobs
    \/ max_shaded_tiles + MaxTiles > MaxTileInstances

(* need_flush *)
NeedFlush ==
    \/ Full(static_raster_state_cache, MaxRasterStates)
    \/ Full(depth_blend_state_cache, MaxBlendStates)
    \/ tile_info_state_cache.count + NumTiles > MaxTileInfos
    \/ Len(state_indices) = MaxPrimitives
    \/ Len(span_info_jobs) + MaxJobs > MaxSpanJobs
    \/ max_shaded_tiles + MaxTiles > MaxTileInstances

EndDraw ==
    /\ phase = "drawn"
    /\ phase' = IF NeedFlush THEN "flush" ELSE "idle"
    /\ UNCHANGED <<caches, state_indices, span_info_jobs, max_shaded_tiles, tmem_uploads, wanted>>

TMEMFull == tmem_uploads + 2 >= MaxTMEMInstances

(* load_tile_iteration *)
LoadTileIteration ==
    /\ phase = "idle"
    /\ tmem_uploads' = tmem_uploads + 1
    /\ phase' = IF TMEMFull THEN "flush" ELSE "idle"
    /\ UNCHANGED <<caches, state_indices, span_info_jobs, max_shaded_tiles, wanted>>

(* flush_queues, for one of the reasons above or another (a new            *)
(* framebuffer, a signal, an idle ring): what was collected is used, then  *)
(* reset_context empties the caches.                                       *)
Flush ==
    /\ phase \in {"idle", "flush"} /\ phase' = "idle"
    /\ static_raster_state_cache' = Reset(static_raster_state_cache)
    /\ depth_blend_state_cache' = Reset(depth_blend_state_cache)
    /\ tile_info_state_cache' = Reset(tile_info_state_cache)
    /\ state_indices' = <<>> /\ span_info_jobs' = <<>> /\ wanted' = <<>>
    /\ max_shaded_tiles' = 0 /\ tmem_uploads' = 0
-----------------------------------------------------------------------------
CachesNext ==
    \/ \E r \in RasterState, b \in BlendState, t \in [1 .. NumTiles -> TileInfo],
          jobs \in 0 .. MaxJobs, shaded \in 0 .. MaxTiles : DrawShaded(r, b, t, jobs, shaded)
    \/ AddTile \/ EndDraw \/ LoadTileIteration \/ Flush

CachesSpec == CachesInit /\ [][CachesNext]_cachesVars
-----------------------------------------------------------------------------
(* No array overflows, at any point of a draw: the asserts in the add()    *)
(* functions hold, the span setups, tile instances and TMEM instances that *)
(* the GPU indexes exist.                                                  *)
NoOverflow ==
    /\ static_raster_state_cache.count <= MaxRasterStates
    /\ depth_blend_state_cache.count <= MaxBlendStates
    /\ tile_info_state_cache.count <= MaxTileInfos
    /\ Len(state_indices) <= MaxPrimitives
    /\ Len(span_info_jobs) <= MaxSpanJobs
    /\ max_shaded_tiles <= MaxTileInstances
    /\ tmem_uploads < MaxTMEMInstances

Resolves(c, i, t) == i \in 1 .. c.count /\ c.elements[i] = t

(* The indices of a primitive lead to the states it was drawn with, in the *)
(* part of the caches that is uploaded, however values repeat and however  *)
(* often the caches were reset.  The 8-bit index of its TMEM instance has  *)
(* not wrapped, and the span jobs at its offset are its own, although they *)
(* are numbered before the primitive is added.                             *)
IndicesResolve ==
    \A p \in 1 .. Len(state_indices) :
        /\ Resolves(static_raster_state_cache, state_indices[p].raster, wanted[p].raster)
        /\ Resolves(depth_blend_state_cache, state_indices[p].blend, wanted[p].blend)
        /\ \A i \in 1 .. Len(state_indices[p].tiles) :
               Resolves(tile_info_state_cache, state_indices[p].tiles[i], wanted[p].tiles[i])
        /\ state_indices[p].instance = wanted[p].instance
        /\ \A j \in state_indices[p].offset + 1 .. state_indices[p].offset + state_indices[p].jobs :
               j <= Len(span_info_jobs) /\ span_info_jobs[j] = p
=============================================================================
