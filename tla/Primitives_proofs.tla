--------------------------- MODULE Primitives_proofs ---------------------------
(***************************************************************************)
(* What becomes of a primitive, for every value of the constants: the      *)
(* caches that primitives are collected in never overflow and their        *)
(* indices stay true; and for every static state that registers can hold,  *)
(* and every set of tiles, normalisation keeps what a pixel is shaded      *)
(* with.                                                                   *)
(***************************************************************************)
EXTENDS Primitives, WellFoundedInduction, SequenceTheorems, TLAPS

-----------------------------------------------------------------------------
(* One cache. *)

(* The values a cache takes; what was cached is among the valid elements. *)
IsCache(c, S, N) ==
    /\ c \in [elements : [1 .. N -> S], count : 0 .. N, cached : 0 .. N]
    /\ c.cached <= c.count

(* A search from the back finds the last match. *)
LEMMA LastExists ==
    ASSUME NEW n \in Nat, NEW M \in SUBSET (1 .. n), M # {}
    PROVE  \E i \in M : \A j \in M : j <= i
<1>. DEFINE T == {n - i : i \in M}
<1>1. T \subseteq Nat /\ T # {}
  <2>1. \A i \in M : i \in 1 .. n
    OBVIOUS
  <2>2. \A i \in M : n - i \in Nat
    BY <2>1
  <2>. QED BY <2>2
<1>2. \E x \in T : \A y \in T : ~ (<<y, x>> \in OpToRel(<, Nat))
  BY <1>1, WFMin, NatLessThanWellFounded, Zenon
<1>3. PICK i \in M : \A y \in T : ~ (<<y, n - i>> \in OpToRel(<, Nat))
  BY <1>2
<1>4. ASSUME NEW j \in M PROVE j <= i
  <2>1. n - j \in T /\ n - j \in Nat /\ n - i \in Nat
    OBVIOUS
  <2>2. ~ (n - j < n - i)
    BY <1>3, <2>1 DEF OpToRel
  <2>. QED BY <2>2
<1>. QED BY <1>4

(* What add() returns for a value that is not the cached one. *)
LEMMA MatchIsFound ==
    ASSUME NEW S, NEW N \in Nat, NEW c, IsCache(c, S, N), NEW t, ~Hit(c, t),
           Matches(c, t) # {}
    PROVE  IndexOf(c, t) \in 1 .. c.count /\ c.elements[IndexOf(c, t)] = t
<1>1. c.count \in Nat /\ Matches(c, t) \in SUBSET (1 .. c.count)
  BY DEF IsCache, Matches
<1>2. \E i \in Matches(c, t) : \A j \in Matches(c, t) : j <= i
  BY <1>1, LastExists
<1>3. IndexOf(c, t) \in Matches(c, t)
  BY <1>2 DEF IndexOf
<1>. QED BY <1>3 DEF Matches

(* add() with room for one more: the value is found where its index says,  *)
(* what was there before stays, and at most one element is new.            *)
LEMMA AddedProperties ==
    ASSUME NEW S, NEW N \in Nat, NEW c, IsCache(c, S, N), NEW t \in S, c.count < N
    PROVE  /\ IsCache(Added(c, t), S, N)
           /\ c.count <= Added(c, t).count /\ Added(c, t).count <= c.count + 1
           /\ IndexOf(c, t) \in Nat
           /\ Resolves(Added(c, t), IndexOf(c, t), t)
           /\ \A i, u : Resolves(c, i, u) => Resolves(Added(c, t), i, u)
<1>. DEFINE i == IndexOf(c, t)
<1>0. /\ c.elements \in [1 .. N -> S] /\ c.count \in 0 .. N /\ c.cached \in 0 .. N
      /\ c.cached <= c.count
  BY DEF IsCache
<1>1. CASE Hit(c, t) \/ Matches(c, t) # {}
  <2>1. i \in 1 .. c.count /\ c.elements[i] = t
    <3>1. CASE Hit(c, t)
      BY <1>0, <3>1 DEF Hit, IndexOf
    <3>2. CASE ~Hit(c, t)
      BY <1>1, <3>2, MatchIsFound
    <3>. QED BY <3>1, <3>2
  <2>2. Added(c, t) = [elements |-> c.elements, count |-> c.count, cached |-> i]
    BY <1>0, <2>1 DEF Added
  <2>. QED BY <1>0, <2>1, <2>2 DEF IsCache, Resolves
<1>2. CASE ~Hit(c, t) /\ Matches(c, t) = {}
  <2>1. i = c.count + 1
    BY <1>2 DEF IndexOf
  <2>2. Added(c, t) = [elements |-> [c.elements EXCEPT ![i] = t], count |-> i, cached |-> i]
    BY <1>2, <2>1 DEF Added
  <2>3. i \in 1 .. N
    BY <1>0, <2>1
  <2>. QED BY <1>0, <2>1, <2>2, <2>3 DEF IsCache, Resolves
<1>. QED BY <1>1, <1>2

(* reset_context leaves an empty cache. *)
LEMMA ResetProperties ==
    ASSUME NEW S, NEW N \in Nat, NEW c, IsCache(c, S, N)
    PROVE  IsCache(Reset(c), S, N) /\ Reset(c).count = 0
<1>. DEFINE d == [c EXCEPT !.count = 0]
<1>1. d \in [elements : [1 .. N -> S], count : 0 .. N, cached : 0 .. N] /\ d.count = 0
  BY DEF IsCache
<1>2. Reset(c) = [d EXCEPT !.cached = 0]
  BY DEF Reset
<1>. HIDE DEF d
<1>3. /\ Reset(c) \in [elements : [1 .. N -> S], count : 0 .. N, cached : 0 .. N]
      /\ Reset(c).count = 0 /\ Reset(c).cached = 0
  BY <1>1, <1>2
<1>. QED BY <1>3 DEF IsCache

LEMMA NewProperties ==
    ASSUME NEW S, NEW N \in Nat, S # {}
    PROVE  IsCache(NewCache(S, N), S, N) /\ NewCache(S, N).count = 0
  BY DEF IsCache, NewCache
-----------------------------------------------------------------------------
(* The inductive invariant. *)

(* What is recorded of a primitive, and what it was drawn with. *)
RecordedIndices == [raster : Nat, blend : Nat, instance : Nat, tiles : Seq(Nat), offset : Nat, jobs : Nat]
DrawnStates == [raster : RasterState, blend : BlendState, instance : Nat,
                tiles : [1 .. NumTiles -> TileInfo]]

TypeOK ==
    /\ IsCache(static_raster_state_cache, RasterState, MaxRasterStates)
    /\ IsCache(depth_blend_state_cache, BlendState, MaxBlendStates)
    /\ IsCache(tile_info_state_cache, TileInfo, MaxTileInfos)
    /\ state_indices \in Seq(RecordedIndices)
    /\ wanted \in Seq(DrawnStates) /\ Len(wanted) = Len(state_indices)
    /\ span_info_jobs \in Seq(Nat)
    /\ max_shaded_tiles \in Nat /\ tmem_uploads \in Nat
    /\ phase \in {"idle", "tiles", "drawn", "flush"}

(* Room for what may still come: the rest of the tiles of the primitive    *)
(* that is being drawn, a whole primitive when none is, and one more load. *)
Room ==
    /\ phase = "idle" => ~NeedFlush
    /\ phase = "tiles" =>
           /\ Len(state_indices) > 0
           /\ Len(state_indices[Len(state_indices)].tiles) < NumTiles
           /\ tile_info_state_cache.count + NumTiles
                  - Len(state_indices[Len(state_indices)].tiles) <= MaxTileInfos
    /\ phase # "flush" => tmem_uploads + 1 < MaxTMEMInstances

IInv == TypeOK /\ NoOverflow /\ Room /\ IndicesResolve

LEMMA InitSound == CachesInit => IInv
<1>. SUFFICES ASSUME CachesInit PROVE IInv
  OBVIOUS
<1>. USE SizeAssumption, StateAssumption DEF CachesInit
<1>1. /\ IsCache(static_raster_state_cache, RasterState, MaxRasterStates)
      /\ static_raster_state_cache.count = 0
  BY NewProperties
<1>2. /\ IsCache(depth_blend_state_cache, BlendState, MaxBlendStates)
      /\ depth_blend_state_cache.count = 0
  BY NewProperties
<1>3. /\ IsCache(tile_info_state_cache, TileInfo, MaxTileInfos)
      /\ tile_info_state_cache.count = 0
  BY NewProperties
<1>4. TypeOK
  BY <1>1, <1>2, <1>3, EmptySeq DEF TypeOK
<1>5. NoOverflow
  BY <1>1, <1>2, <1>3 DEF NoOverflow
<1>6. Room
  BY <1>1, <1>2, <1>3 DEF Room, NeedFlush, Full
<1>7. IndicesResolve
  BY DEF IndicesResolve
<1>. QED BY <1>4, <1>5, <1>6, <1>7 DEF IInv
-----------------------------------------------------------------------------
(* The steps. *)

LEMMA DrawSound ==
    ASSUME IInv, NEW r \in RasterState, NEW b \in BlendState,
           NEW t \in [1 .. NumTiles -> TileInfo],
           NEW jobs \in 0 .. MaxJobs, NEW shaded \in 0 .. MaxTiles,
           DrawShaded(r, b, t, jobs, shaded)
    PROVE  IInv'
<1>. DEFINE R == static_raster_state_cache
            B == depth_blend_state_cache
            n == Len(state_indices)
            m == Len(span_info_jobs)
            q == [raster |-> IndexOf(R, r), blend |-> IndexOf(B, b),
                  instance |-> tmem_uploads % IndexRange, tiles |-> <<>>,
                  offset |-> m, jobs |-> jobs]
            w == [raster |-> r, blend |-> b, instance |-> tmem_uploads, tiles |-> t]
<1>. USE SizeAssumption
<1>1. /\ TypeOK /\ NoOverflow /\ Room /\ IndicesResolve
      /\ phase = "idle" /\ ~NeedFlush
  BY DEF IInv, Room, DrawShaded
<1>2. /\ IsCache(R, RasterState, MaxRasterStates) /\ R.count < MaxRasterStates
      /\ IsCache(B, BlendState, MaxBlendStates) /\ B.count < MaxBlendStates
      /\ tile_info_state_cache.count + NumTiles <= MaxTileInfos
      /\ n \in Nat /\ n < MaxPrimitives /\ m \in Nat /\ m + MaxJobs <= MaxSpanJobs
      /\ max_shaded_tiles + MaxTiles <= MaxTileInstances
      /\ tmem_uploads \in Nat /\ tmem_uploads + 1 < MaxTMEMInstances
  BY <1>1 DEF TypeOK, NoOverflow, Room, NeedFlush, Full, IsCache
<1>3. /\ IsCache(R', RasterState, MaxRasterStates) /\ R'.count <= R.count + 1
      /\ IndexOf(R, r) \in Nat /\ Resolves(R', IndexOf(R, r), r)
      /\ \A i, u : Resolves(R, i, u) => Resolves(R', i, u)
  BY <1>2, AddedProperties DEF DrawShaded
<1>4. /\ IsCache(B', BlendState, MaxBlendStates) /\ B'.count <= B.count + 1
      /\ IndexOf(B, b) \in Nat /\ Resolves(B', IndexOf(B, b), b)
      /\ \A i, u : Resolves(B, i, u) => Resolves(B', i, u)
  BY <1>2, AddedProperties DEF DrawShaded
<1>5. tmem_uploads % IndexRange = tmem_uploads
  <2>1. tmem_uploads \in 0 .. IndexRange - 1
    BY <1>2
  <2>. QED BY <2>1
<1>6. q \in RecordedIndices /\ w \in DrawnStates
  <2>1. <<>> \in Seq(Nat)
    BY EmptySeq
  <2>. QED BY <1>2, <1>3, <1>4, <1>5, <2>1 DEF RecordedIndices, DrawnStates
<1>7. state_indices' = Append(state_indices, q) /\ wanted' = Append(wanted, w)
  BY DEF DrawShaded
<1>8. /\ state_indices' \in Seq(RecordedIndices) /\ Len(state_indices') = n + 1
      /\ \A p \in 1 .. n : state_indices'[p] = state_indices[p]
      /\ state_indices'[n + 1] = q
  BY <1>1, <1>6, <1>7, AppendProperties DEF TypeOK
<1>9. /\ wanted' \in Seq(DrawnStates) /\ Len(wanted') = n + 1
      /\ \A p \in 1 .. n : wanted'[p] = wanted[p]
      /\ wanted'[n + 1] = w
  BY <1>1, <1>6, <1>7, AppendProperties DEF TypeOK
<1>10. /\ span_info_jobs' \in Seq(Nat) /\ Len(span_info_jobs') = m + jobs
       /\ \A j \in 1 .. m : span_info_jobs'[j] = span_info_jobs[j]
       /\ \A j \in m + 1 .. m + jobs : span_info_jobs'[j] = n + 1
  <2>. DEFINE s == JobsOf(jobs)
  <2>1. s \in Seq(Nat) /\ Len(s) = jobs /\ \A j \in 1 .. jobs : s[j] = n + 1
    BY <1>2, IsASeq DEF JobsOf, LastPrimitive
  <2>2. span_info_jobs' = span_info_jobs \o s
    BY DEF DrawShaded
  <2>. HIDE DEF s
  <2>3. span_info_jobs \in Seq(Nat)
    BY <1>1 DEF TypeOK
  <2>4. /\ span_info_jobs \o s \in Seq(Nat) /\ Len(span_info_jobs \o s) = m + jobs
        /\ \A j \in 1 .. m + jobs :
               (span_info_jobs \o s)[j] = IF j <= m THEN span_info_jobs[j] ELSE s[j - m]
    BY <2>1, <2>3, ConcatProperties
  <2>5. \A j \in m + 1 .. m + jobs : j \in 1 .. m + jobs /\ ~(j <= m) /\ j - m \in 1 .. jobs
    BY <1>2
  <2>6. \A j \in 1 .. m : j \in 1 .. m + jobs /\ j <= m
    BY <1>2
  <2>. QED BY <2>1, <2>2, <2>4, <2>5, <2>6
<1>11. /\ phase' = "tiles" /\ UNCHANGED <<tile_info_state_cache, tmem_uploads>>
       /\ max_shaded_tiles' = max_shaded_tiles + shaded
  BY DEF DrawShaded
<1>. HIDE DEF q, w
<1>12. TypeOK'
  BY <1>1, <1>2, <1>3, <1>4, <1>8, <1>9, <1>10, <1>11 DEF TypeOK
<1>13. NoOverflow'
  <2>1. R.count \in Nat /\ R'.count \in Nat /\ B.count \in Nat /\ B'.count \in Nat
    BY <1>2, <1>3, <1>4 DEF IsCache
  <2>2. static_raster_state_cache'.count <= MaxRasterStates
    BY <1>2, <1>3, <2>1
  <2>3. depth_blend_state_cache'.count <= MaxBlendStates
    BY <1>2, <1>4, <2>1
  <2>4. tile_info_state_cache'.count <= MaxTileInfos
    BY <1>1, <1>11 DEF NoOverflow
  <2>5. /\ Len(state_indices') <= MaxPrimitives /\ Len(span_info_jobs') <= MaxSpanJobs
        /\ max_shaded_tiles' <= MaxTileInstances /\ tmem_uploads' < MaxTMEMInstances
    <3>1. max_shaded_tiles \in Nat
      BY <1>1 DEF TypeOK
    <3>. QED BY <1>2, <1>8, <1>10, <1>11, <3>1
  <2>. QED BY <2>2, <2>3, <2>4, <2>5 DEF NoOverflow
<1>14. Room'
  <2>1. Len(q.tiles) = 0
    BY EmptySeq DEF q
  <2>. QED BY <1>2, <1>8, <1>11, <2>1 DEF Room
<1>15. IndicesResolve'
  <2>1. ASSUME NEW p \in 1 .. n
        PROVE  /\ Resolves(R', state_indices'[p].raster, wanted'[p].raster)
               /\ Resolves(B', state_indices'[p].blend, wanted'[p].blend)
               /\ \A i \in 1 .. Len(state_indices'[p].tiles) :
                      Resolves(tile_info_state_cache', state_indices'[p].tiles[i],
                               wanted'[p].tiles[i])
               /\ state_indices'[p].instance = wanted'[p].instance
               /\ \A j \in state_indices'[p].offset + 1
                               .. state_indices'[p].offset + state_indices'[p].jobs :
                      j <= Len(span_info_jobs') /\ span_info_jobs'[j] = p
    <3>1. state_indices'[p] = state_indices[p] /\ wanted'[p] = wanted[p]
      BY <1>8, <1>9
    <3>2. /\ Resolves(R, state_indices[p].raster, wanted[p].raster)
          /\ Resolves(B, state_indices[p].blend, wanted[p].blend)
          /\ \A i \in 1 .. Len(state_indices[p].tiles) :
                 Resolves(tile_info_state_cache, state_indices[p].tiles[i], wanted[p].tiles[i])
          /\ state_indices[p].instance = wanted[p].instance
          /\ \A j \in state_indices[p].offset + 1
                          .. state_indices[p].offset + state_indices[p].jobs :
                 j <= m /\ span_info_jobs[j] = p
      BY <1>1 DEF IndicesResolve
    <3>3. state_indices[p].offset \in Nat /\ state_indices[p].jobs \in Nat
      <4>1. state_indices[p] \in RecordedIndices
        BY <1>1 DEF TypeOK
      <4>. QED BY <4>1 DEF RecordedIndices
    <3>4. \A j \in state_indices[p].offset + 1
                      .. state_indices[p].offset + state_indices[p].jobs :
              j <= Len(span_info_jobs') /\ span_info_jobs'[j] = p
      <4>1. \A j \in state_indices[p].offset + 1
                        .. state_indices[p].offset + state_indices[p].jobs : j \in 1 .. m
        BY <1>2, <3>2, <3>3
      <4>2. \A j \in 1 .. m : j <= Len(span_info_jobs') /\ span_info_jobs'[j] = span_info_jobs[j]
        <5>1. m \in Nat /\ jobs \in Nat
          BY <1>2
        <5>. QED BY <5>1, <1>10
      <4>. QED BY <3>2, <4>1, <4>2
    <3>. QED BY <1>3, <1>4, <1>11, <3>1, <3>2, <3>4
  <2>2. /\ Resolves(R', q.raster, w.raster) /\ Resolves(B', q.blend, w.blend)
        /\ \A i \in 1 .. Len(q.tiles) :
               Resolves(tile_info_state_cache', q.tiles[i], w.tiles[i])
        /\ q.instance = w.instance
        /\ \A j \in q.offset + 1 .. q.offset + q.jobs :
               j <= Len(span_info_jobs') /\ span_info_jobs'[j] = n + 1
    BY <1>2, <1>3, <1>4, <1>5, <1>10, EmptySeq DEF q, w
  <2>3. \A p \in 1 .. Len(state_indices') : p \in 1 .. n \/ p = n + 1
    BY <1>2, <1>8
  <2>. QED BY <1>8, <1>9, <2>1, <2>2, <2>3 DEF IndicesResolve
<1>. QED BY <1>12, <1>13, <1>14, <1>15 DEF IInv

LEMMA AddTileSound ==
    ASSUME IInv, AddTile
    PROVE  IInv'
<1>. DEFINE T == tile_info_state_cache
            n == Len(state_indices)
            k == Len(state_indices[n].tiles)
            t == wanted[n].tiles[k + 1]
            x == IndexOf(T, t)
            q == [state_indices[n] EXCEPT !.tiles = Append(@, x)]
<1>. USE SizeAssumption
<1>1. /\ TypeOK /\ NoOverflow /\ Room /\ IndicesResolve
      /\ phase = "tiles"
  BY DEF IInv, AddTile
<1>2. /\ n \in Nat /\ n > 0 /\ n \in 1 .. n
      /\ state_indices \in Seq(RecordedIndices) /\ state_indices[n] \in RecordedIndices
      /\ wanted \in Seq(DrawnStates) /\ wanted[n] \in DrawnStates
  BY <1>1 DEF TypeOK, Room
<1>3. /\ state_indices[n].tiles \in Seq(Nat) /\ k \in Nat /\ k < NumTiles
      /\ T.count + NumTiles - k <= MaxTileInfos /\ tmem_uploads + 1 < MaxTMEMInstances
  BY <1>1, <1>2 DEF Room, RecordedIndices
<1>4. t \in TileInfo
  <2>1. wanted[n].tiles \in [1 .. NumTiles -> TileInfo]
    BY <1>2 DEF DrawnStates
  <2>. QED BY <1>3, <2>1
<1>5. IsCache(T, TileInfo, MaxTileInfos) /\ T.count < MaxTileInfos
  <2>1. IsCache(T, TileInfo, MaxTileInfos)
    BY <1>1 DEF TypeOK
  <2>2. T.count \in Nat
    BY <2>1 DEF IsCache
  <2>. HIDE DEF T, k
  <2>. QED BY <1>3, <2>1, <2>2
<1>6. /\ T' = Added(T, t)
      /\ state_indices' = [state_indices EXCEPT ![n] = q]
      /\ phase' \in {"drawn", "tiles"} /\ (phase' = "tiles" => k + 1 # NumTiles)
      /\ UNCHANGED <<static_raster_state_cache, depth_blend_state_cache, span_info_jobs,
                     max_shaded_tiles, tmem_uploads, wanted>>
  BY DEF AddTile, LastPrimitive
<1>7. /\ IsCache(T', TileInfo, MaxTileInfos) /\ T'.count <= T.count + 1
      /\ x \in Nat /\ Resolves(T', x, t)
      /\ \A i, u : Resolves(T, i, u) => Resolves(T', i, u)
  BY <1>4, <1>5, <1>6, AddedProperties
<1>. HIDE DEF x, t
<1>8. /\ Append(state_indices[n].tiles, x) \in Seq(Nat)
      /\ Len(Append(state_indices[n].tiles, x)) = k + 1
      /\ \A i \in 1 .. k : Append(state_indices[n].tiles, x)[i] = state_indices[n].tiles[i]
      /\ Append(state_indices[n].tiles, x)[k + 1] = x
  BY <1>3, <1>7, AppendProperties
<1>9. /\ q \in RecordedIndices
      /\ q.raster = state_indices[n].raster /\ q.blend = state_indices[n].blend
      /\ q.instance = state_indices[n].instance
      /\ q.offset = state_indices[n].offset /\ q.jobs = state_indices[n].jobs
      /\ q.tiles = Append(state_indices[n].tiles, x)
  BY <1>2, <1>8 DEF RecordedIndices
<1>. HIDE DEF q
<1>10. /\ state_indices' \in Seq(RecordedIndices) /\ Len(state_indices') = n
       /\ state_indices'[n] = q
       /\ \A p \in 1 .. n : p # n => state_indices'[p] = state_indices[p]
  BY <1>2, <1>6, <1>9, ExceptSeq
<1>11. TypeOK'
  BY <1>1, <1>6, <1>7, <1>10 DEF TypeOK
<1>12. NoOverflow'
  <2>1. tile_info_state_cache'.count <= MaxTileInfos
    BY <1>7 DEF IsCache
  <2>. QED BY <1>1, <1>6, <1>10, <2>1 DEF NoOverflow
<1>13. Room'
  <2>1. Len(state_indices'[Len(state_indices')].tiles) = k + 1
    BY <1>8, <1>9, <1>10
  <2>2. T.count \in Nat /\ T'.count \in Nat
    BY <1>5, <1>7 DEF IsCache
  <2>3. phase' = "tiles" => k + 1 < NumTiles
    <3>. HIDE DEF k
    <3>. QED BY <1>3, <1>6
  <2>4. T'.count + NumTiles - (k + 1) <= MaxTileInfos
    BY <1>3, <1>7, <2>2
  <2>. QED BY <1>2, <1>3, <1>6, <1>10, <2>1, <2>3, <2>4 DEF Room
<1>14. IndicesResolve'
  <2>1. ASSUME NEW p \in 1 .. n
        PROVE  /\ Resolves(static_raster_state_cache, state_indices'[p].raster,
                           wanted[p].raster)
               /\ Resolves(depth_blend_state_cache, state_indices'[p].blend, wanted[p].blend)
               /\ state_indices'[p].instance = wanted[p].instance
               /\ \A j \in state_indices'[p].offset + 1
                               .. state_indices'[p].offset + state_indices'[p].jobs :
                      j <= Len(span_info_jobs) /\ span_info_jobs[j] = p
    <3>1. /\ state_indices'[p].raster = state_indices[p].raster
          /\ state_indices'[p].blend = state_indices[p].blend
          /\ state_indices'[p].instance = state_indices[p].instance
          /\ state_indices'[p].offset = state_indices[p].offset
          /\ state_indices'[p].jobs = state_indices[p].jobs
      BY <1>9, <1>10
    <3>. QED BY <1>1, <3>1 DEF IndicesResolve
  <2>2. ASSUME NEW p \in 1 .. n, NEW i \in 1 .. Len(state_indices'[p].tiles)
        PROVE  Resolves(T', state_indices'[p].tiles[i], wanted[p].tiles[i])
    <3>1. CASE p # n
      BY <1>1, <1>7, <1>10, <3>1 DEF IndicesResolve
    <3>2. CASE p = n /\ i = k + 1
      BY <1>7, <1>8, <1>9, <1>10, <3>2 DEF t
    <3>3. CASE p = n /\ i # k + 1
      <4>1. i \in 1 .. k
        BY <1>3, <1>8, <1>9, <1>10, <3>3
      <4>2. Resolves(T, state_indices[n].tiles[i], wanted[n].tiles[i])
        BY <1>1, <1>2, <4>1 DEF IndicesResolve
      <4>. QED BY <1>7, <1>8, <1>9, <1>10, <3>3, <4>1, <4>2
    <3>. QED BY <3>1, <3>2, <3>3
  <2>. QED BY <1>6, <1>10, <2>1, <2>2 DEF IndicesResolve
<1>. QED BY <1>11, <1>12, <1>13, <1>14 DEF IInv

LEMMA EndDrawSound ==
    ASSUME IInv, EndDraw
    PROVE  IInv'
<1>1. TypeOK'
  BY DEF IInv, EndDraw, TypeOK, caches
<1>2. NoOverflow'
  BY DEF IInv, EndDraw, NoOverflow, caches
<1>3. Room'
  BY DEF IInv, EndDraw, Room, NeedFlush, Full, caches
<1>4. IndicesResolve'
  BY DEF IInv, EndDraw, IndicesResolve, caches
<1>. QED BY <1>1, <1>2, <1>3, <1>4 DEF IInv

LEMMA LoadTileSound ==
    ASSUME IInv, LoadTileIteration
    PROVE  IInv'
<1>. USE SizeAssumption
<1>1. TypeOK'
  BY DEF IInv, LoadTileIteration, TypeOK, caches
<1>2. NoOverflow'
  BY DEF IInv, LoadTileIteration, NoOverflow, Room, TypeOK, caches
<1>3. Room'
  BY DEF IInv, LoadTileIteration, Room, NeedFlush, Full, TMEMFull, TypeOK, caches
<1>4. IndicesResolve'
  BY DEF IInv, LoadTileIteration, IndicesResolve, caches
<1>. QED BY <1>1, <1>2, <1>3, <1>4 DEF IInv

LEMMA FlushSound ==
    ASSUME IInv, Flush
    PROVE  IInv'
<1>. USE SizeAssumption DEF Flush
<1>1. /\ IsCache(static_raster_state_cache', RasterState, MaxRasterStates)
      /\ static_raster_state_cache'.count = 0
  BY ResetProperties DEF IInv, TypeOK
<1>2. /\ IsCache(depth_blend_state_cache', BlendState, MaxBlendStates)
      /\ depth_blend_state_cache'.count = 0
  BY ResetProperties DEF IInv, TypeOK
<1>3. /\ IsCache(tile_info_state_cache', TileInfo, MaxTileInfos)
      /\ tile_info_state_cache'.count = 0
  BY ResetProperties DEF IInv, TypeOK
<1>4. TypeOK'
  BY <1>1, <1>2, <1>3, EmptySeq DEF TypeOK
<1>5. NoOverflow'
  BY <1>1, <1>2, <1>3 DEF NoOverflow
<1>6. Room'
  BY <1>1, <1>2, <1>3 DEF Room, NeedFlush, Full
<1>7. IndicesResolve'
  BY DEF IndicesResolve
<1>. QED BY <1>4, <1>5, <1>6, <1>7 DEF IInv

LEMMA Inductive == CachesSpec => []IInv
<1>1. CachesInit => IInv
  BY InitSound
<1>2. IInv /\ [CachesNext]_cachesVars => IInv'
  <2>. SUFFICES ASSUME IInv, [CachesNext]_cachesVars PROVE IInv'
    OBVIOUS
  <2>1. ASSUME NEW r \in RasterState, NEW b \in BlendState,
               NEW t \in [1 .. NumTiles -> TileInfo],
               NEW jobs \in 0 .. MaxJobs, NEW shaded \in 0 .. MaxTiles,
               DrawShaded(r, b, t, jobs, shaded)
        PROVE  IInv'
    BY <2>1, DrawSound
  <2>2. CASE AddTile
    BY <2>2, AddTileSound
  <2>3. CASE EndDraw
    BY <2>3, EndDrawSound
  <2>4. CASE LoadTileIteration
    BY <2>4, LoadTileSound
  <2>5. CASE Flush
    BY <2>5, FlushSound
  <2>6. CASE UNCHANGED cachesVars
    BY <2>6 DEF cachesVars, caches, IInv, TypeOK, NoOverflow, Room, IndicesResolve, NeedFlush, Full
  <2>. QED BY <2>1, <2>2, <2>3, <2>4, <2>5, <2>6 DEF CachesNext
<1>. QED BY <1>1, <1>2, PTL DEF CachesSpec
-----------------------------------------------------------------------------
(* Jobs and caches take turns. *)
LEMMA CachesOfSpec == Spec => []IInv
<1>1. Init => CachesInit
  BY DEF Init
<1>2. [Next]_<<job, cachesVars>> => [CachesNext]_cachesVars
  BY DEF Next, Collect
<1>3. Spec => CachesSpec
  BY <1>1, <1>2, PTL DEF Spec, CachesSpec
<1>. QED BY <1>3, Inductive

(* Every variable of the caches has its type: what is valid of a cache has *)
(* values of it, and one record of what was asked belongs to each          *)
(* primitive.                                                              *)
THEOREM TypeCorrect == Spec => []TypeOK
<1>1. IInv => TypeOK
  BY DEF IInv
<1>. QED BY <1>1, CachesOfSpec, PTL

(* However large the caches are, and whatever is drawn, need_flush leaves  *)
(* room: no add() is called on a full cache, no span job, tile instance or *)
(* TMEM instance is beyond what was allocated.                             *)
THEOREM CachesNeverOverflow == Spec => []NoOverflow
<1>1. IInv => NoOverflow
  BY DEF IInv
<1>. QED BY <1>1, CachesOfSpec, PTL

(* Whatever add() finds, the cached element, an earlier one or none, the   *)
(* indices of every primitive lead to the states it was drawn with, and    *)
(* its span jobs and TMEM instance are its own.                            *)
THEOREM IndicesAreTrue == Spec => []IndicesResolve
<1>1. IInv => IndicesResolve
  BY DEF IInv
<1>. QED BY <1>1, CachesOfSpec, PTL
-----------------------------------------------------------------------------
(* Static states that registers can hold: one cycle mode, and inputs that  *)
(* the slots of the combiner can take.                                     *)
Selected == UNION {Selectors(slot) : slot \in Slots}
CombinerCycles == {c \in [Slots -> Selected] : \A slot \in Slots : c[slot] \in Selectors(slot)}
DeducedFlags == {"static_texture", "uses_texel0", "uses_texel1", "uses_pipelined_texel1", "uses_lod",
                 "need_noise", "need_noise_dual"}

IsState(s) == s = [flags |-> s.flags, combiner |-> s.combiner, dither |-> s.dither, texture |-> s.texture]
Settable(s) ==
    /\ IsState(s) /\ s.combiner \in [1 .. 2 -> CombinerCycles]
    /\ \A f, g \in {"multi_cycle", "copy", "fill"} : f \in s.flags /\ g \in s.flags => f = g

(* A slot of the combiner selects one of its inputs.                       *)
LEMMA CycleTaken ==
    ASSUME NEW c \in CombinerCycles, NEW slot \in Slots
    PROVE  c[slot] \in Selectors(slot)
<1>. QED BY DEF CombinerCycles

(* What a slot selects is there after normalisation, in the selector or in *)
(* the constant.                                                           *)
LEMMA SelectedStays ==
    ASSUME NEW slot \in Slots, NEW selector \in Selectors(slot)
    PROVE  /\ Select(slot, selector, Constant(slot, selector)) = selector
           /\ selector \notin Kept(slot) => Select(slot, "Zero", Constant(slot, selector)) = selector
<1>0. slot \in {"rgb_muladd", "rgb_mulsub", "rgb_mul", "rgb_add",
               "alpha_muladd", "alpha_mulsub", "alpha_mul", "alpha_add"}
  BY DEF Slots
<1>1. CASE slot = "rgb_muladd"
  BY <1>1 DEF Selectors, Common, Kept, Constant, Select
<1>2. CASE slot = "rgb_mulsub"
  BY <1>2 DEF Selectors, Common, Kept, Constant, Select
<1>3. CASE slot = "rgb_mul"
  BY <1>3 DEF Selectors, Common, Alphas, Kept, Constant, Select
<1>4. CASE slot = "rgb_add"
  BY <1>4 DEF Selectors, Common, Kept, Constant, Select
<1>5. CASE slot = "alpha_mul"
  BY <1>5 DEF Selectors, Alphas, Kept, Constant, Select
<1>6. CASE slot \in {"alpha_muladd", "alpha_mulsub", "alpha_add"}
  BY <1>6 DEF Selectors, Alphas, Kept, Constant, Select
<1>. QED BY <1>0, <1>1, <1>2, <1>3, <1>4, <1>5, <1>6

(* A state with other flags, or with another texture too.                  *)
LEMMA StateWith ==
    ASSUME NEW s, IsState(s), NEW f, NEW x
    PROVE  /\ [s EXCEPT !.flags = f] = [flags |-> f, combiner |-> s.combiner, dither |-> s.dither, texture |-> s.texture]
           /\ [s EXCEPT !.flags = f, !.texture = x]
                  = [flags |-> f, combiner |-> s.combiner, dither |-> s.dither, texture |-> x]
<1>. DEFINE a == s.flags b == s.combiner c == s.dither d == s.texture
<1>1. s = [flags |-> a, combiner |-> b, dither |-> c, texture |-> d]
  BY DEF IsState
<1>. HIDE DEF a, b, c, d
<1>2. [s EXCEPT !.flags = f] = [flags |-> f, combiner |-> b, dither |-> c, texture |-> d]
  BY <1>1
<1>3. PICK r : r = [s EXCEPT !.flags = f]
  OBVIOUS
<1>4. r = [flags |-> f, combiner |-> b, dither |-> c, texture |-> d]
  BY <1>2, <1>3
<1>5. [r EXCEPT !.texture = x] = [flags |-> f, combiner |-> b, dither |-> c, texture |-> x]
  BY <1>4
<1>6. [s EXCEPT !.flags = f, !.texture = x] = [r EXCEPT !.texture = x]
  BY <1>3
<1>. QED BY <1>2, <1>5, <1>6 DEF b, c, d

(* A state with other flags and other inputs of the combiner.              *)
LEMMA StateWithInputs ==
    ASSUME NEW s, IsState(s), NEW f, NEW x
    PROVE  [s EXCEPT !.flags = f, !.combiner = x] = [flags |-> f, combiner |-> x, dither |-> s.dither, texture |-> s.texture]
<1>. DEFINE a == s.flags b == s.combiner c == s.dither d == s.texture
<1>1. s = [flags |-> a, combiner |-> b, dither |-> c, texture |-> d]
  BY DEF IsState
<1>. HIDE DEF a, b, c, d
<1>2. [s EXCEPT !.flags = f] = [flags |-> f, combiner |-> b, dither |-> c, texture |-> d]
  BY <1>1
<1>3. PICK r : r = [s EXCEPT !.flags = f]
  OBVIOUS
<1>4. r = [flags |-> f, combiner |-> b, dither |-> c, texture |-> d]
  BY <1>2, <1>3
<1>5. [r EXCEPT !.combiner = x] = [flags |-> f, combiner |-> x, dither |-> c, texture |-> d]
  BY <1>4
<1>6. [s EXCEPT !.flags = f, !.combiner = x] = [r EXCEPT !.combiner = x]
  BY <1>3
<1>. QED BY <1>5, <1>6 DEF b, c, d

(* A flag that is deduced from a condition.                                *)
LEMMA GivenIs ==
    ASSUME NEW b \in BOOLEAN, NEW flag, NEW f
    PROVE  f \in Given(b, flag) <=> b /\ f = flag
<1>. QED BY Zenon DEF Given

(* The fields of a state that is built from its fields. *)
LEMMA StateIs ==
    ASSUME NEW a, NEW b, NEW c, NEW d, NEW s, s = [flags |-> a, combiner |-> b, dither |-> c, texture |-> d]
    PROVE  IsState(s) /\ s.flags = a /\ s.combiner = b /\ s.dither = c /\ s.texture = d
<1>. QED BY DEF IsState
(* Deduction of the noise changes the two flags of the noise, and whoever  *)
(* reads the noise gets it.                                                *)
LEMMA NoiseShape ==
    ASSUME NEW s, IsState(s), NEW t, t = DeduceNoise(s)
    PROVE  /\ IsState(t) /\ t.combiner = s.combiner /\ t.dither = s.dither /\ t.texture = s.texture
           /\ \A f : f \notin {"need_noise", "need_noise_dual"} => (f \in t.flags <=> f \in s.flags)
           /\ ReadsNoise(t) => "need_noise" \in t.flags
<1>. DEFINE dithers  == s.dither[1] = 2 \/ s.dither[2] = 2
            Noisy(i) == s.combiner[i]["rgb_muladd"] = "Noise"
            flags    == s.flags \ {"need_noise", "need_noise_dual"}
            drawn    == flags \intersect {"copy", "fill"} = {}
            combined == (MultiCycle(s) /\ Noisy(1)) \/ Noisy(2)
            tested   == {"alpha_test", "alpha_test_dither"} \subseteq flags
            one      == dithers \/ (drawn /\ (combined \/ tested))
            two      == ~dithers /\ drawn /\ MultiCycle(s) /\ Noisy(1) /\ Noisy(2)
            more     == flags \union Given(one, "need_noise") \union Given(two, "need_noise_dual")
<1>1. t = [s EXCEPT !.flags = more]
  BY DEF DeduceNoise
<1>2. t = [flags |-> more, combiner |-> s.combiner, dither |-> s.dither, texture |-> s.texture]
  <2>. HIDE DEF more
  <2>. QED BY <1>1, StateWith
<1>3. \A f : f \in more <=> \/ f \in s.flags /\ f \notin {"need_noise", "need_noise_dual"}
                            \/ f = "need_noise" /\ one
                            \/ f = "need_noise_dual" /\ two
  <2>1. one \in BOOLEAN /\ two \in BOOLEAN
    OBVIOUS
  <2>. HIDE DEF one, two
  <2>2. \A f : /\ f \in Given(one, "need_noise") <=> one /\ f = "need_noise"
               /\ f \in Given(two, "need_noise_dual") <=> two /\ f = "need_noise_dual"
    BY <2>1, GivenIs
  <2>. QED BY <2>2
<1>4. t.flags = more /\ t.combiner = s.combiner /\ t.dither = s.dither /\ t.texture = s.texture /\ IsState(t)
  <2>. HIDE DEF more
  <2>. QED BY <1>2, StateIs
<1>5. \A f : f \notin {"need_noise", "need_noise_dual"} => (f \in t.flags <=> f \in s.flags)
  <2>. HIDE DEF one, two, more
  <2>. QED BY <1>3, <1>4
<1>6. ASSUME ReadsNoise(t) PROVE "need_noise" \in t.flags
  <2>1. MultiCycle(t) <=> MultiCycle(s)
    BY <1>5 DEF MultiCycle
  <2>2. t.flags \intersect {"copy", "fill"} = {} => drawn
    BY <1>5
  <2>3. {"alpha_test", "alpha_test_dither"} \subseteq t.flags => tested
    BY <1>5
  <2>4. one
    BY <1>4, <1>6, <2>1, <2>2, <2>3 DEF ReadsNoise
  <2>. HIDE DEF one, two, more
  <2>. QED BY <1>3, <1>4, <2>4
<1>. QED BY <1>4, <1>5, <1>6

(* Whether the second texel is sampled rather than converted. *)
Physical(s) == UsesTexel1(s) /\ ("convert_one" \notin s.flags \/ "bilerp1" \in s.flags)
(* Deduction of the texture: which texels are used, and that a format      *)
(* which is compiled in is that of every tile in reach.                    *)
LEMMA TextureShape ==
    ASSUME NEW raw, IsState(raw), NEW tiles, NEW tile, NEW max_level, NEW t,
           t = DeduceTexture(raw, tiles, tile, max_level)
    PROVE  /\ IsState(t) /\ t.combiner = raw.combiner /\ t.dither = raw.dither
           /\ \A f : f \notin DeducedFlags => (f \in t.flags <=> f \in raw.flags)
           /\ "fill" \notin raw.flags /\ "copy" \in raw.flags =>
                  "static_texture" \in t.flags /\ t.texture = tiles[tile]
           /\ raw.flags \intersect {"copy", "fill"} = {} =>
                  /\ "uses_texel1" \in t.flags <=> UsesTexel1(raw)
                  /\ "uses_texel0" \in t.flags <=> UsesTexel0(raw) \/ (UsesTexel1(raw) /\ "convert_one" \in raw.flags)
                  /\ "uses_pipelined_texel1" \in t.flags <=> UsesPipelinedTexel1(raw)
                  /\ "uses_lod" \in t.flags <=> UsesLodFrac(raw) \/ "tex_lod" \in raw.flags
                  /\ "static_texture" \in t.flags =>
                         /\ t.texture = tiles[tile]
                         /\ \A i \in 1 .. LastTile(t.flags, Physical(raw), max_level) :
                                tiles[(tile + i) % 8] = tiles[tile]
<1>. DEFINE base   == [raw EXCEPT !.flags = @ \ {"static_texture"}, !.texture = <<>>]
            flags  == base.flags
            static == [base EXCEPT !.flags = @ \union {"static_texture"}, !.texture = tiles[tile]]
            texel1 == UsesTexel1(raw)
            texel0 == UsesTexel0(raw) \/ (texel1 /\ "convert_one" \in flags)
            pipelined == UsesPipelinedTexel1(raw)
            lod    == UsesLodFrac(raw) \/ "tex_lod" \in flags
            used   == Given(texel0, "uses_texel0") \union Given(texel1, "uses_texel1")
                      \union Given(pipelined, "uses_pipelined_texel1")
                      \union Given(lod, "uses_lod")
            uses   == {"uses_texel0", "uses_texel1", "uses_pipelined_texel1", "uses_lod"}
            Used(s) == [s EXCEPT !.flags = (@ \ uses) \union used]
            physical == texel1 /\ ("convert_one" \notin flags \/ "bilerp1" \in flags)
            alike  == \A i \in 1 .. LastTile(flags, physical, max_level) : tiles[(tile + i) % 8] = tiles[tile]
<1>1. t = IF "fill" \in flags THEN base
          ELSE IF "copy" \in flags THEN static
          ELSE IF ~(texel0 \/ texel1 \/ pipelined) \/ ~alike THEN Used(base)
          ELSE Used(static)
  BY DEF DeduceTexture
<1>2. base = [flags |-> raw.flags \ {"static_texture"}, combiner |-> raw.combiner, dither |-> raw.dither, texture |-> <<>>]
  BY StateWith
<1>3. flags = raw.flags \ {"static_texture"} /\ IsState(base) /\ base.flags = flags /\ base.combiner = raw.combiner
      /\ base.dither = raw.dither /\ base.texture = <<>>
  <2>. HIDE DEF base
  <2>. QED BY <1>2, StateIs
<1>4. static = [flags |-> flags \union {"static_texture"}, combiner |-> raw.combiner, dither |-> raw.dither,
                texture |-> tiles[tile]]
  <2>. HIDE DEF base, flags
  <2>1. [base EXCEPT !.flags = base.flags \union {"static_texture"}, !.texture = tiles[tile]] =
            [flags |-> base.flags \union {"static_texture"}, combiner |-> base.combiner, dither |-> base.dither,
             texture |-> tiles[tile]]
    BY <1>3, StateWith
  <2>. QED BY <1>3, <2>1
<1>5. \A f : f \in used <=> \/ f = "uses_texel0" /\ texel0
                            \/ f = "uses_texel1" /\ texel1
                            \/ f = "uses_pipelined_texel1" /\ pipelined
                            \/ f = "uses_lod" /\ lod
  <2>1. texel0 \in BOOLEAN /\ texel1 \in BOOLEAN /\ pipelined \in BOOLEAN /\ lod \in BOOLEAN
    BY DEF UsesTexel1, UsesPipelinedTexel1
  <2>. HIDE DEF texel0, texel1, pipelined, lod
  <2>2. \A f : /\ f \in Given(texel0, "uses_texel0") <=> texel0 /\ f = "uses_texel0"
               /\ f \in Given(texel1, "uses_texel1") <=> texel1 /\ f = "uses_texel1"
               /\ f \in Given(pipelined, "uses_pipelined_texel1") <=> pipelined /\ f = "uses_pipelined_texel1"
               /\ f \in Given(lod, "uses_lod") <=> lod /\ f = "uses_lod"
    BY <2>1, GivenIs
  <2>. QED BY <2>2
<1>6. Used(base) = [flags |-> (flags \ uses) \union used, combiner |-> raw.combiner, dither |-> raw.dither, texture |-> <<>>]
  <2>. HIDE DEF used, base, flags
  <2>1. [base EXCEPT !.flags = (base.flags \ uses) \union used] =
            [flags |-> (base.flags \ uses) \union used, combiner |-> base.combiner, dither |-> base.dither,
             texture |-> base.texture]
    BY <1>3, StateWith
  <2>. QED BY <1>3, <2>1
<1>7. Used(static) = [flags |-> ((flags \union {"static_texture"}) \ uses) \union used, combiner |-> raw.combiner,
                      dither |-> raw.dither, texture |-> tiles[tile]]
  <2>. HIDE DEF used, flags, base, static
  <2>1. IsState(static) /\ static.flags = flags \union {"static_texture"} /\ static.combiner = raw.combiner
        /\ static.dither = raw.dither /\ static.texture = tiles[tile]
    BY <1>4, StateIs
  <2>2. [static EXCEPT !.flags = (static.flags \ uses) \union used] =
            [flags |-> (static.flags \ uses) \union used, combiner |-> static.combiner, dither |-> static.dither,
             texture |-> static.texture]
    BY <2>1, StateWith
  <2>. QED BY <2>1, <2>2
<1>8. /\ texel0 <=> UsesTexel0(raw) \/ (UsesTexel1(raw) /\ "convert_one" \in raw.flags)
      /\ lod <=> UsesLodFrac(raw) \/ "tex_lod" \in raw.flags
      /\ physical <=> Physical(raw)
  <2>1. "convert_one" \in flags <=> "convert_one" \in raw.flags
    BY <1>3
  <2>2. "bilerp1" \in flags <=> "bilerp1" \in raw.flags
    BY <1>3
  <2>3. "tex_lod" \in flags <=> "tex_lod" \in raw.flags
    BY <1>3
  <2>. HIDE DEF flags, base
  <2>. QED BY <2>1, <2>2, <2>3 DEF Physical
<1>9. alike <=> \A i \in 1 .. LastTile(flags, Physical(raw), max_level) : tiles[(tile + i) % 8] = tiles[tile]
  <2>. HIDE DEF physical, flags
  <2>1. physical = Physical(raw)
    BY <1>8 DEF physical, Physical
  <2>. QED BY <2>1
<1>10. "fill" \in flags <=> "fill" \in raw.flags
  BY <1>3
<1>11. "copy" \in flags <=> "copy" \in raw.flags
  BY <1>3
<1>. HIDE DEF used, alike, physical, texel0, texel1, pipelined, lod, base, flags, static, Used
<1>12. CASE "fill" \in raw.flags
  BY <1>1, <1>3, <1>10, <1>12 DEF DeducedFlags
<1>13. CASE "fill" \notin raw.flags /\ "copy" \in raw.flags
  BY <1>1, <1>3, <1>4, <1>10, <1>11, <1>13 DEF IsState, DeducedFlags
<1>14. CASE "fill" \notin raw.flags /\ "copy" \notin raw.flags /\ (~(texel0 \/ texel1 \/ pipelined) \/ ~alike)
  <2>1. t = Used(base)
    BY <1>1, <1>10, <1>11, <1>14
  <2>2. \A f : f \in t.flags <=> (f \in raw.flags /\ f \notin uses /\ f # "static_texture") \/ f \in used
    BY <2>1, <1>6, <1>3
  <2>. QED BY <2>1, <2>2, <1>6, <1>5, <1>8, <1>14 DEF IsState, DeducedFlags, texel1, pipelined
<1>15. CASE "fill" \notin raw.flags /\ "copy" \notin raw.flags /\ ~(~(texel0 \/ texel1 \/ pipelined) \/ ~alike)
  <2>1. t = Used(static)
    BY <1>1, <1>10, <1>11, <1>15
  <2>2. \A f : f \in t.flags <=> (f \in raw.flags /\ f \notin uses) \/ f = "static_texture" \/ f \in used
    BY <2>1, <1>7, <1>3, <1>5
  <2>3. IsState(t) /\ t.combiner = raw.combiner /\ t.dither = raw.dither /\ t.texture = tiles[tile]
    BY <2>1, <1>7 DEF IsState
  <2>4. LastTile(t.flags, Physical(raw), max_level) = LastTile(flags, Physical(raw), max_level)
    <3>1. /\ "tex_lod" \in t.flags <=> "tex_lod" \in flags
          /\ "detail" \in t.flags <=> "detail" \in flags
      BY <2>2, <1>3, <1>5
    <3>. QED BY <3>1 DEF LastTile
  <2>5. \A f : f \notin DeducedFlags => (f \in t.flags <=> f \in raw.flags)
    BY <2>2, <1>5 DEF DeducedFlags
  <2>. QED BY <2>2, <2>3, <2>4, <2>5, <1>5, <1>8, <1>9, <1>15 DEF texel1, pipelined
<1>. QED BY <1>12, <1>13, <1>14, <1>15

(* The state of a primitive, once deduced. *)
LEMMA DeducedShape ==
    ASSUME NEW raw, Settable(raw), NEW tiles, NEW tile, NEW max_level, NEW state,
           state = Deduced(raw, tiles, tile, max_level)
    PROVE  /\ IsState(state) /\ state.combiner = raw.combiner /\ state.dither = raw.dither
           /\ \A f : f \notin DeducedFlags => (f \in state.flags <=> f \in raw.flags)
           /\ ReadsNoise(state) => "need_noise" \in state.flags
           /\ "fill" \notin raw.flags /\ "copy" \in raw.flags =>
                  "static_texture" \in state.flags /\ state.texture = tiles[tile]
           /\ raw.flags \intersect {"copy", "fill"} = {} =>
                  /\ "uses_texel1" \in state.flags <=> UsesTexel1(raw)
                  /\ "uses_texel0" \in state.flags <=> UsesTexel0(raw) \/ (UsesTexel1(raw) /\ "convert_one" \in raw.flags)
                  /\ "uses_pipelined_texel1" \in state.flags <=> UsesPipelinedTexel1(raw)
                  /\ "uses_lod" \in state.flags <=> UsesLodFrac(raw) \/ "tex_lod" \in raw.flags
                  /\ "static_texture" \in state.flags =>
                         /\ state.texture = tiles[tile]
                         /\ \A i \in 1 .. LastTile(raw.flags, Physical(raw), max_level) :
                                tiles[(tile + i) % 8] = tiles[tile]
<1>. DEFINE t == DeduceTexture(raw, tiles, tile, max_level)
<1>1. IsState(raw)
  BY DEF Settable
<1>2. state = DeduceNoise(t)
  BY DEF Deduced
<1>. HIDE DEF t
<1>3. /\ IsState(t) /\ t.combiner = raw.combiner /\ t.dither = raw.dither
      /\ \A f : f \notin DeducedFlags => (f \in t.flags <=> f \in raw.flags)
  BY <1>1, TextureShape DEF t
<1>4. "fill" \notin raw.flags /\ "copy" \in raw.flags => "static_texture" \in t.flags /\ t.texture = tiles[tile]
  BY <1>1, TextureShape DEF t
<1>5. raw.flags \intersect {"copy", "fill"} = {} =>
          /\ "uses_texel1" \in t.flags <=> UsesTexel1(raw)
          /\ "uses_texel0" \in t.flags <=> UsesTexel0(raw) \/ (UsesTexel1(raw) /\ "convert_one" \in raw.flags)
          /\ "uses_pipelined_texel1" \in t.flags <=> UsesPipelinedTexel1(raw)
          /\ "uses_lod" \in t.flags <=> UsesLodFrac(raw) \/ "tex_lod" \in raw.flags
          /\ "static_texture" \in t.flags =>
                 /\ t.texture = tiles[tile]
                 /\ \A i \in 1 .. LastTile(t.flags, Physical(raw), max_level) :
                        tiles[(tile + i) % 8] = tiles[tile]
  BY <1>1, TextureShape DEF t
<1>6. /\ IsState(state) /\ state.combiner = t.combiner /\ state.dither = t.dither /\ state.texture = t.texture
      /\ \A f : f \notin {"need_noise", "need_noise_dual"} => (f \in state.flags <=> f \in t.flags)
      /\ ReadsNoise(state) => "need_noise" \in state.flags
  BY <1>2, <1>3, NoiseShape
<1>7. LastTile(t.flags, Physical(raw), max_level) = LastTile(raw.flags, Physical(raw), max_level)
  <2>1. /\ "tex_lod" \in t.flags <=> "tex_lod" \in raw.flags
        /\ "detail" \in t.flags <=> "detail" \in raw.flags
    BY <1>3 DEF DeducedFlags
  <2>. QED BY <2>1 DEF LastTile
<1>8. \A f : f \notin DeducedFlags => (f \in state.flags <=> f \in raw.flags)
  BY <1>3, <1>6 DEF DeducedFlags
<1>. QED BY <1>3, <1>4, <1>5, <1>6, <1>7, <1>8

(* Which conversions of texels are in a state, once normalised. *)
Converts(s) == s.flags \intersect {"multi_cycle", "uses_pipelined_texel1"} # {}
(* What normalisation keeps, in each cycle mode.                           *)
LEMMA NormalShape ==
    ASSUME NEW s, IsState(s), NEW n, n = Normalize(s)
    PROVE  /\ "fill" \in s.flags => n.flags = {"fill"}
           /\ "fill" \notin s.flags /\ "copy" \in s.flags =>
                  /\ n.texture = s.texture
                  /\ n.flags = s.flags \intersect {"copy", "tlut", "tlut_type", "uses_texel0", "static_texture", "tex_lod",
                                                   "detail", "perspective", "alpha_test"}
           /\ "fill" \notin s.flags /\ "copy" \notin s.flags =>
                  /\ n.texture = s.texture /\ n.dither = s.dither
                  /\ n.combiner = [i \in 1 .. 2 |-> NormalizeCycle(s.combiner[i])]
                  /\ \A f : f \in n.flags <=> f \in s.flags /\ (f \in {"bilerp1", "convert_one"} => Converts(s))
<1>. DEFINE none == [flags |-> {"fill"}, combiner |-> <<Blank, Blank>>, dither |-> <<0, 0>>, texture |-> <<>>]
            copied == {"copy", "tlut", "tlut_type", "uses_texel0", "static_texture", "tex_lod", "detail",
                       "perspective", "alpha_test"}
            unused == IF s.flags \intersect {"multi_cycle", "uses_pipelined_texel1"} = {}
                      THEN {"bilerp1", "convert_one"} ELSE {}
<1>1. n = IF "fill" \in s.flags THEN none
          ELSE IF "copy" \in s.flags
          THEN [none EXCEPT !.flags = s.flags \intersect copied, !.texture = s.texture]
          ELSE [s EXCEPT !.flags = @ \ unused, !.combiner = [i \in 1 .. 2 |-> NormalizeCycle(@[i])]]
  BY DEF Normalize
<1>2. IsState(none) /\ none.flags = {"fill"} /\ none.texture = <<>>
  BY StateIs
<1>3. CASE "fill" \in s.flags
  BY <1>1, <1>2, <1>3
<1>4. CASE "fill" \notin s.flags /\ "copy" \in s.flags
  <2>. HIDE DEF none, copied
  <2>1. n = [flags |-> s.flags \intersect copied, combiner |-> none.combiner, dither |-> none.dither, texture |-> s.texture]
    BY <1>1, <1>2, <1>4, StateWith
  <2>. QED BY <1>4, <2>1 DEF copied
<1>5. CASE "fill" \notin s.flags /\ "copy" \notin s.flags
  <2>. HIDE DEF none, copied, unused
  <2>1. n = [s EXCEPT !.flags = s.flags \ unused, !.combiner = [i \in 1 .. 2 |-> NormalizeCycle(s.combiner[i])]]
    BY <1>1, <1>5
  <2>2. n = [flags |-> s.flags \ unused, combiner |-> [i \in 1 .. 2 |-> NormalizeCycle(s.combiner[i])],
             dither |-> s.dither, texture |-> s.texture]
    BY <2>1, StateWithInputs
  <2>3. n.flags = s.flags \ unused /\ n.combiner = [i \in 1 .. 2 |-> NormalizeCycle(s.combiner[i])]
        /\ n.dither = s.dither /\ n.texture = s.texture
    BY <2>2, StateIs
  <2>4. \A f : f \in unused <=> f \in {"bilerp1", "convert_one"} /\ ~Converts(s)
    BY DEF unused, Converts
  <2>. QED BY <1>5, <2>3, <2>4
<1>. QED BY <1>3, <1>4, <1>5

(* The inputs of a pixel, of the cycles that the combiner was told; the    *)
(* second of two has the texels in each other's place.                     *)
Swapped(input) == CASE input = "Texel0" -> "Texel1" [] input = "Texel1" -> "Texel0"
                    [] input = "Texel0Alpha" -> "Texel1Alpha"
                    [] input = "Texel1Alpha" -> "Texel0Alpha" [] OTHER -> input
CombinedOf(two, cycles) ==
    IF two THEN <<cycles[1], [slot \in Slots |-> Swapped(cycles[2][slot])]>> ELSE <<cycles[2]>>
(* Normalised or not, with constants of the state as it was, the combiner  *)
(* reads the inputs that were selected.                                    *)
LEMMA CombinedAsTold ==
    ASSUME NEW s, NEW raw, raw.combiner \in [1 .. 2 -> CombinerCycles],
           s.combiner = raw.combiner \/ s.combiner = [i \in 1 .. 2 |-> NormalizeCycle(raw.combiner[i])]
    PROVE  Combined(s, raw) = CombinedOf(MultiCycle(s), raw.combiner)
<1>. DEFINE Cycle(i) == [slot \in Slots |-> Select(slot, s.combiner[i][slot],
                                                   Constant(slot, raw.combiner[i][slot]))]
<1>1. \A i \in 1 .. 2 : Cycle(i) = raw.combiner[i]
  <2>. SUFFICES ASSUME NEW i \in 1 .. 2 PROVE Cycle(i) = raw.combiner[i]
    OBVIOUS
  <2>1. raw.combiner[i] \in CombinerCycles
    OBVIOUS
  <2>2. raw.combiner[i] = [slot \in Slots |-> raw.combiner[i][slot]]
    BY <2>1 DEF CombinerCycles
  <2>3. ASSUME NEW slot \in Slots
        PROVE  Select(slot, s.combiner[i][slot], Constant(slot, raw.combiner[i][slot])) = raw.combiner[i][slot]
    <3>1. raw.combiner[i][slot] \in Selectors(slot)
      BY <2>1, CycleTaken
    <3>2. CASE s.combiner = raw.combiner
      BY <3>1, <3>2, SelectedStays
    <3>3. CASE s.combiner = [j \in 1 .. 2 |-> NormalizeCycle(raw.combiner[j])]
      <4>1. s.combiner[i][slot] = IF raw.combiner[i][slot] \in Kept(slot) THEN raw.combiner[i][slot] ELSE "Zero"
        BY <3>3 DEF NormalizeCycle
      <4>. QED BY <3>1, <4>1, SelectedStays
    <3>. QED BY <3>2, <3>3
  <2>. QED BY <2>2, <2>3
<1>2. Combined(s, raw) = IF MultiCycle(s) THEN <<Cycle(1), [slot \in Slots |-> Swapped(Cycle(2)[slot])]>>
                         ELSE <<Cycle(2)>>
  BY DEF Combined, Swapped
<1>. HIDE DEF Cycle
<1>. QED BY <1>1, <1>2 DEF CombinedOf

(* The level of detail depends on three flags. *)
Lod(sharpen, detail, tex_lod, tile, max_level, min_lod, d) ==
    LET far     == d >= 16384
        magnify == d < 32
        log     == CHOOSE n \in 0 .. 9 : Shr(d, 5) \in 2^n .. 2^(n + 1) - 1
        mip     == IF d = Overflow THEN 0 ELSE IF far \/ magnify THEN 0 ELSE log
        near    == d # Overflow /\ magnify
        distant == \/ d = Overflow
                   \/ d # Overflow /\ (far \/ IF magnify THEN max_level = 0 ELSE mip >= max_level)
        plain   == ~sharpen /\ ~detail
        frac    == IF d = Overflow THEN 255
                   ELSE IF far THEN 255
                   ELSE IF magnify /\ plain THEN IF distant THEN 255 ELSE 0
                   ELSE IF magnify THEN 8 * Greater(min_lod, d) - (IF sharpen THEN 256 ELSE 0)
                   ELSE IF distant /\ plain THEN 255
                   ELSE Low(Shr(8 * d, mip), 8)
        level   == IF distant THEN max_level ELSE mip
        first   == tile + level
    IN  IF ~tex_lod THEN [tile0 |-> tile, tile1 |-> (tile + 1) % 8, frac |-> frac]
        ELSE IF detail
        THEN [tile0 |-> (first + IF near THEN 0 ELSE 1) % 8,
              tile1 |-> (first + IF distant \/ near THEN 1 ELSE 2) % 8, frac |-> frac]
        ELSE [tile0 |-> first % 8,
              tile1 |-> (first + IF distant \/ (~sharpen /\ near) THEN 0 ELSE 1) % 8, frac |-> frac]
(* It is that of the flags of a state.                                     *)
LEMMA LevelIs ==
    ASSUME NEW F, NEW tile, NEW max_level, NEW min_lod, NEW d
    PROVE  LevelOfDetail(F, tile, max_level, min_lod, d)
               = Lod("sharpen" \in F, "detail" \in F, "tex_lod" \in F, tile, max_level, min_lod, d)
<1>. QED BY DEF LevelOfDetail, Lod
(* States that agree on these flags have the same level of detail.         *)
LEMMA LevelDepends ==
    ASSUME NEW F, NEW G, \A f \in {"sharpen", "detail", "tex_lod"} : f \in F <=> f \in G,
           NEW tile, NEW max_level, NEW min_lod, NEW d
    PROVE  LevelOfDetail(F, tile, max_level, min_lod, d) = LevelOfDetail(G, tile, max_level, min_lod, d)
<1>1. ("sharpen" \in G) = ("sharpen" \in F) /\ ("detail" \in G) = ("detail" \in F) /\ ("tex_lod" \in G) = ("tex_lod" \in F)
  OBVIOUS
<1>. QED BY <1>1, LevelIs

(* States that agree on all but conversions sample the same, where nothing *)
(* is converted.                                                           *)
LEMMA TexelsDepend ==
    ASSUME NEW s, NEW n, NEW tiles, NEW lod, n.texture = s.texture,
           \A f : f \notin {"bilerp1", "convert_one"} => (f \in n.flags <=> f \in s.flags),
           \/ /\ "bilerp1" \in n.flags <=> "bilerp1" \in s.flags
              /\ "convert_one" \in n.flags <=> "convert_one" \in s.flags
           \/ ("uses_texel1" \notin s.flags /\ "uses_pipelined_texel1" \notin s.flags)
    PROVE  SampledTexels(n, tiles, lod) = SampledTexels(s, tiles, lod)
<1>1. n.flags \intersect {"tlut", "tlut_type", "sample_quad", "mid_texel"}
        = s.flags \intersect {"tlut", "tlut_type", "sample_quad", "mid_texel"}
  OBVIOUS
<1>2. /\ ("static_texture" \in n.flags) = ("static_texture" \in s.flags)
      /\ ("uses_texel0" \in n.flags) = ("uses_texel0" \in s.flags)
      /\ ("bilerp0" \in n.flags) = ("bilerp0" \in s.flags)
      /\ ("uses_texel1" \in n.flags) = ("uses_texel1" \in s.flags)
      /\ ("uses_pipelined_texel1" \in n.flags) = ("uses_pipelined_texel1" \in s.flags)
  OBVIOUS
<1>3. CASE "uses_texel1" \notin s.flags /\ "uses_pipelined_texel1" \notin s.flags
  BY <1>1, <1>2, <1>3 DEF SampledTexels
<1>4. CASE ("bilerp1" \in n.flags <=> "bilerp1" \in s.flags) /\ ("convert_one" \in n.flags <=> "convert_one" \in s.flags)
  <2>1. ("bilerp1" \in n.flags) = ("bilerp1" \in s.flags) /\ ("convert_one" \in n.flags) = ("convert_one" \in s.flags)
    BY <1>4
  <2>. QED BY <1>1, <1>2, <2>1, Zenon DEF SampledTexels
<1>. QED BY <1>3, <1>4

PixelShaded(s, raw, tiles, tile, max_level, min_lod, d) ==
    [mode |-> "shade",
     texels |-> SampledTexels(s, tiles,
                    IF "uses_lod" \in s.flags THEN LevelOfDetail(s.flags, tile, max_level, min_lod, d)
                    ELSE [tile0 |-> tile, tile1 |-> (tile + 1) % 8]),
     combined |-> Combined(s, raw),
     flags |-> s.flags \intersect
         {"perspective", "cvg_times_alpha", "alpha_cvg_select", "aa", "alpha_test",
          "alpha_test_dither", "interlace_field", "need_noise", "need_noise_dual"},
     dither |-> s.dither]

(* What decides a pixel, in each cycle mode.                               *)
LEMMA ShadedModes ==
    ASSUME NEW s, NEW raw, NEW tiles, NEW tile, NEW max_level, NEW min_lod, NEW d
    PROVE  /\ "copy" \in s.flags /\ "fill" \notin s.flags =>
                  Shaded(s, raw, tiles, tile, max_level, min_lod, d) =
                      [mode |-> "copy",
                       format |-> IF "static_texture" \in s.flags THEN s.texture ELSE tiles[tile],
                       flags |-> s.flags \intersect {"perspective", "tlut", "tlut_type", "alpha_test"}]
           /\ "copy" \notin s.flags /\ "fill" \in s.flags =>
                  Shaded(s, raw, tiles, tile, max_level, min_lod, d) = [mode |-> "fill"]
           /\ "copy" \notin s.flags /\ "fill" \notin s.flags =>
                  Shaded(s, raw, tiles, tile, max_level, min_lod, d) =
                      PixelShaded(s, raw, tiles, tile, max_level, min_lod, d)
<1>. QED BY DEF Shaded, PixelShaded

Given01(b) == IF b THEN 1 ELSE 0

(* A distance that is neither near nor far has a logarithm. *)
LEMMA PowerBelow ==
    ASSUME NEW x \in 1 .. 511
    PROVE  \E n \in 0 .. 9 : x \in 2^n .. 2^(n + 1) - 1
<1>1. CASE x < 2
  <2>1. 2^0 = 1 /\ 2^(0 + 1) = 2
    OBVIOUS
  <2>. QED BY <1>1, <2>1
<1>2. CASE 2 <= x /\ x < 4
  <2>1. 2^1 = 2 /\ 2^(1 + 1) = 4
    OBVIOUS
  <2>. QED BY <1>2, <2>1
<1>3. CASE 4 <= x /\ x < 8
  <2>1. 2^2 = 4 /\ 2^(2 + 1) = 8
    OBVIOUS
  <2>. QED BY <1>3, <2>1
<1>4. CASE 8 <= x /\ x < 16
  <2>1. 2^3 = 8 /\ 2^(3 + 1) = 16
    OBVIOUS
  <2>. QED BY <1>4, <2>1
<1>5. CASE 16 <= x /\ x < 32
  <2>1. 2^4 = 16 /\ 2^(4 + 1) = 32
    OBVIOUS
  <2>. QED BY <1>5, <2>1
<1>6. CASE 32 <= x /\ x < 64
  <2>1. 2^5 = 32 /\ 2^(5 + 1) = 64
    OBVIOUS
  <2>. QED BY <1>6, <2>1
<1>7. CASE 64 <= x /\ x < 128
  <2>1. 2^6 = 64 /\ 2^(6 + 1) = 128
    OBVIOUS
  <2>. QED BY <1>7, <2>1
<1>8. CASE 128 <= x /\ x < 256
  <2>1. 2^7 = 128 /\ 2^(7 + 1) = 256
    OBVIOUS
  <2>. QED BY <1>8, <2>1
<1>9. CASE 256 <= x
  <2>1. 2^8 = 256 /\ 2^(8 + 1) = 512
    OBVIOUS
  <2>. QED BY <1>9, <2>1
<1>. QED BY <1>1, <1>2, <1>3, <1>4, <1>5, <1>6, <1>7, <1>8, <1>9

(* The logarithm of such a distance is chosen among those that there are.  *)
LEMMA LogExists ==
    ASSUME NEW d, Shr(d, 5) \in 1 .. 511
    PROVE  (CHOOSE n \in 0 .. 9 : Shr(d, 5) \in 2^n .. 2^(n + 1) - 1) \in 0 .. 9
<1>1. \E w \in 0 .. 9 : Shr(d, 5) \in 2^w .. 2^(w + 1) - 1
  BY PowerBelow
<1>. QED BY <1>1

(* The tiles that a level of detail asks for are among those that follow   *)
(* the first one, as many as deduction counts on.                          *)
LEMMA LevelInRange ==
    ASSUME NEW sharpen \in BOOLEAN, NEW detail \in BOOLEAN, NEW tex_lod \in BOOLEAN,
           NEW tile \in Nat, NEW max_level \in Nat, NEW min_lod, NEW d \in Int,
           NEW l, l = Lod(sharpen, detail, tex_lod, tile, max_level, min_lod, d)
    PROVE  /\ "frac" \in DOMAIN l
           /\ ~tex_lod => l.tile0 = tile /\ l.tile1 = (tile + 1) % 8
           /\ tex_lod => \E i, j \in 0 .. (max_level + Given01(detail)) :
                             l.tile0 = (tile + i) % 8 /\ l.tile1 = (tile + j) % 8
<1>. DEFINE far     == d >= 16384
            magnify == d < 32
            log     == CHOOSE n \in 0 .. 9 : Shr(d, 5) \in 2^n .. 2^(n + 1) - 1
            mip     == IF d = Overflow THEN 0 ELSE IF far \/ magnify THEN 0 ELSE log
            near    == d # Overflow /\ magnify
            distant == \/ d = Overflow
                       \/ d # Overflow /\ (far \/ IF magnify THEN max_level = 0 ELSE mip >= max_level)
            plain   == ~sharpen /\ ~detail
            frac    == IF d = Overflow THEN 255
                       ELSE IF far THEN 255
                       ELSE IF magnify /\ plain THEN IF distant THEN 255 ELSE 0
                       ELSE IF magnify THEN 8 * Greater(min_lod, d) - (IF sharpen THEN 256 ELSE 0)
                       ELSE IF distant /\ plain THEN 255
                       ELSE Low(Shr(8 * d, mip), 8)
            level   == IF distant THEN max_level ELSE mip
            first   == tile + level
<1>1. l = IF ~tex_lod THEN [tile0 |-> tile, tile1 |-> (tile + 1) % 8, frac |-> frac]
          ELSE IF detail
          THEN [tile0 |-> (first + IF near THEN 0 ELSE 1) % 8,
                tile1 |-> (first + IF distant \/ near THEN 1 ELSE 2) % 8, frac |-> frac]
          ELSE [tile0 |-> first % 8,
                tile1 |-> (first + IF distant \/ (~sharpen /\ near) THEN 0 ELSE 1) % 8, frac |-> frac]
  BY DEF Lod
<1>2. mip \in Nat
  <2>1. CASE 32 <= d /\ d < 16384
    <3>0. Shr(d, 5) \in 1 .. 511
      <4>1. 2^5 = 32
        OBVIOUS
      <4>. QED BY <2>1, <4>1 DEF Shr
    <3>1. log \in 0 .. 9
      BY <3>0, LogExists
    <3>. HIDE DEF log
    <3>. QED BY <3>1
  <2>2. CASE ~(32 <= d /\ d < 16384)
    <3>. HIDE DEF log
    <3>. QED BY <2>2
  <2>. QED BY <2>1, <2>2
<1>3. level \in Nat /\ level <= max_level /\ (~distant => level + 1 <= max_level)
  <2>1. CASE distant
    BY <2>1
  <2>2. CASE ~distant
    <3>1. d # Overflow /\ ~far
      BY <2>2
    <3>2. CASE magnify
      <4>1. mip = 0 /\ max_level # 0
        BY <2>2, <3>1, <3>2
      <4>. HIDE DEF mip, distant
      <4>. QED BY <2>2, <4>1
    <3>3. CASE ~magnify
      <4>1. ~(mip >= max_level)
        BY <2>2, <3>1, <3>3
      <4>. HIDE DEF mip
      <4>2. mip + 1 <= max_level
        BY <1>2, <4>1
      <4>. HIDE DEF distant
      <4>. QED BY <1>2, <2>2, <4>2
    <3>. QED BY <3>2, <3>3
  <2>. QED BY <2>1, <2>2
<1>. HIDE DEF frac, level, distant, near
<1>4. CASE ~tex_lod
  BY <1>1, <1>4
<1>5. CASE tex_lod /\ detail
  <2>. DEFINE i == level + IF near THEN 0 ELSE 1
              j == level + IF distant \/ near THEN 1 ELSE 2
  <2>1. i \in 0 .. (max_level + 1) /\ j \in 0 .. (max_level + 1)
    BY <1>3
  <2>2. l = [tile0 |-> (tile + i) % 8, tile1 |-> (tile + j) % 8, frac |-> frac]
    <3>1. first + (IF near THEN 0 ELSE 1) = tile + i /\ first + (IF distant \/ near THEN 1 ELSE 2) = tile + j
      BY <1>3
    <3>2. l = [tile0 |-> (first + IF near THEN 0 ELSE 1) % 8,
               tile1 |-> (first + IF distant \/ near THEN 1 ELSE 2) % 8, frac |-> frac]
      BY <1>1, <1>5
    <3>. HIDE DEF first, i, j
    <3>. QED BY <3>1, <3>2
  <2>. HIDE DEF i, j
  <2>3. l.tile0 = (tile + i) % 8 /\ l.tile1 = (tile + j) % 8 /\ "frac" \in DOMAIN l
    BY <2>2
  <2>. QED BY <1>5, <2>1, <2>3 DEF Given01
<1>6. CASE tex_lod /\ ~detail
  <2>. DEFINE j == level + IF distant \/ (~sharpen /\ near) THEN 0 ELSE 1
  <2>1. level \in 0 .. max_level /\ j \in 0 .. max_level
    BY <1>3
  <2>2. first = tile + level /\ l = [tile0 |-> (tile + level) % 8, tile1 |-> (tile + j) % 8, frac |-> frac]
    <3>1. first + (IF distant \/ (~sharpen /\ near) THEN 0 ELSE 1) = tile + j
      BY <1>3
    <3>2. l = [tile0 |-> first % 8,
               tile1 |-> (first + IF distant \/ (~sharpen /\ near) THEN 0 ELSE 1) % 8, frac |-> frac]
      BY <1>1, <1>6
    <3>. HIDE DEF j
    <3>. QED BY <3>1, <3>2
  <2>. HIDE DEF j
  <2>3. l.tile0 = (tile + level) % 8 /\ l.tile1 = (tile + j) % 8 /\ "frac" \in DOMAIN l
    BY <2>2
  <2>4. max_level + Given01(detail) = max_level
    BY <1>6 DEF Given01
  <2>5. \E i, k \in 0 .. (max_level + Given01(detail)) : l.tile0 = (tile + i) % 8 /\ l.tile1 = (tile + k) % 8
    BY <2>1, <2>3, <2>4
  <2>. QED BY <1>6, <2>3, <2>5
<1>. QED BY <1>4, <1>5, <1>6

(* The same of the flags of a state. *)
Levelled(F, tile, max_level, lod) ==
    /\ "frac" \in DOMAIN lod
    /\ "tex_lod" \notin F => lod.tile0 = tile /\ lod.tile1 = (tile + 1) % 8
    /\ "tex_lod" \in F => \E i, j \in 0 .. max_level + 1 :
                             /\ lod.tile0 = (tile + i) % 8 /\ lod.tile1 = (tile + j) % 8
                             /\ "detail" \notin F => i <= max_level /\ j <= max_level
LEMMA LevelTiles ==
    ASSUME NEW F, NEW tile \in 0 .. 7, NEW max_level \in 0 .. 7, NEW min_lod, NEW d \in Int,
           NEW lod, lod = LevelOfDetail(F, tile, max_level, min_lod, d)
    PROVE  Levelled(F, tile, max_level, lod)
<1>1. PICK sharpen, detail, tex_lod \in BOOLEAN :
          /\ sharpen <=> "sharpen" \in F
          /\ detail <=> "detail" \in F
          /\ tex_lod <=> "tex_lod" \in F
  OBVIOUS
<1>2. lod = Lod(sharpen, detail, tex_lod, tile, max_level, min_lod, d)
  BY <1>1, LevelIs
<1>3. tile \in Nat /\ max_level \in Nat
  OBVIOUS
<1>4. /\ "frac" \in DOMAIN lod
      /\ ~tex_lod => lod.tile0 = tile /\ lod.tile1 = (tile + 1) % 8
      /\ tex_lod => \E i, j \in 0 .. (max_level + Given01(detail)) :
                       lod.tile0 = (tile + i) % 8 /\ lod.tile1 = (tile + j) % 8
  BY <1>2, <1>3, LevelInRange
<1>5. \A i \in 0 .. (max_level + Given01(detail)) : i \in 0 .. max_level + 1 /\ ("detail" \notin F => i <= max_level)
  BY <1>1 DEF Given01
<1>. QED BY <1>1, <1>4, <1>5 DEF Levelled

(* Tiles that deduction found alike are, whichever way they are reached. *)
LEMMA AlikeTiles ==
    ASSUME NEW tiles, NEW tile \in 0 .. 7, NEW last \in Nat,
           \A i \in 1 .. Lesser(7, last) : tiles[(tile + i) % 8] = tiles[tile],
           NEW j \in 0 .. last, last <= 8
    PROVE  tiles[(tile + j) % 8] = tiles[tile]
<1>1. CASE j = 0 \/ j = 8
  <2>1. (tile + j) % 8 = tile
    BY <1>1
  <2>. QED BY <2>1
<1>2. CASE j \in 1 .. 7
  <2>1. j \in 1 .. Lesser(7, last)
    BY <1>2 DEF Lesser
  <2>. QED BY <2>1
<1>. QED BY <1>1, <1>2

(* Whatever state the registers hold, whatever the tiles are, and at every *)
(* level of detail, the shader makes of the normalised state, with the     *)
(* constants of the state as it was, what it makes of that state itself:   *)
(* inputs, texels, tests and dithers are the same, cycle by cycle those    *)
(* that the combiner was told to take, and noise that is read is drawn.    *)
THEOREM StateKeepsPixels ==
    ASSUME NEW raw, Settable(raw), NEW tiles, NEW tile, NEW max_level, NEW min_lod, NEW d,
           NEW state, state = Deduced(raw, tiles, tile, max_level),
           NEW norm, norm = Normalize(state)
    PROVE  /\ Shaded(norm, state, tiles, tile, max_level, min_lod, d)
                  = Shaded(state, state, tiles, tile, max_level, min_lod, d)
           /\ AsTold(Shaded(norm, state, tiles, tile, max_level, min_lod, d), raw.combiner, MultiCycle(norm))
           /\ ReadsNoise(state) => "need_noise" \in norm.flags
<1>. DEFINE kept  == Shaded(norm, state, tiles, tile, max_level, min_lod, d)
            drawn == Shaded(state, state, tiles, tile, max_level, min_lod, d)
<1>1. /\ IsState(state) /\ state.combiner = raw.combiner /\ state.dither = raw.dither
      /\ \A f : f \notin DeducedFlags => (f \in state.flags <=> f \in raw.flags)
      /\ ReadsNoise(state) => "need_noise" \in state.flags
  BY DeducedShape
<1>2. raw.combiner \in [1 .. 2 -> CombinerCycles]
  BY DEF Settable
<1>3. /\ "fill" \in state.flags <=> "fill" \in raw.flags
      /\ "copy" \in state.flags <=> "copy" \in raw.flags
      /\ ~("fill" \in raw.flags /\ "copy" \in raw.flags)
  BY <1>1 DEF DeducedFlags, Settable
<1>4. CASE "fill" \in raw.flags
  <2>1. norm.flags = {"fill"}
    BY <1>1, <1>3, <1>4, NormalShape
  <2>2. kept = [mode |-> "fill"]
    BY <2>1, ShadedModes
  <2>3. drawn = [mode |-> "fill"]
    BY <1>3, <1>4, ShadedModes
  <2>4. ~ReadsNoise(state)
    BY <1>3, <1>4 DEF ReadsNoise
  <2>. HIDE DEF kept, drawn
  <2>5. AsTold(kept, raw.combiner, MultiCycle(norm))
    BY <2>2 DEF AsTold
  <2>6. kept = drawn
    BY <2>2, <2>3
  <2>. QED BY <2>4, <2>5, <2>6 DEF kept, drawn
<1>5. CASE "copy" \in raw.flags
  <2>1. /\ norm.texture = state.texture
        /\ norm.flags = state.flags \intersect {"copy", "tlut", "tlut_type", "uses_texel0", "static_texture", "tex_lod",
                                                "detail", "perspective", "alpha_test"}
    BY <1>1, <1>3, <1>5, NormalShape
  <2>2. /\ "copy" \in norm.flags /\ "fill" \notin norm.flags
        /\ "static_texture" \in norm.flags <=> "static_texture" \in state.flags
        /\ norm.flags \intersect {"perspective", "tlut", "tlut_type", "alpha_test"}
             = state.flags \intersect {"perspective", "tlut", "tlut_type", "alpha_test"}
    BY <1>3, <1>5, <2>1
  <2>3. kept = [mode |-> "copy",
                format |-> IF "static_texture" \in norm.flags THEN norm.texture ELSE tiles[tile],
                flags |-> norm.flags \intersect {"perspective", "tlut", "tlut_type", "alpha_test"}]
    BY <2>2, ShadedModes
  <2>4. drawn = [mode |-> "copy",
                format |-> IF "static_texture" \in state.flags THEN state.texture ELSE tiles[tile],
                flags |-> state.flags \intersect {"perspective", "tlut", "tlut_type", "alpha_test"}]
    BY <1>3, <1>5, ShadedModes
  <2>5. ~ReadsNoise(state)
    BY <1>3, <1>5 DEF ReadsNoise
  <2>. HIDE DEF kept, drawn
  <2>6. AsTold(kept, raw.combiner, MultiCycle(norm))
    BY <2>3 DEF AsTold
  <2>7. kept = drawn
    BY <2>1, <2>2, <2>3, <2>4
  <2>. QED BY <2>5, <2>6, <2>7 DEF kept, drawn
<1>6. CASE "fill" \notin raw.flags /\ "copy" \notin raw.flags
  <2>1. /\ norm.texture = state.texture /\ norm.dither = state.dither
        /\ norm.combiner = [i \in 1 .. 2 |-> NormalizeCycle(state.combiner[i])]
        /\ \A f : f \in norm.flags <=> f \in state.flags /\ (f \in {"bilerp1", "convert_one"} => Converts(state))
    BY <1>1, <1>3, <1>6, NormalShape
  <2>2. /\ "copy" \notin norm.flags /\ "fill" \notin norm.flags
        /\ \A f : f \notin {"bilerp1", "convert_one"} => (f \in norm.flags <=> f \in state.flags)
    BY <1>3, <1>6, <2>1
  <2>3. kept = PixelShaded(norm, state, tiles, tile, max_level, min_lod, d)
    BY <2>2, ShadedModes
  <2>4. drawn = PixelShaded(state, state, tiles, tile, max_level, min_lod, d)
    BY <1>3, <1>6, ShadedModes
  <2>5. (MultiCycle(norm) <=> MultiCycle(state)) /\ MultiCycle(norm) \in BOOLEAN /\ MultiCycle(state) \in BOOLEAN
    BY <2>2 DEF MultiCycle
  <2>6. Combined(norm, state) = CombinedOf(MultiCycle(norm), raw.combiner)
    BY <1>1, <1>2, <2>1, CombinedAsTold
  <2>7. Combined(state, state) = CombinedOf(MultiCycle(state), raw.combiner)
    BY <1>1, <1>2, CombinedAsTold
  <2>8. MultiCycle(norm) = MultiCycle(state)
    BY <2>5
  <2>9. \/ ("bilerp1" \in norm.flags <=> "bilerp1" \in state.flags) /\ ("convert_one" \in norm.flags <=> "convert_one" \in state.flags)
        \/ "uses_texel1" \notin state.flags /\ "uses_pipelined_texel1" \notin state.flags
    <3>1. CASE Converts(state)
      BY <2>1, <3>1
    <3>2. CASE ~Converts(state)
      <4>1. "multi_cycle" \notin state.flags /\ "uses_pipelined_texel1" \notin state.flags
        BY <3>2 DEF Converts
      <4>2. "multi_cycle" \notin raw.flags
        BY <1>1, <4>1 DEF DeducedFlags
      <4>3. ~UsesTexel1(raw)
        BY <4>2 DEF UsesTexel1, MultiCycle
      <4>4. "uses_texel1" \in state.flags <=> UsesTexel1(raw)
        <5>1. raw.flags \intersect {"copy", "fill"} = {}
          BY <1>6
        <5>. QED BY <5>1, DeducedShape
      <4>. QED BY <4>1, <4>3, <4>4
    <3>. QED BY <3>1, <3>2
  <2>10. \A lod : SampledTexels(norm, tiles, lod) = SampledTexels(state, tiles, lod)
    BY <2>1, <2>2, <2>9, TexelsDepend
  <2>11. LevelOfDetail(norm.flags, tile, max_level, min_lod, d) = LevelOfDetail(state.flags, tile, max_level, min_lod, d)
    BY <2>2, LevelDepends
  <2>12. ("uses_lod" \in norm.flags) = ("uses_lod" \in state.flags)
    BY <2>2
  <2>13. norm.flags \intersect {"perspective", "cvg_times_alpha", "alpha_cvg_select", "aa", "alpha_test",
                                "alpha_test_dither", "interlace_field", "need_noise", "need_noise_dual"}
          = state.flags \intersect {"perspective", "cvg_times_alpha", "alpha_cvg_select", "aa", "alpha_test",
                                "alpha_test_dither", "interlace_field", "need_noise", "need_noise_dual"}
    BY <2>2
  <2>14. PixelShaded(norm, state, tiles, tile, max_level, min_lod, d)
           = PixelShaded(state, state, tiles, tile, max_level, min_lod, d)
    BY <2>1, <2>6, <2>7, <2>8, <2>10, <2>11, <2>12, <2>13, Zenon DEF PixelShaded
  <2>15. kept.combined = CombinedOf(MultiCycle(norm), raw.combiner)
    BY <2>3, <2>6 DEF PixelShaded
  <2>16. AsTold(kept, raw.combiner, MultiCycle(norm))
    <3>. HIDE DEF kept
    <3>. QED BY <2>15 DEF AsTold, CombinedOf
  <2>17. ReadsNoise(state) => "need_noise" \in norm.flags
    BY <1>1, <2>2
  <2>. QED BY <2>3, <2>4, <2>14, <2>16, <2>17
<1>. QED BY <1>4, <1>5, <1>6

(* What a pixel samples: the first texel, the second, or the second as a   *)
(* conversion of the first.                                                *)
SampleOf(s, tiles, t, convert, bilerp, previous, at) ==
    [tile |-> t, format |-> IF "static_texture" \in s.flags THEN s.texture ELSE tiles[t],
     convert |-> convert, bilerp |-> bilerp, previous |-> previous, pixel |-> at,
     modes |-> s.flags \intersect {"tlut", "tlut_type", "sample_quad", "mid_texel"}]
(* A sample is no undefined texel, and knows its tile and format.          *)
LEMMA SampleIs ==
    ASSUME NEW s, NEW tiles, NEW t, NEW convert, NEW bilerp, NEW previous, NEW at,
           NEW x, x = SampleOf(s, tiles, t, convert, bilerp, previous, at)
    PROVE  /\ "tile" \in DOMAIN x /\ x.tile = t /\ x # Undefined
           /\ x.format = IF "static_texture" \in s.flags THEN s.texture ELSE tiles[t]
           /\ "converted" \notin DOMAIN x
<1>1. DOMAIN x = {"tile", "format", "convert", "bilerp", "previous", "pixel", "modes"}
  BY DEF SampleOf
<1>2. DOMAIN Undefined = {"undefined"}
  BY DEF Undefined
<1>3. x # Undefined
  <2>1. "tile" \in DOMAIN x /\ "tile" \notin DOMAIN Undefined
    BY <1>1, <1>2
  <2>. QED BY <2>1
<1>. QED BY <1>1, <1>3 DEF SampleOf
(* Nor is a conversion, which has no tile.                                 *)
LEMMA ConversionIs ==
    ASSUME NEW y, NEW x, x = [converted |-> y]
    PROVE  x # Undefined /\ "converted" \in DOMAIN x /\ "tile" \notin DOMAIN x
<1>1. DOMAIN x = {"converted"}
  OBVIOUS
<1>2. DOMAIN Undefined = {"undefined"}
  BY DEF Undefined
<1>3. x # Undefined
  <2>1. "converted" \in DOMAIN x /\ "converted" \notin DOMAIN Undefined
    BY <1>1, <1>2
  <2>. QED BY <2>1
<1>. QED BY <1>1, <1>3
(* What has not been sampled has neither.                                  *)
LEMMA UndefinedIs == "tile" \notin DOMAIN Undefined /\ "converted" \notin DOMAIN Undefined
<1>1. DOMAIN Undefined = {"undefined"}
  BY DEF Undefined
<1>. QED BY <1>1

(* The texels of a state: undefined, sampled or converted.                 *)
LEMMA TexelsAre ==
    ASSUME NEW s, NEW tiles, NEW lod, NEW t, t = SampledTexels(s, tiles, lod)
    PROVE  /\ t.lod = lod
           /\ "uses_texel0" \notin s.flags => t.texel0 = Undefined
           /\ "uses_texel0" \in s.flags =>
                  \E convert, bilerp, previous, at :
                      t.texel0 = SampleOf(s, tiles, lod.tile0, convert, bilerp, previous, at)
           /\ "uses_texel1" \notin s.flags /\ "uses_pipelined_texel1" \notin s.flags => t.texel1 = Undefined
           /\ "uses_texel1" \in s.flags \/ "uses_pipelined_texel1" \in s.flags =>
                  /\ "convert_one" \in s.flags /\ "bilerp1" \notin s.flags => t.texel1 = [converted |-> t.texel0]
                  /\ "convert_one" \notin s.flags \/ "bilerp1" \in s.flags =>
                         \E tile, convert, bilerp, previous, at :
                             /\ t.texel1 = SampleOf(s, tiles, tile, convert, bilerp, previous, at)
                             /\ tile = IF "uses_pipelined_texel1" \in s.flags THEN lod.tile0 ELSE lod.tile1
<1>. DEFINE a == IF "uses_texel0" \in s.flags
                 THEN SampleOf(s, tiles, lod.tile0, FALSE, "bilerp0" \in s.flags, <<>>, "this") ELSE Undefined
            b == IF "uses_texel1" \notin s.flags /\ "uses_pipelined_texel1" \notin s.flags THEN Undefined
                 ELSE IF "convert_one" \in s.flags /\ "bilerp1" \notin s.flags
                 THEN [converted |-> a]
                 ELSE SampleOf(s, tiles, IF "uses_pipelined_texel1" \in s.flags THEN lod.tile0 ELSE lod.tile1,
                               "convert_one" \in s.flags, "bilerp1" \in s.flags,
                               IF "convert_one" \in s.flags THEN a ELSE <<>>,
                               IF "uses_pipelined_texel1" \in s.flags THEN "next" ELSE "this")
<1>1. t = [texel0 |-> a, texel1 |-> b, lod |-> lod]
  BY Zenon DEF SampledTexels, SampleOf
<1>2. t.texel0 = a /\ t.texel1 = b /\ t.lod = lod
  <2>. HIDE DEF a, b
  <2>. QED BY <1>1
<1>3. /\ "uses_texel0" \notin s.flags => a = Undefined
      /\ "uses_texel0" \in s.flags =>
             \E convert, bilerp, previous, at : a = SampleOf(s, tiles, lod.tile0, convert, bilerp, previous, at)
  OBVIOUS
<1>4. /\ "uses_texel1" \notin s.flags /\ "uses_pipelined_texel1" \notin s.flags => b = Undefined
      /\ "uses_texel1" \in s.flags \/ "uses_pipelined_texel1" \in s.flags =>
             /\ "convert_one" \in s.flags /\ "bilerp1" \notin s.flags => b = [converted |-> a]
             /\ "convert_one" \notin s.flags \/ "bilerp1" \in s.flags =>
                    \E tile, convert, bilerp, previous, at :
                        /\ b = SampleOf(s, tiles, tile, convert, bilerp, previous, at)
                        /\ tile = IF "uses_pipelined_texel1" \in s.flags THEN lod.tile0 ELSE lod.tile1
  <2>. HIDE DEF a
  <2>. QED OBVIOUS
<1>. HIDE DEF a, b
<1>. QED BY <1>2, <1>3, <1>4

(* Which texels a pixel reads, of the inputs of its cycles. *)
LEMMA InputsOf ==
    ASSUME NEW c \in [1 .. 2 -> CombinerCycles], NEW two \in BOOLEAN, NEW inputs,
           inputs = UNION {{CombinedOf(two, c)[i][slot] : slot \in Slots} : i \in DOMAIN CombinedOf(two, c)}
    PROVE  /\ "Texel0" \in inputs => IF two THEN Accesses(c[1], {"Texel0"}) \/ Accesses(c[2], {"Texel1"})
                                     ELSE Accesses(c[2], {"Texel0"})
           /\ "Texel1" \in inputs => IF two THEN Accesses(c[1], {"Texel1"}) \/ Accesses(c[2], {"Texel0"})
                                     ELSE Accesses(c[2], {"Texel1"})
           /\ "LODFrac" \in inputs => IF two THEN Accesses(c[1], {"LODFrac"}) \/ Accesses(c[2], {"LODFrac"})
                                      ELSE Accesses(c[2], {"LODFrac"})
<1>1. CASE two
  <2>1. CombinedOf(two, c) = <<c[1], [slot \in Slots |-> Swapped(c[2][slot])]>>
    BY <1>1 DEF CombinedOf
  <2>2. inputs = {c[1][slot] : slot \in Slots} \union {Swapped(c[2][slot]) : slot \in Slots}
    <3>. DEFINE p == c[1]
                q == [slot \in Slots |-> Swapped(c[2][slot])]
                C == <<p, q>>
    <3>1. C[1] = p /\ C[2] = q /\ DOMAIN C = {1, 2}
      OBVIOUS
    <3>2. CombinedOf(two, c) = C
      BY <2>1
    <3>3. \A slot \in Slots : q[slot] = Swapped(c[2][slot])
      OBVIOUS
    <3>. HIDE DEF C, p, q
    <3>4. inputs = {p[slot] : slot \in Slots} \union {q[slot] : slot \in Slots}
      BY <3>1, <3>2
    <3>5. {q[slot] : slot \in Slots} = {Swapped(c[2][slot]) : slot \in Slots}
      BY <3>3
    <3>. QED BY <3>4, <3>5 DEF p
  <2>3. \A x : /\ Swapped(x) = "Texel0" => x = "Texel1"
               /\ Swapped(x) = "Texel1" => x = "Texel0"
               /\ Swapped(x) = "LODFrac" => x = "LODFrac"
    BY DEF Swapped
  <2>. QED BY <1>1, <2>2, <2>3 DEF Accesses
<1>2. CASE ~two
  <2>1. CombinedOf(two, c) = <<c[2]>>
    BY <1>2 DEF CombinedOf
  <2>2. inputs = {c[2][slot] : slot \in Slots}
    <3>. DEFINE p == c[2]
                C == <<p>>
    <3>1. C[1] = p /\ DOMAIN C = {1}
      OBVIOUS
    <3>2. CombinedOf(two, c) = C
      BY <2>1
    <3>. HIDE DEF C, p
    <3>3. inputs = {p[slot] : slot \in Slots}
      BY <3>1, <3>2
    <3>. QED BY <3>3 DEF p
  <2>. QED BY <1>2, <2>2 DEF Accesses
<1>. QED BY <1>1, <1>2

(* Who reads one of some inputs reads one of more inputs.                  *)
LEMMA WiderAccess ==
    ASSUME NEW c, NEW A, NEW B, A \subseteq B, Accesses(c, A)
    PROVE  Accesses(c, B)
<1>. QED BY DEF Accesses

(* Whatever state the registers hold that does not fill, and whatever the  *)
(* tiles are: at every level of detail, a texel is sampled with the format *)
(* of the tile that it comes from, also when the format is compiled in,    *)
(* and whatever the combiner reads has been sampled, but for reads that    *)
(* are undefined.                                                          *)
THEOREM StateIsSampled ==
    ASSUME NEW raw, Settable(raw), "fill" \notin raw.flags,
           NEW tiles, NEW tile \in 0 .. 7, NEW max_level \in 0 .. 7, NEW min_lod, NEW d \in Int,
           NEW norm, norm = Normalize(Deduced(raw, tiles, tile, max_level)),
           NEW pixel, pixel = Shaded(norm, raw, tiles, tile, max_level, min_lod, d)
    PROVE  IF pixel.mode = "copy" THEN pixel.format = tiles[tile]
           ELSE Unsampled(raw) \/ Sampled(pixel, tiles)
<1>. DEFINE state == Deduced(raw, tiles, tile, max_level)
<1>1. /\ IsState(state) /\ state.combiner = raw.combiner /\ state.dither = raw.dither
      /\ \A f : f \notin DeducedFlags => (f \in state.flags <=> f \in raw.flags)
      /\ "fill" \notin raw.flags /\ "copy" \in raw.flags =>
             "static_texture" \in state.flags /\ state.texture = tiles[tile]
      /\ raw.flags \intersect {"copy", "fill"} = {} =>
             /\ "uses_texel1" \in state.flags <=> UsesTexel1(raw)
             /\ "uses_texel0" \in state.flags <=> UsesTexel0(raw) \/ (UsesTexel1(raw) /\ "convert_one" \in raw.flags)
             /\ "uses_pipelined_texel1" \in state.flags <=> UsesPipelinedTexel1(raw)
             /\ "uses_lod" \in state.flags <=> UsesLodFrac(raw) \/ "tex_lod" \in raw.flags
             /\ "static_texture" \in state.flags =>
                    /\ state.texture = tiles[tile]
                    /\ \A i \in 1 .. LastTile(raw.flags, Physical(raw), max_level) :
                           tiles[(tile + i) % 8] = tiles[tile]
  BY DeducedShape
<1>2. raw.combiner \in [1 .. 2 -> CombinerCycles]
  BY DEF Settable
<1>3. norm = Normalize(state)
  OBVIOUS
<1>. HIDE DEF state
<1>4. "fill" \notin state.flags /\ ("copy" \in state.flags <=> "copy" \in raw.flags)
  BY <1>1 DEF DeducedFlags
<1>5. CASE "copy" \in raw.flags
  <2>0. "static_texture" \in state.flags /\ state.texture = tiles[tile]
    BY <1>1, <1>5
  <2>1. norm.texture = state.texture /\ "copy" \in norm.flags /\ "fill" \notin norm.flags /\ "static_texture" \in norm.flags
    <3>1. /\ norm.texture = state.texture
          /\ norm.flags = state.flags \intersect {"copy", "tlut", "tlut_type", "uses_texel0", "static_texture", "tex_lod",
                                                   "detail", "perspective", "alpha_test"}
      BY <1>1, <1>3, <1>4, <1>5, NormalShape
    <3>. QED BY <1>4, <1>5, <2>0, <3>1
  <2>2. pixel = [mode |-> "copy",
                 format |-> IF "static_texture" \in norm.flags THEN norm.texture ELSE tiles[tile],
                 flags |-> norm.flags \intersect {"perspective", "tlut", "tlut_type", "alpha_test"}]
    BY <2>1, ShadedModes
  <2>. HIDE DEF state
  <2>. QED BY <2>0, <2>1, <2>2
<1>6. CASE "copy" \notin raw.flags
  <2>1. /\ norm.texture = state.texture
        /\ norm.combiner = [i \in 1 .. 2 |-> NormalizeCycle(state.combiner[i])]
        /\ \A f : f \in norm.flags <=> f \in state.flags /\ (f \in {"bilerp1", "convert_one"} => Converts(state))
    BY <1>1, <1>3, <1>4, <1>6, NormalShape
  <2>2. /\ "uses_texel1" \in state.flags <=> UsesTexel1(raw)
        /\ "uses_texel0" \in state.flags <=> UsesTexel0(raw) \/ (UsesTexel1(raw) /\ "convert_one" \in raw.flags)
        /\ "uses_pipelined_texel1" \in state.flags <=> UsesPipelinedTexel1(raw)
        /\ "uses_lod" \in state.flags <=> UsesLodFrac(raw) \/ "tex_lod" \in raw.flags
        /\ "static_texture" \in state.flags =>
               /\ state.texture = tiles[tile]
               /\ \A i \in 1 .. LastTile(raw.flags, Physical(raw), max_level) :
                      tiles[(tile + i) % 8] = tiles[tile]
    <3>1. raw.flags \intersect {"copy", "fill"} = {}
      BY <1>6
    <3>. QED BY <1>1, <3>1
  <2>3. /\ "copy" \notin norm.flags /\ "fill" \notin norm.flags
        /\ \A f : f \notin {"bilerp1", "convert_one"} => (f \in norm.flags <=> f \in state.flags)
        /\ \A f : f \notin DeducedFlags \union {"bilerp1", "convert_one"} => (f \in norm.flags <=> f \in raw.flags)
    BY <1>1, <1>4, <1>6, <2>1
  <2>4. pixel = PixelShaded(norm, raw, tiles, tile, max_level, min_lod, d)
    BY <2>3, ShadedModes
  <2>. DEFINE two == MultiCycle(raw)
              F   == norm.flags
              lod == IF "uses_lod" \in F THEN LevelOfDetail(F, tile, max_level, min_lod, d)
                     ELSE [tile0 |-> tile, tile1 |-> (tile + 1) % 8]
              t   == pixel.texels
              inputs == UNION {{pixel.combined[i][slot] : slot \in Slots} : i \in DOMAIN pixel.combined}
  <2>5. pixel.mode = "shade" /\ t = SampledTexels(norm, tiles, lod) /\ pixel.combined = Combined(norm, raw)
    <3>. DEFINE a == SampledTexels(norm, tiles, lod)
                b == Combined(norm, raw)
                c == norm.flags \intersect
                         {"perspective", "cvg_times_alpha", "alpha_cvg_select", "aa", "alpha_test",
                          "alpha_test_dither", "interlace_field", "need_noise", "need_noise_dual"}
    <3>1. pixel = [mode |-> "shade", texels |-> a, combined |-> b, flags |-> c, dither |-> norm.dither]
      BY <2>4, Zenon DEF PixelShaded
    <3>. HIDE DEF a, b, c
    <3>2. pixel.mode = "shade" /\ pixel.texels = a /\ pixel.combined = b
      BY <3>1
    <3>. QED BY <3>2 DEF a, b
  <2>6. two \in BOOLEAN /\ MultiCycle(norm) = two
    BY <2>3 DEF MultiCycle, DeducedFlags
  <2>7. pixel.combined = CombinedOf(two, raw.combiner)
    BY <1>1, <1>2, <2>1, <2>5, <2>6, CombinedAsTold
  <2>8. /\ "Texel0" \in inputs => IF two THEN Accesses(raw.combiner[1], {"Texel0"}) \/ Accesses(raw.combiner[2], {"Texel1"})
                                  ELSE Accesses(raw.combiner[2], {"Texel0"})
        /\ "Texel1" \in inputs => IF two THEN Accesses(raw.combiner[1], {"Texel1"}) \/ Accesses(raw.combiner[2], {"Texel0"})
                                  ELSE Accesses(raw.combiner[2], {"Texel1"})
        /\ "LODFrac" \in inputs => IF two THEN Accesses(raw.combiner[1], {"LODFrac"}) \/ Accesses(raw.combiner[2], {"LODFrac"})
                                   ELSE Accesses(raw.combiner[2], {"LODFrac"})
    <3>1. inputs = UNION {{CombinedOf(two, raw.combiner)[i][slot] : slot \in Slots} : i \in DOMAIN CombinedOf(two, raw.combiner)}
      BY <2>7
    <3>. HIDE DEF inputs, two
    <3>. QED BY <1>2, <2>6, <3>1, InputsOf
  <2>9. /\ t.lod = lod
        /\ "uses_texel0" \notin F => t.texel0 = Undefined
        /\ "uses_texel0" \in F =>
               \E convert, bilerp, previous, at :
                   t.texel0 = SampleOf(norm, tiles, lod.tile0, convert, bilerp, previous, at)
        /\ "uses_texel1" \notin F /\ "uses_pipelined_texel1" \notin F => t.texel1 = Undefined
        /\ "uses_texel1" \in F \/ "uses_pipelined_texel1" \in F =>
               /\ "convert_one" \in F /\ "bilerp1" \notin F => t.texel1 = [converted |-> t.texel0]
               /\ "convert_one" \notin F \/ "bilerp1" \in F =>
                      \E at, convert, bilerp, previous, place :
                          /\ t.texel1 = SampleOf(norm, tiles, at, convert, bilerp, previous, place)
                          /\ at = IF "uses_pipelined_texel1" \in F THEN lod.tile0 ELSE lod.tile1
    <3>1. t = SampledTexels(norm, tiles, lod)
      BY <2>5
    <3>. HIDE DEF t, lod
    <3>. QED BY <3>1, TexelsAre
  <2>10. /\ "uses_texel1" \in F <=> UsesTexel1(raw)
         /\ "uses_texel0" \in F <=> UsesTexel0(raw) \/ (UsesTexel1(raw) /\ "convert_one" \in raw.flags)
         /\ "uses_pipelined_texel1" \in F <=> UsesPipelinedTexel1(raw)
         /\ "uses_lod" \in F <=> UsesLodFrac(raw) \/ "tex_lod" \in raw.flags
         /\ "static_texture" \in F <=> "static_texture" \in state.flags
         /\ "tex_lod" \in F <=> "tex_lod" \in raw.flags
         /\ "detail" \in F <=> "detail" \in raw.flags
    BY <2>2, <2>3 DEF DeducedFlags
  <2>11. UsesTexel1(raw) \/ UsesPipelinedTexel1(raw) =>
             /\ "convert_one" \in F <=> "convert_one" \in raw.flags
             /\ "bilerp1" \in F <=> "bilerp1" \in raw.flags
    <3>1. ASSUME UsesTexel1(raw) \/ UsesPipelinedTexel1(raw) PROVE Converts(state)
      <4>1. CASE UsesTexel1(raw)
        <5>1. "multi_cycle" \in state.flags
          BY <1>1, <4>1 DEF UsesTexel1, MultiCycle, DeducedFlags
        <5>. QED BY <5>1 DEF Converts
      <4>2. CASE UsesPipelinedTexel1(raw)
        BY <2>2, <4>2 DEF Converts
      <4>. QED BY <3>1, <4>1, <4>2
    <3>. QED BY <1>1, <2>1, <3>1 DEF DeducedFlags
  <2>12. ASSUME "static_texture" \in F
         PROVE  /\ norm.texture = tiles[tile] /\ tiles[lod.tile0] = tiles[tile]
                /\ Physical(raw) => tiles[lod.tile1] = tiles[tile]
    <3>1. norm.texture = tiles[tile]
      BY <2>1, <2>2, <2>10, <2>12
    <3>2. LastTile(F, Physical(raw), max_level) = LastTile(raw.flags, Physical(raw), max_level)
      BY <2>10 DEF LastTile
    <3>3. \A i \in 1 .. LastTile(F, Physical(raw), max_level) : tiles[(tile + i) % 8] = tiles[tile]
      BY <2>2, <2>10, <2>12, <3>2
    <3>4. Physical(raw) \in BOOLEAN
      BY DEF Physical, UsesTexel1
    <3>5. PICK detail, tex_lod, physical \in BOOLEAN :
              /\ detail <=> "detail" \in F
              /\ tex_lod <=> "tex_lod" \in F
              /\ physical <=> Physical(raw)
      BY <3>4
    <3>6. LastTile(F, Physical(raw), max_level)
            = Lesser(7, (IF tex_lod THEN max_level ELSE IF physical THEN 1 ELSE 0) + Given01(detail))
      BY <3>5 DEF LastTile, Given01
    <3>7. /\ ~tex_lod => lod.tile0 = tile /\ lod.tile1 = (tile + 1) % 8
          /\ tex_lod => \E i, j \in 0 .. (max_level + Given01(detail)) :
                            lod.tile0 = (tile + i) % 8 /\ lod.tile1 = (tile + j) % 8
      <4>1. CASE "uses_lod" \in F
        <5>1. lod = LevelOfDetail(F, tile, max_level, min_lod, d)
          BY <4>1
        <5>. HIDE DEF lod, F
        <5>2. Levelled(F, tile, max_level, lod)
          BY <5>1, LevelTiles
        <5>. QED BY <3>5, <5>2 DEF Given01, Levelled
      <4>2. CASE "uses_lod" \notin F
        BY <2>10, <3>5, <4>2
      <4>. QED BY <4>1, <4>2
    <3>. DEFINE last == LastTile(F, Physical(raw), max_level)
    <3>8. \A i \in 1 .. last : tiles[(tile + i) % 8] = tiles[tile]
      BY <3>3
    <3>9. last = Lesser(7, (IF tex_lod THEN max_level ELSE IF physical THEN 1 ELSE 0) + Given01(detail))
      BY <3>6
    <3>10. Given01(detail) \in 0 .. 1
      BY DEF Given01
    <3>. DEFINE most == (IF tex_lod THEN max_level ELSE IF physical THEN 1 ELSE 0) + Given01(detail)
    <3>11. most \in Nat /\ most <= 8
      BY <3>10
    <3>. HIDE DEF lod, F, last
    <3>12. \A k \in 0 .. most : tiles[(tile + k) % 8] = tiles[tile]
      <4>. HIDE DEF most
      <4>1. \A i0 \in 1 .. Lesser(7, most) : tiles[(tile + i0) % 8] = tiles[tile]
        BY <3>8, <3>9 DEF most
      <4>. QED BY <3>11, <4>1, AlikeTiles
    <3>13. \E i \in 0 .. most : lod.tile0 = (tile + i) % 8
      <4>1. CASE tex_lod
        BY <3>7, <4>1
      <4>2. CASE ~tex_lod
        <5>1. lod.tile0 = (tile + 0) % 8
          BY <3>7, <4>2
        <5>. QED BY <3>11, <5>1
      <4>. QED BY <4>1, <4>2
    <3>14. physical => \E j \in 0 .. most : lod.tile1 = (tile + j) % 8
      <4>1. CASE tex_lod
        BY <3>7, <4>1
      <4>2. CASE ~tex_lod /\ physical
        <5>1. lod.tile1 = (tile + 1) % 8 /\ 1 \in 0 .. most
          BY <3>7, <3>10, <4>2
        <5>. QED BY <5>1
      <4>. QED BY <4>1, <4>2
    <3>. HIDE DEF most
    <3>. QED BY <3>1, <3>5, <3>12, <3>13, <3>14
  <2>13. t.texel0 # Undefined => "uses_texel0" \in F /\ t.texel0.format = tiles[t.texel0.tile]
    <3>. SUFFICES ASSUME t.texel0 # Undefined
                  PROVE  "uses_texel0" \in F /\ t.texel0.format = tiles[t.texel0.tile]
      OBVIOUS
    <3>. HIDE DEF t, lod
    <3>0. "uses_texel0" \in F
      BY <2>9
    <3>1. PICK convert, bilerp, previous, at :
              t.texel0 = SampleOf(norm, tiles, lod.tile0, convert, bilerp, previous, at)
      BY <2>9, <3>0
    <3>2. t.texel0.tile = lod.tile0 /\ t.texel0.format = IF "static_texture" \in F THEN norm.texture ELSE tiles[lod.tile0]
      BY <3>1, SampleIs
    <3>. QED BY <2>12, <3>0, <3>2
  <2>14. "uses_texel0" \in F => t.texel0 # Undefined
    <3>. SUFFICES ASSUME "uses_texel0" \in F PROVE t.texel0 # Undefined
      OBVIOUS
    <3>. HIDE DEF t, lod
    <3>1. PICK convert, bilerp, previous, at :
              t.texel0 = SampleOf(norm, tiles, lod.tile0, convert, bilerp, previous, at)
      BY <2>9
    <3>. QED BY <3>1, SampleIs
  <2>15. ASSUME "uses_texel1" \in F \/ "uses_pipelined_texel1" \in F, "convert_one" \in F /\ "bilerp1" \notin F
         PROVE  t.texel1 # Undefined /\ "tile" \notin DOMAIN t.texel1
    <3>1. t.texel1 = [converted |-> t.texel0]
      BY <2>9, <2>15
    <3>. HIDE DEF t
    <3>. QED BY <3>1, ConversionIs
  <2>16. ASSUME "uses_texel1" \in F \/ "uses_pipelined_texel1" \in F, ~("convert_one" \in F /\ "bilerp1" \notin F)
         PROVE  /\ t.texel1 # Undefined /\ "converted" \notin DOMAIN t.texel1
                /\ t.texel1.format = tiles[t.texel1.tile]
    <3>1. PICK at, convert, bilerp, previous, place :
              /\ t.texel1 = SampleOf(norm, tiles, at, convert, bilerp, previous, place)
              /\ at = IF "uses_pipelined_texel1" \in F THEN lod.tile0 ELSE lod.tile1
      <4>. HIDE DEF lod, t
      <4>. QED BY <2>9, <2>16
    <3>. HIDE DEF t, lod
    <3>2. /\ t.texel1 # Undefined /\ "converted" \notin DOMAIN t.texel1 /\ t.texel1.tile = at
          /\ t.texel1.format = IF "static_texture" \in F THEN norm.texture ELSE tiles[at]
      BY <3>1, SampleIs
    <3>3. ASSUME "static_texture" \in F PROVE norm.texture = tiles[at]
      <4>1. CASE "uses_pipelined_texel1" \in F
        BY <2>12, <3>1, <3>3, <4>1
      <4>2. CASE "uses_pipelined_texel1" \notin F
        <5>1. UsesTexel1(raw)
          BY <2>10, <2>16, <4>2
        <5>2. Physical(raw)
          BY <2>11, <2>16, <5>1 DEF Physical
        <5>. QED BY <2>12, <3>1, <3>3, <4>2, <5>2
      <4>. QED BY <4>1, <4>2
    <3>. QED BY <3>2, <3>3
  <2>17. t.texel1 # Undefined => "uses_texel1" \in F \/ "uses_pipelined_texel1" \in F
    BY <2>9
  <2>18. SUFFICES ASSUME ~Unsampled(raw) PROVE Sampled(pixel, tiles)
    BY <2>5
  <2>19. "Texel0" \in inputs => t.texel0 # Undefined
    <3>1. ASSUME "Texel0" \in inputs PROVE UsesTexel0(raw)
      BY <2>8, <3>1, WiderAccess DEF UsesTexel0, Texel0s, Texel1s
    <3>. QED BY <2>10, <2>14, <3>1
  <2>20. "Texel1" \in inputs => t.texel1 # Undefined
    <3>1. ASSUME "Texel1" \in inputs PROVE UsesTexel1(raw) \/ UsesPipelinedTexel1(raw)
      BY <2>8, <3>1, WiderAccess DEF UsesTexel1, UsesPipelinedTexel1, Texel0s, Texel1s
    <3>. HIDE DEF t
    <3>. QED BY <2>10, <2>15, <2>16, <3>1
  <2>21. "LODFrac" \in inputs => "frac" \in DOMAIN t.lod
    <3>. SUFFICES ASSUME "LODFrac" \in inputs PROVE "frac" \in DOMAIN lod
      BY <2>9
    <3>1. UsesLodFrac(raw)
      <4>1. CASE two
        <5>1. PICK i \in 1 .. 2 : Accesses(raw.combiner[i], {"LODFrac"})
          BY <2>8, <4>1
        <5>. QED BY <4>1, <5>1 DEF UsesLodFrac
      <4>2. CASE ~two
        BY <2>8, <2>18, <4>2 DEF Unsampled
      <4>. QED BY <4>1, <4>2
    <3>2. lod = LevelOfDetail(F, tile, max_level, min_lod, d)
      BY <2>10, <3>1
    <3>. HIDE DEF lod, F
    <3>3. Levelled(F, tile, max_level, lod)
      BY <3>2, LevelTiles
    <3>. QED BY <3>3 DEF Levelled
  <2>22. t.texel1 # Undefined /\ "converted" \in DOMAIN t.texel1 => t.texel0 # Undefined
    <3>. SUFFICES ASSUME t.texel1 # Undefined /\ "converted" \in DOMAIN t.texel1 PROVE t.texel0 # Undefined
      OBVIOUS
    <3>1. /\ "uses_texel1" \in F \/ "uses_pipelined_texel1" \in F
          /\ "convert_one" \in F
      BY <2>16, <2>17
    <3>2. CASE "uses_texel1" \in F
      BY <2>10, <2>11, <2>14, <3>1, <3>2
    <3>3. CASE "uses_pipelined_texel1" \in F
      <4>1. UsesPipelinedTexel1(raw) /\ "convert_one" \in raw.flags
        BY <2>10, <2>11, <3>1, <3>3
      <4>2. UsesTexel0(raw)
        BY <2>18, <4>1 DEF Unsampled, UsesPipelinedTexel1
      <4>. QED BY <2>10, <2>14, <4>2
    <3>. QED BY <3>1, <3>2, <3>3
  <2>23. t.texel0 # Undefined => (IF "tile" \in DOMAIN t.texel0 THEN t.texel0.format = tiles[t.texel0.tile] ELSE TRUE)
    <3>. HIDE DEF t
    <3>. QED BY <2>13
  <2>24. t.texel1 # Undefined => (IF "tile" \in DOMAIN t.texel1 THEN t.texel1.format = tiles[t.texel1.tile] ELSE TRUE)
    <3>. HIDE DEF t
    <3>. QED BY <2>15, <2>16, <2>17
  <2>. QED BY <2>19, <2>20, <2>21, <2>22, <2>23, <2>24, Zenon DEF Sampled
<1>. QED BY <1>5, <1>6

-----------------------------------------------------------------------------
(* The states that the jobs choose are among those. *)

(* Every slot can select nothing. *)
LEMMA ZeroIsSelected == \A slot \in Slots : "Zero" \in Selectors(slot)
<1>. SUFFICES ASSUME NEW slot \in Slots PROVE "Zero" \in Selectors(slot)
  OBVIOUS
<1>1. CASE slot \in {"rgb_muladd", "rgb_mulsub", "rgb_mul", "rgb_add"}
  BY <1>1 DEF Selectors, Common
<1>2. CASE slot \in {"alpha_muladd", "alpha_mulsub", "alpha_mul", "alpha_add"}
  BY <1>2 DEF Selectors
<1>. QED BY <1>1, <1>2 DEF Slots

(* What is chosen to be read can be selected.                              *)
LEMMA ReadIsSelected ==
    ASSUME NEW r \in Reads
    PROVE  r[3] \in Selectors(r[2])
<1>1. PICK i \in 1 .. 2, slot \in {"rgb_muladd", "rgb_mulsub", "rgb_mul", "rgb_add", "alpha_add", "alpha_mul"} :
          r \in {<<i, slot, selector>> : selector \in Selectors(slot)}
  BY DEF Reads
<1>2. PICK selector \in Selectors(slot) : r = <<i, slot, selector>>
  BY <1>1
<1>. QED BY <1>2

(* A state that is chosen is one that registers can hold.                  *)
LEMMA ChosenState ==
    ASSUME NEW flags, NEW reads \in SUBSET Reads, NEW dither,
           \A f, g \in {"multi_cycle", "copy", "fill"} : f \in flags /\ g \in flags => f = g
    PROVE  Settable(State(flags, reads, dither)) /\ State(flags, reads, dither).flags = flags
<1>1. Combiner(reads) \in [1 .. 2 -> CombinerCycles]
  <2>1. ASSUME NEW i \in 1 .. 2, NEW slot \in Slots
        PROVE  (IF \E r \in reads : r[1] = i /\ r[2] = slot
                THEN (CHOOSE r \in reads : r[1] = i /\ r[2] = slot)[3] ELSE "Zero") \in Selectors(slot)
    <3>1. CASE \E r \in reads : r[1] = i /\ r[2] = slot
      <4>. DEFINE q == CHOOSE r \in reads : r[1] = i /\ r[2] = slot
      <4>1. q \in reads /\ q[2] = slot
        BY <3>1
      <4>. HIDE DEF q
      <4>2. q[3] \in Selectors(slot)
        BY <4>1, ReadIsSelected
      <4>. QED BY <3>1, <4>2 DEF q
    <3>2. CASE ~(\E r \in reads : r[1] = i /\ r[2] = slot)
      BY <3>2, ZeroIsSelected
    <3>. QED BY <3>1, <3>2
  <2>. DEFINE cycle(i) == [slot \in Slots |->
                  IF \E r \in reads : r[1] = i /\ r[2] = slot
                  THEN (CHOOSE r \in reads : r[1] = i /\ r[2] = slot)[3] ELSE "Zero"]
  <2>2. ASSUME NEW i \in 1 .. 2 PROVE cycle(i) \in CombinerCycles
    <3>1. \A slot \in Slots : cycle(i)[slot] \in Selectors(slot)
      BY <2>1
    <3>2. \A slot \in Slots : Selectors(slot) \subseteq Selected
      BY DEF Selected
    <3>3. cycle(i) = [slot \in Slots |-> cycle(i)[slot]]
      OBVIOUS
    <3>. HIDE DEF cycle
    <3>4. cycle(i) \in [Slots -> Selected]
      BY <3>1, <3>2, <3>3
    <3>. QED BY <3>1, <3>4 DEF CombinerCycles
  <2>3. Combiner(reads) = [i \in 1 .. 2 |-> cycle(i)]
    BY DEF Combiner
  <2>. HIDE DEF cycle
  <2>. QED BY <2>2, <2>3
<1>2. State(flags, reads, dither) = [flags |-> flags, combiner |-> Combiner(reads), dither |-> dither, texture |-> <<>>]
  BY DEF State
<1>. DEFINE s == State(flags, reads, dither)
<1>3. IsState(s) /\ s.flags = flags /\ s.combiner = Combiner(reads)
  <2>. HIDE DEF s
  <2>. QED BY <1>2, StateIs DEF s
<1>. HIDE DEF s
<1>4. Settable(s)
  BY <1>1, <1>3 DEF Settable
<1>. QED BY <1>3, <1>4 DEF s

(* A cycle mode and flags beside it. *)
LEMMA OneMode ==
    ASSUME NEW mode \in CycleModes, NEW flags,
           flags \intersect {"multi_cycle", "copy", "fill"} = {}
    PROVE  /\ \A f, g \in {"multi_cycle", "copy", "fill"} : f \in mode \union flags /\ g \in mode \union flags => f = g
           /\ "fill" \notin mode => "fill" \notin mode \union flags
<1>1. \A f \in mode : f \in {"multi_cycle", "copy", "fill"}
  BY DEF CycleModes
<1>2. \A f, g \in mode : f = g
  BY DEF CycleModes
<1>3. \A f \in flags : f \notin {"multi_cycle", "copy", "fill"}
  OBVIOUS
<1>. QED BY <1>2, <1>3

(* What holds of the jobs that are about static state. *)
StateJobs ==
    /\ job.of = "state" => job.mode \in CycleModes /\ job.flags \in SUBSET {"convert_one", "bilerp1", "tex_lod"}
    /\ job.of \in {"mixed", "sampled"} => Settable(job.state)
    /\ job.of = "sampled" => "fill" \notin job.state.flags

(* At the start, chosen states have one cycle mode.                        *)
LEMMA JobsStart == Init => StateJobs
<1>. SUFFICES ASSUME JobInit PROVE StateJobs
  BY DEF Init
<1>1. CASE TexelInit
  <2>1. job.of \in {"nothing", "load", "draw"}
    BY <1>1 DEF TexelInit, Nothing
  <2>. QED BY <2>1 DEF StateJobs
<1>2. CASE PixelInit
  BY <1>2 DEF PixelInit, StateJobs
<1>3. CASE FragmentInit
  <2>1. job.of \in {"pixel", "surface"}
    BY <1>3 DEF FragmentInit
  <2>. QED BY <2>1 DEF StateJobs
<1>4. CASE EncodingInit
  <2>1. job.of = "called"
    BY <1>4 DEF EncodingInit
  <2>. QED BY <2>1 DEF StateJobs
<1>5. CASE job.of \in {"heights", "cells", "staging", "collect"}
  BY <1>5 DEF StateJobs
<1>6. \/ TexelInit \/ PixelInit \/ FragmentInit \/ EncodingInit
      \/ job.of \in {"heights", "cells", "staging", "collect"}
  BY DEF JobInit
<1>. QED BY <1>1, <1>2, <1>3, <1>4, <1>5, <1>6

(* Every step that makes a job of a state makes it of one that registers   *)
(* can hold.                                                               *)
LEMMA JobsStep == StateJobs /\ [Next]_<<job, cachesVars>> => StateJobs'
<1>. SUFFICES ASSUME StateJobs, [Next]_<<job, cachesVars>> PROVE StateJobs'
  OBVIOUS
<1>1. CASE UNCHANGED job
  BY <1>1 DEF StateJobs
<1>2. CASE TexelNext
  <2>1. job'.of \in {"loaded", "read", "drawn", "filtered"}
    BY <1>2 DEF TexelNext, Load, Read, Draw, Filter
  <2>. QED BY <2>1 DEF StateJobs
<1>3. CASE Mix
  <2>1. PICK reads \in {{r} : r \in Reads}, dither \in {<<0, 3>>, <<3, 2>>},
             test \in {{}, {"alpha_test"}, {"alpha_test", "alpha_test_dither"}} :
                job' = [of |-> "mixed", state |-> State(job.mode \union job.flags \union test, reads, dither)]
    BY <1>3 DEF Mix
  <2>2. job.mode \in CycleModes /\ job.flags \in SUBSET {"convert_one", "bilerp1", "tex_lod"}
    BY <1>3 DEF Mix, StateJobs
  <2>3. (job.flags \union test) \intersect {"multi_cycle", "copy", "fill"} = {}
    <3>1. \A f \in job.flags \union test : f \in {"convert_one", "bilerp1", "tex_lod"} \union {"alpha_test", "alpha_test_dither"}
      BY <2>1, <2>2
    <3>2. \A f \in {"convert_one", "bilerp1", "tex_lod"} \union {"alpha_test", "alpha_test_dither"} :
              f \notin {"multi_cycle", "copy", "fill"}
      OBVIOUS
    <3>. QED BY <3>1, <3>2
  <2>5. reads \in SUBSET Reads
    OBVIOUS
  <2>. DEFINE flags == job.mode \union job.flags \union test
  <2>6. flags = job.mode \union (job.flags \union test)
    OBVIOUS
  <2>7. Settable(State(flags, reads, dither))
    <3>1. /\ \A f, g \in {"multi_cycle", "copy", "fill"} : f \in flags /\ g \in flags => f = g
      <4>. HIDE DEF flags
      <4>. QED BY <2>2, <2>3, <2>6, OneMode
    <3>. HIDE DEF flags
    <3>. QED BY <2>5, <3>1, ChosenState
  <2>8. job' = [of |-> "mixed", state |-> State(flags, reads, dither)]
    BY <2>1
  <2>. HIDE DEF flags
  <2>9. job'.of = "mixed" /\ Settable(job'.state)
    BY <2>7, <2>8
  <2>. QED BY <2>9 DEF StateJobs
<1>4. CASE Sample
  <2>1. PICK reads \in TextureReads, more \in SUBSET {"sharpen", "detail", "bilerp0"}, n \in 0 .. 7 :
                 job' = [of |-> "sampled", alike |-> n,
                         state |-> State(job.mode \union job.flags \union more, reads, <<0, 0>>)]
    BY <1>4 DEF Sample
  <2>2. /\ job.mode \in CycleModes /\ job.flags \in SUBSET {"convert_one", "bilerp1", "tex_lod"}
        /\ "fill" \notin job.mode
    BY <1>4 DEF Sample, StateJobs
  <2>3. (job.flags \union more) \intersect {"multi_cycle", "copy", "fill"} = {}
    <3>1. \A f \in job.flags \union more : f \in {"convert_one", "bilerp1", "tex_lod"} \union {"sharpen", "detail", "bilerp0"}
      BY <2>1, <2>2
    <3>2. \A f \in {"convert_one", "bilerp1", "tex_lod"} \union {"sharpen", "detail", "bilerp0"} :
              f \notin {"multi_cycle", "copy", "fill"}
      OBVIOUS
    <3>. QED BY <3>1, <3>2
  <2>5. reads \in SUBSET Reads
    <3>1. PICK x, y \in Textured \union {"LODFrac", "Shade"} : reads = {<<1, "rgb_mul", x>>, <<2, "rgb_mul", y>>}
      BY DEF TextureReads
    <3>2. Textured \union {"LODFrac", "Shade"} \subseteq Selectors("rgb_mul")
      BY DEF Textured, Selectors, Common
    <3>3. \A i \in 1 .. 2, z \in Selectors("rgb_mul") : <<i, "rgb_mul", z>> \in Reads
      <4>. SUFFICES ASSUME NEW i \in 1 .. 2, NEW z \in Selectors("rgb_mul") PROVE <<i, "rgb_mul", z>> \in Reads
        OBVIOUS
      <4>1. {<<i, "rgb_mul", selector>> : selector \in Selectors("rgb_mul")} \subseteq Reads
        <5>. DEFINE Of(j, slot) == {<<j, slot, selector>> : selector \in Selectors(slot)}
        <5>1. Reads = UNION {Of(j, slot) : j \in 1 .. 2, slot \in {"rgb_muladd", "rgb_mulsub", "rgb_mul", "rgb_add",
                                                                   "alpha_add", "alpha_mul"}}
          BY DEF Reads
        <5>. HIDE DEF Of
        <5>2. Of(i, "rgb_mul") \subseteq Reads
          BY <5>1
        <5>. QED BY <5>2 DEF Of
      <4>. QED BY <4>1
    <3>. QED BY <3>1, <3>2, <3>3
  <2>. DEFINE flags == job.mode \union job.flags \union more
  <2>6. flags = job.mode \union (job.flags \union more)
    OBVIOUS
  <2>7. Settable(State(flags, reads, <<0, 0>>)) /\ State(flags, reads, <<0, 0>>).flags = flags /\ "fill" \notin flags
    <3>1. /\ \A f, g \in {"multi_cycle", "copy", "fill"} : f \in flags /\ g \in flags => f = g
          /\ "fill" \notin flags
      <4>. HIDE DEF flags
      <4>. QED BY <2>2, <2>3, <2>6, OneMode
    <3>. HIDE DEF flags
    <3>. QED BY <2>5, <3>1, ChosenState
  <2>8. job' = [of |-> "sampled", alike |-> n, state |-> State(flags, reads, <<0, 0>>)]
    BY <2>1
  <2>. HIDE DEF flags
  <2>9. job'.of = "sampled" /\ Settable(job'.state) /\ "fill" \notin job'.state.flags
    BY <2>7, <2>8
  <2>. QED BY <2>9 DEF StateJobs
<1>5. CASE FragmentNext
  <2>1. job'.of \in {"pass", "over", "aliased"}
    BY <1>5 DEF FragmentNext, Pass, Over, Alias
  <2>. QED BY <2>1 DEF StateJobs
<1>6. CASE EncodingNext
  <2>1. job'.of = "told"
    BY <1>6 DEF EncodingNext
  <2>. QED BY <2>1 DEF StateJobs
<1>7. CASE Cover \/ Bin \/ Stage
  <2>1. job'.of \in {"covered", "binned", "staged"}
    BY <1>7 DEF Cover, Bin, Stage
  <2>. QED BY <2>1 DEF StateJobs
<1>. QED BY <1>1, <1>2, <1>3, <1>4, <1>5, <1>6, <1>7 DEF Next, PixelNext, Collect

(* The theorems about all states, for those of the jobs.                   *)
LEMMA JobsKeepPixels == StateJobs => PixelsKeepTheirInputs
<1>. SUFFICES ASSUME StateJobs PROVE NormalisationKeepsPixels /\ TexelsAreSampled
  BY DEF PixelsKeepTheirInputs
<1>1. NormalisationKeepsPixels
  <2>. SUFFICES ASSUME job.of = "mixed" PROVE NormalisationKeepsPixels
    BY DEF NormalisationKeepsPixels
  <2>. DEFINE raw   == job.state
              tiles == Tiles(0, 7)
              state == Deduced(raw, tiles, 0, 0)
              norm  == Normalize(state)
              kept  == Shaded(norm, state, tiles, 0, 0, 0, 100)
              drawn == Shaded(state, state, tiles, 0, 0, 0, 100)
  <2>1. Settable(raw)
    BY DEF StateJobs
  <2>2. kept = drawn /\ AsTold(kept, raw.combiner, MultiCycle(norm)) /\ (ReadsNoise(state) => "need_noise" \in norm.flags)
    <3>1. state = Deduced(raw, tiles, 0, 0) /\ norm = Normalize(state)
      OBVIOUS
    <3>. HIDE DEF raw, tiles, state, norm
    <3>. QED BY <2>1, <3>1, StateKeepsPixels
  <2>3. SameInputs(kept, drawn)
    <3>. HIDE DEF kept, drawn
    <3>. QED BY <2>2 DEF SameInputs
  <2>. QED BY <2>2, <2>3, Zenon DEF NormalisationKeepsPixels
<1>2. TexelsAreSampled
  <2>. SUFFICES ASSUME job.of = "sampled" PROVE TexelsAreSampled
    BY DEF TexelsAreSampled
  <2>1. Settable(job.state) /\ "fill" \notin job.state.flags
    BY DEF StateJobs
  <2>. DEFINE raw          == job.state
              At(tile)     == Tiles(tile, job.alike)
              norm(tile, n) == Normalize(Deduced(raw, At(tile), tile, n))
              pixel(tile, n, d) == Shaded(norm(tile, n), raw, At(tile), tile, n, 0, d)
  <2>2. ASSUME NEW tile \in {0, 6}, NEW max_level \in {0, 1, 3, 7},
               NEW d \in {0, 31, 32, 64, 200, 1024, 20000, Overflow}
        PROVE  IF pixel(tile, max_level, d).mode = "copy" THEN pixel(tile, max_level, d).format = At(tile)[tile]
               ELSE Unsampled(raw) \/ Sampled(pixel(tile, max_level, d), At(tile))
    <3>1. tile \in 0 .. 7 /\ max_level \in 0 .. 7 /\ d \in Int
      BY DEF Overflow
    <3>. DEFINE tiles == At(tile)
                n     == norm(tile, max_level)
                p     == pixel(tile, max_level, d)
    <3>2. n = Normalize(Deduced(raw, tiles, tile, max_level)) /\ p = Shaded(n, raw, tiles, tile, max_level, 0, d)
      OBVIOUS
    <3>3. Settable(raw) /\ "fill" \notin raw.flags
      BY <2>1
    <3>. HIDE DEF raw, At, norm, pixel, tiles, n, p
    <3>4. IF p.mode = "copy" THEN p.format = tiles[tile] ELSE Unsampled(raw) \/ Sampled(p, tiles)
      BY <3>1, <3>2, <3>3, StateIsSampled
    <3>. QED BY <3>4 DEF tiles, p
  <2>. QED BY <2>2 DEF TexelsAreSampled
<1>. QED BY <1>1, <1>2

(* So every pixel of a job keeps its inputs, and they are sampled from the *)
(* tiles that are right for it.                                            *)
THEOREM PixelsKept == Spec => []PixelsKeepTheirInputs
<1>. QED BY JobsStart, JobsStep, JobsKeepPixels, PTL DEF Spec
=============================================================================
