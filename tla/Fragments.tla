-------------------------------- MODULE Fragments ------------------------------
(***************************************************************************)
(* What primitives do to the pixels of the frame buffer, on chosen inputs, *)
(* beside the states of Pixels and the texels of Texels: two of them after *)
(* each other in one pass or in two, surfaces of chosen depths, and a draw *)
(* with the color where the depth is.                                      *)
(***************************************************************************)
EXTENDS DepthBlend, Pixels
-----------------------------------------------------------------------------
(* Two operations on a pixel: primitives, and the fills and copies.        *)

Mode(p, a, m, b) == [a1 |-> p, b1 |-> a, a2 |-> m, b2 |-> b]
Primitive(z, dz, z_mode, flags) ==
    [kind |-> "draw", z |-> z, dz |-> dz, z_mode |-> z_mode, coverage |-> 8,
     z_compare |-> "z_compare" \in flags, z_update |-> "z_update" \in flags,
     force_blend |-> "force" \in flags, aa |-> "aa" \in flags, image_read |-> "read" \in flags,
     dither |-> "dither" \in flags, multi_cycle |-> "dither" \in flags, color_on_coverage |-> FALSE,
     coverage_mode |-> IF "aa" \in flags THEN "clamp" ELSE "wrap", shade_alpha |-> 77, dith |-> 5,
     blend_color |-> <<1, 2, 3, 4>>, fog_color |-> <<255, 0, 9, 128>>, combined |-> <<13, 200, 255, 100>>,
     mode0 |-> Mode("pixel", "shade", "memory", "inv"), mode1 |-> Mode("pixel", "pixel", "memory", "memory")]

Styles == {{}, {"aa", "read"}, {"force", "read", "dither"}}
Primaries(depths, modes) ==
    {[Primitive(z, 64, m, style \union tests) EXCEPT !.coverage = c] :
        z \in depths, m \in modes, c \in {3, 8}, style \in Styles,
        tests \in SUBSET {"z_compare", "z_update"}}
Fills == {[kind |-> k, word |-> w] : k \in {"fill", "copy"}, w \in {1234567890, 43981}}

\* Sixteen bytes of a frame buffer that starts at a pixel of each format, and its depths.
DepthOffset == 8
PixelMemory(v, h) == [bytes |-> [a \in 0 .. 27 |-> v[(a % 4) + 1]], hidden |-> [a \in 0 .. 13 |-> h], mask |-> {}]
Memories == {PixelMemory(<<255, 255, 255, 255>>, 3), PixelMemory(<<18, 171, 99, 52>>, 1)}
PixelFormats == {"I4", "I8", "RGBA5551", "IA88", "RGBA8888"}
-----------------------------------------------------------------------------
(* Depths around those where the precision of the depth in memory changes, *)
(* of surfaces from flat to steep.                                         *)
Depths == UNION {{262144 - 2^k + d : d \in {-9, -1, 0, 1}} : k \in {0, 9, 11, 12, 13, 17}} \intersect 0 .. 262143
Slopes == {Dzpix(d[1], d[2]) : d \in {<<0, 0>>, <<40, -1>>, <<-2000, 1100>>, <<20000, 20000>>}}

FragmentInit == \/ job \in [of : {"pixel"}, fmt : PixelFormats, mem : Memories, index : {2, 3},
                            op : Primaries({0, 200000}, {"opaque", "interpenetrating"}) \union Fills]
                \/ job \in [of : {"surface"}, z : Depths, dz : Slopes]

Pass == /\ job.of = "pixel"
        /\ \E second \in Primaries({200000}, {"opaque", "interpenetrating"}) \union Fills :
               job' = [of |-> "pass", fmt |-> job.fmt, mem |-> job.mem, index |-> job.index, ops |-> <<job.op, second>>]
Over == /\ job.of = "surface"
        /\ \E z \in Depths, dz \in Slopes, mode \in {"opaque", "decal"}, cov \in {3, 8} :
               job' = [of |-> "over", under |-> [z |-> job.z, dz |-> job.dz],
                       prim |-> [Primitive(z, dz, mode, {"z_compare", "aa"}) EXCEPT !.coverage = cov]]
Alias == /\ job.of = "pixel" /\ job.fmt = "IA88" /\ (job.op.kind = "draw" => ~job.op.z_update)
         /\ job' = [of |-> "aliased", fmt |-> job.fmt, mem |-> job.mem, index |-> job.index, op |-> job.op]

FragmentNext == Pass \/ Over \/ Alias
-----------------------------------------------------------------------------
Apply(fmt, alias, index, pixel, op) ==
    CASE op.kind = "fill" -> FillColor(fmt, alias, pixel, index, op.word)
      [] op.kind = "copy" -> CopyPipeline(fmt, alias, pixel, op.word)
      [] op.kind = "draw" -> Blend(fmt, alias, pixel, op)

DrawnIn(fmt, index, mem, ops) ==
    LET start == InitTile(fmt, mem, index, index + DepthOffset)
        Draws[k \in 0 .. Len(ops)] == IF k = 0 THEN start ELSE Apply(fmt, FALSE, index, Draws[k - 1], ops[k])
    IN  FinishTile(fmt, FALSE, mem, index, index + DepthOffset, Draws[Len(ops)])

ChangedOf(before, after) == {a \in DOMAIN after.bytes : after.bytes[a] # before.bytes[a]}

(* Where a pass ends does not show: two operations in one pass leave in    *)
(* memory, in its hidden bits and in the mask of what is written the same  *)
(* as each of them in a pass of its own, and the mask holds all that has   *)
(* changed.                                                                *)
PassesCompose ==
    job.of = "pass" =>
        LET once == DrawnIn(job.fmt, job.index, job.mem, job.ops)
            half == DrawnIn(job.fmt, job.index, job.mem, <<job.ops[1]>>)
        IN  /\ once = DrawnIn(job.fmt, job.index, half, <<job.ops[2]>>)
            /\ ChangedOf(job.mem, once) \subseteq once.mask

(* What has been drawn at a depth hides what is opaque and behind it, and  *)
(* is hidden by what is in front, though memory keeps fewer bits of the    *)
(* depth than are compared: it is never farther in memory than it was      *)
(* drawn, and nearer by less than the bits that are lost.  A decal shows   *)
(* on the surface that it has the depth of.                                *)
SurfacesKeepTheirOrder ==
    job.of = "over" =>
        LET z    == job.under.z
            prim == job.prim
            drawn == [depth |-> ZCompress(z), dz |-> DzCompress(job.under.dz)]
            kept == ZDecompress(drawn.depth)
            max  == kept = 262143
            test(memory_coverage) == DepthTest(prim, drawn, prim.coverage, memory_coverage)
        IN  /\ kept <= z
            /\ z < kept + 2^Greater(6 - (drawn.depth \div 2048), 0)
            /\ z <= prim.z => drawn.depth <= ZCompress(prim.z)
            /\ \A memory_coverage \in {0, 7} :
                   LET t == test(memory_coverage) IN
                   /\ prim.z_mode = "opaque" /\ prim.z < kept => t.pass
                   /\ prim.z_mode = "opaque" /\ ~t.wrap /\ prim.z <= z => t.pass
                   /\ prim.z_mode = "opaque" /\ t.wrap /\ prim.z >= z => (t.pass <=> max)
                   /\ prim.z_mode = "decal" /\ prim.z = z => (t.pass <=> ~max)

DepthIsKept(pixel) ==
    LET mem == FinishTile(job.fmt, TRUE, job.mem, job.index, job.index, pixel)
    IN  pixel.color_dirty => [depth |-> pixel.depth, dz |-> pixel.dz] = LoadDepth(mem, job.index)

(* Where color and depth have the same address, the depth after a draw     *)
(* that does not write depth is what its color reads as; so it is for      *)
(* frame buffers of intensity and alpha.                                   *)
AliasInherits ==
    job.of = "aliased" =>
        DepthIsKept(Apply(job.fmt, TRUE, job.index, InitTile(job.fmt, job.mem, job.index, job.index), job.op))

(* The frame buffer, compressed as it is, keeps what was drawn.            *)
FramebufferKeeps == PassesCompose /\ SurfacesKeepTheirOrder /\ AliasInherits
=============================================================================
