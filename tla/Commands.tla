-------------------------------- MODULE Commands -------------------------------
(***************************************************************************)
(* Commands as words: CommandBuilder makes them (rdp_command_builder), the *)
(* handlers of CommandProcessor read them (rdp_device) and tell Renderer.  *)
(*                                                                         *)
(* A word is the set of its bits, so that | is a union.  A command is a    *)
(* function from 0 to words, a call of the builder a record of its name    *)
(* and arguments.  32-bit attributes and colours are words themselves.     *)
(***************************************************************************)
EXTENDS Bits, Sequences, FiniteSetsExt, TLC

BitsOf(x) == {i \in 0 .. 31 : IF i = 31 THEN x < 0 ELSE Bit(x, i)}
PutBits(x, lo) == {lo + i : i \in BitsOf(x)} \intersect 0 .. 31
PutAll(args, at) == UNION {PutBits(args[f], at[f]) : f \in DOMAIN at}
Take(word, lo, n) == MapThenSumSet(LAMBDA i : 2^i, {i \in 0 .. n - 1 : lo + i \in word})
TakeSigned(word, lo, n) == Signed(Take(word, lo, n), n)
UpperHalf(word) == word \ (0 .. 15)
LowerHalf(word) == word \intersect 0 .. 15
Up(word) == {i + 16 : i \in LowerHalf(word)}
Down(word) == {i - 16 : i \in UpperHalf(word)}

Op == [fill_triangle |-> 8, fill_z_buffer_triangle |-> 9, texture_triangle |-> 10, texture_z_buffer_triangle |-> 11,
       shade_triangle |-> 12, shade_z_buffer_triangle |-> 13, shade_texture_triangle |-> 14,
       shade_texture_z_buffer_triangle |-> 15, texture_rectangle |-> 36, texture_rectangle_flip |-> 37,
       sync_full |-> 41, set_key_gb |-> 42, set_key_r |-> 43, set_convert |-> 44, set_scissor |-> 45,
       set_prim_depth |-> 46, set_other_modes |-> 47, load_tlut |-> 48, set_tile_size |-> 50, load_block |-> 51,
       load_tile |-> 52, set_tile |-> 53, fill_rectangle |-> 54, set_fill_color |-> 55, set_fog_color |-> 56,
       set_blend_color |-> 57, set_prim_color |-> 58, set_env_color |-> 59, set_combine |-> 60,
       set_texture_image |-> 61, set_mask_image |-> 62, set_color_image |-> 63]
Command(op, first, rest) ==
    [i \in 0 .. Len(rest) |-> IF i = 0 THEN PutBits(Op[op], 24) \union first ELSE rest[i]]
-----------------------------------------------------------------------------
(* other_modes, which the setters change: pixels, cycles and textures.     *)
OtherModes ==
    [aa |-> 0, depth_test |-> 0, depth_write |-> 0, perspective |-> 0, rgb_dither |-> 3, alpha_dither |-> 3,
     alpha_test |-> 0, alpha_test_dither |-> 0, cvg_times_alpha |-> 0, alpha_cvg_select |-> 0, z_mode |-> 0,
     coverage_mode |-> 0, sample_quad |-> 0, primitive_depth |-> 0,
     cycle_type |-> 0, blend_en |-> 0, blend_1a_0 |-> 0, blend_1a_1 |-> 0, blend_1b_0 |-> 0, blend_1b_1 |-> 0,
     blend_2a_0 |-> 0, blend_2a_1 |-> 0, blend_2b_0 |-> 0, blend_2b_1 |-> 0,
     tlut |-> 0, tlut_ia_type |-> 0, tex_lod_enable |-> 0, tex_lod_sharpen_enable |-> 0, tex_lod_detail_enable |-> 0,
     image_read_enable |-> 0, color_on_coverage |-> 0, mid_texel |-> 0, convert_one |-> 0, bilerp0 |-> 1, bilerp1 |-> 1]
PixelModes == {"aa", "depth_test", "depth_write", "perspective", "rgb_dither", "alpha_dither", "alpha_test",
               "alpha_test_dither", "cvg_times_alpha", "alpha_cvg_select", "z_mode", "coverage_mode", "sample_quad",
               "primitive_depth"}
CycleAndBlendModes == {"cycle_type", "blend_en", "blend_1a_0", "blend_1a_1", "blend_1b_0", "blend_1b_1",
               "blend_2a_0", "blend_2a_1", "blend_2b_0", "blend_2b_1"}
TextureModes == {"tlut", "tlut_ia_type", "tex_lod_enable", "tex_lod_sharpen_enable", "tex_lod_detail_enable",
                 "image_read_enable", "color_on_coverage", "mid_texel", "convert_one", "bilerp0", "bilerp1"}
SetMode(modes, mode, to) == [modes EXCEPT ![mode] = to]

(* Building.  Where the fields of other_modes, of the inputs of the        *)
(* combiner (first and second cycle) and of a tile go.                     *)
BuiltModes ==
    <<[cycle_type |-> 20, perspective |-> 19, tex_lod_detail_enable |-> 18, tex_lod_sharpen_enable |-> 17,
       tex_lod_enable |-> 16, tlut |-> 15, tlut_ia_type |-> 14, sample_quad |-> 13, mid_texel |-> 12,
       bilerp0 |-> 11, bilerp1 |-> 10, convert_one |-> 9, rgb_dither |-> 6, alpha_dither |-> 4],
      [blend_1a_0 |-> 30, blend_1a_1 |-> 28, blend_1b_0 |-> 26, blend_1b_1 |-> 24,
       blend_2a_0 |-> 22, blend_2a_1 |-> 20, blend_2b_0 |-> 18, blend_2b_1 |-> 16,
       blend_en |-> 14, alpha_cvg_select |-> 13, cvg_times_alpha |-> 12, z_mode |-> 10, coverage_mode |-> 8,
       color_on_coverage |-> 7, image_read_enable |-> 6, depth_write |-> 5, depth_test |-> 4, aa |-> 3,
       primitive_depth |-> 2, alpha_test_dither |-> 1, alpha_test |-> 0]>>
BuiltCombiner ==
    <<[rgb_muladd_0 |-> 20, rgb_mul_0 |-> 15, alpha_muladd_0 |-> 12, alpha_mul_0 |-> 9,
       rgb_muladd_1 |-> 5, rgb_mul_1 |-> 0],
      [rgb_mulsub_0 |-> 28, rgb_mulsub_1 |-> 24, alpha_muladd_1 |-> 21, alpha_mul_1 |-> 18, rgb_add_0 |-> 15,
       alpha_mulsub_0 |-> 12, alpha_add_0 |-> 9, rgb_add_1 |-> 6, alpha_mulsub_1 |-> 3, alpha_add_1 |-> 0]>>
BuiltTile ==
    <<[size |-> 19, fmt |-> 21],
      [shift_s |-> 0, mask_s |-> 4, mirror_s |-> 8, clamp_s |-> 9, shift_t |-> 10, mask_t |-> 14,
       mirror_t |-> 18, clamp_t |-> 19, palette |-> 20, tile |-> 24]>>

FlushDefaultState(modes) ==
    Command("set_other_modes", PutAll(modes, BuiltModes[1]), <<PutAll(modes, BuiltModes[2])>>)
SetCombiner2Cycle(a) == Command("set_combine", PutAll(a, BuiltCombiner[1]), <<PutAll(a, BuiltCombiner[2])>>)
SetTile(a) ==
    Command("set_tile", PutAll(a, BuiltTile[1]) \union PutBits(a.offset \div 8, 0) \union PutBits(a.stride \div 8, 9),
            <<PutAll(a, BuiltTile[2])>>)

SetColor(op, a) == Command(op, {}, <<a.color>>)
SetPrimitiveColor(a) == Command("set_prim_color", PutBits(a.min_lod, 8) \union PutBits(a.prim_lod_frac, 0), <<a.color>>)
\* A 64-bit word is put together: k1 straddles its halves.
SetConvert(a) ==
    LET at == [k5 |-> 0, k4 |-> 9, k3 |-> 18, k2 |-> 27, k1 |-> 36, k0 |-> 45]
        word == UNION {{at[k] + i : i \in BitsOf(Low(a[k], 9))} : k \in DOMAIN at}
    IN  Command("set_convert", {i - 32 : i \in {j \in word : j >= 32}}, <<word \intersect 0 .. 31>>)
SetKeyR(a) ==
    Command("set_key_r", {},
            <<PutBits(Low(a.width, 12), 16) \union PutBits(Low(a.center, 8), 8) \union PutBits(Low(a.scale, 8), 0)>>)
SetKeyGB(a) ==
    Command("set_key_gb", PutBits(Low(a.g_width, 12), 12) \union PutBits(Low(a.b_width, 12), 0),
            <<PutBits(Low(a.g_center, 8), 24) \union PutBits(Low(a.g_scale, 8), 16)
              \union PutBits(Low(a.b_center, 8), 8) \union PutBits(Low(a.b_scale, 8), 0)>>)
SetPrimitiveDepth(a) == Command("set_prim_depth", {}, <<PutBits(a.prim_depth, 16) \union PutBits(a.prim_dz, 0)>>)

SetImage(op, a) ==
    Command(op, PutBits(a.fmt, 21) \union PutBits(a.size, 19) \union PutBits(Low(a.width - 1, 10), 0),
            <<IF op = "set_texture_image" THEN a.addr \intersect 0 .. 23 ELSE a.addr>>)
SetDepthImage(a) == Command("set_mask_image", {}, <<a.addr>>)

\* From (lo, tlo) in the first word to (hi, thi) in the second, with what is above them.
SpanCommand(op, first, lo, tlo, second, hi, thi) ==
    Command(op, first \union PutBits(Low(lo, 12), 12) \union PutBits(Low(tlo, 12), 0),
            <<second \union PutBits(Low(hi, 12), 12) \union PutBits(Low(thi, 12), 0)>>)
SetScissorSubpixels(a) ==
    SpanCommand("set_scissor", {}, a.x, a.y, PutBits(a.interlace, 25) \union PutBits(a.keepodd, 24),
                a.x + a.width, a.y + a.height)
Subpixels(a) == [f \in DOMAIN a |-> IF f \in {"x", "y", "width", "height"} THEN 4 * a[f] ELSE a[f]]
\* load_tile, set_tile_size, and the load of a TLUT, whose size is one short before it is scaled.
LoadRectangle(op, a) ==
    LET b == Subpixels(a) IN SpanCommand(op, {}, b.x, b.y, PutBits(a.tile, 24), b.x + b.width - 4, b.y + b.height - 4)
LoadBlock(a) == SpanCommand("load_block", {}, a.x, a.y, PutBits(a.tile, 24), a.x + a.width - 1, a.dt)

FillRectangleSubpixels(a) == SpanCommand("fill_rectangle", {}, a.x + a.width - 4, a.y + a.height - 4, {}, a.x, a.y)
TexRect(op, a) ==
    LET span == SpanCommand(op, {}, a.x + a.width - 4, a.y + a.height - 4, PutBits(Low(a.tile, 3), 24), a.x, a.y)
        rest == <<PutBits(a.s, 16) \union PutBits(a.t, 0), PutBits(a.dsdx, 16) \union PutBits(a.dtdy, 0)>>
    IN  [i \in 0 .. 3 |-> IF i < 2 THEN span[i] ELSE rest[i - 1]]

(* Attributes are 16.16 numbers, two of whose halves make a word.  A group *)
(* of four is its value, and its slopes along x, the edge, and y.          *)
Slopes3 == {"dx", "de", "dy"}
BuiltGroup == [at |-> 0, dx |-> 2, de |-> 8, dy |-> 10]
Pack(group) ==
    [i \in 0 .. 15 |->
        LET d     == CHOOSE d \in DOMAIN BuiltGroup : \E k \in {0, 1, 4, 5} : i = BuiltGroup[d] + k
            k     == i - BuiltGroup[d]
            first == group[d][1 + (2 * (k % 4))]
            other == group[d][2 + (2 * (k % 4))]
        IN  IF k < 4 THEN UpperHalf(first) \union Down(other) ELSE Up(first) \union LowerHalf(other)]

(* submit_clipped_primitive.  A setup has the flag right_major, heights,   *)
(* edges and their slopes as numbers, and groups of attributes.  Depths    *)
(* are words of their own.                                                 *)
BuiltHeights(setup) ==
    <<PutBits(Low(setup.y_hi, 14), 0), PutBits(Low(setup.y_lo, 14), 0) \union PutBits(Low(setup.y_mid, 14), 16)>>
BuiltEdges(setup) ==
    <<PutBits(Low(setup.x_c, 28), 0), PutBits(Low(setup.dxdy_c, 30), 0), PutBits(Low(setup.x_a, 28), 0),
      BitsOf(setup.dxdy_a),      PutBits(Low(setup.x_b, 28), 0), PutBits(Low(setup.dxdy_b, 30), 0)>>
SubmitClippedPrimitive(setup) ==
    LET rgba == Pack(setup.rgba)
        tex  == Pack(setup.tex)
        z    == <<setup.z.at, setup.z.dx, setup.z.de, setup.z.dy>>
    IN  Command("shade_texture_z_buffer_triangle",
                BuiltHeights(setup)[1] \union PutBits(6, 19) \union PutBits(1 - setup.right_major, 23),
                [i \in 1 .. 43 |-> IF i = 1 THEN BuiltHeights(setup)[2]
                                   ELSE IF i < 8 THEN BuiltEdges(setup)[i - 1]
                                   ELSE IF i < 24 THEN rgba[i - 8]
                                   ELSE IF i < 40 THEN tex[i - 24]
                                   ELSE z[i - 39]])
-----------------------------------------------------------------------------
(* Decoding.  dev is what a CommandProcessor keeps between commands:       *)
(* static_state with its flags, depth_blend with its flags, the scissor,   *)
(* texture_image, quirks; and told, what Renderer was told last of each    *)
(* kind.                                                                   *)
WithFlag(flags, flag, on) == IF on THEN flags \union {flag} ELSE flags \ {flag}
MaskedFlags(flags, word, at) == {f \in flags : f \notin DOMAIN at} \union {f \in DOMAIN at : at[f] \in word}
Tell(dev, name, what) == [dev EXCEPT !.told = [n \in DOMAIN @ \union {name} |-> IF n = name THEN what ELSE @[n]]]
TellRasterization(dev) ==
    Tell(dev, "rasterization", [flags |-> dev.flags, dither |-> dev.dither, combiner |-> dev.combiner])

\* An edge or a slope of 28 bits, without its lowest.  Mutant: the sign is lost.
DecodeEdgeUnsigned(word, lo) == Shr(Take(word, lo, 28), 1)
DecodeEdge(word, lo) == Shr(TakeSigned(word, lo, 28), 1)
DecodeTriangleSetup(dev, words) ==
    [flags |-> {f \in {"flip", "do_offset", "skip_xfrac", "native_lod"} :
                   CASE f = "flip" -> 23 \in words[0]
                     [] f = "do_offset" -> (23 \in words[0]) = (31 \in words[5])
                     [] f = "skip_xfrac" -> "copy" \in dev.flags
                     [] OTHER -> "native_texture_lod" \in dev.quirks},
     tile |-> Take(words[0], 16, 6),
     yl |-> TakeSigned(words[0], 0, 14), ym |-> TakeSigned(words[1], 16, 14), yh |-> TakeSigned(words[1], 0, 14),
     xl |-> DecodeEdge(words[2], 0), xh |-> DecodeEdge(words[4], 0), xm |-> DecodeEdge(words[6], 0),
     dxldy |-> DecodeEdge(words[3], 2), dxhdy |-> DecodeEdge(words[5], 2), dxmdy |-> DecodeEdge(words[7], 2)]

\* decode_rgba_setup and decode_tex_setup, whose last two words are not looked at below 16.
Zeros4 == <<{}, {}, {}, {}>>
NoGroup == [at |-> Zeros4, dx |-> Zeros4, de |-> Zeros4, dy |-> Zeros4]
DecodedGroup == [at |-> 0, dx |-> 2, de |-> 8, dy |-> 10]
Unpack(words, first) ==
    [d \in DOMAIN DecodedGroup |->
        LET Word(k) == words[first + DecodedGroup[d] + k]
        IN  <<UpperHalf(Word(0)) \union Down(Word(4)), Up(Word(0)) \union LowerHalf(Word(4)),
              UpperHalf(Word(1)) \union Down(Word(5)), Up(Word(1)) \union LowerHalf(Word(5))>>]
DecodeTexSetup(words, first) == LET g == Unpack(words, first) IN [d \in DOMAIN g |-> [g[d] EXCEPT ![4] = {}]]
DecodeZSetup(words, first) ==
    [at |-> words[first], dx |-> words[first + 1], de |-> words[first + 2], dy |-> words[first + 3]]
NoDepth == [d \in DOMAIN NoGroup |-> {}]
NoAttributes == [rgba |-> NoGroup, tex |-> NoGroup, z |-> NoDepth]

(* The groups of attributes of a triangle, and the word each starts at.    *)
TriangleGroups(op) ==
    CASE op = "fill_triangle" -> <<>>
      [] op = "shade_triangle" -> [rgba |-> 8]
      [] op = "shade_z_buffer_triangle" -> [rgba |-> 8, z |-> 24]
      [] op = "shade_texture_z_buffer_triangle" -> [rgba |-> 8, tex |-> 24, z |-> 40]
      [] op = "fill_z_buffer_triangle" -> [z |-> 8]
      [] op = "texture_triangle" -> [tex |-> 8]
      [] op = "texture_z_buffer_triangle" -> [tex |-> 8, z |-> 24]
      [] op = "shade_texture_triangle" -> [rgba |-> 8, tex |-> 24]
Triangles == {op \in DOMAIN Op : Op[op] \in 8 .. 15}
OpTriangle(dev, op, words) ==
    LET at   == TriangleGroups(op)
        attr == [g \in {"rgba", "tex", "z"} |->
                    IF g \notin DOMAIN at THEN NoAttributes[g]
                    ELSE CASE g = "rgba" -> Unpack(words, at[g])
                           [] g = "tex" -> DecodeTexSetup(words, at[g])
                           [] g = "z" -> DecodeZSetup(words, at[g])]
    IN  Tell(dev, "draw", [shaded |-> op # "fill_triangle", setup |-> DecodeTriangleSetup(dev, words), attr |-> attr])

(* Rectangles are triangles with upright edges.  In fill and copy modes    *)
(* they cover the whole of their last line.                                *)
DecodeRectangle(dev, words, flags) ==
    LET yl == Take(words[0], 0, 12)
        y  == IF {"copy", "fill"} \intersect dev.flags # {} THEN AlignDown(yl, 4) + 3 ELSE yl
        xl == Shl(Take(words[0], 12, 12), 13)
    IN  [flags |-> {"flip"} \union flags, tile |-> 0, yl |-> y, ym |-> y, yh |-> Take(words[1], 0, 12),
         xl |-> xl, xm |-> xl, xh |-> Shl(Take(words[1], 12, 12), 13), dxldy |-> 0, dxhdy |-> 0, dxmdy |-> 0]
OpFillRectangle(dev, words) ==
    Tell(dev, "draw", [shaded |-> FALSE, setup |-> DecodeRectangle(dev, words, {"disable_upscaling"}),
                       attr |-> NoAttributes])

RectangleFlags(dev) ==
    {f \in {"disable_upscaling", "native_lod", "skip_xfrac"} :
        CASE f = "disable_upscaling" -> "native_resolution_tex_rect" \in dev.quirks
          [] f = "native_lod" -> "native_texture_lod" \in dev.quirks
          [] OTHER -> "copy" \in dev.flags}
\* A signed number of 16 bits << 11.
Slope16(word, lo) ==
    LET i == TakeSigned(word, lo, 16)
    IN  {j + 11 : j \in {k \in 0 .. 20 : IF i < 0 THEN Bit(i + 2^20, k) \/ k = 20 ELSE Bit(i, k)}}
RectangleTexels(words, steps) ==
    LET tex == [d \in DOMAIN NoGroup |->
                   IF d = "at" THEN <<UpperHalf(words[2]), Up(words[2]), {}, {}>>
                   ELSE <<IF "s" \in steps[d] THEN Slope16(words[3], 16) ELSE {},
                          IF "t" \in steps[d] THEN Slope16(words[3], 0) ELSE {}, {}, {}>>]
    IN  [NoAttributes EXCEPT !.tex = tex]
OpTextureRectangle(dev, words) ==
    Tell(dev, "draw", [shaded |-> TRUE,
                       setup |-> [DecodeRectangle(dev, words, RectangleFlags(dev))
                                  EXCEPT !.tile = Take(words[1], 24, 3)],
                       attr |-> RectangleTexels(words, [dx |-> {"s"}, de |-> {"t"}, dy |-> {"t"}])])
OpTextureRectangleFlip(dev, words) ==
    Tell(dev, "draw", [shaded |-> TRUE,
                       setup |-> [DecodeRectangle(dev, words, RectangleFlags(dev) \union {"disable_upscaling"})
                                  EXCEPT !.tile = Take(words[1], 24, 3)],
                       attr |-> RectangleTexels(words, [dx |-> {"t"}, de |-> {"s"}, dy |-> {"s"}])])

(* State. *)
OpSetScissor(dev, words) ==
    LET scissor == [xlo |-> Take(words[0], 12, 12), xhi |-> Take(words[1], 12, 12),
                    ylo |-> Take(words[0], 0, 12), yhi |-> Take(words[1], 0, 12)]
        next    == [dev EXCEPT !.flags = MaskedFlags(@, words[1], [interlace |-> 25, keep_odd |-> 24])]
    IN  TellRasterization(Tell(next, "scissor", scissor))

DecodedFlags0 ==
    [perspective |-> 19, detail |-> 18, sharpen |-> 17, tex_lod |-> 16, tlut |-> 15, tlut_type |-> 14,
     sample_mode |-> 13, mid_texel |-> 12, bilerp0 |-> 11, bilerp1 |-> 10, convert_one |-> 9]
DecodedFlags1 == [alpha_cvg_select |-> 13, cvg_times_alpha |-> 12, aa |-> 3, alpha_test_dither |-> 1, alpha_test |-> 0]
DecodedBlendFlags ==
    [force_blend |-> 14, color_on_coverage |-> 7, image_read_enable |-> 6, depth_update |-> 5, depth_test |-> 4,
     aa |-> 3]
DecodedBlend ==
    [blend_1a_0 |-> 30, blend_1a_1 |-> 28, blend_1b_0 |-> 26, blend_1b_1 |-> 24,
     blend_2a_0 |-> 22, blend_2a_1 |-> 20, blend_2b_0 |-> 18, blend_2b_1 |-> 16]
CycleFlags == [multi_cycle |-> 1, copy |-> 2, fill |-> 3]
SetCycle(flags, cycle) == (flags \ DOMAIN CycleFlags) \union {f \in DOMAIN CycleFlags : CycleFlags[f] = cycle}
OpSetOtherModes(dev, words) ==
    LET dither == Take(words[0], 4, 4)
        cycle  == Take(words[0], 20, 2)
        next   == [dev EXCEPT
                      !.flags = SetCycle(MaskedFlags(MaskedFlags(@, words[0], DecodedFlags0),
                                                     words[1], DecodedFlags1), cycle),
                      !.dither = dither,
                      !.blend_flags = WithFlag(WithFlag(MaskedFlags(@, words[1], DecodedBlendFlags),
                                                        "dither_enable", dither \div 4 # 3), "multi_cycle", cycle = 1),
                      !.coverage_mode = Take(words[1], 8, 2), !.z_mode = Take(words[1], 10, 2),
                      !.blend = [f \in DOMAIN DecodedBlend |-> Take(words[1], DecodedBlend[f], 2)]]
        blend  == [flags |-> next.blend_flags, coverage_mode |-> next.coverage_mode, z_mode |-> next.z_mode,
                   blend |-> next.blend]
    IN  Tell(Tell(TellRasterization(next), "depth_blend", blend), "primitive_depth", 2 \in words[1])

DecodedCombiner0 ==
    [rgb_muladd_0 |-> <<20, 4>>, rgb_mul_0 |-> <<15, 5>>, alpha_muladd_0 |-> <<12, 3>>, alpha_mul_0 |-> <<9, 3>>,
     rgb_muladd_1 |-> <<5, 4>>, rgb_mul_1 |-> <<0, 5>>]
DecodedCombiner1 ==
    [rgb_mulsub_0 |-> <<28, 4>>, rgb_add_0 |-> <<15, 3>>, alpha_mulsub_0 |-> <<12, 3>>, alpha_add_0 |-> <<9, 3>>,
     rgb_mulsub_1 |-> <<24, 4>>, rgb_add_1 |-> <<6, 3>>, alpha_muladd_1 |-> <<21, 3>>, alpha_mulsub_1 |-> <<3, 3>>,
     alpha_mul_1 |-> <<18, 3>>, alpha_add_1 |-> <<0, 3>>]
TakeAll(word, at) == [f \in DOMAIN at |-> Take(word, at[f][1], at[f][2])]
OpSetCombine(dev, words) ==
    TellRasterization([dev EXCEPT
                          !.combiner = TakeAll(words[0], DecodedCombiner0) @@ TakeAll(words[1], DecodedCombiner1)])

OpSetTextureImage(dev, words) ==
    [dev EXCEPT !.texture_image = [addr |-> words[1] \intersect 0 .. 23, width |-> Take(words[0], 0, 10) + 1,
                                   size |-> Take(words[0], 19, 2), fmt |-> Take(words[0], 21, 3)]]
\* A mask of more than 10 bits is one of 10; without a mask, a tile clamps.
LimitMask(mask) == Lesser(mask, 10)
OpSetTile(dev, words) ==
    LET w == words[1]
        mask_s == LimitMask(Take(w, 4, 4))
        mask_t == LimitMask(Take(w, 14, 4))
        flags == {f \in {"mirror_s", "clamp_s", "mirror_t", "clamp_t"} :
                     CASE f = "mirror_s" -> 8 \in w
                       [] f = "clamp_s" -> 9 \in w \/ mask_s = 0
                       [] f = "mirror_t" -> 18 \in w
                       [] f = "clamp_t" -> 19 \in w \/ mask_t = 0}
        info == [offset |-> Shl(Take(words[0], 0, 9), 3), stride |-> Shl(Take(words[0], 9, 9), 3),
                 size |-> Take(words[0], 19, 2), fmt |-> Take(words[0], 21, 3), palette |-> Take(w, 20, 4),
                 shift_s |-> Take(w, 0, 4), shift_t |-> Take(w, 10, 4), mask_s |-> mask_s, mask_t |-> mask_t,
                 flags |-> flags]
    IN  Tell(dev, "tile", [tile |-> Take(w, 24, 3), info |-> info])
TakeSpan(words) ==
    [slo |-> Take(words[0], 12, 12), shi |-> Take(words[1], 12, 12),
     tlo |-> Take(words[0], 0, 12), thi |-> Take(words[1], 0, 12)]
\* op_load_tile, op_load_tlut, op_load_block: mode is the kind of upload.
OpLoad(dev, mode, words) ==
    Tell(dev, "load", [tile |-> Take(words[1], 24, 3), mode |-> mode, image |-> dev.texture_image,
                       span |-> TakeSpan(words)])
OpSetTileSize(dev, words) == Tell(dev, "tile_size", [tile |-> Take(words[1], 24, 3), span |-> TakeSpan(words)])

OpSetColor(dev, op, words) == Tell(dev, op, words[1])
OpSetPrimColor(dev, words) ==
    Tell(dev, "set_prim_color",
         [min_level |-> Take(words[0], 8, 5), prim_lod_frac |-> Take(words[0], 0, 8), color |-> words[1]])
OpSetPrimDepth(dev, words) == Tell(dev, "set_prim_depth", [z |-> Take(words[1], 16, 16), dz |-> Take(words[1], 0, 16)])
\* The first four are expanded (Renderer::set_convert).
OpSetConvert(dev, words) ==
    LET merged == {i + 32 : i \in words[0]} \union words[1]
        at     == <<45, 36, 27, 18, 9, 0>>
        k      == [i \in 1 .. 6 |-> Take(merged, at[i], 9)]
    IN  Tell(dev, "set_convert", [i \in 1 .. 6 |-> IF i <= 4 THEN (2 * Signed(k[i], 9)) + 1 ELSE k[i]])
Key(width, center, scale) == [width |-> width, center |-> center, scale |-> scale]
OpSetKeyGB(dev, words) ==
    Tell(Tell(dev, "key_g", Key(Take(words[0], 12, 12), Take(words[1], 24, 8), Take(words[1], 16, 8))),
         "key_b", Key(Take(words[0], 0, 12), Take(words[1], 8, 8), Take(words[1], 0, 8)))
OpSetKeyR(dev, words) ==
    Tell(dev, "key_r", Key(Take(words[1], 16, 12), Take(words[1], 8, 8), Take(words[1], 0, 8)))

Formats == <<"I4", "I8", "RGBA5551", "RGBA8888">>
OpSetColorImage(dev, words) ==
    LET size == Take(words[0], 19, 2)
    IN  Tell(dev, "color_image",
             [addr |-> words[1] \intersect 0 .. 23, width |-> Take(words[0], 0, 10) + 1,
              fmt |-> IF size = 2 /\ Take(words[0], 21, 3) # 0 THEN "IA88" ELSE Formats[size + 1]])
OpSetMaskImage(dev, words) == Tell(dev, "mask_image", words[1] \intersect 0 .. 23)

\* enqueue_command_direct: the handler of the opcode of a command, if it has one.
Decode(dev, words) ==
    LET number == Take(words[0], 24, 6)
    IN  IF \A op \in DOMAIN Op : Op[op] # number THEN dev
        ELSE LET op == CHOOSE op \in DOMAIN Op : Op[op] = number
             IN  CASE op \in Triangles -> OpTriangle(dev, op, words)
                   [] op = "fill_rectangle" -> OpFillRectangle(dev, words)
                   [] op = "texture_rectangle" -> OpTextureRectangle(dev, words)
                   [] op = "texture_rectangle_flip" -> OpTextureRectangleFlip(dev, words)
                   [] op = "set_scissor" -> OpSetScissor(dev, words)
                   [] op = "set_other_modes" -> OpSetOtherModes(dev, words)
                   [] op = "set_combine" -> OpSetCombine(dev, words)
                   [] op = "set_texture_image" -> OpSetTextureImage(dev, words)
                   [] op = "set_tile" -> OpSetTile(dev, words)
                   [] op = "set_tile_size" -> OpSetTileSize(dev, words)
                   [] op \in {"load_tile", "load_tlut", "load_block"} -> OpLoad(dev, op, words)
                   [] op \in {"set_fill_color", "set_fog_color", "set_blend_color", "set_env_color"} ->
                          OpSetColor(dev, op, words)
                   [] op = "set_prim_color" -> OpSetPrimColor(dev, words)
                   [] op = "set_prim_depth" -> OpSetPrimDepth(dev, words)
                   [] op = "set_convert" -> OpSetConvert(dev, words)
                   [] op = "set_key_gb" -> OpSetKeyGB(dev, words)
                   [] op = "set_key_r" -> OpSetKeyR(dev, words)
                   [] op = "set_color_image" -> OpSetColorImage(dev, words)
                   [] op = "set_mask_image" -> OpSetMaskImage(dev, words)
                   [] op = "sync_full" -> Tell(dev, "sync", TRUE)
=============================================================================
