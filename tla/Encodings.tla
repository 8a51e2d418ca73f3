-------------------------------- MODULE Encodings ------------------------------
(***************************************************************************)
(* Calls of the builder on chosen arguments, and what the renderer is told *)
(* when their words have been read: every field at its least and its most, *)
(* between fields that are all clear or all set.                           *)
(***************************************************************************)
EXTENDS Commands, Fragments, SequencesExt

\* fields[f] starts with the least and the most of a field.
Arguments(fields) ==
    {[[g \in DOMAIN fields |-> fields[g][base]] EXCEPT ![a[1]] = a[2]] :
        base \in {1, 2}, a \in UNION {{f} \X Range(fields[f]) : f \in DOMAIN fields}}
Bits(n) == <<0, 2^n - 1, 1, 2^(n - 1)>>
AWord == <<{}, 0 .. 31, {0}, {15}, {16}, {23}, {24}, {31}>>
Attribute == <<{}, 0 .. 31, {3, 21}>>

Flag1 == Bits(1)
ModesOf2Bits == {"cycle_type", "rgb_dither", "alpha_dither", "z_mode", "coverage_mode"}
                \union (CycleAndBlendModes \ {"blend_en"})
ModeValues(mode) == IF mode \in ModesOf2Bits THEN 0 .. 3 ELSE 0 .. 1
MostModes == [mode \in DOMAIN OtherModes |-> Max(ModeValues(mode))]
Combiners ==
    [f \in DOMAIN DecodedCombiner0 |-> Bits(DecodedCombiner0[f][2])]
    @@ [f \in DOMAIN DecodedCombiner1 |-> Bits(DecodedCombiner1[f][2])]
Rectangle == [x |-> Bits(10), y |-> Bits(10), width |-> <<1, 1023, 1024>>, height |-> <<1, 1023, 1024>>]
Steps == [s |-> Bits(16), t |-> Bits(16), dsdx |-> Bits(16), dtdy |-> Bits(16)]
Edge == <<0, -1, 1, 8, 2^27 - 1, -(2^27), 2^27, 2^29 - 8, -(2^29), 2^30>>
Height == <<0, -1, 1, 2^13 - 1, -(2^13)>>
\* A group of attributes none of which is like another, rotated.
Distinct(k) ==
    LET number == [at |-> 0, dx |-> 1, de |-> 2, dy |-> 3]
    IN  [d \in DOMAIN number |-> [i \in 1 .. 4 |-> {k + number[d], 8 + i, 16 + number[d], 23 + i}]]
Triangle ==
    [right_major |-> <<0, 1>>, y_lo |-> Height, y_mid |-> Height, y_hi |-> Height,
     x_a |-> Edge, x_b |-> Edge, x_c |-> Edge, dxdy_a |-> Edge, dxdy_b |-> Edge, dxdy_c |-> Edge,
     rgba |-> <<NoGroup, Distinct(0)>>, tex |-> <<Distinct(4), NoGroup, Distinct(0)>>,
     z |-> <<[at |-> {0}, dx |-> {7}, de |-> {16}, dy |-> {31}], NoDepth>>]

Calls ==
    [set_combiner_2cycle |-> Combiners,
     set_tile |-> [tile |-> Bits(3), offset |-> <<0, 4088, 8>>, stride |-> <<0, 4088, 8>>, size |-> Bits(2),
                   fmt |-> Bits(3), palette |-> Bits(4), shift_s |-> Bits(4), shift_t |-> Bits(4),
                   mask_s |-> <<0, 15, 1, 10, 11>>, mask_t |-> <<0, 15, 1, 10, 11>>,
                   clamp_s |-> <<0, 1>>, clamp_t |-> <<0, 1>>, mirror_s |-> <<0, 1>>, mirror_t |-> <<0, 1>>],
     set_primitive_color |-> [min_lod |-> Bits(8), prim_lod_frac |-> Bits(8), color |-> AWord],
     set_convert |-> [k0 |-> Bits(9), k1 |-> Bits(9), k2 |-> Bits(9), k3 |-> Bits(9), k4 |-> Bits(9), k5 |-> Bits(10)],
     set_key_r |-> [width |-> Bits(13), center |-> Bits(9), scale |-> Bits(8)],
     set_key_gb |-> [g_width |-> Bits(12), g_center |-> Bits(8), g_scale |-> Bits(8),
                     b_width |-> Bits(13), b_center |-> Bits(9), b_scale |-> Bits(8)],
     set_primitive_depth |-> [prim_depth |-> Bits(16), prim_dz |-> Bits(16)],
     set_color_image |-> [fmt |-> Bits(3), size |-> <<0, 3, 1, 2>>, width |-> <<1, 1024, 1025>>, addr |-> AWord],
     set_texture_image |-> [fmt |-> Bits(3), size |-> <<0, 3, 1, 2>>, width |-> <<1, 1024, 1025>>, addr |-> AWord],
     set_depth_image |-> [addr |-> AWord],
     set_scissor_subpixels |-> Rectangle @@ [interlace |-> <<0, 1>>, keepodd |-> <<0, 1>>],
     load_tile |-> [tile |-> Bits(3)] @@ Rectangle, set_tile_size |-> [tile |-> Bits(3)] @@ Rectangle,
     load_tlut |-> [tile |-> Bits(3)] @@ Rectangle,
     load_block |-> [tile |-> Bits(3), x |-> Bits(12), y |-> Bits(12), width |-> <<1, 2047, 2048>>, dt |-> Bits(12)],
     fill_rectangle |-> Rectangle,
     tex_rect |-> [tile |-> Bits(4)] @@ Rectangle @@ Steps, tex_rect_flip |-> [tile |-> Bits(4)] @@ Rectangle @@ Steps,
     draw_triangle |-> Triangle]
    @@ [c \in {"set_fill_color", "set_fog_color", "set_blend_color", "set_env_color"} |-> [color |-> AWord]]
Draws == {"fill_rectangle", "tex_rect", "tex_rect_flip", "draw_triangle"}

\* What a call puts into the list.  Draws flush the modes.
Words(name, a) ==
    CASE name = "set_combiner_2cycle" -> SetCombiner2Cycle(a)
      [] name = "set_tile" -> SetTile(a)
      [] name = "set_primitive_color" -> SetPrimitiveColor(a)
      [] name = "set_convert" -> SetConvert(a)
      [] name = "set_key_r" -> SetKeyR(a)
      [] name = "set_key_gb" -> SetKeyGB(a)
      [] name = "set_primitive_depth" -> SetPrimitiveDepth(a)
      [] name \in {"set_color_image", "set_texture_image"} -> SetImage(name, a)
      [] name = "set_depth_image" -> SetDepthImage(a)
      [] name = "set_scissor_subpixels" -> SetScissorSubpixels(a)
      [] name \in {"load_tile", "load_tlut", "set_tile_size"} -> LoadRectangle(name, a)
      [] name = "load_block" -> LoadBlock(a)
      [] name = "fill_rectangle" -> FillRectangleSubpixels(Subpixels(a))
      [] name = "tex_rect" -> TexRect("texture_rectangle", a)
      [] name = "tex_rect_flip" -> TexRect("texture_rectangle_flip", a)
      [] name = "draw_triangle" -> SubmitClippedPrimitive(a)
      [] OTHER -> SetColor(name, a)
Build(name, a, modes) == (IF name \in Draws THEN <<FlushDefaultState(modes)>> ELSE <<>>) \o <<Words(name, a)>>
Least(fields) == [f \in DOMAIN fields |-> fields[f][1]]
Most(fields) == [f \in DOMAIN fields |-> fields[f][2]]
-----------------------------------------------------------------------------
\* A device that has had calls with all their bits set, and one that has had none.
NewDevice(quirks) ==
    [flags |-> {}, blend_flags |-> {}, dither |-> 0, coverage_mode |-> 0, z_mode |-> 0,
     blend |-> [f \in DOMAIN DecodedBlend |-> 0], combiner |-> Least(Combiners),
     texture_image |-> [addr |-> {}, width |-> 0, size |-> 0, fmt |-> 0], quirks |-> quirks, told |-> <<>>]
UsedDevice(quirks) ==
    FoldLeft(Decode, NewDevice(quirks),
             <<FlushDefaultState(MostModes), SetCombiner2Cycle(Most(Combiners)),
               SetScissorSubpixels(Most(Rectangle) @@ [interlace |-> 1, keepodd |-> 1]),
               SetImage("set_texture_image", Most(Calls.set_texture_image))>>)
Quirks == {"native_texture_lod", "native_resolution_tex_rect"}

EncodingInit ==
    \/ job \in [of : {"called"}, device : {"new", "used"}, name : DOMAIN Calls, modes : {OtherModes}, quirks : {{}}]
    \/ \E modes \in {OtherModes, MostModes}, mode \in PixelModes \union CycleAndBlendModes \union TextureModes :
           job \in [of : {"called"}, device : {"new", "used"}, name : Draws,
                    modes : {SetMode(modes, mode, to) : to \in ModeValues(mode)}, quirks : {{}, Quirks}]
EncodingNext ==
    /\ job.of = "called"
    /\ \E a \in IF job.modes = OtherModes THEN Arguments(Calls[job.name])
                ELSE {Least(Calls[job.name]), Most(Calls[job.name])} :
           LET device == IF job.device = "new" THEN NewDevice(job.quirks) ELSE UsedDevice(job.quirks)
           IN  job' = [of |-> "told", name |-> job.name, args |-> a, modes |-> job.modes, before |-> device,
                       dev |-> FoldLeft(Decode, device, Build(job.name, a, job.modes))]
-----------------------------------------------------------------------------
(* What was asked, as the renderer should hear it. *)

\* The names that a mode of the builder and a flag of the device have.
Same == [perspective |-> "perspective", detail |-> "tex_lod_detail_enable", sharpen |-> "tex_lod_sharpen_enable",
         tex_lod |-> "tex_lod_enable", tlut |-> "tlut", tlut_type |-> "tlut_ia_type", sample_mode |-> "sample_quad",
         mid_texel |-> "mid_texel", bilerp0 |-> "bilerp0", bilerp1 |-> "bilerp1", convert_one |-> "convert_one",
         alpha_cvg_select |-> "alpha_cvg_select", cvg_times_alpha |-> "cvg_times_alpha", aa |-> "aa",
         alpha_test_dither |-> "alpha_test_dither", alpha_test |-> "alpha_test"]
SameBlend == [force_blend |-> "blend_en", color_on_coverage |-> "color_on_coverage", aa |-> "aa",
              image_read_enable |-> "image_read_enable", depth_update |-> "depth_write", depth_test |-> "depth_test"]
AskedCycle(modes) == <<{}, {"multi_cycle"}, {"copy"}, {"fill"}>>[modes.cycle_type + 1]
AskedFlags(modes, before) ==
    {f \in DOMAIN Same : modes[Same[f]] = 1} \union AskedCycle(modes)
    \union (before \intersect {"interlace", "keep_odd"})
AskedBlend(modes) ==
    [flags |-> {f \in DOMAIN SameBlend : modes[SameBlend[f]] = 1} \union (AskedCycle(modes) \intersect {"multi_cycle"})
               \union (IF modes.rgb_dither = 3 THEN {} ELSE {"dither_enable"}),
     coverage_mode |-> modes.coverage_mode, z_mode |-> modes.z_mode,
     blend |-> [f \in DOMAIN DecodedBlend |-> modes[f]]]

AskedKey(width, center, scale) == Key(width % 4096, center % 256, scale % 256)
AskedImage(a) ==
    [addr |-> a.addr \intersect 0 .. 23, width |-> ((a.width - 1) % 1024) + 1, size |-> a.size, fmt |-> a.fmt]
AskedTile(a) ==
    [tile |-> a.tile,
     info |-> [offset |-> a.offset, stride |-> a.stride, size |-> a.size, fmt |-> a.fmt, palette |-> a.palette,
               shift_s |-> a.shift_s, shift_t |-> a.shift_t, mask_s |-> Lesser(a.mask_s, 10),
               mask_t |-> Lesser(a.mask_t, 10),
               flags |-> {f \in {"mirror_s", "clamp_s", "mirror_t", "clamp_t"} :
                             a[f] = 1 \/ (f = "clamp_s" /\ a.mask_s = 0) \/ (f = "clamp_t" /\ a.mask_t = 0)}]]
AskedSpan(x, width, y, height) ==
    [slo |-> x % 4096, shi |-> (x + width) % 4096, tlo |-> y % 4096, thi |-> (y + height) % 4096]

Quarter(a, of, size) == (a[of] + a[size] - 4) % 4096
AskedRectangle(a, job_, flags) ==
    LET last  == Quarter(a, "y", "height")
        whole == job_.modes.cycle_type \in {2, 3}
    IN  [flags |-> {"flip"} \union flags, tile |-> 0, yh |-> a.y % 4096,
         yl |-> IF whole THEN 4 * (last \div 4) + 3 ELSE last, ym |-> IF whole THEN 4 * (last \div 4) + 3 ELSE last,
         xl |-> 8192 * Quarter(a, "x", "width"), xm |-> 8192 * Quarter(a, "x", "width"), xh |-> 8192 * (a.x % 4096),
         dxldy |-> 0, dxhdy |-> 0, dxmdy |-> 0]
AskedTexRect(a, job_, always, dx, de) ==
    LET flags == always
                 \union (IF "native_resolution_tex_rect" \in job_.before.quirks THEN {"disable_upscaling"} ELSE {})
                 \union (IF "native_texture_lod" \in job_.before.quirks THEN {"native_lod"} ELSE {})
                 \union (IF job_.modes.cycle_type = 2 THEN {"skip_xfrac"} ELSE {})
        SlopeOf(f) == BitsOf(2048 * Signed(a[f], 16))
        across   == IF dx = "s" THEN <<SlopeOf("dsdx"), {}, {}, {}>> ELSE <<{}, SlopeOf("dtdy"), {}, {}>>
        down     == IF de = "s" THEN <<SlopeOf("dsdx"), {}, {}, {}>> ELSE <<{}, SlopeOf("dtdy"), {}, {}>>
    IN  [shaded |-> TRUE, setup |-> [AskedRectangle(a, job_, flags) EXCEPT !.tile = a.tile % 8],
         attr |-> [NoAttributes EXCEPT !.tex = [at |-> <<PutBits(a.s, 16), PutBits(a.t, 16), {}, {}>>,
                                                dx |-> across, de |-> down, dy |-> down]]]
AskedTriangle(a, job_) ==
    LET flip == a.right_major = 0
        X(x) == Signed(x, 28) \div 2
        flags == (IF flip THEN {"flip"} ELSE {}) \union (IF flip = (a.dxdy_a < 0) THEN {"do_offset"} ELSE {})
                 \union (IF job_.modes.cycle_type = 2 THEN {"skip_xfrac"} ELSE {})
                 \union (IF "native_texture_lod" \in job_.before.quirks THEN {"native_lod"} ELSE {})
    IN  [flags |-> flags, tile |-> 48, yl |-> a.y_hi, ym |-> a.y_mid, yh |-> a.y_lo,
         xl |-> X(a.x_c), xh |-> X(a.x_a), xm |-> X(a.x_b),
         dxldy |-> X(a.dxdy_c \div 4), dxhdy |-> X(a.dxdy_a \div 4), dxmdy |-> X(a.dxdy_b \div 4)]
AskedAttributes(a) == [rgba |-> a.rgba, tex |-> [d \in DOMAIN NoGroup |-> [a.tex[d] EXCEPT ![4] = {}]], z |-> a.z]

\* What the renderer should be told, of each kind of thing that the call is about.
Asked(name, a, j) ==
    CASE name = "set_combiner_2cycle" ->
             [rasterization |-> [flags |-> j.before.flags, dither |-> j.before.dither, combiner |-> a]]
      [] name = "set_tile" -> [tile |-> AskedTile(a)]
      [] name = "set_primitive_color" ->
             [set_prim_color |-> [min_level |-> a.min_lod % 32, prim_lod_frac |-> a.prim_lod_frac, color |-> a.color]]
      [] name = "set_convert" ->
             [set_convert |-> <<2 * Signed(a.k0, 9) + 1, 2 * Signed(a.k1, 9) + 1, 2 * Signed(a.k2, 9) + 1,
                                2 * Signed(a.k3, 9) + 1, a.k4, a.k5 % 512>>]
      [] name = "set_key_r" -> [key_r |-> AskedKey(a.width, a.center, a.scale)]
      [] name = "set_key_gb" -> [key_g |-> AskedKey(a.g_width, a.g_center, a.g_scale),
                                 key_b |-> AskedKey(a.b_width, a.b_center, a.b_scale)]
      [] name = "set_primitive_depth" -> [set_prim_depth |-> [z |-> a.prim_depth, dz |-> a.prim_dz]]
      [] name = "set_color_image" ->
             LET image == AskedImage(a)
             IN  [color_image |-> [addr |-> image.addr, width |-> image.width,
                                   fmt |-> IF a.size = 2 THEN (IF a.fmt = 0 THEN "RGBA5551" ELSE "IA88")
                                           ELSE <<"I4", "I8", "", "RGBA8888">>[a.size + 1]]]
      [] name = "set_depth_image" -> [mask_image |-> a.addr \intersect 0 .. 23]
      [] name = "set_scissor_subpixels" ->
             [scissor |-> [xlo |-> a.x, xhi |-> (a.x + a.width), ylo |-> a.y, yhi |-> a.y + a.height]]
      [] name \in {"load_tile", "load_tlut"} ->
             [load |-> [tile |-> a.tile, mode |-> name, image |-> j.before.texture_image,
                        span |-> AskedSpan(4 * a.x, 4 * (a.width - 1), 4 * a.y, 4 * (a.height - 1))]]
      [] name = "load_block" ->
             [load |-> [tile |-> a.tile, mode |-> name, image |-> j.before.texture_image,
                        span |-> [AskedSpan(a.x, a.width - 1, a.y, 0) EXCEPT !.thi = a.dt]]]
      [] name = "set_tile_size" ->
             [tile_size |-> [tile |-> a.tile,
                             span |-> AskedSpan(4 * a.x, 4 * (a.width - 1), 4 * a.y, 4 * (a.height - 1))]]
      [] name = "fill_rectangle" ->
             [draw |-> [shaded |-> FALSE, setup |-> AskedRectangle(Subpixels(a), j, {"disable_upscaling"}),
                        attr |-> NoAttributes]]
      [] name = "tex_rect" -> [draw |-> AskedTexRect(a, j, {}, "s", "t")]
      [] name = "tex_rect_flip" -> [draw |-> AskedTexRect(a, j, {"disable_upscaling"}, "t", "s")]
      [] name = "draw_triangle" ->
             [draw |-> [shaded |-> TRUE, setup |-> AskedTriangle(a, j), attr |-> AskedAttributes(a)]]
      [] name = "set_texture_image" -> <<>>
      [] OTHER -> (name :> a.color)

\* A triangle of the whole, with the groups of another, one after the other, as in the hardware.
GroupWords ==
    [rgba |-> [first |-> 8, count |-> 16], tex |-> [first |-> 24, count |-> 16], z |-> [first |-> 40, count |-> 4]]
Groups(op) ==
    CASE op = "fill_triangle" -> <<>>
      [] op = "shade_triangle" -> <<"rgba">>
      [] op = "texture_triangle" -> <<"tex">>
      [] op = "shade_texture_triangle" -> <<"rgba", "tex">>
      [] op = "fill_z_buffer_triangle" -> <<"z">>
      [] op = "shade_z_buffer_triangle" -> <<"rgba", "z">>
      [] op = "texture_z_buffer_triangle" -> <<"tex", "z">>
      [] op = "shade_texture_z_buffer_triangle" -> <<"rgba", "tex", "z">>
Cut(words, op) ==
    LET whole == [i \in 1 .. 44 |-> words[i - 1]]
        Part(g) == SubSeq(whole, GroupWords[g].first + 1, GroupWords[g].first + GroupWords[g].count)
        all   == FoldLeft(LAMBDA s, g : s \o Part(g), SubSeq(whole, 1, 8), Groups(op))
    IN  [i \in 0 .. Len(all) - 1 |-> IF i = 0 THEN (words[0] \ (24 .. 29)) \union PutBits(Op[op], 24) ELSE all[i + 1]]
SharesLayout(j) ==
    \A op \in Triangles :
        LET draw  == Decode(j.before, Cut(Words("draw_triangle", j.args), op)).told.draw
            whole == AskedAttributes(j.args)
        IN  /\ draw.attr = [g \in DOMAIN whole |-> IF g \in Range(Groups(op)) THEN whole[g] ELSE NoAttributes[g]]
            /\ draw.shaded = (op # "fill_triangle")

(* The renderer is told what the builder was asked for: coordinates modulo *)
(* 1024 pixels, edges without their lowest bit and with their signs,       *)
(* images within 16 MiB; and of nothing but what the call is about.  The   *)
(* eight kinds of triangle are read from the same layout, less the groups  *)
(* that a kind does not have, which count as zero.                         *)
DecodeInvertsBuild ==
    job.of = "told" =>
        LET asked == Asked(job.name, job.args, job)
            also  == (IF job.name \in Draws THEN {"rasterization", "depth_blend", "primitive_depth"} ELSE {})
                     \union (IF job.name = "set_scissor_subpixels" THEN {"rasterization"} ELSE {})
        IN  /\ \A kind \in DOMAIN asked : job.dev.told[kind] = asked[kind]
            /\ \A kind \in DOMAIN job.dev.told \ (DOMAIN asked \union also) :
                   kind \in DOMAIN job.before.told /\ job.dev.told[kind] = job.before.told[kind]
            /\ job.dev.texture_image = IF job.name = "set_texture_image" THEN AskedImage(job.args)
                                       ELSE job.before.texture_image
            /\ job.name = "set_scissor_subpixels" =>
                   job.dev.flags = (job.before.flags \ {"interlace", "keep_odd"})
                                   \union (IF job.args.interlace = 1 THEN {"interlace"} ELSE {})
                                   \union (IF job.args.keepodd = 1 THEN {"keep_odd"} ELSE {})
            /\ job.name = "draw_triangle" => SharesLayout(job)

(* A draw is drawn with the modes that the builder has when it is built,   *)
(* and the combiner and the fields of the scissor of before, whatever      *)
(* state the processor was left in.                                        *)
DrawsSeeTheModes ==
    job.of = "told" /\ job.name \in Draws =>
        LET told == job.dev.told
        IN  /\ told.rasterization = [flags |-> AskedFlags(job.modes, job.before.flags),
                                     combiner |-> job.before.combiner,
                                     dither |-> 4 * job.modes.rgb_dither + job.modes.alpha_dither]
            /\ told.depth_blend = AskedBlend(job.modes)
            /\ told.primitive_depth = (job.modes.primitive_depth = 1)

(* The renderer is told what was asked for, with the modes of the time.    *)
RendererIsTold == DecodeInvertsBuild /\ DrawsSeeTheModes
=============================================================================
