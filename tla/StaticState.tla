------------------------------- MODULE StaticState -----------------------------
(***************************************************************************)
(* What a primitive is drawn with: the static state that the renderer      *)
(* deduces and normalises so that few pipelines are needed (rdp_renderer), *)
(* the constants that it takes out of it, and what shade_pixel (shading.h, *)
(* combiner.h) then reads.                                                 *)
(*                                                                         *)
(* Flags are the names of the RASTERIZATION_ bits that are set.  Inputs of *)
(* the combiner are named, not computed.                                   *)
(***************************************************************************)
EXTENDS Bits, FiniteSets, Sequences

Slots == {"rgb_muladd", "rgb_mulsub", "rgb_mul", "rgb_add",
          "alpha_muladd", "alpha_mulsub", "alpha_mul", "alpha_add"}

\* RGBMulAdd, RGBMulSub, RGBMul, RGBAdd, AlphaAddSub and AlphaMul.
Common == {"Combined", "Texel0", "Texel1", "Primitive", "Shade", "Env", "Zero"}
Alphas == {"Texel0Alpha", "Texel1Alpha", "PrimitiveAlpha", "ShadeAlpha", "EnvAlpha"}
Selectors(slot) ==
    CASE slot = "rgb_muladd" -> Common \union {"One", "Noise"}
      [] slot = "rgb_mulsub" -> Common \union {"KeyCenter", "ConvertK4"}
      [] slot = "rgb_mul" -> Common \union Alphas
                             \union {"CombinedAlpha", "KeyScale", "LODFrac", "PrimLODFrac", "ConvertK5"}
      [] slot = "rgb_add" -> Common \union {"One"}
      [] slot = "alpha_mul" -> Alphas \union {"LODFrac", "PrimLODFrac", "Zero"}
      [] OTHER -> Alphas \union {"CombinedAlpha", "One", "Zero"}

Texel0s == {"Texel0", "Texel0Alpha"}
Texel1s == {"Texel1", "Texel1Alpha"}
-----------------------------------------------------------------------------
(* Deduction. *)

\* combiner_accesses_*: an input of a cycle is one of X.
Accesses(cycle, X) == \E slot \in Slots : cycle[slot] \in X

\* combiner_uses_*: in the second of two cycles, the texels have changed places.
MultiCycle(state) == "multi_cycle" \in state.flags
UsesTexel0(state) ==
    IF MultiCycle(state)
    THEN Accesses(state.combiner[1], Texel0s) \/ Accesses(state.combiner[2], Texel1s)
    ELSE Accesses(state.combiner[2], Texel0s)
UsesTexel1(state) ==
    /\ MultiCycle(state)
    /\ Accesses(state.combiner[1], Texel1s) \/ Accesses(state.combiner[2], Texel0s)
UsesPipelinedTexel1(state) == ~MultiCycle(state) /\ Accesses(state.combiner[2], Texel1s)
UsesLodFrac(state) == MultiCycle(state) /\ \E i \in 1 .. 2 : Accesses(state.combiner[i], {"LODFrac"})

\* Flags that are set, of those that are deduced.
Given(b, flag) == IF b THEN {flag} ELSE {}

\* Tiles after the first that may be sampled.
LastTile(flags, physical, max_level) ==
    Lesser(7, (IF "tex_lod" \in flags THEN max_level ELSE IF physical THEN 1 ELSE 0)
              + IF "detail" \in flags THEN 1 ELSE 0)

(* deduce_static_texture_state.  tiles[i] is the format and the size of    *)
(* tile i; they are static if all the tiles that may be sampled have them. *)
DeduceTexture(state, tiles, tile, max_level) ==
    LET base   == [state EXCEPT !.flags = @ \ {"static_texture"}, !.texture = <<>>]
        flags  == base.flags
        static == [base EXCEPT !.flags = @ \union {"static_texture"}, !.texture = tiles[tile]]
        texel1 == UsesTexel1(state)
        texel0 == UsesTexel0(state) \/ (texel1 /\ "convert_one" \in flags)
        pipelined == UsesPipelinedTexel1(state)
        lod    == "tex_lod" \in flags
        used   == Given(texel0, "uses_texel0") \union Given(texel1, "uses_texel1")
                  \union Given(pipelined, "uses_pipelined_texel1")
                  \union Given(UsesLodFrac(state) \/ lod, "uses_lod")
        Used(s) == [s EXCEPT !.flags = (@ \ {"uses_texel0", "uses_texel1", "uses_pipelined_texel1",
                                             "uses_lod"}) \union used]
        physical == texel1 /\ ("convert_one" \notin flags \/ "bilerp1" \in flags)
        alike  == \A i \in 1 .. LastTile(flags, physical, max_level) : tiles[(tile + i) % 8] = tiles[tile]
    IN  IF "fill" \in flags THEN base
        ELSE IF "copy" \in flags THEN static
        ELSE IF ~(texel0 \/ texel1 \/ pipelined) \/ ~alike THEN Used(base)
        ELSE Used(static)

\* Mutant: only the last cycle is looked at.
DeduceNoiseOnce(state) ==
    [state EXCEPT !.flags = (@ \ {"need_noise", "need_noise_dual"})
        \union Given(state.combiner[2]["rgb_muladd"] = "Noise" \/ 2 \in {state.dither[1], state.dither[2]},
                     "need_noise")]

\* deduce_noise_state; with a noisy dither, it does not look for a second noise.
DeduceNoise(state) ==
    LET flags == state.flags \ {"need_noise", "need_noise_dual"}
        Noisy(i) == state.combiner[i]["rgb_muladd"] = "Noise"
        dithers  == state.dither[1] = 2 \/ state.dither[2] = 2
        drawn    == flags \intersect {"copy", "fill"} = {}
        combined == (MultiCycle(state) /\ Noisy(1)) \/ Noisy(2)
        tested   == {"alpha_test", "alpha_test_dither"} \subseteq flags
    IN  [state EXCEPT !.flags = flags
            \union Given(dithers \/ (drawn /\ (combined \/ tested)), "need_noise")
            \union Given(~dithers /\ drawn /\ MultiCycle(state) /\ Noisy(1) /\ Noisy(2),
                         "need_noise_dual")]
-----------------------------------------------------------------------------
(* Normalisation. *)

\* normalize_combiner: the inputs that a pixel has; the others are constants.
Kept(slot) ==
    CASE slot = "rgb_muladd" -> {"Noise", "Texel0", "Texel1", "Combined", "One", "Shade"}
      [] slot = "rgb_mulsub" -> {"Combined", "Texel0", "Texel1", "Shade", "ConvertK4"}
      [] slot = "rgb_mul" -> {"Combined", "CombinedAlpha", "Texel0", "Texel1", "Texel0Alpha",
                              "Texel1Alpha", "Shade", "ShadeAlpha", "LODFrac", "ConvertK5"}
      [] slot = "rgb_add" -> {"Texel0", "Texel1", "Combined", "One", "Shade"}
      [] slot = "alpha_mul" -> {"LODFrac", "Texel0Alpha", "Texel1Alpha", "ShadeAlpha"}
      [] OTHER -> {"CombinedAlpha", "Texel0Alpha", "Texel1Alpha", "ShadeAlpha", "One"}
NormalizeCycle(cycle) ==
    [slot \in Slots |-> IF cycle[slot] \in Kept(slot) THEN cycle[slot] ELSE "Zero"]

\* StaticRasterizationState's own initial value: selector 0 of every slot.
Blank == [slot \in Slots |-> IF slot = "alpha_mul" THEN "LODFrac"
                             ELSE IF slot \in {"alpha_muladd", "alpha_mulsub", "alpha_add"}
                                  THEN "CombinedAlpha" ELSE "Combined"]

\* normalize_static_state
Normalize(state) ==
    LET none == [flags |-> {"fill"}, combiner |-> <<Blank, Blank>>, dither |-> <<0, 0>>, texture |-> <<>>]
        copied == {"copy", "tlut", "tlut_type", "uses_texel0", "static_texture", "tex_lod", "detail",
                   "perspective", "alpha_test"}
        unused == IF state.flags \intersect {"multi_cycle", "uses_pipelined_texel1"} = {}
                  THEN {"bilerp1", "convert_one"} ELSE {}
    IN  IF "fill" \in state.flags THEN none
        ELSE IF "copy" \in state.flags
        THEN [none EXCEPT !.flags = state.flags \intersect copied, !.texture = state.texture]
        ELSE [state EXCEPT !.flags = @ \ unused,
                           !.combiner = [i \in 1 .. 2 |-> NormalizeCycle(@[i])]]

\* build_combiner_constants: the constant of a slot, by the selector that asks for it.
Constant(slot, selector) ==
    LET constants == CASE slot = "rgb_muladd" -> {"Env", "Primitive"}
                       [] slot = "rgb_mulsub" -> {"Env", "Primitive", "ConvertK4", "KeyCenter"}
                       [] slot = "rgb_mul" -> {"Primitive", "Env", "PrimitiveAlpha", "EnvAlpha",
                                               "PrimLODFrac", "ConvertK5", "KeyScale"}
                       [] slot = "rgb_add" -> {"Primitive", "Env"}
                       [] slot = "alpha_mul" -> {"PrimitiveAlpha", "EnvAlpha", "PrimLODFrac"}
                       [] OTHER -> {"PrimitiveAlpha", "EnvAlpha"}
    IN  IF selector \in constants THEN selector ELSE "Zero"
-----------------------------------------------------------------------------
(* The shader. *)

\* select_muladd, select_mulsub, select_mul and select_add; all but these take the constant.
Select(slot, selector, constant) ==
    LET varying == CASE slot = "rgb_muladd" -> {"Combined", "Texel0", "Texel1", "Shade", "One", "Noise"}
                     [] slot = "rgb_mulsub" -> {"Combined", "Texel0", "Texel1", "Shade"}
                     [] slot = "rgb_mul" -> {"Combined", "Texel0", "Texel1", "Shade", "CombinedAlpha",
                                             "Texel0Alpha", "Texel1Alpha", "ShadeAlpha", "LODFrac"}
                     [] slot = "rgb_add" -> {"Combined", "Texel0", "Texel1", "Shade", "One"}
                     [] slot = "alpha_mul" -> {"LODFrac", "Texel0Alpha", "Texel1Alpha", "ShadeAlpha"}
                     [] OTHER -> {"CombinedAlpha", "Texel0Alpha", "Texel1Alpha", "ShadeAlpha", "One"}
    IN  IF selector \in varying THEN selector
        \* K4 and K5 have nine bits, in two of the bytes of the constant.
        ELSE IF selector \notin {"ConvertK4", "ConvertK5"} /\ constant \in {"ConvertK4", "ConvertK5"}
        THEN "Garbage"
        ELSE constant

Overflow == -1
(* compute_lod_2cycle: d is how far the texture coordinates move to the    *)
(* next pixel or line, in 1/32 of a texel, or Overflow.                    *)
LevelOfDetail(flags, tile, max_level, min_lod, d) ==
    LET sharpen == "sharpen" \in flags
        detail  == "detail" \in flags
        far     == d >= 16384
        magnify == d < 32
        log     == CHOOSE n \in 0 .. 9 : Shr(d, 5) \in 2^n .. 2^(n + 1) - 1
        mip     == IF d = Overflow THEN 0 ELSE IF far \/ magnify THEN 0 ELSE log
        near    == d # Overflow /\ magnify
        distant == \/ d = Overflow
                   \/ d # Overflow /\ (far \/ IF magnify THEN max_level = 0 ELSE mip >= max_level)
        plain   == ~sharpen /\ ~detail
        frac    == IF d = Overflow THEN 255
                   ELSE IF far THEN 255
                   ELSE IF magnify /\ plain THEN IF distant THEN 255 ELSE 0
                   ELSE IF magnify THEN 8 * Greater(min_lod, d) - (IF sharpen THEN 256 ELSE 0)
                   ELSE IF distant /\ plain THEN 255
                   ELSE Low(Shr(8 * d, mip), 8)
        level   == IF distant THEN max_level ELSE mip
        first   == tile + level
    IN  IF "tex_lod" \notin flags THEN [tile0 |-> tile, tile1 |-> (tile + 1) % 8, frac |-> frac]
        ELSE IF detail
        THEN [tile0 |-> (first + IF near THEN 0 ELSE 1) % 8,
              tile1 |-> (first + IF distant \/ near THEN 1 ELSE 2) % 8, frac |-> frac]
        ELSE [tile0 |-> first % 8,
              tile1 |-> (first + IF distant \/ (~sharpen /\ near) THEN 0 ELSE 1) % 8, frac |-> frac]

\* A texel that has not been sampled.
Undefined == [undefined |-> TRUE]

(* shade_pixel up to the combiner: the texels, each with the tile it is    *)
(* sampled from and the format it is taken to have.                        *)
SampledTexels(state, tiles, lod) ==
    LET flags == state.flags
        pipelined == "uses_pipelined_texel1" \in flags
        Sample(t, convert, bilerp, previous, pixel) ==
            [tile |-> t, format |-> IF "static_texture" \in flags THEN state.texture ELSE tiles[t],
             convert |-> convert, bilerp |-> bilerp, previous |-> previous, pixel |-> pixel,
             modes |-> flags \intersect {"tlut", "tlut_type", "sample_quad", "mid_texel"}]
        texel0 == IF "uses_texel0" \in flags
                  THEN Sample(lod.tile0, FALSE, "bilerp0" \in flags, <<>>, "this") ELSE Undefined
        tile1  == IF pipelined THEN lod.tile0 ELSE lod.tile1
        texel1 == IF "uses_texel1" \notin flags /\ ~pipelined THEN Undefined
                  ELSE IF "convert_one" \in flags /\ "bilerp1" \notin flags
                  THEN [converted |-> texel0]
                  ELSE Sample(tile1, "convert_one" \in flags, "bilerp1" \in flags,
                              IF "convert_one" \in flags THEN texel0 ELSE <<>>,
                              IF pipelined THEN "next" ELSE "this")
    IN  [texel0 |-> texel0, texel1 |-> texel1, lod |-> lod]

(* The inputs of the combiner: cycle by cycle, what its slots read.  raw   *)
(* is the state that the constants were built from.                        *)
Combined(state, raw) ==
    LET Cycle(i) == [slot \in Slots |-> Select(slot, state.combiner[i][slot],
                                               Constant(slot, raw.combiner[i][slot]))]
        \* texel1 is promoted to texel0 for the second of two cycles.
        Swapped(input) == CASE input = "Texel0" -> "Texel1" [] input = "Texel1" -> "Texel0"
                            [] input = "Texel0Alpha" -> "Texel1Alpha"
                            [] input = "Texel1Alpha" -> "Texel0Alpha" [] OTHER -> input
    IN  IF MultiCycle(state)
        THEN <<Cycle(1), [slot \in Slots |-> Swapped(Cycle(2)[slot])]>>
        ELSE <<Cycle(2)>>

\* Whether a pixel reads the noise: dithering, the combiner, the alpha test.
ReadsNoise(state) ==
    /\ state.flags \intersect {"copy", "fill"} = {}
    /\ \/ 2 \in {state.dither[1], state.dither[2]}
       \/ MultiCycle(state) /\ state.combiner[1]["rgb_muladd"] = "Noise"
       \/ state.combiner[2]["rgb_muladd"] = "Noise"
       \/ {"alpha_test", "alpha_test_dither"} \subseteq state.flags

\* Everything that decides what shade_pixel makes of a pixel.
Shaded(state, raw, tiles, tile, max_level, min_lod, d) ==
    CASE "copy" \in state.flags ->
            [mode |-> "copy",
             format |-> IF "static_texture" \in state.flags THEN state.texture ELSE tiles[tile],
             flags |-> state.flags \intersect {"perspective", "tlut", "tlut_type", "alpha_test"}]
      [] "fill" \in state.flags -> [mode |-> "fill"]
      [] OTHER ->
            [mode |-> "shade",
             texels |-> SampledTexels(state, tiles,
                            IF "uses_lod" \in state.flags THEN LevelOfDetail(state.flags, tile, max_level, min_lod, d)
                            ELSE [tile0 |-> tile, tile1 |-> (tile + 1) % 8]),
             combined |-> Combined(state, raw),
             flags |-> state.flags \intersect
                 {"perspective", "cvg_times_alpha", "alpha_cvg_select", "aa", "alpha_test",
                  "alpha_test_dither", "interlace_field", "need_noise", "need_noise_dual"},
             dither |-> state.dither]
=============================================================================
