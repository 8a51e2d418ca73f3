--------------------------------- MODULE Pixels --------------------------------
(***************************************************************************)
(* The state that a pixel is shaded with, on chosen inputs, beside the     *)
(* texels of Texels.                                                       *)
(***************************************************************************)
EXTENDS StaticState, Texels
-----------------------------------------------------------------------------
(* States: a cycle mode, flags, and what the combiner reads. *)

Zeros == [slot \in Slots |-> "Zero"]
CycleModes == {{}, {"multi_cycle"}, {"copy"}, {"fill"}}
Reads == UNION {{<<i, slot, selector>> : selector \in Selectors(slot)} :
                i \in 1 .. 2, slot \in {"rgb_muladd", "rgb_mulsub", "rgb_mul", "rgb_add",
                                        "alpha_add", "alpha_mul"}}
Combiner(reads) ==
    [i \in 1 .. 2 |-> [slot \in Slots |->
        IF \E r \in reads : r[1] = i /\ r[2] = slot
        THEN (CHOOSE r \in reads : r[1] = i /\ r[2] = slot)[3] ELSE "Zero"]]
State(flags, reads, dither) ==
    [flags |-> flags, combiner |-> Combiner(reads), dither |-> dither, texture |-> <<>>]

Textured == {"Texel0", "Texel1"}
TextureReads == {{<<1, "rgb_mul", x>>, <<2, "rgb_mul", y>>} : x, y \in Textured \union {"LODFrac", "Shade"}}

\* Tiles up to n after the first of a primitive are alike.
Tiles(tile, n) == [i \in 0 .. 7 |-> IF (i - tile) % 8 <= n THEN <<"RGBA", 2>> ELSE <<"CI", 0>>]
-----------------------------------------------------------------------------
PixelInit == job \in [of : {"state"}, mode : CycleModes, flags : SUBSET {"convert_one", "bilerp1", "tex_lod"}]

Mix == /\ job.of = "state"
       /\ \E reads \in {{r} : r \in Reads}, dither \in {<<0, 3>>, <<3, 2>>},
             test \in {{}, {"alpha_test"}, {"alpha_test", "alpha_test_dither"}} :
              job' = [of |-> "mixed", state |-> State(job.mode \union job.flags \union test, reads, dither)]
Sample == /\ job.of = "state" /\ "fill" \notin job.mode
          /\ \E reads \in TextureReads, more \in SUBSET {"sharpen", "detail", "bilerp0"}, n \in 0 .. 7 :
                 job' = [of |-> "sampled", alike |-> n,
                         state |-> State(job.mode \union job.flags \union more, reads, <<0, 0>>)]

PixelNext == Mix \/ Sample
-----------------------------------------------------------------------------
Deduced(state, tiles, tile, max_level) == DeduceNoise(DeduceTexture(state, tiles, tile, max_level))

\* Pixels of the states raw and kept have the same inputs.
SameInputs(kept, raw) ==
    /\ kept.mode = raw.mode
    /\ kept.mode = "copy" => kept = raw
    /\ kept.mode = "shade" =>
           /\ [kept EXCEPT !.texels = <<>>, !.combined = <<>>] = [raw EXCEPT !.texels = <<>>, !.combined = <<>>]
           /\ kept.combined = raw.combined
           /\ \A input \in {"texel0", "texel1"} : kept.texels[input] = raw.texels[input]

\* They are those that the combiner was told to take.
AsTold(kept, cycles, two) ==
    kept.mode = "shade" => IF two THEN kept.combined[1] = cycles[1] ELSE kept.combined = <<cycles[2]>>

(* Primitives share few static states because normalisation forgets what   *)
(* no pixel reads: whatever the registers say, the shader gets from the    *)
(* normalised state, and from the constants of the state as it was, every  *)
(* input that the combiner was told to take, and samples, tests, dithers   *)
(* and draws its noise as before.                                          *)
NormalisationKeepsPixels ==
    job.of = "mixed" =>
        LET tiles == Tiles(0, 7)
            state == Deduced(job.state, tiles, 0, 0)
            norm  == Normalize(state)
            kept  == Shaded(norm, state, tiles, 0, 0, 0, 100)
        IN  /\ SameInputs(kept, Shaded(state, state, tiles, 0, 0, 0, 100))
            /\ AsTold(kept, job.state.combiner, MultiCycle(norm))
            /\ ReadsNoise(state) => "need_noise" \in norm.flags

\* Reads of what is undefined: LOD fractions in one cycle, and the conversion of a texel
\* that nothing else has sampled.
Unsampled(state) ==
    ~MultiCycle(state) /\ (Accesses(state.combiner[2], {"LODFrac"})
                           \/ (UsesPipelinedTexel1(state) /\ ~UsesTexel0(state)
                               /\ "convert_one" \in state.flags))

\* What was sampled for a pixel has the format of its tile, and all that is read was sampled.
Sampled(pixel, tiles) ==
    LET t      == pixel.texels
        inputs == UNION {{pixel.combined[i][slot] : slot \in Slots} : i \in DOMAIN pixel.combined}
        From(texel) == IF "tile" \in DOMAIN texel THEN texel.format = tiles[texel.tile] ELSE TRUE
    IN  /\ "Texel0" \in inputs => t.texel0 # Undefined
        /\ "Texel1" \in inputs => t.texel1 # Undefined
        /\ "LODFrac" \in inputs => "frac" \in DOMAIN t.lod
        /\ t.texel0 # Undefined => From(t.texel0)
        /\ t.texel1 # Undefined => From(t.texel1)
        /\ t.texel1 # Undefined /\ "converted" \in DOMAIN t.texel1 => t.texel0 # Undefined

(* A texel is sampled with the format and the size of the tile that it is  *)
(* sampled from, whichever level of detail a pixel needs, also when they   *)
(* are compiled in; and whatever the combiner reads has been sampled.      *)
TexelsAreSampled ==
    job.of = "sampled" =>
        \A tile \in {0, 6}, max_level \in {0, 1, 3, 7}, d \in {0, 31, 32, 64, 200, 1024, 20000, Overflow} :
            LET tiles == Tiles(tile, job.alike)
                norm  == Normalize(Deduced(job.state, tiles, tile, max_level))
                pixel == Shaded(norm, job.state, tiles, tile, max_level, 0, d)
            IN  IF pixel.mode = "copy" THEN pixel.format = tiles[tile]
                ELSE Unsampled(job.state) \/ Sampled(pixel, tiles)

(* A pixel has all of its inputs after static states are normalised, and   *)
(* those from the tiles that are right for it.                             *)
PixelsKeepTheirInputs == NormalisationKeepsPixels /\ TexelsAreSampled
=============================================================================
