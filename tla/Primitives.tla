------------------------------- MODULE Primitives ------------------------------
(***************************************************************************)
(* What a primitive becomes, on chosen inputs: the pixels that it covers,  *)
(* the tiles that they are binned into, what it does to the pixels of the  *)
(* frame buffer, and the copy of them that the host gets; beside the       *)
(* texels of Texels and the states of Pixels.                              *)
(***************************************************************************)
EXTENDS Encodings, Rasterization, StagingReadback, StreamCaches

CONSTANTS
    Scales,             \* upscaling factors
    ScreenWidth, ScreenLines
-----------------------------------------------------------------------------
(* Primitives: edges that start on the screen, left and right of it, with  *)
(* slopes that leave the range of an edge, and of a word, from rounded and *)
(* unrounded heights.                                                      *)
ScissorStates ==
    {[xlo |-> 0, xhi |-> 4 * ScreenWidth, ylo |-> 0, yhi |-> 4 * ScreenLines],
     [xlo |-> 5, xhi |-> 24, ylo |-> 3, yhi |-> 11]}
Steepest == 2^(Integer + Fraction - 1)
Quarters(q) == q * 2^(Fraction - 2)
Edges == {<<Quarters(x), slope>> : x \in {-Steepest \div 2^(Fraction - 1), -1, 0, 9, 4 * ScreenWidth + 1},
                                   slope \in {-Steepest, -7, 0, 3, 40}}
Setup(yh, ym, yl, high, mid, low, flags) ==
    FixupTriangleSetup([yh |-> yh, ym |-> ym, yl |-> yl, flags |-> flags,
                        xh |-> high[1], xm |-> mid[1], xl |-> low[1],
                        dxhdy |-> high[2], dxmdy |-> mid[2], dxldy |-> low[2]])
-----------------------------------------------------------------------------
Cells == {0, 1} \X {0, 1}

JobInit ==
        \/ TexelInit
        \/ PixelInit
        \/ FragmentInit
        \/ EncodingInit
        \/ job \in [of : {"heights"}, S : Scales, scissor : ScissorStates, yh : {-3, 0, 2}, height : {0, 3, 17},
                     mid : {-1, 0, 5}, flags : {{}, {"flip"}, {"flip", "fill_copy"}, {"interlace", "keep_odd"}}]
        \/ job \in [of : {"cells"}, bin : [Cells -> SUBSET {0, 1}]]
        \/ job \in [of : {"staging"}, index : 0 .. RingPages - 1, pages : SUBSET (0 .. 2 * WordPages - 1)]
        \/ job = [of |-> "collect"]
Init == JobInit /\ CachesInit

Cover == /\ job.of = "heights"
        /\ \E high \in Edges, mid \in {<<0, 40>>, <<Quarters(9), -7>>, <<-Quarters(1), 0>>},
              low \in {<<0, 0>>, <<Quarters(25), -200>>} :
               job' = [of |-> "covered", S |-> job.S, scissor |-> job.scissor,
                       setup |-> Setup(job.yh, job.yh + job.mid, job.yh + job.height, high, mid, low, job.flags)]
Bin == /\ job.of = "cells"
       /\ \E order \in SetToAllKPermutations(Cells) :
              /\ Len(order) = Cardinality(Cells)
              /\ job' = [of |-> "binned", bin |-> [c \in Cells |-> {c[2] * 2 + i : i \in job.bin[c]}], order |-> order]
Stage == /\ job.of = "staging"
        /\ \E more \in SUBSET (0 .. 2 * WordPages - 1) :
               job' = [of |-> "staged", index |-> job.index, submissions |-> <<job.pages, more>>]

\* The caches that primitives are collected in work beside the jobs.
Collect == job.of = "collect" /\ CachesNext /\ UNCHANGED job

Next == \/ /\ TexelNext \/ PixelNext \/ FragmentNext \/ EncodingNext \/ Cover \/ Bin \/ Stage
           /\ UNCHANGED cachesVars
        \/ Collect
Spec == Init /\ [][Next]_<<job, cachesVars>>
-----------------------------------------------------------------------------
\* What binning interpolates of the edges of a primitive: factors and start.
Interpolations(setup, S) ==
    UNION {{<<y - (S * AlignDown(setup.yh, 4)), setup.dxhdy, S * setup.xh>>,
            <<y - (S * AlignDown(setup.yh, 4)), setup.dxmdy, S * setup.xm>>,
            <<y - (S * setup.ym), setup.dxldy, S * setup.xl>>} : y \in S * setup.yh .. S * setup.yl}
Limits == {-(2^(WordBits - 1)), 2^(WordBits - 1) - 1}
ExactEdge(i) == (i[1] * i[2]) + i[3]
Saturated(i) == ClampTo(ExactEdge(i), Min(Limits), Max(Limits))

(* The edges that binning interpolates saturate when they leave the range  *)
(* of a word, and are exact otherwise.                                     *)
EdgesSaturate ==
    job.of = "covered" =>
        \A i \in Interpolations(job.setup, job.S) : Madd(i[1], i[2], i[3]) = Saturated(i)

\* An edge has left the range of a word, and binning does not see it.
Unseen(setup, S) ==
    \E i \in Interpolations(setup, S) : Saturated(i) # ExactEdge(i) /\ Madd(i[1], i[2], i[3]) \notin Limits

(* A pixel that a line of a primitive covers is shaded: the line is one of *)
(* the primitive's, its span is computed for it, the pass is high enough,  *)
(* and the primitive is binned into the tile of the pixel.                 *)
BinningFindsEveryTile ==
    job.of = "covered" /\ ~Unseen(job.setup, job.S) =>
        LET spans  == AllocateSpanJobs(job.setup, job.scissor, 1)
            before == [i \in 1 .. 1 |-> [base_y |-> 0, max_y |-> 0]]
            height == DeducedHeight(job.setup, job.scissor)
            Bins(x, y) == Binned(job.setup, job.scissor, job.S, <<job.S * ScreenWidth, job.S * height>>,
                                 <<x, y \div TileHeight>>)
        IN  \A y \in 0 .. job.S * ScreenLines - 1 :
                LET span  == SpanSetup(job.setup, job.scissor, job.S, y)
                    drawn == {x \in 0 .. job.S * ScreenWidth - 1 : Drawn(job.setup, span, x)}
                IN  drawn # {} =>
                        /\ y < job.S * height
                        /\ Shades(spans, job.S, y)
                        /\ JobLine(before \o spans.jobs, job.S, SpanEntry(spans, job.S, y)) = <<y>>
                        /\ \A t \in {x \div TileWidth : x \in drawn} : Bins(t, y)

(* A tile blends the primitives that touch it in the order in which they   *)
(* were drawn, each as it was shaded for this tile, whichever order the    *)
(* tiles got their instances in; and instances are not shared.             *)
BlendsInOrder ==
    job.of = "binned" =>
        LET offsets == Offsets(job.bin, job.order)
            work    == Work(job.bin, offsets)
        IN  /\ Cardinality({w.instance : w \in work}) = Cardinality(work)
            /\ \A tile \in {0, 1} :
                   LET blended == Blended(job.bin, offsets, tile)
                   IN  /\ Range(blended) = {w \in work : w.tile = tile}
                       /\ \A i, j \in DOMAIN blended : i < j => blended[i].primitive < blended[j].primitive
-----------------------------------------------------------------------------
(* Two submissions after each other that the worker has not copied fit     *)
(* into the ring: no slot is written twice, whatever they start at, and    *)
(* both halves of every page are where the worker looks for them.          *)
ReadbackIntact ==
    job.of = "staged" =>
        LET first   == GpuToHost(job.index, job.submissions[1])
            copies  == <<first.copies, GpuToHost(first.index, job.submissions[2]).copies>>
            Writes(s, c) == UNION {{<<c.src_offset + i, s, c.dst_offset + i, "values">>,
                                    <<c.mask_offset + i, s, c.dst_offset + i, "mask">>} : i \in 0 .. c.counters - 1}
            all     == UNION {UNION {Writes(s, copies[s][k]) : k \in DOMAIN copies[s]} : s \in 1 .. 2}
            pages   == UNION {{<<s, p>> : p \in job.submissions[s]} : s \in 1 .. 2}
        IN  2 * Cardinality(pages) + WordPages - 1 <= RingPages =>
                /\ {w[1] : w \in all} \subseteq 0 .. RingPages - 1
                /\ Cardinality({w[1] : w \in all}) = Cardinality(all)
                /\ {<<w[2], w[3], w[4]>> : w \in all} = {<<p[1], p[2], half>> : p \in pages, half \in {"values", "mask"}}
=============================================================================
