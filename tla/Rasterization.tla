------------------------------ MODULE Rasterization ----------------------------
(***************************************************************************)
(* Where a primitive is.  The CPU allocates jobs for its lines; one shader *)
(* clips it on every line, one bins it into tiles of the frame buffer, and *)
(* both may run upscaled.  The bins look at four heights only, and must    *)
(* not miss a pixel that the lines cover.                                  *)
(*                                                                         *)
(* A setup has its heights yh, ym, yl in quarters of a line, its edges xh, *)
(* xm, xl and their slopes per quarter, and flags.  A scissor is in        *)
(* quarters of a pixel.  S is SCALING_FACTOR.                              *)
(***************************************************************************)
EXTENDS Bits, SequencesExt

CONSTANTS
    Fraction,           \* bits of a fraction of a pixel in an edge, 15
    Integer,            \* bits of the number of a pixel, 12
    WordBits,           \* bits of the integers of the shaders, 32
    TileWidth, TileHeight,
    MetaWidth, MetaHeight,  \* the tiles that a workgroup bins, 8 x 4
    Workgroup           \* lines per job

YmNever == 2^15 - 1     \* numeric_limits<int16_t>::max()

FixupTriangleSetup(setup) ==
    IF setup.ym < AlignDown(setup.yh, 4) THEN [setup EXCEPT !.ym = YmNever] ELSE setup

(* The edges at height y, a quarter of a line of S: high and low.          *)
EdgeH(setup, S, y) == S * setup.xh + ((y - S * AlignDown(setup.yh, 4)) * setup.dxhdy)
EdgeM(setup, S, y) == S * setup.xm + ((y - S * AlignDown(setup.yh, 4)) * setup.dxmdy)
EdgeL(setup, S, y) ==
    IF y < S * setup.ym THEN EdgeM(setup, S, y) ELSE S * setup.xl + ((y - (S * setup.ym)) * setup.dxldy)
-----------------------------------------------------------------------------
(* span_setup.comp: line y.  Edges wrap around at Integer bits of pixels,  *)
(* and are rounded to eighths of a pixel with a sticky bit.                *)
QuantizeX(x) == LET q == Shr(x, Fraction - 3)
                IN  IF Low(x, Fraction - 3) # 0 /\ ~Bit(q, 0) THEN q + 1 ELSE q

SpanSetup(setup, scissor, S, y) ==
    LET wrap(x) == Signed(x, Integer + Fraction + (CHOOSE n \in 0 .. 3 : 2^n = S))
        xh   == [i \in 1 .. 4 |-> QuantizeX(wrap(EdgeH(setup, S, 4 * y + i - 1)))]
        xl   == [i \in 1 .. 4 |-> QuantizeX(wrap(EdgeL(setup, S, 4 * y + i - 1)))]
        l    == IF "flip" \in setup.flags THEN xh ELSE xl
        r    == IF "flip" \in setup.flags THEN xl ELSE xh
        lo   == 2 * S * scissor.xlo
        hi   == 2 * S * scissor.xhi
        invalid == {i \in 1 .. 4 : \/ Shr(l[i], 1) > Shr(r[i], 1)
                                   \/ 4 * y + i - 1 < S * Greater(setup.yh, scissor.ylo)
                                   \/ 4 * y + i - 1 >= S * Lesser(setup.yl, scissor.yhi)}
        xleft   == [i \in 1 .. 4 |-> IF i \in invalid THEN 65535 ELSE ClampTo(l[i], lo, hi)]
        xright  == [i \in 1 .. 4 |-> IF i \in invalid THEN 0 ELSE ClampTo(r[i], lo, hi)]
    IN  [xleft |-> xleft, xright |-> xright,
         start_x |-> Shr(Min({xleft[i] : i \in 1 .. 4}), 3),
         end_x   |-> Shr(Max({xright[i] : i \in 1 .. 4}), 3),
         valid_line |-> /\ invalid # 1 .. 4
                        /\ \E i \in 1 .. 4 : Lesser(l[i], r[i]) < hi
                        /\ \E i \in 1 .. 4 : Greater(l[i], r[i]) >= lo
                        /\ "interlace" \in setup.flags =>
                               (("keep_odd" \in setup.flags) <=> ((y \div S) % 2 = 1))]

(* compute_coverage: the samples of pixel x that lie within the span, two  *)
(* on each quarter of the line.                                            *)
Samples == << <<1, 0>>, <<1, 4>>, <<2, 2>>, <<2, 6>>, <<3, 0>>, <<3, 4>>, <<4, 2>>, <<4, 6>> >>
Coverage(span, x) ==
    {s \in DOMAIN Samples : LET at == 8 * x + Samples[s][2]
                            IN  span.xleft[Samples[s][1]] <= at /\ at < span.xright[Samples[s][1]]}

\* shade_pixel, up to what depends on the coverage: is pixel x of the span drawn?
Drawn(setup, span, x) ==
    /\ span.valid_line
    /\ IF "fill_copy" \in setup.flags THEN span.start_x <= x /\ x <= span.end_x
       ELSE Coverage(span, x) # {}
-----------------------------------------------------------------------------
(* The jobs of a primitive: its lines, one more, and where the shader that *)
(* shades it looks for them.  used is the number of jobs before it.        *)
ActiveLines(setup, scissor) ==
    [ylo |-> Greater(setup.yh, scissor.ylo) \div 4, yhi |-> (Lesser(setup.yl, scissor.yhi) - 1) \div 4]

AllocateSpanJobs(setup, scissor, used) ==
    LET a == ActiveLines(setup, scissor)
        height == Lesser(a.yhi - a.ylo + 2, 1024)
    IN  IF a.yhi < a.ylo THEN [offset |-> 0, ylo |-> 0, yhi |-> -1, jobs |-> <<>>]
        ELSE [offset |-> used * Workgroup, ylo |-> a.ylo, yhi |-> a.yhi,
              jobs   |-> [i \in 1 .. (height + Workgroup - 1) \div Workgroup |->
                             [base_y |-> a.ylo + (Workgroup * (i - 1)), max_y |-> a.yhi + 1]]]

DeducedHeight(setup, scissor) == Greater(ActiveLines(setup, scissor).yhi + 1, 0)

\* The invocation of span_setup.comp for entry n of its output: the line it computes, if any.
JobLine(jobs, S, n) ==
    LET job == jobs[n \div (S * Workgroup) + 1]
        y   == S * job.base_y + (n % (S * Workgroup))
    IN  IF y > S * job.max_y + S - 1 THEN <<>> ELSE <<y>>

\* The entry that shade_pixel reads for line y.
SpanEntry(spans, S, y) == S * spans.offset + (y - (S * spans.ylo))
Shades(spans, S, y) == S * spans.ylo <= y /\ y <= S * spans.yhi + S - 1
-----------------------------------------------------------------------------
(* binning.h: the horizontal range between two heights.  Products are      *)
(* taken in twice the word, and saturate.                                  *)
Madd(a, b, c) ==
    LET product == a * b
        carry   == Low(product, WordBits) + Low(c, WordBits) >= 2^WordBits
        hi      == Shr(product, WordBits) + (IF carry THEN 1 ELSE 0)
    IN  IF hi > 0 THEN 2^(WordBits - 1) - 1 ELSE IF hi < -1 THEN -(2^(WordBits - 1)) ELSE Signed(product + c, WordBits)

InterpolateXs(setup, S, ys) ==
    LET yh == S * AlignDown(setup.yh, 4)
        xh(y) == Shr(Madd(y - yh, setup.dxhdy, S * setup.xh), Fraction)
        xl(y) == Shr(IF y < S * setup.ym THEN Madd(y - yh, setup.dxmdy, S * setup.xm)
                     ELSE Madd(y - (S * setup.ym), setup.dxldy, S * setup.xl), Fraction)
        xleft(y)  == IF "flip" \in setup.flags THEN xh(y) ELSE xl(y)
        xright(y) == IF "flip" \in setup.flags THEN xl(y) ELSE xh(y)
    IN  IF \A y \in ys : Greater(Magnitude(xleft(y)), Magnitude(xright(y))) <= (2^(Integer - 1) - 1) * S
        THEN <<Min({xleft(y) : y \in ys}), Max({xright(y) : y \in ys})>>
        ELSE <<0, 2^(WordBits - 1) - 1>>

\* FILL_COPY_RASTER draws the last pixel of a span as well.
ExclusiveBias(setup) == 3
FillBias(setup) == IF "fill_copy" \in setup.flags THEN 4 ELSE 3

(* bin_primitive: may the primitive touch the rectangle of pixels lo .. hi? *)
BinPrimitive(setup, scissor, S, lo, hi) ==
    LET top     == Greater(lo[2], S * (scissor.ylo \div 4))
        bottom  == Lesser(hi[2], S * ((scissor.yhi + 3) \div 4) - 1)
        start_y == Greater(4 * top, S * setup.yh)
        end_y   == Lesser(4 * bottom + 3, S * setup.yl - 1)
        ys      == {start_y, end_y, ClampTo(S * setup.ym - 1, start_y, end_y),
                    ClampTo(S * setup.ym, start_y, end_y)}
        xlo     == S * (scissor.xlo \div 4)
        xhi     == S * ((scissor.xhi + FillBias(setup)) \div 4) - 1
        range   == InterpolateXs(setup, S, ys)
    IN  /\ start_y <= end_y
        /\ Greater(Lesser(Greater(range[1], xlo), xhi), lo[1])
               <= Lesser(Lesser(Greater(range[2], xlo), xhi), hi[1])

(* tile_binning_combined.comp: a primitive is binned into the rectangle of *)
(* a workgroup, and then into each of its tiles.  resolution clips both.   *)
TileRect(tile, size, resolution) ==
    <<<<tile[1] * size[1], tile[2] * size[2]>>,
      <<Lesser((tile[1] + 1) * size[1], resolution[1]) - 1, Lesser((tile[2] + 1) * size[2], resolution[2]) - 1>>>>

Binned(setup, scissor, S, resolution, tile) ==
    LET meta == <<tile[1] \div MetaWidth, tile[2] \div MetaHeight>>
        m    == TileRect(meta, <<TileWidth * MetaWidth, TileHeight * MetaHeight>>, resolution)
        t    == TileRect(tile, <<TileWidth, TileHeight>>, resolution)
    IN  BinPrimitive(setup, scissor, S, m[1], m[2]) /\ BinPrimitive(setup, scissor, S, t[1], t[2])

(* A cell is a tile and a group of primitives: bin[cell] are those of the  *)
(* group that touch the tile.  Cells take room for their instances in the  *)
(* order of their atomics.                                                 *)
Offsets(bin, order) ==
    [cell \in Range(order) |->
        FoldSet(LAMBDA i, sum : sum + Cardinality(bin[order[i]]), 0,
                              {i \in DOMAIN order : \E j \in DOMAIN order : order[j] = cell /\ i < j})]

\* The work list: which primitive is shaded for a tile into which instance, in the order of bits.
RankedByBit(primitives, p) == p % 32
Ranked(primitives, p) == Cardinality({q \in primitives : q < p})
Work(bin, offsets) ==
    UNION {{[tile |-> cell[1], primitive |-> p, instance |-> offsets[cell] + Ranked(bin[cell], p)] :
            p \in bin[cell]} : cell \in DOMAIN bin}

(* depth_blend.comp: the instances that a tile blends, and what it takes   *)
(* them for: group by group, in the order of bits.                         *)
Blended(bin, offsets, tile) ==
    LET groups == {cell \in DOMAIN bin : cell[1] = tile /\ bin[cell] # {}}
        Items(cell) == [i \in 1 .. Cardinality(bin[cell]) |->
                           [tile |-> tile, primitive |-> SetToSortSeq(bin[cell], <)[i],
                            instance |-> offsets[cell] + i - 1]]
        sorted == SetToSortSeq(groups, LAMBDA a, b : a[2] < b[2])
    IN  FoldLeft(LAMBDA seq, cell : seq \o Items(cell), <<>>, sorted)
=============================================================================
