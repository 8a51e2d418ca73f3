----------------------------- MODULE ScanoutStages ----------------------------
(***************************************************************************)
(* How VideoInterface::scanout makes one picture: decode_vi_registers, the *)
(* memory it reads, the chain of images from VRAM to the scaled picture,   *)
(* cropping, and the blending with the picture of the frame before.  What  *)
(* is in a pixel is abstracted to where it comes from.                     *)
(***************************************************************************)
EXTENDS ViGeometry, FiniteSetsExt

CONSTANTS
    ScanWidth,                  \* VI_SCANOUT_WIDTH
    GuardLeft, GuardRight,      \* the guard band: 8 and 7 pixels
    One,                        \* 1.0 in XAdd and YAdd (2^10)
    VideoBytes                  \* rdram_size

ASSUME WidthAssumption == /\ {ScanWidth, One, VideoBytes} \subseteq Nat \ {0}
                          /\ {GuardLeft, GuardRight} \subseteq Nat

Bit(b) == IF b THEN 1 ELSE 0
-----------------------------------------------------------------------------
(* decode_vi_registers.  regs.standard has the horizontal offset, too;     *)
(* regs.frame holds XScale and HStart of the frame, regs.lines those that  *)
(* were latched for the even and the odd rows.                             *)

\* analyze_line
Analyzed(regs, info) ==
    LET start == info.h_start - regs.standard.h_offset
        end == info.h_end - regs.standard.h_offset
    IN  [h_start |-> Max({start, 0}), h_end |-> Least(end, ScanWidth),
         h_start_clamp |-> IF start < 0 THEN 0 ELSE start + GuardLeft,
         h_end_clamp |-> IF end > ScanWidth THEN ScanWidth ELSE end - GuardRight,
         x_start |-> info.x_start - Least(start, 0) * info.x_add, x_add |-> info.x_add]

RowsOf(regs) == Rows(regs.standard, regs.v_start, regs.v_end)
InfoOf(regs, row) == IF regs.ended THEN regs.lines[1 + (row % 2)] ELSE regs.frame
LineOf(regs, row) == Analyzed(regs, InfoOf(regs, row))

\* VStart above the first line moves y along; the quotient is truncated.
FirstY(regs) ==
    LET above == regs.standard.offset - Least(regs.v_start, EndOf(regs.standard))
    IN  regs.y_start + regs.y_add * Max({above \div 2, 0})

Decoded(regs) ==
    LET v_res == Height(regs.standard, regs.v_start, regs.v_end)
        used == IF v_res <= 0 THEN {Analyzed(regs, regs.frame)}
                ELSE {LineOf(regs, row) : row \in RowsOf(regs)}
        lo == Min({l.h_start : l \in used})
        clamp_lo == Min({l.h_start_clamp : l \in used})
    IN  [v_start |-> FirstRow(regs.standard, regs.v_start), v_res |-> v_res,
         h_start |-> lo, h_res |-> Max({0} \union {l.h_end : l \in used}) - lo,
         h_start_clamp |-> clamp_lo,
         h_res_clamp |-> Max({0} \union {l.h_end_clamp : l \in used}) - clamp_lo,
         max_x |-> Max({0} \union {(l.x_start + (l.h_end - l.h_start) * l.x_add) \div One : l \in used}),
         max_y |-> (FirstY(regs) + v_res * regs.y_add) \div One]

\* The exits of scanout() without a new picture.
Invisible(regs) == LET d == Decoded(regs) IN d.h_res <= 0 \/ d.h_start >= ScanWidth
-----------------------------------------------------------------------------
(* The images between VRAM and the scaled picture: what a pixel is made    *)
(* from, as coordinates of VRAM.  o.divot is what the options leave of     *)
(* regs.divot, and s the scaling factor.                                   *)

XOff(divot) == IF divot THEN -3 ELSE -2
YOff == -2
Outside == <<>>             \* a texel that is not in the image

Scaled(d, s) == [d EXCEPT !.max_x = @ * s + s - 1, !.max_y = @ * s + s - 1]
ExtractSize(d, divot) == <<d.max_x + 6 + 2 * Bit(divot), d.max_y + 5>>
AaSize(d, divot) == <<d.max_x + 3 + 2 * Bit(divot), d.max_y + 2>>
DivotSize(d) == <<d.max_x + 2, d.max_y + 2>>
In(p, size) == p[1] \in 0 .. size[1] - 1 /\ p[2] \in 0 .. size[2] - 1

\* need_fetch_bug_emulation
FetchBug(regs, s) == regs.y_add < One /\ s = 1

\* vram_fetch_stage and extract_vram.comp
Extracted(d, divot, p) ==
    IF In(p, ExtractSize(d, divot)) THEN <<p[1] + XOff(divot), p[2] + YOff>> ELSE Outside

\* The neighbours vi_fetch.frag looks at; the buggy slice none of the next line.
Around(slice) == {n \in ((-1 .. 1) \X (-1 .. 1)) \union {<<-2, 0>>, <<2, 0>>} : slice = 1 => n[2] <= 0}

\* aa_fetch_stage
AaPixel(d, divot, p, slice) ==
    IF In(p, AaSize(d, divot))
    THEN {Extracted(d, divot, <<p[1] + 2 + n[1], p[2] + 2 + n[2]>>) : n \in Around(slice)}
    ELSE {Outside}

\* divot_stage
DivotPixel(d, p, slice) ==
    IF In(p, DivotSize(d)) THEN UNION {AaPixel(d, TRUE, <<p[1] + i, p[2]>>, slice) : i \in 0 .. 2}
    ELSE {Outside}

\* Mutant: the last column is not needed.
SourceNarrow(d, divot, p, slice) ==
    IF divot THEN DivotPixel([d EXCEPT !.max_x = @ - 1], p, slice)
    ELSE AaPixel([d EXCEPT !.max_x = @ - 1], FALSE, p, slice)
Source(d, divot, p, slice) ==
    IF divot THEN DivotPixel(d, p, slice) ELSE AaPixel(d, FALSE, p, slice)

\* The sample position of column x of the picture and row y of the frame.
SampleX(l, s, x) == (x - l.h_start * s) * l.x_add + l.x_start * s
SampleY(regs, s, y) == y * regs.y_add + FirstY(regs) * s

\* vi_scale.frag: the slice that the next line is read from.
NextSlice(regs, s, y) ==
    LET at(n) == (SampleY(regs, s, y) + n * regs.y_add) \div One
    IN  IF FetchBug(regs, s) /\ y # 0 /\ at(0) = at(-1) /\ at(0) # at(1) THEN 1 ELSE 0

\* All that one pixel of the picture is made from.
Footprint(regs, o, s, x, y) ==
    LET d == Scaled(Decoded(regs), s)
        divot == regs.divot /\ o.divot
        l == LineOf(regs, Decoded(regs).v_start + y \div s)
        base == <<SampleX(l, s, x) \div One, SampleY(regs, s, y) \div One>>
        fetch(i, j, slice) == Source(d, divot, <<base[1] + i, base[2] + j>>, slice)
    IN  fetch(0, 0, 0) \union fetch(1, 0, 0)
            \union UNION {fetch(i, 1, NextSlice(regs, s, y)) : i \in {0, 1}}
-----------------------------------------------------------------------------
(* The memory behind it. *)

\* scanout_memory_range: first byte and number of bytes.
MemoryRange(regs) ==
    LET d == Decoded(regs)
    IN  IF regs.origin = 0 \/ Invisible(regs) THEN [offset |-> 0, length |-> 0]
        ELSE [offset |-> (regs.origin \div regs.pixel) * regs.pixel
                            + (XOff(regs.divot) + YOff * regs.width) * regs.pixel,
              length |-> ((d.max_y + 5) * regs.width + d.max_x + 6 + 2 * Bit(regs.divot)) * regs.pixel]

\* The byte of RDRAM that extract_vram.comp reads for a coordinate.
ByteOf(regs, s, c) ==
    ((regs.origin \div regs.pixel + (c[2] \div s) * regs.width + c[1] \div s) * regs.pixel) % VideoBytes

\* Before an upscaled picture is read, submit_update_upscaled_domain_external
\* brings these bytes up to date; otherwise they were copied from the host.
\* The length is used as a number of pixels, and the registers of the lines
\* are gone by then.
Current(regs, s) ==
    LET r == MemoryRange(IF s > 1 THEN [regs EXCEPT !.ended = FALSE] ELSE regs)
        first == IF s > 1 THEN (r.offset \div 4) * 4 ELSE r.offset
        length == IF s > 1 THEN r.length * regs.pixel ELSE r.length
    IN  {b % VideoBytes : b \in first .. first + length - 1}
-----------------------------------------------------------------------------
(* scale_stage: rectangles of the picture.  o.crop is <<left, right, top,  *)
(* bottom>> in pixels of the original resolution.                          *)

Doubled(o) == IF o.serrate THEN 2 ELSE 1
Crop(o) == [i \in 1 .. 4 |-> o.crop[i] * o.scale * (IF i > 2 THEN Doubled(o) ELSE 1)]

PictureSize(regs, o) ==
    LET w == ScanWidth * o.scale
        h == ((regs.standard.res * Doubled(o)) \div 2) * o.scale
        c == Crop(o)
    IN  IF c[1] + c[2] < w /\ c[3] + c[4] < h THEN <<w - c[1] - c[2], h - c[3] - c[4]>> ELSE <<w, h>>

\* shift_rect, by what is cropped on the left and at the top.
Shifted(x, y, w, h, c) ==
    [x |-> Max({x - c[1], 0}), y |-> Max({y - c[3], 0}),
     w |-> Max({w + Least(x - c[1], 0), 0}), h |-> Max({h + Least(y - c[3], 0), 0})]

InRect(r, p) == p[1] \in r.x .. r.x + r.w - 1 /\ p[2] \in r.y .. r.y + r.h - 1

\* Decoded registers in pixels of the picture.
Placed(d, o) ==
    LET v == o.scale * Doubled(o)
    IN  [v_start |-> d.v_start * v, v_res |-> d.v_res * v,
         h_start |-> d.h_start * o.scale, h_res |-> d.h_res * o.scale,
         h_start_clamp |-> d.h_start_clamp * o.scale, h_res_clamp |-> d.h_res_clamp * o.scale]

\* The scissor of the draw, and what vi_scale.frag does not discard.
Covered(regs, r, o, p) ==
    LET c == Crop(o)
        at == <<p[1] + c[1], p[2] + c[3]>>
        l == LineOf(regs, at[2] \div (o.scale * Doubled(o)))
    IN  /\ r.v_res > 0 /\ r.h_res > 0
        /\ InRect(Shifted(r.h_start, r.v_start, r.h_res, r.v_res, c), p)
        /\ at[1] \in l.h_start_clamp * o.scale .. l.h_end_clamp * o.scale - 1
        /\ o.serrate => (at[2] - r.v_start) % 2 = regs.field

\* The parts of the earlier picture, of height h, that are blended in.
Parts(r, c, h) ==
    LET below == r.v_start + r.v_res
    IN  IF r.v_res <= 0 THEN {Shifted(r.h_start, 0, Max({r.h_res, 0}), h, c)}
        ELSE {Shifted(r.h_start, 0, Max({r.h_res, 0}), r.v_start, c),
              Shifted(r.h_start_clamp, r.v_start, Max({r.h_res_clamp, 0}), r.v_res, c),
              Shifted(r.h_start, below, Max({r.h_res, 0}), Max({h - below, 0}), c)}

\* Mutant: a pixel that persists can persist again.
BlendedAgain(pixel) == pixel # "clear"
\* vi_blend_fields.frag: the alpha of a persistent pixel is zero.
BlendedIn(pixel) == pixel = "now"

NoPicture == [p \in {} |-> "clear"]
HeightOf(picture) == IF picture = NoPicture THEN 0 ELSE Max({p[2] : p \in DOMAIN picture}) + 1

\* The picture of a frame, on top of the one before.
Picture(regs, o, before) ==
    LET size == PictureSize(regs, o)
        r == Placed(Decoded(regs), o)
        parts == IF o.blend /\ before # NoPicture THEN Parts(r, Crop(o), HeightOf(before)) ELSE {}
    IN  [p \in (0 .. size[1] - 1) \X (0 .. size[2] - 1) |->
            IF Covered(regs, r, o, p) THEN "now"
            ELSE IF (\E rect \in parts : InRect(rect, p)) /\ BlendedIn(before[p]) THEN "before"
            ELSE "clear"]
=============================================================================
