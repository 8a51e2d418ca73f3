------------------------------- MODULE TmemUpload ------------------------------
(***************************************************************************)
(* Loading texture memory.  The RDP walks through a texture, fetching eight*)
(* bytes at a time and scattering them over TMEM.  load_tile turns a load  *)
(* into upload infos, and tmem_update.comp gathers: a thread per word of   *)
(* TMEM looks for the last fetch that wrote it.                            *)
(*                                                                         *)
(* What a word of TMEM holds is where its two bytes were in RDRAM.         *)
(***************************************************************************)
EXTENDS Bits, FiniteSets, Sequences

CONSTANTS
    TmemWords,              \* 16-bit words of TMEM: 2048
    PageSize, NumPages      \* bytes of a page of incoherent RDRAM, and its pages

ASSUME TmemAssumption == TmemWords \in {2^n : n \in 4 .. 11}
ASSUME PageAssumption == PageSize \in {2^n : n \in 3 .. 10} /\ NumPages \in {2^n : n \in 1 .. 13}

HalfWords == TmemWords \div 2
Word == 0 .. TmemWords - 1

\* TextureSize, the logarithm of the size of a texel in nibbles.
Bpp4 == 0
Bpp8 == 1
Bpp16 == 2
Bpp32 == 3

\* A word that no load has written, and the texels at lo .. hi - 1 of an axis.
Untouched == <<-1, -1>>
Whole(x) == Shr(x, 2)
Span(lo, hi) == Low(hi - lo + 1, 12)
-----------------------------------------------------------------------------
(* load_tile and load_tile_iteration. *)

\* Loads that do nothing.
Noop(info) ==
    IF info.mode = "Block"
    THEN Span(info.slo, info.shi) = 0 \/ Span(info.slo, info.shi) > 2048
    ELSE \/ Whole(info.thi) < Whole(info.tlo)
         \/ Span(Whole(info.slo), Whole(info.shi)) = 0

\* Bytes of RDRAM that load_tile marks for the GPU: first, and how many.
Marked(info) ==
    LET block == info.mode = "Block"
        x     == IF block THEN info.slo ELSE Whole(info.slo)
        y     == IF block THEN info.tlo ELSE Whole(info.tlo)
        max_x == Low(Whole(info.shi) - Whole(info.slo), 12)
        count == IF block THEN Span(info.slo, info.shi)
                 ELSE (Whole(info.thi) - Whole(info.tlo)) * info.tex_width + max_x + 1
    IN  [addr |-> info.tex_addr + Shl(x + info.tex_width * y, info.size - 1),
         size |-> AlignUp(Shl(count, info.size - 1), 8)]

\* mark_pages_for_gpu_read and lock_pages_for_gpu_write.
PageOf(addr) == (addr \div PageSize) % NumPages
\* Mutant: the end of the range is taken for its last byte.
PagesToReadShort(addr, size) ==
    {p \in 0 .. NumPages - 1 : (p - PageOf(addr)) % NumPages < PageOf(addr + size) - PageOf(addr)}
PagesToRead(addr, size) ==
    LET first == PageOf(addr)
        end   == (PageOf(addr + size - 1) + 1) % NumPages
    IN  IF size = 0 THEN {}
        ELSE {p \in 0 .. NumPages - 1 : (p - first) % NumPages < (end - first) % NumPages}
PagesToWrite(addr, size) ==
    IF size = 0 THEN {}
    ELSE {p % NumPages : p \in addr \div PageSize .. (addr + size - 1) \div PageSize}

\* Bytes of the framebuffers that the pending primitives may have drawn to.
ColorBytes(fb) ==
    fb.width * fb.deduced_height *
        CASE fb.fmt = "RGBA8888" -> 4 [] fb.fmt \in {"RGBA5551", "IA88"} -> 2 [] OTHER -> 1
DepthBytes(fb) == fb.width * fb.deduced_height * 2

\* tmem_upload_needs_flush.  Only the first byte of a load is looked at.
NeedsFlush(fb, addr) ==
    LET Offset(base) == (addr - base) % (PageSize * NumPages)
        pixels == fb.width * fb.deduced_height
    IN  \/ /\ fb.color_write_pending
           /\ Shr(Offset(fb.addr), CASE fb.fmt \in {"RGBA5551", "I8"} -> 1
                                     [] fb.fmt = "RGBA8888" -> 2
                                     [] OTHER -> 0) < pixels
        \/ fb.depth_write_pending /\ Shr(Offset(fb.depth_addr), 1) < pixels

\* What load_tile_iteration refuses: "unsupported".
Unsupported(meta, info) ==
    \/ meta.fmt = "YUV" /\ (meta.size # Bpp16 \/ info.size # Bpp16)
    \/ info.size = Bpp4
    \/ meta.size = Bpp32 /\ (meta.fmt # "RGBA" \/ info.mode = "TLUT")
    \/ info.mode # "TLUT" /\ info.size - meta.size >= 2
    \/ info.mode = "TLUT" /\ Whole(info.thi) > Whole(info.tlo)

(* A block has no lines but a slope: fetch k is on line (k * dt) >> 11.    *)
(* With a stride, the shader looks for the line between two estimates, the *)
(* word divided by the most and by the fewest words that a line may take.  *)
Slope(meta, info) ==
    LET dt    == info.thi
        max_t == Shr(Shr(Span(info.slo, info.shi) - 1, 4 - info.size) * dt, 11)
        most  == (2048 + dt - 1) \div dt
        exact == (dt * most - 2048) * max_t < dt
        least == IF exact THEN most ELSE 2048 \div dt
        twice == meta.size = Bpp32 \/ meta.fmt = "YUV"
        slow  == Greater(meta.size - info.size, 0)
        words == Shl(Shr(meta.stride, 1), IF twice THEN 1 ELSE 0)
    IN  [flat    |-> max_t = 0,
         refused |-> \/ twice /\ least # most /\ meta.size # info.size
                     \/ info.size > meta.size,
         dxt     |-> Shr(Shl(dt, 5), slow),
         stride  |-> Shr(words, 2),
         most    |-> Shl(most, slow) + Shr(words, 2),
         least   |-> Shl(least, slow) + Shr(words, 2)]

\* Widths in texels of RDRAM, and in 16-bit words of TMEM (YUV and 32 bits: of each half).
EffectiveWidth(info, mode, width) ==
    IF mode = "TLUT" /\ info.size = Bpp16 THEN width ELSE AlignUp(width, Shr(16, info.size))
TmemWidth(meta, width) ==
    CASE meta.size = Bpp4  -> Shr(AlignUp(width, 16), 2)
      [] meta.size = Bpp8  -> Shr(AlignUp(width, 8), 1)
      [] meta.size = Bpp16 -> Shr(AlignUp(width, 4), IF meta.fmt = "YUV" THEN 1 ELSE 0)
      [] meta.size = Bpp32 -> AlignUp(width, 2)

\* The uploads, one or none, of one iteration.
Iteration(meta, info, tmem_offset) ==
    LET block  == info.mode = "Block"
        slope  == Slope(meta, info)
        sloped == block /\ info.thi # 0 /\ ~slope.flat
        mode   == IF block /\ ~sloped THEN "Tile" ELSE info.mode
        x      == IF block THEN info.slo ELSE Whole(info.slo)
        y      == IF block THEN info.tlo ELSE Whole(info.tlo)
        width  == IF block THEN Span(info.slo, info.shi)
                           ELSE Span(Whole(info.slo), Whole(info.shi))
        across == EffectiveWidth(info, mode, width)
    IN  IF Unsupported(meta, info) \/ (sloped /\ slope.refused) \/ width = 0 THEN <<>>
        ELSE <<[mode   |-> mode,
                width  |-> TmemWidth(meta, width),
                height |-> IF block THEN 1 ELSE Whole(info.thi) - Whole(info.tlo) + 1,
                vram_addr  |-> info.tex_addr + Shl(info.tex_width * y + x, info.size - 1),
                vram_width |-> IF mode = "Block" THEN across ELSE info.tex_width,
                vram_size  |-> info.size,
                vram_effective_width |-> across,
                tmem_offset |-> (meta.offset + tmem_offset) % (2 * TmemWords),
                tmem_size   |-> meta.size,
                tmem_fmt    |-> meta.fmt,
                tmem_stride_words |-> IF sloped THEN slope.stride
                                      ELSE IF block THEN 0 ELSE Shr(meta.stride, 1),
                dxt   |-> IF sloped THEN slope.dxt ELSE 0,
                most  |-> IF sloped THEN slope.most ELSE 1,
                least |-> IF sloped THEN slope.least ELSE 1]>>

\* Bytes of TMEM that a line of a tile is estimated to take.
BytesPerLine(meta, info) ==
    LET quads == Shr(Shl(Span(Whole(info.slo), Whole(info.shi)), meta.size) + 15, 4)
        wider == IF meta.size > info.size THEN Shl(quads, meta.size - info.size)
                                          ELSE Shr(quads, info.size - meta.size)
    IN  Greater(8 * wider, meta.stride)

(* load_tile: a tile that goes once around TMEM is loaded a few lines at a *)
(* time, an even number of them so that odd lines stay odd.                *)
LoadTile(meta, info) ==
    LET capacity == IF meta.fmt = "YUV" THEN TmemWords ELSE 2 * TmemWords
        lines    == Whole(info.thi) - Whole(info.tlo) + 1
        bytes    == BytesPerLine(meta, info)
        at_once  == AlignDown(capacity \div bytes, 2)
        Part(n)  == LET line == n * at_once IN
                    Iteration(meta,
                              [info EXCEPT !.tlo = @ + Shl(line, 2),
                                           !.thi = info.tlo +
                                               Shl(line + Lesser(lines - line, at_once) - 1, 2)],
                              line * meta.stride)
        Parts[n \in Nat] == IF n * at_once >= lines THEN <<>> ELSE Part(n) \o Parts[n + 1]
    IN  IF Noop(info) THEN <<>>
        ELSE IF info.mode # "Tile" \/ bytes * lines <= capacity THEN Iteration(meta, info, 0)
        ELSE IF at_once = 0 THEN <<>>
        ELSE Parts[0]
-----------------------------------------------------------------------------
(* tmem_update.comp.  A texel of a line is at word x, which odd lines swap *)
(* within eight bytes.  Nothing is written if a gather returns Untouched.  *)

Swap(x, line) == Flip(x, 1, line % 2 = 1)

\* The line and the word in it that covers a word of TMEM last.
Position(up, pixel_offset) ==
    LET stride == up.tmem_stride_words
        last   == up.height - 1
        y      == IF stride = 0 THEN last ELSE Lesser(pixel_offset \div stride, last)
    IN  [x |-> pixel_offset - y * stride, y |-> y]

\* The fetches whose word and line, for a slope, add up to word.
Candidates(up, word, low, high) ==
    LET T(x)  == Shr(x * up.dxt, 16)
        t_min == Greater(low \div up.most, T(low - up.tmem_stride_words * (high \div up.least)))
        t_max == Lesser(high \div up.least, T(high - up.tmem_stride_words * (low \div up.most)))
    IN  [x \in {w - up.tmem_stride_words * t : w \in {low, high}, t \in t_min .. t_max} |-> T(x)]

\* 16 bits at RDRAM address a.
Pair(a) == <<a, a + 1>>

(* update_tmem_16: all formats that take a word of TMEM at a time. *)
Gather16(up, index) ==
    LET pixel_offset == (index - Shr(up.tmem_offset, 1)) % TmemWords
        word    == Shr(pixel_offset, 2)
        sloped  == up.mode = "Block"
        strided == sloped /\ up.tmem_stride_words # 0
        T(x)    == Shr(x * up.dxt, 16)
        found   == {x \in DOMAIN Candidates(up, word, word, word) :
                        x + T(x) * up.tmem_stride_words = word}
        fetch   == IF strided THEN CHOOSE x \in found : \A z \in found : z <= x ELSE word
        at      == IF sloped THEN [x |-> 4 * fetch + Low(pixel_offset, 2), y |-> 0]
                             ELSE Position(up, pixel_offset)
        \* Texels of bytes in words of 16 bits: only every other eight bytes are written.
        gap     == up.tmem_size = Bpp16 /\ up.vram_size = Bpp8 /\ Bit(at.x, 2)
        back    == gap /\ Bit(up.tmem_stride_words, 2) /\ at.y > 0
        x       == IF back THEN at.x + up.tmem_stride_words ELSE at.x
        y       == IF back THEN at.y - 1 ELSE at.y
        base    == AlignDown(x, 4)
        iteration_offset ==
            IF up.vram_size - up.tmem_size = 1
            THEN 4 * base
                 + IF base + 2 < Shr(up.vram_effective_width, 3 - up.vram_size) THEN 8 ELSE 0
            ELSE IF up.vram_size # up.tmem_size THEN base ELSE 2 * base
        turned  == Swap(Swap(x, y), IF sloped THEN T(fetch) ELSE 0)
    IN  IF (strided /\ found = {}) \/ (gap /\ ~back) \/ x >= up.width THEN Untouched
        ELSE Pair(up.vram_addr + Shl(y * up.vram_width, up.vram_size - 1)
                  + iteration_offset + 2 * Low(turned, 2))

\* Mutant: the line above is not looked at.
NeverAbove(up, at, n, mask) == at

\* Lines above, while this one does not write to the word: at most n.
Above(up, at, n, mask) ==
    LET Go[i \in 0 .. n] ==
            IF i = 0 THEN at
            ELSE LET b == Go[i - 1] IN
                 IF b.y > 0 /\ mask \intersect {j \in 1 .. 2 : Bit(b.x, j)} # {}
                 THEN [x |-> Flip(b.x + up.tmem_stride_words, 1, TRUE), y |-> b.y - 1]
                 ELSE b
    IN  Go[n]

(* update_tmem_32: texels of 32 bits, and YUV, with a half in each half of *)
(* TMEM.  Two words are a fetch.                                           *)

\* Of a block, the fetches that went to this word; without a stride, of a pair of them.
Fetches32(up, word) ==
    LET first  == AlignDown(word, 2)
        stride == up.tmem_stride_words
        T(x)   == Shr(x * up.dxt, 16)
        Target(x) == Flip(x + T(x) * stride, 0, T(x) % 2 = 1)
    IN  IF stride # 0
        THEN {x \in DOMAIN Candidates(up, word, first, first + 1) : Target(x) = word}
        ELSE IF T(first) = T(first + 1) THEN {Flip(word, 0, T(first) % 2 = 1)}
        ELSE {x \in {first, first + 1} : Target(x) = word}

\* Of a tile, the texel that is there, maybe of a line above.
Line32(up, at) ==
    LET over   == Swap(at.x, at.y) >= up.width /\ at.y > 0
        line   == IF over THEN [x |-> at.x + up.tmem_stride_words, y |-> at.y - 1] ELSE at
        turned == [line EXCEPT !.x = Swap(@, line.y)]
    IN  CASE up.vram_size = Bpp32 \/ up.tmem_fmt = "YUV" -> turned
          [] up.vram_size = Bpp16 /\ up.tmem_fmt # "YUV" -> Above(up, turned, 1, {1})
          [] up.vram_size = Bpp8 /\ up.tmem_fmt # "YUV" -> Above(up, turned, 4, {1, 2})

Bytes32(up, upper, from) ==
    LET yuv     == up.tmem_fmt = "YUV"
        skipped == CASE up.vram_size = Bpp32 \/ yuv -> FALSE
                     [] up.vram_size = Bpp16 /\ ~yuv -> Bit(from.x, 1)
                     [] up.vram_size = Bpp8 /\ ~yuv -> Bit(from.x, 1) \/ Bit(from.x, 2)
        scale   == IF yuv THEN 4 ELSE Shl(1, up.vram_size - 1)
        a       == up.vram_addr + Shl(from.y * up.vram_width, up.vram_size - 1)
                   + scale * AlignDown(from.x, 2) + 4 * Low(from.x, 1)
    IN  IF skipped \/ from.x >= up.width THEN Untouched
        ELSE IF ~yuv THEN Pair(IF upper THEN a + 2 ELSE a)
        ELSE IF upper THEN <<a + 1, a + 3>> ELSE <<a, a + 2>>

Gather32(up, index) ==
    LET upper == index >= HalfWords
        pixel_offset == (index - Shr(up.tmem_offset % TmemWords, 1)) % HalfWords
        found == Fetches32(up, Shr(pixel_offset, 1))
        fetch == CHOOSE x \in found : \A z \in found : z <= x
    IN  IF up.mode # "Block" THEN Bytes32(up, upper, Line32(up, Position(up, pixel_offset)))
        ELSE IF found = {} THEN Untouched
        ELSE Bytes32(up, upper, [x |-> 2 * fetch + Low(pixel_offset, 1), y |-> 0])

(* update_tmem_lut: an entry of a palette goes to all four words of eight  *)
(* bytes; how far apart they are depends on the sizes.                     *)
GatherLut(up, index) ==
    LET pixel_offset == (index - Shr(up.tmem_offset, 1)) % TmemWords
        more   == up.vram_size - up.tmem_size
        period == CASE more = 3 -> 4 [] more = 2 -> 4 [] more = 1 -> 8 [] more = 0 -> 16
                    [] more = -1 -> 32
        shamt  == up.tmem_size + IF up.vram_size = Bpp16 THEN 2 ELSE 0
        span   == 4 * Shr(pixel_offset, 2)
        entry  == CASE more = 3 -> IF span + 2 < up.vram_effective_width THEN span + 2 ELSE span
                    [] more = 2 -> Shl(Shr(pixel_offset, 2), up.vram_size - 2)
                    [] more = 1 -> Shr(AlignDown(pixel_offset, 8), shamt)
                    [] more = 0 -> Shr(AlignDown(pixel_offset, 4), shamt)
                    [] more = -1 -> AlignDown(Shr(pixel_offset, up.tmem_size), 8)
        a      == up.vram_addr + Shl(entry, up.vram_size - 1)
    IN  IF pixel_offset % period >= 4 \/ entry >= up.vram_effective_width THEN Untouched
        ELSE Pair(a + 2 * (a % 2) * Low(pixel_offset, 2))

\* main: every upload in turn, in place.
Uploaded(ups, tmem) ==
    LET Gather(up, index) ==
            CASE up.mode = "TLUT" -> GatherLut(up, index)
              [] up.mode # "TLUT" /\ (up.tmem_size = Bpp32 \/ up.tmem_fmt = "YUV") ->
                    Gather32(up, index)
              [] OTHER -> Gather16(up, index)
        After[n \in 0 .. Len(ups)] ==
            IF n = 0 THEN tmem
            ELSE [index \in Word |-> LET w == Gather(ups[n], index) IN
                                     IF w = Untouched THEN After[n - 1][index] ELSE w]
    IN  After[Len(ups)]
-----------------------------------------------------------------------------
(* What the RDP does: every line, fetch by fetch. *)

\* TMEM is so many fetches wide; where fetch k of a line begins, in words (of a half).
Step(info) == Shr(16, info.size)
Halves(meta) == meta.size = Bpp32 \/ meta.fmt = "YUV"
FetchAt(meta, info, k) ==
    LET s == k * Step(info) IN
    CASE meta.fmt = "YUV" -> Shr(s, 1)
      [] meta.fmt # "YUV" /\ meta.size = Bpp32 -> s
      [] meta.fmt # "YUV" /\ meta.size # Bpp32 -> AlignDown(Shr(Shl(s, meta.size), 2), 4)

\* The words that eight bytes at a go to, from word x of a line on.
Scattered(meta, a, x, row, line) ==
    LET Half(j) == (Shr(meta.offset, 1) + row + Swap(x + j, line)) % HalfWords
        Full(j) == (Shr(meta.offset, 1) + row + Swap(x + j, line)) % TmemWords
    IN  IF meta.fmt = "YUV"
        THEN {<<Half(j), <<a + 4 * j, a + 4 * j + 2>>>> : j \in 0 .. 1}
             \union {<<Half(j) + HalfWords, <<a + 4 * j + 1, a + 4 * j + 3>>>> : j \in 0 .. 1}
        ELSE IF Halves(meta)
        THEN {<<Half(j), Pair(a + 4 * j)>> : j \in 0 .. 1}
             \union {<<Half(j) + HalfWords, Pair(a + 4 * j + 2)>> : j \in 0 .. 1}
        ELSE {<<Full(j), Pair(a + 2 * j)>> : j \in 0 .. 3}

\* The fetches of a load, in order: what each writes.
Fetches(meta, info) ==
    LET x0     == IF info.mode = "Block" THEN info.slo ELSE Whole(info.slo)
        y0     == IF info.mode = "Block" THEN info.tlo ELSE Whole(info.tlo)
        width  == IF info.mode = "Block" THEN Span(info.slo, info.shi)
                                         ELSE Span(Whole(info.slo), Whole(info.shi))
        lines  == IF info.mode = "Block" THEN 1 ELSE Whole(info.thi) - Whole(info.tlo) + 1
        stride == Shr(meta.stride, 1)
        start  == info.tex_addr + Shl(info.tex_width * y0 + x0, info.size - 1)
        single == info.mode = "TLUT" /\ info.size = Bpp16
        count  == IF single THEN width ELSE (width + Step(info) - 1) \div Step(info)
        Address(y, k) == start + Shl(y * info.tex_width, info.size - 1)
                               + IF single THEN 2 * k ELSE 8 * k
        One(y, k) ==
            CASE info.mode = "Tile" ->
                    Scattered(meta, Address(y, k), FetchAt(meta, info, k), y * stride, y)
              [] info.mode = "Block" ->
                    LET t == Shr(k * info.thi, 11) IN
                    Scattered(meta, Address(0, k), FetchAt(meta, info, k), t * stride, t)
              [] info.mode = "TLUT" ->
                    {<<(Shr(meta.offset, 1)
                        + 4 * Shr(Shl(k * Step(info), meta.size), 2) + j) % TmemWords,
                       Pair(Address(0, k))>> : j \in 0 .. 3}
    IN  [n \in 1 .. lines * count |-> One((n - 1) \div count, (n - 1) % count)]

Scatter(meta, info, tmem) ==
    LET fetches == Fetches(meta, info)
        After[n \in 0 .. Len(fetches)] ==
            IF n = 0 THEN tmem
            ELSE LET w == fetches[n] IN
                 [index \in Word |-> IF \E v \in w : v[1] = index
                                     THEN (CHOOSE v \in w : v[1] = index)[2]
                                     ELSE After[n - 1][index]]
    IN  IF Noop(info) THEN tmem ELSE After[Len(fetches)]
=============================================================================
