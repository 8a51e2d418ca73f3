------------------------------ MODULE TextureFetch -----------------------------
(***************************************************************************)
(* Reading texture memory (texture.h): from a texture coordinate to the    *)
(* texels of the filter's footprint, and from those to a texel's value.    *)
(*                                                                         *)
(* TMEM is what TmemUpload makes of it; a texel is where its nibbles were  *)
(* in RDRAM, nibble 2 * a being the upper one of the byte at a.  Bytes of  *)
(* TMEM are numbered as the RDP does; the arrays of the shaders are little *)
(* endian, hence their ^3 and ^1.                                          *)
(***************************************************************************)
EXTENDS TmemUpload

TmemBytes == 2 * TmemWords

ByteAt(tmem, i) == tmem[i \div 2][1 + (i % 2)]
Nibbles(byte) == <<2 * byte, 2 * byte + 1>>
-----------------------------------------------------------------------------
(* Coordinates, in 1/32 of a texel; lo and hi in 1/4.                      *)

\* texel_mask_s, texel_mask_t, texel_mask_s_copy; mirrored repeats count down.
Masked(x, mask, mirror) ==
    IF mask = 0 THEN x
    ELSE LET low == Low(x, mask)
             odd == Bit(x, mask)
         IN  IF mirror /\ odd THEN 2^mask - 1 - low ELSE low

\* Shift values above 10 shift to the left, in 16 bits.
Shifted(coord, shift) ==
    LET c == ClampTo(coord, -32768, 32767) IN
    IF shift < 11 THEN Shr(c, shift) ELSE Signed(Shl(c, 16 - shift), 16)

\* Mutant: the upper end of the tile is not looked at.
ClampAndShiftLow(clamp, coord, lo, hi, shift) ==
    LET c == Shifted(coord, shift) - 8 * lo IN IF clamp THEN Greater(c, 0) ELSE c

\* clamp_and_shift_coord
ClampAndShift(clamp, coord, lo, hi, shift) ==
    LET c == Shifted(coord, shift) IN
    IF ~clamp THEN c - 8 * lo
    ELSE IF Shr(c, 3) >= hi THEN 32 * Low(Whole(hi) - Whole(lo), 10)
    ELSE Greater(c - 8 * lo, 0)

\* The texels around a coordinate and where it is between them.
Around(tile, st) ==
    LET s  == ClampAndShift(tile.clamp_s, st[1], tile.slo, tile.shi, tile.shift_s)
        t  == ClampAndShift(tile.clamp_t, st[2], tile.tlo, tile.thi, tile.shift_t)
        S(x) == Masked(x, tile.mask_s, tile.mirror_s)
        T(x) == Masked(x, tile.mask_t, tile.mirror_t)
        t0 == T(Shr(t, 5))
        t1 == T(Shr(t, 5) + 1)
    IN  [s0 |-> S(Shr(s, 5)), s1 |-> S(Shr(s, 5) + 1),
         t0 |-> Low(t0, 8),   t1 |-> Low(t0, 8) + Greater(t1 - t0, -255),
         frac |-> <<Low(s, 5), Low(t, 5)>>]
-----------------------------------------------------------------------------
(* sample_texel_*: what TMEM has for a texel.                              *)

\* Where byte x of line t is; only the lower half has texels if limit is half of TMEM.
TexelByte(tile, x, t, limit) == Flip((tile.offset + tile.stride * t + x) % limit, 2, t % 2 = 1)

\* 4, 8 and 16 bits (of 32, too, but for RGBA); the lower half has texels if there is a TLUT.
Direct(tile, tmem, tlut, s, t) ==
    LET limit   == IF tlut THEN TmemBytes \div 2 ELSE TmemBytes
        At(x)   == ByteAt(tmem, TexelByte(tile, x, t, limit))
    IN  CASE tile.size = Bpp4 -> <<Nibbles(At(Shr(s, 1)))[1 + (s % 2)]>>
          [] tile.size = Bpp8 -> Nibbles(At(s))
          [] OTHER -> Nibbles(At(2 * s)) \o Nibbles(At(2 * s + 1))

\* Red and green from the lower half, blue and alpha from the upper half.
Rgba32(tile, tmem, s, t) ==
    LET i == TexelByte(tile, 2 * s, t, TmemBytes \div 2)
        At(j) == Nibbles(ByteAt(tmem, j))
    IN  At(i) \o At(i + 1) \o At(i + TmemBytes \div 2) \o At(i + 1 + TmemBytes \div 2)

\* Chroma, shared by two texels, from the lower half, luma from the upper half.
Yuv16(tile, tmem, s, t, chroma_x) ==
    LET luma   == TexelByte(tile, s, t, TmemBytes \div 2) + TmemBytes \div 2
        chroma == TexelByte(tile, 2 * chroma_x, t, TmemBytes \div 2)
        At(j)  == Nibbles(ByteAt(tmem, j))
    IN  At(chroma) \o At(chroma + 1) \o At(luma)

Texel(tile, tmem, s, t) ==
    CASE tile.fmt = "YUV" -> Yuv16(tile, tmem, s, t, Shr(s, 1))
      [] tile.fmt = "RGBA" /\ tile.size = Bpp32 -> Rgba32(tile, tmem, s, t)
      [] OTHER -> Direct(tile, tmem, FALSE, s, t)

(* With a TLUT, the texel is an index into the upper half, where an entry  *)
(* is there four times: each texel of a footprint reads a bank of its own. *)
(* data[n] is nibble n of RDRAM.                                           *)
Index(tile, tmem, data, s, t) ==
    LET texel == Direct(tile, tmem, TRUE, s, t)
        N(i)  == data[texel[i]]
    IN  IF tile.size = Bpp4 THEN N(1) + 16 * tile.palette ELSE 16 * N(1) + N(2)

\* bank is the lut_offset of sample_texel_*_tlut; upper the upper_lut of sample_texture.
Entry(tile, tmem, data, s, t, bank, upper) ==
    LET e    == 4 * Index(tile, tmem, data, s, t) + bank
        word == IF upper THEN Flip(Flip(e, 0, TRUE), 1, TRUE) ELSE e
        w    == tmem[TmemWords \div 2 + (word % (TmemWords \div 2))]
    IN  Nibbles(w[1]) \o Nibbles(w[2])

(* sample_texture up to the filter: the texels that it reads.  Without a   *)
(* quad there is only the base; t11 is read for a mid texel and for YUV.   *)
FootprintAround(tile, tmem, data, mode, a) ==
    LET frac  == IF mode.sample_quad \/ mode.tlut THEN a.frac ELSE <<0, 0>>
        sum   == frac[1] + frac[2]
        mid   == mode.mid_texel /\ mode.bilerp /\ frac = <<16, 16>>
        upper == sum >= 32 /\ ~mid
        quad  == mode.sample_quad
        s1    == IF mode.tlut /\ ~quad THEN a.s0 ELSE a.s1
        t1    == IF mode.tlut /\ ~quad THEN a.t0 ELSE a.t1
        yuv   == tile.fmt = "YUV" /\ ~mode.tlut
        Read(s, t, bank, chroma) ==
            CASE mode.tlut -> Entry(tile, tmem, data, s, t, bank, sum >= 32)
              [] yuv -> Yuv16(tile, tmem, s, t, chroma)
              [] ~mode.tlut /\ ~yuv -> Texel(tile, tmem, s, t)
        chroma0 == Shr(a.s0, 1)
        chroma1 == Shr(a.s1 + (a.s1 - a.s0), 1)
        \* For YUV, t_base is always t00.
        flip  == upper /\ ~yuv
    IN  [base |-> Read(IF flip THEN s1 ELSE a.s0, IF flip THEN t1 ELSE a.t0,
                       IF upper THEN 3 ELSE 0, chroma0),
         t10  |-> Read(s1, a.t0, 1, chroma1),
         t01  |-> Read(a.s0, t1, 2, chroma0),
         t11  |-> Read(s1, t1, 3, chroma1),
         frac |-> frac,
         chroma_frac |-> 16 * (a.s0 % 2) + Shr(frac[1], 1),
         upper |-> upper, mid |-> mid]
Footprint(tile, tmem, data, mode, st) == FootprintAround(tile, tmem, data, mode, Around(tile, st))
-----------------------------------------------------------------------------
(* The filter, on one channel: texels, and the place between them. *)

Tap3(base, t10, t01, fx, fy) == base + Shr((t10 - base) * fx + (t01 - base) * fy + 16, 5)

\* bilinear_3tap, and the same in sample_texture: the triangle that frac is in.
Bilinear(t00, t10, t01, t11, frac) ==
    IF frac[1] + frac[2] >= 32 THEN Tap3(t11, t10, t01, 32 - frac[2], 32 - frac[1])
                               ELSE Tap3(t00, t10, t01, frac[1], frac[2])

Average(t00, t10, t01, t11) == Shr(t00 + t10 + t01 + t11 + 2, 2)

\* What sample_texture makes of four texels; for YUV, chroma and luma decide for themselves.
Filtered(t00, t10, t01, t11, frac, mode) ==
    IF ~mode.sample_quad /\ ~(mode.tlut /\ mode.bilerp) THEN t00
    ELSE IF ~mode.bilerp THEN IF frac[1] + frac[2] >= 32 THEN t11 ELSE t00
    ELSE IF mode.mid_texel /\ frac = <<16, 16>> THEN Average(t00, t10, t01, t11)
    ELSE Bilinear(t00, t10, t01, t11, frac)

\* texture_convert_factors: from chroma and luma to red, green, blue and alpha.
Converted(texel, factors) ==
    LET t == [i \in 1 .. 3 |-> Signed(texel[i], 9)] IN
    <<t[3] + Shr(factors[1] * t[2] + 128, 8),
      t[3] + Shr(factors[2] * t[1] + factors[3] * t[2] + 128, 8),
      t[3] + Shr(factors[4] * t[1] + 128, 8),
      t[3]>>
-----------------------------------------------------------------------------
(* The copy pipe: sample_texture_copy_word reads one of four words of 16   *)
(* bits, beginning at texel st.                                            *)

CopyWord(tile, tmem, data, tlut, st, n) ==
    LET large   == tile.size = Bpp32
        words   == IF large \/ tlut THEN TmemWords \div 2 ELSE TmemWords
        shamt   == Lesser(tile.size, 2)
        t       == Masked(st[2], tile.mask_t, tile.mirror_t)
        \* A nibble of TMEM, and the word it is in, for texel x.
        At(x)   == Flip((2 * (tile.offset + tile.stride * t)
                         + Shl(Masked(x, tile.mask_s, tile.mirror_s), shamt)) % (2 * TmemBytes),
                        3, t % 2 = 1)
        Word16(x) == LET w == tmem[Shr(At(x), 2) % words] IN Nibbles(w[1]) \o Nibbles(w[2])
        \* Eight bits: the texel, the nibble twice, or the upper byte of 16.
        Byte8(x) == LET w == Word16(x) i == At(x) % 4 IN
                    CASE tile.size = Bpp8 -> IF i >= 2 THEN <<w[3], w[4]>> ELSE <<w[1], w[2]>>
                      [] tile.size = Bpp4 -> <<w[i + 1], w[i + 1]>>
                      [] OTHER -> <<w[1], w[2]>>
        Index16(x) == LET w == Word16(x) i == At(x) % 4 IN
                      IF tile.size = Bpp4 THEN data[w[i + 1]] + 16 * tile.palette
                      ELSE IF i >= 2 THEN 16 * data[w[3]] + data[w[4]]
                                     ELSE 16 * data[w[1]] + data[w[2]]
        Lut(e)  == LET w == tmem[TmemWords \div 2 + (e % (TmemWords \div 2))] IN
                   Nibbles(w[1]) \o Nibbles(w[2])
    IN  IF n < 2 /\ tile.size # Bpp16 /\ ~tlut
        THEN Byte8(st[1] + 2 * n) \o Byte8(st[1] + 2 * n + 1)
        ELSE IF tlut THEN Lut(4 * Index16(st[1] + n) + n)
        ELSE Word16(st[1] + n)

\* sample_texture_copy for a framebuffer of 8 or 16 bits; n is the pixel of the four or eight.
CopyPixel(tile, tmem, data, tlut, fb_size, st, n) ==
    LET at(c, lo, shift) == Shr(Shifted(c, shift) - 8 * lo, 5)
        place == <<at(st[1], tile.slo, tile.shift_s), at(st[2], tile.tlo, tile.shift_t)>>
        word  == CopyWord(tile, tmem, data, tlut, place, IF fb_size = 1 THEN n \div 2 ELSE n)
    IN  CASE fb_size = 0 -> <<>>
          [] fb_size = 1 -> SubSeq(word, 1 + 2 * (n % 2), 2 + 2 * (n % 2))
          [] OTHER -> word
=============================================================================
