------------------------------- MODULE DepthBlend ------------------------------
(***************************************************************************)
(* A pixel of the frame buffer in a pass: loaded from memory when its tile *)
(* starts, drawn over by every primitive that covers it, and stored when   *)
(* the tile ends.  Where one pass ends and the next one starts depends on  *)
(* caches that fill up, and must not show.                                 *)
(*                                                                         *)
(* Memory is bytes, and two hidden bits for every two of them.  A format   *)
(* is "I4", "I8", "RGBA5551", "IA88" or "RGBA8888"; index counts pixels of *)
(* it.  A pixel is the registers of a tile's invocation.                   *)
(***************************************************************************)
EXTENDS Bits, Sequences, TLC

(***************************************************************************)
(* z_encode.h: 18 bits of depth in 14, with more precision far away.       *)
(***************************************************************************)
FindMSB(x) == IF x = 0 THEN -1 ELSE CHOOSE n \in 0 .. 30 : 2^n <= x /\ x < 2^(n + 1)

ZDecompress(z) ==
    LET exponent == z \div 2048
    IN  Shl(z % 2048, Greater(6 - exponent, 0)) + (262144 - Shr(262144, exponent))

ZCompress(z) ==
    LET exponent == ClampTo(17 - FindMSB(Greater(262143 - z, 1)), 0, 7)
    IN  exponent * 2048 + (Shr(z, Greater(6 - exponent, 0)) % 2048)

\* normalize_dzpix and dz_compress of the CPU, for a slope of 16 bits.
NormalizeDzpix(dz) == IF dz >= 32768 THEN 32768 ELSE IF dz = 0 THEN 1 ELSE 2^(FindMSB(dz) + 1)
DzCompress(dz) ==
    LET Some(bits) == \E b \in bits : Bit(dz, b)
    IN  (IF Some(8 .. 15) THEN 8 ELSE 0) + (IF Some((4 .. 7) \union (12 .. 15)) THEN 4 ELSE 0)
          + (IF Some({b \in 0 .. 15 : b % 4 >= 2}) THEN 2 ELSE 0) + (IF Some({b \in 0 .. 15 : b % 2 = 1}) THEN 1 ELSE 0)

\* build_derived_attributes: what a primitive's depth slopes, or the primitive depth, make of dz.
Dzpix(dzdx, dzdy) ==
    LET Size(d) == IF d < 0 THEN (-d - 1) % 32768 ELSE d
    IN  NormalizeDzpix(Size(dzdx) + Size(dzdy))

(***************************************************************************)
(* depth_test.h.  combine_dz rounds down to a power of two; precision is   *)
(* the exponent of the depth in memory.                                    *)
(***************************************************************************)
CombineDz(a, b) ==          \* of a | b
    IF a = 0 /\ b = 0 THEN 0 ELSE 2^(Greater(FindMSB(a), FindMSB(b)))

MemoryDz(dz, precision) ==
    IF precision >= 3 THEN 2^dz
    ELSE IF dz = 15 THEN 65535 ELSE Greater(2^(dz + 1), Shr(16, precision))

(* Whether the primitive passes, whether and how it blends, and the        *)
(* coverage that is left of it.                                            *)
DepthTest(prim, pixel, coverage, memory_coverage) ==
    LET memory_z  == ZDecompress(pixel.depth)
        precision == Shr(pixel.depth, 11) % 16
        coplanar  == precision < 3 /\ pixel.dz = 15
        dz        == CombineDz(prim.dz, MemoryDz(pixel.dz, precision))
        farther   == coplanar \/ prim.z + 8 * dz >= memory_z
        nearer    == coplanar \/ prim.z - 8 * dz <= memory_z
        front     == prim.z < memory_z
        max_z     == memory_z = 262143
        overflow  == coverage + memory_coverage >= 8
        solid     == max_z \/ (IF overflow THEN front ELSE nearer)
        intersects == prim.z_mode = "interpenetrating" /\ front /\ farther /\ overflow
        shift     == Greater(FindMSB(dz % 65536), 0)
        steps     == (Shr(memory_z, shift) - Shr(prim.z, shift)) % 16
        dzc       == DzCompress(prim.dz)
        blends(ok) == prim.force_blend \/ (~overflow /\ prim.aa /\ ok)
    IN  IF ~prim.z_compare
        THEN [pass |-> TRUE, coverage |-> coverage, blend_en |-> blends(TRUE), wrap |-> overflow,
              shift |-> <<0, Lesser(15 - dzc, 4)>>]
        ELSE [pass |-> CASE prim.z_mode = "opaque" -> solid
                         [] prim.z_mode = "interpenetrating" -> intersects \/ solid
                         [] prim.z_mode = "transparent" -> front \/ max_z
                         [] prim.z_mode = "decal" -> farther /\ nearer /\ ~max_z,
              coverage |-> IF intersects THEN Lesser(Shr(steps * coverage, 3), 8) ELSE coverage,
              blend_en |-> blends(farther), wrap |-> overflow,
              shift |-> <<ClampTo(dzc - pixel.dz, 0, 4), ClampTo(pixel.dz - dzc, 0, 4)>>]

(***************************************************************************)
(* Memory: read and written in big-endian units of the format.             *)
(***************************************************************************)
Read16(mem, i) == mem.bytes[2 * i] * 256 + mem.bytes[2 * i + 1]
Put(mem, values, hidden) ==
    [bytes  |-> [a \in DOMAIN mem.bytes |-> IF a \in DOMAIN values THEN values[a] ELSE mem.bytes[a]],
     hidden |-> [h \in DOMAIN mem.hidden |-> IF h \in DOMAIN hidden THEN hidden[h] ELSE mem.hidden[h]],
     mask   |-> mem.mask \union DOMAIN values]
Bytes16(i, word) == (2 * i :> word \div 256) @@ (2 * i + 1 :> word % 256)
Low2(bit) == 3 * (bit % 2)
Top5(x) == AlignDown(x, 8)

LoadColor(fmt, mem, i) ==
    CASE fmt \in {"I4", "I8"} -> LET b == mem.bytes[i] IN <<b, b, b, mem.hidden[i \div 2]>>
      [] fmt = "RGBA5551" ->
             LET w == Read16(mem, i)
             IN  <<Top5(w \div 256), Top5((w \div 8) % 256), Top5((w * 4) % 256), mem.hidden[i] * 32 + ((w % 2) * 128)>>
      [] fmt = "IA88" -> LET w == Read16(mem, i) IN <<w \div 256, w \div 256, w \div 256, w % 256>>
      [] fmt = "RGBA8888" -> [k \in 1 .. 4 |-> mem.bytes[4 * i + k - 1]]

LoadDepth(mem, i) == [depth |-> Shr(Read16(mem, i), 2), dz |-> mem.hidden[i] + ((Read16(mem, i) % 4) * 4)]

InitTile(fmt, mem, index, depth_index) ==
    LET d == LoadDepth(mem, depth_index)
    IN  [color |-> LoadColor(fmt, mem, index), depth |-> d.depth, dz |-> d.dz,
         color_dirty |-> FALSE, depth_dirty |-> FALSE]

StoreColor(fmt, mem, i, c) ==
    CASE fmt = "I4" -> Put(mem, i :> 0, IF i % 2 = 1 THEN i \div 2 :> c[4] ELSE <<>>)
      [] fmt = "I8" -> Put(mem, i :> c[1], IF i % 2 = 1 THEN i \div 2 :> Low2(c[1]) ELSE <<>>)
      [] fmt = "RGBA5551" ->
             LET cov == c[4] \div 32
             IN  Put(mem, Bytes16(i, Top5(c[1]) * 256 + Top5(c[2]) * 8 + Top5(c[3]) \div 4 + cov \div 4), i :> cov % 4)
      [] fmt = "IA88" -> Put(mem, Bytes16(i, c[1] * 256 + c[4]), i :> Low2(c[4]))
      [] fmt = "RGBA8888" -> Put(mem, [a \in 4 * i .. 4 * i + 3 |-> c[a - (4 * i) + 1]],
                                 (2 * i :> Low2(c[2])) @@ (2 * i + 1 :> Low2(c[4])))

StoreDepth(mem, i, pixel) == Put(mem, Bytes16(i, (pixel.depth * 4 + (pixel.dz \div 4)) % 65536), i :> pixel.dz % 4)

FinishTile(fmt, alias, mem, index, depth_index, pixel) ==
    LET colored == IF pixel.color_dirty THEN StoreColor(fmt, mem, index, pixel.color) ELSE mem
    IN  IF pixel.depth_dirty /\ ~alias THEN StoreDepth(colored, depth_index, pixel) ELSE colored

(***************************************************************************)
(* Color and depth at the same address: each write is seen by the other.   *)
(***************************************************************************)
AliasColorToDepth(fmt, pixel) ==
    LET c == pixel.color
        w == c[1] * 256 + c[4]
    IN  CASE fmt = "RGBA5551" -> [pixel EXCEPT !.dz = (c[4] \div 8) + (IF Bit(c[3], 3) /\ ~Bit(c[4], 6) THEN 8 ELSE 0),
                                              !.depth = Top5(c[1]) * 64 + Top5(c[2]) * 2 + Top5(c[3]) \div 16]
          [] fmt = "IA88" -> [pixel EXCEPT !.depth = w \div 4, !.dz = ((w % 4) * 4) + Low2(w)]
          [] OTHER -> pixel

AliasDepthToColor(fmt, pixel) ==
    LET w == pixel.depth * 16 + pixel.dz
    IN  [pixel EXCEPT !.color_dirty = TRUE,
                      !.color = CASE fmt = "RGBA5551" ->
                                       <<Top5((w \div 1024) % 256), Top5((w \div 32) % 256), Top5(w % 256), (w % 8) * 32>>
                                  [] fmt = "IA88" -> <<(w \div 1024) % 256, @[2], @[3], (w \div 4) % 256>>
                                  [] OTHER -> @]

WriteColor(fmt, pixel, c) ==
    [pixel EXCEPT !.color = IF fmt = "I4" THEN <<c[1], c[2], c[3], @[4]>> ELSE c, !.color_dirty = TRUE]

(***************************************************************************)
(* What a primitive does to a pixel.                                       *)
(***************************************************************************)
Color5551(w) == <<Top5((w \div 256) % 256), Top5((w \div 8) % 256), Top5((w % 64) * 4), (w % 2) * 224>>

FillColor(fmt, alias, pixel, index, col) ==
    LET half == Shr(col, ((index + 1) % 2) * 16) % 65536
        byte == Shr(col, (3 - (index % 4)) * 8) % 256
        done == CASE fmt = "RGBA8888" -> WriteColor(fmt, pixel, [k \in 1 .. 4 |-> Shr(col, 32 - 8 * k) % 256])
                  [] fmt = "RGBA5551" -> WriteColor(fmt, pixel, Color5551(half))
                  [] fmt = "IA88" -> WriteColor(fmt, pixel, <<half \div 256, half \div 256, half \div 256, half % 256>>)
                  [] fmt = "I8" -> WriteColor(fmt, pixel, <<byte, byte, byte, byte>>)
                  [] OTHER -> pixel
    IN  IF alias THEN AliasColorToDepth(fmt, done) ELSE done

CopyPipeline(fmt, alias, pixel, word) ==
    LET b    == word % 256
        done == CASE fmt = "I4" -> [pixel EXCEPT !.color = <<0, 0, 0, 0>>, !.color_dirty = TRUE]
                  [] fmt = "I8" -> WriteColor(fmt, pixel, <<b, b, b, b>>)
                  [] fmt = "RGBA5551" -> WriteColor(fmt, pixel, Color5551(word))
                  [] OTHER -> pixel
    IN  IF alias THEN AliasColorToDepth(fmt, done) ELSE done

\* decode_memory_color, the colors and the coverage.
DecodeWhole(fmt, c) == c
DecodeBits(fmt, c) ==
    CASE fmt = "I4" -> <<0, 0, 0, 255>>
      [] fmt = "I8" -> <<c[1], c[1], c[1], 255>>
      [] fmt = "RGBA5551" -> <<Top5(c[1]), Top5(c[2]), Top5(c[3]), c[4]>>
      [] fmt = "IA88" -> <<c[1], c[1], c[1], c[4]>>
      [] OTHER -> c
DecodeMemoryColor(fmt, pixel, image_read) ==
    LET c == DecodeBits(fmt, pixel.color)
    IN  <<c[1], c[2], c[3], IF image_read THEN AlignDown(c[4], 32) ELSE 224>>

(* blender.h, for one of the colors.  The divider is a table, which divides *)
(* except at its edges.                                                    *)
Divider(sum, x) == (x \div sum) % 256

Blender(prim, mode, test, pixel_color, memory, final, k) ==
    LET Chosen(m) == CASE m = "pixel" -> pixel_color[k] [] m = "memory" -> memory[k]
                       [] m = "blend" -> prim.blend_color[k] [] m = "fog" -> prim.fog_color[k]
        a0 == CASE mode.b1 = "pixel" -> pixel_color[4] [] mode.b1 = "fog" -> prim.fog_color[4]
                [] mode.b1 = "shade" -> prim.shade_alpha [] mode.b1 = "zero" -> 0
        a1 == CASE mode.b2 = "inv" -> 255 - a0 [] mode.b2 = "memory" -> memory[4]
                [] mode.b2 = "one" -> 255 [] mode.b2 = "zero" -> 0
        weighs == mode.b2 = "memory"
        s0 == IF weighs THEN AlignDown(Shr(a0 \div 8, test.shift[1]), 4) ELSE a0 \div 8
        s1 == IF weighs THEN AlignDown(Shr(a1 \div 8, test.shift[2]), 4) + 3 ELSE a1 \div 8
        blended == Chosen(mode.a1) * s0 + Chosen(mode.a2) * (s1 + 1)
    IN  CASE final /\ prim.color_on_coverage /\ ~test.wrap -> Chosen(mode.a2)
          [] final /\ ~(prim.color_on_coverage /\ ~test.wrap)
                /\ (~test.blend_en \/ (mode.b1 = "pixel" /\ mode.b2 = "inv" /\ pixel_color[4] = 255)) -> Chosen(mode.a1)
          [] OTHER -> IF ~final \/ prim.force_blend THEN (blended \div 32) % 256
                      ELSE Divider(s0 \div 4 + s1 \div 4 + 1, (blended \div 4) % 2048)

\* dither.h: towards the next of 32 levels.
RgbDither(x, dith) == IF dith >= x % 8 THEN x ELSE IF x > 247 THEN 255 ELSE Top5(x) + 8

BlendCoverage(coverage, memory, blend_en, mode) ==
    CASE mode = "clamp" -> IF blend_en THEN Lesser(7, memory + coverage) ELSE (coverage - 1) % 8
      [] mode = "wrap" -> (coverage + memory) % 8
      [] mode = "zap" -> 7
      [] mode = "save" -> memory

\* The depth after the color has been written.
WriteDepth(fmt, alias, pixel, prim) ==
    LET deep == [pixel EXCEPT !.depth = ZCompress(prim.z), !.dz = DzCompress(prim.dz), !.depth_dirty = TRUE]
    IN  IF prim.z_update THEN (IF alias THEN AliasDepthToColor(fmt, deep) ELSE deep)
        ELSE IF alias THEN AliasColorToDepth(fmt, pixel) ELSE pixel

\* One or two cycles, dithered, and the coverage.
BlendedColor(prim, test, memory) ==
    LET mode  == IF prim.multi_cycle THEN prim.mode1 ELSE prim.mode0
        color == [k \in 1 .. 4 |-> IF prim.multi_cycle /\ k # 4
                                   THEN Blender(prim, prim.mode0, test, prim.combined, memory, FALSE, k)
                                   ELSE prim.combined[k]]
        Dithered(x) == IF prim.dither THEN RgbDither(x, prim.dith) ELSE x
    IN  [k \in 1 .. 4 |->
            IF k = 4 THEN 32 * BlendCoverage(test.coverage, memory[4] \div 32, test.blend_en, prim.coverage_mode)
            ELSE Dithered(Blender(prim, mode, test, color, memory, TRUE, k))]

Blend(fmt, alias, pixel, prim) ==
    LET memory == DecodeMemoryColor(fmt, pixel, prim.image_read)
        test   == DepthTest(prim, pixel, prim.coverage, memory[4] \div 32)
    IN  IF ~test.pass \/ (prim.aa /\ test.coverage = 0) THEN pixel
        ELSE WriteDepth(fmt, alias, WriteColor(fmt, pixel, BlendedColor(prim, test, memory)), prim)
=============================================================================
