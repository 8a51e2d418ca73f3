--------------------------------- MODULE Texels --------------------------------
(***************************************************************************)
(* TMEM from the load to the filter, on chosen inputs: the loads of        *)
(* TmemUpload against what the RDP does, and the texels that TextureFetch  *)
(* finds against the image in RDRAM.                                       *)
(***************************************************************************)
EXTENDS TextureFetch

\* Texture coordinates, in 1/32 of a texel, and values of a channel of a texel.
Coordinates == {-100, 0, 16, 47, 64, 80, 95, 144, 176, 208, 319, 340}
Values == {0, 3, 100, 255}

VARIABLE job            \* what is computed

Nothing == [of |-> "nothing"]
Empty == [i \in Word |-> Untouched]
-----------------------------------------------------------------------------
(* Loads. *)

Metas == {m \in [fmt : {"RGBA", "YUV"}, size : Bpp4 .. Bpp32, offset : {0, 24},
                 stride : {0, 8, 16, 24}] : m.fmt = "YUV" => m.size = Bpp16}

TileLoads == [mode : {"Tile"}, size : Bpp8 .. Bpp32, tex_addr : {3}, tex_width : {5, 16},
              slo : {0, 8}, shi : {8, 20, 40, 60}, tlo : {0}, thi : {4, 12, 32}]
BlockLoads == [mode : {"Block"}, size : Bpp8 .. Bpp32, tex_addr : {0}, tex_width : {16},
               slo : {0, 2}, shi : {3, 11, 31}, tlo : {1}, thi : {0, 300, 683, 1024, 2048}]
PaletteLoads == [mode : {"TLUT"}, size : Bpp8 .. Bpp32, tex_addr : {4}, tex_width : {16},
                 slo : {0, 8}, shi : {4, 32, 60}, tlo : {4}, thi : {4}]
EmptyLoads == [mode : {"Tile", "Block"}, size : {Bpp16}, tex_addr : {0}, tex_width : {16},
               slo : {0}, shi : {4 * 2047, 16383}, tlo : {4}, thi : {0}]
Loads == TileLoads \union BlockLoads \union PaletteLoads \union EmptyLoads

(* Loads that load_tile does not get right, or not at all: those it refuses*)
(* (they would crash an RDP or have no use); tiles with lines longer than  *)
(* it estimates; loads around TMEM in a single line; and blocks of texels  *)
(* in two halves with an odd number of fetches.                            *)
Refused(meta, info) == LoadTile(meta, info) = <<>> /\ ~Noop(info)
LineBytes(meta, info) ==
    LET width == Span(Whole(info.slo), Whole(info.shi)) IN
    2 * Shl(TmemWidth(meta, width), IF Halves(meta) THEN 1 ELSE 0)
Underestimated(meta, info) ==
    /\ info.mode = "Tile"
    /\ \/ BytesPerLine(meta, info) < LineBytes(meta, info)
       \/ BytesPerLine(meta, info) < Shl(meta.stride, IF meta.size = Bpp32 THEN 1 ELSE 0)
FetchCount(info) == (Span(info.slo, info.shi) + Step(info) - 1) \div Step(info)
Around1Line(meta, info) ==
    \/ /\ info.mode = "TLUT"
       /\ LET k == IF info.size = Bpp16 THEN Span(Whole(info.slo), Whole(info.shi)) - 1
                   ELSE (Span(Whole(info.slo), Whole(info.shi)) - 1) \div Step(info)
          IN  4 * Shr(Shl(k * Step(info), meta.size), 2) + 4 > TmemWords
    \/ /\ info.mode = "Block"
       /\ LET k == FetchCount(info) - 1 IN
          FetchAt(meta, info, k) + 4 + Shr(k * info.thi, 11) * Shr(meta.stride, 1) >
              IF Halves(meta) THEN HalfWords ELSE TmemWords
OddFetches(meta, info) == info.mode = "Block" /\ Halves(meta) /\ FetchCount(info) % 2 = 1

Exact(meta, info) ==
    ~(Refused(meta, info) \/ Underestimated(meta, info)
      \/ Around1Line(meta, info) \/ OddFetches(meta, info))
-----------------------------------------------------------------------------
(* Framebuffers that may be drawn to, and textures in them. *)

Framebuffers == [addr : {0, 64}, depth_addr : {0, 128}, width : {8}, deduced_height : {0, 1, 3},
                 fmt : {"I4", "I8", "IA88", "RGBA5551", "RGBA8888"},
                 color_write_pending : BOOLEAN, depth_write_pending : BOOLEAN]
-----------------------------------------------------------------------------
(* Textures: an image in RDRAM of 10 x 6 texels, loaded as texels of the   *)
(* size `as`, and the tile that it is drawn with.                          *)

Images == {[fmt |-> "RGBA", size |-> Bpp4, as |-> Bpp8, stride |-> 8],
           [fmt |-> "I", size |-> Bpp4, as |-> Bpp16, stride |-> 8],
           [fmt |-> "IA", size |-> Bpp8, as |-> Bpp8, stride |-> 16],
           [fmt |-> "RGBA", size |-> Bpp16, as |-> Bpp16, stride |-> 24],
           [fmt |-> "RGBA", size |-> Bpp32, as |-> Bpp32, stride |-> 24],
           [fmt |-> "YUV", size |-> Bpp16, as |-> Bpp16, stride |-> 16]}
Modes == {m \in [clamp_s : BOOLEAN, mirror_s : BOOLEAN, mask_s : {0, 3}, mask_t : {0, 2}] :
              m.mirror_s => m.mask_s # 0}

ImageAddr == 16
ImageWidth(image) == IF image.as > image.size THEN 16 ELSE 12
ImageHeight == 5
ImageMeta(image) == [fmt |-> image.fmt, size |-> image.as, offset |-> 0, stride |-> image.stride]
ImageLoad(image) ==
    [mode |-> "Tile", size |-> image.as, tex_addr |-> ImageAddr,
     tex_width |-> Shr(ImageWidth(image), image.as - image.size),
     slo |-> 0, shi |-> 4 * (Shr(ImageWidth(image), image.as - image.size) - 1),
     tlo |-> 0, thi |-> 4 * (ImageHeight - 1)]
Palette == [mode |-> "TLUT", size |-> Bpp16, tex_addr |-> 256, tex_width |-> 16,
            slo |-> 0, shi |-> 60, tlo |-> 0, thi |-> 0]
PaletteMeta == [fmt |-> "RGBA", size |-> Bpp4, offset |-> TmemWords, stride |-> 0]

\* A texel of the image, or <<>> if there is none.
InImage(image, s, t) == s \in 0 .. ImageWidth(image) - 1 /\ t \in 0 .. ImageHeight - 1
ImageTexel(image, s, t) ==
    LET first == 2 * ImageAddr + Shl(t * ImageWidth(image) + s, image.size)
        pair  == ImageAddr + 2 * (t * ImageWidth(image) + AlignDown(s, 2))
    IN  IF image.fmt = "YUV"
        THEN Nibbles(pair) \o Nibbles(pair + 2) \o Nibbles(pair + 1 + 2 * (s % 2))
        ELSE [i \in 1 .. Shl(1, image.size) |-> first + i - 1]

\* Nibbles of RDRAM: different from texel to texel, with indices below 16.
DataOf(image) ==
    [n \in -2 .. 1023 |-> IF image.size # Bpp4 /\ n % 2 = 0 THEN 0
                                                            ELSE (7 * n + (n \div 16)) % 16]

DrawnWith(image, mode) ==
    [fmt |-> image.fmt, size |-> image.size, offset |-> 0, stride |-> image.stride, palette |-> 0,
     slo |-> 8, shi |-> 32, tlo |-> 0, thi |-> 16, shift_s |-> 0, shift_t |-> 15,
     clamp_s |-> mode.clamp_s, clamp_t |-> TRUE, mirror_s |-> mode.mirror_s, mirror_t |-> FALSE,
     mask_s |-> mode.mask_s, mask_t |-> mode.mask_t]

\* The texel that a coordinate in texels means, and how far it is repeated or mirrored.
Repeated(x, mask, mirror) ==
    LET m == 2^mask IN
    IF mask = 0 THEN x
    ELSE IF mirror /\ (x \div m) % 2 = 1 THEN m - 1 - (x % m)
    ELSE x % m
Between(x, last) == IF x < 0 THEN 0 ELSE IF x > last THEN last ELSE x

\* Texels s and s + 1 (t, t + 1) around a coordinate, in the tile of DrawnWith.
Columns(tile, c) ==
    LET x == (c \div 32) - 2
        s == IF tile.clamp_s THEN Between(x, 6) ELSE x
    IN  [i \in 0 .. 1 |-> Repeated(s + i, tile.mask_s, tile.mirror_s)]
Lines(tile, c) ==
    [i \in 0 .. 1 |-> Repeated(Between((2 * c) \div 32, 4) + i, tile.mask_t, FALSE)]
-----------------------------------------------------------------------------
(* One job after the other. *)

TexelInit == job \in {Nothing} \union [of : {"load"}, meta : Metas] \union [of : {"draw"}, image : Images]

Load == /\ job.of = "load"
        /\ \E info \in Loads : job' = [of |-> "loaded", meta |-> job.meta, info |-> info]
Read == /\ job.of = "nothing"
        /\ \E fb \in Framebuffers, addr \in {56 + 4 * i : i \in 0 .. 60} :
               job' = [of |-> "read", fb |-> fb, addr |-> addr]
Draw == /\ job.of = "draw"
        /\ \E mode \in Modes, tlut \in BOOLEAN :
               /\ tlut => job.image.fmt # "YUV" /\ job.image.size # Bpp32
               /\ job' = [of |-> "drawn", image |-> job.image, mode |-> mode, tlut |-> tlut]
Filter == /\ job.of = "nothing"
          /\ \E t00, t10, t01, t11 \in Values :
                 job' = [of |-> "filtered", texels |-> <<t00, t10, t01, t11>>]

TexelNext == Load \/ Read \/ Draw \/ Filter
-----------------------------------------------------------------------------
(* What the threads of the upload shader gather is what the fetches of the *)
(* load scatter: every word of TMEM gets the bytes that the last fetch to  *)
(* it brought, whatever the formats, the lines that overlap and wrap, the  *)
(* slope of a block and the pieces that load_tile cuts a tile into.        *)
UploadIsScatter ==
    job.of = "loaded" /\ Exact(job.meta, job.info) =>
        Uploaded(LoadTile(job.meta, job.info), Empty) = Scatter(job.meta, job.info, Empty)

\* Bytes of the texels that a load is to bring.
TexelBytes(info) ==
    LET block == info.mode = "Block"
        x     == IF block THEN info.slo ELSE Whole(info.slo)
        y     == IF block THEN info.tlo ELSE Whole(info.tlo)
        width == IF block THEN Span(info.slo, info.shi) ELSE Span(Whole(info.slo), Whole(info.shi))
        lines == IF block THEN 1 ELSE Whole(info.thi) - Whole(info.tlo) + 1
    IN  UNION {LET a == info.tex_addr + Shl((y + j) * info.tex_width + x, info.size - 1) IN
               a .. a + Shl(width, info.size - 1) - 1 : j \in 0 .. lines - 1}

(* A texture is read as the program sees RDRAM.  With incoherent RDRAM,    *)
(* load_tile marks every page of it, if it is not as large as all of RDRAM *)
(* (then the pages wrap to none); and if its first byte is in what pending *)
(* primitives draw, they are flushed before.  IA88 is left out: there      *)
(* needs_flush takes bytes for pixels.                                     *)
LoadSeesMemory ==
    /\ job.of = "loaded" /\ ~Noop(job.info) /\ Marked(job.info).size <= PageSize * (NumPages - 1) =>
           {PageOf(a) : a \in TexelBytes(job.info)}
               \subseteq PagesToRead(Marked(job.info).addr, Marked(job.info).size)
    /\ job.of = "read" =>
           LET fb == job.fb
               color == fb.addr .. fb.addr + ColorBytes(fb) - 1
               depth == fb.depth_addr .. fb.depth_addr + DepthBytes(fb) - 1
           IN  \/ fb.color_write_pending /\ fb.fmt # "IA88" /\ job.addr \in color
               \/ fb.depth_write_pending /\ job.addr \in depth
               => NeedsFlush(fb, job.addr)

\* The texels of the image are where the shader looks for them in TMEM.
FoundIn(tmem, image, tile, tlut) ==
    LET Data == DataOf(image)
        Means(s, t) ==
            LET texel == ImageTexel(image, s, t)
                index == IF image.size = Bpp4 THEN Data[texel[1]] ELSE Data[texel[2]]
            IN  IF ~tlut THEN texel
                ELSE LET a == Palette.tex_addr + 2 * index IN Nibbles(a) \o Nibbles(a + 1)
        Is(texel, s, t) == InImage(image, s, t) => texel = Means(s, t)
        \* To the right, chroma is that of the pair of texels two further on.
        IsRight(texel, s0, s1, t) ==
            LET s2 == s0 + 2 * (s1 - s0) IN
            IF image.fmt # "YUV" THEN Is(texel, s1, t)
            ELSE InImage(image, s1, t) /\ InImage(image, s2, t) =>
                     /\ SubSeq(texel, 1, 4) = SubSeq(Means(s2, t), 1, 4)
                     /\ SubSeq(texel, 5, 6) = SubSeq(Means(s1, t), 5, 6)
        Quad(f, s, t) ==
            LET base == IF f.upper /\ image.fmt # "YUV" THEN 1 ELSE 0
            IN  /\ Is(f.base, s[base], t[base])
                /\ Is(f.t01, s[0], t[1])
                /\ IsRight(f.t10, s[0], s[1], t[0]) /\ IsRight(f.t11, s[0], s[1], t[1])
        \* The sizes of frame buffers that it can be copied to.
        Copies == IF tlut \/ (image.size = Bpp16 /\ image.fmt # "YUV") THEN {2}
                  ELSE IF image.size = Bpp8 THEN {1} ELSE {}
        Copied(fb_size, c, d) ==
            \A n \in 0 .. 3 :
                Is(CopyPixel(tile, tmem, Data, tlut, fb_size, <<c, d>>, n),
                   Repeated((c \div 32) - 2 + n, tile.mask_s, tile.mirror_s),
                   Repeated((2 * d) \div 32, tile.mask_t, FALSE))
    IN  \A c, d \in Coordinates :
            /\ Quad(Footprint(tile, tmem, Data,
                              [tlut |-> tlut, sample_quad |-> TRUE, bilerp |-> TRUE, mid_texel |-> c % 32 = 16],
                              <<c, d>>),
                    Columns(tile, c), Lines(tile, d))
            /\ \A fb_size \in Copies : Copied(fb_size, c, d)

(* A texel that is drawn is the texel of the image: after the load, the    *)
(* address that a shader makes of a coordinate leads to the nibbles of the *)
(* texel that the coordinate, repeated, mirrored and clamped, means.  The  *)
(* same of its neighbours in the footprint of the filter, of palette       *)
(* entries with a TLUT, in each of their banks, and of the copy pipe.      *)
FetchFindsTexel ==
    job.of = "drawn" =>
        LET loads == LoadTile(ImageMeta(job.image), ImageLoad(job.image))
                     \o IF job.tlut THEN LoadTile(PaletteMeta, Palette) ELSE <<>>
        IN  FoundIn(Uploaded(loads, Empty), job.image, DrawnWith(job.image, job.mode), job.tlut)

(* The filter neither darkens nor brightens: its result lies between the   *)
(* texels that it is made of, it is a texel where it meets one, and moves  *)
(* by no more than the texels differ from one 1/32 to the next.            *)
FilterInterpolates ==
    job.of = "filtered" =>
        LET t == job.texels
            At(x, y, mid) ==
                Filtered(t[1], t[2], t[3], t[4], <<x, y>>,
                         [sample_quad |-> TRUE, tlut |-> FALSE, bilerp |-> TRUE, mid_texel |-> mid])
            low  == CHOOSE v \in {t[i] : i \in 1 .. 4} : \A i \in 1 .. 4 : v <= t[i]
            high == CHOOSE v \in {t[i] : i \in 1 .. 4} : \A i \in 1 .. 4 : v >= t[i]
        IN  /\ \A x, y \in 0 .. 31 : \A mid \in BOOLEAN : At(x, y, mid) \in low .. high
            /\ At(0, 0, FALSE) = t[1]
            /\ \A x \in 0 .. 30, y \in 0 .. 31 :
                   Magnitude(At(x + 1, y, FALSE) - At(x, y, FALSE)) <= (high - low) \div 16 + 1

(* What a pixel gets of a texture: the texels that it means, and nothing   *)
(* beyond them.                                                            *)
TexturesAreExact == FetchFindsTexel /\ FilterInterpolates
=============================================================================
