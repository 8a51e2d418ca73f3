----------------------------- MODULE VideoInterface ---------------------------
(***************************************************************************)
(* The three parts of the video interface side by side: the registers of   *)
(* the scanlines, the images kept from frame to frame, and the making of   *)
(* one picture.  They meet in scanout() only, which passes the registers   *)
(* on and is told by the decoded registers which exit it takes; `part`     *)
(* says which of them a behaviour is about.                                *)
(***************************************************************************)
EXTENDS ScanlineRegisters, ScanoutImages, ScanoutStages

VARIABLES
    part,
    job                         \* the picture that is made

NoJob == [of |-> "none"]
-----------------------------------------------------------------------------
(* Frames: the corners of the picture, and beyond, in both standards.      *)

SmallNTSC == [offset |-> 2, res |-> 4, max_rows |-> 4, h_offset |-> 2]
SmallPAL == [offset |-> 4, res |-> 8, max_rows |-> 4, h_offset |-> 3]

Info(x_start, x_add, h_start, h_end) ==
    [x_start |-> x_start, x_add |-> x_add, h_start |-> h_start, h_end |-> h_end]

Frame(standard, v_start, v_end, y_start, y_add, lines, frame) ==
    [standard |-> standard, v_start |-> v_start, v_end |-> v_end, y_start |-> y_start, y_add |-> y_add,
     lines |-> lines, frame |-> frame, ended |-> lines # <<frame, frame>>, field |-> 0, divot |-> TRUE,
     width |-> 5, origin |-> 17, pixel |-> 2]

WideLine == Info(3, 5, 0, 20)
NarrowLine == Info(0, 2, 6, 11)
DarkLine == Info(0, 0, 0, 0)
Infos == {Info(3, a, h, e) : a \in {2, 4, 7}, h \in {0, 4, 6}, e \in {8, 20}}

\* Pictures whose sources are looked at.
SourceFrame(s, divot, t, v, i, j) ==
    [Frame(t, v[1], v[2], v[3], v[4], <<i, j>>, IF s = v[1] THEN DarkLine ELSE WideLine) EXCEPT
        !.divot = divot \/ i.x_add = 4, !.pixel = IF t = SmallPAL THEN 4 ELSE 2]

SourceJobs ==
    {[of |-> "source", scale |-> s, divot |-> o, regs |-> SourceFrame(s, o, t, v, i, j)] :
        s \in {1, 2}, o \in BOOLEAN, t \in {SmallNTSC, SmallPAL},
        v \in {<<0, 9, 0, 2>>, <<4, 7, 3, 5>>, <<2, 13, 1, 3>>}, i \in Infos, j \in {WideLine, NarrowLine}}

\* Pictures that follow one another.
PictureFrames ==
    {Frame(SmallNTSC, 0, 7, 0, 4, <<WideLine, WideLine>>, WideLine),
     Frame(SmallNTSC, 4, 6, 0, 4, <<WideLine, Info(0, 4, 4, 9)>>, Info(0, 4, 4, 9)),
     [Frame(SmallNTSC, 2, 5, 0, 4, <<Info(0, 4, 4, 9), WideLine>>, WideLine) EXCEPT !.field = 1],
     [Frame(SmallNTSC, 2, 5, 0, 4, <<WideLine, WideLine>>, Info(0, 4, 3, 7)) EXCEPT !.ended = FALSE, !.field = 1],
     Frame(SmallNTSC, 5, 5, 0, 4, <<WideLine, WideLine>>, WideLine)}

PictureJobs ==
    {[of |-> "picture", frames |-> <<a, b, c>>, scale |-> s, serrate |-> i, blend |-> m, crop |-> k] :
        a \in PictureFrames, b \in PictureFrames, c \in PictureFrames, s \in {1, 2}, i \in BOOLEAN,
        m \in BOOLEAN, k \in {<<0, 0, 0, 0>>, <<2, 1, 0, 1>>, <<1, 0, 1, 0>>, <<9, 9, 0, 0>>}}
-----------------------------------------------------------------------------
ViInit ==
    /\ Init /\ LinesInit
    /\ part \in {"lines", "images", "pictures"}
    /\ part # "images" => ~exporting
    /\ part # "lines" => \A r, q \in Register : vi_registers[r] = CHOOSE v \in Value : TRUE
    /\ job = NoJob

ScanLines == /\ part = "lines" /\ LinesNext
             /\ UNCHANGED <<part, job, vars>>
ShowFrames == /\ part = "images" /\ Next
              /\ UNCHANGED <<part, job, lineVars>>
MakePicture == /\ part = "pictures" /\ job = NoJob
               /\ job' \in {j \in SourceJobs : ~Invisible(j.regs)} \union PictureJobs
               /\ UNCHANGED <<part, lineVars, vars>>

ViNext == ScanLines \/ ShowFrames \/ MakePicture
ViSpec == ViInit /\ [][ViNext]_<<part, job, lineVars, vars>>
-----------------------------------------------------------------------------
\* The pixels that are drawn, in pixels of the frame without a crop.
DrawnAt(regs, s) ==
    {p \in (0 .. ScanWidth * s - 1) \X (0 .. Decoded(regs).v_res * s - 1) :
        LET l == LineOf(regs, Decoded(regs).v_start + p[2] \div s)
        IN  p[1] \in l.h_start_clamp * s .. l.h_end_clamp * s - 1}

\* X(sample) = XStart + XAdd * (X - HStart), and the same for Y, for columns
\* and rows of the picture.
SampledX(regs, info, s, x) ==
    info.x_start * s + info.x_add * (x - (info.h_start - regs.standard.h_offset) * s)
SampledY(regs, s, y) ==
    regs.y_start * s + regs.y_add * (y - ((regs.v_start - regs.standard.offset) \div 2) * s)

\* A sample and its right and lower neighbours, each seen through the filters.
FullReach == {<<i + n[1] + m, j + n[2]>> : i \in {0, 1}, j \in {0, 1}, n \in Around(0), m \in -1 .. 1}
PlainReach == {<<i + n[1], j + n[2]>> : i \in {0, 1}, j \in {0, 1}, n \in Around(0)}
Reach(divot) == IF divot THEN FullReach ELSE PlainReach

\* An upscaled picture of lines that the frame itself would not show.
Forgotten(regs, s) == s > 1 /\ Invisible([regs EXCEPT !.ended = FALSE])

(* Every pixel that is drawn is made from the neighbourhood of its sample  *)
(* in VRAM, wherever the lines start and end: no stage reads outside of    *)
(* the image that the stage before it has made (vram_fetch_stage,          *)
(* aa_fetch_stage, divot_stage and their sizes), and the memory that       *)
(* scanout_memory_range has announced covers it all.  (Not for an upscaled *)
(* picture whose frame, without its lines, is Invisible: the registers of  *)
(* the lines are cleared before the range is asked for the second time.)   *)
ScanoutReadsRange ==
    job.of = "source" =>
        LET r == job.regs
            s == job.scale
            divot == r.divot /\ job.divot
        IN  \A p \in DrawnAt(r, s) :
                LET row == Decoded(r).v_start + p[2] \div s
                    x == SampledX(r, InfoOf(r, row), s, p[1]) \div One
                    y == SampledY(r, s, p[2] + Decoded(r).v_start * s) \div One
                    print == Footprint(r, job, s, p[1], p[2])
                IN  /\ print \subseteq {<<x + n[1], y + n[2]>> : n \in Reach(divot)}
                    /\ NextSlice(r, s, p[2]) = 0 => print = {<<x + n[1], y + n[2]>> : n \in Reach(divot)}
                    /\ ~Forgotten(r, s) => {ByteOf(r, s, c) : c \in print} \subseteq Current(r, s)

\* What is drawn of a frame and where it lets an earlier one persist: beside
\* its rows between the outer guard bands, above and below them between its
\* outer edges.  With a crop at the top the lowest lines are left out.
Draws(r, o, at) ==
    LET row == at[2] \div (o.scale * Doubled(o))
        l == LineOf(r, row)
    IN  /\ row \in RowsOf(r)
        /\ at[1] \div o.scale \in l.h_start_clamp .. l.h_end_clamp - 1
        /\ o.serrate => (at[2] - Decoded(r).v_start * o.scale * 2) % 2 = r.field

Yields(r, o, at) ==
    LET d == Decoded(r)
        row == at[2] \div (o.scale * Doubled(o))
        x == at[1] \div o.scale
    IN  IF row \in RowsOf(r) THEN x \in d.h_start_clamp .. d.h_start_clamp + d.h_res_clamp - 1
        ELSE /\ x \in d.h_start .. d.h_start + d.h_res - 1
             /\ row >= d.v_start \/ d.v_res <= 0 => at[2] < PictureSize(r, o)[2]

IsWindow(shown3) ==
    LET c == Crop(job)
    IN  \A p \in DOMAIN shown3 :
            LET at == <<p[1] + c[1], p[2] + c[3]>>
            IN  shown3[p] = IF Draws(job.frames[3], job, at) THEN "now"
                            ELSE IF /\ job.blend /\ Yields(job.frames[3], job, at)
                                    /\ Draws(job.frames[2], job, at) THEN "before"
                            ELSE "clear"

(* A picture shows what its frame draws, then what the frame before it     *)
(* drew there, where it is blended in, and nothing older: a persistent     *)
(* pixel does not propagate more than one frame, so that two fields weave  *)
(* into one picture.  And a crop shows a window of the same picture.       *)
PictureIsWindow ==
    job.of = "picture" =>
        IsWindow(Picture(job.frames[3], job,
                    Picture(job.frames[2], job, Picture(job.frames[1], job, NoPicture))))
=============================================================================
