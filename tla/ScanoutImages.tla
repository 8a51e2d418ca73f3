----------------------------- MODULE ScanoutImages ----------------------------
(***************************************************************************)
(* VideoInterface::scanout from frame to frame: which image is shown, when *)
(* the image of an earlier frame is shown or blended in, and the layout    *)
(* and the owner that it is taken to have.                                 *)
(***************************************************************************)
EXTENDS Integers

CONSTANTS
    None,           \* no image
    CountLimit,     \* frame_count wraps around here (2^32 in the code)
    MaxAge          \* ages from here on are not told apart

ASSUME CountAssumption == CountLimit \in Nat /\ CountLimit > 4
ASSUME AgeAssumption == MaxAge \in Nat /\ MaxAge > 3

VARIABLES
    exporting,                              \* the frontend exports its images
    frame_count, last_valid_frame_count, previous_frame_blank,
    prev_scanout_image,                     \* None, or what is true of the image
    prev_image_layout, prev_image_is_external,
    shown,                                  \* what the last scanout returned
    used                                    \* history: how it used an earlier image

counters == <<frame_count, last_valid_frame_count>>
prev == <<prev_scanout_image, prev_image_layout, prev_image_is_external>>
vars == <<exporting, counters, previous_frame_blank, prev, shown, used>>

\* Layouts that callers ask for, and the one of foreign exports.
Target == {"read_only", "transfer_src"}
Layout == Target \union {"general"}

Image == [layout : Layout, external : BOOLEAN, age : 0 .. MaxAge, blank : BOOLEAN]
ASSUME NoneAssumption == None \notin Image

Unused == [how |-> "not", image |-> None, layout |-> "undefined", external |-> FALSE]

Init ==
    /\ exporting \in BOOLEAN
    /\ frame_count = 0 /\ last_valid_frame_count = 0 /\ previous_frame_blank = FALSE
    /\ prev_scanout_image = None /\ prev_image_layout = "undefined"
    /\ prev_image_is_external = FALSE
    /\ shown = None /\ used = Unused

Count == frame_count' = (frame_count + 1) % CountLimit
Forget == prev_scanout_image' = None /\ UNCHANGED <<prev_image_layout, prev_image_is_external>>

\* The image that is kept, one scanout later.
Older(image) == [image EXCEPT !.age = IF @ = MaxAge THEN @ ELSE @ + 1]
-----------------------------------------------------------------------------
(* The exits of scanout(), in their order.  blank is VI_CONTROL_TYPE, and  *)
(* target the layout that the caller wants.                                *)

(* vi_offset == 0 *)
NoOrigin ==
    /\ Forget
    /\ shown' = None /\ used' = Unused
    /\ UNCHANGED <<exporting, counters, previous_frame_blank>>

(* The second blank frame in a row. *)
StillBlank ==
    /\ previous_frame_blank
    /\ Count /\ Forget
    /\ shown' = None /\ used' = Unused
    /\ UNCHANGED <<exporting, last_valid_frame_count, previous_frame_blank>>

\* A blank frame forgets what was shown before it.
Kept(blank) == IF blank \/ prev_scanout_image = None THEN None ELSE Older(prev_scanout_image)

\* Mutant: the count that is compared has not been raised.
RecentLate == (frame_count - last_valid_frame_count) % CountLimit < 4
Recent == (frame_count + 1 - last_valid_frame_count) % CountLimit < 4

(* A frame without a visible line: the last one is shown again, for a      *)
(* while, if the frontend asks for it.                                     *)
Invalid(blank, persist, target) ==
    /\ blank => ~previous_frame_blank
    /\ Count
    /\ previous_frame_blank' = blank
    /\ UNCHANGED <<exporting, last_valid_frame_count, prev_image_is_external>>
    /\ LET image == IF persist /\ Recent THEN Kept(blank) ELSE None
           moved == IF image = None THEN None ELSE [image EXCEPT !.layout = target]
       IN  /\ prev_scanout_image' = moved
           /\ shown' = moved
           /\ used' = IF image = None THEN Unused
                      ELSE [how |-> "shown", image |-> image, layout |-> prev_image_layout,
                            external |-> FALSE]
           /\ prev_image_layout' = IF image = None THEN prev_image_layout ELSE target

\* Layout of an image that is released to another device.
Released(target, foreign) == IF foreign THEN "general" ELSE target

\* Mutant: the layout of a foreign export is not remembered.
RememberedAsked(target, foreign) == prev_image_layout' = target
Remembered(target, foreign) ==
    prev_image_layout' = IF exporting THEN Released(target, foreign) ELSE target

(* A valid frame: the earlier image is read, and replaced by the new one.  *)
(* An image may fail to be created; foreign says that exports are not of   *)
(* the opaque type.                                                        *)
Valid(blank, persist, target, foreign, created) ==
    /\ blank => ~previous_frame_blank
    /\ Count
    /\ previous_frame_blank' = blank
    /\ last_valid_frame_count' = frame_count
    /\ LET image == Kept(blank)
           new == IF created THEN [layout |-> IF exporting THEN Released(target, foreign) ELSE target,
                                   external |-> exporting, age |-> 0, blank |-> blank]
                             ELSE None
       IN  /\ shown' = new
           /\ prev_scanout_image' = IF persist /\ exporting THEN None ELSE new
           /\ used' = IF image = None \/ ~created THEN Unused
                      ELSE [how |-> "read", image |-> image, layout |-> prev_image_layout,
                            external |-> prev_image_is_external]
    /\ IF created THEN Remembered(target, foreign) ELSE prev_image_layout' = target
    /\ prev_image_is_external' = exporting
    /\ UNCHANGED exporting
-----------------------------------------------------------------------------
\* "persist_frame_on_invalid_input must be false when using exports."
Persist == IF exporting THEN {FALSE} ELSE BOOLEAN

Next ==
    \/ NoOrigin \/ StillBlank
    \/ \E blank \in BOOLEAN, persist \in Persist, target \in Target :
           \/ Invalid(blank, persist, target)
           \/ \E foreign, created \in BOOLEAN : Valid(blank, persist, target, foreign, created)

Spec == Init /\ [][Next]_vars
-----------------------------------------------------------------------------
(* Types. *)
TypeOK ==
    /\ exporting \in BOOLEAN /\ previous_frame_blank \in BOOLEAN
    /\ frame_count \in 0 .. CountLimit - 1 /\ last_valid_frame_count \in 0 .. CountLimit - 1
    /\ prev_scanout_image \in Image \union {None} /\ shown \in Image \union {None}
    /\ prev_image_layout \in Layout \union {"undefined"} /\ prev_image_is_external \in BOOLEAN

(* Whenever an earlier image is shown again or read, it is in the          *)
(* layout that it is taken to be in and belongs to whom it is taken to     *)
(* belong to, and the assertion of scale_stage holds.                      *)
UsedAsItIs ==
    used.image # None =>
        /\ used.layout = used.image.layout
        /\ used.external = used.image.external
        /\ used.how = "read" /\ ~used.external => used.layout \in Target

(* "Games which strobe the invalid state (but expect the image to persist),*)
(* and games which legitimately render invalid frames for long stretches   *)
(* where a black screen is expected": an image outlives its frame by two   *)
(* others at most, however often frame_count has wrapped around, and a     *)
(* blank frame shows and blends nothing of the frames before it.           *)
PersistsBriefly ==
    /\ shown # None => shown.age <= 2
    /\ used.image # None => used.image.age <= 3
    /\ previous_frame_blank /\ shown # None => shown.blank /\ used.how # "read"
=============================================================================
