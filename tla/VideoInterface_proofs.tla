------------------------- MODULE VideoInterface_proofs ------------------------
(***************************************************************************)
(* An image that outlives its frame: for how long, and in which layout,    *)
(* for every width of the frame counter.  Registers that change from line  *)
(* to line: every row is shown with its own, for every geometry of the two *)
(* standards.  The two side by side, as VideoInterface composes them.  And *)
(* pictures, of any registers: each is a window of what the last frames    *)
(* have drawn, made from memory that was announced.                        *)
(***************************************************************************)
EXTENDS VideoInterface, WellFoundedInduction, TLAPS

-----------------------------------------------------------------------------
(* Counters that wrap around. *)

(* A remainder is determined by any representation of the dividend. *)
LEMMA RemainderUnique ==
    ASSUME NEW n \in Nat \ {0}, NEW q \in Int, NEW r \in 0 .. n - 1, NEW a \in Int,
           a = q * n + r
    PROVE  a % n = r
<1>1. (q * n + r) % n = r
  OBVIOUS
<1>. QED BY <1>1

(* The distance from y to x on a circle. *)
LEMMA Distance ==
    ASSUME NEW x \in 0 .. CountLimit - 1, NEW y \in 0 .. CountLimit - 1
    PROVE  (x - y) % CountLimit = IF x >= y THEN x - y ELSE x - y + CountLimit
<1>. CountLimit \in Nat \ {0}
  BY CountAssumption
<1>1. CASE x >= y
  <2>1. x - y \in 0 .. CountLimit - 1 /\ x - y = 0 * CountLimit + (x - y)
    BY <1>1
  <2>. QED BY <1>1, <2>1, RemainderUnique
<1>2. CASE x < y
  <2>1. /\ x - y + CountLimit \in 0 .. CountLimit - 1
        /\ x - y = (-1) * CountLimit + (x - y + CountLimit)
    BY <1>2
  <2>2. (x - y) % CountLimit = x - y + CountLimit
    BY <2>1, RemainderUnique
  <2>. QED BY <1>2, <2>2
<1>. QED BY <1>1, <1>2

(* The counter, one frame later. *)
LEMMA NextCount ==
    ASSUME NEW x \in 0 .. CountLimit - 1
    PROVE  /\ (x + 1) % CountLimit \in 0 .. CountLimit - 1
           /\ (x + 1) % CountLimit = IF x = CountLimit - 1 THEN 0 ELSE x + 1
<1>. CountLimit \in Nat \ {0}
  BY CountAssumption
<1>1. CASE x = CountLimit - 1
  <2>1. 0 \in 0 .. CountLimit - 1 /\ x + 1 = 1 * CountLimit + 0
    BY <1>1
  <2>2. (x + 1) % CountLimit = 0
    BY <2>1, RemainderUnique
  <2>. QED BY <1>1, <2>2
<1>2. CASE x < CountLimit - 1
  <2>1. x + 1 \in 0 .. CountLimit - 1 /\ x + 1 = 0 * CountLimit + (x + 1)
    BY <1>2
  <2>2. (x + 1) % CountLimit = x + 1
    BY <2>1, RemainderUnique
  <2>. QED BY <1>2, <2>1, <2>2
<1>. QED BY <1>1, <1>2

(* A frame makes the distance greater by one, unless it was the greatest. *)
LEMMA DistanceGrows ==
    ASSUME NEW x \in 0 .. CountLimit - 1, NEW y \in 0 .. CountLimit - 1,
           (x - y) % CountLimit < CountLimit - 1
    PROVE  /\ (((x + 1) % CountLimit) - y) % CountLimit = ((x - y) % CountLimit) + 1
           /\ (x + 1 - y) % CountLimit = ((x - y) % CountLimit) + 1
<1>. CountLimit \in Nat \ {0}
  BY CountAssumption
<1>. DEFINE z == (x + 1) % CountLimit
            d == (x - y) % CountLimit
<1>1. z \in 0 .. CountLimit - 1 /\ z = IF x = CountLimit - 1 THEN 0 ELSE x + 1
  BY NextCount
<1>2. d = IF x >= y THEN x - y ELSE x - y + CountLimit
  BY Distance
<1>3. (z - y) % CountLimit = IF z >= y THEN z - y ELSE z - y + CountLimit
  BY <1>1, Distance
<1>4. (z - y) % CountLimit = d + 1
  BY <1>1, <1>2, <1>3
<1>5. (x + 1 - y) % CountLimit = d + 1
  <2>1. d + 1 \in 0 .. CountLimit - 1
    BY <1>2
  <2>2. CASE x >= y
    <3>1. x + 1 - y = 0 * CountLimit + (d + 1)
      BY <1>2, <2>2
    <3>. QED BY <2>1, <3>1, RemainderUnique
  <2>3. CASE x < y
    <3>1. x + 1 - y = (-1) * CountLimit + (d + 1)
      BY <1>2, <2>3
    <3>. QED BY <2>1, <3>1, RemainderUnique
  <2>. QED BY <2>2, <2>3
<1>. QED BY <1>4, <1>5

(* Right after a valid frame the distance to it is one. *)
LEMMA DistanceOne ==
    ASSUME NEW x \in 0 .. CountLimit - 1
    PROVE  (((x + 1) % CountLimit) - x) % CountLimit = 1
<1>1. (x - x) % CountLimit = 0
  BY Distance
<1>2. (x - x) % CountLimit < CountLimit - 1
  BY <1>1, CountAssumption
<1>. QED BY <1>1, <1>2, DistanceGrows
-----------------------------------------------------------------------------
(* The inductive invariant.  What is remembered beside the image describes *)
(* it, and its age is what the two counters say, which is what bounds it.  *)

Distant == (frame_count - last_valid_frame_count) % CountLimit

(* The image that is kept, and what is remembered of it. *)
KeptInv ==
    prev_scanout_image # None =>
        /\ prev_image_layout = prev_scanout_image.layout
        /\ prev_image_is_external = prev_scanout_image.external
        /\ ~prev_image_is_external => prev_image_layout \in Target
        /\ prev_scanout_image.age <= 2
        /\ Distant = prev_scanout_image.age + 1

(* Only exports are owned by others. *)
OwnerInv == prev_image_is_external => exporting

IInv == TypeOK /\ KeptInv /\ OwnerInv

(* Another image, one scanout older. *)
LEMMA OlderImage ==
    ASSUME NEW image \in Image
    PROVE  /\ Older(image) \in Image
           /\ Older(image).layout = image.layout /\ Older(image).external = image.external
           /\ image.age <= 2 => Older(image).age = image.age + 1
  BY AgeAssumption DEF Older, Image

(* The image of an earlier frame, as a frame finds it. *)
LEMMA KeptImage ==
    ASSUME IInv, NEW blank \in BOOLEAN, Kept(blank) # None
    PROVE  /\ ~blank /\ prev_scanout_image # None
           /\ Kept(blank) \in Image
           /\ Kept(blank).layout = prev_image_layout
           /\ Kept(blank).external = prev_image_is_external
           /\ Kept(blank).age = prev_scanout_image.age + 1
           /\ prev_scanout_image.age \in 0 .. 2
<1>1. ~blank /\ prev_scanout_image # None /\ Kept(blank) = Older(prev_scanout_image)
  BY DEF Kept
<1>2. prev_scanout_image \in Image
  BY <1>1 DEF IInv, TypeOK
<1>3. prev_scanout_image.age \in 0 .. 2
  BY <1>1, <1>2, AgeAssumption DEF IInv, KeptInv, Image
<1>. QED BY <1>1, <1>2, <1>3, OlderImage DEF IInv, KeptInv

(* An image is shown again while it is at most two frames old. *)
LEMMA RecentImage ==
    ASSUME IInv, prev_scanout_image # None
    PROVE  /\ Recent <=> prev_scanout_image.age <= 1
           /\ (((frame_count + 1) % CountLimit) - last_valid_frame_count) % CountLimit
                  = prev_scanout_image.age + 2
<1>1. prev_scanout_image \in Image
  BY DEF IInv, TypeOK
<1>2. prev_scanout_image.age \in 0 .. 2 /\ Distant = prev_scanout_image.age + 1
  BY <1>1, AgeAssumption DEF IInv, KeptInv, Image
<1>3. Distant < CountLimit - 1
  BY <1>2, CountAssumption
<1>4. PICK x \in 0 .. CountLimit - 1 : x = frame_count
  BY DEF IInv, TypeOK
<1>5. PICK y \in 0 .. CountLimit - 1 : y = last_valid_frame_count
  BY DEF IInv, TypeOK
<1>6. (x - y) % CountLimit = Distant
  BY <1>4, <1>5 DEF Distant
<1>7. /\ (((x + 1) % CountLimit) - y) % CountLimit = Distant + 1
      /\ (x + 1 - y) % CountLimit = Distant + 1
  BY <1>3, <1>6, DistanceGrows
<1>8. (frame_count + 1 - last_valid_frame_count) % CountLimit = prev_scanout_image.age + 2
  BY <1>2, <1>4, <1>5, <1>7
<1>9. Recent <=> prev_scanout_image.age <= 1
  BY <1>2, <1>8 DEF Recent
<1>. QED BY <1>2, <1>4, <1>5, <1>7, <1>9
-----------------------------------------------------------------------------
(* Every exit of scanout() preserves the invariant and establishes what is *)
(* shown and used.                                                         *)

ShownInv == UsedAsItIs /\ PersistsBriefly

(* Initially nothing is kept and nothing is shown. *)
LEMMA InitEstablishes ==
    ASSUME Init
    PROVE  IInv /\ ShownInv
<1>1. TypeOK
  <2>1. 0 \in 0 .. CountLimit - 1
    BY CountAssumption
  <2>2. prev_image_is_external \in BOOLEAN /\ previous_frame_blank \in BOOLEAN
    BY DEF Init
  <2>. QED BY <2>1, <2>2 DEF Init, TypeOK
<1>2. ShownInv
  BY DEF Init, Unused, ShownInv, UsedAsItIs, PersistsBriefly
<1>3. KeptInv /\ OwnerInv
  BY DEF Init, KeptInv, OwnerInv
<1>. QED BY <1>1, <1>2, <1>3 DEF IInv

(* Forgetting the image leaves nothing to describe. *)
LEMMA ForgetPreserves ==
    ASSUME IInv, NoOrigin \/ StillBlank
    PROVE  IInv' /\ ShownInv'
<1>1. /\ prev_scanout_image' = None /\ shown' = None /\ used'.image = None
      /\ UNCHANGED <<exporting, last_valid_frame_count, previous_frame_blank>>
      /\ UNCHANGED <<prev_image_layout, prev_image_is_external>>
  BY DEF NoOrigin, StillBlank, Forget, Unused, counters
<1>2. frame_count' \in 0 .. CountLimit - 1
  <2>1. CASE NoOrigin
    BY <2>1 DEF NoOrigin, counters, IInv, TypeOK
  <2>2. CASE StillBlank
    BY <2>2, NextCount DEF StillBlank, Count, IInv, TypeOK
  <2>. QED BY <2>1, <2>2
<1>3. IInv'
  BY <1>1, <1>2 DEF IInv, TypeOK, KeptInv, OwnerInv
<1>4. ShownInv'
  BY <1>1 DEF ShownInv, UsedAsItIs, PersistsBriefly
<1>. QED BY <1>3, <1>4

(* A frame without a visible line shows the image again, or none. *)
LEMMA InvalidPreserves ==
    ASSUME IInv, NEW blank \in BOOLEAN, NEW persist \in Persist, NEW target \in Target,
           Invalid(blank, persist, target)
    PROVE  IInv' /\ ShownInv'
<1>. DEFINE image == IF persist /\ Recent THEN Kept(blank) ELSE None
            moved == [image EXCEPT !.layout = target]
<1>1. /\ Count /\ previous_frame_blank' = blank
      /\ UNCHANGED <<exporting, last_valid_frame_count, prev_image_is_external>>
  BY DEF Invalid
<1>2. /\ frame_count' \in 0 .. CountLimit - 1 /\ last_valid_frame_count' \in 0 .. CountLimit - 1
      /\ exporting' \in BOOLEAN /\ previous_frame_blank' \in BOOLEAN
      /\ prev_image_is_external' \in BOOLEAN
  BY <1>1, NextCount DEF Count, IInv, TypeOK
<1>3. CASE image = None
  <2>1. /\ prev_scanout_image' = None /\ shown' = None /\ used' = Unused
        /\ prev_image_layout' = prev_image_layout
    BY <1>3 DEF Invalid
  <2>2. IInv'
    BY <1>1, <1>2, <2>1 DEF IInv, TypeOK, KeptInv, OwnerInv
  <2>3. ShownInv'
    BY <2>1 DEF Unused, ShownInv, UsedAsItIs, PersistsBriefly
  <2>. QED BY <2>2, <2>3
<1>4. CASE image # None
  <2>1. /\ prev_scanout_image' = moved /\ shown' = moved /\ prev_image_layout' = target
        /\ used' = [how |-> "shown", image |-> image, layout |-> prev_image_layout,
                    external |-> FALSE]
    BY <1>4 DEF Invalid
  <2>2. persist /\ Recent /\ image = Kept(blank)
    BY <1>4
  <2>3. /\ ~blank /\ prev_scanout_image # None /\ image \in Image
        /\ image.layout = prev_image_layout /\ image.external = prev_image_is_external
        /\ image.age = prev_scanout_image.age + 1 /\ prev_scanout_image.age \in 0 .. 2
    BY <1>4, <2>2, KeptImage
  <2>4. /\ prev_scanout_image.age <= 1 /\ image.age \in 1 .. 2
        /\ (((frame_count + 1) % CountLimit) - last_valid_frame_count) % CountLimit = image.age + 1
    BY <2>2, <2>3, RecentImage
  <2>5. prev_image_is_external = FALSE
    BY <2>2 DEF Persist, IInv, OwnerInv, TypeOK
  <2>. HIDE DEF image
  <2>6. /\ moved \in Image /\ moved.layout = target
        /\ moved.external = image.external /\ moved.age = image.age
    BY <2>3 DEF Image, Layout
  <2>7. Distant' = image.age + 1
    BY <1>1, <2>4 DEF Distant, Count
  <2>8. KeptInv'
    BY <1>1, <2>1, <2>3, <2>4, <2>6, <2>7 DEF KeptInv
  <2>9. IInv'
    BY <1>1, <1>2, <2>1, <2>6, <2>8, NoneAssumption DEF IInv, TypeOK, OwnerInv, Layout
  <2>10. ShownInv'
    <3>1. UsedAsItIs'
      BY <2>1, <2>3, <2>5 DEF UsedAsItIs
    <3>2. PersistsBriefly'
      BY <1>1, <2>1, <2>3, <2>4, <2>6 DEF PersistsBriefly
    <3>. QED BY <3>1, <3>2 DEF ShownInv
  <2>. QED BY <2>9, <2>10
<1>. QED BY <1>3, <1>4

(* A valid frame reads the image, and replaces it by one of its own. *)
LEMMA ValidPreserves ==
    ASSUME IInv, NEW blank \in BOOLEAN, NEW persist \in Persist, NEW target \in Target,
           NEW foreign \in BOOLEAN, NEW created \in BOOLEAN,
           Valid(blank, persist, target, foreign, created)
    PROVE  IInv' /\ ShownInv'
<1>. DEFINE image == Kept(blank)
            layout == IF exporting THEN Released(target, foreign) ELSE target
            fresh == [layout |-> layout, external |-> exporting, age |-> 0, blank |-> blank]
            new == IF created THEN fresh ELSE None
<1>1. /\ Count /\ previous_frame_blank' = blank /\ last_valid_frame_count' = frame_count
      /\ prev_image_is_external' = exporting /\ UNCHANGED exporting
      /\ shown' = new
      /\ prev_scanout_image' = IF persist /\ exporting THEN None ELSE new
  BY DEF Valid
<1>2. prev_image_layout' = IF created THEN layout ELSE target
  BY DEF Valid, Remembered
<1>3. used' = IF image = None \/ ~created THEN Unused
              ELSE [how |-> "read", image |-> image, layout |-> prev_image_layout,
                    external |-> prev_image_is_external]
  BY DEF Valid
<1>4. /\ exporting \in BOOLEAN /\ layout \in Layout /\ target \in Layout
      /\ ~exporting => layout \in Target
  BY DEF IInv, TypeOK, Released, Layout
<1>5. frame_count \in 0 .. CountLimit - 1 /\ frame_count' = (frame_count + 1) % CountLimit
  BY <1>1 DEF Count, IInv, TypeOK
<1>6. frame_count' \in 0 .. CountLimit - 1
  BY <1>5, NextCount
<1>7. Distant' = 1
  <2>1. PICK x \in 0 .. CountLimit - 1 : x = frame_count
    BY <1>5
  <2>2. (((x + 1) % CountLimit) - x) % CountLimit = 1
    BY DistanceOne
  <2>. QED BY <1>1, <1>5, <2>1, <2>2 DEF Distant
<1>. HIDE DEF image, layout
<1>8. fresh \in Image /\ fresh.age = 0 /\ fresh.layout = layout /\ fresh.blank = blank
      /\ fresh.external = exporting
  BY <1>4, AgeAssumption DEF Image
<1>. HIDE DEF fresh
<1>9. CASE ~created
  <2>1. prev_scanout_image' = None /\ shown' = None /\ used' = Unused
    BY <1>1, <1>3, <1>9
  <2>2. prev_image_layout' = target
    BY <1>2, <1>9
  <2>3. IInv'
    BY <1>1, <1>4, <1>5, <1>6, <2>1, <2>2 DEF IInv, TypeOK, KeptInv, OwnerInv
  <2>4. ShownInv'
    BY <2>1 DEF Unused, ShownInv, UsedAsItIs, PersistsBriefly
  <2>. QED BY <2>3, <2>4
<1>10. CASE created
  <2>1. shown' = fresh /\ prev_scanout_image' \in {None, fresh} /\ prev_image_layout' = layout
    BY <1>1, <1>2, <1>10
  <2>2. fresh # None
    BY <1>8, NoneAssumption
  <2>3. TypeOK'
    BY <1>1, <1>4, <1>5, <1>6, <1>8, <2>1 DEF TypeOK
  <2>4. KeptInv'
    BY <1>1, <1>4, <1>7, <1>8, <2>1 DEF KeptInv
  <2>5. OwnerInv'
    BY <1>1 DEF OwnerInv
  <2>6. CASE image = None
    <3>1. used'.image = None /\ used'.how = "not"
      BY <1>3, <2>6 DEF Unused
    <3>2. UsedAsItIs'
      BY <3>1 DEF UsedAsItIs
    <3>3. PersistsBriefly'
      BY <1>1, <1>8, <2>1, <3>1 DEF PersistsBriefly
    <3>. QED BY <2>3, <2>4, <2>5, <3>2, <3>3 DEF IInv, ShownInv
  <2>7. CASE image # None
    <3>1. /\ ~blank /\ image \in Image /\ image.layout = prev_image_layout
          /\ image.external = prev_image_is_external
          /\ image.age = prev_scanout_image.age + 1 /\ prev_scanout_image.age \in 0 .. 2
      BY <2>7, KeptImage DEF image
    <3>2. ~prev_image_is_external => prev_image_layout \in Target
      BY <2>7, KeptImage DEF image, IInv, KeptInv
    <3>3. /\ used'.image = image /\ used'.layout = prev_image_layout
          /\ used'.external = prev_image_is_external
      BY <1>3, <1>10, <2>7
    <3>4. UsedAsItIs'
      BY <3>1, <3>2, <3>3 DEF UsedAsItIs
    <3>5. PersistsBriefly'
      BY <1>1, <1>8, <2>1, <3>1, <3>3 DEF PersistsBriefly
    <3>. QED BY <2>3, <2>4, <2>5, <3>4, <3>5 DEF IInv, ShownInv
  <2>. QED BY <2>6, <2>7
<1>. QED BY <1>9, <1>10

(* The two parts together, in every reachable state. *)
LEMMA Invariance == Spec => [](IInv /\ ShownInv)
<1>1. IInv /\ ShownInv /\ [Next]_vars => (IInv /\ ShownInv)'
  <2>. SUFFICES ASSUME IInv, ShownInv, [Next]_vars PROVE IInv' /\ ShownInv'
    OBVIOUS
  <2>1. CASE NoOrigin \/ StillBlank
    BY <2>1, ForgetPreserves
  <2>2. CASE \E blank \in BOOLEAN, persist \in Persist, target \in Target :
                Invalid(blank, persist, target)
    BY <2>2, InvalidPreserves
  <2>3. CASE \E blank \in BOOLEAN, persist \in Persist, target \in Target :
                \E foreign, created \in BOOLEAN : Valid(blank, persist, target, foreign, created)
    BY <2>3, ValidPreserves
  <2>4. CASE UNCHANGED vars
    BY <2>4 DEF vars, counters, prev, IInv, TypeOK, KeptInv, OwnerInv, Distant,
                ShownInv, UsedAsItIs, PersistsBriefly
  <2>. QED BY <2>1, <2>2, <2>3, <2>4 DEF Next
<1>. QED BY <1>1, InitEstablishes, PTL DEF Spec
-----------------------------------------------------------------------------
(* scanout() keeps its counters, its image and what it remembers of the    *)
(* image within their types, whatever the width of the counters.           *)
THEOREM TypeCorrect == Spec => []TypeOK
  BY Invariance, PTL DEF IInv

(* Whatever sequence of frames precedes it, an earlier image that scanout()*)
(* shows again or blends in is in the layout that the barrier names and    *)
(* belongs to the queue family that it is acquired from.                   *)
THEOREM UsedCorrect == Spec => []UsedAsItIs
  BY Invariance, PTL DEF ShownInv

(* The persisted image is shown for two invalid frames and read by the     *)
(* third at most: the wrap of frame_count never makes an old image recent. *)
(* A blank frame neither shows nor reads an image of another frame.        *)
THEOREM PersistenceBounded == Spec => []PersistsBriefly
  BY Invariance, PTL DEF ShownInv
-----------------------------------------------------------------------------
(* The lines of a frame. *)

\* Lines that were latched for a register, at l or above.
Below(r, l) == {k \in DOMAIN log[r] : k <= l}

(* Arrays have their lengths.  A line is logged once it was latched.       *)
LinesType ==
    /\ DOMAIN vi_registers = Register /\ DOMAIN latched_state = Register
    /\ DOMAIN line_state = Register
    /\ \A r \in Register : DOMAIN line_state[r] = Line
    /\ line \in Line /\ top \in Nat
    /\ ended \in BOOLEAN /\ closed \in BOOLEAN
    /\ \A r \in Register : /\ 0 \in DOMAIN log[r]
                          /\ DOMAIN log[r] \subseteq 0 .. top
                          /\ DOMAIN log[r] \subseteq Line

(* The state follows what was asked for: the counter of the lines is that  *)
(* of the calls, up to the last line that there is, and lines can only be  *)
(* ended on a frame that has registers of its own.                         *)
Followed ==
    /\ setting = latched_state
    /\ closed = ended
    /\ line = Least(top, EndMax - 1)
    /\ ended => flags # {}

(* Every line up to the one that was latched last, all of them after       *)
(* End, holds what the last latch at it or above had set.  The very last   *)
(* line does not: latch_vi_register_for_scanline moves later ones to it.   *)
Recorded ==
    flags # {} =>
        \A r \in Register, l \in Line :
            l < EndMax - 1 /\ (l <= line \/ ended) =>
                line_state[r][l] = log[r][Greatest(Below(r, l))]

LinesInv == LinesType /\ Followed /\ Recorded

LEMMA GeometryFacts ==
    /\ OffsetNTSC \in Nat /\ OffsetPAL \in Nat /\ ResNTSC \in Nat /\ ResPAL \in Nat
    /\ \A x \in {OffsetNTSC, OffsetPAL, ResNTSC, ResPAL} : \E n \in Nat : x = 2 * n
    /\ OffsetNTSC <= OffsetPAL /\ ResNTSC <= ResPAL
    /\ EndMax = OffsetPAL + ResPAL + 1 /\ EndMax \in Nat \ {0} /\ 0 \in Line
    /\ \A l : l \in Line <=> l \in Nat /\ l < EndMax
<1>1. \A x \in {OffsetNTSC, OffsetPAL, ResNTSC, ResPAL} : \E n \in Nat : x = 2 * n
  <2>1. SUFFICES ASSUME NEW x \in {OffsetNTSC, OffsetPAL, ResNTSC, ResPAL}
                 PROVE  \E n \in Nat : x = 2 * n
    OBVIOUS
  <2>2. x \in {2 * n : n \in 0 .. 1000}
    BY GeometryAssumption
  <2>3. PICK n \in 0 .. 1000 : x = 2 * n
    BY <2>2
  <2>. QED BY <2>3
<1>2. /\ OffsetNTSC \in Nat /\ OffsetPAL \in Nat /\ ResNTSC \in Nat /\ ResPAL \in Nat
      /\ OffsetNTSC <= OffsetPAL /\ ResNTSC <= ResPAL
  <2>1. \A x : (\E n \in Nat : x = 2 * n) => x \in Nat
    OBVIOUS
  <2>. QED BY <1>1, <2>1, GeometryAssumption
<1>3. EndMax = OffsetPAL + ResPAL + 1
  BY DEF EndMax, EndOf, PAL
<1>4. EndMax \in Nat \ {0}
  BY <1>2, <1>3
<1>5. 0 \in Line /\ \A l : l \in Line <=> l \in Nat /\ l < EndMax
  BY <1>4 DEF Line
<1>. QED BY <1>1, <1>2, <1>3, <1>4, <1>5

LEMMA LineFacts ==
    EndMax \in Nat \ {0} /\ 0 \in Line /\ \A l : l \in Line <=> l \in Nat /\ l < EndMax
  BY GeometryFacts

(* A set of lines with a line has a last one. *)
LEMMA GreatestIsLast ==
    ASSUME NEW n \in Nat, NEW S \in SUBSET (0 .. n), S # {}
    PROVE  Greatest(S) \in S /\ \A k \in S : k <= Greatest(S)
<1>. DEFINE T == {n - i : i \in S}
<1>1. T \subseteq Nat /\ T # {}
  <2>1. \A i \in S : i \in 0 .. n
    OBVIOUS
  <2>2. \A i \in S : n - i \in Nat
    BY <2>1
  <2>. QED BY <2>2
<1>2. \E x \in T : \A y \in T : ~ (<<y, x>> \in OpToRel(<, Nat))
  BY <1>1, WFMin, NatLessThanWellFounded, Zenon
<1>3. PICK i \in S : \A y \in T : ~ (<<y, n - i>> \in OpToRel(<, Nat))
  BY <1>2
<1>4. ASSUME NEW j \in S PROVE j <= i
  <2>1. n - j \in T /\ n - j \in Nat /\ n - i \in Nat
    OBVIOUS
  <2>2. ~ (n - j < n - i)
    BY <1>3, <2>1 DEF OpToRel
  <2>. QED BY <2>2
<1>. QED BY <1>4 DEF Greatest

(* The last line of a set is known when it is seen. *)
LEMMA GreatestUnique ==
    ASSUME NEW S \in SUBSET Nat, NEW m \in S, \A k \in S : k <= m
    PROVE  Greatest(S) = m
<1>1. \A m2 \in S : (\A k \in S : k <= m2) => m2 = m
  OBVIOUS
<1>. QED BY <1>1 DEF Greatest

(* Whatever is in VStart, no row is shown with the registers of a line     *)
(* outside of line_state, nor with the last one.                           *)
LEMMA RowsLieInLine == \A n \in EffectiveLine : n \in 0 .. EndMax - 2
<1>1. SUFFICES ASSUME NEW s \in {NTSC, PAL}, NEW v \in VStart, NEW e \in VStart,
                      NEW f \in {0, 1}, NEW row \in Rows(s, v, e)
               PROVE  2 * row + s.offset + f \in 0 .. EndMax - 2
  BY DEF EffectiveLine
<1>. v \in Nat /\ e \in Nat
  BY RegisterAssumption
<1>2. PICK h \in Nat, r \in Nat, m \in Nat :
          /\ s.offset = 2 * h /\ s.res = 2 * r /\ s.max_rows = m /\ ResPAL = 2 * m
          /\ s.offset <= OffsetPAL /\ s.res <= ResPAL
  <2>1. PICK x \in Nat, y \in Nat, z \in Nat, w \in Nat :
            OffsetNTSC = 2 * x /\ OffsetPAL = 2 * y /\ ResNTSC = 2 * z /\ ResPAL = 2 * w
    BY GeometryFacts
  <2>2. ResPAL \div 2 = w
    BY <2>1
  <2>3. CASE s = NTSC
    BY <2>1, <2>2, <2>3, GeometryFacts DEF NTSC
  <2>4. CASE s = PAL
    BY <2>1, <2>2, <2>4, GeometryFacts DEF PAL
  <2>. QED BY <2>3, <2>4
<1>. DEFINE end == s.offset + s.res + 1
            first == Least(v, end)
            last == Least(e, end)
<1>3. /\ end \in Nat /\ end = 2 * (h + r) + 1 /\ end <= EndMax
      /\ first \in Nat /\ last \in Nat /\ first <= end /\ last <= end
  <2>1. end \in Nat /\ end = 2 * (h + r) + 1
    BY <1>2
  <2>2. end <= EndMax
    BY <1>2, <2>1, GeometryFacts
  <2>. QED BY <2>1, <2>2 DEF Least
<1>4. /\ FirstRow(s, v) = IF first < s.offset THEN 0 ELSE (first - s.offset) \div 2
      /\ Height(s, v, e) = Least((last - first) \div 2, s.max_rows - FirstRow(s, v))
  BY DEF FirstRow, Height, EndOf
<1>. HIDE DEF first, last, end
<1>5. CASE first < s.offset
  <2>1. FirstRow(s, v) = 0 /\ Height(s, v, e) <= m /\ Height(s, v, e) \in Int
    BY <1>2, <1>3, <1>4, <1>5 DEF Least
  <2>2. row \in 0 .. m - 1
    BY <1>2, <1>3, <1>4, <2>1 DEF Rows
  <2>. QED BY <1>2, <2>2, GeometryFacts
<1>6. CASE ~(first < s.offset)
  <2>. DEFINE a == (first - s.offset) \div 2
              b == (last - first) \div 2
  <2>1. a \in Nat /\ 2 * a <= first - s.offset /\ b \in Int /\ 2 * b <= last - first
    BY <1>2, <1>3, <1>6
  <2>. HIDE DEF a, b
  <2>2. row \in Int /\ a <= row /\ row <= a + b - 1
    BY <1>2, <1>3, <1>4, <1>6, <2>1 DEF Rows, Least, a, b
  <2>3. 2 * (a + b) <= 2 * r + 1 /\ row <= r - 1
    BY <1>2, <1>3, <2>1, <2>2
  <2>4. 0 <= 2 * row + s.offset + f /\ 2 * row + s.offset + f <= end - 2
    BY <1>2, <1>3, <2>1, <2>2, <2>3
  <2>. QED BY <1>2, <1>3, <2>1, <2>2, <2>4, GeometryFacts
<1>. QED BY <1>5, <1>6
-----------------------------------------------------------------------------
(* The invariant. *)

LEMMA LinesInitially == LinesInit => LinesInv
<1>. SUFFICES ASSUME LinesInit PROVE LinesInv
  OBVIOUS
<1>1. \A r \in Register : DOMAIN log[r] = {0}
  BY DEF LinesInit, NoLog
<1>2. LinesType
  <2>1. {0} \subseteq 0 .. 0 /\ {0} \subseteq Line
    BY LineFacts
  <2>2. line = 0 /\ top = 0 /\ DOMAIN vi_registers = Register /\ DOMAIN latched_state = Register
        /\ DOMAIN line_state = Register /\ \A r \in Register : DOMAIN line_state[r] = Line
        /\ ended = FALSE /\ closed = FALSE
    BY DEF LinesInit
  <2>3. \A r \in Register : /\ 0 \in DOMAIN log[r] /\ DOMAIN log[r] \subseteq 0 .. top
                            /\ DOMAIN log[r] \subseteq Line
    BY <1>1, <2>1, <2>2
  <2>4. line \in Line /\ top \in Nat /\ ended \in BOOLEAN /\ closed \in BOOLEAN
    <3>1. ended \in BOOLEAN /\ closed \in BOOLEAN
      BY DEF LinesInit
    <3>2. line = 0 /\ top = 0
      BY DEF LinesInit
    <3>. QED BY <3>1, <3>2, LineFacts
  <2>. QED BY <2>2, <2>3, <2>4 DEF LinesType
<1>3. Followed
  <2>1. Least(0, EndMax - 1) = 0
    BY LineFacts DEF Least
  <2>. QED BY <2>1 DEF Followed, LinesInit
<1>4. Recorded
  BY DEF Recorded, LinesInit
<1>. QED BY <1>2, <1>3, <1>4 DEF LinesInv

(* Lines that repeat the one that was latched last have what was asked for *)
(* them.                                                                   *)
LEMMA FilledIsRecorded ==
    ASSUME LinesInv, flags # {}, NEW r \in Register, NEW stop \in Nat,
           NEW l \in Line, l < stop, l < EndMax - 1
    PROVE  /\ Greatest(Below(r, l)) \in Below(r, l)
           /\ Filled(r, line, stop)[l] = log[r][Greatest(Below(r, l))]
<1>. DEFINE m == Least(l, line)
<1>1. m \in Line /\ m \in Nat /\ m <= line /\ m < EndMax - 1 /\ line \in Nat
  BY LineFacts DEF LinesInv, LinesType, Least
<1>2. Filled(r, line, stop)[l] = line_state[r][m]
  BY <1>1, LineFacts DEF LinesInv, LinesType, Least, Filled
<1>3. Below(r, l) = Below(r, m)
  BY <1>1, LineFacts DEF Below, LinesInv, LinesType, Followed, Least
<1>4. Greatest(Below(r, m)) \in Below(r, m)
  <2>1. Below(r, m) \in SUBSET (0 .. m) /\ 0 \in Below(r, m)
    BY <1>1, LineFacts DEF Below, LinesInv, LinesType
  <2>. QED BY <1>1, <2>1, GreatestIsLast
<1>5. line_state[r][m] = log[r][Greatest(Below(r, m))]
  BY <1>1 DEF LinesInv, Recorded
<1>. QED BY <1>2, <1>3, <1>4, <1>5

(* A line is latched that is logged: the next one of the log.              *)
LEMMA LatchedIsRecorded ==
    ASSUME LinesInv, NEW n \in Nat, Latch(n), flags # {}, top < n, n < EndMax
    PROVE  LinesInv'
<1>1. Least(n, EndMax - 1) = n /\ line = top /\ n \in Line /\ top \in Line /\ top \in Nat
  BY LineFacts DEF LinesInv, LinesType, Followed, Least
<1>2. /\ line_state' = [r \in Register |-> [Filled(r, line, n) EXCEPT ![n] = latched_state[r]]]
      /\ line' = n /\ UNCHANGED <<latched_state, flags, ended, vi_registers, setting, closed>>
      /\ log' = [r \in Register |-> [l \in DOMAIN log[r] \union {n} |->
                                          IF l = n THEN setting[r] ELSE log[r][l]]]
  BY <1>1, LineFacts DEF Latch, LinesInv, LinesType
<1>3. top' = n
  <2>1. top' = Greatest({top, n})
    BY DEF Latch
  <2>2. Greatest({top, n}) = n
    BY <1>1, GreatestUnique DEF LinesInv, LinesType
  <2>. QED BY <2>1, <2>2
<1>4. ASSUME NEW r \in Register
      PROVE  /\ DOMAIN line_state'[r] = Line
             /\ DOMAIN log'[r] = DOMAIN log[r] \union {n}
             /\ \A l \in Line : line_state'[r][l] = IF l = n THEN latched_state[r] ELSE Filled(r, line, n)[l]
             /\ \A l \in DOMAIN log'[r] : log'[r][l] = IF l = n THEN setting[r] ELSE log[r][l]
  BY <1>1, <1>2 DEF Filled
<1>5. LinesType'
  <2>1. ASSUME NEW r \in Register
        PROVE  0 \in DOMAIN log'[r] /\ DOMAIN log'[r] \subseteq 0 .. top' /\ DOMAIN log'[r] \subseteq Line
    BY <1>1, <1>3, <1>4, LineFacts DEF LinesInv, LinesType
  <2>. QED BY <1>1, <1>2, <1>3, <1>4, <2>1 DEF LinesInv, LinesType
<1>6. Followed'
  BY <1>1, <1>2, <1>3, LineFacts DEF LinesInv, LinesType, Followed, Least
<1>7. Recorded'
  <2>1. SUFFICES ASSUME NEW r \in Register, NEW l \in Line, l < EndMax - 1, l <= n
                 PROVE  line_state'[r][l] = log'[r][Greatest(Below(r, l)')]
    <3>1. ~ended'
      BY <1>2 DEF Latch, LinesInv, Followed
    <3>. QED BY <1>2, <3>1 DEF Recorded, Below
  <2>. l \in Nat
    BY LineFacts
  <2>2. CASE l = n
    <3>1. Below(r, l)' \in SUBSET Nat /\ n \in Below(r, l)' /\ \A k \in Below(r, l)' : k <= n
      BY <1>1, <1>4, <1>5, <2>2, LineFacts DEF Below, LinesInv, LinesType
    <3>2. Greatest(Below(r, l)') = n
      BY <3>1, GreatestUnique
    <3>. QED BY <1>4, <2>2, <3>1, <3>2 DEF LinesInv, Followed, Below
  <2>3. CASE l < n
    <3>1. /\ Greatest(Below(r, l)) \in Below(r, l)
          /\ Filled(r, line, n)[l] = log[r][Greatest(Below(r, l))]
      BY <2>1, <2>3, FilledIsRecorded
    <3>2. Below(r, l)' = Below(r, l)
      BY <1>1, <1>4, <2>3 DEF Below
    <3>3. Greatest(Below(r, l)) \in DOMAIN log'[r] /\ Greatest(Below(r, l)) # n
      BY <1>1, <1>4, <2>3, <3>1, LineFacts DEF Below, LinesInv, LinesType
    <3>. QED BY <1>4, <2>3, <3>1, <3>2, <3>3
  <2>. QED BY <1>1, <2>1, <2>2, <2>3, LineFacts
<1>. QED BY <1>5, <1>6, <1>7 DEF LinesInv

(* A call that is not logged: for a line that is not new or not there, or  *)
(* on a frame without registers of its own.                                *)
LEMMA LatchedBesideLog ==
    ASSUME LinesInv, NEW n \in Nat, Latch(n), ~(flags # {} /\ top < n /\ n < EndMax)
    PROVE  LinesInv'
<1>. DEFINE m == Least(n, EndMax - 1)
<1>. line \in Nat /\ top \in Nat /\ m \in Line /\ m \in Nat
  BY LineFacts DEF LinesInv, LinesType, Least
<1>1. /\ log' = log /\ UNCHANGED <<latched_state, flags, ended, vi_registers, setting, closed>>
      /\ ~closed /\ ~ended
  BY LineFacts DEF Latch, LinesInv, LinesType, Followed, state
<1>2. top' \in Nat /\ top' = IF top < n THEN n ELSE top
  <2>1. top' = Greatest({top, n})
    BY DEF Latch
  <2>2. top < n => Greatest({top, n}) = n
    BY GreatestUnique
  <2>3. ~(top < n) => Greatest({top, n}) = top
    BY GreatestUnique
  <2>. QED BY <2>1, <2>2, <2>3
<1>3. CASE m <= line
  <2>1. UNCHANGED <<line_state, line>>
    BY <1>3 DEF Latch, state
  <2>2. line = Least(top', EndMax - 1)
    BY <1>2, <1>3, LineFacts DEF LinesInv, LinesType, Followed, Least
  <2>3. LinesType'
    <3>1. ASSUME NEW r \in Register PROVE DOMAIN log[r] \subseteq 0 .. top'
      BY <1>2 DEF LinesInv, LinesType
    <3>. QED BY <1>1, <1>2, <2>1, <3>1 DEF LinesInv, LinesType
  <2>4. Followed' /\ Recorded'
    BY <1>1, <2>1, <2>2 DEF LinesInv, Followed, Recorded, Below
  <2>. QED BY <2>3, <2>4 DEF LinesInv
<1>4. CASE ~(m <= line)
  <2>1. /\ line_state' = [r \in Register |-> [Filled(r, line, m) EXCEPT ![m] = latched_state[r]]]
        /\ line' = m
    BY <1>4 DEF Latch
  <2>2. m = Least(top', EndMax - 1)
    BY <1>2, <1>4, LineFacts DEF LinesInv, LinesType, Followed, Least
  <2>3. LinesType'
    <3>1. ASSUME NEW r \in Register PROVE DOMAIN log[r] \subseteq 0 .. top' /\ DOMAIN line_state'[r] = Line
      BY <1>2, <2>1 DEF LinesInv, LinesType, Filled
    <3>. QED BY <1>1, <1>2, <2>1, <3>1 DEF LinesInv, LinesType
  <2>4. Followed'
    BY <1>1, <2>1, <2>2 DEF LinesInv, Followed
  <2>5. Recorded'
    <3>1. SUFFICES ASSUME flags # {}, NEW r \in Register, NEW l \in Line, l < EndMax - 1
                   PROVE  line_state'[r][l] = log[r][Greatest(Below(r, l))]
      BY <1>1 DEF Recorded, Below
    <3>2. m = EndMax - 1
      BY <1>4, <3>1, LineFacts DEF LinesInv, LinesType, Followed, Least
    <3>3. line_state'[r][l] = Filled(r, line, m)[l]
      BY <2>1, <3>1, <3>2, LineFacts DEF Filled
    <3>. QED BY <3>1, <3>2, <3>3, FilledIsRecorded
  <2>. QED BY <2>3, <2>4, <2>5 DEF LinesInv
<1>. QED BY <1>3, <1>4

(* Every step keeps the invariant. *)
LEMMA LinesStep == LinesInv /\ [LinesNext]_lineVars => LinesInv'
<1>. SUFFICES ASSUME LinesInv, [LinesNext]_lineVars PROVE LinesInv'
  OBVIOUS
<1>. USE DEF state, asked
<1>1. ASSUME NEW r \in Register, NEW v \in Value, SetRegister(r, v) PROVE LinesInv'
  BY <1>1 DEF SetRegister, LinesInv, LinesType, Followed, Recorded, Below
<1>2. ASSUME NEW r \in Register, NEW v \in Value, SetForScanline(r, v) PROVE LinesInv'
  BY <1>2 DEF SetForScanline, LinesInv, LinesType, Followed, Recorded, Below
<1>3. ASSUME NEW f \in SUBSET Register, Begin(f) PROVE LinesInv'
  <2>1. ASSUME NEW r \in Register
        PROVE  /\ DOMAIN log'[r] = {0} /\ log'[r][0] = vi_registers[r]
               /\ DOMAIN line_state'[r] = Line /\ line_state'[r][0] = vi_registers[r]
    BY <1>3, LineFacts DEF Begin, LinesInv, LinesType
  <2>2. LinesType'
    <3>1. {0} \subseteq 0 .. 0 /\ {0} \subseteq Line
      BY LineFacts
    <3>2. line' = 0 /\ top' = 0 /\ DOMAIN vi_registers' = Register /\ DOMAIN latched_state' = Register
          /\ DOMAIN line_state' = Register /\ ended' = FALSE /\ closed' = FALSE
      BY <1>3 DEF Begin, LinesInv, LinesType
    <3>. QED BY <2>1, <3>1, <3>2, LineFacts DEF LinesType
  <2>3. Followed'
    <3>1. Least(0, EndMax - 1) = 0
      BY LineFacts DEF Least
    <3>2. line' = 0 /\ top' = 0 /\ ended' = FALSE /\ closed' = FALSE /\ setting' = latched_state'
      BY <1>3 DEF Begin
    <3>. QED BY <3>1, <3>2 DEF Followed, EndMax, EndOf, PAL
  <2>4. Recorded'
    <3>1. SUFFICES ASSUME NEW r \in Register
                   PROVE  line_state'[r][0] = log'[r][Greatest(Below(r, 0)')]
      <4>1. \A l \in Line : l <= 0 => l = 0
        BY LineFacts
      <4>2. line' = 0 /\ ended' = FALSE
        BY <1>3 DEF Begin
      <4>. QED BY <4>1, <4>2 DEF Recorded
    <3>2. Below(r, 0)' = {0}
      BY <2>1 DEF Below
    <3>3. Greatest({0}) = 0
      BY GreatestUnique
    <3>. QED BY <2>1, <3>2, <3>3
  <2>. QED BY <2>2, <2>3, <2>4 DEF LinesInv
<1>4. ASSUME NEW n \in 0 .. MaxLine, Latch(n) PROVE LinesInv'
  <2>1. n \in Nat
    BY RegisterAssumption
  <2>. QED BY <1>4, <2>1, LatchedIsRecorded, LatchedBesideLog
<1>5. CASE End
  <2>1. LinesType' /\ Followed'
    BY <1>5 DEF End, LinesInv, LinesType, Followed, Filled
  <2>2. Recorded'
    <3>1. SUFFICES ASSUME flags # {}, NEW r \in Register, NEW l \in Line, l < EndMax - 1
                   PROVE  line_state'[r][l] = log[r][Greatest(Below(r, l))]
      BY <1>5 DEF End, Recorded, Below
    <3>2. line_state'[r][l] = Filled(r, line, EndMax)[l]
      BY <1>5 DEF End
    <3>3. EndMax \in Nat /\ l < EndMax
      BY LineFacts
    <3>. QED BY <3>1, <3>2, <3>3, FilledIsRecorded
  <2>. QED BY <2>1, <2>2 DEF LinesInv
<1>6. CASE Scanout
  <2>1. \A r \in Register : DOMAIN NoLog[r] = {0}
    BY DEF NoLog
  <2>2. LinesType'
    BY <1>6, <2>1, LineFacts DEF Scanout, LinesInv, LinesType
  <2>. QED BY <1>6, <2>2 DEF Scanout, LinesInv, Followed, Recorded
<1>7. CASE UNCHANGED lineVars
  BY <1>7 DEF lineVars, LinesInv, LinesType, Followed, Recorded, Below
<1>. QED BY <1>1, <1>2, <1>3, <1>4, <1>5, <1>6, <1>7 DEF LinesNext

LEMMA ShownFromInv == LinesInv => ShownAsLatched
<1>. SUFFICES ASSUME LinesInv, NEW n \in EffectiveLine PROVE RowOf(n) = WantedOf(n)
  BY DEF ShownAsLatched
<1>1. n \in Line /\ n < EndMax - 1 /\ n \in Nat
  BY RowsLieInLine, LineFacts
<1>2. CASE ended
  <2>1. \A r \in Register : line_state[r][n] = log[r][Greatest(Below(r, n))]
    BY <1>1, <1>2 DEF LinesInv, Followed, Recorded
  <2>. QED BY <1>1, <1>2, <2>1 DEF RowOf, WantedOf, Below, LinesInv, Followed
<1>3. CASE ~ended
  BY <1>3 DEF RowOf, WantedOf, LinesInv, Followed
<1>. QED BY <1>2, <1>3
-----------------------------------------------------------------------------
(* Whatever the frontend sets, latches and ends, for every geometry of the *)
(* standards: each row of the frame is shown with the registers that were  *)
(* latched for its line, never with those of an earlier frame or with      *)
(* memory that decode_vi_registers should not have read.                   *)
THEOREM RowsShownAsLatched == LinesSpec => []ShownAsLatched
<1>1. LinesSpec => []LinesInv
  BY LinesInitially, LinesStep, PTL DEF LinesSpec
<1>. QED BY <1>1, ShownFromInv, PTL

(* The composition keeps what its parts promise: a step of it is a step of *)
(* each part or leaves the part alone.                                     *)
THEOREM PartsKeepPromises ==
    ViSpec => [](ShownAsLatched /\ UsedAsItIs /\ PersistsBriefly)
<1>1. ViInit => Init /\ LinesInit
  BY DEF ViInit
<1>2. [ViNext]_<<part, job, lineVars, vars>> => [Next]_vars /\ [LinesNext]_lineVars
  BY DEF ViNext, ScanLines, ShowFrames, MakePicture
<1>3. ViSpec => Spec /\ LinesSpec
  BY <1>1, <1>2, PTL DEF ViSpec, Spec, LinesSpec
<1>. QED BY <1>3, RowsShownAsLatched, UsedCorrect, PersistenceBounded, PTL
-----------------------------------------------------------------------------
(* Pictures: arithmetic.                                                   *)

LEMMA Monotone ==
    ASSUME NEW a \in Int, NEW b \in Int, a <= b, NEW n \in Nat
    PROVE  a * n <= b * n
OBVIOUS

LEMMA DivFacts ==
    ASSUME NEW a \in Int, NEW n \in Nat \ {0}
    PROVE  a \div n \in Int /\ (a \div n) * n <= a /\ a < (a \div n) * n + n
OBVIOUS

(* What is in a pixel of the picture was in one of the frame. *)
LEMMA DivBounds ==
    ASSUME NEW a \in Int, NEW n \in Nat \ {0}, NEW lo \in Int, NEW hi \in Int
    PROVE  a \div n \in lo .. hi - 1 <=> a \in lo * n .. hi * n - 1
<1>. DEFINE q == a \div n
<1>1. q \in Int /\ q * n <= a /\ a < q * n + n
  BY DivFacts
<1>. HIDE DEF q
<1>2. ASSUME lo <= q, q <= hi - 1 PROVE lo * n <= a /\ a <= hi * n - 1
  <2>1. lo * n <= q * n
    BY <1>1, <1>2, Monotone
  <2>2. (q + 1) * n <= hi * n
    BY <1>1, <1>2, Monotone
  <2>3. (q + 1) * n = q * n + n
    BY <1>1
  <2>. QED BY <1>1, <2>1, <2>2, <2>3
<1>3. ASSUME lo * n <= a, a <= hi * n - 1 PROVE lo <= q /\ q <= hi - 1
  <2>1. CASE q < lo
    <3>1. (q + 1) * n <= lo * n
      BY <1>1, <2>1, Monotone
    <3>2. (q + 1) * n = q * n + n
      BY <1>1
    <3>. QED BY <1>1, <1>3, <3>1, <3>2
  <2>2. CASE q > hi - 1
    <3>1. hi * n <= q * n
      BY <1>1, <2>2, Monotone
    <3>. QED BY <1>1, <1>3, <3>1
  <2>. QED BY <1>1, <2>1, <2>2
<1>4. lo * n \in Int /\ hi * n \in Int
  OBVIOUS
<1>5. q \in lo .. hi - 1 <=> lo <= q /\ q <= hi - 1
  BY <1>1
<1>6. a \in lo * n .. hi * n - 1 <=> lo * n <= a /\ a <= hi * n - 1
  BY <1>4
<1>. QED BY <1>2, <1>3, <1>5, <1>6 DEF q

LEMMA MaxIs ==
    ASSUME NEW S \in SUBSET Int, NEW m \in S, \A k \in S : k <= m
    PROVE  Max(S) = m
<1>1. \A x \in S : (\A y \in S : x >= y) => x = m
  OBVIOUS
<1>2. \A y \in S : m >= y
  OBVIOUS
<1>. QED BY <1>1, <1>2 DEF Max

LEMMA MinIs ==
    ASSUME NEW S \in SUBSET Int, NEW m \in S, \A k \in S : m <= k
    PROVE  Min(S) = m
<1>1. \A x \in S : (\A y \in S : x <= y) => x = m
  OBVIOUS
<1>. QED BY <1>1 DEF Min

LEMMA MaxOfTwo ==
    ASSUME NEW a \in Int, NEW b \in Int
    PROVE  Max({a, b}) = IF a >= b THEN a ELSE b
<1>1. CASE a >= b
  BY <1>1, MaxIs
<1>2. CASE a < b
  BY <1>2, MaxIs
<1>. QED BY <1>1, <1>2

(* The extremes of what a frame's lines may be: those of the even rows,    *)
(* those of the odd rows, or the frame's own.                              *)
LEMMA Extremes ==
    ASSUME NEW a \in Int, NEW b \in Int, NEW c \in Int, NEW S \in SUBSET {a, b, c}
    PROVE  /\ Max({0} \union S) \in Nat /\ Max({0} \union S) \in {0} \union S
           /\ \A k \in S : k <= Max({0} \union S)
           /\ S # {} => Min(S) \in S /\ \A k \in S : Min(S) <= k
<1>1. \E m \in {0} \union S : \A k \in {0} \union S : k <= m
  <2>. DEFINE larger(x, y) == IF y \in S /\ y > x THEN y ELSE x
              m == larger(larger(larger(0, a), b), c)
  <2>1. m \in {0} \union S /\ \A k \in {0} \union S : k <= m
    OBVIOUS
  <2>. QED BY <2>1
<1>2. PICK m \in {0} \union S : \A k \in {0} \union S : k <= m
  BY <1>1
<1>3. Max({0} \union S) = m
  BY <1>2, MaxIs
<1>4. ASSUME S # {} PROVE Min(S) \in S /\ \A k \in S : Min(S) <= k
  <2>1. PICK x \in S : TRUE
    BY <1>4
  <2>. DEFINE smaller(u, y) == IF y \in S /\ y < u THEN y ELSE u
              n == smaller(smaller(smaller(x, a), b), c)
  <2>2. n \in S /\ \A k \in S : n <= k
    BY <2>1
  <2>. HIDE DEF n
  <2>3. Min(S) = n
    BY <2>2, MinIs
  <2>. QED BY <2>2, <2>3
<1>. QED BY <1>2, <1>3, <1>4
-----------------------------------------------------------------------------
(* What the registers of a frame decode to.                                *)

Standards == [offset : Nat, res : Nat \ {0, 1}, max_rows : Nat, h_offset : Nat]
LineRegisters == [x_start : Nat, x_add : Nat, h_start : Nat, h_end : Nat]
FrameRegisters ==
    [standard : Standards, v_start : Nat, v_end : Nat, y_start : Nat, y_add : Nat,
     lines : [1 .. 2 -> LineRegisters], frame : LineRegisters, ended : BOOLEAN, field : {0, 1},
     divot : BOOLEAN, width : Nat, origin : Nat, pixel : {2, 4}]

LEMMA AnalyzedFacts ==
    ASSUME NEW regs \in FrameRegisters, NEW info \in LineRegisters, NEW l, l = Analyzed(regs, info)
    PROVE  /\ l.h_start \in Nat /\ l.h_end \in Int /\ l.h_end <= ScanWidth
           /\ l.h_start_clamp \in Nat /\ l.h_end_clamp \in Int
           /\ l.h_start <= l.h_start_clamp /\ l.h_end_clamp <= l.h_end
           /\ l.x_start \in Nat /\ l.x_add = info.x_add /\ l.x_add \in Nat
           /\ LET start == info.h_start - regs.standard.h_offset
              IN  /\ start \in Int
                  /\ l.h_start = IF start >= 0 THEN start ELSE 0
                  /\ l.x_start = IF start >= 0 THEN info.x_start ELSE info.x_start - start * info.x_add
<1>. DEFINE start == info.h_start - regs.standard.h_offset
            end == info.h_end - regs.standard.h_offset
<1>1. /\ start \in Int /\ end \in Int /\ info.x_start \in Nat /\ info.x_add \in Nat
      /\ ScanWidth \in Nat /\ GuardLeft \in Nat /\ GuardRight \in Nat
  BY WidthAssumption DEF FrameRegisters, LineRegisters, Standards
<1>. HIDE DEF start, end
<1>2. Max({start, 0}) = IF start >= 0 THEN start ELSE 0
  BY <1>1, MaxOfTwo
<1>3. /\ Least(start, 0) = IF start < 0 THEN start ELSE 0
      /\ Least(end, ScanWidth) = IF end < ScanWidth THEN end ELSE ScanWidth
  BY DEF Least
<1>4. l = [h_start |-> Max({start, 0}), h_end |-> Least(end, ScanWidth),
           h_start_clamp |-> IF start < 0 THEN 0 ELSE start + GuardLeft,
           h_end_clamp |-> IF end > ScanWidth THEN ScanWidth ELSE end - GuardRight,
           x_start |-> info.x_start - Least(start, 0) * info.x_add, x_add |-> info.x_add]
  BY DEF Analyzed, start, end
<1>5. CASE start >= 0
  <2>1. l.x_start = info.x_start - 0 * info.x_add
    BY <1>1, <1>3, <1>4, <1>5
  <2>. QED BY <1>1, <1>2, <1>3, <1>4, <1>5, <2>1 DEF start
<1>6. CASE start < 0
  <2>1. l.x_start = info.x_start - start * info.x_add
    BY <1>1, <1>3, <1>4, <1>6
  <2>2. start * info.x_add <= 0 /\ start * info.x_add \in Int
    BY <1>1, <1>6
  <2>3. l.x_start \in Nat
    BY <1>1, <2>1, <2>2
  <2>. QED BY <1>1, <1>2, <1>3, <1>4, <1>6, <2>1, <2>3 DEF start
<1>. QED BY <1>1, <1>5, <1>6

(* A row is shown with the registers of a line. *)
LEMMA InfoType ==
    ASSUME NEW regs \in FrameRegisters, NEW row \in Int
    PROVE  /\ InfoOf(regs, row) \in {regs.lines[1], regs.lines[2], regs.frame}
           /\ InfoOf(regs, row) \in LineRegisters
<1>1. regs.lines \in [1 .. 2 -> LineRegisters] /\ regs.frame \in LineRegisters
  BY DEF FrameRegisters
<1>2. row % 2 = 0 \/ row % 2 = 1
  OBVIOUS
<1>. QED BY <1>1, <1>2 DEF InfoOf

LEMMA RowFacts ==
    ASSUME NEW regs \in FrameRegisters, NEW d, d = Decoded(regs)
    PROVE  /\ d.v_start \in Nat /\ d.v_res \in Int
           /\ RowsOf(regs) = d.v_start .. d.v_start + d.v_res - 1
<1>1. /\ regs.standard \in Standards /\ regs.v_start \in Nat /\ regs.v_end \in Nat
      /\ regs.standard.offset \in Nat /\ regs.standard.res \in Nat /\ regs.standard.max_rows \in Nat
  BY DEF FrameRegisters, Standards
<1>2. d.v_start = FirstRow(regs.standard, regs.v_start)
      /\ d.v_res = Height(regs.standard, regs.v_start, regs.v_end)
  BY DEF Decoded
<1>3. FirstRow(regs.standard, regs.v_start) \in Nat
  BY <1>1 DEF FirstRow, Least, EndOf
<1>4. Height(regs.standard, regs.v_start, regs.v_end) \in Int
  BY <1>1, <1>3 DEF Height, Least, EndOf
<1>. QED BY <1>2, <1>3, <1>4 DEF RowsOf, Rows

LEMMA DecodedFacts ==
    ASSUME NEW regs \in FrameRegisters, NEW d, d = Decoded(regs)
    PROVE  /\ d.h_start \in Nat /\ d.h_res \in Int /\ d.h_start_clamp \in Nat /\ d.h_res_clamp \in Int
           /\ d.max_x \in Nat
           /\ \A row \in RowsOf(regs) :
                  LET l == LineOf(regs, row)
                  IN  /\ d.h_start <= l.h_start /\ l.h_end <= d.h_start + d.h_res
                      /\ d.h_start_clamp <= l.h_start_clamp
                      /\ l.h_end_clamp <= d.h_start_clamp + d.h_res_clamp
                      /\ (l.x_start + (l.h_end - l.h_start) * l.x_add) \div One <= d.max_x
<1>. DEFINE analyzed == IF d.v_res <= 0 THEN {Analyzed(regs, regs.frame)}
                    ELSE {LineOf(regs, row) : row \in RowsOf(regs)}
            l1 == Analyzed(regs, regs.lines[1])
            l2 == Analyzed(regs, regs.lines[2])
            l3 == Analyzed(regs, regs.frame)
            Reaching(l) == (l.x_start + (l.h_end - l.h_start) * l.x_add) \div One
<1>1. d.v_start \in Nat /\ d.v_res \in Int /\ RowsOf(regs) = d.v_start .. d.v_start + d.v_res - 1
  BY RowFacts
<1>2. regs.lines[1] \in LineRegisters /\ regs.lines[2] \in LineRegisters /\ regs.frame \in LineRegisters
  BY DEF FrameRegisters
<1>3. analyzed \in SUBSET {l1, l2, l3} /\ analyzed # {} /\ \A row \in RowsOf(regs) : LineOf(regs, row) \in analyzed
  <2>1. \A row \in RowsOf(regs) : LineOf(regs, row) \in {l1, l2, l3}
    BY <1>1, InfoType DEF LineOf
  <2>2. d.v_res > 0 => d.v_start \in RowsOf(regs)
    BY <1>1
  <2>3. d.v_res <= 0 => RowsOf(regs) = {}
    BY <1>1
  <2>. HIDE DEF l1, l2
  <2>4. CASE d.v_res <= 0
    BY <2>3, <2>4
  <2>5. CASE d.v_res > 0
    <3>1. analyzed = {LineOf(regs, row) : row \in RowsOf(regs)}
      BY <1>1, <2>5
    <3>2. d.v_start \in RowsOf(regs)
      BY <2>2, <2>5
    <3>. HIDE DEF analyzed, l3
    <3>3. \A row \in RowsOf(regs) : LineOf(regs, row) \in analyzed
      BY <3>1
    <3>4. \A l \in analyzed : l \in {l1, l2, l3}
      BY <2>1, <3>1
    <3>5. analyzed # {}
      BY <3>2, <3>3
    <3>. QED BY <3>3, <3>4, <3>5
  <2>6. d.v_res <= 0 \/ d.v_res > 0
    BY <1>1
  <2>. HIDE DEF analyzed, l3
  <2>. QED BY <2>4, <2>5, <2>6
<1>4. /\ d.h_start = Min({l.h_start : l \in analyzed})
      /\ d.h_res = Max({0} \union {l.h_end : l \in analyzed}) - d.h_start
      /\ d.h_start_clamp = Min({l.h_start_clamp : l \in analyzed})
      /\ d.h_res_clamp = Max({0} \union {l.h_end_clamp : l \in analyzed}) - d.h_start_clamp
      /\ d.max_x = Max({0} \union {Reaching(l) : l \in analyzed})
  BY DEF Decoded
<1>5. \A l \in {l1, l2, l3} :
          /\ l.h_start \in Nat /\ l.h_end \in Int /\ l.h_start_clamp \in Nat /\ l.h_end_clamp \in Int
          /\ Reaching(l) \in Int
  <2>1. \A l \in {l1, l2, l3} :
            /\ l.h_start \in Nat /\ l.h_end \in Int /\ l.h_start_clamp \in Nat /\ l.h_end_clamp \in Int
            /\ l.x_start \in Nat /\ l.x_add \in Nat
    BY <1>2, AnalyzedFacts
  <2>. HIDE DEF l1, l2, l3
  <2>2. \A l \in {l1, l2, l3} : (l.x_start + (l.h_end - l.h_start) * l.x_add) \in Int
    BY <2>1
  <2>. QED BY <2>1, <2>2, WidthAssumption
<1>. HIDE DEF analyzed, l1, l2, l3, Reaching
<1>6. /\ d.h_start \in {l.h_start : l \in analyzed} /\ \A k \in {l.h_start : l \in analyzed} : d.h_start <= k
  <2>. DEFINE S == {l.h_start : l \in analyzed}
  <2>1. S \in SUBSET {l1.h_start, l2.h_start, l3.h_start} /\ S # {}
    BY <1>3
  <2>2. l1.h_start \in Int /\ l2.h_start \in Int /\ l3.h_start \in Int
    BY <1>5
  <2>3. Min(S) \in S /\ \A k \in S : Min(S) <= k
    <3>. HIDE DEF S
    <3>. QED BY <2>1, <2>2, Extremes
  <2>. QED BY <1>4, <2>3
<1>7. /\ d.h_start_clamp \in {l.h_start_clamp : l \in analyzed}
      /\ \A k \in {l.h_start_clamp : l \in analyzed} : d.h_start_clamp <= k
  <2>. DEFINE S == {l.h_start_clamp : l \in analyzed}
  <2>1. S \in SUBSET {l1.h_start_clamp, l2.h_start_clamp, l3.h_start_clamp} /\ S # {}
    BY <1>3
  <2>2. l1.h_start_clamp \in Int /\ l2.h_start_clamp \in Int /\ l3.h_start_clamp \in Int
    BY <1>5
  <2>3. Min(S) \in S /\ \A k \in S : Min(S) <= k
    <3>. HIDE DEF S
    <3>. QED BY <2>1, <2>2, Extremes
  <2>. QED BY <1>4, <2>3
<1>8. PICK e : /\ e = Max({0} \union {l.h_end : l \in analyzed}) /\ e \in Nat
               /\ \A k \in {l.h_end : l \in analyzed} : k <= e
  <2>. DEFINE S == {l.h_end : l \in analyzed}
  <2>1. S \in SUBSET {l1.h_end, l2.h_end, l3.h_end}
    BY <1>3
  <2>2. l1.h_end \in Int /\ l2.h_end \in Int /\ l3.h_end \in Int
    BY <1>5
  <2>3. Max({0} \union S) \in Nat /\ \A k \in S : k <= Max({0} \union S)
    <3>. HIDE DEF S
    <3>. QED BY <2>1, <2>2, Extremes
  <2>. QED BY <2>3
<1>9. PICK c : /\ c = Max({0} \union {l.h_end_clamp : l \in analyzed}) /\ c \in Nat
               /\ \A k \in {l.h_end_clamp : l \in analyzed} : k <= c
  <2>. DEFINE S == {l.h_end_clamp : l \in analyzed}
  <2>1. S \in SUBSET {l1.h_end_clamp, l2.h_end_clamp, l3.h_end_clamp}
    BY <1>3
  <2>2. l1.h_end_clamp \in Int /\ l2.h_end_clamp \in Int /\ l3.h_end_clamp \in Int
    BY <1>5
  <2>3. Max({0} \union S) \in Nat /\ \A k \in S : k <= Max({0} \union S)
    <3>. HIDE DEF S
    <3>. QED BY <2>1, <2>2, Extremes
  <2>. QED BY <2>3
<1>10. d.max_x \in Nat /\ \A k \in {Reaching(l) : l \in analyzed} : k <= d.max_x
  <2>. DEFINE S == {Reaching(l) : l \in analyzed}
  <2>1. S \in SUBSET {Reaching(l1), Reaching(l2), Reaching(l3)}
    BY <1>3
  <2>2. Reaching(l1) \in Int /\ Reaching(l2) \in Int /\ Reaching(l3) \in Int
    BY <1>5
  <2>3. Max({0} \union S) \in Nat /\ \A k \in S : k <= Max({0} \union S)
    <3>. HIDE DEF S
    <3>. QED BY <2>1, <2>2, Extremes
  <2>. QED BY <1>4, <2>3
<1>11. d.h_start \in Nat /\ d.h_start_clamp \in Nat
  BY <1>3, <1>5, <1>6, <1>7
<1>12. d.h_res = e - d.h_start /\ d.h_res_clamp = c - d.h_start_clamp
  BY <1>4, <1>8, <1>9
<1>13. ASSUME NEW row \in RowsOf(regs), NEW l, l = LineOf(regs, row)
       PROVE  /\ d.h_start <= l.h_start /\ l.h_end <= d.h_start + d.h_res
              /\ d.h_start_clamp <= l.h_start_clamp
              /\ l.h_end_clamp <= d.h_start_clamp + d.h_res_clamp
              /\ Reaching(l) <= d.max_x
  <2>1. l \in analyzed
    BY <1>3, <1>13
  <2>2. d.h_start + d.h_res = e /\ d.h_start_clamp + d.h_res_clamp = c
    BY <1>8, <1>9, <1>11, <1>12
  <2>. QED BY <1>6, <1>7, <1>8, <1>9, <1>10, <2>1, <2>2
<1>. QED BY <1>8, <1>9, <1>10, <1>11, <1>12, <1>13 DEF Reaching
-----------------------------------------------------------------------------
(* Rectangles of a picture, whatever is cropped.                           *)

LEMMA DivAtLeast ==
    ASSUME NEW a \in Int, NEW n \in Nat \ {0}, NEW lo \in Int
    PROVE  a \div n >= lo <=> a >= lo * n
<1>. DEFINE q == a \div n
<1>1. q \in Int /\ q * n <= a /\ a < q * n + n
  BY DivFacts
<1>. HIDE DEF q
<1>2. ASSUME q >= lo PROVE a >= lo * n
  <2>1. lo * n <= q * n
    BY <1>1, <1>2, Monotone
  <2>. QED BY <1>1, <2>1
<1>3. ASSUME q < lo PROVE a < lo * n
  <2>1. (q + 1) * n <= lo * n
    BY <1>1, <1>3, Monotone
  <2>2. (q + 1) * n = q * n + n
    BY <1>1
  <2>. QED BY <1>1, <2>1, <2>2
<1>. QED BY <1>1, <1>2, <1>3 DEF q

LEMMA RowsInPixels ==
    ASSUME NEW a \in Int, NEW n \in Nat \ {0}, NEW lo \in Int, NEW len \in Int
    PROVE  a \div n \in lo .. lo + len - 1 <=> a \in lo * n .. lo * n + len * n - 1
<1>1. PICK hi \in Int : hi = lo + len
  OBVIOUS
<1>2. hi * n = lo * n + len * n
  BY <1>1
<1>3. a \div n \in lo .. hi - 1 <=> a \in lo * n .. hi * n - 1
  BY DivBounds
<1>. QED BY <1>1, <1>2, <1>3

(* shift_rect moves a rectangle with the picture. *)
LEMMA ShiftedRect ==
    ASSUME NEW x \in Int, NEW y \in Int, NEW w \in Int, NEW h \in Int, NEW c \in [1 .. 4 -> Nat],
           NEW p \in Nat \X Nat
    PROVE  InRect(Shifted(x, y, w, h, c), p)
               <=> p[1] + c[1] \in x .. x + w - 1 /\ p[2] + c[3] \in y .. y + h - 1
<1>1. c[1] \in Nat /\ c[3] \in Nat /\ p[1] \in Nat /\ p[2] \in Nat
  OBVIOUS
<1>2. ASSUME NEW a \in Int, NEW len \in Int, NEW k \in Nat, NEW i \in Nat
      PROVE  i \in Max({a - k, 0}) .. Max({a - k, 0}) + Max({len + Least(a - k, 0), 0}) - 1
                 <=> i + k \in a .. a + len - 1
  <2>1. Max({a - k, 0}) = IF a - k >= 0 THEN a - k ELSE 0
    BY MaxOfTwo
  <2>2. Least(a - k, 0) = IF a - k < 0 THEN a - k ELSE 0
    BY DEF Least
  <2>3. Max({len + Least(a - k, 0), 0})
            = IF len + Least(a - k, 0) >= 0 THEN len + Least(a - k, 0) ELSE 0
    BY <2>2, MaxOfTwo
  <2>4. CASE a - k >= 0
    BY <2>1, <2>2, <2>3, <2>4
  <2>5. CASE a - k < 0
    BY <2>1, <2>2, <2>3, <2>5
  <2>. QED BY <2>4, <2>5
<1>3. /\ Shifted(x, y, w, h, c).x = Max({x - c[1], 0}) /\ Shifted(x, y, w, h, c).y = Max({y - c[3], 0})
      /\ Shifted(x, y, w, h, c).w = Max({w + Least(x - c[1], 0), 0})
      /\ Shifted(x, y, w, h, c).h = Max({h + Least(y - c[3], 0), 0})
  BY DEF Shifted
<1>4. p[1] \in Shifted(x, y, w, h, c).x .. Shifted(x, y, w, h, c).x + Shifted(x, y, w, h, c).w - 1
          <=> p[1] + c[1] \in x .. x + w - 1
  BY <1>1, <1>2, <1>3
<1>5. p[2] \in Shifted(x, y, w, h, c).y .. Shifted(x, y, w, h, c).y + Shifted(x, y, w, h, c).h - 1
          <=> p[2] + c[3] \in y .. y + h - 1
  <2>1. p[2] \in Max({y - c[3], 0}) .. Max({y - c[3], 0}) + Max({h + Least(y - c[3], 0), 0}) - 1
            <=> p[2] + c[3] \in y .. y + h - 1
    BY <1>1, <1>2
  <2>. QED BY <1>3, <2>1
<1>. QED BY <1>4, <1>5 DEF InRect

(* Options of scanout(), and three frames that are shown with them.        *)
SomeOptions(o) ==
    /\ o.scale \in Nat \ {0} /\ o.serrate \in BOOLEAN /\ o.blend \in BOOLEAN
    /\ o.crop \in [1 .. 4 -> Nat]
SomePictures(j) ==
    /\ SomeOptions(j)
    /\ j.frames \in [1 .. 3 -> FrameRegisters]
    /\ j.frames[2].standard = j.frames[3].standard

LEMMA OptionFacts ==
    ASSUME NEW o, SomeOptions(o)
    PROVE  /\ o.scale \in Nat \ {0} /\ Doubled(o) \in {1, 2} /\ o.scale * Doubled(o) \in Nat \ {0}
           /\ Crop(o) \in [1 .. 4 -> Nat]
<1>1. o.scale \in Nat \ {0} /\ Doubled(o) \in {1, 2} /\ o.crop \in [1 .. 4 -> Nat]
  BY DEF SomeOptions, Doubled
<1>2. o.scale * Doubled(o) \in Nat \ {0}
  BY <1>1
<1>3. ASSUME NEW i \in 1 .. 4 PROVE o.crop[i] * o.scale * (IF i > 2 THEN Doubled(o) ELSE 1) \in Nat
  <2>1. o.crop[i] \in Nat /\ o.crop[i] * o.scale \in Nat
    BY <1>1
  <2>. QED BY <1>1, <2>1
<1>4. Crop(o) \in [1 .. 4 -> Nat]
  BY <1>3 DEF Crop
<1>. QED BY <1>1, <1>2, <1>4

LEMMA SizeFacts ==
    ASSUME NEW regs \in FrameRegisters, NEW o, SomeOptions(o)
    PROVE  \E w, h \in Nat \ {0} : PictureSize(regs, o) = <<w, h>>
<1>. DEFINE w == ScanWidth * o.scale
            h == ((regs.standard.res * Doubled(o)) \div 2) * o.scale
            c == Crop(o)
<1>1. /\ o.scale \in Nat \ {0} /\ Doubled(o) \in {1, 2} /\ c \in [1 .. 4 -> Nat]
      /\ ScanWidth \in Nat \ {0} /\ regs.standard.res \in Nat \ {0, 1}
  BY OptionFacts, WidthAssumption DEF FrameRegisters, Standards
<1>2. (regs.standard.res * Doubled(o)) \div 2 \in Nat \ {0}
  <2>1. CASE Doubled(o) = 1
    BY <1>1, <2>1
  <2>2. CASE Doubled(o) = 2
    BY <1>1, <2>2
  <2>. QED BY <1>1, <2>1, <2>2
<1>3. w \in Nat \ {0} /\ h \in Nat \ {0}
  BY <1>1, <1>2
<1>4. c[1] \in Nat /\ c[2] \in Nat /\ c[3] \in Nat /\ c[4] \in Nat
  BY <1>1
<1>5. PictureSize(regs, o) = IF c[1] + c[2] < w /\ c[3] + c[4] < h
                             THEN <<w - c[1] - c[2], h - c[3] - c[4]>> ELSE <<w, h>>
  BY DEF PictureSize
<1>. HIDE DEF w, h, c
<1>6. CASE c[1] + c[2] < w /\ c[3] + c[4] < h
  <2>1. w - c[1] - c[2] \in Nat \ {0} /\ h - c[3] - c[4] \in Nat \ {0}
    BY <1>3, <1>4, <1>6
  <2>. QED BY <1>5, <1>6, <2>1
<1>. QED BY <1>3, <1>5, <1>6

LEMMA PlacedFacts ==
    ASSUME NEW d, NEW o
    PROVE  LET r == Placed(d, o)
               v == o.scale * Doubled(o)
           IN  /\ r.v_start = d.v_start * v /\ r.v_res = d.v_res * v
               /\ r.h_start = d.h_start * o.scale /\ r.h_res = d.h_res * o.scale
               /\ r.h_start_clamp = d.h_start_clamp * o.scale /\ r.h_res_clamp = d.h_res_clamp * o.scale
  BY DEF Placed

(* The draw: what the scissor and the shader leave of it is where the      *)
(* lines are.                                                              *)
LEMMA CoveredIsDrawn ==
    ASSUME NEW regs \in FrameRegisters, NEW o, SomeOptions(o), NEW p \in Nat \X Nat
    PROVE  Covered(regs, Placed(Decoded(regs), o), o, p)
               <=> Draws(regs, o, <<p[1] + Crop(o)[1], p[2] + Crop(o)[3]>>)
<1>. DEFINE d == Decoded(regs)
            r == Placed(d, o)
            c == Crop(o)
            s == o.scale
            v == s * Doubled(o)
            X == p[1] + c[1]
            Y == p[2] + c[3]
            row == Y \div v
            l == LineOf(regs, row)
<1>1. /\ s \in Nat \ {0} /\ v \in Nat \ {0} /\ c \in [1 .. 4 -> Nat] /\ X \in Nat /\ Y \in Nat
      /\ Doubled(o) \in {1, 2}
  BY OptionFacts
<1>2. /\ d.v_start \in Nat /\ d.v_res \in Int /\ RowsOf(regs) = d.v_start .. d.v_start + d.v_res - 1
      /\ d.h_start \in Nat /\ d.h_res \in Int
  BY RowFacts, DecodedFacts
<1>3. /\ r.v_start = d.v_start * v /\ r.v_res = d.v_res * v
      /\ r.h_start = d.h_start * s /\ r.h_res = d.h_res * s
  BY PlacedFacts
<1>4. row \in Int
  BY <1>1, DivFacts
<1>5. /\ l.h_start \in Nat /\ l.h_end \in Int /\ l.h_start_clamp \in Nat /\ l.h_end_clamp \in Int
      /\ l.h_start <= l.h_start_clamp /\ l.h_end_clamp <= l.h_end
  BY <1>4, InfoType, AnalyzedFacts DEF LineOf
<1>6. row \in RowsOf(regs) => d.h_start <= l.h_start /\ l.h_end <= d.h_start + d.h_res
  BY DecodedFacts
<1>7. Covered(regs, r, o, p)
          <=> /\ r.v_res > 0 /\ r.h_res > 0
              /\ InRect(Shifted(r.h_start, r.v_start, r.h_res, r.v_res, c), p)
              /\ X \in l.h_start_clamp * s .. l.h_end_clamp * s - 1
              /\ o.serrate => (Y - r.v_start) % 2 = regs.field
  BY DEF Covered
<1>8. Draws(regs, o, <<X, Y>>)
          <=> /\ row \in RowsOf(regs)
              /\ X \div s \in l.h_start_clamp .. l.h_end_clamp - 1
              /\ o.serrate => (Y - d.v_start * s * 2) % 2 = regs.field
  BY DEF Draws
<1>. HIDE DEF d, r, c, v, X, Y, row, l
<1>9. X \div s \in l.h_start_clamp .. l.h_end_clamp - 1
          <=> X \in l.h_start_clamp * s .. l.h_end_clamp * s - 1
  <2>1. /\ X \in Int /\ s \in Nat \ {0} /\ l.h_start_clamp \in Int /\ l.h_end_clamp \in Int
    BY <1>1, <1>5
  <2>. HIDE DEF s
  <2>. QED BY <2>1, DivBounds
<1>z. \A a, b \in Int : a * b \in Int
  OBVIOUS
<1>10. r.v_start \in Int /\ r.v_res \in Int /\ r.h_start \in Int /\ r.h_res \in Int
  <2>1. d.v_start \in Int /\ d.v_res \in Int /\ d.h_start \in Int /\ d.h_res \in Int /\ v \in Int /\ s \in Int
    BY <1>1, <1>2
  <2>. HIDE DEF s
  <2>. QED BY <1>z, <1>3, <2>1
<1>11. InRect(Shifted(r.h_start, r.v_start, r.h_res, r.v_res, c), p)
           <=> X \in r.h_start .. r.h_start + r.h_res - 1 /\ Y \in r.v_start .. r.v_start + r.v_res - 1
  BY <1>1, <1>10, ShiftedRect DEF X, Y
<1>12. row \in RowsOf(regs) <=> Y \in r.v_start .. r.v_start + r.v_res - 1
  <2>0. d.v_start \in Int /\ d.v_res \in Int /\ v \in Nat \ {0} /\ Y \in Int
    BY <1>1, <1>2
  <2>. HIDE DEF s
  <2>1. Y \div v \in d.v_start .. d.v_start + d.v_res - 1
            <=> Y \in d.v_start * v .. d.v_start * v + d.v_res * v - 1
    BY <2>0, RowsInPixels
  <2>2. row \in RowsOf(regs) <=> Y \div v \in d.v_start .. d.v_start + d.v_res - 1
    BY <1>2 DEF row
  <2>. QED BY <1>3, <2>1, <2>2
<1>13. X \div s \in d.h_start .. d.h_start + d.h_res - 1
           <=> X \in r.h_start .. r.h_start + r.h_res - 1
  <2>0. d.h_start \in Int /\ d.h_res \in Int /\ s \in Nat \ {0} /\ X \in Int
    BY <1>1, <1>2
  <2>. HIDE DEF s
  <2>1. X \div s \in d.h_start .. d.h_start + d.h_res - 1
            <=> X \in d.h_start * s .. d.h_start * s + d.h_res * s - 1
    BY <2>0, RowsInPixels
  <2>. QED BY <1>3, <2>1
<1>14. o.serrate => d.v_start * s * 2 = r.v_start
  <2>1. o.serrate => v = s * 2
    BY DEF v, Doubled
  <2>2. d.v_start \in Int /\ s \in Int
    BY <1>1, <1>2
  <2>. HIDE DEF s
  <2>3. d.v_start * s * 2 = d.v_start * (s * 2)
    BY <2>2
  <2>. QED BY <1>3, <2>1, <2>3
<1>15. ASSUME row \in RowsOf(regs), X \div s \in l.h_start_clamp .. l.h_end_clamp - 1
       PROVE  X \in r.h_start .. r.h_start + r.h_res - 1
  <2>1. PICK q : q = X \div s
    OBVIOUS
  <2>2. q \in l.h_start_clamp .. l.h_end_clamp - 1
    BY <1>15, <2>1
  <2>3. /\ d.h_start \in Int /\ d.h_res \in Int /\ l.h_start \in Int /\ l.h_end \in Int
        /\ l.h_start_clamp \in Int /\ l.h_end_clamp \in Int
        /\ l.h_start <= l.h_start_clamp /\ l.h_end_clamp <= l.h_end
        /\ d.h_start <= l.h_start /\ l.h_end <= d.h_start + d.h_res
    BY <1>2, <1>5, <1>6, <1>15
  <2>4. q \in d.h_start .. d.h_start + d.h_res - 1
    BY <2>2, <2>3
  <2>. QED BY <1>13, <2>1, <2>4
<1>16. /\ X \in r.h_start .. r.h_start + r.h_res - 1 => r.h_res > 0
       /\ Y \in r.v_start .. r.v_start + r.v_res - 1 => r.v_res > 0
  BY <1>1, <1>10
<1>17. Covered(regs, r, o, p) <=> Draws(regs, o, <<X, Y>>)
  BY <1>7, <1>8, <1>9, <1>11, <1>12, <1>14, <1>15, <1>16
<1>. QED BY <1>17 DEF r, d, X, Y, c

(* The parts of an earlier picture that persist are beside, above and      *)
(* below what is drawn.                                                    *)
LEMMA PartsAreYielded ==
    ASSUME NEW regs \in FrameRegisters, NEW o, SomeOptions(o), NEW p \in Nat \X Nat,
           NEW h \in Nat, h = PictureSize(regs, o)[2]
    PROVE  (\E rect \in Parts(Placed(Decoded(regs), o), Crop(o), h) : InRect(rect, p))
               <=> Yields(regs, o, <<p[1] + Crop(o)[1], p[2] + Crop(o)[3]>>)
<1>. DEFINE d == Decoded(regs)
            r == Placed(d, o)
            c == Crop(o)
            s == o.scale
            v == s * Doubled(o)
            X == p[1] + c[1]
            Y == p[2] + c[3]
            row == Y \div v
            below == r.v_start + r.v_res
            Outer == X \in r.h_start .. r.h_start + r.h_res - 1
            Inner == X \in r.h_start_clamp .. r.h_start_clamp + r.h_res_clamp - 1
<1>1. /\ s \in Nat \ {0} /\ v \in Nat \ {0} /\ c \in [1 .. 4 -> Nat] /\ X \in Nat /\ Y \in Nat
  BY OptionFacts
<1>2. /\ d.v_start \in Nat /\ d.v_res \in Int /\ RowsOf(regs) = d.v_start .. d.v_start + d.v_res - 1
      /\ d.h_start \in Nat /\ d.h_res \in Int /\ d.h_start_clamp \in Nat /\ d.h_res_clamp \in Int
  BY RowFacts, DecodedFacts
<1>3. /\ r.v_start = d.v_start * v /\ r.v_res = d.v_res * v
      /\ r.h_start = d.h_start * s /\ r.h_res = d.h_res * s
      /\ r.h_start_clamp = d.h_start_clamp * s /\ r.h_res_clamp = d.h_res_clamp * s
  BY PlacedFacts
<1>4. Yields(regs, o, <<X, Y>>)
          <=> IF row \in RowsOf(regs)
              THEN X \div s \in d.h_start_clamp .. d.h_start_clamp + d.h_res_clamp - 1
              ELSE /\ X \div s \in d.h_start .. d.h_start + d.h_res - 1
                   /\ row >= d.v_start \/ d.v_res <= 0 => Y < h
  BY DEF Yields
<1>5. Parts(r, c, h) = IF r.v_res <= 0 THEN {Shifted(r.h_start, 0, Max({r.h_res, 0}), h, c)}
                       ELSE {Shifted(r.h_start, 0, Max({r.h_res, 0}), r.v_start, c),
                             Shifted(r.h_start_clamp, r.v_start, Max({r.h_res_clamp, 0}), r.v_res, c),
                             Shifted(r.h_start, below, Max({r.h_res, 0}), Max({h - below, 0}), c)}
  BY DEF Parts
<1>. HIDE DEF d, r, c, s, v, X, Y, row
<1>z. \A a, b \in Int : a * b \in Int
  OBVIOUS
<1>6. /\ r.v_start \in Int /\ r.v_res \in Int /\ r.h_start \in Int /\ r.h_res \in Int
      /\ r.h_start_clamp \in Int /\ r.h_res_clamp \in Int
  <2>1. /\ d.v_start \in Int /\ d.v_res \in Int /\ d.h_start \in Int /\ d.h_res \in Int
        /\ d.h_start_clamp \in Int /\ d.h_res_clamp \in Int /\ v \in Int /\ s \in Int
    BY <1>1, <1>2
  <2>. QED BY <1>z, <1>3, <2>1
<1>7. /\ X \div s \in d.h_start .. d.h_start + d.h_res - 1 <=> Outer
      /\ X \div s \in d.h_start_clamp .. d.h_start_clamp + d.h_res_clamp - 1 <=> Inner
  <2>1. /\ d.h_start \in Int /\ d.h_res \in Int /\ s \in Nat \ {0} /\ X \in Int
        /\ d.h_start_clamp \in Int /\ d.h_res_clamp \in Int
    BY <1>1, <1>2
  <2>2. X \div s \in d.h_start .. d.h_start + d.h_res - 1
            <=> X \in d.h_start * s .. d.h_start * s + d.h_res * s - 1
    BY <2>1, RowsInPixels
  <2>3. X \div s \in d.h_start_clamp .. d.h_start_clamp + d.h_res_clamp - 1
            <=> X \in d.h_start_clamp * s .. d.h_start_clamp * s + d.h_res_clamp * s - 1
    BY <2>1, RowsInPixels
  <2>. QED BY <1>3, <2>2, <2>3
<1>8. /\ row \in RowsOf(regs) <=> Y \in r.v_start .. r.v_start + r.v_res - 1
      /\ row >= d.v_start <=> Y >= r.v_start
  <2>1. d.v_start \in Int /\ d.v_res \in Int /\ v \in Nat \ {0} /\ Y \in Int
    BY <1>1, <1>2
  <2>2. Y \div v \in d.v_start .. d.v_start + d.v_res - 1
            <=> Y \in d.v_start * v .. d.v_start * v + d.v_res * v - 1
    BY <2>1, RowsInPixels
  <2>3. Y \div v >= d.v_start <=> Y >= d.v_start * v
    BY <2>1, DivAtLeast
  <2>4. row \in RowsOf(regs) <=> Y \div v \in d.v_start .. d.v_start + d.v_res - 1
    BY <1>2 DEF row
  <2>. QED BY <1>3, <2>2, <2>3, <2>4 DEF row
<1>9. d.v_res <= 0 <=> r.v_res <= 0
  <2>. DEFINE n == d.v_res
  <2>1. n \in Int /\ v \in Nat \ {0} /\ r.v_res = n * v
    BY <1>1, <1>2, <1>3
  <2>. HIDE DEF n
  <2>2. n <= 0 => n * v <= 0 * v
    BY <2>1, Monotone
  <2>3. n >= 1 => 1 * v <= n * v
    BY <2>1, Monotone
  <2>4. 0 * v = 0 /\ 1 * v = v /\ v > 0
    BY <2>1
  <2>5. n * v \in Int
    BY <2>1, <1>z
  <2>6. n <= 0 <=> n * v <= 0
    BY <2>1, <2>2, <2>3, <2>4, <2>5
  <2>. QED BY <2>1, <2>6 DEF n
<1>10. \A a, n \in Int : Max({n, 0}) \in Int /\ (X \in a .. a + Max({n, 0}) - 1 <=> X \in a .. a + n - 1)
  <2>1. ASSUME NEW a \in Int, NEW n \in Int
        PROVE  Max({n, 0}) \in Int /\ (X \in a .. a + Max({n, 0}) - 1 <=> X \in a .. a + n - 1)
    <3>1. Max({n, 0}) = IF n >= 0 THEN n ELSE 0
      BY MaxOfTwo
    <3>. QED BY <1>1, <3>1
  <2>. QED BY <2>1
<1>11. \A x, y, w, n \in Int :
           InRect(Shifted(x, y, w, n, c), p) <=> X \in x .. x + w - 1 /\ Y \in y .. y + n - 1
  BY <1>1, ShiftedRect DEF X, Y
<1>12. ASSUME NEW x \in Int, NEW y \in Int, NEW w \in Int, NEW n \in Int
       PROVE  InRect(Shifted(x, y, Max({w, 0}), n, c), p)
                  <=> X \in x .. x + w - 1 /\ Y \in y .. y + n - 1
  <2>1. Max({w, 0}) \in Int /\ (X \in x .. x + Max({w, 0}) - 1 <=> X \in x .. x + w - 1)
    BY <1>10
  <2>2. InRect(Shifted(x, y, Max({w, 0}), n, c), p)
            <=> X \in x .. x + Max({w, 0}) - 1 /\ Y \in y .. y + n - 1
    BY <1>11, <2>1
  <2>. QED BY <2>1, <2>2
<1>13. CASE r.v_res <= 0
  <2>1. InRect(Shifted(r.h_start, 0, Max({r.h_res, 0}), h, c), p) <=> Outer /\ Y \in 0 .. 0 + h - 1
    BY <1>6, <1>12
  <2>2. Y \in 0 .. 0 + h - 1 <=> Y < h
    BY <1>1
  <2>3. row \notin RowsOf(regs)
    BY <1>6, <1>8, <1>13
  <2>. QED BY <1>4, <1>5, <1>7, <1>9, <1>13, <2>1, <2>2, <2>3 DEF r, d, X, Y, c
<1>14. CASE r.v_res > 0
  <2>1. InRect(Shifted(r.h_start, 0, Max({r.h_res, 0}), r.v_start, c), p)
            <=> Outer /\ Y \in 0 .. 0 + r.v_start - 1
    BY <1>6, <1>12
  <2>2. InRect(Shifted(r.h_start_clamp, r.v_start, Max({r.h_res_clamp, 0}), r.v_res, c), p)
            <=> Inner /\ Y \in r.v_start .. r.v_start + r.v_res - 1
    BY <1>6, <1>12
  <2>3. below \in Int /\ Max({h - below, 0}) = (IF h - below >= 0 THEN h - below ELSE 0)
        /\ Max({h - below, 0}) \in Int
    BY <1>6, MaxOfTwo
  <2>. HIDE DEF below
  <2>4. InRect(Shifted(r.h_start, below, Max({r.h_res, 0}), Max({h - below, 0}), c), p)
            <=> Outer /\ Y \in below .. below + Max({h - below, 0}) - 1
    BY <1>6, <1>12, <2>3
  <2>5. Y \in below .. below + Max({h - below, 0}) - 1 <=> Y >= below /\ Y < h
    BY <1>1, <2>3
  <2>6. Y \in 0 .. 0 + r.v_start - 1 <=> ~ (Y >= r.v_start)
    BY <1>1, <1>6
  <2>7. /\ Y >= below <=> Y >= r.v_start /\ Y \notin r.v_start .. r.v_start + r.v_res - 1
        /\ Y \in r.v_start .. r.v_start + r.v_res - 1 => Y >= r.v_start
    BY <1>1, <1>6, <1>14 DEF below
  <2>8. (\E rect \in Parts(r, c, h) : InRect(rect, p))
            <=> \/ Outer /\ ~ (Y >= r.v_start)
                \/ Inner /\ Y \in r.v_start .. r.v_start + r.v_res - 1
                \/ Outer /\ Y >= below /\ Y < h
    <3>1. Parts(r, c, h) = {Shifted(r.h_start, 0, Max({r.h_res, 0}), r.v_start, c),
                            Shifted(r.h_start_clamp, r.v_start, Max({r.h_res_clamp, 0}), r.v_res, c),
                            Shifted(r.h_start, below, Max({r.h_res, 0}), Max({h - below, 0}), c)}
      BY <1>5, <1>6, <1>14
    <3>. QED BY <2>1, <2>2, <2>4, <2>5, <2>6, <3>1
  <2>9. ~ (d.v_res <= 0)
    BY <1>6, <1>9, <1>14
  <2>10. (\E rect \in Parts(r, c, h) : InRect(rect, p)) <=> Yields(regs, o, <<X, Y>>)
    <3>. HIDE DEF Outer, Inner
    <3>. QED BY <1>4, <1>7, <1>8, <2>7, <2>8, <2>9
  <2>. QED BY <2>10 DEF r, d, X, Y, c
<1>. QED BY <1>6, <1>13, <1>14

(* A picture is as large as its options say, and shows what is drawn. *)
Shows(shot, regs, o, w, h) ==
    /\ DOMAIN shot = (0 .. w - 1) \X (0 .. h - 1)
    /\ shot # NoPicture /\ HeightOf(shot) = h
    /\ \A p \in DOMAIN shot :
           shot[p] = "now" <=> Draws(regs, o, <<p[1] + Crop(o)[1], p[2] + Crop(o)[3]>>)

LEMMA PictureFacts ==
    ASSUME NEW regs \in FrameRegisters, NEW o, SomeOptions(o), NEW before,
           NEW w \in Nat \ {0}, NEW h \in Nat \ {0}, PictureSize(regs, o) = <<w, h>>
    PROVE  Shows(Picture(regs, o, before), regs, o, w, h)
<1>. DEFINE shot == Picture(regs, o, before)
<1>1. DOMAIN shot = (0 .. w - 1) \X (0 .. h - 1)
  BY DEF Picture
<1>2. \A p \in DOMAIN shot : shot[p] = "now" <=> Covered(regs, Placed(Decoded(regs), o), o, p)
  BY <1>1 DEF Picture
<1>. HIDE DEF shot
<1>3. <<0, h - 1>> \in DOMAIN shot
  BY <1>1
<1>4. shot # NoPicture
  <2>1. DOMAIN NoPicture = {}
    BY DEF NoPicture
  <2>. QED BY <1>3, <2>1
<1>5. Max({p[2] : p \in DOMAIN shot}) = h - 1
  <2>. DEFINE S == {p[2] : p \in DOMAIN shot}
  <2>1. S \in SUBSET Int /\ \A k \in S : k <= h - 1
    BY <1>1
  <2>2. h - 1 \in S
    <3>1. <<0, h - 1>>[2] = h - 1
      OBVIOUS
    <3>. QED BY <1>3, <3>1
  <2>. HIDE DEF S
  <2>3. Max(S) = h - 1
    BY <2>1, <2>2, MaxIs
  <2>. QED BY <2>3 DEF S
<1>6. HeightOf(shot) = h
  BY <1>4, <1>5 DEF HeightOf
<1>7. ASSUME NEW p \in DOMAIN shot
      PROVE  shot[p] = "now" <=> Draws(regs, o, <<p[1] + Crop(o)[1], p[2] + Crop(o)[3]>>)
  <2>1. p \in Nat \X Nat
    BY <1>1
  <2>. QED BY <1>2, <2>1, CoveredIsDrawn
<1>. QED BY <1>1, <1>4, <1>6, <1>7 DEF Shows, shot

(* Any three frames of one standard, at any scale and with any crop: what  *)
(* is shown is a window of what the last two have drawn (scanout(),       *)
(* scale_stage and vi_blend_fields.frag).                                  *)
THEOREM AnyPictureIsWindow ==
    ASSUME SomePictures(job)
    PROVE  PictureIsWindow
<1>. DEFINE f(i) == job.frames[i]
            b1 == Picture(f(1), job, NoPicture)
            b2 == Picture(f(2), job, b1)
            b3 == Picture(f(3), job, b2)
            c == Crop(job)
<1>1. f(2) \in FrameRegisters /\ f(3) \in FrameRegisters /\ f(2).standard = f(3).standard /\ SomeOptions(job)
  BY DEF SomePictures
<1>2. PICK w, h \in Nat \ {0} : PictureSize(f(3), job) = <<w, h>>
  BY <1>1, SizeFacts
<1>3. PictureSize(f(2), job) = <<w, h>>
  BY <1>1, <1>2 DEF PictureSize
<1>. HIDE DEF f, b1
<1>4. /\ DOMAIN b2 = (0 .. w - 1) \X (0 .. h - 1) /\ b2 # NoPicture /\ HeightOf(b2) = h
      /\ \A p \in DOMAIN b2 : b2[p] = "now" <=> Draws(f(2), job, <<p[1] + c[1], p[2] + c[3]>>)
  <2>1. Shows(b2, f(2), job, w, h)
    BY <1>1, <1>3, PictureFacts
  <2>. QED BY <2>1 DEF Shows
<1>. HIDE DEF b2
<1>5. /\ DOMAIN b3 = (0 .. w - 1) \X (0 .. h - 1)
      /\ \A p \in DOMAIN b3 : b3[p] = "now" <=> Draws(f(3), job, <<p[1] + c[1], p[2] + c[3]>>)
  <2>1. Shows(b3, f(3), job, w, h)
    BY <1>1, <1>2, PictureFacts
  <2>. QED BY <2>1 DEF Shows
<1>6. ASSUME NEW p \in DOMAIN b3
      PROVE  b3[p] = IF Draws(f(3), job, <<p[1] + c[1], p[2] + c[3]>>) THEN "now"
                     ELSE IF /\ job.blend /\ Yields(f(3), job, <<p[1] + c[1], p[2] + c[3]>>)
                             /\ Draws(f(2), job, <<p[1] + c[1], p[2] + c[3]>>) THEN "before"
                     ELSE "clear"
  <2>. DEFINE r == Placed(Decoded(f(3)), job)
              persists == \E rect \in Parts(r, c, h) : InRect(rect, p)
  <2>1. p \in (0 .. w - 1) \X (0 .. h - 1) /\ p \in Nat \X Nat /\ p \in DOMAIN b2
    BY <1>4, <1>5
  <2>2. b3[p] = IF Covered(f(3), r, job, p) THEN "now"
                ELSE IF (\E rect \in (IF job.blend THEN Parts(r, c, h) ELSE {}) : InRect(rect, p))
                            /\ BlendedIn(b2[p]) THEN "before"
                ELSE "clear"
    BY <1>2, <1>4, <2>1 DEF Picture
  <2>3. persists <=> Yields(f(3), job, <<p[1] + c[1], p[2] + c[3]>>)
    <3>1. h = PictureSize(f(3), job)[2] /\ h \in Nat
      BY <1>2
    <3>. QED BY <1>1, <2>1, <3>1, PartsAreYielded
  <2>4. Covered(f(3), r, job, p) <=> Draws(f(3), job, <<p[1] + c[1], p[2] + c[3]>>)
    BY <1>1, <2>1, CoveredIsDrawn
  <2>5. BlendedIn(b2[p]) <=> Draws(f(2), job, <<p[1] + c[1], p[2] + c[3]>>)
    BY <1>4, <2>1 DEF BlendedIn
  <2>6. (\E rect \in (IF job.blend THEN Parts(r, c, h) ELSE {}) : InRect(rect, p)) <=> job.blend /\ persists
    OBVIOUS
  <2>. HIDE DEF r, persists, c, b3
  <2>. QED BY <2>2, <2>3, <2>4, <2>5, <2>6
<1>7. IsWindow(b3)
  <2>. HIDE DEF b3
  <2>. QED BY <1>6 DEF IsWindow, f
<1>. QED BY <1>7 DEF PictureIsWindow, b2, b1, f

LEMMA FramesAreRegisters ==
    \A f \in PictureFrames : f \in FrameRegisters /\ f.standard = SmallNTSC
<1>. DEFINE Fits(f) == f \in FrameRegisters /\ f.standard = SmallNTSC
<1>1. SmallNTSC \in Standards
  BY DEF SmallNTSC, Standards
<1>2. WideLine \in LineRegisters
  BY DEF WideLine, Info, LineRegisters
<1>3. Info(0, 4, 4, 9) \in LineRegisters /\ Info(0, 4, 3, 7) \in LineRegisters
  BY DEF Info, LineRegisters
<1>. HIDE DEF SmallNTSC
<1>4. ASSUME NEW i \in LineRegisters, NEW j \in LineRegisters, NEW k \in LineRegisters,
             NEW a \in Nat, NEW e \in Nat
      PROVE  /\ Fits(Frame(SmallNTSC, a, e, 0, 4, <<i, j>>, k))
             /\ Fits([Frame(SmallNTSC, a, e, 0, 4, <<i, j>>, k) EXCEPT !.field = 1])
             /\ Fits([Frame(SmallNTSC, a, e, 0, 4, <<i, j>>, k) EXCEPT !.ended = FALSE, !.field = 1])
  <2>. DEFINE f == Frame(SmallNTSC, a, e, 0, 4, <<i, j>>, k)
  <2>. DEFINE d == <<i, j>> # <<k, k>>
  <2>1. d \in BOOLEAN
    OBVIOUS
  <2>. DEFINE both == <<i, j>>
  <2>2. both \in [1 .. 2 -> LineRegisters]
    OBVIOUS
  <2>3. f = [standard |-> SmallNTSC, v_start |-> a, v_end |-> e, y_start |-> 0, y_add |-> 4,
             lines |-> both, frame |-> k, ended |-> d, field |-> 0, divot |-> TRUE,
             width |-> 5, origin |-> 17, pixel |-> 2]
    BY DEF Frame
  <2>. HIDE DEF f, d, both
  <2>4. f \in FrameRegisters /\ f.standard = SmallNTSC
    BY <1>1, <2>1, <2>2, <2>3 DEF FrameRegisters
  <2>. QED BY <2>4 DEF FrameRegisters, f
<1>. HIDE DEF Fits
<1>5. Fits(Frame(SmallNTSC, 0, 7, 0, 4, <<WideLine, WideLine>>, WideLine))
  BY <1>2, <1>4
<1>6. Fits(Frame(SmallNTSC, 4, 6, 0, 4, <<WideLine, Info(0, 4, 4, 9)>>, Info(0, 4, 4, 9)))
  BY <1>2, <1>3, <1>4
<1>7. Fits([Frame(SmallNTSC, 2, 5, 0, 4, <<Info(0, 4, 4, 9), WideLine>>, WideLine) EXCEPT !.field = 1])
  BY <1>2, <1>3, <1>4
<1>8. Fits([Frame(SmallNTSC, 2, 5, 0, 4, <<WideLine, WideLine>>, Info(0, 4, 3, 7)) EXCEPT
                !.ended = FALSE, !.field = 1])
  BY <1>2, <1>3, <1>4
<1>9. Fits(Frame(SmallNTSC, 5, 5, 0, 4, <<WideLine, WideLine>>, WideLine))
  BY <1>2, <1>4
<1>10. \A f \in PictureFrames : Fits(f)
  BY <1>5, <1>6, <1>7, <1>8, <1>9 DEF PictureFrames
<1>. QED BY <1>10 DEF Fits

LEMMA JobsAreSources == \A j \in SourceJobs : j.of = "source"
BY DEF SourceJobs

LEMMA JobsArePictures == \A j \in PictureJobs : SomePictures(j)
<1>1. TAKE j \in PictureJobs
<1>2. PICK a \in PictureFrames, b \in PictureFrames, c \in PictureFrames, s \in {1, 2}, i \in BOOLEAN,
           m \in BOOLEAN, k \in {<<0, 0, 0, 0>>, <<2, 1, 0, 1>>, <<1, 0, 1, 0>>, <<9, 9, 0, 0>>} :
          j = [of |-> "picture", frames |-> <<a, b, c>>, scale |-> s, serrate |-> i, blend |-> m, crop |-> k]
  BY DEF PictureJobs
<1>3. k \in [1 .. 4 -> Nat]
  BY <1>2
<1>4. <<a, b, c>> \in [1 .. 3 -> FrameRegisters] /\ b.standard = c.standard
  BY FramesAreRegisters
<1>. QED BY <1>2, <1>3, <1>4 DEF SomePictures, SomeOptions

(* Every picture that is made of frames that follow one another is such a  *)
(* window.                                                                 *)
THEOREM PicturesAreWindows == ViSpec => []PictureIsWindow
<1>. DEFINE Known == job = NoJob \/ job.of = "source" \/ SomePictures(job)
<1>1. ViInit => Known
  BY DEF ViInit
<1>2. Known /\ [ViNext]_<<part, job, lineVars, vars>> => Known'
  <2>1. ASSUME MakePicture PROVE Known'
    <3>1. CASE job' \in SourceJobs
      BY <3>1, JobsAreSources
    <3>2. CASE job' \in PictureJobs
      BY <3>2, JobsArePictures
    <3>. QED BY <2>1, <3>1, <3>2 DEF MakePicture
  <2>2. ASSUME Known, job' = job PROVE Known'
    BY <2>2
  <2>. QED BY <2>1, <2>2 DEF ViNext, ScanLines, ShowFrames
<1>3. Known => PictureIsWindow
  <2>1. NoJob.of = "none"
    BY DEF NoJob
  <2>2. job = NoJob \/ job.of = "source" => PictureIsWindow
    BY <2>1 DEF PictureIsWindow
  <2>3. SomePictures(job) => PictureIsWindow
    BY AnyPictureIsWindow
  <2>. QED BY <2>2, <2>3
<1>. QED BY <1>1, <1>2, <1>3, PTL DEF ViSpec
-----------------------------------------------------------------------------
(* The source of a picture: where it is sampled.                           *)

LEMMA DivMonotone ==
    ASSUME NEW a \in Int, NEW b \in Int, a <= b, NEW n \in Nat \ {0}
    PROVE  a \div n <= b \div n
<1>. DEFINE q == a \div n
<1>1. q \in Int /\ q * n <= a /\ q * n \in Int
  BY DivFacts
<1>. HIDE DEF q
<1>2. b >= q * n
  BY <1>1
<1>3. b \div n >= q
  BY <1>1, <1>2, DivAtLeast
<1>4. b \div n \in Int
  OBVIOUS
<1>. QED BY <1>1, <1>3, <1>4 DEF q

(* A bound that is scaled keeps to the scaled pixel. *)
LEMMA ScaledDiv ==
    ASSUME NEW a \in Int, NEW b \in Int, NEW n \in Nat \ {0}, NEW s \in Nat \ {0}, b <= a * s
    PROVE  b \div n <= (a \div n) * s + s - 1
<1>. DEFINE q == a \div n
<1>1. q \in Int /\ a + 1 <= q * n + n
  BY DivFacts
<1>. HIDE DEF q
<1>2. q * n + n = (q + 1) * n
  BY <1>1
<1>3. PICK t \in Int : t = (q + 1) * n
  BY <1>1
<1>4. (a + 1) * s <= t * s
  BY <1>1, <1>2, <1>3, Monotone
<1>5. (a + 1) * s = a * s + s
  OBVIOUS
<1>6. t * s = ((q + 1) * s) * n
  BY <1>1, <1>3
<1>7. PICK u \in Int : u = (q + 1) * s
  BY <1>1
<1>8. u * n \in Int /\ a * s \in Int
  BY <1>7
<1>9. b < u * n
  BY <1>4, <1>5, <1>6, <1>7, <1>8
<1>10. ~ (b \div n >= u)
  BY <1>8, <1>9, DivAtLeast
<1>11. b \div n \in Int
  OBVIOUS
<1>12. u = q * s + s
  BY <1>1, <1>7
<1>. QED BY <1>1, <1>7, <1>10, <1>11, <1>12 DEF q

(* Back in pixels of the frame, what is near the last pixel is near. *)
LEMMA UnscaledDiv ==
    ASSUME NEW c \in Int, NEW m \in Int, NEW s \in Nat \ {0}, NEW k \in Nat
    PROVE  /\ c \div s \in Int
           /\ c <= m * s + s - 1 + k => c \div s <= m + k
           /\ c >= -k => c \div s >= -k
<1>1. c \div s \in Int
  OBVIOUS
<1>2. k * 1 <= k * s
  BY Monotone
<1>3. ASSUME c <= m * s + s - 1 + k PROVE c \div s <= m + k
  <2>1. PICK t \in Int : t = m + k + 1
    OBVIOUS
  <2>2. t * s = m * s + k * s + s
    BY <2>1
  <2>3. PICK u \in Int : u = m * s
    OBVIOUS
  <2>4. k * s \in Int
    OBVIOUS
  <2>5. c < t * s
    BY <1>2, <1>3, <2>2, <2>3, <2>4
  <2>6. ~ (c \div s >= t)
    BY <2>5, DivAtLeast
  <2>. QED BY <1>1, <2>1, <2>6
<1>4. ASSUME c >= -k PROVE c \div s >= -k
  <2>1. (-k) * s = -(k * s) /\ k * s \in Int
    OBVIOUS
  <2>2. c >= (-k) * s
    BY <1>2, <1>4, <2>1
  <2>. QED BY <2>2, DivAtLeast
<1>. QED BY <1>1, <1>3, <1>4

LEMMA SampledColumn ==
    ASSUME NEW regs \in FrameRegisters, NEW info \in LineRegisters, NEW l, l = Analyzed(regs, info),
           NEW s \in Nat \ {0}, NEW x \in Int
    PROVE  SampleX(l, s, x) = SampledX(regs, info, s, x)
<1>1. PICK start \in Int : start = info.h_start - regs.standard.h_offset
  BY AnalyzedFacts
<1>2. PICK i \in Int, a \in Int : i = info.x_start /\ a = info.x_add
  BY DEF LineRegisters
<1>3. l.x_add = a /\ (l.h_start = IF start >= 0 THEN start ELSE 0)
      /\ (l.x_start = IF start >= 0 THEN i ELSE i - start * a)
  BY <1>1, <1>2, AnalyzedFacts
<1>4. SampledX(regs, info, s, x) = i * s + a * (x - start * s)
  BY <1>1, <1>2 DEF SampledX
<1>5. SampleX(l, s, x) = (x - l.h_start * s) * a + l.x_start * s
  BY <1>3 DEF SampleX
<1>6. (x - start * s) * a + i * s = i * s + a * (x - start * s)
  OBVIOUS
<1>7. (x - 0 * s) * a + (i - start * a) * s = i * s + a * (x - start * s)
  OBVIOUS
<1>. QED BY <1>3, <1>4, <1>5, <1>6, <1>7

(* Frames whose lines are sampled where the registers say: those that      *)
(* start above the first line do so by whole rows of a field.              *)
StartsOnRow(regs) ==
    regs.v_start < regs.standard.offset => (regs.standard.offset - regs.v_start) % 2 = 0

LEMMA FrameOfRows ==
    ASSUME NEW regs \in FrameRegisters, NEW d, d = Decoded(regs), d.v_res > 0
    PROVE  /\ regs.v_start < EndOf(regs.standard)
           /\ FirstY(regs) \in Nat
           /\ d.max_y = (FirstY(regs) + d.v_res * regs.y_add) \div One /\ d.max_y \in Nat
<1>1. /\ regs.standard.offset \in Nat /\ regs.standard.res \in Nat /\ regs.standard.max_rows \in Nat
      /\ regs.v_start \in Nat /\ regs.v_end \in Nat /\ regs.y_start \in Nat /\ regs.y_add \in Nat
  BY DEF FrameRegisters, Standards
<1>2. PICK end \in Nat : end = EndOf(regs.standard)
  BY <1>1 DEF EndOf
<1>3. d.v_res = Height(regs.standard, regs.v_start, regs.v_end) /\ d.v_res \in Int
  BY RowFacts DEF Decoded
<1>4. regs.v_start < end
  <2>1. FirstRow(regs.standard, regs.v_start) \in Nat
    BY <1>1 DEF FirstRow, Least, EndOf
  <2>2. d.v_res <= (Least(regs.v_end, end) - Least(regs.v_start, end)) \div 2
    <3>1. (Least(regs.v_end, end) - Least(regs.v_start, end)) \div 2 \in Int
      BY <1>1, <1>2 DEF Least
    <3>. QED BY <1>1, <1>2, <1>3, <2>1, <3>1 DEF Height, Least
  <2>3. Least(regs.v_end, end) \in Int /\ Least(regs.v_end, end) <= end
    BY <1>1, <1>2 DEF Least
  <2>4. ASSUME regs.v_start >= end PROVE FALSE
    <3>1. Least(regs.v_start, end) = end
      BY <1>1, <1>2, <2>4 DEF Least
    <3>. QED BY <1>2, <1>3, <2>2, <2>3, <3>1
  <2>. QED BY <1>1, <1>2, <2>4
<1>5. PICK above \in Int : above = regs.standard.offset - Least(regs.v_start, EndOf(regs.standard))
  BY <1>1, <1>2 DEF Least
<1>6. PICK n \in Nat : n = Max({above \div 2, 0})
  <2>1. above \div 2 \in Int
    OBVIOUS
  <2>. QED BY <2>1, MaxOfTwo
<1>7. FirstY(regs) = regs.y_start + regs.y_add * n
  BY <1>5, <1>6 DEF FirstY
<1>8. FirstY(regs) \in Nat
  <2>1. regs.y_add * n \in Nat
    BY <1>1
  <2>. QED BY <1>1, <1>7, <2>1
<1>9. d.max_y = (FirstY(regs) + d.v_res * regs.y_add) \div One
  BY DEF Decoded
<1>10. d.max_y \in Nat
  <2>1. d.v_res * regs.y_add \in Nat
    BY <1>1, <1>3
  <2>2. PICK t \in Nat : t = FirstY(regs) + d.v_res * regs.y_add
    BY <1>8, <2>1
  <2>3. t \div One \in Nat
    <3>1. 0 \div One <= t \div One /\ 0 \div One = 0 /\ t \div One \in Int
      BY WidthAssumption, DivMonotone
    <3>. QED BY <3>1
  <2>. QED BY <1>9, <2>2, <2>3
<1>. QED BY <1>2, <1>4, <1>8, <1>9, <1>10

LEMMA SampledRow ==
    ASSUME NEW regs \in FrameRegisters, NEW d, d = Decoded(regs), d.v_res > 0, StartsOnRow(regs),
           NEW s \in Nat \ {0}, NEW y \in Int
    PROVE  SampleY(regs, s, y) = SampledY(regs, s, y + d.v_start * s)
<1>1. PICK off \in Nat, v \in Nat, y0 \in Nat, a \in Nat :
          off = regs.standard.offset /\ v = regs.v_start /\ y0 = regs.y_start /\ a = regs.y_add
  BY DEF FrameRegisters, Standards
<1>2. Least(v, EndOf(regs.standard)) = v
  BY <1>1, FrameOfRows DEF Least
<1>3. d.v_start = IF v < off THEN 0 ELSE (v - off) \div 2
  BY <1>1, <1>2 DEF Decoded, FirstRow
<1>4. PICK above \in Int : above = (off - v) \div 2
  OBVIOUS
<1>z. FirstY(regs) = y0 + a * (IF above >= 0 THEN above ELSE 0)
  <2>. DEFINE z == (regs.standard.offset - Least(regs.v_start, EndOf(regs.standard))) \div 2
  <2>1. z = above
    BY <1>1, <1>2, <1>4
  <2>2. FirstY(regs) = regs.y_start + regs.y_add * Max({z, 0})
    <3>1. FirstY(regs) = regs.y_start
            + regs.y_add * Max({(regs.standard.offset - Least(regs.v_start, EndOf(regs.standard))) \div 2, 0})
      BY Zenon DEF FirstY
    <3>. QED BY Zenon, <3>1
  <2>. DEFINE m == Max({z, 0})
  <2>. HIDE DEF z
  <2>3. m = IF above >= 0 THEN above ELSE 0
    BY <2>1, MaxOfTwo
  <2>4. FirstY(regs) = regs.y_start + regs.y_add * m
    BY Zenon, <2>2
  <2>. HIDE DEF m
  <2>5. FirstY(regs) = y0 + a * m
    BY <1>1, <2>4
  <2>. QED BY Zenon, <2>3, <2>5
<1>5. SampleY(regs, s, y) = y * a + FirstY(regs) * s
  BY <1>1 DEF SampleY
<1>6. SampledY(regs, s, y + d.v_start * s) = y0 * s + a * (y + d.v_start * s - ((v - off) \div 2) * s)
  <2>1. d.v_start \in Int /\ (v - off) \div 2 \in Int
    BY RowFacts
  <2>2. d.v_start * s \in Int /\ ((v - off) \div 2) * s \in Int
    BY <2>1
  <2>. QED BY <1>1, <2>1, <2>2 DEF SampledY
<1>7. CASE v >= off
  <2>1. PICK k \in Nat : k = (v - off) \div 2
    BY <1>7
  <2>2. above <= 0
    BY <1>4, <1>7
  <2>3. (IF above >= 0 THEN above ELSE 0) = 0
    BY <2>2
  <2>4. y * a + (y0 + a * 0) * s = y0 * s + a * (y + k * s - k * s)
    BY <2>1
  <2>. QED BY <1>z, <1>3, <1>5, <1>6, <1>7, <2>1, <2>3, <2>4
<1>8. CASE v < off
  <2>1. PICK k \in Nat : off - v = 2 * k
    <3>1. (off - v) % 2 = 0
      BY <1>1, <1>8 DEF StartsOnRow
    <3>2. PICK n \in Nat : n = off - v
      BY <1>8
    <3>3. n = 2 * (n \div 2) /\ n \div 2 \in Nat
      BY <3>1, <3>2
    <3>. QED BY <3>2, <3>3
  <2>2. (off - v) \div 2 = k /\ (v - off) \div 2 = -k
    <3>1. v - off = 2 * (-k)
      BY <2>1
    <3>. QED BY <2>1, <3>1
  <2>3. (IF above >= 0 THEN above ELSE 0) = k
    BY <1>4, <2>2
  <2>4. y * a + (y0 + a * k) * s = y0 * s + a * (y + 0 * s - (-k) * s)
    BY <2>1
  <2>. QED BY <1>z, <1>3, <1>5, <1>6, <1>8, <2>2, <2>3, <2>4
<1>. QED BY <1>7, <1>8

(* What is drawn is sampled within what the stages were sized for. *)
LEMMA SampleBounds ==
    ASSUME NEW regs \in FrameRegisters, NEW d, d = Decoded(regs), NEW s \in Nat \ {0},
           NEW y \in Nat, y <= d.v_res * s - 1,
           NEW l, l = LineOf(regs, d.v_start + y \div s),
           NEW x \in l.h_start_clamp * s .. l.h_end_clamp * s - 1
    PROVE  /\ d.v_start + y \div s \in RowsOf(regs) /\ d.v_res > 0
           /\ d.max_x \in Nat /\ d.max_y \in Nat
           /\ SampleX(l, s, x) \div One \in 0 .. d.max_x * s + s - 1
           /\ SampleY(regs, s, y) \div One \in 0 .. d.max_y * s + s - 1
<1>1. d.v_start \in Nat /\ d.v_res \in Int /\ RowsOf(regs) = d.v_start .. d.v_start + d.v_res - 1
  BY RowFacts
<1>. One \in Nat \ {0}
  BY WidthAssumption
<1>2. PICK j \in Int : j = y \div s
  OBVIOUS
<1>3. j \in 0 .. d.v_res - 1
  <2>1. y \in 0 * s .. d.v_res * s - 1
    BY <1>1
  <2>. QED BY <1>1, <1>2, <2>1, DivBounds
<1>4. d.v_start + j \in RowsOf(regs) /\ d.v_start + j \in Int /\ d.v_res > 0
  BY <1>1, <1>3
<1>5. PICK info \in LineRegisters : l = Analyzed(regs, info)
  BY <1>2, <1>4, InfoType DEF LineOf
<1>6. /\ l.h_start \in Nat /\ l.h_end \in Int /\ l.h_start_clamp \in Nat /\ l.h_end_clamp \in Int
      /\ l.h_start <= l.h_start_clamp /\ l.h_end_clamp <= l.h_end /\ l.x_start \in Nat /\ l.x_add \in Nat
  BY <1>5, AnalyzedFacts
<1>7. PICK t \in Int : t = l.x_start + (l.h_end - l.h_start) * l.x_add
  <2>1. (l.h_end - l.h_start) * l.x_add \in Int
    BY <1>6
  <2>. QED BY <1>6, <2>1
<1>8. d.max_x \in Nat /\ t \div One <= d.max_x
  BY <1>2, <1>4, <1>7, DecodedFacts
<1>9. x - l.h_start * s \in Nat /\ x - l.h_start * s <= (l.h_end - l.h_start) * s
  <2>1. l.h_start * s <= l.h_start_clamp * s /\ l.h_end_clamp * s <= l.h_end * s
    BY <1>6, Monotone
  <2>2. /\ l.h_start * s \in Int /\ l.h_end * s \in Int /\ l.h_start_clamp * s \in Int
        /\ l.h_end_clamp * s \in Int /\ x \in Int
        /\ (l.h_end - l.h_start) * s = l.h_end * s - l.h_start * s
    BY <1>6
  <2>. QED BY <2>1, <2>2
<1>10. PICK u \in Nat : u = x - l.h_start * s
  BY <1>9
<1>11. PICK sx \in Nat : sx = SampleX(l, s, x)
  <2>1. SampleX(l, s, x) = u * l.x_add + l.x_start * s
    BY <1>10 DEF SampleX
  <2>2. u * l.x_add \in Nat /\ l.x_start * s \in Nat
    BY <1>6
  <2>. QED BY <2>1, <2>2
<1>12. sx <= t * s
  <2>1. u * l.x_add <= ((l.h_end - l.h_start) * s) * l.x_add
    <3>1. (l.h_end - l.h_start) * s \in Int
      BY <1>6
    <3>. QED BY <1>6, <1>9, <1>10, <3>1, Monotone
  <2>2. sx = u * l.x_add + l.x_start * s
    BY <1>10, <1>11 DEF SampleX
  <2>3. PICK w \in Int : w = l.h_end - l.h_start
    BY <1>6
  <2>4. (l.x_start + w * l.x_add) * s = l.x_start * s + (w * s) * l.x_add
    BY <1>6
  <2>5. u * l.x_add \in Int /\ l.x_start * s \in Int /\ (w * s) * l.x_add \in Int
    BY <1>6
  <2>6. t * s = l.x_start * s + (w * s) * l.x_add
    BY <1>7, <2>3, <2>4
  <2>. QED BY <2>1, <2>2, <2>3, <2>5, <2>6
<1>13. PICK sy \in Nat : sy = SampleY(regs, s, y)
  <2>1. SampleY(regs, s, y) = y * regs.y_add + FirstY(regs) * s /\ FirstY(regs) \in Nat /\ regs.y_add \in Nat
    BY <1>4, FrameOfRows DEF SampleY, FrameRegisters
  <2>2. y * regs.y_add \in Nat /\ FirstY(regs) * s \in Nat
    BY <2>1
  <2>. QED BY <2>1, <2>2
<1>14. PICK b \in Int : b = FirstY(regs) + d.v_res * regs.y_add
  <2>1. FirstY(regs) \in Nat /\ regs.y_add \in Nat
    BY <1>4, FrameOfRows DEF FrameRegisters
  <2>2. d.v_res * regs.y_add \in Int
    BY <1>1, <2>1
  <2>. QED BY <2>1, <2>2
<1>15. d.max_y = b \div One /\ d.max_y \in Nat
  BY <1>4, <1>14, FrameOfRows
<1>16. sy <= b * s
  <2>1. PICK a \in Nat, f \in Nat : a = regs.y_add /\ f = FirstY(regs)
    BY <1>4, FrameOfRows DEF FrameRegisters
  <2>2. sy = y * a + f * s
    BY <1>13, <2>1 DEF SampleY
  <2>3. PICK w \in Int : w = d.v_res * s
    BY <1>1
  <2>4. y * a <= w * a
    BY <2>3, Monotone
  <2>5. (f + d.v_res * a) * s = f * s + (d.v_res * s) * a
    BY <1>1
  <2>6. b * s = f * s + w * a
    BY <1>14, <2>1, <2>3, <2>5
  <2>7. y * a \in Int /\ w * a \in Int /\ f * s \in Int
    OBVIOUS
  <2>. QED BY <2>2, <2>4, <2>6, <2>7
<1>17. sx \div One >= 0 /\ sy \div One >= 0 /\ sx \div One \in Int /\ sy \div One \in Int
  <2>1. \A n \in Nat : n \div One >= 0 /\ n \div One \in Int
    <3>1. TAKE n \in Nat
    <3>2. n >= 0 * One /\ n \div One \in Int
      OBVIOUS
    <3>. QED BY <3>2, DivAtLeast
  <2>. QED BY <2>1
<1>18. sx \div One <= d.max_x * s + s - 1
  <2>1. sx \div One <= (t \div One) * s + s - 1
    BY <1>12, ScaledDiv
  <2>2. PICK k \in Int : k = t \div One
    OBVIOUS
  <2>3. k * s <= d.max_x * s /\ k * s \in Int /\ d.max_x * s \in Int
    BY <1>8, <2>2, Monotone
  <2>. QED BY <1>17, <2>1, <2>2, <2>3
<1>19. sy \div One <= d.max_y * s + s - 1
  BY <1>15, <1>16, ScaledDiv
<1>20. d.max_x * s \in Int /\ d.max_y * s \in Int
  BY <1>8, <1>15
<1>. QED BY <1>2, <1>4, <1>8, <1>11, <1>13, <1>15, <1>17, <1>18, <1>19, <1>20

(* The filters: what a texel of the last image before scaling is made of,  *)
(* relative to it.                                                         *)
Filter(divot, slice) ==
    IF divot THEN {<<n[1] + m, n[2]>> : n \in Around(slice), m \in -1 .. 1}
    ELSE {<<n[1], n[2]>> : n \in Around(slice)}

LEMMA AroundFacts ==
    ASSUME NEW slice \in {0, 1}
    PROVE  /\ Around(slice) \subseteq (-2 .. 2) \X (-1 .. 1)
           /\ Around(slice) \subseteq Around(0)
<1>1. Around(0) = ((-1 .. 1) \X (-1 .. 1)) \union {<<-2, 0>>, <<2, 0>>}
  BY DEF Around
<1>2. Around(slice) \subseteq Around(0)
  BY <1>1 DEF Around
<1>3. Around(0) \subseteq (-2 .. 2) \X (-1 .. 1)
  BY <1>1
<1>. QED BY <1>2, <1>3

LEMMA FilterFacts ==
    ASSUME NEW divot \in BOOLEAN, NEW slice \in {0, 1}, NEW q \in Filter(divot, slice)
    PROVE  /\ q \in Filter(divot, 0)
           /\ q = <<q[1], q[2]>> /\ q[2] \in -1 .. 1
           /\ q[1] \in -2 - Bit(divot) .. 2 + Bit(divot)
<1>1. CASE divot
  <2>1. PICK n \in Around(slice), m \in -1 .. 1 : q = <<n[1] + m, n[2]>>
    BY <1>1 DEF Filter
  <2>2. n \in Around(0) /\ n[1] \in -2 .. 2 /\ n[2] \in -1 .. 1
    BY AroundFacts
  <2>3. q[1] = n[1] + m /\ q[2] = n[2]
    BY <2>1
  <2>. QED BY <1>1, <2>1, <2>2, <2>3 DEF Filter, Bit
<1>2. CASE ~divot
  <2>1. PICK n \in Around(slice) : q = <<n[1], n[2]>>
    BY <1>2 DEF Filter
  <2>2. n \in Around(0) /\ n[1] \in -2 .. 2 /\ n[2] \in -1 .. 1
    BY AroundFacts
  <2>3. q[1] = n[1] /\ q[2] = n[2]
    BY <2>1
  <2>. QED BY <1>2, <2>1, <2>2, <2>3 DEF Filter, Bit
<1>. QED BY <1>1, <1>2

(* A texel that the stages hold is made of all of its neighbours. *)
LEMMA AaFacts ==
    ASSUME NEW d, NEW divot \in BOOLEAN, NEW slice \in {0, 1}, d.max_x \in Nat, d.max_y \in Nat,
           NEW x \in 0 .. d.max_x + 1 + 2 * Bit(divot), NEW y \in 0 .. d.max_y + 1
    PROVE  AaPixel(d, divot, <<x, y>>, slice) =
               {<<x + n[1] - Bit(divot), y + n[2]>> : n \in Around(slice)}
<1>1. Bit(divot) \in {0, 1} /\ XOff(divot) = -2 - Bit(divot) /\ YOff = -2
  BY DEF Bit, XOff, YOff
<1>2. PICK b \in {0, 1} : b = Bit(divot)
  BY <1>1
<1>3. In(<<x, y>>, AaSize(d, divot))
  BY <1>2 DEF In, AaSize
<1>4. ASSUME NEW n \in Around(slice)
      PROVE  Extracted(d, divot, <<x + 2 + n[1], y + 2 + n[2]>>) = <<x + n[1] - b, y + n[2]>>
  <2>1. n[1] \in -2 .. 2 /\ n[2] \in -1 .. 1
    BY AroundFacts
  <2>2. PICK i \in -2 .. 2, j \in -1 .. 1 : i = n[1] /\ j = n[2]
    BY <2>1
  <2>3. x + 2 + i \in 0 .. d.max_x + 6 + 2 * b - 1 /\ y + 2 + j \in 0 .. d.max_y + 5 - 1
    BY <1>2
  <2>4. In(<<x + 2 + i, y + 2 + j>>, ExtractSize(d, divot))
    BY <1>2, <2>3 DEF In, ExtractSize
  <2>5. Extracted(d, divot, <<x + 2 + i, y + 2 + j>>) = <<x + 2 + i + XOff(divot), y + 2 + j + YOff>>
    BY <2>4 DEF Extracted
  <2>6. x + 2 + i + XOff(divot) = x + i - b /\ y + 2 + j + YOff = y + j
    BY <1>1, <1>2
  <2>. QED BY <2>2, <2>5, <2>6
<1>5. AaPixel(d, divot, <<x, y>>, slice) =
          {Extracted(d, divot, <<x + 2 + n[1], y + 2 + n[2]>>) : n \in Around(slice)}
  BY <1>3 DEF AaPixel
<1>. QED BY <1>2, <1>4, <1>5

Moved(S, x, y) == {<<x + q[1], y + q[2]>> : q \in S}

LEMMA SourceFacts ==
    ASSUME NEW d, NEW divot \in BOOLEAN, NEW slice \in {0, 1}, d.max_x \in Nat, d.max_y \in Nat,
           NEW x \in 0 .. d.max_x + 1, NEW y \in 0 .. d.max_y + 1
    PROVE  Source(d, divot, <<x, y>>, slice) = Moved(Filter(divot, slice), x, y)
<1>0. \A n \in Around(slice) : n[1] \in Int /\ n[2] \in Int
  BY AroundFacts
<1>1. CASE divot
  <2>1. \A i \in 0 .. 2 : AaPixel(d, divot, <<x + i, y>>, slice)
                              = {<<x + i + n[1] - 1, y + n[2]>> : n \in Around(slice)}
    <3>1. SUFFICES ASSUME NEW i \in 0 .. 2
                   PROVE  AaPixel(d, divot, <<x + i, y>>, slice)
                              = {<<x + i + n[1] - 1, y + n[2]>> : n \in Around(slice)}
      OBVIOUS
    <3>2. Bit(divot) = 1
      BY <1>1 DEF Bit
    <3>3. PICK k \in Int : k = x + i
      OBVIOUS
    <3>4. k \in 0 .. d.max_x + 1 + 2 * Bit(divot)
      BY <3>1, <3>2, <3>3
    <3>5. AaPixel(d, divot, <<k, y>>, slice) = {<<k + n[1] - Bit(divot), y + n[2]>> : n \in Around(slice)}
      BY <3>4, AaFacts
    <3>. QED BY <3>2, <3>3, <3>5
  <2>2. Source(d, divot, <<x, y>>, slice) = UNION {AaPixel(d, divot, <<x + i, y>>, slice) : i \in 0 .. 2}
    <3>1. In(<<x, y>>, DivotSize(d))
      BY DEF In, DivotSize
    <3>2. divot = TRUE
      BY <1>1
    <3>. QED BY <1>1, <3>1, <3>2, Zenon DEF Source, DivotPixel
  <2>3. ASSUME NEW c \in Source(d, divot, <<x, y>>, slice)
        PROVE  c \in Moved(Filter(divot, slice), x, y)
    <3>0. PICK i \in 0 .. 2 : c \in AaPixel(d, divot, <<x + i, y>>, slice)
      BY <2>2, <2>3
    <3>1. PICK n \in Around(slice) : c = <<x + i + n[1] - 1, y + n[2]>>
      BY <2>1, <3>0
    <3>2. PICK m \in -1 .. 1 : m = i - 1
      OBVIOUS
    <3>3. PICK q : q = <<n[1] + m, n[2]>>
      OBVIOUS
    <3>4. q \in Filter(divot, slice) /\ q[1] = n[1] + m /\ q[2] = n[2]
      BY <1>1, <3>1, <3>3 DEF Filter
    <3>5. x + q[1] = x + i + n[1] - 1
      BY <1>0, <3>2, <3>4
    <3>. QED BY <3>1, <3>4, <3>5 DEF Moved
  <2>4. ASSUME NEW q \in Filter(divot, slice)
        PROVE  <<x + q[1], y + q[2]>> \in Source(d, divot, <<x, y>>, slice)
    <3>1. PICK n \in Around(slice), m \in -1 .. 1 : q = <<n[1] + m, n[2]>>
      BY <1>1, <2>4 DEF Filter
    <3>2. PICK i \in 0 .. 2 : m = i - 1
      <4>1. m + 1 \in 0 .. 2 /\ m = (m + 1) - 1
        OBVIOUS
      <4>. QED BY <4>1
    <3>3. q[1] = n[1] + m /\ q[2] = n[2]
      BY <3>1
    <3>4. x + q[1] = x + i + n[1] - 1
      BY <1>0, <3>2, <3>3
    <3>5. <<x + i + n[1] - 1, y + n[2]>> \in AaPixel(d, divot, <<x + i, y>>, slice)
      BY <2>1
    <3>. QED BY <2>2, <3>3, <3>4, <3>5
  <2>. QED BY <2>3, <2>4 DEF Moved
<1>2. CASE ~divot
  <2>1. Bit(divot) = 0
    BY <1>2 DEF Bit
  <2>2. AaPixel(d, divot, <<x, y>>, slice)
            = {<<x + n[1] - Bit(divot), y + n[2]>> : n \in Around(slice)}
    <3>1. x \in 0 .. d.max_x + 1 + 2 * Bit(divot)
      BY <2>1
    <3>. QED BY <3>1, AaFacts
  <2>3. AaPixel(d, divot, <<x, y>>, slice) = {<<x + n[1], y + n[2]>> : n \in Around(slice)}
    BY <1>0, <2>1, <2>2
  <2>4. Source(d, divot, <<x, y>>, slice) = AaPixel(d, divot, <<x, y>>, slice)
    BY <1>2 DEF Source
  <2>5. Filter(divot, slice) = {<<n[1], n[2]>> : n \in Around(slice)}
    BY <1>2 DEF Filter
  <2>6. {<<x + q[1], y + q[2]>> : q \in Filter(divot, slice)}
            = {<<x + n[1], y + n[2]>> : n \in Around(slice)}
    <3>1. \A n \in Around(slice) : n = <<n[1], n[2]>>
      BY AroundFacts
    <3>2. Filter(divot, slice) = Around(slice)
      BY <2>5, <3>1
    <3>. QED BY <3>2
  <2>. QED BY <2>3, <2>4, <2>6 DEF Moved
<1>. QED BY <1>1, <1>2

LEMMA FourSources ==
    ASSUME NEW d, NEW divot \in BOOLEAN, NEW slice \in {0, 1}, d.max_x \in Nat, d.max_y \in Nat,
           NEW x \in 0 .. d.max_x, NEW y \in 0 .. d.max_y
    PROVE  /\ Source(d, divot, <<x, y>>, 0) = Moved(Filter(divot, 0), x, y)
           /\ Source(d, divot, <<x + 1, y>>, 0) = Moved(Filter(divot, 0), x + 1, y)
           /\ Source(d, divot, <<x, y + 1>>, slice) = Moved(Filter(divot, slice), x, y + 1)
           /\ Source(d, divot, <<x + 1, y + 1>>, slice) = Moved(Filter(divot, slice), x + 1, y + 1)
<1>1. PICK right \in 0 .. d.max_x + 1, below \in 0 .. d.max_y + 1 : right = x + 1 /\ below = y + 1
  OBVIOUS
<1>2. x \in 0 .. d.max_x + 1 /\ y \in 0 .. d.max_y + 1
  OBVIOUS
<1>3. PICK none \in {0, 1} : none = 0
  OBVIOUS
<1>4. Source(d, divot, <<x, y>>, none) = Moved(Filter(divot, none), x, y)
  BY <1>2, SourceFacts
<1>5. Source(d, divot, <<right, y>>, none) = Moved(Filter(divot, none), right, y)
  BY <1>2, SourceFacts
<1>6. Source(d, divot, <<x, below>>, slice) = Moved(Filter(divot, slice), x, below)
  BY <1>2, SourceFacts
<1>7. Source(d, divot, <<right, below>>, slice) = Moved(Filter(divot, slice), right, below)
  BY <1>2, SourceFacts
<1>. QED BY <1>1, <1>3, <1>4, <1>5, <1>6, <1>7

(* All that one pixel of the picture is made of. *)
IsDivot(divot, regs, o) == divot = (regs.divot /\ o.divot)

SampledAt(X, Y, slice, d, l, regs, s, x, y) ==
    /\ regs \in FrameRegisters /\ s \in Nat \ {0} /\ x \in Nat /\ y \in Nat
    /\ d = Decoded(regs) /\ d.max_x \in Nat /\ d.max_y \in Nat
    /\ l = LineOf(regs, d.v_start + y \div s)
    /\ X \in 0 .. d.max_x * s + s - 1 /\ X = SampleX(l, s, x) \div One
    /\ Y \in 0 .. d.max_y * s + s - 1 /\ Y = SampleY(regs, s, y) \div One
    /\ slice = NextSlice(regs, s, y)

LEMMA FootprintFacts ==
    ASSUME NEW X, NEW Y, NEW slice, NEW d, NEW l, NEW regs, NEW s, NEW x, NEW y,
           SampledAt(X, Y, slice, d, l, regs, s, x, y),
           NEW o, o.divot \in BOOLEAN, NEW divot, IsDivot(divot, regs, o)
    PROVE  /\ divot \in BOOLEAN /\ slice \in {0, 1}
           /\ Footprint(regs, o, s, x, y) =
                  Moved(Filter(divot, 0), X, Y)
                  \union Moved(Filter(divot, 0), X + 1, Y)
                  \union Moved(Filter(divot, slice), X, Y + 1)
                  \union Moved(Filter(divot, slice), X + 1, Y + 1)
<1>0. /\ regs \in FrameRegisters /\ s \in Nat \ {0} /\ d = Decoded(regs) /\ d.max_x \in Nat /\ d.max_y \in Nat
      /\ X \in 0 .. d.max_x * s + s - 1 /\ Y \in 0 .. d.max_y * s + s - 1
      /\ l = LineOf(regs, d.v_start + y \div s)
      /\ X = SampleX(l, s, x) \div One /\ Y = SampleY(regs, s, y) \div One
      /\ slice = NextSlice(regs, s, y)
  BY DEF SampledAt
<1>1. regs.divot \in BOOLEAN
  BY <1>0 DEF FrameRegisters
<1>2. divot \in BOOLEAN
  BY <1>1 DEF IsDivot
<1>3. slice \in {0, 1}
  BY <1>0 DEF NextSlice
<1>4. PICK e : e = Scaled(d, s)
  OBVIOUS
<1>5. e.max_x = d.max_x * s + s - 1 /\ e.max_y = d.max_y * s + s - 1
  BY <1>0, <1>4 DEF Scaled, Decoded
<1>6. e.max_x \in Nat /\ e.max_y \in Nat /\ X \in 0 .. e.max_x /\ Y \in 0 .. e.max_y
  <2>1. d.max_x * s \in Nat /\ d.max_y * s \in Nat
    BY <1>0
  <2>. QED BY <1>0, <1>5, <2>1
<1>8. /\ Source(e, divot, <<X, Y>>, 0) = Moved(Filter(divot, 0), X, Y)
      /\ Source(e, divot, <<X + 1, Y>>, 0) = Moved(Filter(divot, 0), X + 1, Y)
      /\ Source(e, divot, <<X, Y + 1>>, slice) = Moved(Filter(divot, slice), X, Y + 1)
      /\ Source(e, divot, <<X + 1, Y + 1>>, slice) = Moved(Filter(divot, slice), X + 1, Y + 1)
  BY <1>2, <1>3, <1>6, FourSources
<1>9. Footprint(regs, o, s, x, y) =
          Source(e, divot, <<X, Y>>, 0) \union Source(e, divot, <<X + 1, Y>>, 0)
          \union (Source(e, divot, <<X, Y + 1>>, slice) \union Source(e, divot, <<X + 1, Y + 1>>, slice))
  <2>. DEFINE here == LineOf(regs, Decoded(regs).v_start + y \div s)
              At(i, j, k) == Source(Scaled(Decoded(regs), s), regs.divot /\ o.divot,
                                    <<SampleX(here, s, x) \div One + i, SampleY(regs, s, y) \div One + j>>, k)
              Lower(i) == At(i, 1, NextSlice(regs, s, y))
  <2>1. Footprint(regs, o, s, x, y) = At(0, 0, 0) \union At(1, 0, 0) \union UNION {Lower(i) : i \in {0, 1}}
    BY DEF Footprint
  <2>2. UNION {Lower(i) : i \in {0, 1}} = Lower(0) \union Lower(1)
    <3>. HIDE DEF Lower
    <3>. QED OBVIOUS
  <2>3. X + 0 = X /\ Y + 0 = Y
    BY <1>6
  <2>4. At(0, 0, 0) = Source(e, divot, <<X + 0, Y + 0>>, 0) /\ At(1, 0, 0) = Source(e, divot, <<X + 1, Y + 0>>, 0)
    BY <1>0, <1>4, Zenon DEF IsDivot
  <2>5. /\ Lower(0) = Source(e, divot, <<X + 0, Y + 1>>, slice)
        /\ Lower(1) = Source(e, divot, <<X + 1, Y + 1>>, slice)
    BY <1>0, <1>4, Zenon DEF IsDivot
  <2>. HIDE DEF At, Lower
  <2>6. /\ At(0, 0, 0) = Source(e, divot, <<X, Y>>, 0) /\ At(1, 0, 0) = Source(e, divot, <<X + 1, Y>>, 0)
        /\ Lower(0) = Source(e, divot, <<X, Y + 1>>, slice)
    BY <2>3, <2>4, <2>5, Zenon
  <2>. QED BY <2>1, <2>2, <2>5, <2>6, Zenon
<1>10. \A A, B, C, D : A \union B \union (C \union D) = A \union B \union C \union D
  OBVIOUS
<1>11. Footprint(regs, o, s, x, y) =
           Moved(Filter(divot, 0), X, Y) \union Moved(Filter(divot, 0), X + 1, Y)
           \union (Moved(Filter(divot, slice), X, Y + 1) \union Moved(Filter(divot, slice), X + 1, Y + 1))
  BY <1>8, <1>9, Zenon
<1>. QED BY <1>2, <1>3, <1>10, <1>11, Zenon

LEMMA ReachFacts ==
    ASSUME NEW divot \in BOOLEAN, NEW X \in Int, NEW Y \in Int
    PROVE  Moved(Reach(divot), X, Y) =
               Moved(Filter(divot, 0), X, Y)
               \union Moved(Filter(divot, 0), X + 1, Y)
               \union Moved(Filter(divot, 0), X, Y + 1)
               \union Moved(Filter(divot, 0), X + 1, Y + 1)
<1>1. \A q \in Filter(divot, 0) : q[1] \in Int /\ q[2] \in Int
  <2>1. Bit(divot) \in {0, 1}
    BY DEF Bit
  <2>. QED BY <2>1, FilterFacts
<1>2. Reach(divot) = {<<i + q[1], j + q[2]>> : i \in {0, 1}, j \in {0, 1}, q \in Filter(divot, 0)}
  <2>0. \A n \in Around(0) : n[1] \in Int /\ n[2] \in Int
    BY AroundFacts
  <2>1. CASE divot
    <3>1. Filter(divot, 0) = {<<n[1] + m, n[2]>> : n \in Around(0), m \in -1 .. 1}
      BY <2>1 DEF Filter
    <3>2. Reach(divot) = {<<i + n[1] + m, j + n[2]>> : i \in {0, 1}, j \in {0, 1}, n \in Around(0), m \in -1 .. 1}
      BY <2>1 DEF Reach, FullReach
    <3>3. \A n \in Around(0), m \in -1 .. 1 :
              LET q == <<n[1] + m, n[2]>>
              IN  q[1] = n[1] + m /\ q[2] = n[2] /\ \A i \in {0, 1} : i + n[1] + m = i + (n[1] + m)
      BY <2>0
    <3>4. ASSUME NEW t \in Reach(divot)
          PROVE  t \in {<<i + q[1], j + q[2]>> : i \in {0, 1}, j \in {0, 1}, q \in Filter(divot, 0)}
      <4>1. PICK i \in {0, 1}, j \in {0, 1}, n \in Around(0), m \in -1 .. 1 : t = <<i + n[1] + m, j + n[2]>>
        BY <3>2, <3>4
      <4>2. PICK q : q = <<n[1] + m, n[2]>>
        OBVIOUS
      <4>3. q \in Filter(divot, 0)
        BY <3>1, <4>1, <4>2
      <4>4. t = <<i + q[1], j + q[2]>>
        BY <3>3, <4>1, <4>2
      <4>. QED BY <4>1, <4>3, <4>4
    <3>5. ASSUME NEW t \in {<<i + q[1], j + q[2]>> : i \in {0, 1}, j \in {0, 1}, q \in Filter(divot, 0)}
          PROVE  t \in Reach(divot)
      <4>1. PICK i \in {0, 1}, j \in {0, 1}, q \in Filter(divot, 0) : t = <<i + q[1], j + q[2]>>
        BY <3>5
      <4>2. PICK n \in Around(0), m \in -1 .. 1 : q = <<n[1] + m, n[2]>>
        BY <3>1, <4>1
      <4>3. t = <<i + n[1] + m, j + n[2]>>
        BY <3>3, <4>1, <4>2
      <4>. QED BY <3>2, <4>1, <4>2, <4>3
    <3>. QED BY <3>4, <3>5
  <2>2. CASE ~divot
    <3>1. \A n \in Around(0) : n = <<n[1], n[2]>>
      BY AroundFacts
    <3>2. Filter(divot, 0) = Around(0)
      BY <2>2, <3>1 DEF Filter
    <3>. QED BY <2>2, <3>2 DEF Reach, PlainReach
  <2>. QED BY <2>1, <2>2
<1>3. \A i \in {0, 1}, j \in {0, 1}, q \in Filter(divot, 0) :
          LET n == <<i + q[1], j + q[2]>>
          IN  X + n[1] = X + i + q[1] /\ Y + n[2] = Y + j + q[2]
  BY <1>1
<1>4. X + 0 = X /\ Y + 0 = Y
  OBVIOUS
<1>. DEFINE Part(i, j) == Moved(Filter(divot, 0), X + i, Y + j)
            All == Moved(Reach(divot), X, Y)
<1>5. ASSUME NEW c \in All PROVE \E i \in {0, 1}, j \in {0, 1} : c \in Part(i, j)
  <2>1. PICK n \in Reach(divot) : c = <<X + n[1], Y + n[2]>>
    BY <1>5 DEF Moved
  <2>2. PICK i \in {0, 1}, j \in {0, 1}, q \in Filter(divot, 0) : n = <<i + q[1], j + q[2]>>
    BY <1>2, <2>1
  <2>3. c = <<X + i + q[1], Y + j + q[2]>>
    BY <1>3, <2>1, <2>2
  <2>. QED BY <2>2, <2>3 DEF Moved
<1>6. ASSUME NEW i \in {0, 1}, NEW j \in {0, 1}, NEW c \in Part(i, j) PROVE c \in All
  <2>1. PICK q \in Filter(divot, 0) : c = <<X + i + q[1], Y + j + q[2]>>
    BY <1>6 DEF Moved
  <2>2. PICK n : n = <<i + q[1], j + q[2]>>
    OBVIOUS
  <2>3. n \in Reach(divot) /\ c = <<X + n[1], Y + n[2]>>
    BY <1>2, <1>3, <1>6, <2>1, <2>2
  <2>. QED BY <2>3 DEF Moved
<1>7. /\ Part(0, 0) = Moved(Filter(divot, 0), X, Y)
      /\ Part(1, 0) = Moved(Filter(divot, 0), X + 1, Y)
      /\ Part(0, 1) = Moved(Filter(divot, 0), X, Y + 1)
      /\ Part(1, 1) = Moved(Filter(divot, 0), X + 1, Y + 1)
  BY <1>4
<1>. HIDE DEF Part, All
<1>8. All = Part(0, 0) \union Part(1, 0) \union Part(0, 1) \union Part(1, 1)
  BY <1>5, <1>6
<1>. QED BY <1>7, <1>8 DEF All

(* The memory behind a pixel.  What lines that were latched reach beyond   *)
(* the frame's own registers is little, where the picture is upscaled.     *)
Unlatched(regs) == [regs EXCEPT !.ended = FALSE]
LinesStayNear(regs) ==
    Decoded(regs).max_x
        <= Decoded(Unlatched(regs)).max_x + (Decoded(regs).max_y + 6) * regs.width

LEMMA RangeFacts ==
    ASSUME NEW regs \in FrameRegisters, regs.origin # 0, ~Invisible(regs), NEW d, d = Decoded(regs)
    PROVE  /\ MemoryRange(regs).offset =
                  (regs.origin \div regs.pixel) * regs.pixel
                      + (-2 - Bit(regs.divot) - 2 * regs.width) * regs.pixel
           /\ MemoryRange(regs).length =
                  ((d.max_y + 5) * regs.width + d.max_x + 6 + 2 * Bit(regs.divot)) * regs.pixel
<1>1. regs.width \in Int /\ Bit(regs.divot) \in Int /\ regs.pixel \in Int
  BY DEF FrameRegisters, Bit
<1>2. XOff(regs.divot) = -2 - Bit(regs.divot) /\ YOff = -2
  BY DEF XOff, YOff, Bit
<1>3. /\ MemoryRange(regs).offset = (regs.origin \div regs.pixel) * regs.pixel
                                        + (XOff(regs.divot) + YOff * regs.width) * regs.pixel
      /\ MemoryRange(regs).length =
             ((d.max_y + 5) * regs.width + d.max_x + 6 + 2 * Bit(regs.divot)) * regs.pixel
  BY DEF MemoryRange
<1>4. XOff(regs.divot) + YOff * regs.width = -2 - Bit(regs.divot) - 2 * regs.width
  BY <1>1, <1>2
<1>. QED BY <1>3, <1>4

(* Pixels of the image, counted from its origin, and their bytes. *)
LEMMA BytesInside ==
    ASSUME NEW base \in Int, NEW lo \in Int, NEW e \in Int, NEW n \in Int, NEW pixel \in {2, 4},
           lo <= e, e + 1 <= lo + n
    PROVE  LET first == base * pixel + lo * pixel
           IN  (base + e) * pixel \in first .. first + n * pixel - 1
  OBVIOUS

LEMMA BytesInsideUpscaled ==
    ASSUME NEW base \in Int, NEW lo \in Int, NEW e \in Int, NEW n \in Nat, NEW pixel \in {2, 4},
           lo <= e, e - lo + 7 <= 2 * n
    PROVE  LET first == ((base * pixel + lo * pixel) \div 4) * 4
           IN  (base + e) * pixel \in first .. first + (n * pixel) * pixel - 1
<1>1. PICK b \in Int : b = base * pixel + lo * pixel
  BY DivBounds
<1>2. PICK first \in Int : first = (b \div 4) * 4
  OBVIOUS
<1>3. first <= b /\ b <= first + 3
  BY <1>2
<1>4. PICK a \in Int : a = (base + e) * pixel
  OBVIOUS
<1>5. a >= b /\ a - b = (e - lo) * pixel
  BY <1>1, <1>4
<1>6. CASE pixel = 2
  <2>1. a - b = 2 * (e - lo) /\ (n * pixel) * pixel = 4 * n
    BY <1>5, <1>6
  <2>. QED BY <1>1, <1>2, <1>3, <1>4, <1>5, <2>1
<1>7. CASE pixel = 4
  <2>1. a - b = 4 * (e - lo) /\ (n * pixel) * pixel = 16 * n
    BY <1>5, <1>7
  <2>. QED BY <1>1, <1>2, <1>3, <1>4, <1>5, <2>1
<1>. QED BY <1>6, <1>7

LEMMA BytesAreCurrent ==
    ASSUME NEW regs \in FrameRegisters, regs.origin # 0, NEW s \in Nat \ {0},
           NEW d, d = Decoded(regs), d.v_res > 0, ~Invisible(regs), ~Forgotten(regs, s),
           s > 1 => LinesStayNear(regs),
           NEW b \in 0 .. Bit(regs.divot),
           NEW c1 \in -2 - b .. d.max_x * s + s - 1 + 3 + b, NEW c2 \in -1 .. d.max_y * s + s - 1 + 2
    PROVE  ByteOf(regs, s, <<c1, c2>>) \in Current(regs, s)
<1>1. PICK B \in {0, 1} : B = Bit(regs.divot)
  BY DEF Bit
<1>2. d.max_x \in Nat /\ d.max_y \in Nat
  BY DecodedFacts, FrameOfRows
<1>3. PICK w \in Nat, pixel \in {2, 4}, base \in Int :
          w = regs.width /\ pixel = regs.pixel /\ base = regs.origin \div regs.pixel
  BY DEF FrameRegisters
<1>4. PICK e1 \in Int, e2 \in Int : e1 = c1 \div s /\ e2 = c2 \div s
  <2>1. c1 \in Int /\ c2 \in Int
    <3>1. d.max_x * s \in Int /\ d.max_y * s \in Int
      BY <1>2
    <3>. QED BY <1>1, <3>1
  <2>. QED BY <2>1, UnscaledDiv
<1>5. /\ e1 >= -2 - B /\ e1 <= d.max_x + 3 + B
      /\ e2 >= -1 /\ e2 <= d.max_y + 2
  <2>1. PICK mx \in Int, my \in Int : mx = d.max_x * s /\ my = d.max_y * s
    BY <1>2
  <2>2. PICK k1 \in Nat, k2 \in Nat : k1 = 2 + b /\ k2 = 3 + b /\ b <= B
    BY <1>1
  <2>3. c1 \in Int /\ c1 >= -k1 /\ c1 <= mx + s - 1 + k2
    BY <1>1, <2>1, <2>2
  <2>4. c2 \in Int /\ c2 >= -1 /\ c2 <= my + s - 1 + 2
    BY <2>1
  <2>5. e1 >= -k1
    BY <1>4, <2>3, UnscaledDiv
  <2>6. e1 <= d.max_x + k2
    BY <1>2, <1>4, <2>1, <2>3, UnscaledDiv
  <2>7. e2 >= -1
    <3>1. PICK k \in Nat : k = 1
      OBVIOUS
    <3>2. c2 >= -k
      BY <2>4, <3>1
    <3>3. e2 >= -k
      BY <1>4, <2>4, <3>2, UnscaledDiv
    <3>. QED BY <3>1, <3>3
  <2>8. e2 <= d.max_y + 2
    <3>1. PICK k \in Nat : k = 2
      OBVIOUS
    <3>2. c2 <= my + s - 1 + k
      BY <2>4, <3>1
    <3>3. e2 <= d.max_y + k
      BY <1>2, <1>4, <2>1, <2>4, <3>2, UnscaledDiv
    <3>. QED BY <3>1, <3>3
  <2>. QED BY <1>1, <1>2, <2>2, <2>5, <2>6, <2>7, <2>8
<1>6. PICK p \in Int : p = e2 * w
  OBVIOUS
<1>7. PICK q \in Nat : q = d.max_y * w
  BY <1>2
<1>8. p >= -w /\ p <= q + 2 * w
  <2>1. (-1) * w <= e2 * w /\ e2 * w <= (d.max_y + 2) * w
    BY <1>2, <1>5, Monotone
  <2>2. (-1) * w = -w /\ (d.max_y + 2) * w = d.max_y * w + 2 * w
    BY <1>2
  <2>. QED BY <1>6, <1>7, <2>1, <2>2
<1>9. PICK e \in Int : e = p + e1
  OBVIOUS
<1>10. ByteOf(regs, s, <<c1, c2>>) = ((base + e) * pixel) % VideoBytes
  <2>1. ByteOf(regs, s, <<c1, c2>>) = ((base + e2 * w + e1) * pixel) % VideoBytes
    BY <1>3, <1>4 DEF ByteOf
  <2>2. base + e2 * w + e1 = base + e
    BY <1>6, <1>9
  <2>. QED BY <2>1, <2>2
<1>11. PICK lo \in Int : lo = -2 - B - 2 * w
  OBVIOUS
<1>12. lo <= e
  BY <1>5, <1>8, <1>9, <1>11
<1>13. ASSUME NEW r \in FrameRegisters, r.origin # 0, ~Invisible(r), NEW n \in Int,
              n = q + 5 * w + Decoded(r).max_x + 6 + 2 * B,
              r.width = w, r.pixel = pixel, r.origin = regs.origin, r.divot = regs.divot,
              Decoded(r).max_y = d.max_y, Decoded(r).max_x \in Nat
       PROVE  /\ MemoryRange(r).offset = base * pixel + lo * pixel
              /\ MemoryRange(r).length = n * pixel
  <2>1. /\ MemoryRange(r).offset = (r.origin \div r.pixel) * r.pixel
                                       + (-2 - Bit(r.divot) - 2 * r.width) * r.pixel
        /\ MemoryRange(r).length =
               ((Decoded(r).max_y + 5) * r.width + Decoded(r).max_x + 6 + 2 * Bit(r.divot)) * r.pixel
    BY <1>13, RangeFacts
  <2>2. (d.max_y + 5) * w = q + 5 * w
    BY <1>2, <1>7
  <2>3. (d.max_y + 5) * w + Decoded(r).max_x + 6 + 2 * B = n
    BY <1>13, <2>2
  <2>. QED BY <1>1, <1>3, <1>11, <1>13, <2>1, <2>3
<1>14. CASE s = 1
  <2>1. PICK n \in Nat : n = q + 5 * w + d.max_x + 6 + 2 * B
    BY <1>2
  <2>2. MemoryRange(regs).offset = base * pixel + lo * pixel /\ MemoryRange(regs).length = n * pixel
    BY <1>2, <1>3, <1>13, <2>1
  <2>3. e + 1 <= lo + n
    BY <1>2, <1>5, <1>8, <1>9, <1>11, <2>1
  <2>4. PICK first \in Int, bytes \in Int : first = base * pixel + lo * pixel /\ bytes = n * pixel
    BY DivBounds
  <2>5. (base + e) * pixel \in first .. first + bytes - 1
    BY <1>12, <2>3, <2>4, BytesInside
  <2>6. Current(regs, s) = {k % VideoBytes : k \in first .. first + bytes - 1}
    BY <1>14, <2>2, <2>4 DEF Current
  <2>. QED BY <1>10, <2>5, <2>6
<1>15. CASE s > 1
  <2>1. PICK r : r = Unlatched(regs)
    OBVIOUS
  <2>2. /\ r \in FrameRegisters /\ r.origin = regs.origin /\ r.width = w /\ r.pixel = pixel
        /\ r.divot = regs.divot
    BY <1>3, <2>1 DEF Unlatched, FrameRegisters
  <2>3. ~Invisible(r)
    BY <1>15, <2>1 DEF Forgotten, Unlatched
  <2>4. Decoded(r).max_x \in Nat
    BY <2>2, DecodedFacts
  <2>5. Decoded(r).max_y = d.max_y
    <3>1. /\ r.standard = regs.standard /\ r.v_start = regs.v_start /\ r.v_end = regs.v_end
          /\ r.y_start = regs.y_start /\ r.y_add = regs.y_add
      BY <2>1 DEF Unlatched, FrameRegisters
    <3>2. FirstY(r) = FirstY(regs)
      BY <3>1 DEF FirstY
    <3>. QED BY <3>1, <3>2 DEF Decoded
  <2>6. PICK n \in Nat : n = q + 5 * w + Decoded(r).max_x + 6 + 2 * B
    BY <2>4
  <2>7. MemoryRange(r).offset = base * pixel + lo * pixel /\ MemoryRange(r).length = n * pixel
    BY <1>13, <2>2, <2>3, <2>4, <2>5, <2>6
  <2>8. e - lo + 7 <= 2 * n
    <3>1. d.max_x <= Decoded(r).max_x + (d.max_y + 6) * w
      BY <1>3, <1>15, <2>1 DEF LinesStayNear
    <3>2. (d.max_y + 6) * w = q + 6 * w
      BY <1>2, <1>7
    <3>. QED BY <1>2, <1>5, <1>8, <1>9, <1>11, <2>4, <2>6, <3>1, <3>2
  <2>9. PICK first \in Int, bytes \in Int :
            first = ((base * pixel + lo * pixel) \div 4) * 4 /\ bytes = (n * pixel) * pixel
    BY DivBounds
  <2>10. (base + e) * pixel \in first .. first + bytes - 1
    BY <1>12, <2>8, <2>9, BytesInsideUpscaled
  <2>11. Current(regs, s) = {k % VideoBytes : k \in first .. first + bytes - 1}
    BY <1>3, <1>15, <2>1, <2>7, <2>9 DEF Current, Unlatched
  <2>. QED BY <1>10, <2>10, <2>11
<1>. QED BY <1>14, <1>15

SomeSource(j) ==
    /\ j.regs \in FrameRegisters /\ j.scale \in Nat \ {0} /\ j.divot \in BOOLEAN
    /\ j.regs.origin # 0 /\ StartsOnRow(j.regs)
    /\ j.scale > 1 => LinesStayNear(j.regs)

(* A frame of which something is drawn is not Invisible. *)
LEMMA DrawnIsVisible ==
    ASSUME NEW regs \in FrameRegisters, NEW s \in Nat \ {0}, NEW row \in RowsOf(regs),
           NEW l, l = LineOf(regs, row), NEW x \in l.h_start_clamp * s .. l.h_end_clamp * s - 1
    PROVE  ~Invisible(regs)
<1>1. row \in Int
  BY RowFacts
<1>2. PICK info \in LineRegisters : l = Analyzed(regs, info)
  BY <1>1, InfoType DEF LineOf
<1>3. /\ l.h_start \in Nat /\ l.h_end \in Int /\ l.h_end <= ScanWidth
      /\ l.h_start_clamp \in Nat /\ l.h_end_clamp \in Int
      /\ l.h_start <= l.h_start_clamp /\ l.h_end_clamp <= l.h_end
  BY <1>2, AnalyzedFacts
<1>4. l.h_start_clamp < l.h_end_clamp
  <2>1. ASSUME l.h_end_clamp <= l.h_start_clamp PROVE FALSE
    <3>1. l.h_end_clamp * s <= l.h_start_clamp * s
      BY <1>3, <2>1, Monotone
    <3>2. l.h_end_clamp * s \in Int /\ l.h_start_clamp * s \in Int
      BY <1>3
    <3>. QED BY <3>1, <3>2
  <2>. QED BY <1>3, <2>1
<1>5. PICK d : d = Decoded(regs)
  OBVIOUS
<1>6. d.h_start \in Nat /\ d.h_res \in Int /\ d.h_start <= l.h_start /\ l.h_end <= d.h_start + d.h_res
  BY <1>5, DecodedFacts
<1>7. d.h_res > 0 /\ d.h_start < ScanWidth
  BY <1>3, <1>4, <1>6, WidthAssumption
<1>. QED BY <1>5, <1>6, <1>7, WidthAssumption DEF Invisible

(* For any registers of a frame, at any scale: a pixel that is drawn is    *)
(* made from the neighbourhood of its sample, inside of every image of the *)
(* chain, and its memory has been announced (vram_fetch_stage ..           *)
(* scale_stage, scanout_memory_range).                                     *)
THEOREM AnyScanoutReadsRange ==
    ASSUME SomeSource(job)
    PROVE  ScanoutReadsRange
<1>. DEFINE r == job.regs
            s == job.scale
            d == Decoded(r)
<1>1. /\ r \in FrameRegisters /\ s \in Nat \ {0} /\ job.divot \in BOOLEAN /\ r.origin # 0
      /\ StartsOnRow(r) /\ (s > 1 => LinesStayNear(r)) /\ r.divot \in BOOLEAN
  BY DEF SomeSource, FrameRegisters
<1>. SUFFICES ASSUME NEW p \in DrawnAt(r, s)
              PROVE  LET divot == r.divot /\ job.divot
                         row == d.v_start + p[2] \div s
                         x == SampledX(r, InfoOf(r, row), s, p[1]) \div One
                         y == SampledY(r, s, p[2] + d.v_start * s) \div One
                         print == Footprint(r, job, s, p[1], p[2])
                     IN  /\ print \subseteq {<<x + n[1], y + n[2]>> : n \in Reach(divot)}
                         /\ NextSlice(r, s, p[2]) = 0 =>
                                print = {<<x + n[1], y + n[2]>> : n \in Reach(divot)}
                         /\ ~Forgotten(r, s) => {ByteOf(r, s, c) : c \in print} \subseteq Current(r, s)
  BY DEF ScanoutReadsRange
<1>. DEFINE row == d.v_start + p[2] \div s
            l == LineOf(r, row)
            X == SampleX(l, s, p[1]) \div One
            Y == SampleY(r, s, p[2]) \div One
            slice == NextSlice(r, s, p[2])
            print == Footprint(r, job, s, p[1], p[2])
            divot == r.divot /\ job.divot
<1>2. /\ p[1] \in Nat /\ p[2] \in Nat /\ p[2] <= d.v_res * s - 1
      /\ p[1] \in l.h_start_clamp * s .. l.h_end_clamp * s - 1
  <2>1. /\ p \in (0 .. ScanWidth * s - 1) \X (0 .. d.v_res * s - 1)
        /\ p[1] \in l.h_start_clamp * s .. l.h_end_clamp * s - 1
    BY DEF DrawnAt
  <2>2. d.v_res * s \in Int
    <3>1. d.v_res \in Int
      BY <1>1, RowFacts
    <3>. QED BY <1>1, <3>1
  <2>. QED BY <2>1, <2>2
<1>. HIDE DEF r, s, d
<1>3. /\ row \in RowsOf(r) /\ d.v_res > 0 /\ d.max_x \in Nat /\ d.max_y \in Nat
      /\ X \in 0 .. d.max_x * s + s - 1 /\ Y \in 0 .. d.max_y * s + s - 1
  <2>1. d = Decoded(r)
    BY DEF d
  <2>. QED BY <1>1, <1>2, <2>1, SampleBounds
<1>4. X = SampledX(r, InfoOf(r, row), s, p[1]) \div One
  <2>1. row \in Int
    BY <1>1, <1>3, RowFacts
  <2>2. PICK info \in LineRegisters : info = InfoOf(r, row)
    BY <1>1, <2>1, InfoType
  <2>3. l = Analyzed(r, info)
    BY <2>2 DEF LineOf
  <2>4. SampleX(l, s, p[1]) = SampledX(r, info, s, p[1])
    <3>. HIDE DEF l
    <3>. QED BY <1>1, <1>2, <2>3, SampledColumn
  <2>. QED BY <2>2, <2>4
<1>5. Y = SampledY(r, s, p[2] + d.v_start * s) \div One
  <2>1. SampleY(r, s, p[2]) = SampledY(r, s, p[2] + d.v_start * s)
    BY <1>1, <1>2, <1>3, SampledRow DEF d
  <2>. QED BY <2>1
<1>6. PICK v \in BOOLEAN : IsDivot(v, r, job) /\ v = divot
  <2>1. divot \in BOOLEAN
    BY <1>1
  <2>2. IsDivot(divot, r, job)
    BY DEF IsDivot
  <2>. QED BY <2>1, <2>2
<1>7. /\ slice \in {0, 1}
      /\ print = Moved(Filter(v, 0), X, Y) \union Moved(Filter(v, 0), X + 1, Y)
                 \union Moved(Filter(v, slice), X, Y + 1) \union Moved(Filter(v, slice), X + 1, Y + 1)
  <2>1. d = Decoded(r) /\ l = LineOf(r, d.v_start + p[2] \div s)
    BY DEF d
  <2>2. PICK x \in Nat, y \in Nat : x = p[1] /\ y = p[2]
    BY <1>2
  <2>3. X = SampleX(l, s, x) \div One /\ Y = SampleY(r, s, y) \div One /\ slice = NextSlice(r, s, y)
    BY <2>2
  <2>4. l = LineOf(r, d.v_start + y \div s)
    BY <2>1, <2>2
  <2>5. print = Footprint(r, job, s, x, y)
    BY <2>2
  <2>. HIDE DEF divot, l, X, Y, slice, print
  <2>6. /\ slice \in {0, 1}
        /\ Footprint(r, job, s, x, y) =
               Moved(Filter(v, 0), X, Y) \union Moved(Filter(v, 0), X + 1, Y)
               \union Moved(Filter(v, slice), X, Y + 1) \union Moved(Filter(v, slice), X + 1, Y + 1)
    <3>1. SampledAt(X, Y, slice, d, l, r, s, x, y)
      BY <1>1, <1>3, <2>1, <2>3, <2>4 DEF SampledAt
    <3>. QED BY <1>1, <1>6, <3>1, FootprintFacts
  <2>. QED BY <2>5, <2>6
<1>8. PICK X1 \in Int, Y1 \in Int : X1 = X /\ Y1 = Y
  <2>1. d.max_x * s \in Int /\ d.max_y * s \in Int
    BY <1>1, <1>3
  <2>. QED BY <1>3, <2>1
<1>9. Moved(Reach(v), X, Y) =
          Moved(Filter(v, 0), X, Y) \union Moved(Filter(v, 0), X + 1, Y)
          \union Moved(Filter(v, 0), X, Y + 1) \union Moved(Filter(v, 0), X + 1, Y + 1)
  <2>. HIDE DEF X, Y
  <2>. QED BY <1>8, ReachFacts
<1>10. Filter(v, slice) \subseteq Filter(v, 0)
  BY <1>7, FilterFacts
<1>11. \A a, b : Moved(Filter(v, slice), a, b) \subseteq Moved(Filter(v, 0), a, b)
  BY <1>10 DEF Moved
<1>12. print \subseteq Moved(Reach(v), X, Y)
  <2>. HIDE DEF print, X, Y, slice
  <2>. QED BY <1>7, <1>9, <1>11
<1>13. slice = 0 => print = Moved(Reach(v), X, Y)
  <2>. HIDE DEF print, X, Y, slice
  <2>. QED BY <1>7, <1>9
<1>14. ASSUME ~Forgotten(r, s), NEW c \in print PROVE ByteOf(r, s, c) \in Current(r, s)
  <2>1. PICK q \in Filter(v, 0), i \in {0, 1}, j \in {0, 1} : c = <<X + i + q[1], Y + j + q[2]>>
    <3>1. c \in Moved(Filter(v, 0), X, Y) \union Moved(Filter(v, 0), X + 1, Y)
               \union Moved(Filter(v, 0), X, Y + 1) \union Moved(Filter(v, 0), X + 1, Y + 1)
      BY <1>9, <1>12, <1>14
    <3>2. X + 0 = X /\ Y + 0 = Y
      BY <1>8
    <3>. HIDE DEF X, Y, print
    <3>. QED BY <3>1, <3>2 DEF Moved
  <2>2. PICK b \in 0 .. Bit(r.divot) : q[2] \in -1 .. 1 /\ q[1] \in -2 - b .. 2 + b
    <3>1. q[2] \in -1 .. 1 /\ q[1] \in -2 - Bit(v) .. 2 + Bit(v)
      BY FilterFacts
    <3>2. Bit(v) \in 0 .. Bit(r.divot)
      BY <1>1, <1>6 DEF Bit
    <3>. QED BY <3>1, <3>2
  <2>3. PICK c1 \in Int, c2 \in Int : c1 = X + i + q[1] /\ c2 = Y + j + q[2] /\ c = <<c1, c2>>
    <3>. HIDE DEF X, Y, print
    <3>1. b \in Int
      BY DEF Bit
    <3>2. q[1] \in Int /\ q[2] \in Int
      BY <2>2, <3>1
    <3>. QED BY <1>8, <2>1, <3>2
  <2>4. PICK mx \in Int, my \in Int : mx = d.max_x * s + s - 1 /\ my = d.max_y * s + s - 1
    <3>1. d.max_x * s \in Int /\ d.max_y * s \in Int
      BY <1>1, <1>3
    <3>. QED BY <1>1, <3>1
  <2>5. c1 \in -2 - b .. mx + 3 + b /\ c2 \in -1 .. my + 2
    <3>. HIDE DEF X, Y, print
    <3>1. b \in Int
      BY DEF Bit
    <3>. QED BY <1>3, <1>8, <2>2, <2>3, <2>4, <3>1
  <2>6. ~Invisible(r)
    <3>. HIDE DEF row
    <3>1. p[1] \in l.h_start_clamp * s .. l.h_end_clamp * s - 1
      BY <1>2
    <3>. QED BY <1>1, <1>3, <3>1, DrawnIsVisible
  <2>7. d = Decoded(r)
    BY DEF d
  <2>. QED BY <1>1, <1>3, <1>14, <2>3, <2>4, <2>5, <2>6, <2>7, BytesAreCurrent
<1>15. \A a, b : {<<a + n[1], b + n[2]>> : n \in Reach(v)} = Moved(Reach(v), a, b)
  BY DEF Moved
<1>. QED
  BY <1>4, <1>5, <1>6, <1>12, <1>13, <1>14, <1>15
=============================================================================
