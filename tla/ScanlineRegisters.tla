--------------------------- MODULE ScanlineRegisters --------------------------
(***************************************************************************)
(* Registers of the video interface that change from scanline to scanline: *)
(* begin_vi_register_per_scanline, set_, latch_ and end_, and how          *)
(* decode_vi_registers reads them when scanout() shows a frame.            *)
(***************************************************************************)
EXTENDS ViGeometry

CONSTANTS
    OffsetNTSC, ResNTSC,        \* VI_V_OFFSET_NTSC, VI_V_RES_NTSC
    OffsetPAL, ResPAL,
    Value,                      \* contents of HStart and XScale
    VStart,                     \* values of the two halves of VStart
    MaxLine                     \* bound of the argument of latch

ASSUME GeometryAssumption ==
    /\ {OffsetNTSC, ResNTSC, OffsetPAL, ResPAL} \subseteq {2 * n : n \in 0 .. 1000}
    /\ OffsetNTSC <= OffsetPAL /\ ResNTSC <= ResPAL
ASSUME RegisterAssumption == VStart \subseteq Nat /\ MaxLine \in Nat

VARIABLES
    vi_registers,               \* HStart and XScale of the whole frame
    latched_state, line_state,  \* per_line_state, of each register
    flags, line, ended,
    log, setting, top, closed   \* history: what was asked for

state == <<latched_state, line_state, flags, line, ended>>
asked == <<log, setting, top, closed>>
lineVars == <<vi_registers, state, asked>>

NTSC == [offset |-> OffsetNTSC, res |-> ResNTSC, max_rows |-> ResPAL \div 2]
PAL == [offset |-> OffsetPAL, res |-> ResPAL, max_rows |-> ResPAL \div 2]

Register == {"HStart", "XScale"}
EndMax == EndOf(PAL)         \* VI_V_END_MAX
Line == 0 .. EndMax - 1
Junk == "junk"      \* memory that was not initialised, or is not in line_state
Greatest(S) == CHOOSE m \in S : \A n \in S : n <= m

NoLog == [r \in Register |-> [l \in {0} |-> Junk]]

LinesInit ==
    /\ vi_registers \in [Register -> Value]
    /\ latched_state = [r \in Register |-> Junk]
    /\ line_state = [r \in Register |-> [l \in Line |-> Junk]]
    /\ flags = {} /\ line = 0 /\ ended = FALSE
    /\ log = NoLog /\ setting = latched_state
    /\ top = 0 /\ closed = FALSE
-----------------------------------------------------------------------------
\* set_vi_register
SetRegister(r, v) ==
    /\ vi_registers' = [vi_registers EXCEPT ![r] = v]
    /\ UNCHANGED <<state, asked>>

\* begin_vi_register_per_scanline
Begin(f) ==
    /\ flags' = f /\ line' = 0 /\ ended' = FALSE
    /\ latched_state' = vi_registers
    /\ line_state' = [r \in Register |-> [line_state[r] EXCEPT ![0] = vi_registers[r]]]
    /\ log' = [r \in Register |-> [l \in {0} |-> vi_registers[r]]]
    /\ setting' = vi_registers /\ top' = 0 /\ closed' = FALSE
    /\ UNCHANGED vi_registers

\* set_vi_register_for_scanline
SetForScanline(r, v) ==
    /\ latched_state' = IF r \in flags THEN [latched_state EXCEPT ![r] = v] ELSE latched_state
    /\ setting' = IF r \in flags THEN [setting EXCEPT ![r] = v] ELSE setting
    /\ UNCHANGED <<vi_registers, line_state, flags, line, ended, log, top, closed>>

\* Mutant: the lines that are filled take the value that is latched.
FilledAhead(r, last, stop) ==
    [l \in Line |-> IF last < l /\ l < stop THEN latched_state[r] ELSE line_state[r][l]]

\* Elements between last and stop repeat the one at last.
Filled(r, last, stop) ==
    [l \in Line |-> IF last < l /\ l < stop THEN line_state[r][last] ELSE line_state[r][l]]

\* latch_vi_register_for_scanline
Latch(vi_line) ==
    LET n == Least(vi_line, EndMax - 1) IN
    /\ ~closed
    /\ IF n <= line
       THEN UNCHANGED state
       ELSE /\ line_state' = [r \in Register |-> [Filled(r, line, n) EXCEPT ![n] = latched_state[r]]]
            /\ line' = n
            /\ UNCHANGED <<latched_state, flags, ended>>
    /\ log' = IF flags = {} \/ vi_line <= top \/ vi_line >= EndMax
              THEN log
              ELSE [r \in Register |-> [l \in DOMAIN log[r] \union {vi_line} |->
                                            IF l = vi_line THEN setting[r] ELSE log[r][l]]]
    /\ top' = Greatest({top, vi_line})
    /\ UNCHANGED <<vi_registers, setting, closed>>

\* end_vi_register_per_scanline
End ==
    /\ flags # {} /\ ~ended
    /\ line_state' = [r \in Register |-> Filled(r, line, EndMax)]
    /\ ended' = TRUE /\ closed' = TRUE
    /\ UNCHANGED <<vi_registers, latched_state, flags, line, log, setting, top>>
-----------------------------------------------------------------------------
\* The lines whose registers a frame may be shown with.
EffectiveLine ==
    UNION {{2 * row + s.offset + field : row \in Rows(s, v_start, v_end)} :
           s \in {NTSC, PAL}, v_start \in VStart, v_end \in VStart, field \in {0, 1}}

\* A row is shown with the registers of its line, or of the frame.
RowOf(n) ==
    [r \in Register |-> IF ~ended THEN vi_registers[r]
                        ELSE IF n \in Line THEN line_state[r][n] ELSE Junk]

\* scanout() decodes the registers, and clears the state of the lines.
Scanout ==
    /\ flags' = {} /\ ended' = FALSE /\ closed' = FALSE /\ log' = NoLog
    /\ UNCHANGED <<vi_registers, latched_state, line_state, line, setting, top>>
-----------------------------------------------------------------------------
LinesNext ==
    \/ \E r \in Register, v \in Value : SetRegister(r, v) \/ SetForScanline(r, v)
    \/ \E f \in SUBSET Register : Begin(f)
    \/ \E n \in 0 .. MaxLine : Latch(n)
    \/ End \/ Scanout

LinesSpec == LinesInit /\ [][LinesNext]_lineVars
-----------------------------------------------------------------------------
\* What the documentation of the interface promises for line n.
WantedOf(n) ==
    [r \in Register |-> IF ~closed THEN vi_registers[r]
                        ELSE log[r][Greatest({l \in DOMAIN log[r] : l <= n})]]

(* Were scanout() called now, every row would be shown with the registers  *)
(* that the last latch at its line or above had set, or that the frame     *)
(* began with; or with those of the whole frame, if the lines were not     *)
(* ended.  Nothing of an earlier frame is shown, no memory that was not    *)
(* written, and nothing outside of line_state, whatever is in VStart.      *)
ShownAsLatched == \A n \in EffectiveLine : RowOf(n) = WantedOf(n)
=============================================================================
