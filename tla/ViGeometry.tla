------------------------------ MODULE ViGeometry ------------------------------
(***************************************************************************)
(* The vertical geometry of a frame: the part of decode_vi_registers that  *)
(* turns the two halves of VStart into the output lines of the frame.  A   *)
(* video standard is a record of its offset, its resolution and the number *)
(* of output lines of the larger one (VI_MAX_OUTPUT_SCANLINES).            *)
(***************************************************************************)
EXTENDS Integers

Least(a, b) == IF a < b THEN a ELSE b

\* VI_V_END_*, an odd number.
EndOf(std) == std.offset + std.res + 1

FirstRow(std, v_start) ==
    LET v == Least(v_start, EndOf(std))
    IN  IF v < std.offset THEN 0 ELSE (v - std.offset) \div 2

Height(std, v_start, v_end) ==
    Least((Least(v_end, EndOf(std)) - Least(v_start, EndOf(std))) \div 2,
          std.max_rows - FirstRow(std, v_start))

Rows(std, v_start, v_end) ==
    FirstRow(std, v_start) .. FirstRow(std, v_start) + Height(std, v_start, v_end) - 1
=============================================================================
