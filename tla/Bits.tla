---------------------------------- MODULE Bits ---------------------------------
(***************************************************************************)
(* Machine integers as the C++ and the shaders use them: shifts, masks and *)
(* two's complement, on integers.  >> of a negative number rounds down, as *)
(* \div does.                                                              *)
(***************************************************************************)
EXTENDS Integers

Shl(x, n) == x * 2^n
Shr(x, n) == x \div 2^n

\* x & (2^n - 1), and bits lo .. lo + n - 1 of x.
Low(x, n) == x % 2^n
Field(x, lo, n) == Shr(x, lo) % 2^n
Bit(x, i) == Field(x, i, 1) = 1

\* x & ~(n - 1) for a power of two n, and the next such number above.
AlignDown(x, n) == x - (x % n)
AlignUp(x, n) == AlignDown(x + n - 1, n)

\* x ^ (1 << i) if b.
Flip(x, i, b) == IF ~b THEN x ELSE IF Bit(x, i) THEN x - 2^i ELSE x + 2^i

\* The n low bits of x as a signed number.
Signed(x, n) == LET u == Low(x, n) IN IF u >= 2^(n - 1) THEN u - 2^n ELSE u

Lesser(a, b) == IF a < b THEN a ELSE b
Greater(a, b) == IF a > b THEN a ELSE b
ClampTo(x, lo, hi) == Lesser(Greater(x, lo), hi)
Magnitude(x) == IF x < 0 THEN -x ELSE x
=============================================================================
