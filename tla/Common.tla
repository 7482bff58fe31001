------------------------------- MODULE Common -------------------------------
(***************************************************************************)
(* The fixed-width integers of common.h and the bit operations the         *)
(* emulator applies to them.  A byte is a number in u8; where the code     *)
(* looks at single bits, the byte is the set of the weights of the bits    *)
(* that are 1, so that &, | and ^ are intersection, union and symmetric    *)
(* difference.                                                             *)
(***************************************************************************)
EXTENDS Integers

UINT16_MAX == 65535

u8  == 0 .. 255
u16 == 0 .. UINT16_MAX

\* Conversion of an int to u8 and to u16: the value modulo 2^8 and 2^16.
ToU8(n)  == n % 256
ToU16(n) == n % 65536

LowByte(w)   == w % 256
HighByte(w)  == w \div 256
Word(hi, lo) == hi * 256 + lo

-----------------------------------------------------------------------------

Weights == {1, 2, 4, 8, 16, 32, 64, 128}

\* The bits that are 1 in the byte v, and the byte whose 1 bits are S.
Bits(v) == {w \in Weights : (v \div w) % 2 = 1}

Byte(S) ==
  LET bit(w) == IF w \in S THEN w ELSE 0
  IN  bit(1) + bit(2) + bit(4) + bit(8) + bit(16) + bit(32) + bit(64) + bit(128)

BitAnd(u, v) == Byte(Bits(u) \cap Bits(v))
BitOr(u, v)  == Byte(Bits(u) \cup Bits(v))
BitXor(u, v) == Byte((Bits(u) \ Bits(v)) \cup (Bits(v) \ Bits(u)))

\* Bit 7 of a value of at least eight bits.
Bit7(v) == (v \div 128) % 2 = 1

\* The two's complement reading of a byte.
Signed(v) == IF v >= 128 THEN v - 256 ELSE v
=============================================================================
