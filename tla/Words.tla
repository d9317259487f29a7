------------------------------- MODULE Words -------------------------------
(***************************************************************************)
(* Fixed-width numbers as C computes with them: the types of src/types.h,  *)
(* the conversions between them, and the operators & and |.  A word of the *)
(* C programs has four bytes; the width is a parameter so that TLC, whose  *)
(* own integers have 32 bits, can check narrower machines.                 *)
(***************************************************************************)
EXTENDS Integers

CONSTANT WordBytes          \* bytes in a word: 4 in the C programs

ASSUME WordBytesAssumption == WordBytes \in 2 .. 4

WordMod == 256 ^ WordBytes

\* The two readings of the low bits of v in a register of m values.
Unsigned(v, m) == v % m
Signed(v, m) == IF v % m < m \div 2 THEN v % m ELSE (v % m) - m

Byte == 0 .. 255
Word == -(WordMod \div 2) .. (WordMod \div 2 - 1)
UWord == 0 .. WordMod - 1

ToWord(v) == Signed(v, WordMod)
ToUWord(v) == Unsigned(v, WordMod)

\* C's & on two bytes, then & and | on two words, byte by byte.
Bit(x, i) == (x \div 2 ^ i) % 2
AndByte(x, y) ==
  LET both(i) == Bit(x, i) * Bit(y, i) * 2 ^ i
  IN  both(0) + both(1) + both(2) + both(3) + both(4) + both(5) + both(6) + both(7)

ByteIn(x, i) == IF i < WordBytes THEN (x \div 256 ^ i) % 256 ELSE 0
FromBytes(b(_)) ==
  LET at(i) == IF i < WordBytes THEN b(i) * 256 ^ i ELSE 0
  IN  ToWord(at(0) + at(1) + at(2) + at(3))

BitAnd(a, b) ==
  LET and(i) == AndByte(ByteIn(ToUWord(a), i), ByteIn(ToUWord(b), i))
  IN  FromBytes(and)
BitOr(a, b) == ToWord(a + b - BitAnd(a, b))
=============================================================================
