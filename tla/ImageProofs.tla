----------------------------- MODULE ImageProofs -----------------------------
(***************************************************************************)
(* Facts about the words of both simulators, about their conversions and   *)
(* about the memory with an IJVM image in it: what is read from a loaded   *)
(* image is what the assembler put into it.                                *)
(***************************************************************************)
EXTENDS Image, TLAPS

\* Remainders.
LEMMA ModBounds ==
  ASSUME NEW v \in Int, NEW m \in Nat, m > 0
  PROVE  v % m \in Int /\ 0 <= v % m /\ v % m < m
BY SMT

\* A number that fits a register is its own remainder; a negative one wraps once.
LEMMA ModSmall ==
  ASSUME NEW v \in Int, NEW m \in Nat, 0 <= v, v < m
  PROVE  v % m = v
BY SMT

\* A negative number wraps once.
LEMMA ModNegative ==
  ASSUME NEW v \in Int, NEW m \in Nat, v < 0, -m <= v
  PROVE  v % m = v + m
BY SMT

\* Half the values of a word.
Half == WordMod \div 2

\* Half of the values of a word are negative.
LEMMA WordModHalves == Half \in Nat /\ Half >= 32768 /\ WordMod = 2 * Half /\ WordMod \in Nat
<1>1. WordBytes \in {2, 3, 4}
  BY WordBytesAssumption
<1>2. WordMod \in {65536, 16777216, 4294967296}
  <2>1. WordBytes = 2 => WordMod = 65536  BY SMT DEF WordMod
  <2>2. WordBytes = 3 => WordMod = 16777216  BY SMT DEF WordMod
  <2>3. WordBytes = 4 => WordMod = 4294967296  BY SMT DEF WordMod
  <2> QED  BY SMT, <1>1, <2>1, <2>2, <2>3
<1> QED
  BY SMT, <1>2 DEF Half

\* int32 and uint32 as intervals.
LEMMA WordBounds ==
  ASSUME NEW v
  PROVE  /\ v \in Word <=> v \in Int /\ -Half <= v /\ v < Half
         /\ v \in UWord <=> v \in Int /\ 0 <= v /\ v < WordMod
<1>1. Word = -Half .. Half - 1  BY DEF Word, Half
<1> QED  BY <1>1, WordModHalves DEF UWord

\* A conversion gives a value of its type, whatever it is given.
LEMMA ToWordBounds ==
  ASSUME NEW v \in Int
  PROVE  ToWord(v) \in Word /\ ToUWord(v) \in UWord
<1>1. v % WordMod \in Int /\ 0 <= v % WordMod /\ v % WordMod < WordMod
  BY ModBounds, WordModHalves
<1>2. ToWord(v) = IF v % WordMod < Half THEN v % WordMod ELSE (v % WordMod) - WordMod
  BY DEF ToWord, Signed, Half
<1>3. ToUWord(v) = v % WordMod
  BY DEF ToUWord, Unsigned
<1> QED
  BY <1>1, <1>2, <1>3, WordBounds, WordModHalves

\* An int32 converted to int32 is what it was.
LEMMA ToWordOfWord ==
  ASSUME NEW v \in Word
  PROVE  ToWord(v) = v
<1>1. v \in Int /\ -Half <= v /\ v < Half
  BY WordBounds
<1>2. ToWord(v) = IF v % WordMod < Half THEN v % WordMod ELSE (v % WordMod) - WordMod
  BY DEF ToWord, Signed, Half
<1>3. CASE v >= 0
  <2>1. v % WordMod = v  BY <1>1, <1>3, WordModHalves, ModSmall
  <2> QED  BY <1>1, <1>2, <2>1
<1>4. CASE v < 0
  <2>1. v % WordMod = v + WordMod  BY <1>1, <1>4, WordModHalves, ModNegative
  <2> QED  BY <1>1, <1>2, <1>4, <2>1, WordModHalves
<1> QED  BY <1>1, <1>3, <1>4

\* A uint32 converted to uint32 is what it was.
LEMMA ToUWordOfUWord ==
  ASSUME NEW v \in UWord
  PROVE  ToUWord(v) = v
BY WordBounds, ModSmall, WordModHalves DEF ToUWord, Unsigned

\* A conversion to int32 forgets nothing that one to uint32 needs.
LEMMA ToUWordOfToWord ==
  ASSUME NEW v \in Int
  PROVE  ToUWord(ToWord(v)) = ToUWord(v)
<1> DEFINE u == v % WordMod
<1>1. u \in Int /\ 0 <= u /\ u < WordMod
  BY ModBounds, WordModHalves
<1>2. ToWord(v) = (IF u < Half THEN u ELSE u - WordMod) /\ ToUWord(v) = u
  BY DEF ToWord, Signed, Half, ToUWord, Unsigned
<1>3. u % WordMod = u
  BY <1>1, ModSmall, WordModHalves
<1>4. CASE u >= Half
  <2>1. (u - WordMod) % WordMod = u
    BY <1>1, <1>4, ModNegative, WordModHalves
  <2> QED  BY <1>1, <1>2, <1>4, <2>1, WordModHalves DEF ToUWord, Unsigned
<1>5. CASE u < Half
  BY <1>2, <1>3, <1>5 DEF ToUWord, Unsigned
<1> QED  BY <1>1, <1>4, <1>5, WordModHalves

\* A byte, EOF and zero can be pushed as they are.
LEMMA BytesAreWords == Byte \subseteq Word /\ -1 \in Word /\ 0 \in Word
BY WordBounds, WordModHalves DEF Byte

\* Words are taken apart into bytes and put together from them.
LEMMA ByteInType ==
  ASSUME NEW x \in Nat, NEW i \in Nat
  PROVE  ByteIn(x, i) \in Byte
<1>1. CASE i < WordBytes
  <2>1. i \in {0, 1, 2, 3}  BY <1>1, WordBytesAssumption
  <2>2. (x \div 256 ^ i) % 256 \in 0 .. 255  BY SMT, <1>1, <2>1
  <2> QED  BY <1>1, <2>2 DEF ByteIn, Byte
<1> QED  BY <1>1 DEF ByteIn, Byte

\* Four bytes put together are a word.
LEMMA FromBytesType ==
  ASSUME NEW b(_), \A i \in 0 .. 3 : b(i) \in Int
  PROVE  FromBytes(b) \in Word
<1> DEFINE at(i) == IF i < WordBytes THEN b(i) * 256 ^ i ELSE 0
<1>1. \A i \in 0 .. 3 : at(i) \in Int
  BY SMT, WordBytesAssumption
<1>3. FromBytes(b) = ToWord(at(0) + at(1) + at(2) + at(3))
  BY DEF FromBytes
<1> HIDE DEF at
<1>2. at(0) + at(1) + at(2) + at(3) \in Int
  BY <1>1
<1> QED  BY <1>2, <1>3, ToWordBounds

-----------------------------------------------------------------------------
\* The bits of a byte, and the byte as their sum.
LEMMA PowersOfTwo ==
  /\ 2 ^ 0 = 1 /\ 2 ^ 1 = 2 /\ 2 ^ 2 = 4 /\ 2 ^ 3 = 8
  /\ 2 ^ 4 = 16 /\ 2 ^ 5 = 32 /\ 2 ^ 6 = 64 /\ 2 ^ 7 = 128
BY SMT

\* A bit is 0 or 1.
LEMMA BitIsBit ==
  ASSUME NEW x \in Nat, NEW i \in 0 .. 7
  PROVE  Bit(x, i) \in {0, 1}
<1>1. 2 ^ i \in Nat \ {0}
  <2>1. i = 0 \/ i = 1 \/ i = 2 \/ i = 3 \/ i = 4 \/ i = 5 \/ i = 6 \/ i = 7
    OBVIOUS
  <2>2. CASE i = 0  BY <2>2, PowersOfTwo
  <2>3. CASE i = 1  BY <2>3, PowersOfTwo
  <2>4. CASE i = 2  BY <2>4, PowersOfTwo
  <2>5. CASE i = 3  BY <2>5, PowersOfTwo
  <2>6. CASE i = 4  BY <2>6, PowersOfTwo
  <2>7. CASE i = 5  BY <2>7, PowersOfTwo
  <2>8. CASE i = 6  BY <2>8, PowersOfTwo
  <2>9. CASE i = 7  BY <2>9, PowersOfTwo
  <2> QED  BY <2>1, <2>2, <2>3, <2>4, <2>5, <2>6, <2>7, <2>8, <2>9
<1>2. x \div 2 ^ i \in Int
  BY SMT, <1>1
<1> QED  BY <1>2 DEF Bit

\* A byte is the sum of its bits.
LEMMA ByteIsItsBits ==
  ASSUME NEW x \in Int, 0 <= x, x <= 255
  PROVE  x = Bit(x, 0) + 2 * Bit(x, 1) + 4 * Bit(x, 2) + 8 * Bit(x, 3) + 16 * Bit(x, 4)
               + 32 * Bit(x, 5) + 64 * Bit(x, 6) + 128 * Bit(x, 7)
<1> DEFINE h1 == x \div 2      h2 == x \div 4      h3 == x \div 8      h4 == x \div 16
           h5 == x \div 32     h6 == x \div 64     h7 == x \div 128
<1>2. /\ Bit(x, 0) = x % 2 /\ Bit(x, 1) = h1 % 2
      /\ Bit(x, 2) = h2 % 2 /\ Bit(x, 3) = h3 % 2 /\ Bit(x, 4) = h4 % 2
      /\ Bit(x, 5) = h5 % 2 /\ Bit(x, 6) = h6 % 2 /\ Bit(x, 7) = h7 % 2
  BY SMT DEF Bit
<1>3. /\ h1 \in Int /\ h2 \in Int /\ h3 \in Int /\ h4 \in Int
      /\ h5 \in Int /\ h6 \in Int /\ h7 \in Int
      /\ x = 2 * h1 + (x % 2) /\ h1 = 2 * h2 + (h1 % 2) /\ h2 = 2 * h3 + (h2 % 2)
      /\ h3 = 2 * h4 + (h3 % 2) /\ h4 = 2 * h5 + (h4 % 2) /\ h5 = 2 * h6 + (h5 % 2)
      /\ h6 = 2 * h7 + (h6 % 2) /\ h7 = h7 % 2
  BY SMT
<1> HIDE DEF h1, h2, h3, h4, h5, h6, h7
<1> QED  BY SMT, <1>2, <1>3

\* The bits of both, times their weights.
LEMMA AndByteSum ==
  ASSUME NEW x, NEW y
  PROVE  AndByte(x, y)
           = Bit(x, 0) * Bit(y, 0) * 1 + Bit(x, 1) * Bit(y, 1) * 2
               + Bit(x, 2) * Bit(y, 2) * 4 + Bit(x, 3) * Bit(y, 3) * 8
               + Bit(x, 4) * Bit(y, 4) * 16 + Bit(x, 5) * Bit(y, 5) * 32
               + Bit(x, 6) * Bit(y, 6) * 64 + Bit(x, 7) * Bit(y, 7) * 128
BY Zenon, PowersOfTwo DEF AndByte

\* Both, and either, of two bits is a bit.
LEMMA BitProduct ==
  ASSUME NEW a \in {0, 1}, NEW b \in {0, 1}
  PROVE  a * b \in {0, 1} /\ a + b - a * b \in {0, 1}
OBVIOUS

\* An or of two bytes, as ijvm.c and mic1.c need it, is a byte.
LEMMA AndOfBytes ==
  ASSUME NEW x \in Byte, NEW y \in Byte
  PROVE  AndByte(x, y) \in Int /\ x + y - AndByte(x, y) \in Byte
<1> DEFINE p(i) == Bit(x, i) * Bit(y, i)
           q(i) == Bit(x, i) + Bit(y, i) - p(i)
<1>1. \A i \in 0 .. 7 : Bit(x, i) \in {0, 1} /\ Bit(y, i) \in {0, 1}
  BY BitIsBit DEF Byte
<1>2. \A i \in 0 .. 7 : p(i) \in {0, 1} /\ q(i) \in {0, 1}
  BY <1>1, BitProduct
<1>3. AndByte(x, y) = p(0) * 1 + p(1) * 2 + p(2) * 4 + p(3) * 8 + p(4) * 16 + p(5) * 32
                        + p(6) * 64 + p(7) * 128
  BY AndByteSum
<1>4. \A i \in 0 .. 7 : q(i) = Bit(x, i) + Bit(y, i) - p(i)
  OBVIOUS
<1> HIDE DEF p, q
<1>5. AndByte(x, y) \in Int
  BY <1>2, <1>3
<1>7. /\ x \in Int /\ 0 <= x /\ x <= 255
      /\ y \in Int /\ 0 <= y /\ y <= 255
  BY DEF Byte
<1>6. x + y - AndByte(x, y) = q(0) + 2 * q(1) + 4 * q(2) + 8 * q(3) + 16 * q(4) + 32 * q(5)
                                + 64 * q(6) + 128 * q(7)
  <2>1. /\ x = Bit(x, 0) + 2 * Bit(x, 1) + 4 * Bit(x, 2) + 8 * Bit(x, 3) + 16 * Bit(x, 4)
                 + 32 * Bit(x, 5) + 64 * Bit(x, 6) + 128 * Bit(x, 7)
        /\ y = Bit(y, 0) + 2 * Bit(y, 1) + 4 * Bit(y, 2) + 8 * Bit(y, 3) + 16 * Bit(y, 4)
                 + 32 * Bit(y, 5) + 64 * Bit(y, 6) + 128 * Bit(y, 7)
    BY <1>7, ByteIsItsBits
  <2>2. \A i \in {0, 1, 2, 3, 4, 5, 6, 7} :
          Bit(x, i) \in Int /\ Bit(y, i) \in Int /\ p(i) \in Int /\ q(i) = Bit(x, i) + Bit(y, i) - p(i)
    BY SMT, <1>1, <1>2, <1>4
  <2> QED  BY SMT, <1>3, <2>1, <2>2
<1> QED  BY <1>2, <1>5, <1>6 DEF Byte

\* C's & and | of two words are words.
LEMMA BitAndType ==
  ASSUME NEW a \in Int, NEW b \in Int
  PROVE  BitAnd(a, b) \in Word
<1> DEFINE and(i) == AndByte(ByteIn(ToUWord(a), i), ByteIn(ToUWord(b), i))
           at(i) == IF i < WordBytes THEN and(i) * 256 ^ i ELSE 0
<1>1. ToUWord(a) \in Nat /\ ToUWord(b) \in Nat
  BY ToWordBounds, WordBounds
<1>2. \A i \in 0 .. 3 : and(i) \in Int
  BY <1>1, ByteInType, AndOfBytes
<1>3. BitAnd(a, b) = ToWord(at(0) + at(1) + at(2) + at(3))
  BY DEF BitAnd, FromBytes
<1> HIDE DEF and
<1>4. \A i \in 0 .. 3 : at(i) \in Int
  BY SMT, <1>2, WordBytesAssumption
<1> HIDE DEF at
<1>5. at(0) + at(1) + at(2) + at(3) \in Int
  BY <1>4
<1> QED  BY <1>3, <1>5, ToWordBounds

\* C's & and | do not depend on the order of their operands.
LEMMA BitsCommute ==
  ASSUME NEW a \in Int, NEW b \in Int
  PROVE  BitAnd(a, b) = BitAnd(b, a) /\ BitOr(a, b) = BitOr(b, a)
<1> DEFINE and(i) == AndByte(ByteIn(ToUWord(a), i), ByteIn(ToUWord(b), i))
           dna(i) == AndByte(ByteIn(ToUWord(b), i), ByteIn(ToUWord(a), i))
           at(i) == IF i < WordBytes THEN and(i) * 256 ^ i ELSE 0
           ta(i) == IF i < WordBytes THEN dna(i) * 256 ^ i ELSE 0
<1>1. ToUWord(a) \in Nat /\ ToUWord(b) \in Nat
  BY ToWordBounds, WordBounds
<1>2. ASSUME NEW x \in Byte, NEW y \in Byte PROVE AndByte(x, y) = AndByte(y, x)
  <2>1. \A i \in 0 .. 7 : Bit(x, i) \in {0, 1} /\ Bit(y, i) \in {0, 1}
    BY BitIsBit DEF Byte
  <2>2. \A c, d \in {0, 1} : c * d = d * c
    OBVIOUS
  <2>3. \A i \in 0 .. 7 : Bit(x, i) * Bit(y, i) = Bit(y, i) * Bit(x, i)
    BY Zenon, <2>1, <2>2
  <2>4. /\ 0 \in 0 .. 7 /\ 1 \in 0 .. 7 /\ 2 \in 0 .. 7 /\ 3 \in 0 .. 7
        /\ 4 \in 0 .. 7 /\ 5 \in 0 .. 7 /\ 6 \in 0 .. 7 /\ 7 \in 0 .. 7
    OBVIOUS
  <2> QED  BY Zenon, <2>3, <2>4 DEF AndByte
<1>3. and(0) = dna(0) /\ and(1) = dna(1) /\ and(2) = dna(2) /\ and(3) = dna(3)
  <2>1. \A i \in 0 .. 3 : ByteIn(ToUWord(a), i) \in Byte /\ ByteIn(ToUWord(b), i) \in Byte
    BY <1>1, ByteInType
  <2>2. 0 \in 0 .. 3 /\ 1 \in 0 .. 3 /\ 2 \in 0 .. 3 /\ 3 \in 0 .. 3
    OBVIOUS
  <2> QED  BY Zenon, <1>2, <2>1, <2>2
<1>4. BitAnd(a, b) = BitAnd(b, a)
  <2>1. /\ BitAnd(a, b) = ToWord(at(0) + at(1) + at(2) + at(3))
        /\ BitAnd(b, a) = ToWord(ta(0) + ta(1) + ta(2) + ta(3))
    BY DEF BitAnd, FromBytes
  <2> HIDE DEF and, dna
  <2>2. at(0) = ta(0) /\ at(1) = ta(1) /\ at(2) = ta(2) /\ at(3) = ta(3)
    BY Zenon, <1>3
  <2> HIDE DEF at, ta
  <2> QED  BY Zenon, <2>1, <2>2
<1>5. a + b - BitAnd(a, b) = b + a - BitAnd(b, a)
  <2>1. \A c \in Int : a + b - c = b + a - c
    OBVIOUS
  <2> QED  BY <1>4, <2>1, BitAndType, WordBounds
<1> QED  BY <1>4, <1>5 DEF BitOr

\* C's | of two words is a word.
LEMMA BitOrType ==
  ASSUME NEW a \in Int, NEW b \in Int
  PROVE  BitOr(a, b) \in Word
<1>1. BitAnd(a, b) \in Int
  BY BitAndType, WordBounds
<1> QED  BY <1>1, ToWordBounds DEF BitOr

-----------------------------------------------------------------------------
(* Bytes in words. *)

\* Addresses of bytes and of the words that they are in.
LEMMA WordOfByte ==
  ASSUME NEW a \in Nat
  PROVE  /\ a \div WordBytes \in Nat /\ a % WordBytes \in 0 .. WordBytes - 1
         /\ WordBytes * (a \div WordBytes) + (a % WordBytes) = a
         /\ a \in ByteAddress <=> a \div WordBytes \in Address
<1>1. MemWords \in Nat
  BY ConstantsAssumption
<1>2. CASE WordBytes = 2  BY SMT, <1>1, <1>2 DEF ByteAddress, Address
<1>3. CASE WordBytes = 3  BY SMT, <1>1, <1>3 DEF ByteAddress, Address
<1>4. CASE WordBytes = 4  BY SMT, <1>1, <1>4 DEF ByteAddress, Address
<1> QED  BY <1>2, <1>3, <1>4, WordBytesAssumption

\* Every address fits in a register, and below an address there are addresses only.
LEMMA AddressesAreWords ==
  /\ MemWords \in Nat \ {0}
  /\ Address \subseteq UWord /\ Address \subseteq Word
  /\ ByteAddress \subseteq UWord /\ MemWords * WordBytes \in UWord
<1>1. MemWords \in Nat \ {0} /\ MemWords * WordBytes < WordMod
  BY ConstantsAssumption
<1>2. MemWords * WordBytes \in Nat /\ 2 * MemWords <= MemWords * WordBytes
  <2>1. CASE WordBytes = 2  BY <1>1, <2>1
  <2>2. CASE WordBytes = 3  BY <1>1, <2>2
  <2>3. CASE WordBytes = 4  BY <1>1, <2>3
  <2> QED  BY <2>1, <2>2, <2>3, WordBytesAssumption
<1>3. MemWords < Half
  BY <1>1, <1>2, WordModHalves
<1> QED
  BY <1>1, <1>2, <1>3, WordBounds, WordModHalves DEF Address, ByteAddress

\* Below an address of a word there are addresses of words only.
LEMMA AddressBounds ==
  ASSUME NEW a \in Address
  PROVE  /\ a \in Nat /\ a \in Int /\ a < MemWords
         /\ \A b \in Int : 0 <= b /\ b <= a => b \in Address
BY AddressesAreWords DEF Address

\* Below an address of a byte there are addresses of bytes only.
LEMMA ByteAddressBounds ==
  ASSUME NEW a \in ByteAddress
  PROVE  /\ a \in Nat /\ a + 1 \in UWord
         /\ \A b \in Int : 0 <= b /\ b <= a => b \in ByteAddress
<1> DEFINE n == MemWords * WordBytes
<1>1. n \in UWord /\ ByteAddress = 0 .. n - 1
  BY AddressesAreWords DEF ByteAddress
<1>2. n \in Int /\ n < WordMod /\ WordMod \in Int
  BY <1>1, WordBounds, WordModHalves
<1> HIDE DEF n
<1>3. a \in Int /\ 0 <= a /\ a <= n - 1
  BY <1>1, <1>2
<1>4. a + 1 \in Int /\ 0 <= a + 1 /\ a + 1 < WordMod
  BY <1>2, <1>3
<1>5. \A b \in Int : 0 <= b /\ b <= a => b \in ByteAddress
  BY <1>1, <1>2, <1>3
<1>6. a + 1 \in UWord
  BY <1>4, WordBounds
<1> QED  BY <1>3, <1>5, <1>6

\* What a read of one byte, or of two, can give.
LEMMA ByteOfType ==
  ASSUME NEW m \in [Address -> Word], NEW a \in ByteAddress
  PROVE  ByteOf(m, a) \in Byte
<1>1. a \in Nat
  BY AddressesAreWords, WordBounds
<1>2. a \div WordBytes \in Address /\ a % WordBytes \in Nat
  BY <1>1, WordOfByte, WordBytesAssumption
<1>3. m[a \div WordBytes] \in Int
  BY <1>2, WordBounds
<1>4. ToUWord(m[a \div WordBytes]) \in Nat
  BY <1>3, ToWordBounds, WordBounds
<1> QED  BY <1>2, <1>4, ByteInType DEF ByteOf

\* What a read of two bytes can give.
LEMMA UInt16OfType ==
  ASSUME NEW m \in [Address -> Word], NEW a \in ByteAddress, a + 1 \in ByteAddress
  PROVE  UInt16Of(m, a) \in Int /\ 0 <= UInt16Of(m, a) /\ UInt16Of(m, a) <= 65535
<1>1. PICK high \in Int : high = ByteOf(m, a) /\ 0 <= high /\ high <= 255
  BY ByteOfType DEF Byte
<1>2. PICK low \in Int : low = ByteOf(m, a + 1) /\ 0 <= low /\ low <= 255
  BY ByteOfType DEF Byte
<1>3. UInt16Of(m, a) = 256 * high + low
  BY <1>1, <1>2 DEF UInt16Of
<1>4. \A v : v = 256 * high + low => v \in Int /\ 0 <= v /\ v <= 65535
  BY SMT, <1>1, <1>2
<1> QED  BY SMT, <1>3, <1>4

\* A word made of bytes, and the bytes of it.
Joined(b0, b1, b2, b3) ==
  ToWord(b0 + b1 * 256 + (IF 2 < WordBytes THEN b2 * 65536 ELSE 0)
           + (IF 3 < WordBytes THEN b3 * 16777216 ELSE 0))

\* A word made of four bytes has these bytes.
LEMMA JoinedBytes ==
  ASSUME NEW b0 \in Byte, NEW b1 \in Byte, NEW b2 \in Byte, NEW b3 \in Byte
  PROVE  /\ Joined(b0, b1, b2, b3) \in Word
         /\ ByteIn(ToUWord(Joined(b0, b1, b2, b3)), 0) = b0
         /\ ByteIn(ToUWord(Joined(b0, b1, b2, b3)), 1) = b1
         /\ 2 < WordBytes => ByteIn(ToUWord(Joined(b0, b1, b2, b3)), 2) = b2
         /\ 3 < WordBytes => ByteIn(ToUWord(Joined(b0, b1, b2, b3)), 3) = b3
<1> DEFINE sum == b0 + b1 * 256 + (IF 2 < WordBytes THEN b2 * 65536 ELSE 0)
                    + (IF 3 < WordBytes THEN b3 * 16777216 ELSE 0)
<1>0. /\ b0 \in Int /\ 0 <= b0 /\ b0 <= 255 /\ b1 \in Int /\ 0 <= b1 /\ b1 <= 255
      /\ b2 \in Int /\ 0 <= b2 /\ b2 <= 255 /\ b3 \in Int /\ 0 <= b3 /\ b3 <= 255
  BY DEF Byte
<1>1. sum \in Int /\ 0 <= sum /\ sum < WordMod
  <2>1. CASE WordBytes = 2  BY SMT, <1>0, <2>1 DEF WordMod
  <2>2. CASE WordBytes = 3  BY SMT, <1>0, <2>2 DEF WordMod
  <2>3. CASE WordBytes = 4  BY SMT, <1>0, <2>3 DEF WordMod
  <2> QED  BY <2>1, <2>2, <2>3, WordBytesAssumption
<1>2. ToUWord(Joined(b0, b1, b2, b3)) = sum /\ Joined(b0, b1, b2, b3) \in Word
  <2>1. sum \in UWord
    BY <1>1, WordBounds
  <2> HIDE DEF sum
  <2>2. ToUWord(ToWord(sum)) = sum /\ ToWord(sum) \in Word
    BY <1>1, <2>1, ToUWordOfToWord, ToUWordOfUWord, ToWordBounds
  <2>3. Joined(b0, b1, b2, b3) = ToWord(sum)
    BY DEF Joined, sum
  <2> QED  BY <2>2, <2>3
<1>3. /\ ByteIn(sum, 0) = b0 /\ ByteIn(sum, 1) = b1
      /\ 2 < WordBytes => ByteIn(sum, 2) = b2
      /\ 3 < WordBytes => ByteIn(sum, 3) = b3
  <2>1. CASE WordBytes = 2  BY SMT, <1>0, <2>1 DEF ByteIn
  <2>2. CASE WordBytes = 3  BY SMT, <1>0, <2>2 DEF ByteIn
  <2>3. CASE WordBytes = 4  BY SMT, <1>0, <2>3 DEF ByteIn
  <2> QED  BY <2>1, <2>2, <2>3, WordBytesAssumption
<1> HIDE DEF sum
<1> QED  BY Zenon, <1>2, <1>3

-----------------------------------------------------------------------------
(* The memory that a program starts with. *)

\* The words that some bytes fill.
LEMMA WordsOfBytes ==
  ASSUME NEW n \in Nat
  PROVE  /\ (n + WordBytes - 1) \div WordBytes \in Nat
         /\ \A a \in Nat : a < n => a \div WordBytes < (n + WordBytes - 1) \div WordBytes
<1>1. CASE WordBytes = 2  BY SMT, <1>1
<1>2. CASE WordBytes = 3  BY SMT, <1>2
<1>3. CASE WordBytes = 4  BY SMT, <1>3
<1> QED  BY <1>1, <1>2, <1>3, WordBytesAssumption

\* The areas of an image follow one another.
LEMMA ProgramParts ==
  ASSUME NEW p \in Programs
  PROVE  /\ p.method \in Seq(Byte) /\ p.cpool \in Seq(Word) /\ p.input \in Seq(Byte)
         /\ p.args \in Seq(Int \union {NotANumber})
         /\ p.main \in Nat /\ p.main < Len(p.cpool)
         /\ CppOf(p) \in Nat /\ InitialSp(p) \in Nat /\ ArgumentsTop(p) \in Nat
         /\ InitialSp(p) = CppOf(p) + Len(p.cpool) - 1
         /\ ArgumentsTop(p) = InitialSp(p) + 1 + Len(p.args)
<1>1. /\ p.method \in Seq(Byte) /\ p.cpool \in Seq(Word) /\ p.input \in Seq(Byte)
      /\ p.args \in Seq(Int \union {NotANumber}) /\ p.main \in 0 .. Len(p.cpool) - 1
  BY ProgramsAssumption
<1>2. Len(p.method) \in Nat /\ Len(p.cpool) \in Nat /\ Len(p.args) \in Nat
  BY <1>1
<1>3. p.main \in Nat /\ p.main < Len(p.cpool)
  BY <1>1, <1>2
<1>4. CppOf(p) \in Nat
  BY <1>2, WordsOfBytes DEF CppOf
<1>5. /\ InitialSp(p) = CppOf(p) + Len(p.cpool) - 1 /\ InitialSp(p) \in Nat
  BY <1>2, <1>3, <1>4 DEF InitialSp
<1>6. /\ ArgumentsTop(p) = InitialSp(p) + 1 + Len(p.args) /\ ArgumentsTop(p) \in Nat
  BY <1>2, <1>5 DEF ArgumentsTop
<1> QED  BY <1>1, <1>3, <1>4, <1>5, <1>6

\* Every byte of the method area is in a word below the constant pool.
LEMMA MethodBelowPool ==
  ASSUME NEW p \in Programs, NEW a \in Nat, a < Len(p.method)
  PROVE  a \div WordBytes < CppOf(p)
<1>1. Len(p.method) \in Nat
  BY ProgramParts
<1> QED  BY <1>1, WordsOfBytes DEF CppOf

\* The method area is filled up with zeroes to a whole number of words.
LEMMA MethodByteType ==
  ASSUME NEW p \in Programs, NEW a \in Nat
  PROVE  MethodByte(p, a) \in Byte
<1>1. p.method \in Seq(Byte)
  BY ProgramParts
<1>2. CASE a < Len(p.method)
  <2>1. a + 1 \in 1 .. Len(p.method)
    BY <1>1, <1>2
  <2> QED  BY <1>1, <1>2, <2>1 DEF MethodByte
<1> QED  BY <1>1, <1>2 DEF MethodByte, Byte

\* A word of the method area, once loaded, is made of four of its bytes.
LEMMA LoadedCodeWord ==
  ASSUME NEW p \in Programs, NEW w \in Address, w < CppOf(p)
  PROVE  Loaded(p)[w] = Joined(MethodByte(p, WordBytes * w + 0), MethodByte(p, WordBytes * w + 1),
                               MethodByte(p, WordBytes * w + 2), MethodByte(p, WordBytes * w + 3))
<1> DEFINE b(i) == MethodByte(p, WordBytes * w + i)
           at(i) == IF i < WordBytes THEN b(i) * 256 ^ i ELSE 0
<1>1. Loaded(p)[w] = ToWord(at(0) + at(1) + at(2) + at(3))
  BY DEF Loaded, FromBytes
<1>2. w \in Nat
  BY DEF Address
<1>3. b(0) \in Int /\ b(1) \in Int /\ b(2) \in Int /\ b(3) \in Int
  <2>1. \A i \in {0, 1, 2, 3} : WordBytes * w + i \in Nat
    BY <1>2, WordBytesAssumption
  <2> QED  BY <2>1, MethodByteType DEF Byte
<1> HIDE DEF b
<1>4. /\ at(0) = b(0) /\ at(1) = b(1) * 256
      /\ at(2) = IF 2 < WordBytes THEN b(2) * 65536 ELSE 0
      /\ at(3) = IF 3 < WordBytes THEN b(3) * 16777216 ELSE 0
  BY SMT, <1>3, WordBytesAssumption
<1> HIDE DEF at
<1>5. Loaded(p)[w] = Joined(b(0), b(1), b(2), b(3))
  BY SMT, <1>1, <1>4 DEF Joined
<1> QED  BY Zenon, <1>5 DEF b

\* The image is loaded as it is in the file: the byte at every address of the
\* method area is the byte of the file, whatever the size of a word.
LEMMA CodeIsLoaded ==
  ASSUME NEW p \in Programs, NEW a \in Nat, a < Len(p.method), a \in ByteAddress
  PROVE  ByteOf(Loaded(p), a) = p.method[a + 1]
<1> DEFINE w == a \div WordBytes
           i == a % WordBytes
           b(k) == MethodByte(p, WordBytes * w + k)
           c == Joined(b(0), b(1), b(2), b(3))
<1>1. w \in Address /\ i \in 0 .. WordBytes - 1 /\ WordBytes * w + i = a
  BY WordOfByte
<1>2. Loaded(p)[w] = c
  BY <1>1, MethodBelowPool, LoadedCodeWord
<1>3. \A k \in {0, 1, 2, 3} : b(k) \in Byte
  <2>1. w \in Nat
    BY <1>1 DEF Address
  <2> HIDE DEF w
  <2>2. \A k \in {0, 1, 2, 3} : WordBytes * w + k \in Nat
    BY <2>1, WordBytesAssumption
  <2> QED  BY <2>2, MethodByteType
<1>4. b(i) = p.method[a + 1]
  BY <1>1 DEF MethodByte
<1> HIDE DEF b
<1>5. /\ ByteIn(ToUWord(c), 0) = b(0) /\ ByteIn(ToUWord(c), 1) = b(1)
      /\ 2 < WordBytes => ByteIn(ToUWord(c), 2) = b(2)
      /\ 3 < WordBytes => ByteIn(ToUWord(c), 3) = b(3)
  BY <1>3, JoinedBytes
<1>6. ByteOf(Loaded(p), a) = ByteIn(ToUWord(c), i)
  BY <1>2 DEF ByteOf
<1> HIDE DEF c, w
<1>7. ByteIn(ToUWord(c), i) = b(i)
  <2>1. i = 0 \/ i = 1 \/ (i = 2 /\ 2 < WordBytes) \/ (i = 3 /\ 3 < WordBytes)
    BY <1>1, WordBytesAssumption
  <2> QED  BY Zenon, <1>5, <2>1
<1> QED  BY <1>4, <1>6, <1>7

\* The loaded image is a memory of words.
LEMMA LoadedType ==
  ASSUME NEW p \in Programs
  PROVE  Loaded(p) \in [Address -> Word]
<1>1. SUFFICES ASSUME NEW w \in Address PROVE Loaded(p)[w] \in Word
  BY DEF Loaded
<1>2. w \in Nat
  BY DEF Address
<1>3. CASE w < CppOf(p)
  <2> DEFINE b(k) == MethodByte(p, WordBytes * w + k)
  <2>1. b(0) \in Byte /\ b(1) \in Byte /\ b(2) \in Byte /\ b(3) \in Byte
    <3>1. \A k \in {0, 1, 2, 3} : WordBytes * w + k \in Nat
      BY <1>2, WordBytesAssumption
    <3> QED  BY <3>1, MethodByteType
  <2>2. Loaded(p)[w] = Joined(b(0), b(1), b(2), b(3))
    BY <1>3, LoadedCodeWord
  <2> HIDE DEF b
  <2> QED  BY <2>1, <2>2, JoinedBytes
<1>4. CASE ~(w < CppOf(p)) /\ w <= InitialSp(p)
  <2>1. p.cpool \in Seq(Word) /\ w - CppOf(p) + 1 \in 1 .. Len(p.cpool)
    BY <1>2, <1>4, ProgramParts
  <2>2. Loaded(p)[w] = p.cpool[w - CppOf(p) + 1]
    BY <1>4 DEF Loaded
  <2> QED  BY <2>1, <2>2
<1>5. CASE ~(w < CppOf(p)) /\ ~(w <= InitialSp(p))
  <2>1. Loaded(p)[w] = 0
    BY <1>5 DEF Loaded
  <2> QED  BY <2>1, BytesAreWords
<1> QED  BY <1>3, <1>4, <1>5

\* Constants are loaded as they are.
LEMMA ConstantIsLoaded ==
  ASSUME NEW p \in Programs, NEW k \in Nat, k < Len(p.cpool), CppOf(p) + k \in Address
  PROVE  Loaded(p)[CppOf(p) + k] = p.cpool[k + 1]
<1> DEFINE w == CppOf(p) + k
<1>1. ~(w < CppOf(p)) /\ w <= InitialSp(p) /\ w - CppOf(p) + 1 = k + 1 /\ w \in Address
  BY ProgramParts
<1> HIDE DEF w
<1>2. Loaded(p)[w] = p.cpool[w - CppOf(p) + 1]
  BY <1>1 DEF Loaded
<1> QED  BY <1>1, <1>2 DEF w

\* The arguments of main are words, put above the image.
LEMMA WithArgumentsType ==
  ASSUME NEW p \in Programs, NEW m \in [Address -> Word], ArgumentsAreNumbers(p)
  PROVE  /\ WithArguments(p, m) \in [Address -> Word]
         /\ \A w \in Address : w <= InitialSp(p) => WithArguments(p, m)[w] = m[w]
<1>1. \A i \in 1 .. Len(p.args) : p.args[i] \in Int
  BY ProgramParts DEF ArgumentsAreNumbers
<1>2. \A i \in 1 .. 1 + Len(p.args) : Arguments(p)[i] \in Int
  <2>1. Len(p.args) \in Nat /\ p.args \in Seq(Int \union {NotANumber})
    BY ProgramParts
  <2>2. <<INITIAL_OBJ_REF>> \in Seq(Int) /\ Len(<<INITIAL_OBJ_REF>>) = 1
    BY DEF INITIAL_OBJ_REF
  <2> SUFFICES ASSUME NEW i \in 1 .. 1 + Len(p.args) PROVE Arguments(p)[i] \in Int
    OBVIOUS
  <2>3. CASE i = 1  BY <2>1, <2>2, <2>3 DEF Arguments, INITIAL_OBJ_REF
  <2>4. CASE i # 1
    <3>1. i - 1 \in 1 .. Len(p.args)
      BY <2>1, <2>4
    <3>2. Arguments(p)[i] = p.args[i - 1]
      BY <2>1, <2>4 DEF Arguments
    <3> QED  BY <1>1, <3>1, <3>2
  <2> QED  BY <2>3, <2>4
<1>3. \A w \in InitialSp(p) + 1 .. ArgumentsTop(p) : ToWord(Arguments(p)[w - InitialSp(p)]) \in Word
  <2> SUFFICES ASSUME NEW w \in InitialSp(p) + 1 .. ArgumentsTop(p)
               PROVE  ToWord(Arguments(p)[w - InitialSp(p)]) \in Word
    OBVIOUS
  <2>1. w - InitialSp(p) \in 1 .. 1 + Len(p.args)
    BY ProgramParts
  <2> QED  BY <1>2, <2>1, ToWordBounds
<1>4. \A w \in Address : w <= InitialSp(p) => w \notin InitialSp(p) + 1 .. ArgumentsTop(p)
  BY ProgramParts DEF Address
<1> QED  BY <1>3, <1>4 DEF WithArguments


-----------------------------------------------------------------------------
(* Small numbers, and what & and | make of 0 and -1. *)

\* Small numbers are words.
LEMMA SmallWords == \A v \in Int : -2000 =< v /\ v =< 2000 => v \in Word /\ ToWord(v) = v
<1> SUFFICES ASSUME NEW v \in Int, -2000 =< v, v =< 2000 PROVE v \in Word /\ ToWord(v) = v
  OBVIOUS
<1>1. v \in Word
  BY WordBounds, WordModHalves
<1> QED
  BY <1>1, ToWordOfWord

\* The bytes of 0 and of -1.
LEMMA BytesOfEnds ==
  /\ ByteIn(ToUWord(0), 0) = 0 /\ ByteIn(ToUWord(0), 1) = 0
  /\ ByteIn(ToUWord(0), 2) = 0 /\ ByteIn(ToUWord(0), 3) = 0
  /\ ByteIn(ToUWord(-1), 0) = 255 /\ ByteIn(ToUWord(-1), 1) = 255
  /\ ByteIn(ToUWord(-1), 2) = IF 2 < WordBytes THEN 255 ELSE 0
  /\ ByteIn(ToUWord(-1), 3) = IF 3 < WordBytes THEN 255 ELSE 0
<1>1. ToUWord(0) = 0
  BY ToUWordOfUWord, WordBounds, WordModHalves
<1>2. ToUWord(-1) = WordMod - 1
  BY ModNegative, WordModHalves DEF ToUWord, Unsigned
<1>3. WordBytes \in {2, 3, 4}
  BY WordBytesAssumption
<1>4. ByteIn(0, 0) = 0 /\ ByteIn(0, 1) = 0 /\ ByteIn(0, 2) = 0 /\ ByteIn(0, 3) = 0
  BY SMT, <1>3 DEF ByteIn
<1>5. CASE WordBytes = 2
  <2>1. WordMod = 65536
    BY SMT, <1>5 DEF WordMod
  <2>2. ByteIn(65535, 0) = 255 /\ ByteIn(65535, 1) = 255 /\ ByteIn(65535, 2) = 0 /\ ByteIn(65535, 3) = 0
    BY SMT, <1>5 DEF ByteIn
  <2> QED
    BY SMT, <1>1, <1>2, <1>4, <1>5, <2>1, <2>2
<1>6. CASE WordBytes = 3
  <2>1. WordMod = 16777216
    BY SMT, <1>6 DEF WordMod
  <2>2. /\ ByteIn(16777215, 0) = 255 /\ ByteIn(16777215, 1) = 255
        /\ ByteIn(16777215, 2) = 255 /\ ByteIn(16777215, 3) = 0
    BY SMT, <1>6 DEF ByteIn
  <2> QED
    BY SMT, <1>1, <1>2, <1>4, <1>6, <2>1, <2>2
<1>7. CASE WordBytes = 4
  <2>1. WordMod = 4294967296
    BY SMT, <1>7 DEF WordMod
  <2>2. /\ ByteIn(4294967295, 0) = 255 /\ ByteIn(4294967295, 1) = 255
        /\ ByteIn(4294967295, 2) = 255 /\ ByteIn(4294967295, 3) = 255
    BY SMT, <1>7 DEF ByteIn
  <2> QED
    BY SMT, <1>1, <1>2, <1>4, <1>7, <2>1, <2>2
<1> QED
  BY <1>3, <1>5, <1>6, <1>7

\* & of a byte with 0, and of 255 with itself.
LEMMA AndOfEnds ==
  /\ \A x \in Byte : AndByte(x, 0) = 0
  /\ AndByte(255, 255) = 255
<1>1. ASSUME NEW x \in Byte PROVE AndByte(x, 0) = 0
  <2>1. \A i \in {0, 1, 2, 3, 4, 5, 6, 7} : Bit(x, i) \in {0, 1}
    BY BitIsBit DEF Byte
  <2>2. /\ Bit(0, 0) = 0 /\ Bit(0, 1) = 0 /\ Bit(0, 2) = 0 /\ Bit(0, 3) = 0
        /\ Bit(0, 4) = 0 /\ Bit(0, 5) = 0 /\ Bit(0, 6) = 0 /\ Bit(0, 7) = 0
    BY SMT DEF Bit
  <2> QED
    BY SMT, <2>1, <2>2, AndByteSum
<1>2. /\ Bit(255, 0) = 1 /\ Bit(255, 1) = 1 /\ Bit(255, 2) = 1 /\ Bit(255, 3) = 1
      /\ Bit(255, 4) = 1 /\ Bit(255, 5) = 1 /\ Bit(255, 6) = 1 /\ Bit(255, 7) = 1
  BY SMT DEF Bit
<1>3. AndByte(255, 255) = 255
  BY SMT, <1>2, AndByteSum
<1> QED
  BY <1>1, <1>3

\* C's & and | with 0, and & of -1 with itself.
LEMMA BitsOfEnds ==
  /\ \A v \in Int : BitAnd(v, 0) = 0 /\ BitAnd(0, v) = 0
  /\ \A v \in Word : BitOr(v, 0) = v /\ BitOr(0, v) = v
  /\ BitAnd(-1, -1) = -1
<1>1. ASSUME NEW v \in Int PROVE BitAnd(v, 0) = 0
  <2> DEFINE and(i) == AndByte(ByteIn(ToUWord(v), i), ByteIn(ToUWord(0), i))
             here(i) == IF i < WordBytes THEN and(i) * 256 ^ i ELSE 0
  <2>1. BitAnd(v, 0) = ToWord(here(0) + here(1) + here(2) + here(3))
    BY DEF BitAnd, FromBytes
  <2>2. ToUWord(v) \in Nat
    BY ToWordBounds, WordBounds
  <2>3. /\ ByteIn(ToUWord(v), 0) \in Byte /\ ByteIn(ToUWord(v), 1) \in Byte
        /\ ByteIn(ToUWord(v), 2) \in Byte /\ ByteIn(ToUWord(v), 3) \in Byte
    BY <2>2, ByteInType
  <2>4. and(0) = 0 /\ and(1) = 0 /\ and(2) = 0 /\ and(3) = 0
    BY <2>3, BytesOfEnds, AndOfEnds
  <2> HIDE DEF and
  <2>5. here(0) = 0 /\ here(1) = 0 /\ here(2) = 0 /\ here(3) = 0
    BY SMT, <2>4
  <2> HIDE DEF here
  <2>6. here(0) + here(1) + here(2) + here(3) = 0
    BY <2>5
  <2>7. ToWord(0) = 0
    BY SmallWords
  <2> QED
    BY <2>1, <2>6, <2>7, Zenon
<1>2. BitAnd(-1, -1) = -1
  <2> DEFINE and(i) == AndByte(ByteIn(ToUWord(-1), i), ByteIn(ToUWord(-1), i))
             here(i) == IF i < WordBytes THEN and(i) * 256 ^ i ELSE 0
  <2>1. BitAnd(-1, -1) = ToWord(here(0) + here(1) + here(2) + here(3))
    BY DEF BitAnd, FromBytes
  <2>2. /\ and(0) = 255 /\ and(1) = 255
        /\ 2 < WordBytes => and(2) = 255
        /\ 3 < WordBytes => and(3) = 255
    BY BytesOfEnds, AndOfEnds
  <2> HIDE DEF and
  <2>3. WordBytes \in {2, 3, 4}
    BY WordBytesAssumption
  <2>4. WordBytes = 2 => here(0) + here(1) + here(2) + here(3) = 65535 /\ WordMod = 65536
    BY SMT, <2>2 DEF WordMod
  <2>5. WordBytes = 3 => here(0) + here(1) + here(2) + here(3) = 16777215 /\ WordMod = 16777216
    BY SMT, <2>2 DEF WordMod
  <2>6. WordBytes = 4 => here(0) + here(1) + here(2) + here(3) = 4294967295 /\ WordMod = 4294967296
    BY SMT, <2>2 DEF WordMod
  <2> HIDE DEF here
  <2>7. here(0) + here(1) + here(2) + here(3) = WordMod - 1
    BY SMT, <2>3, <2>4, <2>5, <2>6
  <2>8. ToWord(WordMod - 1) = -1
    <3>1. (WordMod - 1) % WordMod = WordMod - 1
      BY ModSmall, WordModHalves
    <3> QED
      BY <3>1, WordModHalves DEF ToWord, Signed, Half
  <2> QED
    BY <2>1, <2>7, <2>8
<1>3. \A v \in Int : BitAnd(0, v) = 0
  BY <1>1, BitsCommute
<1>4. ASSUME NEW v \in Word PROVE BitOr(v, 0) = v /\ BitOr(0, v) = v
  <2>1. v \in Int /\ ToWord(v) = v
    BY WordBounds, ToWordOfWord
  <2>2. BitOr(v, 0) = ToWord(v + 0 - 0) /\ BitOr(0, v) = ToWord(0 + v - 0)
    BY <1>1, <1>3, <2>1, Zenon DEF BitOr
  <2>3. v + 0 - 0 = v /\ 0 + v - 0 = v
    BY <2>1
  <2> QED
    BY <2>1, <2>2, <2>3
<1> QED
  BY <1>1, <1>2, <1>3, <1>4
=============================================================================
