------------------------------ MODULE MicroWord ------------------------------
(***************************************************************************)
(* A microinstruction as mic1-asm and mic1 hold it: an array of five bytes *)
(* with a field for everything the data path is told (src/mic1-util.c).    *)
(*                                                                         *)
(* A number is the set of the positions of its one bits, so that `|' is    *)
(* \union, `<<' adds to the positions, and the byte at index i of an array *)
(* has the positions 8 * i .. 8 * i + 7.                                   *)
(***************************************************************************)
EXTENDS DataPath, Sequences, FiniteSetsExt

WordBits == 0 .. 39
IntBits == 0 .. 31

\* The one bits of an int, and the number whose one bits are given.
BitsOf(n) == {i \in 0 .. 30 : Bit(n, i) = 1} \union {i \in {31} : n < 0}
NumberOf(bits) ==
  LET power(i) == 2 ^ i
  IN  MapThenSumSet(power, bits)

-----------------------------------------------------------------------------
\* mic1_word_set_bits: bits << (pos & 7), from the byte of pos on until there is
\* no bit left, beyond the five bytes too.
SetBits(word, bits, pos) ==
  word \union {b + pos : b \in {b \in bits : b + (pos % 8) \in IntBits}}

\* Faulty: the upper bits of the last byte are not cut off.
GetBitsUnmasked(memory, pos, size) ==
  {p - pos : p \in {p \in memory : p >= pos /\ p < pos + size + 7}}

\* mic1_word_get_bits.  The loop compares the bits it has with pos + size, not
\* with size: it reads more bytes than it needs, for the address two beyond the
\* word, so that `memory' has those too.  The mask takes them out again.
BytesRead(pos, size) ==
  1 + Min({n \in 0 .. 8 : (8 - (pos % 8)) + 8 * n + 8 >= pos + size})
GetBits(memory, pos, size) ==
  LET end == 8 * (pos \div 8 + BytesRead(pos, size))
  IN  {p - pos : p \in {p \in memory : p >= pos /\ p < end}} \intersect (0 .. size - 1)
GetBit(memory, pos) == GetBits(memory, pos, 1) # {}

-----------------------------------------------------------------------------
(* The fields, and the codes in them. *)

B_BUS_OFFSET == 0
B_BUS_SIZE == 4
MemoryBit == [fetch |-> 4, read |-> 5, write |-> 6]
C_BUS_OFFSET == 7
ALU_OFFSET == 16
ALU_SIZE == 6
SRA1_BIT == 22
SLL8_BIT == 23
JamBit == [Z |-> 24, N |-> 25, MPC |-> 26]
ADDRESS_OFFSET == 27
ADDRESS_SIZE == 9

COnBus == <<"MAR", "MDR", "PC", "SP", "LV", "CPP", "TOS", "OPC", "H">>
CBit(r) == C_BUS_OFFSET - 1 + CHOOSE i \in DOMAIN COnBus : COnBus[i] = r

BOnBus == <<"MDR", "PC", "MBR", "MBRU", "SP", "LV", "CPP", "TOS", "OPC">>
HaltCode == 15

AluCode(alu) ==
  LET inc == 0 inva == 1 enb == 2 ena == 3 f1 == 4 f0 == 5
  IN  CASE alu = "H" -> {f1, ena}
        [] alu = "B" -> {f1, enb}
        [] alu = "inv H" -> {f1, ena, inva}
        [] alu = "inv B" -> {f0, ena, enb}
        [] alu = "B+H" -> {f0, f1, ena, enb}
        [] alu = "B+H+1" -> {f0, f1, ena, enb, inc}
        [] alu = "H+1" -> {f0, f1, ena, inc}
        [] alu = "B+1" -> {f0, f1, enb, inc}
        [] alu = "B-H" -> {f0, f1, ena, enb, inva, inc}
        [] alu = "B-1" -> {f0, f1, enb, inva, inc}
        [] alu = "-H" -> {f0, f1, ena, inva, inc}
        [] alu = "B and H" -> {ena, enb}
        [] alu = "B or H" -> {f1, ena, enb}
        [] alu = "0" -> {f1}
        [] alu = "1" -> {f1, inc}
        [] alu = "-1" -> {f1, inva}

\* What mic1.c reads in a word: the switches of mic1_read_b_bus and mic1_alu,
\* and a bit for everything else.
BusOf(code) ==
  CASE code < Len(BOnBus) -> BOnBus[code + 1]
    [] code = HaltCode -> "halt"
    [] OTHER -> "none"

AluOf(bits) ==
  LET meant == {alu \in Alu \ {"random"} : AluCode(alu) = bits}
  IN  IF meant = {} THEN "random" ELSE CHOOSE alu \in meant : TRUE

Decoded(memory) ==
  [b |-> BusOf(NumberOf(GetBits(memory, B_BUS_OFFSET, B_BUS_SIZE))),
   alu |-> AluOf(GetBits(memory, ALU_OFFSET, ALU_SIZE)),
   sra1 |-> GetBit(memory, SRA1_BIT), sll8 |-> GetBit(memory, SLL8_BIT),
   c |-> {r \in Registers : GetBit(memory, CBit(r))},
   mem |-> {m \in DOMAIN MemoryBit : GetBit(memory, MemoryBit[m])},
   jam |-> {j \in DOMAIN JamBit : GetBit(memory, JamBit[j])},
   next |-> NumberOf(GetBits(memory, ADDRESS_OFFSET, ADDRESS_SIZE))]

-----------------------------------------------------------------------------
(* The image file: five bytes in hexadecimal for a word, the last one first. *)

WordWrite(word) ==
  [i \in 1 .. 5 |-> {p - 8 * (5 - i) : p \in word \intersect (8 * (5 - i) .. 8 * (5 - i) + 7)}]
\* Faulty: the first byte of the line is the first byte of the word.
WordReadForwards(line) == UNION {{b + 8 * (i - 1) : b \in line[i]} : i \in 1 .. 5}
WordRead(line) == UNION {{b + 8 * (5 - i) : b \in line[i]} : i \in 1 .. 5}

ImageWrite(entry, store) ==
  [entry |-> entry, words |-> [a \in MicroAddresses |-> WordWrite(store[a])]]
ImageLoad(file) == [a \in MicroAddresses |-> WordRead(file.words[a])]

\* The bits from word a of a store on: the words lie one behind the other, and
\* `after' is what lies behind the last one.
MemoryFrom(store, a, after) ==
  store[a] \union {p + 40 : p \in IF a + 1 \in MicroAddresses THEN store[a + 1] ELSE after}
=============================================================================
