----------------------------- MODULE MasmProofs -----------------------------
(***************************************************************************)
(* Theorems about the microassembler as a whole.  What mic1 reads in a     *)
(* word is what mic1-asm put there: for every word, every field, every     *)
(* store and whatever lies behind it in memory.  Its layout is a layout of *)
(* MasmLayout, whatever happens around it, and the word of every line gets *)
(* to the simulator as it was made.  And that word does what the line says *)
(* in the microprogram: what it loads, computes, and where it goes.        *)
(*                                                                         *)
(* mic1_word_get_bits reads more bytes than it needs, two beyond the word  *)
(* for the address, and leaves it to a mask to take them out; and for a    *)
(* field that starts in the first byte and goes on in the second it would  *)
(* stop too early.  No field of mic1-util.h is of that kind.               *)
(***************************************************************************)
EXTENDS Masm, WellFoundedInduction, FiniteSetTheorems, SequenceTheorems, TLAPS

\* The bits of a field, as one would define them.
Field(memory, pos, size) == {b \in 0 .. size - 1 : b + pos \in memory}

\* Fields for which the loop of mic1_word_get_bits reads enough bytes: they end
\* before the ninth byte, and in the first one if they start in it.
IsField(pos, size) ==
  /\ pos \in Nat /\ size \in Nat \ {0} /\ pos + size <= 64
  /\ pos >= 8 \/ pos + size <= 8

-----------------------------------------------------------------------------
(* Reading a field. *)

\* A set of natural numbers that is not empty has a least one, which is its Min.
LEMMA MinIsIn ==
  ASSUME NEW S \in SUBSET Nat, S # {}
  PROVE  Min(S) \in S /\ \A y \in S : Min(S) =< y
<1> DEFINE R == {ss \in Nat \X Nat : ss[1] < ss[2]}
<1>1. IsWellFoundedOn(R, Nat)
  BY NatLessThanWellFounded DEF OpToRel
<1> HIDE DEF R
<1>2. PICK x \in S : \A y \in S : ~(<<y, x>> \in R)
  BY <1>1, WFMin, Zenon
<1>3. \A y \in S : ~(y < x)
  BY <1>2 DEF R
<1>4. \A y \in S : x =< y
  BY <1>3
<1> QED
  BY <1>4 DEF Min

\* A bounded set of natural numbers that is not empty has a greatest one.
LEMMA MaxIsIn ==
  ASSUME NEW n \in Nat, NEW S \in SUBSET (0 .. n), S # {}
  PROVE  Max(S) \in S /\ \A y \in S : y =< Max(S)
<1> DEFINE R == {n - x : x \in S}
<1>1. R \in SUBSET Nat /\ R # {}
  <2>1. \A x \in S : n - x \in Nat
    OBVIOUS
  <2> QED
    BY <2>1
<1>2. Min(R) \in R /\ \A y \in R : Min(R) =< y
  BY <1>1, MinIsIn
<1>3. PICK x \in S : Min(R) = n - x
  BY <1>2
<1>4. \A y \in S : y =< x
  <2> TAKE y \in S
  <2>1. n - x =< n - y
    BY <1>2, <1>3
  <2> QED
    BY <2>1
<1> QED
  BY <1>4 DEF Max

\* The byte that holds a position, and the place in it.
LEMMA ByteOfPosition ==
  ASSUME NEW pos \in Nat
  PROVE  /\ pos \div 8 \in Nat /\ pos % 8 \in 0 .. 7
         /\ pos = (8 * (pos \div 8)) + (pos % 8)
OBVIOUS

\* The loop ends behind the last byte of the field.
LEMMA ReadsEnough ==
  ASSUME NEW pos, NEW size, IsField(pos, size)
  PROVE  /\ BytesRead(pos, size) \in Nat
         /\ 8 * (pos \div 8 + BytesRead(pos, size)) >= pos + size
<1> DEFINE enough == {n \in 0 .. 8 : (8 - (pos % 8)) + 8 * n + 8 >= pos + size}
<1>1. pos \in Nat /\ size \in Nat /\ pos + size <= 64
  BY DEF IsField
<1>2. /\ pos \div 8 \in Nat /\ pos % 8 \in 0 .. 7
      /\ pos = (8 * (pos \div 8)) + (pos % 8)
  BY <1>1, ByteOfPosition
<1>3. 7 \in enough /\ enough \in SUBSET Nat
  BY <1>1, <1>2
<1>4. Min(enough) \in enough
  BY <1>3, MinIsIn, Zenon
<1>5. BytesRead(pos, size) = 1 + Min(enough)
  BY DEF BytesRead
<1>6. Min(enough) \in 0 .. 8 /\ (8 - (pos % 8)) + 8 * Min(enough) + 8 >= pos + size
  BY <1>4
<1> HIDE DEF enough
<1>7. CASE pos >= 8
  <2>1. pos \div 8 >= 1
    BY <1>2, <1>7
  <2> QED
    BY <1>1, <1>2, <1>5, <1>6, <2>1
<1>8. CASE pos + size <= 8
  BY <1>1, <1>2, <1>5, <1>6, <1>8
<1> QED
  BY <1>7, <1>8 DEF IsField

\* What is read is the field and nothing else: the bytes that are read too
\* much do not show, and those that are needed are not missing.
THEOREM GetBitsIsField ==
  ASSUME NEW memory \in SUBSET Nat, NEW pos, NEW size, IsField(pos, size)
  PROVE  GetBits(memory, pos, size) = Field(memory, pos, size)
<1> DEFINE end == 8 * (pos \div 8 + BytesRead(pos, size))
<1>1. pos \in Nat /\ size \in Nat \ {0}
  BY DEF IsField
<1>2. end \in Nat /\ end >= pos + size
  <2>1. pos \div 8 \in Nat
    BY <1>1, ByteOfPosition
  <2> QED
    BY <1>1, <2>1, ReadsEnough
<1>3. GetBits(memory, pos, size)
        = {p - pos : p \in {p \in memory : p >= pos /\ p < end}} \intersect (0 .. size - 1)
  BY DEF GetBits
<1> HIDE DEF end
<1>4. ASSUME NEW b \in GetBits(memory, pos, size) PROVE b \in Field(memory, pos, size)
  <2>1. PICK p \in memory : b = p - pos /\ p >= pos /\ p < end
    BY <1>3, <1>4
  <2>2. b + pos = p /\ b \in 0 .. size - 1
    BY <1>1, <1>3, <1>4, <2>1
  <2> QED
    BY <2>2 DEF Field
<1>5. ASSUME NEW b \in Field(memory, pos, size) PROVE b \in GetBits(memory, pos, size)
  <2>1. b \in 0 .. size - 1 /\ b + pos \in memory
    BY <1>5 DEF Field
  <2>2. b + pos >= pos /\ b + pos < end /\ b = (b + pos) - pos
    BY <1>1, <1>2, <2>1
  <2> QED
    BY <1>3, <2>1, <2>2
<1> QED
  BY <1>4, <1>5

\* Only the bits of the field matter.
LEMMA GetBitsOnlyField ==
  ASSUME NEW memory \in SUBSET Nat, NEW other \in SUBSET Nat,
         NEW pos, NEW size, IsField(pos, size),
         \A p \in pos .. pos + size - 1 : p \in memory <=> p \in other
  PROVE  GetBits(memory, pos, size) = GetBits(other, pos, size)
<1>1. pos \in Nat /\ size \in Nat
  BY DEF IsField
<1>2. ASSUME NEW b \in 0 .. size - 1
      PROVE  b + pos \in memory <=> b + pos \in other
  BY <1>1, <1>2
<1>3. Field(memory, pos, size) = Field(other, pos, size)
  BY <1>2 DEF Field
<1> QED
  BY <1>3, GetBitsIsField

-----------------------------------------------------------------------------
(* Writing a field. *)

\* The field that is written has the bits that are put, and those it had before.
THEOREM PutIsGot ==
  ASSUME NEW word \in SUBSET Nat, NEW pos, NEW size, IsField(pos, size),
         NEW bits \in SUBSET (0 .. size - 1), (pos % 8) + size <= 32
  PROVE  GetBits(SetBits(word, bits, pos), pos, size) = GetBits(word, pos, size) \union bits
<1>1. pos \in Nat /\ size \in Nat \ {0} /\ pos % 8 \in 0 .. 7
  BY ByteOfPosition DEF IsField
<1>2. SetBits(word, bits, pos) = word \union {b + pos : b \in bits}
  <2>1. \A b \in bits : b + (pos % 8) \in IntBits
    BY <1>1 DEF IntBits
  <2> QED
    BY <2>1 DEF SetBits
<1>3. SetBits(word, bits, pos) \in SUBSET Nat
  <2>1. \A b \in bits : b + pos \in Nat
    BY <1>1
  <2> QED
    BY <1>2, <2>1
<1>4. ASSUME NEW b \in 0 .. size - 1
      PROVE  b + pos \in SetBits(word, bits, pos) <=> b + pos \in word \/ b \in bits
  <2>1. \A c \in bits : c + pos = b + pos => c = b
    BY <1>1, <1>4
  <2> QED
    BY <1>2, <2>1
<1>5. Field(SetBits(word, bits, pos), pos, size) = Field(word, pos, size) \union bits
  BY <1>4 DEF Field
<1> QED
  BY <1>3, <1>5, GetBitsIsField

\* A field elsewhere in the word stays as it is.
THEOREM PutElsewhere ==
  ASSUME NEW word \in SUBSET Nat, NEW pos \in Nat, NEW bits \in SUBSET Nat,
         NEW pos2, NEW size2, IsField(pos2, size2),
         \A b \in bits : b + pos < pos2 \/ b + pos >= pos2 + size2
  PROVE  GetBits(SetBits(word, bits, pos), pos2, size2) = GetBits(word, pos2, size2)
<1>1. SetBits(word, bits, pos) \in SUBSET Nat
  <2>1. \A b \in bits : b + pos \in Nat
    OBVIOUS
  <2> QED
    BY <2>1 DEF SetBits
<1>2. \A p \in pos2 .. pos2 + size2 - 1 : p \in SetBits(word, bits, pos) <=> p \in word
  BY DEF SetBits, IsField
<1> QED
  BY <1>1, <1>2, GetBitsOnlyField

-----------------------------------------------------------------------------
(* The image file, and the words in the memory of the simulator. *)

\* The bytes of a line of the file, read in the order they are written in, give
\* the word.
LEMMA LineReadsBack ==
  ASSUME NEW word \in SUBSET WordBits
  PROVE  WordRead(WordWrite(word)) = word
<1> DEFINE line == WordWrite(word)
           back(i) == {b + 8 * (5 - i) : b \in line[i]}
           part(i) == word \intersect (8 * (5 - i) .. 8 * (5 - i) + 7)
<1>1. ASSUME NEW i \in 1 .. 5 PROVE back(i) = part(i)
  <2>1. line[i] = {p - 8 * (5 - i) : p \in part(i)}
    BY DEF WordWrite
  <2>2. \A p \in part(i) : (p - 8 * (5 - i)) + 8 * (5 - i) = p
    OBVIOUS
  <2> QED
    BY <2>1, <2>2
<1>2. WordRead(line) = UNION {back(i) : i \in 1 .. 5}
  BY DEF WordRead
<1>3. \A p \in word : \E i \in 1 .. 5 : p \in part(i)
  <2> TAKE p \in word
  <2>1. p \in 0 .. 39
    BY DEF WordBits
  <2>2. p \in 0 .. 7 \/ p \in 8 .. 15 \/ p \in 16 .. 23 \/ p \in 24 .. 31 \/ p \in 32 .. 39
    BY <2>1
  <2>3. p \in part(5) \/ p \in part(4) \/ p \in part(3) \/ p \in part(2) \/ p \in part(1)
    BY <2>2
  <2> QED
    BY <2>3
<1> QED
  BY <1>1, <1>2, <1>3

\* mic1 loads from the image the words that mic1-asm wrote.
THEOREM ImageSurvives ==
  ASSUME NEW entry, NEW loaded \in [MicroAddresses -> SUBSET WordBits]
  PROVE  ImageLoad(ImageWrite(entry, loaded)) = loaded
<1>1. \A a \in MicroAddresses : ImageWrite(entry, loaded).words[a] = WordWrite(loaded[a])
  BY DEF ImageWrite
<1>2. \A a \in MicroAddresses : WordRead(WordWrite(loaded[a])) = loaded[a]
  BY LineReadsBack
<1> QED
  BY <1>1, <1>2 DEF ImageLoad

-----------------------------------------------------------------------------
(* What the simulator reads. *)

\* The fields of mic1-util.h are of the kind that is read right, and in the word.
LEMMA FieldsAreFields ==
  /\ IsField(B_BUS_OFFSET, B_BUS_SIZE) /\ B_BUS_OFFSET + B_BUS_SIZE <= 40
  /\ IsField(ALU_OFFSET, ALU_SIZE) /\ ALU_OFFSET + ALU_SIZE <= 40
  /\ IsField(ADDRESS_OFFSET, ADDRESS_SIZE) /\ ADDRESS_OFFSET + ADDRESS_SIZE <= 40
  /\ \A p \in 0 .. 39 : IsField(p, 1)
BY DEF IsField, B_BUS_OFFSET, B_BUS_SIZE, ALU_OFFSET, ALU_SIZE, ADDRESS_OFFSET, ADDRESS_SIZE

\* Every bit that the simulator tests is in the word.
LEMMA BitsInWord ==
  /\ SRA1_BIT \in 0 .. 39 /\ SLL8_BIT \in 0 .. 39
  /\ \A m \in DOMAIN MemoryBit : MemoryBit[m] \in 0 .. 39
  /\ \A j \in DOMAIN JamBit : JamBit[j] \in 0 .. 39
  /\ \A r \in Registers : CBit(r) \in 0 .. 39
<1>1. ASSUME NEW r \in Registers PROVE CBit(r) \in 0 .. 39
  <2>1. DOMAIN COnBus = 1 .. 9
    BY DEF COnBus
  <2>2. \E i \in 1 .. 9 : COnBus[i] = r
    BY DEF Registers, COnBus
  <2> QED
    BY <2>1, <2>2 DEF CBit, C_BUS_OFFSET
<1> QED
  BY <1>1 DEF SRA1_BIT, SLL8_BIT, MemoryBit, JamBit

\* Two memories with the same first five bytes are the same microinstruction.
THEOREM DecodesOnlyTheWord ==
  ASSUME NEW memory \in SUBSET Nat, NEW other \in SUBSET Nat,
         memory \intersect WordBits = other \intersect WordBits
  PROVE  Decoded(memory) = Decoded(other)
<1>1. \A p \in 0 .. 39 : p \in memory <=> p \in other
  BY DEF WordBits
<1>2. ASSUME NEW pos, NEW size, IsField(pos, size), pos + size <= 40
      PROVE  GetBits(memory, pos, size) = GetBits(other, pos, size)
  <2>1. \A p \in pos .. pos + size - 1 : p \in memory <=> p \in other
    BY <1>1, <1>2 DEF IsField
  <2> QED
    BY <1>2, <2>1, GetBitsOnlyField
<1>3. ASSUME NEW p \in 0 .. 39 PROVE GetBit(memory, p) = GetBit(other, p)
  <2>1. IsField(p, 1) /\ p + 1 <= 40
    BY FieldsAreFields
  <2> QED
    BY <1>2, <2>1 DEF GetBit
<1>4. /\ GetBits(memory, B_BUS_OFFSET, B_BUS_SIZE) = GetBits(other, B_BUS_OFFSET, B_BUS_SIZE)
      /\ GetBits(memory, ALU_OFFSET, ALU_SIZE) = GetBits(other, ALU_OFFSET, ALU_SIZE)
      /\ GetBits(memory, ADDRESS_OFFSET, ADDRESS_SIZE)
           = GetBits(other, ADDRESS_OFFSET, ADDRESS_SIZE)
  BY <1>2, FieldsAreFields
<1>5. {r \in Registers : GetBit(memory, CBit(r))} = {r \in Registers : GetBit(other, CBit(r))}
  BY <1>3, BitsInWord
<1>6. {m \in DOMAIN MemoryBit : GetBit(memory, MemoryBit[m])}
        = {m \in DOMAIN MemoryBit : GetBit(other, MemoryBit[m])}
  BY <1>3, BitsInWord
<1>7. {j \in DOMAIN JamBit : GetBit(memory, JamBit[j])}
        = {j \in DOMAIN JamBit : GetBit(other, JamBit[j])}
  BY <1>3, BitsInWord
<1>8. GetBit(memory, SRA1_BIT) = GetBit(other, SRA1_BIT)
      /\ GetBit(memory, SLL8_BIT) = GetBit(other, SLL8_BIT)
  BY <1>3, BitsInWord
<1> QED
  BY <1>4, <1>5, <1>6, <1>7, <1>8, Zenon DEF Decoded

\* mic1 executes at every address the word that is there: neither the next word
\* nor what lies behind the control store shows in any field.
THEOREM NothingBehindShows ==
  ASSUME NEW loaded \in [MicroAddresses -> SUBSET WordBits], NEW a \in MicroAddresses,
         NEW after \in SUBSET Nat
  PROVE  Decoded(MemoryFrom(loaded, a, after)) = Decoded(loaded[a])
<1> DEFINE behind == IF a + 1 \in MicroAddresses THEN loaded[a + 1] ELSE after
<1>1. loaded[a] \in SUBSET Nat /\ behind \in SUBSET Nat
  BY DEF WordBits
<1>2. MemoryFrom(loaded, a, after) = loaded[a] \union {p + 40 : p \in behind}
  BY DEF MemoryFrom
<1> HIDE DEF behind
<1>3. MemoryFrom(loaded, a, after) \in SUBSET Nat
  BY <1>1, <1>2
<1>4. MemoryFrom(loaded, a, after) \intersect WordBits = loaded[a] \intersect WordBits
  BY <1>1, <1>2 DEF WordBits
<1> QED
  BY <1>1, <1>3, <1>4, DecodesOnlyTheWord

-----------------------------------------------------------------------------
\* The layout with its theorems.
LP == INSTANCE MasmLayoutProofs WITH
        Half <- 256, IntMod <- WordMod, Sources <- Seq(LayoutLineSet)

-----------------------------------------------------------------------------
(* The layout of mic1-asm is a layout. *)

\* The parts of an instruction.
LEMMA InsnParts ==
  ASSUME NEW insn \in Insns
  PROVE  /\ insn.kind \in {"rd", "wr", "fetch", "empty", "halt", "goto", "igoto", "if", "assign"}
         /\ insn.kind = "goto" => insn.label \in Labels
         /\ insn.kind = "igoto" => insn.base \in Int
         /\ insn.kind = "if" => /\ insn.cond \in {"Z", "N"}
                                /\ insn.label1 \in Labels /\ insn.label2 \in Labels
         /\ insn.kind = "assign" => /\ insn.targets \in Seq(Readable \union {"VIRTUAL"})
                                    /\ insn.alu \in AluExprs
                                    /\ insn.shift \in {"none", "rshift1", "lshift8"}
                                    /\ insn.amount \in Int
BY DEF Insns

\* The last `if' of a line.
LEMMA LastIf ==
  ASSUME NEW insns \in Seq(Insns), IfsOf(insns) # {}
  PROVE  /\ Max(IfsOf(insns)) \in IfsOf(insns) /\ insns # <<>>
         /\ insns[Max(IfsOf(insns))].label1 \in Labels
         /\ insns[Max(IfsOf(insns))].label2 \in Labels
<1> DEFINE ifs == IfsOf(insns)
<1>1. ifs \in SUBSET (0 .. Len(insns)) /\ Len(insns) \in Nat /\ ifs \subseteq DOMAIN insns
  BY DEF IfsOf
<1>2. \A i \in ifs : insns[i] \in Insns /\ insns[i].kind = "if"
  BY DEF IfsOf
<1>3. \A i \in ifs : insns[i].label1 \in Labels /\ insns[i].label2 \in Labels
  BY <1>2, InsnParts
<1> HIDE DEF ifs
<1>4. Max(ifs) \in ifs
  BY <1>1, MaxIsIn DEF ifs
<1>5. insns # <<>>
  BY <1>1, <1>4
<1> QED
  BY <1>3, <1>4, <1>5 DEF ifs

\* The values of a word and those of an int, of which Nowhere is none.
LEMMA WordModFacts ==
  WordMod \in Nat /\ WordMod % 2 = 0 /\ WordMod \div 2 >= 2 * 256
<1>1. WordBytes = 2 \/ WordBytes = 3 \/ WordBytes = 4
  BY WordBytesAssumption
<1>2. WordMod \in {65536, 16777216, 4294967296}
  <2>1. WordBytes = 2 => WordMod = 65536
    BY SMT DEF WordMod
  <2>2. WordBytes = 3 => WordMod = 16777216
    BY SMT DEF WordMod
  <2>3. WordBytes = 4 => WordMod = 4294967296
    BY SMT DEF WordMod
  <2> QED
    BY <1>1, <2>1, <2>2, <2>3
<1> HIDE DEF WordMod
<1> QED
  BY <1>2

LEMMA NowhereIsNoAddress == Nowhere \in Int /\ Nowhere < 0 /\ Nowhere \notin MicroAddresses
BY WordModFacts DEF Nowhere, MicroAddresses

\* The lines of a microprogram, as the layout sees them.
LEMMA LineType ==
  ASSUME NEW line \in SourceLines
  PROVE  LayoutLine(line) \in LayoutLineSet
<1>1. PICK label \in Labels \union {NoLabel}, absolute \in Nat \union {Nowhere}, insns \in Seq(Insns) :
         /\ label = line.label /\ absolute = line.absolute /\ insns = line.insns
         /\ label = NoLabel => absolute = Nowhere
  BY DEF SourceLines
<1> DEFINE label1 == IF IfsOf(insns) = {} THEN NoLabel ELSE insns[Max(IfsOf(insns))].label1
           label2 == IF IfsOf(insns) = {} THEN NoLabel ELSE insns[Max(IfsOf(insns))].label2
           some == insns # <<>>
           laid == [label |-> label, absolute |-> absolute, insns |-> some,
                    label1 |-> label1, label2 |-> label2]
<1>2. LayoutLine(line) = laid
  BY Zenon, <1>1 DEF LayoutLine
<1>3. /\ label1 \in Labels \union {NoLabel} /\ label2 \in Labels \union {NoLabel}
      /\ label1 # NoLabel => some
      /\ some \in BOOLEAN
  BY LastIf
<1> HIDE DEF label1, label2, some
<1> QED
  BY <1>1, <1>2, <1>3 DEF LayoutLineSet

\* A microprogram is a sequence of lines that the parser makes.
LEMMA ProgramType ==
  ASSUME NEW p \in Microprograms
  PROVE  p \in Seq(SourceLines) /\ LayoutLines(p) \in Seq(LayoutLineSet)
<1>1. p \in Seq(SourceLines)
  BY MicroprogramsAssumption
<1>2. \A n \in DOMAIN p : LayoutLine(p[n]) \in LayoutLineSet
  BY <1>1, LineType
<1> QED
  BY <1>1, <1>2 DEF LayoutLines

\* The layout starts from the lines of the microprogram.
LEMMA LayoutInit == Init => LP!Init
BY ProgramType DEF Init, Layout!Init, LP!Init, Layout!Addresses, LP!Addresses,
   Layout!None, LP!None, Layout!Nowhere, LP!Nowhere

\* Layout and LP name one module with the same parameters: with all its
\* definitions expanded, both sides are the same formula.
LEMMA LayoutNext == Layout!Next => LP!Next
BY Zenon DEF
   Layout!vars, LP!vars, Layout!Addresses, LP!Addresses, Layout!Nowhere,
   LP!Nowhere, Layout!None, LP!None, Layout!LineOf, LP!LineOf,
   Layout!Defines, LP!Defines, Layout!Lookup, LP!Lookup, Layout!LaidOut,
   LP!LaidOut, Layout!Free, LP!Free, Layout!FreePairs, LP!FreePairs,
   Layout!Least, LP!Least, Layout!Step, LP!Step, Layout!Place, LP!Place,
   Layout!PlaceNothing, LP!PlaceNothing, Layout!Warn, LP!Warn,
   Layout!AtLabel, LP!AtLabel, Layout!IsAbsolute, LP!IsAbsolute,
   Layout!LongMax, LP!LongMax, Layout!Strtol, LP!Strtol, Layout!ToInt, LP!ToInt,
   Layout!LabelAddress, LP!LabelAddress, Layout!MayBeTaken, LP!MayBeTaken,
   Layout!PlaceOutside, LP!PlaceOutside, Layout!AbsoluteOutside, LP!AbsoluteOutside,
   Layout!OtherOutside, LP!OtherOutside, Layout!FalseLaidOutOutside,
   LP!FalseLaidOutOutside, Layout!JumpCrashes, LP!JumpCrashes,
   Layout!Clashes, LP!Clashes, Layout!Crashes, LP!Crashes,
   Layout!NotAbsolute, LP!NotAbsolute, Layout!AbsoluteOutOfRange,
   LP!AbsoluteOutOfRange, Layout!Absolute, LP!Absolute,
   Layout!AbsoluteCrashes, LP!AbsoluteCrashes, Layout!AtIf, LP!AtIf,
   Layout!Target1, LP!Target1, Layout!Target2, LP!Target2, Layout!Targets,
   LP!Targets, Layout!NoIf, LP!NoIf, Layout!UndefinedTarget,
   LP!UndefinedTarget, Layout!BothLaidOut, LP!BothLaidOut,
   Layout!TrueLaidOut, LP!TrueLaidOut, Layout!FalseLaidOut, LP!FalseLaidOut,
   Layout!Pair, LP!Pair, Layout!NoneLaidOut, LP!NoneLaidOut, Layout!Hole,
   LP!Hole, Layout!AtRest, LP!AtRest, Layout!Rest, LP!Rest,
   Layout!NothingLeft, LP!NothingLeft, Layout!NextPass, LP!NextPass,
   Layout!Finished, LP!Finished, Layout!Next, LP!Next

\* The passes of the layout are the only steps that change what it keeps.
LEMMA StepsOfLayout ==
  ASSUME [Next]_masmVars
  PROVE  [LP!Next]_LP!vars
<1>1. CASE LayOut
  BY <1>1, LayoutNext DEF LayOut
<1>2. ASSUME UNCHANGED layoutVars PROVE UNCHANGED LP!vars
  BY <1>2 DEF layoutVars, LP!vars
<1>3. CASE Check
  BY <1>2, <1>3 DEF Check
<1>4. CASE NoEntry
  BY <1>2, <1>4 DEF NoEntry
<1>5. CASE Abort
  BY <1>2, <1>5 DEF Abort
<1>6. CASE Emit
  BY <1>2, <1>6 DEF Emit
<1>7. CASE Finished \/ UNCHANGED masmVars
  BY <1>2, <1>7 DEF Finished, masmVars
<1> QED
  BY <1>1, <1>3, <1>4, <1>5, <1>6, <1>7 DEF Next

\* Every behaviour of mic1-asm is one of MasmLayout, as its own lines see it:
\* checking and emitting disturb nothing that the layout relies on.
THEOREM ImplementsLayout == Spec => LP!Spec
<1> QED
  BY LayoutInit, StepsOfLayout, PTL DEF Spec, LP!Spec

-----------------------------------------------------------------------------
(* What is known of the layout holds in the assembler. *)

\* The assumptions of MasmLayout hold for the lines that the parser makes.
LEMMA LayoutAssumptions ==
  /\ 256 \in Nat \ {0}
  /\ WordMod \in Nat /\ WordMod % 2 = 0 /\ WordMod \div 2 >= 2 * 256
  /\ NoLabel \notin Labels
  /\ \A source \in Seq(LayoutLineSet) :
       /\ source \in Seq(LP!Lines)
       /\ \A n \in DOMAIN source :
            /\ source[n].label = NoLabel => source[n].absolute = LP!Nowhere
            /\ source[n].label1 # NoLabel => source[n].insns
<1>1. ASSUME NEW source \in Seq(LayoutLineSet), NEW n \in DOMAIN source
      PROVE  source[n] \in LayoutLineSet
  OBVIOUS
<1>2. \A line \in LayoutLineSet :
        /\ line \in LP!Lines
        /\ line.label = NoLabel => line.absolute = LP!Nowhere
        /\ line.label1 # NoLabel => line.insns
  BY DEF LayoutLineSet, LP!Lines, Nowhere, LP!Nowhere
<1>3. ASSUME NEW source \in Seq(LayoutLineSet) PROVE source \in Seq(LP!Lines)
  BY <1>2
<1> QED
  BY <1>1, <1>2, <1>3, LabelAssumption, WordModFacts

\* In mic1-asm, too, every line is at its address in a store without warnings.
LEMMA AssemblerPlacesLines == Spec => [](LP!TypeOK /\ LP!EveryLinePlaced)
<1>1. LP!Spec => []LP!TypeOK
  BY LayoutAssumptions, LP!TypeCorrect, Zenon
<1>2. LP!Spec => []LP!EveryLinePlaced
  BY LayoutAssumptions, LP!LinesArePlaced, Zenon
<1> QED
  BY <1>1, <1>2, ImplementsLayout, PTL

\* Every line is in the store, or not laid out.
LinesInStore == \A line \in DOMAIN lines : address[line] \in MicroAddresses \union {Nowhere}

\* They all are when no absolute label is negative.
LEMMA AssemblerStaysInStore == Spec => [](LP!InStore => LinesInStore)
<1>1. LP!Spec => []LP!LeavesOnlyByLabels
  BY LayoutAssumptions, LP!OnlyNegativeLabelsLeave, Zenon
<1>2. LP!TypeOK /\ LP!LeavesOnlyByLabels => (LP!InStore => LinesInStore)
  <2> SUFFICES ASSUME LP!TypeOK, LP!LeavesOnlyByLabels, LP!InStore,
                      NEW line \in DOMAIN lines
               PROVE  address[line] \in MicroAddresses \union {Nowhere}
    BY DEF LinesInStore
  <2>1. lines \in Seq(LP!Lines)
    BY Zenon DEF LP!TypeOK
  <2>2. \A n \in DOMAIN lines : LP!IsAbsolute(n) => LP!LabelAddress(n) \in Int
    BY <2>1, LayoutAssumptions, LP!LabelAddressType, Zenon
  <2>3. ~\E n \in DOMAIN lines : LP!IsAbsolute(n) /\ LP!LabelAddress(n) < 0
    BY <2>2 DEF LP!InStore
  <2>4. LP!LaidOut(line) => address[line] \in LP!Addresses
    BY <2>3, Zenon DEF LP!LeavesOnlyByLabels
  <2>5. LP!Addresses = MicroAddresses /\ LP!Nowhere = Nowhere
    BY DEF LP!Addresses, MicroAddresses, LP!Nowhere, Nowhere
  <2> QED
    BY <2>4, <2>5 DEF LP!LaidOut
<1> QED
  BY <1>1, <1>2, AssemblerPlacesLines, ImplementsLayout, PTL

\* What Layout asks of the labels is what LP asks of them.
LEMMA LabelsInStore == Layout!InStore => LP!InStore
BY Zenon DEF Layout!InStore, LP!InStore, Layout!IsAbsolute, LP!IsAbsolute,
   Layout!LabelAddress, LP!LabelAddress, Layout!Strtol, LP!Strtol, Layout!LongMax,
   LP!LongMax, Layout!ToInt, LP!ToInt, Layout!Nowhere, LP!Nowhere

\* The two targets of every `if' in an image are where the hardware looks, when no
\* absolute label is negative.
THEOREM AssemblerPairsBranches == Spec => []LP!BranchesPaired
<1>1. LP!Spec => []LP!BranchesPaired
  BY LayoutAssumptions, LP!BranchesArePaired, Zenon
<1> QED
  BY <1>1, ImplementsLayout, PTL

-----------------------------------------------------------------------------
(* From the check of a line to the simulator. *)

\* The lines that are laid out are those of the microprogram.
SameProgram == lines = LayoutLines(program)

\* When there is an image it was written from the final store, with no warning
\* given; nothing has changed since.
FinalStore == [a \in MicroAddresses |-> EmittedWord(a)]
FinalImage == ImageWrite(address[EntryLine], FinalStore)
EmittedInv ==
  outcome = "emitted" =>
    /\ pass = "done" /\ warnings = {} /\ Len(words) = Len(program)
    /\ image = FinalImage

\* The image depends on the layout and the words alone.
LEMMA FinalImageStays ==
  ASSUME UNCHANGED layoutVars, UNCHANGED words
  PROVE  FinalImage' = FinalImage
<1>1. EntryLine' = EntryLine
  BY DEF EntryLine, Layout!LineOf, layoutVars
<1>2. FinalStore' = FinalStore
  BY DEF FinalStore, EmittedWord, layoutVars
<1> QED
  BY <1>1, <1>2 DEF FinalImage, layoutVars

\* The lines that are laid out stay those of the microprogram.
LEMMA ProgramStays == Spec => []SameProgram
<1>1. Init => SameProgram
  BY DEF Init, SameProgram
<1>2. SameProgram /\ [Next]_masmVars => SameProgram'
  <2> SUFFICES ASSUME SameProgram, [Next]_masmVars PROVE SameProgram'
    OBVIOUS
  <2>1. program' = program
    BY DEF Next, LayOut, Check, NoEntry, Abort, Emit, Finished, masmVars
  <2>2. lines' = lines
    BY StepsOfLayout, Zenon
    DEF LP!Next, LP!vars, LP!NotAbsolute, LP!AbsoluteOutOfRange, LP!Absolute,
        LP!AbsoluteCrashes, LP!AbsoluteOutside, LP!FalseLaidOutOutside, LP!JumpCrashes,
        LP!OtherOutside, LP!NoIf, LP!UndefinedTarget, LP!BothLaidOut, LP!TrueLaidOut,
        LP!FalseLaidOut, LP!NoneLaidOut, LP!Rest, LP!NothingLeft, LP!NextPass, LP!Finished
  <2> QED
    BY <2>1, <2>2 DEF SameProgram, LayoutLines
<1> QED
  BY <1>1, <1>2, PTL DEF Spec

\* The image and what it was made of are not changed once it is there.
LEMMA ImageStays == Spec => []EmittedInv
<1>1. Init => EmittedInv
  BY DEF Init, EmittedInv
<1>2. EmittedInv /\ [Next]_masmVars => EmittedInv'
  <2> SUFFICES ASSUME EmittedInv, [Next]_masmVars PROVE EmittedInv'
    OBVIOUS
  <2>1. CASE LayOut
    BY <2>1 DEF LayOut, EmittedInv
  <2>2. CASE Check
    BY <2>2 DEF Check, Checking, EmittedInv
  <2>3. CASE NoEntry \/ Abort
    BY <2>3 DEF NoEntry, Abort, EmittedInv
  <2>4. CASE Emit
    <3>1. pass = "done" /\ warnings = {} /\ Len(words) = Len(program)
      BY <2>4 DEF Emit, AllChecked
    <3>2. image' = FinalImage
      BY <2>4 DEF Emit, FinalImage, FinalStore
    <3>3. UNCHANGED <<program, layoutVars, words>>
      BY <2>4 DEF Emit
    <3> QED
      BY <3>1, <3>2, <3>3, FinalImageStays DEF EmittedInv, layoutVars
  <2>5. CASE Finished \/ UNCHANGED masmVars
    <3>1. UNCHANGED masmVars
      BY <2>5 DEF Finished
    <3> QED
      BY <3>1, FinalImageStays DEF EmittedInv, masmVars, layoutVars
  <2> QED
    BY <2>1, <2>2, <2>3, <2>4, <2>5 DEF Next
<1> QED
  BY <1>1, <1>2, PTL DEF Spec

-----------------------------------------------------------------------------
\* In every image, of any microprogram without a negative label, each line with
\* instructions is the word that masm_check_line made of it: the simulator that
\* loads the image decodes at the address of the line these five bytes and
\* nothing around them.
THEOREM WordsReach ==
  Spec => [](Assembled =>
               \A n \in DOMAIN program, after \in SUBSET Nat :
                 Placed(n) => WordReaches(n, after))
<1>1. ASSUME LP!TypeOK, LP!EveryLinePlaced, SameProgram, EmittedInv,
             LP!InStore, LinesInStore, outcome = "emitted",
             NEW n \in DOMAIN program, NEW after \in SUBSET Nat, Placed(n)
      PROVE  WordReaches(n, after)
  <2>1. n \in DOMAIN lines /\ lines[n].insns
    BY <1>1 DEF SameProgram, LayoutLines, LayoutLine, Placed
  <2>2. address[n] # Nowhere /\ store[address[n]] = n
    BY <1>1, <2>1 DEF EmittedInv, LP!EveryLinePlaced, LP!Clean, LP!Emittable, LP!LaidOut,
                      LP!Nowhere, Nowhere
  <2>3. address[n] \in MicroAddresses
    BY <1>1, <2>1, <2>2 DEF LinesInStore
  <2>4. n # Layout!None
    <3>1. lines \in Seq(LP!Lines)
      BY <1>1 DEF LP!TypeOK
    <3> QED
      BY <2>1, <3>1 DEF Layout!None
  <2>5. FinalStore[address[n]] = words[n] \intersect WordBits
    BY <2>2, <2>3, <2>4 DEF FinalStore, EmittedWord
  <2>6. FinalStore \in [MicroAddresses -> SUBSET WordBits]
    BY DEF FinalStore, EmittedWord
  <2>7. ImageLoad(image) = FinalStore
    BY <1>1, <2>6, ImageSurvives DEF EmittedInv, FinalImage
  <2>8. Decoded(MemoryFrom(FinalStore, address[n], after)) = Decoded(FinalStore[address[n]])
    BY <2>3, <2>6, NothingBehindShows, Zenon
  <2> QED
    BY <2>5, <2>7, <2>8, Zenon DEF WordReaches, MicroWordAt
<1>2. LP!TypeOK /\ LP!EveryLinePlaced /\ SameProgram /\ EmittedInv
        /\ (LP!InStore => LinesInStore)
        => (Assembled =>
              \A n \in DOMAIN program, after \in SUBSET Nat :
                Placed(n) => WordReaches(n, after))
  BY <1>1, LabelsInStore DEF Assembled
<1> QED
  BY <1>2, AssemblerPlacesLines, AssemblerStaysInStore, ProgramStays, ImageStays, PTL

\* In particular for the contents of the memory behind that TLC tries.
THEOREM WordsReachSimulator == Spec => []WordsReachTheSimulator
<1>1. {} \in SUBSET Nat /\ 0 .. 15 \in SUBSET Nat
  OBVIOUS
<1>2. (Assembled =>
         \A n \in DOMAIN program, after \in SUBSET Nat :
           Placed(n) => WordReaches(n, after))
        => WordsReachTheSimulator
  BY <1>1 DEF WordsReachTheSimulator
<1> QED
  BY <1>2, WordsReach, PTL

\* Induction over the natural numbers, and down from a number.
LEMMA Upwards ==
  ASSUME NEW G \in SUBSET Nat, 0 \in G, \A k \in Nat : k \in G => k + 1 \in G
  PROVE  G = Nat
<1> SUFFICES ASSUME Nat \ G # {} PROVE FALSE
  OBVIOUS
<1>1. Min(Nat \ G) \in Nat \ G /\ \A y \in Nat \ G : Min(Nat \ G) =< y
  BY MinIsIn
<1> DEFINE k == Min(Nat \ G)
<1>2. k # 0 /\ k \in Nat
  BY <1>1
<1>3. k - 1 \in Nat /\ k - 1 \notin G
  BY <1>1, <1>2
<1> QED
  BY <1>1, <1>2, <1>3

\* A set of positions that is closed downwards, and has the last one, has all.
LEMMA Downwards ==
  ASSUME NEW n \in Nat, NEW G \in SUBSET (1 .. n + 1), n + 1 \in G,
         \A j \in 1 .. n : j + 1 \in G => j \in G
  PROVE  G = 1 .. n + 1
<1> DEFINE H == {k \in Nat : k > n \/ n + 1 - k \in G}
<1>1. 0 \in H
  OBVIOUS
<1>2. ASSUME NEW k \in Nat, k \in H PROVE k + 1 \in H
  <2>1. CASE k + 1 > n
    BY <2>1
  <2>2. CASE k + 1 =< n
    <3>1. n + 1 - k \in G /\ n - k \in 1 .. n /\ (n - k) + 1 = n + 1 - k
      BY <1>2, <2>2
    <3>2. n - k \in G
      BY <3>1
    <3> QED
      BY <2>2, <3>2
  <2> QED
    BY <2>1, <2>2
<1> HIDE DEF H
<1>3. H = Nat
  <2>1. H \in SUBSET Nat
    BY DEF H
  <2> QED
    BY <1>1, <1>2, <2>1, Upwards
<1>4. ASSUME NEW j \in 1 .. n + 1 PROVE j \in G
  <2>1. n + 1 - j \in H
    BY <1>3
  <2>2. ~(n + 1 - j > n) /\ n + 1 - (n + 1 - j) = j
    OBVIOUS
  <2> QED
    BY <2>1, <2>2 DEF H
<1> QED
  BY <1>4

\* What the folds of the community modules define: values for the subsets of D,
\* each from that of the set without the element chosen of it.
Foldable(D, V, v0, step, choice) ==
  /\ IsFiniteSet(D) /\ v0 \in V /\ step \in [D -> [V -> V]]
  /\ \A s \in SUBSET D : s # {} => choice[s] \in s
IsFold(f, D, V, v0, step, choice) ==
  /\ f \in [SUBSET D -> V]
  /\ \A s \in SUBSET D : f[s] = IF s = {} THEN v0 ELSE step[choice[s]][f[s \ {choice[s]}]]

\* Over a finite set there is such a fold.
LEMMA FoldExists ==
  ASSUME NEW D, NEW V, NEW v0, NEW step, NEW choice, Foldable(D, V, v0, step, choice)
  PROVE  \E f : IsFold(f, D, V, v0, step, choice)
<1>f. /\ IsFiniteSet(D) /\ v0 \in V /\ step \in [D -> [V -> V]]
      /\ \A s \in SUBSET D : s # {} => choice[s] \in s
  BY DEF Foldable
<1> USE <1>f
<1> DEFINE Right(f, s) == f[s] = IF s = {} THEN v0 ELSE step[choice[s]][f[s \ {choice[s]}]]
           G == {k \in Nat : \E f \in [SUBSET D -> V] :
                   \A s \in SUBSET D : Cardinality(s) =< k => Right(f, s)}
<1>0. \A s \in SUBSET D : IsFiniteSet(s) /\ Cardinality(s) \in Nat
  BY FS_Subset, FS_CardinalityType
<1>1. 0 \in G
  <2> DEFINE f == [s \in SUBSET D |-> v0]
  <2>1. \A s \in SUBSET D : Cardinality(s) =< 0 => s = {}
    BY <1>0, FS_EmptySet
  <2>2. f \in [SUBSET D -> V] /\ \A s \in SUBSET D : Cardinality(s) =< 0 => Right(f, s)
    BY <2>1
  <2> QED
    BY <2>2
<1>2. ASSUME NEW k \in Nat, k \in G PROVE k + 1 \in G
  <2>1. PICK f \in [SUBSET D -> V] : \A s \in SUBSET D : Cardinality(s) =< k => Right(f, s)
    BY <1>2
  <2> DEFINE g == [s \in SUBSET D |-> IF s = {} THEN v0
                                      ELSE IF Cardinality(s) =< k THEN f[s]
                                      ELSE step[choice[s]][f[s \ {choice[s]}]]]
  <2>2. g \in [SUBSET D -> V]
    <3> SUFFICES ASSUME NEW s \in SUBSET D PROVE g[s] \in V
      OBVIOUS
    <3>1. s # {} => choice[s] \in D /\ s \ {choice[s]} \in SUBSET D
      OBVIOUS
    <3>2. s # {} => step[choice[s]][f[s \ {choice[s]}]] \in V
      BY <3>1
    <3> QED
      BY <3>2
  <2>3. ASSUME NEW s \in SUBSET D, Cardinality(s) =< k PROVE g[s] = f[s]
    <3>1. CASE s = {}
      BY <2>1, <2>3, <3>1
    <3>2. CASE s # {}
      BY <2>3, <3>2
    <3> QED
      BY <3>1, <3>2
  <2>4. ASSUME NEW s \in SUBSET D, Cardinality(s) =< k + 1 PROVE Right(g, s)
    <3>1. CASE s = {}
      BY <3>1
    <3>2. CASE s # {}
      <4> DEFINE r == s \ {choice[s]}
      <4>1. r \in SUBSET D /\ choice[s] \in s
        BY <3>2
      <4>2. Cardinality(r) = Cardinality(s) - 1
        BY <1>0, <4>1, FS_RemoveElement
      <4>3. Cardinality(r) =< k
        BY <1>0, <2>4, <4>2
      <4>4. g[r] = f[r]
        BY <2>3, <4>1, <4>3
      <4>5. g[s] = step[choice[s]][f[r]]
        <5>1. CASE Cardinality(s) =< k
          <6>1. Right(f, s)
            BY <2>1, <5>1
          <6> QED
            BY <2>3, <3>2, <5>1, <6>1
        <5>2. CASE ~(Cardinality(s) =< k)
          BY <3>2, <5>2
        <5> QED
          BY <5>1, <5>2
      <4> HIDE DEF g
      <4> QED
        BY <3>2, <4>4, <4>5
    <3> QED
      BY <3>1, <3>2
  <2> HIDE DEF g, Right
  <2> QED
    BY <2>2, <2>4
<1>3. G = Nat
  <2>1. G \in SUBSET Nat
    OBVIOUS
  <2> HIDE DEF G
  <2> QED
    BY <1>1, <1>2, <2>1, Upwards
<1>4. Cardinality(D) \in G /\ \A s \in SUBSET D : Cardinality(s) =< Cardinality(D)
  BY <1>0, <1>3, FS_Subset, FS_CardinalityType
<1>5. PICK f \in [SUBSET D -> V] : \A s \in SUBSET D : Cardinality(s) =< Cardinality(D) => Right(f, s)
  BY <1>4
<1>6. \A s \in SUBSET D : Right(f, s)
  BY <1>4, <1>5
<1> QED
  BY <1>6 DEF IsFold

\* The powers of two that are the values of the bits of an address.
LEMMA Powers ==
  /\ 2 ^ 0 = 1 /\ 2 ^ 1 = 2 /\ 2 ^ 2 = 4 /\ 2 ^ 3 = 8 /\ 2 ^ 4 = 16
  /\ 2 ^ 5 = 32 /\ 2 ^ 6 = 64 /\ 2 ^ 7 = 128 /\ 2 ^ 8 = 256
BY SMT

\* The number with the bits in S that are of no address and of no code's.
Weighted(S) ==
  (IF 0 \in S THEN 1 ELSE 0) + (IF 1 \in S THEN 2 ELSE 0) + (IF 2 \in S THEN 4 ELSE 0)
    + (IF 3 \in S THEN 8 ELSE 0) + (IF 4 \in S THEN 16 ELSE 0) + (IF 5 \in S THEN 32 ELSE 0)
    + (IF 6 \in S THEN 64 ELSE 0) + (IF 7 \in S THEN 128 ELSE 0) + (IF 8 \in S THEN 256 ELSE 0)

\* One more bit adds its value.
LEMMA WeightedStep ==
  ASSUME NEW S \in SUBSET (0 .. 8), NEW x \in S
  PROVE  Weighted(S) = 2 ^ x + Weighted(S \ {x}) /\ 2 ^ x \in Nat
<1> DEFINE R == S \ {x}
<1>1. \A y \in 0 .. 8 : y \in R <=> y \in S /\ y # x
  OBVIOUS
<1>2. /\ 0 \in R <=> 0 \in S /\ 0 # x
      /\ 1 \in R <=> 1 \in S /\ 1 # x
      /\ 2 \in R <=> 2 \in S /\ 2 # x
      /\ 3 \in R <=> 3 \in S /\ 3 # x
      /\ 4 \in R <=> 4 \in S /\ 4 # x
      /\ 5 \in R <=> 5 \in S /\ 5 # x
      /\ 6 \in R <=> 6 \in S /\ 6 # x
      /\ 7 \in R <=> 7 \in S /\ 7 # x
      /\ 8 \in R <=> 8 \in S /\ 8 # x
  BY <1>1
<1> HIDE DEF R
<1>3. x = 0 \/ x = 1 \/ x = 2 \/ x = 3 \/ x = 4 \/ x = 5 \/ x = 6 \/ x = 7 \/ x = 8
  OBVIOUS
<1>4. Weighted(S) = 2 ^ x + Weighted(R) /\ 2 ^ x \in Nat
  <2>0. CASE x = 0
    BY SMT, <1>2, <2>0, Powers DEF Weighted
  <2>1. CASE x = 1
    BY SMT, <1>2, <2>1, Powers DEF Weighted
  <2>2. CASE x = 2
    BY SMT, <1>2, <2>2, Powers DEF Weighted
  <2>3. CASE x = 3
    BY SMT, <1>2, <2>3, Powers DEF Weighted
  <2>4. CASE x = 4
    BY SMT, <1>2, <2>4, Powers DEF Weighted
  <2>5. CASE x = 5
    BY SMT, <1>2, <2>5, Powers DEF Weighted
  <2>6. CASE x = 6
    BY SMT, <1>2, <2>6, Powers DEF Weighted
  <2>7. CASE x = 7
    BY SMT, <1>2, <2>7, Powers DEF Weighted
  <2>8. CASE x = 8
    BY SMT, <1>2, <2>8, Powers DEF Weighted
  <2> QED
    BY <1>3, <2>0, <2>1, <2>2, <2>3, <2>4, <2>5, <2>6, <2>7, <2>8
<1> QED
  BY <1>4 DEF R

\* The number with the given one bits, as a sum of its bits.
LEMMA NumberIsWeighted ==
  ASSUME NEW bits \in SUBSET (0 .. 8)
  PROVE  NumberOf(bits) = Weighted(bits)
<1> DEFINE any(s) == CHOOSE x \in s : TRUE
           choice == [s \in SUBSET bits |-> any(s)]
           power == [x \in bits |-> 2 ^ x]
           step == [x \in bits |-> [v \in Nat |-> power[x] + v]]
           Fold(g) == [s \in SUBSET bits |-> IF s = {} THEN 0 ELSE 2 ^ any(s) + g[s \ {any(s)}]]
<1>1. power \in [bits -> Nat]
  BY WeightedStep
<1>2. step \in [bits -> [Nat -> Nat]]
  <2> HIDE DEF power
  <2> QED
    BY <1>1
<1>3. \A s \in SUBSET bits : s # {} => any(s) \in s /\ choice[s] = any(s)
  <2> SUFFICES ASSUME NEW s \in SUBSET bits, s # {} PROVE any(s) \in s /\ choice[s] = any(s)
    OBVIOUS
  <2>1. \E x \in s : TRUE
    OBVIOUS
  <2> QED
    BY <2>1, Zenon
<1>4. IsFiniteSet(bits)
  <2>1. IsFiniteSet(0 .. 8)
    <3>1. 0 \in Int /\ 8 \in Int
      OBVIOUS
    <3> QED
      BY <3>1, FS_Interval, Zenon
  <2> QED
    BY <2>1, FS_Subset
<1> HIDE DEF any
<1>5. PICK f \in [SUBSET bits -> Nat] : \A s \in SUBSET bits :
        f[s] = IF s = {} THEN 0 ELSE step[choice[s]][f[s \ {choice[s]}]]
  <2>1. \A s \in SUBSET bits : s # {} => choice[s] \in s
    BY <1>3
  <2> HIDE DEF step, choice
  <2>2. Foldable(bits, Nat, 0, step, choice)
    BY <1>2, <1>4, <2>1 DEF Foldable
  <2>3. \E f : IsFold(f, bits, Nat, 0, step, choice)
    BY <2>2, FoldExists, Zenon
  <2> QED
    BY <2>3 DEF IsFold
<1>6. f = Fold(f)
  <2>1. ASSUME NEW s \in SUBSET bits, s # {}
        PROVE  f[s] = 2 ^ any(s) + f[s \ {any(s)}]
    <3>1. choice[s] = any(s) /\ any(s) \in bits /\ s \ {any(s)} \in SUBSET bits
      BY <1>3, <2>1
    <3>2. step[any(s)][f[s \ {any(s)}]] = power[any(s)] + f[s \ {any(s)}]
      <4> HIDE DEF power
      <4> QED
        BY <3>1
    <3>3. f[s] = step[choice[s]][f[s \ {choice[s]}]]
      <4> HIDE DEF step, choice
      <4> QED
        BY <1>5, <2>1
    <3> HIDE DEF step, choice
    <3> QED
      BY <3>1, <3>2, <3>3, Zenon
  <2> QED
    BY <1>5, <2>1
<1> DEFINE iter == CHOOSE g : g = Fold(g)
<1>7. iter = Fold(iter)
  <2> HIDE DEF Fold
  <2> QED
    BY <1>6
<1>8. NumberOf(bits) = iter[bits]
  BY DEF NumberOf, MapThenSumSet, MapThenFoldSet, any
<1>9. \A s \in SUBSET bits : iter[s] = IF s = {} THEN 0 ELSE 2 ^ any(s) + iter[s \ {any(s)}]
  <2> HIDE DEF iter
  <2> QED
    BY <1>7
<1> HIDE DEF iter
<1>a. \A s \in SUBSET bits : IsFiniteSet(s) /\ Cardinality(s) \in Nat
  BY <1>4, FS_Subset, FS_CardinalityType
<1> DEFINE G == {k \in Nat : \A s \in SUBSET bits : Cardinality(s) = k => iter[s] = Weighted(s)}
<1>b. 0 \in G
  <2> SUFFICES ASSUME NEW s \in SUBSET bits, Cardinality(s) = 0 PROVE iter[s] = Weighted(s)
    OBVIOUS
  <2>1. s = {}
    BY <1>a, FS_EmptySet
  <2>2. Weighted({}) = 0
    BY DEF Weighted
  <2> QED
    BY <1>9, <2>1, <2>2
<1>c. ASSUME NEW k \in Nat, k \in G PROVE k + 1 \in G
  <2> SUFFICES ASSUME NEW s \in SUBSET bits, Cardinality(s) = k + 1 PROVE iter[s] = Weighted(s)
    OBVIOUS
  <2>1. s # {}
    BY <1>a, FS_EmptySet
  <2>2. any(s) \in s /\ s \ {any(s)} \in SUBSET bits
    BY <1>3, <2>1
  <2>3. Cardinality(s \ {any(s)}) = k
    BY <1>a, <2>2, FS_RemoveElement
  <2>4. iter[s \ {any(s)}] = Weighted(s \ {any(s)})
    BY <1>c, <2>2, <2>3
  <2>5. Weighted(s) = 2 ^ any(s) + Weighted(s \ {any(s)})
    <3>1. s \in SUBSET (0 .. 8)
      OBVIOUS
    <3> QED
      BY <2>2, <3>1, WeightedStep, Zenon
  <2>6. iter[s] = 2 ^ any(s) + iter[s \ {any(s)}]
    BY <1>9, <2>1
  <2> QED
    BY <2>4, <2>5, <2>6, Zenon
<1>d. G = Nat
  <2>1. G \in SUBSET Nat
    OBVIOUS
  <2> HIDE DEF G
  <2> QED
    BY <1>b, <1>c, <2>1, Upwards
<1> QED
  BY <1>8, <1>a, <1>d

\* The positions beyond those of an address.
LEMMA HighPowers ==
  ASSUME NEW i \in 9 .. 30
  PROVE  2 ^ i \in Nat /\ 2 ^ i >= 512
<1>1. i = 9 \/ i = 10 \/ i = 11 \/ i = 12 \/ i = 13 \/ i = 14
      \/ i = 15 \/ i = 16 \/ i = 17 \/ i = 18 \/ i = 19 \/ i = 20
      \/ i = 21 \/ i = 22 \/ i = 23 \/ i = 24 \/ i = 25 \/ i = 26
      \/ i = 27 \/ i = 28 \/ i = 29 \/ i = 30
  OBVIOUS
<1> QED
  <2>9. CASE i = 9
    BY SMT, <2>9
  <2>10. CASE i = 10
    BY SMT, <2>10
  <2>11. CASE i = 11
    BY SMT, <2>11
  <2>12. CASE i = 12
    BY SMT, <2>12
  <2>13. CASE i = 13
    BY SMT, <2>13
  <2>14. CASE i = 14
    BY SMT, <2>14
  <2>15. CASE i = 15
    BY SMT, <2>15
  <2>16. CASE i = 16
    BY SMT, <2>16
  <2>17. CASE i = 17
    BY SMT, <2>17
  <2>18. CASE i = 18
    BY SMT, <2>18
  <2>19. CASE i = 19
    BY SMT, <2>19
  <2>20. CASE i = 20
    BY SMT, <2>20
  <2>21. CASE i = 21
    BY SMT, <2>21
  <2>22. CASE i = 22
    BY SMT, <2>22
  <2>23. CASE i = 23
    BY SMT, <2>23
  <2>24. CASE i = 24
    BY SMT, <2>24
  <2>25. CASE i = 25
    BY SMT, <2>25
  <2>26. CASE i = 26
    BY SMT, <2>26
  <2>27. CASE i = 27
    BY SMT, <2>27
  <2>28. CASE i = 28
    BY SMT, <2>28
  <2>29. CASE i = 29
    BY SMT, <2>29
  <2>30. CASE i = 30
    BY SMT, <2>30
  <2> QED
    BY <1>1, <2>9, <2>10, <2>11, <2>12, <2>13, <2>14, <2>15, <2>16, <2>17, <2>18, <2>19,
       <2>20, <2>21, <2>22, <2>23, <2>24, <2>25, <2>26, <2>27, <2>28, <2>29, <2>30

\* The bits of an address are its nine bits, and say which address it is.
LEMMA NumberOfBits ==
  ASSUME NEW n \in 0 .. 511
  PROVE  /\ BitsOf(n) \in SUBSET (0 .. 8) /\ NumberOf(BitsOf(n)) = n
         /\ n < 16 => BitsOf(n) \in SUBSET (0 .. 3)
<1> DEFINE h1 == n \div 2      h2 == n \div 4      h3 == n \div 8      h4 == n \div 16
           h5 == n \div 32     h6 == n \div 64     h7 == n \div 128    h8 == n \div 256
<1>1. /\ Bit(n, 0) = n % 2 /\ Bit(n, 1) = h1 % 2 /\ Bit(n, 2) = h2 % 2
      /\ Bit(n, 3) = h3 % 2 /\ Bit(n, 4) = h4 % 2 /\ Bit(n, 5) = h5 % 2
      /\ Bit(n, 6) = h6 % 2 /\ Bit(n, 7) = h7 % 2 /\ Bit(n, 8) = h8 % 2
  BY SMT DEF Bit
<1>2. /\ h1 \in Nat /\ h2 \in Nat /\ h3 \in Nat /\ h4 \in Nat
      /\ h5 \in Nat /\ h6 \in Nat /\ h7 \in Nat /\ h8 \in Nat
      /\ n = 2 * h1 + (n % 2) /\ h1 = 2 * h2 + (h1 % 2) /\ h2 = 2 * h3 + (h2 % 2)
      /\ h3 = 2 * h4 + (h3 % 2) /\ h4 = 2 * h5 + (h4 % 2) /\ h5 = 2 * h6 + (h5 % 2)
      /\ h6 = 2 * h7 + (h6 % 2) /\ h7 = 2 * h8 + (h7 % 2) /\ h8 = h8 % 2
  BY SMT
<1>3. /\ n % 2 \in {0, 1} /\ h1 % 2 \in {0, 1} /\ h2 % 2 \in {0, 1} /\ h3 % 2 \in {0, 1}
      /\ h4 % 2 \in {0, 1} /\ h5 % 2 \in {0, 1} /\ h6 % 2 \in {0, 1} /\ h7 % 2 \in {0, 1}
      /\ h8 % 2 \in {0, 1}
  BY SMT
<1> HIDE DEF h1, h2, h3, h4, h5, h6, h7, h8
<1>4. ASSUME NEW i \in 9 .. 30 PROVE Bit(n, i) = 0
  <2>1. PICK m \in Nat : m = 2 ^ i /\ m >= 512
    BY HighPowers
  <2>2. n \div m = 0
    BY SMT, <2>1
  <2> QED
    BY <2>1, <2>2 DEF Bit
<1>5. \A i \in 0 .. 30 : i \in BitsOf(n) <=> Bit(n, i) = 1
  BY DEF BitsOf
<1>6. BitsOf(n) \in SUBSET (0 .. 8)
  <2> SUFFICES ASSUME NEW i \in BitsOf(n) PROVE i \in 0 .. 8
    OBVIOUS
  <2>1. i \in 0 .. 30
    BY DEF BitsOf
  <2>2. Bit(n, i) # 0
    BY <1>5, <2>1
  <2> QED
    BY <1>4, <2>1, <2>2
<1> DEFINE S == BitsOf(n)
<1>7. /\ 0 \in S <=> n % 2 = 1
      /\ 1 \in S <=> h1 % 2 = 1
      /\ 2 \in S <=> h2 % 2 = 1
      /\ 3 \in S <=> h3 % 2 = 1
      /\ 4 \in S <=> h4 % 2 = 1
      /\ 5 \in S <=> h5 % 2 = 1
      /\ 6 \in S <=> h6 % 2 = 1
      /\ 7 \in S <=> h7 % 2 = 1
      /\ 8 \in S <=> h8 % 2 = 1
  BY <1>1, <1>5
<1>8. Weighted(S) = n
  <2> HIDE DEF S
  <2> QED
    BY SMT, <1>2, <1>3, <1>7 DEF Weighted
<1>9. n < 16 => S \in SUBSET (0 .. 3)
  <2> SUFFICES ASSUME n < 16, NEW i \in S PROVE i \in 0 .. 3
    OBVIOUS
  <2> HIDE DEF S
  <2>1. 4 \notin S /\ 5 \notin S /\ 6 \notin S /\ 7 \notin S /\ 8 \notin S
    BY <1>2, <1>3, <1>7
  <2>2. i \in 0 .. 8
    BY <1>6 DEF S
  <2> QED
    BY <2>1, <2>2
<1> QED
  BY <1>6, <1>8, <1>9, NumberIsWeighted

\* The function of the ALU with a code, read as a number.
FunctionWithCode(n) ==
  CASE n = 24 -> "H"
    [] n = 20 -> "B"
    [] n = 26 -> "inv H"
    [] n = 44 -> "inv B"
    [] n = 60 -> "B+H"
    [] n = 61 -> "B+H+1"
    [] n = 57 -> "H+1"
    [] n = 53 -> "B+1"
    [] n = 63 -> "B-H"
    [] n = 55 -> "B-1"
    [] n = 59 -> "-H"
    [] n = 12 -> "B and H"
    [] n = 28 -> "B or H"
    [] n = 16 -> "0"
    [] n = 17 -> "1"
    [] n = 18 -> "-1"

\* The codes of the ALU are six bits, and each says which function it is of.
LEMMA AluCodeNumbers ==
  ASSUME NEW x \in Alu \ {"random"}
  PROVE  AluCode(x) \in SUBSET (0 .. 5) /\ FunctionWithCode(Weighted(AluCode(x))) = x
<1>c0. CASE x = "H"
  <2>1. AluCode(x) = {4, 3}
    BY <1>c0 DEF AluCode
  <2>2. AluCode(x) \in SUBSET (0 .. 5)
    BY <2>1
  <2>3. Weighted(AluCode(x)) = 24
    BY SMT, <2>1 DEF Weighted
  <2>4. FunctionWithCode(24) = "H"
    BY SMT DEF FunctionWithCode
  <2> QED
    BY <1>c0, <2>2, <2>3, <2>4
<1>c1. CASE x = "B"
  <2>1. AluCode(x) = {4, 2}
    BY <1>c1 DEF AluCode
  <2>2. AluCode(x) \in SUBSET (0 .. 5)
    BY <2>1
  <2>3. Weighted(AluCode(x)) = 20
    BY SMT, <2>1 DEF Weighted
  <2>4. FunctionWithCode(20) = "B"
    BY SMT DEF FunctionWithCode
  <2> QED
    BY <1>c1, <2>2, <2>3, <2>4
<1>c2. CASE x = "inv H"
  <2>1. AluCode(x) = {4, 3, 1}
    BY <1>c2 DEF AluCode
  <2>2. AluCode(x) \in SUBSET (0 .. 5)
    BY <2>1
  <2>3. Weighted(AluCode(x)) = 26
    BY SMT, <2>1 DEF Weighted
  <2>4. FunctionWithCode(26) = "inv H"
    BY SMT DEF FunctionWithCode
  <2> QED
    BY <1>c2, <2>2, <2>3, <2>4
<1>c3. CASE x = "inv B"
  <2>1. AluCode(x) = {5, 3, 2}
    BY <1>c3 DEF AluCode
  <2>2. AluCode(x) \in SUBSET (0 .. 5)
    BY <2>1
  <2>3. Weighted(AluCode(x)) = 44
    BY SMT, <2>1 DEF Weighted
  <2>4. FunctionWithCode(44) = "inv B"
    BY SMT DEF FunctionWithCode
  <2> QED
    BY <1>c3, <2>2, <2>3, <2>4
<1>c4. CASE x = "B+H"
  <2>1. AluCode(x) = {5, 4, 3, 2}
    BY <1>c4 DEF AluCode
  <2>2. AluCode(x) \in SUBSET (0 .. 5)
    BY <2>1
  <2>3. Weighted(AluCode(x)) = 60
    BY SMT, <2>1 DEF Weighted
  <2>4. FunctionWithCode(60) = "B+H"
    BY SMT DEF FunctionWithCode
  <2> QED
    BY <1>c4, <2>2, <2>3, <2>4
<1>c5. CASE x = "B+H+1"
  <2>1. AluCode(x) = {5, 4, 3, 2, 0}
    BY <1>c5 DEF AluCode
  <2>2. AluCode(x) \in SUBSET (0 .. 5)
    BY <2>1
  <2>3. Weighted(AluCode(x)) = 61
    BY SMT, <2>1 DEF Weighted
  <2>4. FunctionWithCode(61) = "B+H+1"
    BY SMT DEF FunctionWithCode
  <2> QED
    BY <1>c5, <2>2, <2>3, <2>4
<1>c6. CASE x = "H+1"
  <2>1. AluCode(x) = {5, 4, 3, 0}
    BY <1>c6 DEF AluCode
  <2>2. AluCode(x) \in SUBSET (0 .. 5)
    BY <2>1
  <2>3. Weighted(AluCode(x)) = 57
    BY SMT, <2>1 DEF Weighted
  <2>4. FunctionWithCode(57) = "H+1"
    BY SMT DEF FunctionWithCode
  <2> QED
    BY <1>c6, <2>2, <2>3, <2>4
<1>c7. CASE x = "B+1"
  <2>1. AluCode(x) = {5, 4, 2, 0}
    BY <1>c7 DEF AluCode
  <2>2. AluCode(x) \in SUBSET (0 .. 5)
    BY <2>1
  <2>3. Weighted(AluCode(x)) = 53
    BY SMT, <2>1 DEF Weighted
  <2>4. FunctionWithCode(53) = "B+1"
    BY SMT DEF FunctionWithCode
  <2> QED
    BY <1>c7, <2>2, <2>3, <2>4
<1>c8. CASE x = "B-H"
  <2>1. AluCode(x) = {5, 4, 3, 2, 1, 0}
    BY <1>c8 DEF AluCode
  <2>2. AluCode(x) \in SUBSET (0 .. 5)
    BY <2>1
  <2>3. Weighted(AluCode(x)) = 63
    BY SMT, <2>1 DEF Weighted
  <2>4. FunctionWithCode(63) = "B-H"
    BY SMT DEF FunctionWithCode
  <2> QED
    BY <1>c8, <2>2, <2>3, <2>4
<1>c9. CASE x = "B-1"
  <2>1. AluCode(x) = {5, 4, 2, 1, 0}
    BY <1>c9 DEF AluCode
  <2>2. AluCode(x) \in SUBSET (0 .. 5)
    BY <2>1
  <2>3. Weighted(AluCode(x)) = 55
    BY SMT, <2>1 DEF Weighted
  <2>4. FunctionWithCode(55) = "B-1"
    BY SMT DEF FunctionWithCode
  <2> QED
    BY <1>c9, <2>2, <2>3, <2>4
<1>c10. CASE x = "-H"
  <2>1. AluCode(x) = {5, 4, 3, 1, 0}
    BY <1>c10 DEF AluCode
  <2>2. AluCode(x) \in SUBSET (0 .. 5)
    BY <2>1
  <2>3. Weighted(AluCode(x)) = 59
    BY SMT, <2>1 DEF Weighted
  <2>4. FunctionWithCode(59) = "-H"
    BY SMT DEF FunctionWithCode
  <2> QED
    BY <1>c10, <2>2, <2>3, <2>4
<1>c11. CASE x = "B and H"
  <2>1. AluCode(x) = {3, 2}
    BY <1>c11 DEF AluCode
  <2>2. AluCode(x) \in SUBSET (0 .. 5)
    BY <2>1
  <2>3. Weighted(AluCode(x)) = 12
    BY SMT, <2>1 DEF Weighted
  <2>4. FunctionWithCode(12) = "B and H"
    BY SMT DEF FunctionWithCode
  <2> QED
    BY <1>c11, <2>2, <2>3, <2>4
<1>c12. CASE x = "B or H"
  <2>1. AluCode(x) = {4, 3, 2}
    BY <1>c12 DEF AluCode
  <2>2. AluCode(x) \in SUBSET (0 .. 5)
    BY <2>1
  <2>3. Weighted(AluCode(x)) = 28
    BY SMT, <2>1 DEF Weighted
  <2>4. FunctionWithCode(28) = "B or H"
    BY SMT DEF FunctionWithCode
  <2> QED
    BY <1>c12, <2>2, <2>3, <2>4
<1>c13. CASE x = "0"
  <2>1. AluCode(x) = {4}
    BY <1>c13 DEF AluCode
  <2>2. AluCode(x) \in SUBSET (0 .. 5)
    BY <2>1
  <2>3. Weighted(AluCode(x)) = 16
    BY SMT, <2>1 DEF Weighted
  <2>4. FunctionWithCode(16) = "0"
    BY SMT DEF FunctionWithCode
  <2> QED
    BY <1>c13, <2>2, <2>3, <2>4
<1>c14. CASE x = "1"
  <2>1. AluCode(x) = {4, 0}
    BY <1>c14 DEF AluCode
  <2>2. AluCode(x) \in SUBSET (0 .. 5)
    BY <2>1
  <2>3. Weighted(AluCode(x)) = 17
    BY SMT, <2>1 DEF Weighted
  <2>4. FunctionWithCode(17) = "1"
    BY SMT DEF FunctionWithCode
  <2> QED
    BY <1>c14, <2>2, <2>3, <2>4
<1>c15. CASE x = "-1"
  <2>1. AluCode(x) = {4, 1}
    BY <1>c15 DEF AluCode
  <2>2. AluCode(x) \in SUBSET (0 .. 5)
    BY <2>1
  <2>3. Weighted(AluCode(x)) = 18
    BY SMT, <2>1 DEF Weighted
  <2>4. FunctionWithCode(18) = "-1"
    BY SMT DEF FunctionWithCode
  <2> QED
    BY <1>c15, <2>2, <2>3, <2>4
<1> QED
  BY <1>c0, <1>c1, <1>c2, <1>c3, <1>c4, <1>c5, <1>c6, <1>c7, <1>c8, <1>c9, <1>c10, <1>c11,
     <1>c12, <1>c13, <1>c14, <1>c15 DEF Alu

\* A code of the ALU is decoded as the function that it is the code of.
LEMMA AluCodesDiffer ==
  ASSUME NEW x \in Alu \ {"random"}
  PROVE  AluCode(x) \in SUBSET (0 .. 5) /\ AluOf(AluCode(x)) = x
<1>1. AluCode(x) \in SUBSET (0 .. 5)
  BY AluCodeNumbers
<1> DEFINE meant == {alu \in Alu \ {"random"} : AluCode(alu) = AluCode(x)}
<1>2. meant = {x}
  BY AluCodeNumbers
<1>3. AluOf(AluCode(x)) = IF meant = {} THEN "random" ELSE CHOOSE alu \in meant : TRUE
  BY DEF AluOf
<1> HIDE DEF meant
<1> QED
  BY <1>1, <1>2, <1>3

-----------------------------------------------------------------------------
(* Words. *)

\* The theorems about words of ImageProofs, whose image and programs no matter here.
NoInteger == {i \in Int : i \notin i}
WP == INSTANCE ImageProofs WITH MemWords <- 1, Programs <- {}, NotANumber <- NoInteger

\* The assumptions of ImageProofs hold for its instance here.
LEMMA WordAssumptions ==
  /\ WordBytes \in 2 .. 4
  /\ 1 \in Nat \ {0} /\ 1 * WordBytes < WP!WordMod /\ NoInteger \notin Int
  /\ \A p \in {} : /\ p.method \in Seq(WP!Byte) /\ p.cpool \in Seq(WP!Word)
                   /\ p.main \in 0 .. Len(p.cpool) - 1
                   /\ p.args \in Seq(Int \union {NoInteger})
                   /\ p.input \in Seq(WP!Byte)
<1>1. NoInteger \notin Int
  BY DEF NoInteger
<1>2. 1 * WordBytes < WP!WordMod
  <2>1. CASE WordBytes = 2
    BY SMT, <2>1 DEF WP!WordMod
  <2>2. CASE WordBytes = 3
    BY SMT, <2>2 DEF WP!WordMod
  <2>3. CASE WordBytes = 4
    BY SMT, <2>3 DEF WP!WordMod
  <2> QED
    BY <2>1, <2>2, <2>3, WordBytesAssumption
<1> QED
  BY <1>1, <1>2, WordBytesAssumption

\* The words of that instance are those of the data path.
LEMMA SameWords ==
  /\ WP!Word = Word
  /\ \A v : WP!ToWord(v) = ToWord(v)
  /\ \A a, b : WP!BitAnd(a, b) = BitAnd(a, b) /\ WP!BitOr(a, b) = BitOr(a, b)
<1>1. WP!Word = Word
  BY Zenon DEF WP!Word, Word, WP!WordMod, WordMod
<1>2. \A v : WP!ToWord(v) = ToWord(v)
  BY Zenon DEF WP!ToWord, ToWord, WP!Signed, Signed, WP!WordMod, WordMod
<1>3. ASSUME NEW a, NEW b PROVE WP!BitAnd(a, b) = BitAnd(a, b)
  <2> DEFINE and(i) == AndByte(ByteIn(ToUWord(a), i), ByteIn(ToUWord(b), i))
             dna(i) == WP!AndByte(WP!ByteIn(WP!ToUWord(a), i), WP!ByteIn(WP!ToUWord(b), i))
             here(i) == IF i < WordBytes THEN and(i) * 256 ^ i ELSE 0
             there(i) == IF i < WordBytes THEN dna(i) * 256 ^ i ELSE 0
  <2>1. \A x, y : WP!AndByte(x, y) = AndByte(x, y)
    <3>1. \A x, i : WP!Bit(x, i) = Bit(x, i)
      BY Zenon DEF WP!Bit, Bit
    <3> QED
      BY Zenon, <3>1 DEF WP!AndByte, AndByte
  <2>2. \A x, i : WP!ByteIn(x, i) = ByteIn(x, i)
    BY Zenon DEF WP!ByteIn, ByteIn
  <2>3. \A v : WP!ToUWord(v) = ToUWord(v)
    BY Zenon DEF WP!ToUWord, ToUWord, WP!Unsigned, Unsigned, WP!WordMod, WordMod
  <2>4. \A i : and(i) = dna(i)
    BY Zenon, <2>1, <2>2, <2>3
  <2>5. /\ BitAnd(a, b) = ToWord(here(0) + here(1) + here(2) + here(3))
        /\ WP!BitAnd(a, b) = WP!ToWord(there(0) + there(1) + there(2) + there(3))
    BY DEF BitAnd, FromBytes, WP!BitAnd, WP!FromBytes
  <2> HIDE DEF and, dna
  <2>6. \A i : here(i) = there(i)
    BY Zenon, <2>4
  <2> HIDE DEF here, there
  <2> QED
    BY Zenon, <1>2, <2>5, <2>6
<1> QED
  <2>1. \A a, b : WP!BitOr(a, b) = WP!ToWord(a + b - WP!BitAnd(a, b))
    BY Zenon DEF WP!BitOr
  <2>2. \A a, b : BitOr(a, b) = ToWord(a + b - BitAnd(a, b))
    BY Zenon DEF BitOr
  <2> QED
    BY <1>1, <1>2, <1>3, <2>1, <2>2, Zenon

\* Words, and what the ALU makes of two of them.
LEMMA WordFacts ==
  /\ Word \in SUBSET Int /\ 0 \in Word /\ 1 \in Word /\ -1 \in Word
  /\ \A v \in Word : -v - 1 \in Word
  /\ \A v \in Int : ToWord(v) \in Word
  /\ \A v \in Word : ToWord(v) = v
  /\ \A a, b \in Int : /\ BitAnd(a, b) \in Word /\ BitAnd(a, b) = BitAnd(b, a)
                       /\ BitOr(a, b) \in Word /\ BitOr(a, b) = BitOr(b, a)
<1>1. \A v \in Int : ToWord(v) \in Word
  BY WordAssumptions, WP!ToWordBounds, SameWords, Zenon
<1>2. \A v \in Word : ToWord(v) = v
  BY WordAssumptions, WP!ToWordOfWord, SameWords, Zenon
<1>3. \A a, b \in Int : BitAnd(a, b) \in Word /\ BitOr(a, b) \in Word
  BY WordAssumptions, WP!BitAndType, WP!BitOrType, SameWords, Zenon
<1>4. \A a, b \in Int : BitAnd(a, b) = BitAnd(b, a) /\ BitOr(a, b) = BitOr(b, a)
  BY WordAssumptions, WP!BitsCommute, SameWords, Zenon
<1>5. \E h \in Nat : h > 1 /\ Word = -h .. h - 1
  <2>1. WordMod \in {65536, 16777216, 4294967296}
    <3>1. WordBytes = 2 => WordMod = 65536
      BY SMT DEF WordMod
    <3>2. WordBytes = 3 => WordMod = 16777216
      BY SMT DEF WordMod
    <3>3. WordBytes = 4 => WordMod = 4294967296
      BY SMT DEF WordMod
    <3>4. WordBytes \in {2, 3, 4}
      BY WordBytesAssumption
    <3> QED
      BY SMT, <3>1, <3>2, <3>3, <3>4
  <2> DEFINE h == WordMod \div 2
  <2>2. h \in Nat /\ h > 1
    BY SMT, <2>1
  <2>3. Word = -h .. h - 1
    BY Zenon DEF Word
  <2> HIDE DEF h
  <2> QED
    BY <2>2, <2>3
<1>6. /\ Word \in SUBSET Int /\ 0 \in Word /\ 1 \in Word /\ -1 \in Word
      /\ \A v \in Word : -v - 1 \in Word
  BY <1>5
<1> QED
  BY <1>1, <1>2, <1>3, <1>4, <1>6

\* Small numbers are words.
LEMMA SmallNumbers == \A v \in Int : -2000 =< v /\ v =< 2000 => v \in Word /\ ToWord(v) = v
<1>1. \A v \in Int : -2000 =< v /\ v =< 2000 => v \in WP!Word /\ WP!ToWord(v) = v
  BY WordAssumptions, WP!SmallWords
<1> QED
  BY <1>1, SameWords

\* C's & and | with 0, and & of -1 with itself.
LEMMA BitsWithEnds ==
  /\ \A v \in Int : BitAnd(v, 0) = 0 /\ BitAnd(0, v) = 0
  /\ \A v \in Word : BitOr(v, 0) = v /\ BitOr(0, v) = v
  /\ BitAnd(-1, -1) = -1
<1>1. /\ \A v \in Int : WP!BitAnd(v, 0) = 0 /\ WP!BitAnd(0, v) = 0
      /\ \A v \in WP!Word : WP!BitOr(v, 0) = v /\ WP!BitOr(0, v) = v
      /\ WP!BitAnd(-1, -1) = -1
  BY WordAssumptions, WP!BitsOfEnds
<1> QED
  BY <1>1, SameWords

-----------------------------------------------------------------------------
(* Expressions. *)

\* The parts of an expression.
LEMMA AluParts ==
  ASSUME NEW alu \in AluExprs
  PROVE  \/ alu.kind \in {"reg", "inv", "neg"} /\ alu.reg \in Readable
         \/ alu.kind \in {"add_r1", "sub_r1"} /\ alu.reg \in Readable /\ alu.one \in Int
         \/ /\ alu.kind = "add_rr1"
            /\ alu.reg1 \in Readable /\ alu.reg2 \in Readable /\ alu.one \in Int
         \/ /\ alu.kind \in {"add_rr", "sub_rr", "and", "or"}
            /\ alu.reg1 \in Readable /\ alu.reg2 \in Readable
         \/ alu.kind = "const" /\ alu.val \in Int
BY DEF AluExprs

\* What an expression becomes: at most one function of the ALU, and at most one
\* register on the B bus, never H.
IsOperation(op) ==
  /\ op.alu \in (Alu \ {"random"}) \union {Unused}
  /\ op.b \in (Readable \ {"H"}) \union {Unused}
  /\ op.problem \in {Unused, "operand", "subtraction", "negation"}

\* A register is computed on its own side of the ALU.
LEMMA HOrBType ==
  ASSUME NEW reg \in Readable, NEW onH \in Alu \ {"random"}, NEW onB \in Alu \ {"random"}
  PROVE  /\ IsOperation(OnHOrB(reg, onH, onB))
         /\ OnHOrB(reg, onH, onB).alu # Unused
         /\ OnHOrB(reg, onH, onB) = IF reg = "H" THEN [alu |-> onH, b |-> Unused, problem |-> Unused]
                                    ELSE [alu |-> onB, b |-> reg, problem |-> Unused]
BY DEF OnHOrB, IsOperation, Computed, Unused, Alu

IsWithH(op, alu, reg1, reg2) ==
  /\ op.alu = alu
  /\ \/ reg1 = "H" /\ reg2 # "H" /\ op.b = reg2
     \/ reg1 # "H" /\ reg2 = "H" /\ op.b = reg1

\* Of two registers one is H, or the expression is refused.
LEMMA WithHType ==
  ASSUME NEW reg1 \in Readable, NEW reg2 \in Readable, NEW alu \in Alu \ {"random"}
  PROVE  /\ IsOperation(WithH(alu, reg1, reg2))
         /\ WithH(alu, reg1, reg2).problem = Unused
              => IsWithH(WithH(alu, reg1, reg2), alu, reg1, reg2)
BY DEF WithH, IsOperation, IsWithH, Computed, Refused, Unused, Alu

\* What the data path makes of the registers, and what the expression means.
Bus(b, f) == IF b \in Readable THEN f[b] ELSE 0
Result(op, b, f) == AluResult([alu |-> op.alu], f["H"], Bus(b, f), 0)
IsComputed(alu, op) ==
  /\ op.alu \in Alu \ {"random"}
  /\ \A f \in [Readable -> Word] : \A b :
       op.b \in {Unused, b} =>
         Result(op, b, f) = ToWord(Meaning(alu, f)) /\ ToWord(Meaning(alu, f)) \in Word

\* H is a register with a value, and "none" is not.
LEMMA NamesAreReadable ==
  /\ "H" \in Readable /\ Unused \notin Readable
  /\ \A f \in [Readable -> Word] : \A r \in Readable : f[r] \in Word /\ f[r] \in Int
BY WordFacts DEF Readable, Registers, Unused

\* The functions of the ALU, one by one.
AluGives(name, h, b) == AluResult([alu |-> name], h, b, 0)

\* What the ALU makes of its inputs, function by function.
LEMMA AluResults ==
  /\ \A h, b : AluGives("H", h, b) = h
  /\ \A h, b : AluGives("B", h, b) = b
  /\ \A h, b : AluGives("inv H", h, b) = -h - 1
  /\ \A h, b : AluGives("inv B", h, b) = -b - 1
  /\ \A h, b : AluGives("B+H", h, b) = ToWord(b + h)
  /\ \A h, b : AluGives("B+H+1", h, b) = ToWord(b + h + 1)
  /\ \A h, b : AluGives("H+1", h, b) = ToWord(h + 1)
  /\ \A h, b : AluGives("B+1", h, b) = ToWord(b + 1)
  /\ \A h, b : AluGives("B-H", h, b) = ToWord(b - h)
  /\ \A h, b : AluGives("B-1", h, b) = ToWord(b - 1)
  /\ \A h, b : AluGives("-H", h, b) = ToWord(-h)
  /\ \A h, b : AluGives("B and H", h, b) = BitAnd(h, b)
  /\ \A h, b : AluGives("B or H", h, b) = BitOr(h, b)
  /\ \A h, b : AluGives("0", h, b) = 0
  /\ \A h, b : AluGives("1", h, b) = 1
  /\ \A h, b : AluGives("-1", h, b) = -1
<1>1. \A h, b : AluGives("H", h, b) = h
  BY SMT DEF AluGives, AluResult
<1>2. \A h, b : AluGives("B", h, b) = b
  BY SMT DEF AluGives, AluResult
<1>3. \A h, b : AluGives("inv H", h, b) = -h - 1
  BY SMT DEF AluGives, AluResult
<1>4. \A h, b : AluGives("inv B", h, b) = -b - 1
  BY SMT DEF AluGives, AluResult
<1>5. \A h, b : AluGives("B+H", h, b) = ToWord(b + h)
  BY SMT DEF AluGives, AluResult
<1>6. \A h, b : AluGives("B+H+1", h, b) = ToWord(b + h + 1)
  BY SMT DEF AluGives, AluResult
<1>7. \A h, b : AluGives("H+1", h, b) = ToWord(h + 1)
  BY SMT DEF AluGives, AluResult
<1>8. \A h, b : AluGives("B+1", h, b) = ToWord(b + 1)
  BY SMT DEF AluGives, AluResult
<1>9. \A h, b : AluGives("B-H", h, b) = ToWord(b - h)
  BY SMT DEF AluGives, AluResult
<1>10. \A h, b : AluGives("B-1", h, b) = ToWord(b - 1)
  BY SMT DEF AluGives, AluResult
<1>11. \A h, b : AluGives("-H", h, b) = ToWord(-h)
  BY SMT DEF AluGives, AluResult
<1>12. \A h, b : AluGives("B and H", h, b) = BitAnd(h, b)
  BY SMT DEF AluGives, AluResult
<1>13. \A h, b : AluGives("B or H", h, b) = BitOr(h, b)
  BY SMT DEF AluGives, AluResult
<1>14. \A h, b : AluGives("0", h, b) = 0
  BY SMT DEF AluGives, AluResult
<1>15. \A h, b : AluGives("1", h, b) = 1
  BY SMT DEF AluGives, AluResult
<1>16. \A h, b : AluGives("-1", h, b) = -1
  BY SMT DEF AluGives, AluResult
<1> QED
  BY Zenon, <1>1, <1>2, <1>3, <1>4, <1>5, <1>6, <1>7, <1>8, <1>9, <1>10, <1>11, <1>12,
     <1>13, <1>14, <1>15, <1>16

\* A register is computed as it is written.
LEMMA RegComputed ==
  ASSUME NEW alu \in AluExprs, alu.kind = "reg"
  PROVE  IsOperation(Operation(alu)) /\ IsComputed(alu, Operation(alu))
<1> DEFINE r == alu.reg
           op == Operation(alu)
<1>1. r \in Readable
  BY AluParts
<1>2. op = OnHOrB(r, "H", "B")
  BY Zenon DEF Operation
<1>3. /\ IsOperation(op)
      /\ r = "H" => op.alu = "H" /\ op.b = Unused
      /\ r # "H" => op.alu = "B" /\ op.b = r
  <2>1. "H" \in Alu \ {"random"} /\ "B" \in Alu \ {"random"}
    BY DEF Alu
  <2>2. /\ IsOperation(OnHOrB(r, "H", "B"))
        /\ OnHOrB(r, "H", "B")
             = IF r = "H" THEN [alu |-> "H", b |-> Unused, problem |-> Unused]
               ELSE [alu |-> "B", b |-> r, problem |-> Unused]
    BY <1>1, <2>1, HOrBType, Zenon
  <2> HIDE DEF op
  <2>3. IsOperation(op)
    BY <1>2, <2>2, Zenon
  <2>4. op = IF r = "H" THEN [alu |-> "H", b |-> Unused, problem |-> Unused]
             ELSE [alu |-> "B", b |-> r, problem |-> Unused]
    BY <1>2, <2>2, Zenon
  <2> QED
    BY <2>3, <2>4
<1>4. op.alu \in Alu \ {"random"}
  BY <1>3 DEF Alu
<1> HIDE DEF op
<1>5. ASSUME NEW f \in [Readable -> Word], NEW b, op.b \in {Unused, b}
      PROVE  Result(op, b, f) = ToWord(Meaning(alu, f)) /\ ToWord(Meaning(alu, f)) \in Word
  <2> DEFINE x == f[r]
  <2>1. f["H"] \in Word /\ x \in Word /\ f["H"] \in Int /\ x \in Int
    BY <1>1, NamesAreReadable
  <2>2. Meaning(alu, f) = x
    BY SMT DEF Meaning
  <2>3. ToWord(x) \in Word /\ ToWord(x) = x
    BY <2>1, WordFacts
  <2>4. CASE r = "H"
    <3>1. Result(op, b, f) = f["H"]
      <4>1. AluGives("H", f["H"], Bus(b, f)) = f["H"]
        BY AluResults, Zenon
      <4> QED
        BY <1>3, <2>4, <4>1 DEF Result, AluGives
    <3> QED
      BY <2>2, <2>3, <2>4, <3>1
  <2>5. CASE r # "H"
    <3>1. b = r /\ Bus(b, f) = x
      BY <1>1, <1>3, <1>5, <2>5, NamesAreReadable DEF Bus
    <3>2. Result(op, b, f) = x
      <4>1. AluGives("B", f["H"], Bus(b, f)) = Bus(b, f)
        BY AluResults, Zenon
      <4> QED
        BY <1>3, <2>5, <3>1, <4>1 DEF Result, AluGives
    <3> QED
      BY <2>2, <2>3, <3>2
  <2> QED
    BY <2>4, <2>5
<1> QED
  BY <1>3, <1>4, <1>5 DEF IsComputed, op

\* So is the inverse of a register,
LEMMA InvComputed ==
  ASSUME NEW alu \in AluExprs, alu.kind = "inv"
  PROVE  IsOperation(Operation(alu)) /\ IsComputed(alu, Operation(alu))
<1> DEFINE r == alu.reg
           op == Operation(alu)
<1>1. r \in Readable
  BY AluParts
<1>2. op = OnHOrB(r, "inv H", "inv B")
  BY Zenon DEF Operation
<1>3. /\ IsOperation(op)
      /\ r = "H" => op.alu = "inv H" /\ op.b = Unused
      /\ r # "H" => op.alu = "inv B" /\ op.b = r
  <2>1. "inv H" \in Alu \ {"random"} /\ "inv B" \in Alu \ {"random"}
    BY DEF Alu
  <2>2. /\ IsOperation(OnHOrB(r, "inv H", "inv B"))
        /\ OnHOrB(r, "inv H", "inv B")
             = IF r = "H" THEN [alu |-> "inv H", b |-> Unused, problem |-> Unused]
               ELSE [alu |-> "inv B", b |-> r, problem |-> Unused]
    BY <1>1, <2>1, HOrBType, Zenon
  <2> HIDE DEF op
  <2>3. IsOperation(op)
    BY <1>2, <2>2, Zenon
  <2>4. op = IF r = "H" THEN [alu |-> "inv H", b |-> Unused, problem |-> Unused]
             ELSE [alu |-> "inv B", b |-> r, problem |-> Unused]
    BY <1>2, <2>2, Zenon
  <2> QED
    BY <2>3, <2>4
<1>4. op.alu \in Alu \ {"random"}
  BY <1>3 DEF Alu
<1> HIDE DEF op
<1>5. ASSUME NEW f \in [Readable -> Word], NEW b, op.b \in {Unused, b}
      PROVE  Result(op, b, f) = ToWord(Meaning(alu, f)) /\ ToWord(Meaning(alu, f)) \in Word
  <2> DEFINE x == f[r]
  <2>1. f["H"] \in Word /\ x \in Word /\ f["H"] \in Int /\ x \in Int
    BY <1>1, NamesAreReadable
  <2>2. Meaning(alu, f) = -x - 1
    BY SMT DEF Meaning
  <2>3. ToWord(-x - 1) \in Word /\ -x - 1 \in Word /\ ToWord(-x - 1) = -x - 1
    BY <2>1, WordFacts
  <2>4. CASE r = "H"
    <3>1. Result(op, b, f) = -f["H"] - 1
      <4>1. AluGives("inv H", f["H"], Bus(b, f)) = -f["H"] - 1
        BY AluResults, Zenon
      <4> QED
        BY <1>3, <2>4, <4>1 DEF Result, AluGives
    <3> QED
      BY <2>2, <2>3, <2>4, <3>1
  <2>5. CASE r # "H"
    <3>1. b = r /\ Bus(b, f) = x
      BY <1>1, <1>3, <1>5, <2>5, NamesAreReadable DEF Bus
    <3>2. Result(op, b, f) = -x - 1
      <4>1. AluGives("inv B", f["H"], Bus(b, f)) = -Bus(b, f) - 1
        BY AluResults, Zenon
      <4> QED
        BY <1>3, <2>5, <3>1, <4>1 DEF Result, AluGives
    <3> QED
      BY <2>2, <2>3, <3>2
  <2> QED
    BY <2>4, <2>5
<1> QED
  BY <1>3, <1>4, <1>5 DEF IsComputed, op

\* a register plus one,
LEMMA AddR1Computed ==
  ASSUME NEW alu \in AluExprs, alu.kind = "add_r1", ~IllegalConstant(alu)
  PROVE  IsOperation(Operation(alu)) /\ IsComputed(alu, Operation(alu))
<1> DEFINE r == alu.reg
           op == Operation(alu)
<1>1. r \in Readable /\ alu.one = 1
  BY AluParts DEF IllegalConstant
<1>2. op = OnHOrB(r, "H+1", "B+1")
  BY Zenon DEF Operation
<1>3. /\ IsOperation(op)
      /\ r = "H" => op.alu = "H+1" /\ op.b = Unused
      /\ r # "H" => op.alu = "B+1" /\ op.b = r
  <2>1. "H+1" \in Alu \ {"random"} /\ "B+1" \in Alu \ {"random"}
    BY DEF Alu
  <2>2. /\ IsOperation(OnHOrB(r, "H+1", "B+1"))
        /\ OnHOrB(r, "H+1", "B+1")
             = IF r = "H" THEN [alu |-> "H+1", b |-> Unused, problem |-> Unused]
               ELSE [alu |-> "B+1", b |-> r, problem |-> Unused]
    BY <1>1, <2>1, HOrBType, Zenon
  <2> HIDE DEF op
  <2>3. IsOperation(op)
    BY <1>2, <2>2, Zenon
  <2>4. op = IF r = "H" THEN [alu |-> "H+1", b |-> Unused, problem |-> Unused]
             ELSE [alu |-> "B+1", b |-> r, problem |-> Unused]
    BY <1>2, <2>2, Zenon
  <2> QED
    BY <2>3, <2>4
<1>4. op.alu \in Alu \ {"random"}
  BY <1>3 DEF Alu
<1> HIDE DEF op
<1>5. ASSUME NEW f \in [Readable -> Word], NEW b, op.b \in {Unused, b}
      PROVE  Result(op, b, f) = ToWord(Meaning(alu, f)) /\ ToWord(Meaning(alu, f)) \in Word
  <2> DEFINE x == f[r]
  <2>1. f["H"] \in Word /\ x \in Word /\ f["H"] \in Int /\ x \in Int
    BY <1>1, NamesAreReadable
  <2>2. Meaning(alu, f) = x + 1
    BY SMT, <1>1 DEF Meaning
  <2>3. ToWord(x + 1) \in Word
    BY <2>1, WordFacts
  <2>4. CASE r = "H"
    <3>1. Result(op, b, f) = ToWord(f["H"] + 1)
      <4>1. AluGives("H+1", f["H"], Bus(b, f)) = ToWord(f["H"] + 1)
        BY AluResults, Zenon
      <4> QED
        BY <1>3, <2>4, <4>1 DEF Result, AluGives
    <3> QED
      BY <2>2, <2>3, <2>4, <3>1
  <2>5. CASE r # "H"
    <3>1. b = r /\ Bus(b, f) = x
      BY <1>1, <1>3, <1>5, <2>5, NamesAreReadable DEF Bus
    <3>2. Result(op, b, f) = ToWord(x + 1)
      <4>1. AluGives("B+1", f["H"], Bus(b, f)) = ToWord(Bus(b, f) + 1)
        BY AluResults, Zenon
      <4> QED
        BY <1>3, <2>5, <3>1, <4>1 DEF Result, AluGives
    <3> QED
      BY <2>2, <2>3, <3>2
  <2> QED
    BY <2>4, <2>5
<1> QED
  BY <1>3, <1>4, <1>5 DEF IsComputed, op

\* the sum of two registers,
LEMMA AddRRComputed ==
  ASSUME NEW alu \in AluExprs, alu.kind = "add_rr"
  PROVE  /\ IsOperation(Operation(alu))
         /\ Operation(alu).problem = Unused => IsComputed(alu, Operation(alu))
<1> DEFINE r1 == alu.reg1
           r2 == alu.reg2
           op == Operation(alu)
<1>1. r1 \in Readable /\ r2 \in Readable
  BY AluParts
<1>2. op = WithH("B+H", r1, r2)
  BY Zenon DEF Operation
<1>3. IsOperation(op) /\ (op.problem = Unused => IsWithH(op, "B+H", r1, r2))
  <2>1. "B+H" \in Alu \ {"random"}
    BY DEF Alu
  <2> HIDE DEF r1, r2
  <2> QED
    BY <1>1, <1>2, <2>1, WithHType, Zenon
<1> SUFFICES ASSUME op.problem = Unused PROVE IsComputed(alu, op)
  BY <1>3, Zenon
<1>4. op.alu \in Alu \ {"random"}
  BY <1>3 DEF Alu, IsWithH
<1> HIDE DEF op
<1>5. ASSUME NEW f \in [Readable -> Word], NEW b, op.b \in {Unused, b}
      PROVE  Result(op, b, f) = ToWord(Meaning(alu, f)) /\ ToWord(Meaning(alu, f)) \in Word
  <2> PICK h \in Word, x \in Word, y \in Word : h = f["H"] /\ x = f[r1] /\ y = f[r2]
    BY <1>1, NamesAreReadable
  <2>1. h \in Int /\ x \in Int /\ y \in Int
    BY WordFacts
  <2>2. Meaning(alu, f) = x + y
    BY SMT DEF Meaning
  <2>3. ToWord(x + y) \in Word /\ x + y = y + x
    BY <2>1, WordFacts
  <2>4. AluGives("B+H", h, Bus(b, f)) = ToWord(Bus(b, f) + h)
    BY AluResults, Zenon
  <2>5. CASE r1 = "H" /\ r2 # "H" /\ op.b = r2
    <3>1. b = r2 /\ Bus(b, f) = y /\ x = h
      BY <1>1, <1>5, <2>5, NamesAreReadable DEF Bus
    <3>2. Result(op, b, f) = ToWord(y + h)
      BY <1>3, <2>4, <3>1 DEF Result, AluGives, IsWithH
    <3> QED
      BY <2>1, <2>2, <2>3, <3>1, <3>2
  <2>6. CASE r1 # "H" /\ r2 = "H" /\ op.b = r1
    <3>1. b = r1 /\ Bus(b, f) = x /\ y = h
      BY <1>1, <1>5, <2>6, NamesAreReadable DEF Bus
    <3>2. Result(op, b, f) = ToWord(x + h)
      BY <1>3, <2>4, <3>1 DEF Result, AluGives, IsWithH
    <3> QED
      BY <2>1, <2>2, <2>3, <3>1, <3>2
  <2> QED
    BY <1>3, <2>5, <2>6 DEF IsWithH
<1> QED
  BY <1>4, <1>5 DEF IsComputed, op

\* the sum of two registers plus one,
LEMMA AddRR1Computed ==
  ASSUME NEW alu \in AluExprs, alu.kind = "add_rr1", ~IllegalConstant(alu)
  PROVE  /\ IsOperation(Operation(alu))
         /\ Operation(alu).problem = Unused => IsComputed(alu, Operation(alu))
<1> DEFINE r1 == alu.reg1
           r2 == alu.reg2
           op == Operation(alu)
<1>1. r1 \in Readable /\ r2 \in Readable /\ alu.one = 1
  BY AluParts DEF IllegalConstant
<1>2. op = WithH("B+H+1", r1, r2)
  BY Zenon DEF Operation
<1>3. IsOperation(op) /\ (op.problem = Unused => IsWithH(op, "B+H+1", r1, r2))
  <2>1. "B+H+1" \in Alu \ {"random"}
    BY DEF Alu
  <2> HIDE DEF r1, r2
  <2> QED
    BY <1>1, <1>2, <2>1, WithHType, Zenon
<1> SUFFICES ASSUME op.problem = Unused PROVE IsComputed(alu, op)
  BY <1>3, Zenon
<1>4. op.alu \in Alu \ {"random"}
  BY <1>3 DEF Alu, IsWithH
<1> HIDE DEF op
<1>5. ASSUME NEW f \in [Readable -> Word], NEW b, op.b \in {Unused, b}
      PROVE  Result(op, b, f) = ToWord(Meaning(alu, f)) /\ ToWord(Meaning(alu, f)) \in Word
  <2> PICK h \in Word, x \in Word, y \in Word : h = f["H"] /\ x = f[r1] /\ y = f[r2]
    BY <1>1, NamesAreReadable
  <2>1. h \in Int /\ x \in Int /\ y \in Int
    BY WordFacts
  <2>2. Meaning(alu, f) = x + y + 1
    BY SMT, <1>1 DEF Meaning
  <2>3. ToWord(x + y + 1) \in Word /\ x + y + 1 = y + x + 1
    BY <2>1, WordFacts
  <2>4. AluGives("B+H+1", h, Bus(b, f)) = ToWord(Bus(b, f) + h + 1)
    BY AluResults, Zenon
  <2>5. CASE r1 = "H" /\ r2 # "H" /\ op.b = r2
    <3>1. b = r2 /\ Bus(b, f) = y /\ x = h
      BY <1>1, <1>5, <2>5, NamesAreReadable DEF Bus
    <3>2. Result(op, b, f) = ToWord(y + h + 1)
      BY <1>3, <2>4, <3>1 DEF Result, AluGives, IsWithH
    <3> QED
      BY <2>1, <2>2, <2>3, <3>1, <3>2
  <2>6. CASE r1 # "H" /\ r2 = "H" /\ op.b = r1
    <3>1. b = r1 /\ Bus(b, f) = x /\ y = h
      BY <1>1, <1>5, <2>6, NamesAreReadable DEF Bus
    <3>2. Result(op, b, f) = ToWord(x + h + 1)
      BY <1>3, <2>4, <3>1 DEF Result, AluGives, IsWithH
    <3> QED
      BY <2>1, <2>2, <2>3, <3>1, <3>2
  <2> QED
    BY <1>3, <2>5, <2>6 DEF IsWithH
<1> QED
  BY <1>4, <1>5 DEF IsComputed, op

\* the conjunction of two registers,
LEMMA AndComputed ==
  ASSUME NEW alu \in AluExprs, alu.kind = "and"
  PROVE  /\ IsOperation(Operation(alu))
         /\ Operation(alu).problem = Unused => IsComputed(alu, Operation(alu))
<1> DEFINE r1 == alu.reg1
           r2 == alu.reg2
           op == Operation(alu)
<1>1. r1 \in Readable /\ r2 \in Readable
  BY AluParts
<1>2. op = WithH("B and H", r1, r2)
  BY Zenon DEF Operation
<1>3. IsOperation(op) /\ (op.problem = Unused => IsWithH(op, "B and H", r1, r2))
  <2>1. "B and H" \in Alu \ {"random"}
    BY DEF Alu
  <2> HIDE DEF r1, r2
  <2> QED
    BY <1>1, <1>2, <2>1, WithHType, Zenon
<1> SUFFICES ASSUME op.problem = Unused PROVE IsComputed(alu, op)
  BY <1>3, Zenon
<1>4. op.alu \in Alu \ {"random"}
  BY <1>3 DEF Alu, IsWithH
<1> HIDE DEF op
<1>5. ASSUME NEW f \in [Readable -> Word], NEW b, op.b \in {Unused, b}
      PROVE  Result(op, b, f) = ToWord(Meaning(alu, f)) /\ ToWord(Meaning(alu, f)) \in Word
  <2> PICK h \in Word, x \in Word, y \in Word : h = f["H"] /\ x = f[r1] /\ y = f[r2]
    BY <1>1, NamesAreReadable
  <2>1. h \in Int /\ x \in Int /\ y \in Int
    BY WordFacts
  <2>2. Meaning(alu, f) = BitAnd(x, y)
    BY SMT DEF Meaning
  <2>3. BitAnd(x, y) \in Word /\ BitAnd(x, y) = BitAnd(y, x) /\ ToWord(BitAnd(x, y)) = BitAnd(x, y)
    BY <2>1, WordFacts
  <2>4. AluGives("B and H", h, Bus(b, f)) = BitAnd(h, Bus(b, f))
    BY AluResults, Zenon
  <2>5. CASE r1 = "H" /\ r2 # "H" /\ op.b = r2
    <3>1. b = r2 /\ Bus(b, f) = y /\ x = h
      BY <1>1, <1>5, <2>5, NamesAreReadable DEF Bus
    <3>2. Result(op, b, f) = BitAnd(h, y)
      BY <1>3, <2>4, <3>1 DEF Result, AluGives, IsWithH
    <3> QED
      BY <2>1, <2>2, <2>3, <3>1, <3>2
  <2>6. CASE r1 # "H" /\ r2 = "H" /\ op.b = r1
    <3>1. b = r1 /\ Bus(b, f) = x /\ y = h
      BY <1>1, <1>5, <2>6, NamesAreReadable DEF Bus
    <3>2. Result(op, b, f) = BitAnd(h, x)
      BY <1>3, <2>4, <3>1 DEF Result, AluGives, IsWithH
    <3> QED
      BY <2>1, <2>2, <2>3, <3>1, <3>2
  <2> QED
    BY <1>3, <2>5, <2>6 DEF IsWithH
<1> QED
  BY <1>4, <1>5 DEF IsComputed, op

\* the disjunction of two registers,
LEMMA OrComputed ==
  ASSUME NEW alu \in AluExprs, alu.kind = "or"
  PROVE  /\ IsOperation(Operation(alu))
         /\ Operation(alu).problem = Unused => IsComputed(alu, Operation(alu))
<1> DEFINE r1 == alu.reg1
           r2 == alu.reg2
           op == Operation(alu)
<1>1. r1 \in Readable /\ r2 \in Readable
  BY AluParts
<1>2. op = WithH("B or H", r1, r2)
  BY Zenon DEF Operation
<1>3. IsOperation(op) /\ (op.problem = Unused => IsWithH(op, "B or H", r1, r2))
  <2>1. "B or H" \in Alu \ {"random"}
    BY DEF Alu
  <2> HIDE DEF r1, r2
  <2> QED
    BY <1>1, <1>2, <2>1, WithHType, Zenon
<1> SUFFICES ASSUME op.problem = Unused PROVE IsComputed(alu, op)
  BY <1>3, Zenon
<1>4. op.alu \in Alu \ {"random"}
  BY <1>3 DEF Alu, IsWithH
<1> HIDE DEF op
<1>5. ASSUME NEW f \in [Readable -> Word], NEW b, op.b \in {Unused, b}
      PROVE  Result(op, b, f) = ToWord(Meaning(alu, f)) /\ ToWord(Meaning(alu, f)) \in Word
  <2> PICK h \in Word, x \in Word, y \in Word : h = f["H"] /\ x = f[r1] /\ y = f[r2]
    BY <1>1, NamesAreReadable
  <2>1. h \in Int /\ x \in Int /\ y \in Int
    BY WordFacts
  <2>2. Meaning(alu, f) = BitOr(x, y)
    BY SMT DEF Meaning
  <2>3. BitOr(x, y) \in Word /\ BitOr(x, y) = BitOr(y, x) /\ ToWord(BitOr(x, y)) = BitOr(x, y)
    BY <2>1, WordFacts
  <2>4. AluGives("B or H", h, Bus(b, f)) = BitOr(h, Bus(b, f))
    BY AluResults, Zenon
  <2>5. CASE r1 = "H" /\ r2 # "H" /\ op.b = r2
    <3>1. b = r2 /\ Bus(b, f) = y /\ x = h
      BY <1>1, <1>5, <2>5, NamesAreReadable DEF Bus
    <3>2. Result(op, b, f) = BitOr(h, y)
      BY <1>3, <2>4, <3>1 DEF Result, AluGives, IsWithH
    <3> QED
      BY <2>1, <2>2, <2>3, <3>1, <3>2
  <2>6. CASE r1 # "H" /\ r2 = "H" /\ op.b = r1
    <3>1. b = r1 /\ Bus(b, f) = x /\ y = h
      BY <1>1, <1>5, <2>6, NamesAreReadable DEF Bus
    <3>2. Result(op, b, f) = BitOr(h, x)
      BY <1>3, <2>4, <3>1 DEF Result, AluGives, IsWithH
    <3> QED
      BY <2>1, <2>2, <2>3, <3>1, <3>2
  <2> QED
    BY <1>3, <2>5, <2>6 DEF IsWithH
<1> QED
  BY <1>4, <1>5 DEF IsComputed, op

\* The other expressions that one register is enough for.
LEMMA SubRRComputed ==
  ASSUME NEW alu \in AluExprs, alu.kind = "sub_rr"
  PROVE  /\ IsOperation(Operation(alu))
         /\ Operation(alu).problem = Unused => IsComputed(alu, Operation(alu))
<1> DEFINE r1 == alu.reg1
           r2 == alu.reg2
           op == Operation(alu)
<1>1. r1 \in Readable /\ r2 \in Readable
  BY AluParts
<1>2. op = IF r1 # "H" /\ r2 = "H" THEN Computed("B-H", r1) ELSE Refused("subtraction")
  BY Zenon DEF Operation
<1> HIDE DEF op
<1>3. /\ IsOperation(op)
      /\ op.problem = Unused => op.alu = "B-H" /\ r1 # "H" /\ r2 = "H" /\ op.b = r1
  BY <1>1, <1>2 DEF IsOperation, Computed, Refused, Unused, Alu
<1> SUFFICES ASSUME op.problem = Unused PROVE IsComputed(alu, op)
  BY <1>3, Zenon DEF op
<1>4. op.alu \in Alu \ {"random"}
  BY <1>3 DEF Alu
<1>5. ASSUME NEW f \in [Readable -> Word], NEW b, op.b \in {Unused, b}
      PROVE  Result(op, b, f) = ToWord(Meaning(alu, f)) /\ ToWord(Meaning(alu, f)) \in Word
  <2> PICK h \in Word, x \in Word : h = f["H"] /\ x = f[r1]
    BY <1>1, NamesAreReadable
  <2>1. h \in Int /\ x \in Int
    BY WordFacts
  <2>2. Meaning(alu, f) = x - h
    BY SMT, <1>3 DEF Meaning
  <2>3. ToWord(x - h) \in Word
    BY <2>1, WordFacts
  <2>4. AluGives("B-H", h, Bus(b, f)) = ToWord(Bus(b, f) - h)
    BY AluResults, Zenon
  <2>5. b = r1 /\ Bus(b, f) = x
    BY <1>1, <1>3, <1>5, NamesAreReadable DEF Bus
  <2>6. Result(op, b, f) = ToWord(x - h)
    BY <1>3, <2>4, <2>5 DEF Result, AluGives
  <2> QED
    BY <2>2, <2>3, <2>6
<1> QED
  BY <1>4, <1>5 DEF IsComputed

\* a register minus one,
LEMMA SubR1Computed ==
  ASSUME NEW alu \in AluExprs, alu.kind = "sub_r1", ~IllegalConstant(alu)
  PROVE  /\ IsOperation(Operation(alu))
         /\ Operation(alu).problem = Unused => IsComputed(alu, Operation(alu))
<1> DEFINE r == alu.reg
           op == Operation(alu)
<1>1. r \in Readable /\ alu.one = 1
  BY AluParts DEF IllegalConstant
<1>2. op = IF r # "H" THEN Computed("B-1", r) ELSE Refused("subtraction")
  BY Zenon DEF Operation
<1> HIDE DEF op
<1>3. /\ IsOperation(op)
      /\ op.problem = Unused => op.alu = "B-1" /\ r # "H" /\ op.b = r
  BY <1>1, <1>2 DEF IsOperation, Computed, Refused, Unused, Alu
<1> SUFFICES ASSUME op.problem = Unused PROVE IsComputed(alu, op)
  BY <1>3, Zenon DEF op
<1>4. op.alu \in Alu \ {"random"}
  BY <1>3 DEF Alu
<1>5. ASSUME NEW f \in [Readable -> Word], NEW b, op.b \in {Unused, b}
      PROVE  Result(op, b, f) = ToWord(Meaning(alu, f)) /\ ToWord(Meaning(alu, f)) \in Word
  <2> PICK h \in Word, x \in Word : h = f["H"] /\ x = f[r]
    BY <1>1, NamesAreReadable
  <2>1. h \in Int /\ x \in Int
    BY WordFacts
  <2>2. Meaning(alu, f) = x - 1
    BY SMT, <1>1 DEF Meaning
  <2>3. ToWord(x - 1) \in Word
    BY <2>1, WordFacts
  <2>4. AluGives("B-1", h, Bus(b, f)) = ToWord(Bus(b, f) - 1)
    BY AluResults, Zenon
  <2>5. b = r /\ Bus(b, f) = x
    BY <1>1, <1>3, <1>5, NamesAreReadable DEF Bus
  <2>6. Result(op, b, f) = ToWord(x - 1)
    BY <1>3, <2>4, <2>5 DEF Result, AluGives
  <2> QED
    BY <2>2, <2>3, <2>6
<1> QED
  BY <1>4, <1>5 DEF IsComputed

\* the negation of H,
LEMMA NegComputed ==
  ASSUME NEW alu \in AluExprs, alu.kind = "neg"
  PROVE  /\ IsOperation(Operation(alu))
         /\ Operation(alu).problem = Unused => IsComputed(alu, Operation(alu))
<1> DEFINE r == alu.reg
           op == Operation(alu)
<1>1. r \in Readable
  BY AluParts
<1>2. op = IF r = "H" THEN Computed("-H", Unused) ELSE Refused("negation")
  BY Zenon DEF Operation
<1> HIDE DEF op
<1>3. /\ IsOperation(op)
      /\ op.problem = Unused => op.alu = "-H" /\ r = "H"
  BY <1>1, <1>2 DEF IsOperation, Computed, Refused, Unused, Alu
<1> SUFFICES ASSUME op.problem = Unused PROVE IsComputed(alu, op)
  BY <1>3, Zenon DEF op
<1>4. op.alu \in Alu \ {"random"}
  BY <1>3 DEF Alu
<1>5. ASSUME NEW f \in [Readable -> Word], NEW b, op.b \in {Unused, b}
      PROVE  Result(op, b, f) = ToWord(Meaning(alu, f)) /\ ToWord(Meaning(alu, f)) \in Word
  <2> PICK h \in Word : h = f["H"]
    BY <1>1, NamesAreReadable
  <2>1. h \in Int
    BY WordFacts
  <2>2. Meaning(alu, f) = -h
    BY SMT, <1>3 DEF Meaning
  <2>3. ToWord(-h) \in Word
    BY <2>1, WordFacts
  <2>4. AluGives("-H", h, Bus(b, f)) = ToWord(-h)
    BY AluResults, Zenon
  <2>6. Result(op, b, f) = ToWord(-h)
    BY <1>3, <2>4 DEF Result, AluGives
  <2> QED
    BY <2>2, <2>3, <2>6
<1> QED
  BY <1>4, <1>5 DEF IsComputed

\* and each of the three constants.
LEMMA ConstComputed ==
  ASSUME NEW alu \in AluExprs, alu.kind = "const", ~IllegalConstant(alu)
  PROVE  IsOperation(Operation(alu)) /\ IsComputed(alu, Operation(alu))
<1> DEFINE op == Operation(alu)
<1>1. alu.val = 0 \/ alu.val = 1 \/ alu.val = -1
  BY DEF IllegalConstant
<1>2. \/ alu.val = 0 /\ op = Computed("0", Unused)
      \/ alu.val = 1 /\ op = Computed("1", Unused)
      \/ alu.val = -1 /\ op = Computed("-1", Unused)
  BY SMT, <1>1 DEF Operation
<1> HIDE DEF op
<1>3. /\ IsOperation(op) /\ op.alu \in Alu \ {"random"}
      /\ \/ alu.val = 0 /\ op.alu = "0"
         \/ alu.val = 1 /\ op.alu = "1"
         \/ alu.val = -1 /\ op.alu = "-1"
  <2>1. \A name \in {"0", "1", "-1"} :
          LET c == Computed(name, Unused)
          IN  IsOperation(c) /\ c.alu = name /\ c.alu \in Alu \ {"random"}
    BY DEF IsOperation, Computed, Unused, Alu
  <2>2. "0" \in {"0", "1", "-1"} /\ "1" \in {"0", "1", "-1"} /\ "-1" \in {"0", "1", "-1"}
    OBVIOUS
  <2> QED
    BY <1>2, <2>1, <2>2, Zenon
<1>5. ASSUME NEW f \in [Readable -> Word], NEW b
      PROVE  Result(op, b, f) = ToWord(Meaning(alu, f)) /\ ToWord(Meaning(alu, f)) \in Word
  <2>1. Meaning(alu, f) = alu.val
    BY SMT DEF Meaning
  <2>2. alu.val \in Word /\ ToWord(alu.val) = alu.val
    BY <1>1, WordFacts
  <2>3. /\ AluGives("0", f["H"], Bus(b, f)) = 0
        /\ AluGives("1", f["H"], Bus(b, f)) = 1
        /\ AluGives("-1", f["H"], Bus(b, f)) = -1
    <3>1. AluGives("0", f["H"], Bus(b, f)) = 0
      BY AluResults, Zenon
    <3>2. AluGives("1", f["H"], Bus(b, f)) = 1
      BY AluResults, Zenon
    <3>3. AluGives("-1", f["H"], Bus(b, f)) = -1
      BY AluResults
    <3> QED
      BY <3>1, <3>2, <3>3, Zenon
  <2>4. Result(op, b, f) = alu.val
    BY <1>3, <2>3 DEF Result, AluGives
  <2> QED
    BY <2>1, <2>2, <2>4
<1> QED
  BY <1>3, <1>5 DEF IsComputed, op

\* Every expression that gets no warning is computed, and what it becomes is
\* always of its type.
LEMMA OperationType ==
  ASSUME NEW alu \in AluExprs
  PROVE  IsOperation(Operation(alu))
<1> DEFINE op == Operation(alu)
<1>1. CASE alu.kind = "add_r1"
  <2>1. alu.reg \in Readable
    BY <1>1, AluParts
  <2>2. op = OnHOrB(alu.reg, "H+1", "B+1")
    BY Zenon, <1>1 DEF Operation
  <2>3. "H+1" \in Alu \ {"random"} /\ "B+1" \in Alu \ {"random"}
    BY DEF Alu
  <2> HIDE DEF op
  <2> QED
    BY <2>1, <2>2, <2>3, HOrBType, Zenon DEF op
<1>2. CASE alu.kind = "add_rr1"
  <2>1. alu.reg1 \in Readable /\ alu.reg2 \in Readable
    BY <1>2, AluParts
  <2>2. op = WithH("B+H+1", alu.reg1, alu.reg2)
    BY Zenon, <1>2 DEF Operation
  <2>3. "B+H+1" \in Alu \ {"random"}
    BY DEF Alu
  <2> QED
    BY <2>1, <2>2, <2>3, WithHType, Zenon
<1>3. CASE alu.kind = "sub_r1"
  <2>1. alu.reg \in Readable
    BY <1>3, AluParts
  <2>2. \/ op = Computed("B-1", alu.reg) /\ alu.reg # "H"
        \/ op = Refused("subtraction")
    BY Zenon, <1>3 DEF Operation
  <2>3. alu.reg # "H" => IsOperation(Computed("B-1", alu.reg))
    BY <2>1 DEF IsOperation, Computed, Unused, Alu
  <2>4. IsOperation(Refused("subtraction"))
    BY DEF IsOperation, Refused, Unused
  <2> QED
    BY <2>2, <2>3, <2>4, Zenon
<1>4. CASE alu.kind = "sub_rr"
  BY <1>4, SubRRComputed
<1>5. CASE alu.kind = "neg"
  BY <1>5, NegComputed
<1>6. CASE alu.kind = "const"
  <2>1. \/ op = Computed("0", Unused) \/ op = Computed("1", Unused)
        \/ op = Computed("-1", Unused) \/ op = Computed(Unused, Unused)
    BY SMT, <1>6 DEF Operation
  <2>2. \A name \in {"0", "1", "-1", Unused} : IsOperation(Computed(name, Unused))
    BY DEF IsOperation, Computed, Unused, Alu
  <2>3. /\ "0" \in {"0", "1", "-1", Unused} /\ "1" \in {"0", "1", "-1", Unused}
        /\ "-1" \in {"0", "1", "-1", Unused} /\ Unused \in {"0", "1", "-1", Unused}
    OBVIOUS
  <2> QED
    BY <2>1, <2>2, <2>3, Zenon
<1>7. CASE alu.kind \in {"reg", "inv", "add_rr", "and", "or"}
  BY <1>7, RegComputed, InvComputed, AddRRComputed, AndComputed, OrComputed
<1> QED
  BY <1>1, <1>2, <1>3, <1>4, <1>5, <1>6, <1>7, AluParts

\* Every expression of the grammar that is accepted is computed: for every value of
\* the registers, the function of the ALU that masm_check_alu chooses, with the register
\* that it puts on the B bus, gives what the expression means.
THEOREM ExpressionsAreComputed ==
  ASSUME NEW alu \in AluExprs, ~IllegalConstant(alu), Operation(alu).problem = Unused
  PROVE  IsComputed(alu, Operation(alu))
BY AluParts, RegComputed, InvComputed, AddR1Computed, AddRRComputed, AddRR1Computed,
   AndComputed, OrComputed, SubRRComputed, SubR1Computed, NegComputed, ConstComputed

-----------------------------------------------------------------------------
(* What is refused cannot be computed. *)

Names == Alu \ {"random"}
Buses == ToSet(BOnBus)
Shifts == {"none", "rshift1", "lshift8"}
Amid == -7 .. 7
After(shift, v) ==
  IF shift = "rshift1" THEN v \div 2 ELSE IF shift = "lshift8" THEN ToWord(v * 256) ELSE v

\* The data path with function a and register b does not compute the expression.
Fails(alu, a, b, shift) ==
  \E f \in Uniforms :
    After(shift, AluGives(a, f["H"], Bus(b, f))) # After(shift, ToWord(Meaning(alu, f)))

\* Small numbers that differ in more than their last bits differ behind the shifter.
LEMMA ApartAfter ==
  ASSUME NEW shift \in Shifts, NEW m \in Amid, NEW n \in Amid, m \div 2 # n \div 2
  PROVE  After(shift, m) # After(shift, n) /\ ToWord(m) = m /\ ToWord(n) = n
<1>1. /\ m * 256 \in Int /\ -2000 =< m * 256 /\ m * 256 =< 2000
      /\ n * 256 \in Int /\ -2000 =< n * 256 /\ n * 256 =< 2000
      /\ m * 256 # n * 256 /\ m # n
  BY SMT DEF Amid
<1> QED
  BY SMT, <1>1, SmallNumbers DEF After, Shifts, Amid

\* The registers on the B bus: all that can be read but MAR and H.
LEMMA BusesType == Buses = Readable \ {"MAR", "H"}
BY DEF Buses, BOnBus, ToSet, Readable, Registers

\* The value that a register has in one of them.
LEMMA UniformAt ==
  ASSUME NEW q, NEW x, NEW y, NEW r \in Readable
  PROVE  Uniform(q, x, y)[r] = IF r = q THEN x ELSE y
BY DEF Uniform

\* The value of an expression changes when only that register does.
Feels(alu, r) ==
  \E x, y \in {4, 0, -1} :
    /\ <<x, y>> \in {<<4, 0>>, <<0, -1>>}
    /\ Meaning(alu, Uniform(Unused, x, y)) \in Amid /\ Meaning(alu, Uniform(r, x, y)) \in Amid
    /\ Meaning(alu, Uniform(Unused, x, y)) \div 2 # Meaning(alu, Uniform(r, x, y)) \div 2

\* An expression that feels a register which neither H nor the B bus shows to the
\* ALU cannot be computed.
LEMMA UnseenFails ==
  ASSUME NEW alu, NEW a, NEW b \in Buses, NEW shift \in Shifts,
         NEW r \in Readable, r # "H", r # b, Feels(alu, r)
  PROVE  Fails(alu, a, b, shift)
<1>1. PICK x \in {4, 0, -1}, y \in {4, 0, -1} :
        /\ <<x, y>> \in {<<4, 0>>, <<0, -1>>}
        /\ Meaning(alu, Uniform(Unused, x, y)) \in Amid /\ Meaning(alu, Uniform(r, x, y)) \in Amid
        /\ Meaning(alu, Uniform(Unused, x, y)) \div 2 # Meaning(alu, Uniform(r, x, y)) \div 2
  BY DEF Feels
<1> DEFINE f == Uniform(Unused, x, y)
           g == Uniform(r, x, y)
<1>2. f \in Uniforms /\ g \in Uniforms
  <2>1. (x = 4 /\ y = 0) \/ (x = 0 /\ y = -1)
    BY <1>1
  <2>2. /\ \A q \in Readable \union {Unused} : Uniform(q, 4, 0) \in Uniforms
        /\ \A q \in Readable \union {Unused} : Uniform(q, 0, -1) \in Uniforms
    BY Zenon DEF Uniforms
  <2> QED
    BY <2>1, <2>2
<1>3. f["H"] = g["H"] /\ Bus(b, f) = Bus(b, g)
  <2>1. "H" \in Readable /\ b \in Readable /\ Unused \notin Readable
    BY BusesType, NamesAreReadable
  <2> QED
    BY <2>1, UniformAt DEF Bus
<1>4. /\ After(shift, Meaning(alu, f)) # After(shift, Meaning(alu, g))
      /\ ToWord(Meaning(alu, f)) = Meaning(alu, f) /\ ToWord(Meaning(alu, g)) = Meaning(alu, g)
  BY <1>1, ApartAfter, Zenon
<1> HIDE DEF f, g
<1> QED
  BY <1>2, <1>3, <1>4, Zenon DEF Fails

\* The registers that an expression names.
Operands(alu) ==
  {alu[part] : part \in {"reg", "reg1", "reg2"} \intersect DOMAIN alu}

\* One register, or two of them.
LEMMA OperandsOf ==
  ASSUME NEW alu \in AluExprs, NEW r \in Operands(alu)
  PROVE  \/ /\ alu.kind \in {"reg", "inv", "neg", "add_r1", "sub_r1"} /\ r = alu.reg
            /\ alu.reg \in Readable
         \/ /\ alu.kind \in {"add_rr", "add_rr1", "sub_rr", "and", "or"}
            /\ r \in {alu.reg1, alu.reg2} /\ alu.reg1 \in Readable /\ alu.reg2 \in Readable
            /\ Repeats(alu) <=> alu.reg1 = alu.reg2
BY DEF AluExprs, Operands, Repeats

\* An expression feels every register that it names, unless one is named twice.
LEMMA OperandsAreFelt ==
  ASSUME NEW alu \in AluExprs, ~Repeats(alu), NEW r \in Operands(alu)
  PROVE  r \in Readable /\ Feels(alu, r)
<1>1. r \in Readable
  BY OperandsOf
<1> DEFINE none(x, y) == Meaning(alu, Uniform(Unused, x, y))
           one(x, y) == Meaning(alu, Uniform(r, x, y))
<1>2. Unused \notin Readable
  BY NamesAreReadable
<1>3. \/ none(4, 0) = 0 /\ one(4, 0) \in {4, -4}
      \/ none(4, 0) \in {1, -1} /\ one(4, 0) \in {5, -5, 3}
      \/ none(0, -1) = -1 /\ one(0, -1) = 0
  <2>1. CASE alu.kind \in {"reg", "inv", "neg", "add_r1", "sub_r1"}
    <3>1. r = alu.reg /\ alu.reg \in Readable
      BY <2>1, OperandsOf
    <3>2. Uniform(Unused, 4, 0)[r] = 0 /\ Uniform(r, 4, 0)[r] = 4
      BY <1>2, <3>1, UniformAt
    <3>3. CASE alu.kind = "reg"
      BY SMT, <3>1, <3>2, <3>3 DEF Meaning
    <3>4. CASE alu.kind = "inv"
      BY SMT, <3>1, <3>2, <3>4 DEF Meaning
    <3>5. CASE alu.kind = "neg"
      BY SMT, <3>1, <3>2, <3>5 DEF Meaning
    <3>6. CASE alu.kind = "add_r1"
      BY SMT, <3>1, <3>2, <3>6 DEF Meaning
    <3>7. CASE alu.kind = "sub_r1"
      BY SMT, <3>1, <3>2, <3>7 DEF Meaning
    <3> HIDE DEF none, one
    <3> QED
      BY <2>1, <3>3, <3>4, <3>5, <3>6, <3>7
  <2>2. CASE alu.kind \in {"add_rr", "add_rr1", "sub_rr", "and", "or"}
    <3>1. /\ r \in {alu.reg1, alu.reg2} /\ alu.reg1 \in Readable /\ alu.reg2 \in Readable
          /\ alu.reg1 # alu.reg2
      BY <2>2, OperandsOf
    <3>2. \A x, y : /\ Uniform(Unused, x, y)[alu.reg1] = y /\ Uniform(Unused, x, y)[alu.reg2] = y
                    /\ \/ Uniform(r, x, y)[alu.reg1] = x /\ Uniform(r, x, y)[alu.reg2] = y
                       \/ Uniform(r, x, y)[alu.reg1] = y /\ Uniform(r, x, y)[alu.reg2] = x
      BY <1>2, <3>1, UniformAt
    <3>3. CASE alu.kind = "add_rr"
      BY SMT, <3>2, <3>3 DEF Meaning
    <3>4. CASE alu.kind = "add_rr1"
      BY SMT, <3>2, <3>4 DEF Meaning
    <3>5. CASE alu.kind = "sub_rr"
      BY SMT, <3>2, <3>5 DEF Meaning
    <3>6. CASE alu.kind = "and"
      <4>1. BitAnd(-1, -1) = -1 /\ BitAnd(0, -1) = 0 /\ BitAnd(-1, 0) = 0
        BY BitsWithEnds
      <4> QED
        BY SMT, <3>2, <3>6, <4>1 DEF Meaning
    <3>7. CASE alu.kind = "or"
      <4>1. BitOr(0, 0) = 0 /\ BitOr(0, 4) = 4 /\ BitOr(4, 0) = 4
        BY BitsWithEnds, SmallNumbers
      <4> QED
        BY SMT, <3>2, <3>7, <4>1 DEF Meaning
    <3> HIDE DEF none, one
    <3> QED
      BY <2>2, <3>3, <3>4, <3>5, <3>6, <3>7
  <2> QED
    BY <2>1, <2>2, OperandsOf
<1> HIDE DEF none, one
<1>4. \/ /\ none(4, 0) \in Amid /\ one(4, 0) \in Amid /\ none(4, 0) \div 2 # one(4, 0) \div 2
      \/ /\ none(0, -1) \in Amid /\ one(0, -1) \in Amid /\ none(0, -1) \div 2 # one(0, -1) \div 2
  BY SMT, <1>3 DEF Amid
<1> QED
  BY <1>1, <1>4 DEF Feels, none, one

\* No function of the ALU makes 3 of 4 on H and 0 on the B bus, or -4 of 0 and 4.
LEMMA AluOfFourAndZero ==
  ASSUME NEW a \in Names
  PROVE  /\ AluGives(a, 4, 0) \in Amid /\ AluGives(a, 4, 0) \div 2 # 3 \div 2
         /\ AluGives(a, 0, 4) \in Amid /\ AluGives(a, 0, 4) \div 2 # -4 \div 2
<1>1. \A v \in Amid : v \in Word /\ ToWord(v) = v
  BY SmallNumbers DEF Amid
<1>2. BitAnd(4, 0) = 0 /\ BitAnd(0, 4) = 0 /\ BitOr(4, 0) = 4 /\ BitOr(0, 4) = 4
  <2>1. 4 \in Amid
    BY DEF Amid
  <2> QED
    BY <1>1, <2>1, BitsWithEnds
<1> DEFINE hb(n) == AluGives(n, 4, 0)
           bh(n) == AluGives(n, 0, 4)
           Never(n) == /\ hb(n) \in {-5, -4, -1, 0, 1, 4, 5}
                       /\ bh(n) \in {-5, -1, 0, 1, 3, 4, 5}
<1>3. Never("H")
  <2>1. hb("H") = 4 /\ bh("H") = 0
    BY AluResults
  <2> HIDE DEF hb, bh
  <2> QED
    BY SMT, <1>1, <1>2, <2>1 DEF Amid
<1>4. Never("B")
  <2>1. hb("B") = 0 /\ bh("B") = 4
    BY SMT DEF AluGives, AluResult
  <2> HIDE DEF hb, bh
  <2> QED
    BY SMT, <1>1, <1>2, <2>1 DEF Amid
<1>5. Never("inv H")
  <2>1. hb("inv H") = -4 - 1 /\ bh("inv H") = -0 - 1
    BY AluResults
  <2> HIDE DEF hb, bh
  <2>2. -4 - 1 = -5 /\ -0 - 1 = -1
    BY SMT
  <2> QED
    BY <2>1, <2>2
<1>6. Never("inv B")
  <2>1. hb("inv B") = -0 - 1 /\ bh("inv B") = -4 - 1
    BY AluResults
  <2> HIDE DEF hb, bh
  <2>2. -4 - 1 = -5 /\ -0 - 1 = -1
    BY SMT
  <2> QED
    BY <2>1, <2>2
<1>7. Never("B+H")
  <2>1. hb("B+H") = ToWord(0 + 4) /\ bh("B+H") = ToWord(4 + 0)
    BY AluResults
  <2> HIDE DEF hb, bh
  <2> QED
    BY SMT, <1>1, <1>2, <2>1 DEF Amid
<1>8. Never("B+H+1")
  <2>1. hb("B+H+1") = ToWord(0 + 4 + 1) /\ bh("B+H+1") = ToWord(4 + 0 + 1)
    BY AluResults
  <2> HIDE DEF hb, bh
  <2> QED
    BY SMT, <1>1, <1>2, <2>1 DEF Amid
<1>9. Never("H+1")
  <2>1. hb("H+1") = ToWord(4 + 1) /\ bh("H+1") = ToWord(0 + 1)
    BY AluResults
  <2> HIDE DEF hb, bh
  <2> QED
    BY SMT, <1>1, <1>2, <2>1 DEF Amid
<1>10. Never("B+1")
  <2>1. hb("B+1") = ToWord(0 + 1) /\ bh("B+1") = ToWord(4 + 1)
    BY AluResults
  <2> HIDE DEF hb, bh
  <2> QED
    BY SMT, <1>1, <1>2, <2>1 DEF Amid
<1>11. Never("B-H")
  <2>1. hb("B-H") = ToWord(0 - 4) /\ bh("B-H") = ToWord(4 - 0)
    BY AluResults
  <2> HIDE DEF hb, bh
  <2> QED
    BY SMT, <1>1, <1>2, <2>1 DEF Amid
<1>12. Never("B-1")
  <2>1. hb("B-1") = ToWord(0 - 1) /\ bh("B-1") = ToWord(4 - 1)
    BY AluResults
  <2> HIDE DEF hb, bh
  <2> QED
    BY SMT, <1>1, <1>2, <2>1 DEF Amid
<1>13. Never("-H")
  <2>1. hb("-H") = ToWord(-4) /\ bh("-H") = ToWord(-0)
    BY AluResults
  <2> HIDE DEF hb, bh
  <2> QED
    BY SMT, <1>1, <1>2, <2>1 DEF Amid
<1>14. Never("B and H")
  <2>1. hb("B and H") = BitAnd(4, 0) /\ bh("B and H") = BitAnd(0, 4)
    BY AluResults
  <2> HIDE DEF hb, bh
  <2> QED
    BY <1>2, <2>1, Zenon
<1>15. Never("B or H")
  <2>1. hb("B or H") = BitOr(4, 0) /\ bh("B or H") = BitOr(0, 4)
    BY AluResults
  <2> HIDE DEF hb, bh
  <2> QED
    BY <1>2, <2>1, Zenon
<1>16. Never("0")
  <2>1. hb("0") = 0 /\ bh("0") = 0
    BY SMT DEF AluGives, AluResult
  <2> HIDE DEF hb, bh
  <2> QED
    BY SMT, <1>1, <1>2, <2>1 DEF Amid
<1>17. Never("1")
  <2>1. hb("1") = 1 /\ bh("1") = 1
    BY SMT DEF AluGives, AluResult
  <2> HIDE DEF hb, bh
  <2> QED
    BY SMT, <1>1, <1>2, <2>1 DEF Amid
<1>18. Never("-1")
  <2>1. hb("-1") = -1 /\ bh("-1") = -1
    BY SMT DEF AluGives, AluResult
  <2> HIDE DEF hb, bh
  <2> QED
    BY SMT, <1>1, <1>2, <2>1 DEF Amid
<1> HIDE DEF hb, bh
<1>19. Never(a)
  BY <1>3, <1>4, <1>5, <1>6, <1>7, <1>8, <1>9, <1>10, <1>11, <1>12, <1>13, <1>14, <1>15, <1>16, <1>17, <1>18, Zenon DEF Names, Alu
<1>20. \A v \in {-5, -4, -1, 0, 1, 4, 5} : v \in Amid /\ v \div 2 # 3 \div 2
  BY SMT DEF Amid
<1>21. \A v \in {-5, -1, 0, 1, 3, 4, 5} : v \in Amid /\ v \div 2 # -4 \div 2
  BY SMT DEF Amid
<1> QED
  BY <1>19, <1>20, <1>21 DEF hb, bh

\* An expression which is -4 when its only register but H is 4, and that one is on the
\* B bus, cannot be computed,
LEMMA NegativeFails ==
  ASSUME NEW alu, NEW a \in Names, NEW b \in Buses, NEW shift \in Shifts,
         Meaning(alu, Uniform(b, 4, 0)) = -4
  PROVE  Fails(alu, a, b, shift)
<1> DEFINE f == Uniform(b, 4, 0)
<1>1. f \in Uniforms
  BY BusesType, Zenon DEF Uniforms
<1>2. f["H"] = 0 /\ Bus(b, f) = 4
  BY BusesType, UniformAt, NamesAreReadable DEF Bus
<1>3. -4 \in Amid
  BY DEF Amid
<1>4. /\ After(shift, AluGives(a, 0, 4)) # After(shift, -4)
      /\ ToWord(-4) = -4
  BY <1>3, AluOfFourAndZero, ApartAfter
<1> QED
  BY <1>1, <1>2, <1>4 DEF Fails

\* nor one that is 3 when H is 4 and the others are 0.
LEMMA OneLessFails ==
  ASSUME NEW alu, NEW a \in Names, NEW b \in Buses, NEW shift \in Shifts,
         Meaning(alu, Uniform("H", 4, 0)) = 3
  PROVE  Fails(alu, a, b, shift)
<1> DEFINE f == Uniform("H", 4, 0)
<1>1. f \in Uniforms
  BY NamesAreReadable, Zenon DEF Uniforms
<1>2. f["H"] = 4 /\ Bus(b, f) = 0
  BY BusesType, UniformAt, NamesAreReadable DEF Bus
<1>3. 3 \in Amid
  BY DEF Amid
<1>4. /\ After(shift, AluGives(a, 4, 0)) # After(shift, 3)
      /\ ToWord(3) = 3
  BY <1>3, AluOfFourAndZero, ApartAfter
<1> QED
  BY <1>1, <1>2, <1>4 DEF Fails

\* masm_check_alu refuses an expression, or wants MAR on the B bus.
IsRefused(op) == op.problem # Unused \/ op.b = "MAR"

\* What masm_check_alu refuses cannot be computed: whatever the ALU does, whatever
\* register is on the B bus, for some values of the registers the result is another.
\* Only the operation on a register with itself, as in H or H, is refused in vain.
THEOREM RefusedIsImpossible ==
  ASSUME NEW alu \in AluExprs, ~Repeats(alu), IsRefused(Operation(alu)),
         NEW a \in Names, NEW b \in Buses, NEW shift \in Shifts
  PROVE  Fails(alu, a, b, shift)
<1>1. ASSUME NEW r \in Operands(alu), r # "H", r # b PROVE Fails(alu, a, b, shift)
  BY <1>1, OperandsAreFelt, UnseenFails
<1>2. b \in Readable \ {"MAR", "H"} /\ "H" \in Readable
  BY BusesType, NamesAreReadable
<1>3. CASE alu.kind \in {"reg", "inv", "add_r1"}
  <2>1. alu.reg \in Operands(alu) /\ alu.reg \in Readable
    BY <1>3 DEF AluExprs, Operands
  <2>2. \E n, m : Operation(alu) = OnHOrB(alu.reg, n, m)
    BY <1>3 DEF Operation
  <2>3. PICK n, m : Operation(alu) = OnHOrB(alu.reg, n, m)
    BY <2>2
  <2>4. Operation(alu) = Computed(n, Unused) \/ Operation(alu) = Computed(m, alu.reg)
    BY <2>3 DEF OnHOrB
  <2>5. alu.reg = "MAR"
    BY <2>4 DEF IsRefused, Computed, Unused
  <2> QED
    BY <1>1, <1>2, <2>1, <2>5
<1>4. CASE alu.kind = "neg"
  <2>1. alu.reg \in Operands(alu) /\ alu.reg \in Readable
    BY <1>4 DEF AluExprs, Operands
  <2>2. alu.reg # "H"
    BY <1>4 DEF Operation, IsRefused, Computed, Unused
  <2>3. CASE alu.reg = b
    <3>1. Meaning(alu, Uniform(b, 4, 0)) = -4
      BY SMT, <1>2, <1>4, <2>3, UniformAt DEF Meaning
    <3> QED
      BY <3>1, NegativeFails
  <2> QED
    BY <1>1, <2>1, <2>2, <2>3
<1>5. CASE alu.kind = "sub_r1"
  <2>1. alu.reg \in Operands(alu) /\ alu.reg \in Readable
    BY <1>5 DEF AluExprs, Operands
  <2>2. alu.reg = "H" \/ alu.reg = "MAR"
    BY <1>5 DEF Operation, IsRefused, Computed, Unused
  <2>3. CASE alu.reg = "H"
    <3>1. Meaning(alu, Uniform("H", 4, 0)) = 3
      BY SMT, <1>2, <1>5, <2>3, UniformAt DEF Meaning
    <3> QED
      BY <3>1, OneLessFails
  <2> QED
    BY <1>1, <1>2, <2>1, <2>2, <2>3
<1>6. CASE alu.kind \in {"add_rr", "add_rr1", "and", "or", "sub_rr"}
  <2>1. /\ alu.reg1 \in Operands(alu) /\ alu.reg2 \in Operands(alu)
        /\ alu.reg1 \in Readable /\ alu.reg2 \in Readable /\ alu.reg1 # alu.reg2
    BY <1>6 DEF AluExprs, Operands, Repeats
  <2>2. CASE alu.reg1 # "H" /\ alu.reg2 # "H"
    <3>1. alu.reg1 # b \/ alu.reg2 # b
      BY <2>1
    <3> QED
      BY <1>1, <2>1, <2>2, <3>1
  <2>3. CASE "MAR" \in {alu.reg1, alu.reg2}
    BY <1>1, <1>2, <2>1, <2>3
  <2>4. CASE alu.reg1 = "H" /\ alu.kind = "sub_rr"
    <3>1. CASE alu.reg2 = b
      <4>1. Meaning(alu, Uniform(b, 4, 0)) = -4
        <5>1. Uniform(b, 4, 0)[alu.reg1] = 0 /\ Uniform(b, 4, 0)[alu.reg2] = 4
          BY <1>2, <2>4, <3>1, UniformAt
        <5> QED
          BY SMT, <2>4, <5>1 DEF Meaning
      <4> QED
        BY <4>1, NegativeFails
    <3> QED
      BY <1>1, <2>1, <2>4, <3>1
  <2>5. ASSUME (alu.reg1 = "H" \/ alu.reg2 = "H"), "MAR" \notin {alu.reg1, alu.reg2},
               ~(alu.reg1 = "H" /\ alu.kind = "sub_rr")
        PROVE  FALSE
    <3>1. CASE alu.kind = "sub_rr"
      <4>1. Operation(alu) = Computed("B-H", alu.reg1)
        BY <2>1, <2>5, <3>1 DEF Operation
      <4> QED
        BY <2>5, <4>1 DEF IsRefused, Computed, Unused
    <3>2. CASE alu.kind # "sub_rr"
      <4>1. \E n : Operation(alu) = WithH(n, alu.reg1, alu.reg2)
        BY <1>6, <3>2 DEF Operation
      <4>2. PICK n : Operation(alu) = WithH(n, alu.reg1, alu.reg2)
        BY <4>1
      <4>3. Operation(alu) = Computed(n, alu.reg1) \/ Operation(alu) = Computed(n, alu.reg2)
        BY <2>1, <2>5, <4>2 DEF WithH
      <4> QED
        BY <2>5, <4>3 DEF IsRefused, Computed, Unused
    <3> QED
      BY <3>1, <3>2
  <2> QED
    BY <2>2, <2>3, <2>4, <2>5
<1>7. alu.kind # "const"
  <2>1. SUFFICES ASSUME alu.kind = "const" PROVE FALSE
    OBVIOUS
  <2>2. \E n : Operation(alu) = Computed(n, Unused)
    BY <2>1 DEF Operation
  <2> QED
    BY <2>2 DEF IsRefused, Computed, Unused
<1> QED
  BY <1>3, <1>4, <1>5, <1>6, <1>7, AluParts

-----------------------------------------------------------------------------
(* What an instruction puts into the word. *)

\* What the check of a line knows on the way.
LineProblems == {"rd and wr", "duplicate", "gotos", "undefined", "MBR", "twice", "operand",
                 "subtraction", "negation", "MAR", "assignments", "alone", "last line"}
States == [word : SUBSET Nat, goto : BOOLEAN, assign : BOOLEAN, problems : SUBSET LineProblems]

\* A warning changes the warnings and nothing else.
LEMMA AddType ==
  ASSUME NEW c \in States, NEW kinds \in SUBSET LineProblems
  PROVE  LET d == Add(c, kinds)
         IN  /\ d \in States /\ d.problems = c.problems \union kinds
             /\ d.word = c.word /\ d.goto = c.goto /\ d.assign = c.assign
BY DEF States, Add

\* A warning is given when its condition holds.
LEMMA IfType ==
  ASSUME NEW condition, NEW kind \in LineProblems
  PROVE  If(condition, kind) \in SUBSET LineProblems /\ (condition => kind \in If(condition, kind))
BY DEF If

\* Bits below the ninth are put where they should be.
LEMMA SetBitsType ==
  ASSUME NEW word \in SUBSET Nat, NEW bits \in SUBSET Nat, NEW pos \in Nat
  PROVE  /\ SetBits(word, bits, pos) \in SUBSET Nat
         /\ bits \in SUBSET (0 .. 8) => SetBits(word, bits, pos) = word \union {b + pos : b \in bits}
<1>1. \A b \in bits : b + pos \in Nat
  OBVIOUS
<1>2. SetBits(word, bits, pos) \in SUBSET Nat
  BY <1>1 DEF SetBits
<1>3. pos % 8 \in 0 .. 7
  BY ByteOfPosition
<1>4. bits \in SUBSET (0 .. 8) => \A b \in bits : b + (pos % 8) \in IntBits
  BY <1>3 DEF IntBits
<1> QED
  BY <1>2, <1>4 DEF SetBits

\* d is c with some more bits in the word.
Puts(c, d, bits) ==
  /\ d \in States /\ d.problems = c.problems /\ d.goto = c.goto /\ d.assign = c.assign
  /\ d.word = c.word \union bits

\* Putting bits changes the word and nothing else.
LEMMA PutType ==
  ASSUME NEW c \in States, NEW bits \in SUBSET (0 .. 8), NEW pos \in Nat
  PROVE  Puts(c, Put(c, bits, pos), {b + pos : b \in bits})
<1>1. c.word \in SUBSET Nat /\ bits \in SUBSET Nat
  BY DEF States
<1> DEFINE w == SetBits(c.word, bits, pos)
<1>2. w \in SUBSET Nat /\ w = c.word \union {b + pos : b \in bits}
  BY <1>1, SetBitsType, Zenon
<1>3. Put(c, bits, pos) = [c EXCEPT !.word = w]
  BY DEF Put
<1> HIDE DEF w
<1> QED
  BY <1>2, <1>3 DEF States, Puts

\* The same for one bit.
LEMMA PutBitType ==
  ASSUME NEW c \in States, NEW pos \in Nat
  PROVE  Puts(c, Put(c, {0}, pos), {pos})
<1>1. {0} \in SUBSET (0 .. 8) /\ {b + pos : b \in {0}} = {pos}
  OBVIOUS
<1>2. Puts(c, Put(c, {0}, pos), {b + pos : b \in {0}})
  BY <1>1, PutType, Zenon
<1> QED
  BY <1>1, <1>2, Zenon

\* From c the check gets to d by an instruction with these bits; goto and assign
\* tell whether it is one of those that a line has but one of.
Advances(c, d, bits, goto, assign) ==
  /\ d \in States /\ c.problems \subseteq d.problems
  /\ d.goto = (c.goto \/ goto) /\ d.assign = (c.assign \/ assign)
  /\ d.problems = {} => d.word = c.word \union bits


\* A memory operation puts its bit.
LEMMA MemoryAdvances ==
  ASSUME NEW c \in States, NEW op \in {"read", "write", "fetch"}, NEW other \in {"read", "write", "fetch"}
  PROVE  Advances(c, CheckMemory(c, op, other), {MemoryBit[op]}, FALSE, FALSE)
<1> DEFINE k1 == If(op # other /\ GetBit(c.word, MemoryBit[other]), "rd and wr")
           k2 == If(GetBit(c.word, MemoryBit[op]), "duplicate")
           added == Add(c, k1 \union k2)
           d == Put(added, {0}, MemoryBit[op])
<1>1. k1 \union k2 \in SUBSET LineProblems
  <2>1. "rd and wr" \in LineProblems /\ "duplicate" \in LineProblems
    BY DEF LineProblems
  <2>2. k1 \in SUBSET LineProblems /\ k2 \in SUBSET LineProblems
    BY <2>1, IfType, Zenon
  <2> HIDE DEF k1, k2
  <2> QED
    BY <2>2
<1>2. /\ added \in States /\ added.problems = c.problems \union (k1 \union k2)
      /\ added.word = c.word /\ added.goto = c.goto /\ added.assign = c.assign
  <2> HIDE DEF k1, k2
  <2> QED
    BY <1>1, AddType, Zenon
<1>3. MemoryBit[op] \in Nat
  BY DEF MemoryBit
<1>4. CheckMemory(c, op, other) = d
  BY DEF CheckMemory
<1> HIDE DEF added, k1, k2
<1>5. Puts(added, d, {MemoryBit[op]})
  BY <1>2, <1>3, PutBitType, Zenon
<1> HIDE DEF d
<1>6. c.goto \in BOOLEAN /\ c.assign \in BOOLEAN
  BY DEF States
<1> QED
  BY <1>2, <1>4, <1>5, <1>6 DEF Advances, Puts

\* A jump: the second one of a line gets a warning.
LEMMA JumpAdvances ==
  ASSUME NEW c \in States
  PROVE  /\ Advances(c, CheckJump(c), {}, TRUE, FALSE)
         /\ CheckJump(c).problems = {} => ~c.goto
         /\ CheckJump(c).word = c.word
<1> DEFINE went == [c EXCEPT !.goto = TRUE]
           k == If(c.goto, "gotos")
<1>1. /\ went \in States /\ went.problems = c.problems /\ went.word = c.word
      /\ went.goto = TRUE /\ went.assign = c.assign
  BY DEF States
<1>2. k \in SUBSET LineProblems /\ (c.goto => k # {}) /\ c.goto \in BOOLEAN /\ c.assign \in BOOLEAN
  <2>1. "gotos" \in LineProblems
    BY DEF LineProblems
  <2>2. k \in SUBSET LineProblems /\ (c.goto => "gotos" \in k)
    BY <2>1, IfType, Zenon
  <2>3. c.goto \in BOOLEAN /\ c.assign \in BOOLEAN
    BY DEF States
  <2> HIDE DEF k
  <2> QED
    BY <2>2, <2>3
<1>3. CheckJump(c) = Add(went, k)
  BY DEF CheckJump
<1> HIDE DEF went, k
<1>4. LET d == Add(went, k)
      IN  /\ d \in States /\ d.problems = went.problems \union k
          /\ d.word = went.word /\ d.goto = went.goto /\ d.assign = went.assign
  BY <1>1, <1>2, AddType, Zenon
<1> QED
  BY <1>1, <1>2, <1>3, <1>4 DEF Advances

\* An address in the control store is put as it is.
AddressBits(a) == {b + ADDRESS_OFFSET : b \in BitsOf(a)}

\* An address is put into its field.
LEMMA AddressPut ==
  ASSUME NEW c \in States, NEW a \in MicroAddresses
  PROVE  Puts(c, PutAddress(c, a), AddressBits(a))
<1>1. BitsOf(a) \in SUBSET (0 .. 8)
  BY NumberOfBits DEF MicroAddresses
<1>2. ADDRESS_OFFSET \in Nat
  BY DEF ADDRESS_OFFSET
<1>3. PutAddress(c, a) = Put(c, BitsOf(a), ADDRESS_OFFSET)
  BY Zenon DEF PutAddress
<1> QED
  BY <1>1, <1>2, <1>3, PutType, Zenon DEF AddressBits

\* One thing after the other.
LEMMA AdvancesThenPuts ==
  ASSUME NEW c, NEW d, NEW e, NEW bits, NEW more, NEW goto, NEW assign,
         Advances(c, d, bits, goto, assign), Puts(d, e, more)
  PROVE  Advances(c, e, bits \union more, goto, assign) /\ e.problems = d.problems
BY DEF Advances, Puts

\* Steps of the check compose: a warning after a step,
LEMMA AdvancesThenAdds ==
  ASSUME NEW c, NEW d, NEW bits, NEW goto, NEW assign, NEW kinds \in SUBSET LineProblems,
         Advances(c, d, bits, goto, assign)
  PROVE  /\ Advances(c, Add(d, kinds), bits, goto, assign)
         /\ Add(d, kinds).problems = d.problems \union kinds
<1>1. d \in States
  BY DEF Advances
<1>2. LET e == Add(d, kinds)
      IN  /\ e \in States /\ e.problems = d.problems \union kinds
          /\ e.word = d.word /\ e.goto = d.goto /\ e.assign = d.assign
  BY <1>1, AddType, Zenon
<1> QED
  BY <1>2 DEF Advances

\* and one step after another.
LEMMA AdvancesTwice ==
  ASSUME NEW c, NEW d, NEW e, NEW bits, NEW more, NEW goto, NEW assign \in BOOLEAN,
         NEW goto2 \in BOOLEAN, NEW assign2 \in BOOLEAN,
         Advances(c, d, bits, goto, assign), Advances(d, e, more, goto2, assign2)
  PROVE  /\ Advances(c, e, bits \union more, goto \/ goto2, assign \/ assign2)
         /\ e.problems = {} => d.problems = {}
BY DEF Advances

\* No step at all is a step that puts nothing.
LEMMA StaysPut == ASSUME NEW c \in States PROVE Advances(c, c, {}, FALSE, FALSE)
<1>1. c.goto \in BOOLEAN /\ c.assign \in BOOLEAN
  BY DEF States
<1> QED
  BY <1>1 DEF Advances

GotoBits(target) == IF target = Nowhere THEN {} ELSE AddressBits(target)

\* A goto puts the address of its label, and is the first of the line.
LEMMA GotoAdvances ==
  ASSUME NEW c \in States, NEW target \in MicroAddresses \union {Nowhere}
  PROVE  LET d == CheckGoto(c, target)
         IN  /\ Advances(c, d, GotoBits(target), TRUE, FALSE)
             /\ d.problems = {} => ~c.goto /\ target # Nowhere
<1> DEFINE j == CheckJump(c)
<1>1. Advances(c, j, {}, TRUE, FALSE) /\ (j.problems = {} => ~c.goto)
  BY JumpAdvances, Zenon
<1>2. CASE target = Nowhere
  <2>1. CheckGoto(c, target) = Add(j, {"undefined"}) /\ GotoBits(target) = {}
    BY <1>2, Zenon DEF CheckGoto, GotoBits
  <2>2. {"undefined"} \in SUBSET LineProblems
    BY DEF LineProblems
  <2> HIDE DEF j
  <2>3. /\ Advances(c, Add(j, {"undefined"}), {}, TRUE, FALSE)
        /\ Add(j, {"undefined"}).problems = j.problems \union {"undefined"}
    BY <1>1, <2>2, AddType DEF Advances
  <2>4. Add(j, {"undefined"}).problems # {}
    BY <2>3
  <2> QED
    BY <2>1, <2>3, <2>4, Zenon
<1>3. CASE target # Nowhere
  <2>1. CheckGoto(c, target) = PutAddress(j, target) /\ GotoBits(target) = AddressBits(target)
    BY <1>3, Zenon DEF CheckGoto, GotoBits
  <2> HIDE DEF j
  <2>2. target \in MicroAddresses /\ j \in States
    BY <1>1, <1>3 DEF Advances
  <2>3. Puts(j, PutAddress(j, target), AddressBits(target))
    BY <2>2, AddressPut, Zenon
  <2>4. /\ Advances(c, PutAddress(j, target), {} \union AddressBits(target), TRUE, FALSE)
        /\ PutAddress(j, target).problems = j.problems
    BY <1>1, <2>3, AdvancesThenPuts, Zenon
  <2>5. {} \union AddressBits(target) = AddressBits(target)
    OBVIOUS
  <2> QED
    BY <1>1, <1>3, <2>1, <2>4, <2>5, Zenon
<1> QED
  BY <1>2, <1>3

\* So does an indirect goto, with the bit for MBR,
LEMMA IgotoAdvances ==
  ASSUME NEW c \in States, NEW base \in MicroAddresses
  PROVE  LET d == CheckIgoto(c, base)
         IN  /\ Advances(c, d, AddressBits(base) \union {JamBit["MPC"]}, TRUE, FALSE)
             /\ d.problems = {} => ~c.goto
<1> DEFINE j == CheckJump(c)
           a == PutAddress(j, base)
           d == Put(a, {0}, JamBit["MPC"])
<1>1. Advances(c, j, {}, TRUE, FALSE) /\ (j.problems = {} => ~c.goto)
  BY JumpAdvances, Zenon
<1>2. CheckIgoto(c, base) = d
  BY Zenon DEF CheckIgoto
<1> HIDE DEF j
<1>3. j \in States
  BY <1>1 DEF Advances
<1>4. Puts(j, a, AddressBits(base))
  BY <1>3, AddressPut, Zenon
<1> HIDE DEF a
<1>5. a \in States /\ JamBit["MPC"] \in Nat
  BY <1>4 DEF Puts, JamBit
<1>6. Puts(a, d, {JamBit["MPC"]})
  BY <1>5, PutBitType, Zenon
<1> HIDE DEF d
<1>7. Advances(c, a, {} \union AddressBits(base), TRUE, FALSE) /\ a.problems = j.problems
  BY <1>1, <1>4, AdvancesThenPuts, Zenon
<1>8. /\ Advances(c, d, ({} \union AddressBits(base)) \union {JamBit["MPC"]}, TRUE, FALSE)
      /\ d.problems = a.problems
  BY <1>6, <1>7, AdvancesThenPuts, Zenon
<1>9. ({} \union AddressBits(base)) \union {JamBit["MPC"]} = AddressBits(base) \union {JamBit["MPC"]}
  OBVIOUS
<1> QED
  BY <1>1, <1>2, <1>7, <1>8, <1>9, Zenon

AddressMaps == [Labels -> MicroAddresses \union {Nowhere}]

\* and an `if', with the bit of its condition.
LEMMA IfAdvances ==
  ASSUME NEW c \in States, NEW insn \in Insns, NEW addressOf \in AddressMaps, insn.kind = "if"
  PROVE  LET d == CheckIf(c, insn, addressOf)
         IN  /\ Advances(c, d, GotoBits(addressOf[insn.label2]) \union {JamBit[insn.cond]}, TRUE, FALSE)
             /\ d.problems = {} => ~c.goto
<1> DEFINE j == CheckJump(c)
           target == addressOf[insn.label2]
           a == IF target = Nowhere THEN j ELSE PutAddress(j, target)
           d == Put(a, {0}, JamBit[insn.cond])
           bits == GotoBits(target)
<1>0. insn.cond \in {"Z", "N"} /\ target \in MicroAddresses \union {Nowhere}
  BY InsnParts DEF AddressMaps
<1>1. Advances(c, j, {}, TRUE, FALSE) /\ (j.problems = {} => ~c.goto)
  BY JumpAdvances, Zenon
<1>2. CheckIf(c, insn, addressOf) = d
  BY Zenon DEF CheckIf
<1> HIDE DEF j
<1>3. j \in States
  BY <1>1 DEF Advances
<1>4. Puts(j, a, bits)
  <2>1. CASE target = Nowhere
    <3>1. a = j /\ bits = {}
      BY <2>1 DEF GotoBits
    <3> QED
      BY <1>3, <3>1 DEF Puts
  <2>2. CASE target # Nowhere
    <3>1. a = PutAddress(j, target) /\ bits = AddressBits(target) /\ target \in MicroAddresses
      BY <1>0, <2>2 DEF GotoBits
    <3> HIDE DEF a, bits, target
    <3> QED
      BY <1>3, <3>1, AddressPut, Zenon
  <2> QED
    BY <2>1, <2>2
<1> HIDE DEF a, bits
<1>5. a \in States /\ JamBit[insn.cond] \in Nat
  BY <1>0, <1>4 DEF Puts, JamBit
<1>6. Puts(a, d, {JamBit[insn.cond]})
  BY <1>5, PutBitType, Zenon
<1> HIDE DEF d
<1>7. Advances(c, a, {} \union bits, TRUE, FALSE) /\ a.problems = j.problems
  BY <1>1, <1>4, AdvancesThenPuts, Zenon
<1>8. /\ Advances(c, d, ({} \union bits) \union {JamBit[insn.cond]}, TRUE, FALSE)
      /\ d.problems = a.problems
  BY <1>6, <1>7 DEF Advances, Puts
<1>9. ({} \union bits) \union {JamBit[insn.cond]} = bits \union {JamBit[insn.cond]}
  OBVIOUS
<1> QED
  BY <1>1, <1>2, <1>7, <1>8, <1>9, Zenon DEF bits

HaltBits == {b + B_BUS_OFFSET : b \in BitsOf(HaltCode)}
CheckHalt(c, alone) ==
  Put(Add([c EXCEPT !.goto = TRUE], If(~alone, "alone")), BitsOf(HaltCode), B_BUS_OFFSET)

\* A halt puts its code on the B bus, and is alone.
LEMMA HaltAdvances ==
  ASSUME NEW c \in States, NEW alone \in BOOLEAN
  PROVE  LET d == CheckHalt(c, alone)
         IN  /\ Advances(c, d, HaltBits, TRUE, FALSE)
             /\ d.problems = {} => alone
<1> DEFINE went == [c EXCEPT !.goto = TRUE]
           k == If(~alone, "alone")
           a == Add(went, k)
           d == Put(a, BitsOf(HaltCode), B_BUS_OFFSET)
<1>1. Advances(c, went, {}, TRUE, FALSE)
  BY DEF States, Advances
<1>2. k \in SUBSET LineProblems /\ (~alone => "alone" \in k)
  <2>1. "alone" \in LineProblems
    BY DEF LineProblems
  <2> QED
    BY <2>1, IfType, Zenon
<1> HIDE DEF went, k
<1>3. Advances(c, a, {}, TRUE, FALSE) /\ a.problems = went.problems \union k
  BY <1>1, <1>2, AddType DEF Advances
<1> HIDE DEF a
<1>4. a \in States /\ B_BUS_OFFSET \in Nat /\ BitsOf(HaltCode) \in SUBSET (0 .. 8)
  <2>1. HaltCode \in 0 .. 511
    BY DEF HaltCode
  <2> QED
    BY <1>3, <2>1, NumberOfBits DEF Advances, B_BUS_OFFSET
<1>5. Puts(a, d, HaltBits)
  BY <1>4, PutType, Zenon DEF HaltBits
<1>6. CheckHalt(c, alone) = d
  BY Zenon DEF CheckHalt, d, a, went, k
<1> HIDE DEF d
<1>7. Advances(c, d, {} \union HaltBits, TRUE, FALSE) /\ d.problems = a.problems
  BY <1>3, <1>5, AdvancesThenPuts, Zenon
<1> QED
  BY <1>2, <1>3, <1>6, <1>7

\* A target: a register of the C bus, N and Z, or one of the two that are none.
Targets == Readable \union {"VIRTUAL"}
TargetBit(reg) == IF reg \in Registers THEN {CBit(reg)} ELSE {}

\* A target puts its bit for the C bus, and is no read-only register.
LEMMA TargetAdvances ==
  ASSUME NEW c \in States, NEW reg \in Targets
  PROVE  LET d == CheckAssignTarget(c, reg)
         IN  /\ Advances(c, d, TargetBit(reg), FALSE, FALSE)
             /\ d.problems = {} => reg \notin {"MBR", "MBRU"}
<1> DEFINE d == CheckAssignTarget(c, reg)
<1>0. Advances(c, c, {}, FALSE, FALSE)
  BY StaysPut, Zenon
<1>1. CASE reg \in {"MBR", "MBRU"}
  <2>1. d = Add(c, {"MBR"}) /\ TargetBit(reg) = {}
    BY <1>1 DEF CheckAssignTarget, TargetBit, Registers
  <2>2. {"MBR"} \in SUBSET LineProblems
    BY DEF LineProblems
  <2>3. /\ Advances(c, Add(c, {"MBR"}), {}, FALSE, FALSE)
        /\ Add(c, {"MBR"}).problems = c.problems \union {"MBR"}
    BY <1>0, <2>2, AddType DEF Advances
  <2> QED
    BY <2>1, <2>3
<1>2. CASE reg = "VIRTUAL"
  <2>1. d = c /\ TargetBit(reg) = {}
    BY <1>2 DEF CheckAssignTarget, TargetBit, Registers
  <2> QED
    BY <1>0, <1>2, <2>1
<1>3. CASE reg \in Registers
  <2>1. /\ d = IF GetBit(c.word, CBit(reg)) THEN Add(c, {"twice"}) ELSE Put(c, {0}, CBit(reg))
        /\ TargetBit(reg) = {CBit(reg)}
    BY <1>3 DEF CheckAssignTarget, TargetBit, Registers
  <2>2. reg \notin {"MBR", "MBRU"}
    BY <1>3 DEF Registers
  <2>3. CASE GetBit(c.word, CBit(reg))
    <3>1. d = Add(c, {"twice"})
      BY <2>1, <2>3
    <3>2. {"twice"} \in SUBSET LineProblems
      BY DEF LineProblems
    <3>3. LET e == Add(c, {"twice"})
          IN  /\ e \in States /\ e.problems = c.problems \union {"twice"}
              /\ e.word = c.word /\ e.goto = c.goto /\ e.assign = c.assign
      BY <3>2, AddType, Zenon
    <3> HIDE DEF d
    <3>4. Advances(c, d, TargetBit(reg), FALSE, FALSE)
      BY <1>0, <3>1, <3>3 DEF Advances
    <3> QED
      BY <2>2, <3>4 DEF d
  <2>4. CASE ~GetBit(c.word, CBit(reg))
    <3>1. d = Put(c, {0}, CBit(reg))
      BY <2>1, <2>4
    <3>2. CBit(reg) \in Nat
      BY <1>3, BitsInWord
    <3> HIDE DEF d
    <3>3. Puts(c, d, {CBit(reg)})
      BY <3>1, <3>2, PutBitType, Zenon
    <3>4. Advances(c, d, TargetBit(reg), FALSE, FALSE)
      BY <1>0, <2>1, <3>3 DEF Advances, Puts
    <3> QED
      BY <2>2, <3>4 DEF d
  <2> QED
    BY <2>3, <2>4
<1> QED
  BY <1>1, <1>2, <1>3 DEF Targets, Readable

-----------------------------------------------------------------------------
(* The chain of targets. *)

\* The sequence of the sets that a fold from left to right goes through.
LEMMA UpTo ==
  ASSUME NEW m \in Nat, NEW k \in 1 .. m
  PROVE  /\ 1 .. k \in SUBSET (1 .. m) /\ 1 .. k # {}
         /\ Max(1 .. k) = k /\ (1 .. k) \ {k} = 1 .. k - 1
<1>1. 1 .. k \in SUBSET (0 .. m) /\ 1 .. k \in SUBSET (1 .. m) /\ k \in 1 .. k
  <2>1. \A x \in 1 .. k : x \in 0 .. m /\ x \in 1 .. m
    OBVIOUS
  <2> QED
    BY <2>1
<1>2. Max(1 .. k) \in 1 .. k /\ \A y \in 1 .. k : y =< Max(1 .. k)
  BY <1>1, MaxIsIn
<1>3. Max(1 .. k) = k
  BY <1>1, <1>2
<1> QED
  BY <1>1, <1>3

\* The positions from k on, without the first of them.
LEMMA DownFrom ==
  ASSUME NEW m \in Nat, NEW k \in 1 .. m
  PROVE  /\ k .. m \in SUBSET (1 .. m) /\ k .. m # {}
         /\ Min(k .. m) = k /\ (k .. m) \ {k} = k + 1 .. m
<1>1. k .. m \in SUBSET Nat /\ k .. m \in SUBSET (1 .. m) /\ k \in k .. m
  <2>1. \A x \in k .. m : x \in Nat /\ x \in 1 .. m
    OBVIOUS
  <2> QED
    BY <2>1
<1>2. Min(k .. m) \in k .. m /\ \A y \in k .. m : Min(k .. m) =< y
  BY <1>1, MinIsIn
<1>3. Min(k .. m) = k
  BY <1>1, <1>2
<1> QED
  BY <1>1, <1>3

\* masm_check_assign: the targets one after the other.
LEMMA TargetSteps ==
  ASSUME NEW c \in States, NEW targets \in Seq(Targets)
  PROVE  \E C : /\ C[0] = c
                /\ \A k \in 1 .. Len(targets) : C[k] = CheckAssignTarget(C[k - 1], targets[k])
                /\ FoldLeft(CheckAssignTarget, c, targets) = C[Len(targets)]
<1> DEFINE m == Len(targets)
           D == 1 .. m
           choice == [s \in SUBSET D |-> IF s = {} THEN 0 ELSE Max(s)]
           step == [i \in D |-> [v \in States |-> CheckAssignTarget(v, targets[i])]]
           Fold(g) == [s \in SUBSET D |-> IF s = {} THEN c
                                          ELSE CheckAssignTarget(g[s \ {Max(s)}], targets[Max(s)])]
<1>1. m \in Nat /\ DOMAIN targets = D /\ \A i \in D : targets[i] \in Targets
  OBVIOUS
<1>2. step \in [D -> [States -> States]]
  <2>1. ASSUME NEW i \in D, NEW v \in States PROVE CheckAssignTarget(v, targets[i]) \in States
    <3>1. Advances(v, CheckAssignTarget(v, targets[i]), TargetBit(targets[i]), FALSE, FALSE)
      BY <1>1, TargetAdvances, Zenon
    <3> QED
      BY <3>1 DEF Advances
  <2> QED
    BY <2>1
<1>3. \A s \in SUBSET D : s # {} => Max(s) \in s /\ choice[s] = Max(s)
  <2> SUFFICES ASSUME NEW s \in SUBSET D, s # {} PROVE Max(s) \in s /\ choice[s] = Max(s)
    OBVIOUS
  <2>1. s \in SUBSET (0 .. m)
    BY <1>1
  <2>2. Max(s) \in s
    BY <1>1, <2>1, MaxIsIn
  <2> QED
    BY <2>2
<1>4. IsFiniteSet(D)
  <2>1. 1 \in Int /\ m \in Int
    BY <1>1
  <2> QED
    BY <2>1, FS_Interval, Zenon
<1> HIDE DEF m
<1>5. PICK f : IsFold(f, D, States, c, step, choice)
  <2>1. \A s \in SUBSET D : s # {} => choice[s] \in s
    BY <1>3
  <2> HIDE DEF step, choice, D
  <2>2. Foldable(D, States, c, step, choice)
    BY <1>2, <1>4, <2>1 DEF Foldable
  <2> QED
    BY <2>2, FoldExists, Zenon
<1>6. f = Fold(f)
  <2>0. /\ f \in [SUBSET D -> States]
        /\ \A s \in SUBSET D : f[s] = IF s = {} THEN c ELSE step[choice[s]][f[s \ {choice[s]}]]
    BY <1>5, Zenon DEF IsFold
  <2>1. ASSUME NEW s \in SUBSET D, s # {}
        PROVE  f[s] = CheckAssignTarget(f[s \ {Max(s)}], targets[Max(s)])
    <3>1. choice[s] = Max(s) /\ Max(s) \in D /\ s \ {Max(s)} \in SUBSET D
      BY <1>3, <2>1
    <3>2. f[s \ {Max(s)}] \in States
      BY <2>0, <3>1
    <3>3. step[Max(s)][f[s \ {Max(s)}]] = CheckAssignTarget(f[s \ {Max(s)}], targets[Max(s)])
      BY <3>1, <3>2
    <3> HIDE DEF step, choice
    <3>4. f[s] = step[choice[s]][f[s \ {choice[s]}]]
      BY <2>0, <2>1
    <3> QED
      BY <3>1, <3>3, <3>4, Zenon
  <2>2. f[{}] = c
    BY <2>0
  <2> QED
    BY <2>0, <2>1, <2>2
<1> DEFINE iter == CHOOSE g : g = Fold(g)
<1>7. iter = Fold(iter)
  <2> HIDE DEF Fold
  <2> QED
    BY <1>6
<1>8. FoldLeft(CheckAssignTarget, c, targets) = iter[D]
  BY <1>1, Zenon DEF FoldLeft, MapThenFoldSet
<1>9. \A s \in SUBSET D : iter[s] = IF s = {} THEN c
                                    ELSE CheckAssignTarget(iter[s \ {Max(s)}], targets[Max(s)])
  <2> HIDE DEF iter
  <2> QED
    BY <1>7
<1> HIDE DEF iter
<1> DEFINE C == [k \in 0 .. m |-> iter[1 .. k]]
<1>10. C[0] = c /\ C[m] = iter[D]
  <2>1. 1 .. 0 = {} /\ 0 \in 0 .. m /\ m \in 0 .. m
    BY <1>1
  <2> QED
    BY <1>9, <2>1
<1>11. ASSUME NEW k \in 1 .. m PROVE C[k] = CheckAssignTarget(C[k - 1], targets[k])
  <2>1. /\ 1 .. k \in SUBSET D /\ 1 .. k # {}
        /\ Max(1 .. k) = k /\ (1 .. k) \ {k} = 1 .. k - 1
    BY <1>1, UpTo, Zenon
  <2>2. k \in 0 .. m /\ k - 1 \in 0 .. m
    BY <1>1
  <2>3. iter[1 .. k] = CheckAssignTarget(iter[1 .. k - 1], targets[k])
    BY <1>9, <2>1, Zenon
  <2> QED
    BY <2>2, <2>3
<1> HIDE DEF C
<1> QED
  BY <1>8, <1>10, <1>11 DEF m

\* The bits of the registers that are assigned to.
TargetBits(targets) == {CBit(r) : r \in ToSet(targets) \intersect Registers}

\* All targets of an assignment put their bits.
LEMMA TargetsAdvance ==
  ASSUME NEW c \in States, NEW targets \in Seq(Targets)
  PROVE  LET d == FoldLeft(CheckAssignTarget, c, targets)
         IN  /\ Advances(c, d, TargetBits(targets), FALSE, FALSE)
             /\ d.problems = {} => \A i \in DOMAIN targets : targets[i] \notin {"MBR", "MBRU"}
<1> DEFINE m == Len(targets)
           Bits(k) == {CBit(r) : r \in {targets[i] : i \in 1 .. k} \intersect Registers}
           Fine(k) == \A i \in 1 .. k : targets[i] \notin {"MBR", "MBRU"}
<1>1. PICK C : /\ C[0] = c
               /\ \A k \in 1 .. m : C[k] = CheckAssignTarget(C[k - 1], targets[k])
               /\ FoldLeft(CheckAssignTarget, c, targets) = C[m]
  BY TargetSteps, Zenon
<1> DEFINE Good(k) == /\ Advances(c, C[k], Bits(k), FALSE, FALSE)
                      /\ C[k].problems = {} => Fine(k)
           G == {k \in Nat : k =< m => Good(k)}
<1>2. m \in Nat /\ DOMAIN targets = 1 .. m /\ \A i \in 1 .. m : targets[i] \in Targets
  OBVIOUS
<1> HIDE DEF m
<1>3. 0 \in G
  <2>1. 1 .. 0 = {}
    OBVIOUS
  <2>2. Bits(0) = {} /\ Fine(0)
    BY <2>1
  <2>3. Advances(c, C[0], {}, FALSE, FALSE)
    BY <1>1, StaysPut, Zenon
  <2>4. Good(0)
    BY <2>2, <2>3, Zenon
  <2> QED
    BY <2>4
<1>4. ASSUME NEW k \in Nat, k \in G PROVE k + 1 \in G
  <2> HIDE DEF Good
  <2> SUFFICES ASSUME k + 1 =< m PROVE Good(k + 1)
    OBVIOUS
  <2>0. Good(k)
    BY <1>2, <1>4
  <2> USE DEF Good
  <2>1. Good(k)
    BY <2>0
  <2>2. k + 1 \in 1 .. m /\ (k + 1) - 1 = k
    BY <1>2
  <2>3. C[k + 1] = CheckAssignTarget(C[k], targets[k + 1]) /\ targets[k + 1] \in Targets
    BY <1>1, <1>2, <2>2
  <2>4. C[k] \in States
    BY <2>1 DEF Advances
  <2>5. /\ Advances(C[k], C[k + 1], TargetBit(targets[k + 1]), FALSE, FALSE)
        /\ C[k + 1].problems = {} => targets[k + 1] \notin {"MBR", "MBRU"}
    BY <2>3, <2>4, TargetAdvances, Zenon
  <2>6. 1 .. k + 1 = (1 .. k) \union {k + 1}
    OBVIOUS
  <2>7. Bits(k + 1) = Bits(k) \union TargetBit(targets[k + 1])
    BY <2>6 DEF TargetBit
  <2> HIDE DEF Bits
  <2>8. Advances(c, C[k + 1], Bits(k + 1), FALSE, FALSE) /\ (C[k + 1].problems = {} => C[k].problems = {})
    BY <2>1, <2>5, <2>7 DEF Advances
  <2>9. C[k + 1].problems = {} => Fine(k + 1)
    BY <2>1, <2>5, <2>6, <2>8
  <2> QED
    BY <2>8, <2>9
<1>5. G = Nat
  <2>1. G \in SUBSET Nat
    OBVIOUS
  <2> HIDE DEF G
  <2> QED
    BY <1>3, <1>4, <2>1, Upwards
<1>6. Good(m)
  <2> HIDE DEF Good
  <2>1. m \in G
    BY <1>2, <1>5
  <2> QED
    BY <1>2, <2>1
<1>7. Bits(m) = TargetBits(targets)
  BY <1>2 DEF TargetBits, ToSet
<1> QED
  BY <1>1, <1>2, <1>6, <1>7

-----------------------------------------------------------------------------
(* The codes of an expression. *)

\* The code of a register on the B bus, which is decoded as that register.
LEMMA BusCodes ==
  ASSUME NEW reg \in Readable \ {"H", "MAR"}
  PROVE  BCode(reg) \in 0 .. 8 /\ BusOf(BCode(reg)) = reg
<1>1. \A i \in 1 .. 9 : BOnBus[i] = reg => \A j \in 1 .. 9 : BOnBus[j] = reg => j = i
  BY DEF BOnBus
<1>2. DOMAIN BOnBus = 1 .. 9 /\ Len(BOnBus) = 9
  BY DEF BOnBus
<1>3. \E i \in 1 .. 9 : BOnBus[i] = reg
  BY DEF Readable, Registers, BOnBus
<1>4. PICK i \in 1 .. 9 : BOnBus[i] = reg
  BY <1>3
<1>5. (CHOOSE j \in DOMAIN BOnBus : BOnBus[j] = reg) = i
  BY <1>1, <1>2, <1>4
<1>6. BCode(reg) = i - 1
  BY <1>5 DEF BCode
<1>7. BCode(reg) \in 0 .. 8 /\ BCode(reg) < Len(BOnBus) /\ BCode(reg) + 1 = i
  BY <1>2, <1>6
<1>8. BusOf(BCode(reg)) = BOnBus[BCode(reg) + 1]
  BY <1>7 DEF BusOf, HaltCode
<1> QED
  BY <1>4, <1>7, <1>8

\* Putting bits when there are any, and nothing otherwise, is a step.
LEMMA PutSome ==
  ASSUME NEW c \in States, NEW bits \in SUBSET Nat, NEW pos \in Nat
  PROVE  LET d == Put(c, bits, pos)
         IN  d \in States /\ d.problems = c.problems /\ d.goto = c.goto /\ d.assign = c.assign
<1>1. c.word \in SUBSET Nat
  BY DEF States
<1> DEFINE w == SetBits(c.word, bits, pos)
<1>2. w \in SUBSET Nat
  BY <1>1, SetBitsType, Zenon
<1>3. Put(c, bits, pos) = [c EXCEPT !.word = w]
  BY DEF Put
<1> HIDE DEF w
<1> QED
  BY <1>2, <1>3 DEF States

AluBits(op) == IF op.alu = Unused THEN {} ELSE {b + ALU_OFFSET : b \in AluCode(op.alu)}
BusBits(op) == IF op.b = Unused THEN {} ELSE {b + B_BUS_OFFSET : b \in BitsOf(BCode(op.b))}

\* An expression puts its ALU function and its register on the B bus.
LEMMA AluAdvances ==
  ASSUME NEW c \in States, NEW alu \in AluExprs
  PROVE  LET d == CheckAlu(c, alu)
             op == Operation(alu)
         IN  /\ Advances(c, d, AluBits(op) \union BusBits(op), FALSE, FALSE)
             /\ d.problems = {} => op.problem = Unused /\ op.b # "MAR"
<1> DEFINE op == Operation(alu)
           coded == IF op.alu = Unused THEN c ELSE Put(c, AluCode(op.alu), ALU_OFFSET)
           fed == IF op.b = Unused THEN coded ELSE Put(coded, BitsOf(BCode(op.b)), B_BUS_OFFSET)
           kinds == ({op.problem} \ {Unused}) \union If(op.b = "MAR", "MAR")
           d == Add(fed, kinds)
<1>1. IsOperation(op)
  BY OperationType, Zenon
<1>2. CheckAlu(c, alu) = d
  BY Zenon DEF CheckAlu
<1> HIDE DEF op
<1>3. Puts(c, coded, AluBits(op))
  <2>1. CASE op.alu = Unused
    BY <2>1 DEF Puts, AluBits
  <2>2. CASE op.alu # Unused
    <3>1. op.alu \in Alu \ {"random"} /\ ALU_OFFSET \in Nat
      BY <1>1, <2>2 DEF IsOperation, ALU_OFFSET
    <3>2. AluCode(op.alu) \in SUBSET (0 .. 8)
      <4>1. AluCode(op.alu) \in SUBSET (0 .. 5)
        BY <3>1, AluCodesDiffer, Zenon
      <4> QED
        BY <4>1
    <3>3. Puts(c, Put(c, AluCode(op.alu), ALU_OFFSET), {b + ALU_OFFSET : b \in AluCode(op.alu)})
      BY <3>1, <3>2, PutType, Zenon
    <3> QED
      BY <2>2, <3>3, Zenon DEF AluBits
  <2> QED
    BY <2>1, <2>2
<1> HIDE DEF coded
<1>4. /\ fed \in States /\ fed.problems = coded.problems
      /\ fed.goto = coded.goto /\ fed.assign = coded.assign
      /\ op.b # "MAR" => fed.word = coded.word \union BusBits(op)
  <2>0. coded \in States
    BY <1>3 DEF Puts
  <2>1. CASE op.b = Unused
    BY <2>0, <2>1 DEF BusBits
  <2>2. CASE op.b # Unused
    <3>1. fed = Put(coded, BitsOf(BCode(op.b)), B_BUS_OFFSET) /\ B_BUS_OFFSET \in Nat
      BY <2>2 DEF B_BUS_OFFSET
    <3>2. BusBits(op) = {b + B_BUS_OFFSET : b \in BitsOf(BCode(op.b))}
      BY <2>2, Zenon DEF BusBits
    <3>3. BitsOf(BCode(op.b)) \in SUBSET Nat
      BY DEF BitsOf
    <3> HIDE DEF fed
    <3>4. /\ fed \in States /\ fed.problems = coded.problems
          /\ fed.goto = coded.goto /\ fed.assign = coded.assign
      BY <2>0, <3>1, <3>3, PutSome, Zenon
    <3>5. ASSUME op.b # "MAR" PROVE fed.word = coded.word \union BusBits(op)
      <4>1. op.b \in Readable \ {"H", "MAR"}
        BY <1>1, <2>2, <3>5 DEF IsOperation
      <4>2. BCode(op.b) \in 0 .. 511
        BY <4>1, BusCodes
      <4>3. BitsOf(BCode(op.b)) \in SUBSET (0 .. 8)
        BY <4>2, NumberOfBits
      <4>4. Puts(coded, fed, BusBits(op))
        BY <2>0, <3>1, <3>2, <4>3, PutType, Zenon
      <4> QED
        BY <4>4 DEF Puts
    <3> QED
      BY <3>4, <3>5
  <2> QED
    BY <2>1, <2>2
<1> HIDE DEF fed
<1>5. /\ kinds \in SUBSET LineProblems
      /\ kinds = {} => op.problem = Unused /\ op.b # "MAR"
  <2>1. If(op.b = "MAR", "MAR") \in SUBSET LineProblems /\ (op.b = "MAR" => "MAR" \in If(op.b = "MAR", "MAR"))
    <3>1. "MAR" \in LineProblems
      BY DEF LineProblems
    <3> QED
      BY <3>1, IfType, Zenon
  <2>2. {op.problem} \ {Unused} \in SUBSET LineProblems
    BY <1>1 DEF IsOperation, LineProblems
  <2>3. op.problem # Unused => op.problem \in {op.problem} \ {Unused}
    OBVIOUS
  <2> QED
    BY <2>1, <2>2, <2>3
<1> HIDE DEF kinds
<1>6. /\ d \in States /\ d.problems = fed.problems \union kinds
      /\ d.word = fed.word /\ d.goto = fed.goto /\ d.assign = fed.assign
  BY <1>4, <1>5, AddType, Zenon
<1> HIDE DEF d
<1>7. /\ Advances(c, d, AluBits(op) \union BusBits(op), FALSE, FALSE)
      /\ d.problems = {} => op.problem = Unused /\ op.b # "MAR"
  <2>1. c.goto \in BOOLEAN /\ c.assign \in BOOLEAN
    BY DEF States
  <2>2. d.problems = {} => kinds = {}
    BY <1>6
  <2>3. d.problems = {} => d.word = c.word \union (AluBits(op) \union BusBits(op))
    BY <1>3, <1>4, <1>5, <1>6, <2>2 DEF Puts
  <2> QED
    BY <1>3, <1>4, <1>5, <1>6, <2>1, <2>2, <2>3 DEF Advances, Puts
<1> QED
  BY <1>2, <1>7, Zenon DEF op

ShiftBits(shift) ==
  CASE shift = "rshift1" -> {SRA1_BIT}
    [] shift = "lshift8" -> {SLL8_BIT}
    [] shift = "none" -> {}
AssignBits(insn) ==
  LET op == Operation(insn.alu)
  IN  (TargetBits(insn.targets) \union (AluBits(op) \union BusBits(op))) \union ShiftBits(insn.shift)

\* Nothing is wrong with an assignment.
FineAssign(insn) ==
  /\ \A i \in DOMAIN insn.targets : insn.targets[i] \notin {"MBR", "MBRU"}
  /\ Operation(insn.alu).problem = Unused /\ Operation(insn.alu).b # "MAR"

\* An assignment puts the bits of its targets, its expression and its shift.
LEMMA AssignAdvances ==
  ASSUME NEW c \in States, NEW insn, insn.targets \in Seq(Targets), insn.alu \in AluExprs,
         insn.shift \in {"none", "rshift1", "lshift8"}
  PROVE  LET d == CheckAssign(c, insn)
         IN  /\ Advances(c, d, AssignBits(insn), FALSE, FALSE)
             /\ d.problems = {} => FineAssign(insn)
<1> DEFINE t == FoldLeft(CheckAssignTarget, c, insn.targets)
           a == CheckAlu(t, insn.alu)
           d == CheckAssign(c, insn)
           op == Operation(insn.alu)
           tbits == TargetBits(insn.targets)
           abits == AluBits(op) \union BusBits(op)
           sbits == ShiftBits(insn.shift)
<1>1. /\ Advances(c, t, tbits, FALSE, FALSE)
      /\ t.problems = {} => \A i \in DOMAIN insn.targets : insn.targets[i] \notin {"MBR", "MBRU"}
  BY TargetsAdvance, Zenon
<1>2. \/ insn.shift = "none" /\ d = a /\ sbits = {}
      \/ insn.shift = "rshift1" /\ d = Put(a, {0}, SRA1_BIT) /\ sbits = {SRA1_BIT}
      \/ insn.shift = "lshift8" /\ d = Put(a, {0}, SLL8_BIT) /\ sbits = {SLL8_BIT}
  <2>0. d = CASE insn.shift = "rshift1" -> Put(a, {0}, SRA1_BIT)
              [] insn.shift = "lshift8" -> Put(a, {0}, SLL8_BIT)
              [] insn.shift = "none" -> a
    BY Zenon DEF CheckAssign
  <2> HIDE DEF d, a
  <2>1. CASE insn.shift = "none"
    BY <2>0, <2>1 DEF ShiftBits
  <2>2. CASE insn.shift = "rshift1"
    BY <2>0, <2>2 DEF ShiftBits
  <2>3. CASE insn.shift = "lshift8"
    BY <2>0, <2>3 DEF ShiftBits
  <2> QED
    BY <2>1, <2>2, <2>3
<1> HIDE DEF d, t, tbits
<1>3. t \in States
  BY <1>1 DEF Advances
<1>4. /\ Advances(t, a, abits, FALSE, FALSE)
      /\ a.problems = {} => op.problem = Unused /\ op.b # "MAR"
  BY <1>3, AluAdvances, Zenon
<1> HIDE DEF a, op, abits, sbits
<1>5. a \in States
  BY <1>4 DEF Advances
<1>6. Puts(a, d, sbits)
  <2>1. SRA1_BIT \in Nat /\ SLL8_BIT \in Nat
    BY BitsInWord
  <2>2. Puts(a, Put(a, {0}, SRA1_BIT), {SRA1_BIT}) /\ Puts(a, Put(a, {0}, SLL8_BIT), {SLL8_BIT})
    BY <1>5, <2>1, PutBitType, Zenon
  <2>3. Puts(a, a, {})
    BY <1>5 DEF Puts
  <2> QED
    BY <1>2, <2>2, <2>3, Zenon
<1>7. /\ Advances(c, d, (tbits \union abits) \union sbits, FALSE, FALSE)
      /\ d.problems = a.problems /\ (a.problems = {} => t.problems = {})
  BY <1>1, <1>4, <1>6 DEF Advances, Puts
<1>8. AssignBits(insn) = (tbits \union abits) \union sbits
  BY Zenon DEF AssignBits, tbits, abits, sbits, op
<1>9. d.problems = {} => FineAssign(insn)
  BY <1>1, <1>4, <1>7, Zenon DEF FineAssign, op
<1> QED
  BY <1>7, <1>8, <1>9, Zenon DEF d

-----------------------------------------------------------------------------
(* One instruction. *)

Jumps == {"goto", "igoto", "if"}

InsnBits(insn, addressOf) ==
  CASE insn.kind = "rd" -> {MemoryBit["read"]}
    [] insn.kind = "wr" -> {MemoryBit["write"]}
    [] insn.kind = "fetch" -> {MemoryBit["fetch"]}
    [] insn.kind = "goto" -> GotoBits(addressOf[insn.label])
    [] insn.kind = "igoto" -> AddressBits(insn.base) \union {JamBit["MPC"]}
    [] insn.kind = "if" -> GotoBits(addressOf[insn.label2]) \union {JamBit[insn.cond]}
    [] insn.kind = "assign" -> AssignBits(insn)
    [] insn.kind = "empty" -> {}
    [] insn.kind = "halt" -> HaltBits

\* Nothing is wrong with an instruction.
FineInsn(insn, alone, addressOf) ==
  /\ insn.kind = "goto" => addressOf[insn.label] # Nowhere
  /\ insn.kind \in {"empty", "halt"} => alone
  /\ insn.kind = "assign" => FineAssign(insn)

InStore(insn) == insn.kind = "igoto" => insn.base \in MicroAddresses

\* Every instruction puts its own bits, and no others; without a warning nothing
\* is wrong with it, nor with it after the instructions before.
LEMMA InsnAdvances ==
  ASSUME NEW c \in States, NEW insn \in Insns, InStore(insn), NEW alone \in BOOLEAN,
         NEW addressOf \in AddressMaps
  PROVE  LET d == CheckInsn(c, insn, alone, addressOf)
         IN  /\ Advances(c, d, InsnBits(insn, addressOf), insn.kind \in Jumps \union {"halt"},
                         insn.kind = "assign")
             /\ d.problems = {} => /\ FineInsn(insn, alone, addressOf)
                                   /\ insn.kind \in Jumps => ~c.goto
                                   /\ insn.kind = "assign" => ~c.assign
<1> DEFINE d == CheckInsn(c, insn, alone, addressOf)
           bits == InsnBits(insn, addressOf)
<1> USE DEF Jumps, FineInsn
<1>0. /\ insn.kind \in {"rd", "wr", "fetch", "empty", "halt", "goto", "igoto", "if", "assign"}
      /\ insn.kind = "goto" => insn.label \in Labels
      /\ insn.kind = "if" => insn.cond \in {"Z", "N"} /\ insn.label2 \in Labels
      /\ insn.kind = "assign" => /\ insn.targets \in Seq(Targets) /\ insn.alu \in AluExprs
                                 /\ insn.shift \in {"none", "rshift1", "lshift8"}
  BY InsnParts, Zenon DEF Targets
<1>1. CASE insn.kind = "rd"
  <2>1. d = CheckMemory(c, "read", "write") /\ bits = {MemoryBit["read"]}
    BY <1>1, Zenon DEF CheckInsn, InsnBits
  <2> HIDE DEF d, bits
  <2>2. Advances(c, d, bits, FALSE, FALSE)
    BY <2>1, MemoryAdvances
  <2> QED
    BY <1>1, <2>2 DEF d, bits, Advances
<1>2. CASE insn.kind = "wr"
  <2>1. d = CheckMemory(c, "write", "read") /\ bits = {MemoryBit["write"]}
    BY <1>2, Zenon DEF CheckInsn, InsnBits
  <2> HIDE DEF d, bits
  <2>2. Advances(c, d, bits, FALSE, FALSE)
    BY <2>1, MemoryAdvances
  <2> QED
    BY <1>2, <2>2 DEF d, bits, Advances
<1>3. CASE insn.kind = "fetch"
  <2>1. d = CheckMemory(c, "fetch", "fetch") /\ bits = {MemoryBit["fetch"]}
    BY <1>3, Zenon DEF CheckInsn, InsnBits
  <2> HIDE DEF d, bits
  <2>2. Advances(c, d, bits, FALSE, FALSE)
    BY <2>1, MemoryAdvances
  <2> QED
    BY <1>3, <2>2 DEF d, bits, Advances
<1>4. CASE insn.kind = "goto"
  <2>1. d = CheckGoto(c, addressOf[insn.label]) /\ bits = GotoBits(addressOf[insn.label])
    BY <1>4, Zenon DEF CheckInsn, InsnBits
  <2>2. addressOf[insn.label] \in MicroAddresses \union {Nowhere}
    BY <1>0, <1>4 DEF AddressMaps
  <2> HIDE DEF d, bits
  <2>3. Advances(c, d, bits, TRUE, FALSE) /\ (d.problems = {} => ~c.goto /\ addressOf[insn.label] # Nowhere)
    BY <2>1, <2>2, GotoAdvances, Zenon
  <2> QED
    BY <1>4, <2>3 DEF d, bits, Advances
<1>5. CASE insn.kind = "igoto"
  <2>1. d = CheckIgoto(c, insn.base) /\ bits = AddressBits(insn.base) \union {JamBit["MPC"]}
    BY <1>5, Zenon DEF CheckInsn, InsnBits
  <2>2. insn.base \in MicroAddresses
    BY <1>5 DEF InStore
  <2> HIDE DEF d, bits
  <2>3. Advances(c, d, bits, TRUE, FALSE) /\ (d.problems = {} => ~c.goto)
    BY <2>1, <2>2, IgotoAdvances, Zenon
  <2> QED
    BY <1>5, <2>3 DEF d, bits, Advances
<1>6. CASE insn.kind = "if"
  <2>1. /\ d = CheckIf(c, insn, addressOf)
        /\ bits = GotoBits(addressOf[insn.label2]) \union {JamBit[insn.cond]}
    BY <1>6, Zenon DEF CheckInsn, InsnBits
  <2>2. addressOf[insn.label2] \in MicroAddresses \union {Nowhere} /\ insn.cond \in {"Z", "N"}
    BY <1>0, <1>6 DEF AddressMaps
  <2> HIDE DEF d, bits
  <2>3. Advances(c, d, bits, TRUE, FALSE) /\ (d.problems = {} => ~c.goto)
    BY <1>6, <2>1, IfAdvances, Zenon
  <2> QED
    BY <1>6, <2>3 DEF d, bits, Advances
<1>7. CASE insn.kind = "assign"
  <2> DEFINE k == If(c.assign, "assignments")
             went == [c EXCEPT !.assign = TRUE]
             s == Add(went, k)
  <2>1. d = CheckAssign(s, insn) /\ bits = AssignBits(insn)
    BY <1>7, Zenon DEF CheckInsn, InsnBits
  <2>2. k \in SUBSET LineProblems /\ (c.assign => "assignments" \in k)
    <3>1. "assignments" \in LineProblems
      BY DEF LineProblems
    <3> QED
      BY <3>1, IfType, Zenon
  <2>3. Advances(c, went, {}, FALSE, TRUE) /\ went.problems = c.problems
    BY DEF States, Advances
  <2> HIDE DEF d, bits, k, went
  <2>4. Advances(c, s, {}, FALSE, TRUE) /\ (s.problems = {} => ~c.assign)
    BY <2>2, <2>3, AddType DEF Advances
  <2> HIDE DEF s
  <2>5. s \in States
    BY <2>4 DEF Advances
  <2>6. Advances(s, d, bits, FALSE, FALSE) /\ (d.problems = {} => FineAssign(insn))
    BY <1>0, <1>7, <2>1, <2>5, AssignAdvances, Zenon
  <2>7. Advances(c, d, bits, FALSE, TRUE) /\ (d.problems = {} => s.problems = {})
    BY <2>4, <2>6 DEF Advances
  <2> QED
    BY <1>7, <2>4, <2>6, <2>7 DEF d, bits, Advances
<1>8. CASE insn.kind = "empty"
  <2> DEFINE k == If(~alone, "alone")
  <2>1. d = Add(c, k) /\ bits = {}
    BY <1>8, Zenon DEF CheckInsn, InsnBits
  <2>2. k \in SUBSET LineProblems /\ (~alone => "alone" \in k)
    <3>1. "alone" \in LineProblems
      BY DEF LineProblems
    <3> QED
      BY <3>1, IfType, Zenon
  <2>3. Advances(c, c, {}, FALSE, FALSE)
    BY StaysPut, Zenon
  <2> HIDE DEF d, bits, k
  <2>4. Advances(c, d, bits, FALSE, FALSE) /\ (d.problems = {} => alone)
    BY <2>1, <2>2, <2>3, AddType DEF Advances
  <2> QED
    BY <1>8, <2>4 DEF d, bits, Advances
<1>9. CASE insn.kind = "halt"
  <2>1. d = CheckHalt(c, alone) /\ bits = HaltBits
    BY <1>9, Zenon DEF CheckInsn, InsnBits, CheckHalt
  <2> HIDE DEF d, bits
  <2>2. Advances(c, d, bits, TRUE, FALSE) /\ (d.problems = {} => alone)
    BY <2>1, HaltAdvances, Zenon
  <2> QED
    BY <1>9, <2>2 DEF d, bits, Advances
<1> QED
  BY <1>0, <1>1, <1>2, <1>3, <1>4, <1>5, <1>6, <1>7, <1>8, <1>9

-----------------------------------------------------------------------------
(* Where the warnings about expressions come from. *)

Refusals == {"operand", "subtraction", "negation", "MAR"}
Refuses(insn) == insn.kind = "assign" /\ IsRefused(Operation(insn.alu))

\* From c the check gets to d without a warning about an expression.
Mild(c, d) == d \in States /\ d.problems \intersect Refusals \subseteq c.problems

\* Other warnings are mild,
LEMMA AddIsMild ==
  ASSUME NEW c \in States, NEW condition, NEW kind \in LineProblems \ Refusals
  PROVE  Mild(c, Add(c, If(condition, kind))) /\ Mild(c, Add(c, {kind}))
<1>1. If(condition, kind) \in SUBSET LineProblems /\ {kind} \in SUBSET LineProblems
  BY IfType
<1>2. If(condition, kind) \intersect Refusals = {}
  BY DEF If
<1> DEFINE d == Add(c, If(condition, kind))
           e == Add(c, {kind})
<1>3. /\ d \in States /\ d.problems = c.problems \union If(condition, kind)
      /\ e \in States /\ e.problems = c.problems \union {kind}
  BY <1>1, AddType, Zenon
<1> HIDE DEF d, e
<1>4. Mild(c, d) /\ Mild(c, e)
  BY <1>2, <1>3 DEF Mild
<1> QED
  BY <1>4 DEF d, e

\* and so is to put bits, whatever they are.
LEMMA PutIsMild ==
  ASSUME NEW c \in States, NEW bits \in SUBSET Nat, NEW pos \in Nat
  PROVE  Mild(c, Put(c, bits, pos))
<1> DEFINE d == Put(c, bits, pos)
<1>1. d \in States /\ d.problems = c.problems
  BY PutSome, Zenon
<1> HIDE DEF d
<1>2. Mild(c, d)
  BY <1>1 DEF Mild
<1> QED
  BY <1>2 DEF d

\* One thing after the other.
LEMMA MildTwice ==
  ASSUME NEW c, NEW d, NEW e, Mild(c, d), Mild(d, e)
  PROVE  Mild(c, e)
BY DEF Mild

\* The operations of the memory,
LEMMA MemoryIsMild ==
  ASSUME NEW c \in States, NEW op \in {"read", "write", "fetch"}, NEW other \in {"read", "write", "fetch"}
  PROVE  Mild(c, CheckMemory(c, op, other))
<1> DEFINE k1 == If(op # other /\ GetBit(c.word, MemoryBit[other]), "rd and wr")
           k2 == If(GetBit(c.word, MemoryBit[op]), "duplicate")
           kinds == k1 \union k2
           added == Add(c, kinds)
<1>1. kinds \in SUBSET LineProblems /\ kinds \intersect Refusals = {}
  BY DEF If, LineProblems, Refusals
<1>2. CheckMemory(c, op, other) = Put(added, {0}, MemoryBit[op])
  BY Zenon DEF CheckMemory
<1> HIDE DEF kinds
<1>3. added \in States /\ added.problems = c.problems \union kinds
  BY <1>1, AddType, Zenon
<1> HIDE DEF added
<1>4. Mild(c, added)
  BY <1>1, <1>3 DEF Mild
<1>5. {0} \in SUBSET Nat /\ MemoryBit[op] \in Nat
  BY DEF MemoryBit
<1>6. Mild(added, Put(added, {0}, MemoryBit[op]))
  BY <1>3, <1>5, PutIsMild, Zenon
<1> QED
  BY <1>2, <1>4, <1>6, MildTwice, Zenon

\* the jumps,
LEMMA JumpIsMild ==
  ASSUME NEW c \in States
  PROVE  Mild(c, CheckJump(c))
<1> DEFINE went == [c EXCEPT !.goto = TRUE]
<1>1. Mild(c, went)
  BY DEF States, Mild
<1>2. CheckJump(c) = Add(went, If(c.goto, "gotos")) /\ "gotos" \in LineProblems \ Refusals
  BY DEF CheckJump, LineProblems, Refusals
<1> HIDE DEF went
<1>3. Mild(went, Add(went, If(c.goto, "gotos")))
  <2>1. went \in States
    BY <1>1 DEF Mild
  <2> QED
    BY <1>2, <2>1, AddIsMild, Zenon
<1> QED
  BY <1>1, <1>2, <1>3, MildTwice, Zenon

\* their addresses,
LEMMA AddressIsMild ==
  ASSUME NEW c \in States, NEW a
  PROVE  Mild(c, PutAddress(c, a))
<1>1. BitsOf(a) \in SUBSET Nat /\ ADDRESS_OFFSET \in Nat
  BY DEF BitsOf, ADDRESS_OFFSET
<1>2. PutAddress(c, a) = Put(c, BitsOf(a), ADDRESS_OFFSET)
  BY Zenon DEF PutAddress
<1> QED
  BY <1>1, <1>2, PutIsMild, Zenon

\* the target of an assignment, 
LEMMA TargetIsMild ==
  ASSUME NEW c \in States, NEW reg \in Targets
  PROVE  Mild(c, CheckAssignTarget(c, reg))
<1> DEFINE d == CheckAssignTarget(c, reg)
<1>1. "MBR" \in LineProblems \ Refusals /\ "twice" \in LineProblems \ Refusals
  BY DEF LineProblems, Refusals
<1>2. Mild(c, Add(c, {"MBR"})) /\ Mild(c, Add(c, {"twice"})) /\ Mild(c, c)
  <2>1. Mild(c, c)
    BY DEF Mild
  <2> QED
    BY <1>1, <2>1, AddIsMild, Zenon
<1>3. CASE reg \in {"MBR", "MBRU"}
  <2>1. d = Add(c, {"MBR"})
    BY <1>3 DEF CheckAssignTarget, Registers
  <2> QED
    BY <1>2, <2>1
<1>4. CASE reg = "VIRTUAL"
  <2>1. d = c
    BY <1>4 DEF CheckAssignTarget, Registers
  <2> QED
    BY <1>2, <2>1
<1>5. CASE reg \in Registers
  <2>1. d = IF GetBit(c.word, CBit(reg)) THEN Add(c, {"twice"}) ELSE Put(c, {0}, CBit(reg))
    BY <1>5 DEF CheckAssignTarget, Registers
  <2>2. {0} \in SUBSET Nat /\ CBit(reg) \in Nat
    BY <1>5, BitsInWord
  <2>3. Mild(c, Put(c, {0}, CBit(reg)))
    BY <2>2, PutIsMild, Zenon
  <2> QED
    BY <1>2, <2>1, <2>3, Zenon
<1> QED
  BY <1>3, <1>4, <1>5 DEF Targets, Readable

\* and the chain of them.
LEMMA TargetsAreMild ==
  ASSUME NEW c \in States, NEW targets \in Seq(Targets)
  PROVE  Mild(c, FoldLeft(CheckAssignTarget, c, targets))
<1> DEFINE m == Len(targets)
<1>1. PICK C : /\ C[0] = c
               /\ \A k \in 1 .. m : C[k] = CheckAssignTarget(C[k - 1], targets[k])
               /\ FoldLeft(CheckAssignTarget, c, targets) = C[m]
  BY TargetSteps, Zenon
<1> DEFINE G == {k \in Nat : k =< m => Mild(c, C[k])}
<1>2. m \in Nat /\ \A i \in 1 .. m : targets[i] \in Targets
  OBVIOUS
<1> HIDE DEF m
<1>3. 0 \in G
  BY <1>1 DEF Mild
<1>4. ASSUME NEW k \in Nat, k \in G PROVE k + 1 \in G
  <2> SUFFICES ASSUME k + 1 =< m PROVE Mild(c, C[k + 1])
    OBVIOUS
  <2>1. Mild(c, C[k]) /\ k + 1 \in 1 .. m /\ (k + 1) - 1 = k
    BY <1>2, <1>4
  <2>2. C[k + 1] = CheckAssignTarget(C[k], targets[k + 1]) /\ targets[k + 1] \in Targets
    BY <1>1, <1>2, <2>1
  <2>3. C[k] \in States
    BY <2>1 DEF Mild
  <2>4. Mild(C[k], C[k + 1])
    BY <2>2, <2>3, TargetIsMild, Zenon
  <2> QED
    BY <2>1, <2>4, MildTwice, Zenon
<1>5. G = Nat
  <2>1. G \in SUBSET Nat
    OBVIOUS
  <2> HIDE DEF G
  <2> QED
    BY <1>3, <1>4, <2>1, Upwards
<1>6. Mild(c, C[m])
  BY <1>2, <1>5
<1> QED
  BY <1>1, <1>6

\* What the check of an instruction does to the warnings about expressions.
Blames(insn, c, d) == d \in States /\ (Mild(c, d) \/ Refuses(insn))

\* An expression is warned about when it is refused, and only then.
LEMMA AluBlames ==
  ASSUME NEW c \in States, NEW alu \in AluExprs
  PROVE  LET d == CheckAlu(c, alu)
         IN  d \in States /\ (Mild(c, d) \/ IsRefused(Operation(alu)))
<1> DEFINE d == CheckAlu(c, alu)
           op == Operation(alu)
           coded == IF op.alu = Unused THEN c ELSE Put(c, AluCode(op.alu), ALU_OFFSET)
           fed == IF op.b = Unused THEN coded ELSE Put(coded, BitsOf(BCode(op.b)), B_BUS_OFFSET)
           kinds == ({op.problem} \ {Unused}) \union If(op.b = "MAR", "MAR")
<1>1. d \in States
  <2>1. Advances(c, d, AluBits(op) \union BusBits(op), FALSE, FALSE)
    BY AluAdvances, Zenon
  <2> HIDE DEF d
  <2> QED
    BY <2>1 DEF Advances
<1>2. d = Add(fed, kinds)
  BY Zenon DEF CheckAlu
<1>3. IsOperation(op)
  BY OperationType, Zenon
<1> HIDE DEF op, d
<1>4. Mild(c, coded)
  <2>1. CASE op.alu = Unused
    BY <2>1 DEF Mild
  <2>2. CASE op.alu # Unused
    <3>1. op.alu \in Alu \ {"random"} /\ ALU_OFFSET \in Nat
      BY <1>3, <2>2 DEF IsOperation, ALU_OFFSET
    <3>2. AluCode(op.alu) \in SUBSET Nat
      <4>1. AluCode(op.alu) \in SUBSET (0 .. 5)
        BY <3>1, AluCodesDiffer, Zenon
      <4> QED
        BY <4>1
    <3>3. coded = Put(c, AluCode(op.alu), ALU_OFFSET)
      BY <2>2
    <3> QED
      BY <3>1, <3>2, <3>3, PutIsMild, Zenon
  <2> QED
    BY <2>1, <2>2
<1> HIDE DEF coded
<1>5. coded \in States
  BY <1>4 DEF Mild
<1>6. Mild(coded, fed)
  <2>1. CASE op.b = Unused
    BY <1>5, <2>1 DEF Mild
  <2>2. CASE op.b # Unused
    <3>1. fed = Put(coded, BitsOf(BCode(op.b)), B_BUS_OFFSET)
      BY <2>2
    <3>2. BitsOf(BCode(op.b)) \in SUBSET Nat /\ B_BUS_OFFSET \in Nat
      BY DEF BitsOf, B_BUS_OFFSET
    <3> QED
      BY <1>5, <3>1, <3>2, PutIsMild, Zenon
  <2> QED
    BY <2>1, <2>2
<1> HIDE DEF fed
<1>7. fed \in States /\ Mild(c, fed)
  <2>1. Mild(c, fed)
    BY <1>4, <1>6, MildTwice, Zenon
  <2> QED
    BY <2>1 DEF Mild
<1>8. ASSUME ~IsRefused(op) PROVE Mild(c, d)
  <2>1. kinds = {}
    BY <1>8 DEF IsRefused, If
  <2> HIDE DEF kinds
  <2>2. d = Add(fed, {}) /\ {} \in SUBSET LineProblems
    BY <1>2, <2>1
  <2>3. d \in States /\ d.problems = fed.problems \union {}
    BY <1>7, <2>2, AddType, Zenon
  <2> QED
    BY <1>7, <2>3 DEF Mild
<1> QED
  BY <1>1, <1>8 DEF d, op

\* So is an assignment.
LEMMA AssignBlames ==
  ASSUME NEW c \in States, NEW insn, insn.kind = "assign", insn.targets \in Seq(Targets),
         insn.alu \in AluExprs, insn.shift \in Shifts
  PROVE  Blames(insn, c, CheckAssign(c, insn))
<1> DEFINE t == FoldLeft(CheckAssignTarget, c, insn.targets)
           a == CheckAlu(t, insn.alu)
           d == CheckAssign(c, insn)
<1>1. Mild(c, t)
  BY TargetsAreMild, Zenon
<1>2. d = CASE insn.shift = "rshift1" -> Put(a, {0}, SRA1_BIT)
            [] insn.shift = "lshift8" -> Put(a, {0}, SLL8_BIT)
            [] insn.shift = "none" -> a
  BY Zenon DEF CheckAssign
<1> HIDE DEF d, t
<1>3. t \in States
  BY <1>1 DEF Mild
<1>4. a \in States /\ (Mild(t, a) \/ Refuses(insn))
  BY <1>3, AluBlames, Zenon DEF Refuses
<1> HIDE DEF a
<1>5. Mild(a, d)
  <2>1. {0} \in SUBSET Nat /\ SRA1_BIT \in Nat /\ SLL8_BIT \in Nat
    BY BitsInWord
  <2>2. Mild(a, Put(a, {0}, SRA1_BIT)) /\ Mild(a, Put(a, {0}, SLL8_BIT))
    BY <1>4, <2>1, PutIsMild, Zenon
  <2>3. Mild(a, a)
    BY <1>4 DEF Mild
  <2>4. d \in {Put(a, {0}, SRA1_BIT), Put(a, {0}, SLL8_BIT), a}
    BY <1>2 DEF Shifts
  <2> QED
    BY <2>2, <2>3, <2>4
<1>6. d \in States
  BY <1>5 DEF Mild
<1>7. Blames(insn, c, d)
  BY <1>1, <1>4, <1>5, <1>6, MildTwice, Zenon DEF Blames
<1> QED
  BY <1>7 DEF d

\* An instruction is blamed for an expression that is refused, and for nothing else.
LEMMA InsnBlames ==
  ASSUME NEW c \in States, NEW insn \in Insns, NEW alone \in BOOLEAN, NEW addressOf
  PROVE  Blames(insn, c, CheckInsn(c, insn, alone, addressOf))
<1> DEFINE d == CheckInsn(c, insn, alone, addressOf)
<1>0. /\ insn.kind \in {"rd", "wr", "fetch", "empty", "halt", "goto", "igoto", "if", "assign"}
      /\ insn.kind = "if" => insn.cond \in {"Z", "N"}
      /\ insn.kind = "assign" => /\ insn.targets \in Seq(Targets) /\ insn.alu \in AluExprs
                                 /\ insn.shift \in Shifts
  BY InsnParts, Zenon DEF Targets, Shifts
<1> DEFINE j == CheckJump(c)
<1>a. Mild(c, j)
  BY JumpIsMild, Zenon
<1>b. j \in States
  BY <1>a DEF Mild
<1>c. {0} \in SUBSET Nat /\ "undefined" \in LineProblems \ Refusals
      /\ "alone" \in LineProblems \ Refusals /\ "assignments" \in LineProblems \ Refusals
  BY DEF LineProblems, Refusals
<1>d. \A a : Mild(c, PutAddress(j, a)) /\ PutAddress(j, a) \in States
  <2> TAKE a
  <2> HIDE DEF j
  <2>1. Mild(j, PutAddress(j, a))
    BY <1>b, AddressIsMild, Zenon
  <2>2. PutAddress(j, a) \in States
    BY <2>1 DEF Mild
  <2> QED
    BY <1>a, <2>1, <2>2, MildTwice, Zenon
<1> HIDE DEF j
<1>1. CASE insn.kind \in {"rd", "wr", "fetch"}
  <2>1. PICK op \in {"read", "write", "fetch"}, other \in {"read", "write", "fetch"} :
          d = CheckMemory(c, op, other)
    <3>1. CASE insn.kind = "rd"
      <4>1. d = CheckMemory(c, "read", "write")
        BY <3>1, Zenon DEF CheckInsn
      <4> QED
        BY <4>1
    <3>2. CASE insn.kind = "wr"
      <4>1. d = CheckMemory(c, "write", "read")
        BY <3>2, Zenon DEF CheckInsn
      <4> QED
        BY <4>1
    <3>3. CASE insn.kind = "fetch"
      <4>1. d = CheckMemory(c, "fetch", "fetch")
        BY <3>3, Zenon DEF CheckInsn
      <4> QED
        BY <4>1
    <3> QED
      BY <1>1, <3>1, <3>2, <3>3
  <2> QED
    BY <2>1, MemoryIsMild, Zenon DEF Blames, Mild
<1>2. CASE insn.kind = "goto"
  <2>1. d = CheckGoto(c, addressOf[insn.label])
    BY <1>2, Zenon DEF CheckInsn
  <2>2. d \in {Add(j, {"undefined"}), PutAddress(j, addressOf[insn.label])}
    BY <2>1, Zenon DEF CheckGoto, j
  <2>3. Mild(j, Add(j, {"undefined"}))
    BY <1>b, <1>c, AddIsMild, Zenon
  <2>4. Mild(c, d)
    BY <1>a, <1>d, <2>2, <2>3, MildTwice
  <2> QED
    BY <2>4 DEF Blames, Mild
<1>3. CASE insn.kind = "igoto"
  <2> DEFINE a == PutAddress(j, insn.base)
  <2>1. d = Put(a, {0}, JamBit["MPC"])
    <3>1. d = CheckIgoto(c, insn.base)
      BY <1>3, Zenon DEF CheckInsn
    <3> QED
      BY <3>1, Zenon DEF CheckIgoto, j
  <2>2. Mild(c, a) /\ a \in States /\ JamBit["MPC"] \in Nat
    BY <1>d DEF JamBit
  <2> HIDE DEF a
  <2>3. Mild(a, Put(a, {0}, JamBit["MPC"]))
    BY <1>c, <2>2, PutIsMild, Zenon
  <2>4. Mild(c, d)
    BY <2>1, <2>2, <2>3, MildTwice, Zenon
  <2> QED
    BY <2>4 DEF Blames, Mild
<1>4. CASE insn.kind = "if"
  <2> DEFINE target == addressOf[insn.label2]
             a == IF target = Nowhere THEN j ELSE PutAddress(j, target)
  <2>1. d = Put(a, {0}, JamBit[insn.cond])
    <3>1. d = CheckIf(c, insn, addressOf)
      BY <1>4, Zenon DEF CheckInsn
    <3> QED
      BY <3>1, Zenon DEF CheckIf, j
  <2>2. Mild(c, a) /\ a \in States /\ JamBit[insn.cond] \in Nat
    <3>1. JamBit[insn.cond] \in Nat
      BY <1>0, <1>4 DEF JamBit
    <3> QED
      BY <1>a, <1>b, <1>d, <3>1
  <2> HIDE DEF a
  <2>3. Mild(a, Put(a, {0}, JamBit[insn.cond]))
    BY <1>c, <2>2, PutIsMild, Zenon
  <2>4. Mild(c, d)
    BY <2>1, <2>2, <2>3, MildTwice, Zenon
  <2> QED
    BY <2>4 DEF Blames, Mild
<1>5. CASE insn.kind = "assign"
  <2> DEFINE went == [c EXCEPT !.assign = TRUE]
             s == Add(went, If(c.assign, "assignments"))
  <2>1. d = CheckAssign(s, insn)
    BY <1>5, Zenon DEF CheckInsn
  <2>2. Mild(c, went) /\ went \in States
    BY DEF States, Mild
  <2> HIDE DEF went
  <2>3. Mild(went, s)
    BY <1>c, <2>2, AddIsMild, Zenon
  <2> HIDE DEF s
  <2>4. Mild(c, s) /\ s \in States
    BY <2>2, <2>3, MildTwice DEF Mild
  <2>5. Blames(insn, s, d)
    BY <1>0, <1>5, <2>1, <2>4, AssignBlames, Zenon
  <2> QED
    BY <2>4, <2>5, MildTwice, Zenon DEF Blames
<1>6. CASE insn.kind = "empty"
  <2>1. d = Add(c, If(~alone, "alone"))
    BY <1>6, Zenon DEF CheckInsn
  <2>2. Mild(c, d)
    BY <1>c, <2>1, AddIsMild, Zenon
  <2> QED
    BY <2>2 DEF Blames, Mild
<1>7. CASE insn.kind = "halt"
  <2> DEFINE went == [c EXCEPT !.goto = TRUE]
             a == Add(went, If(~alone, "alone"))
  <2>1. d = Put(a, BitsOf(HaltCode), B_BUS_OFFSET)
    BY <1>7, Zenon DEF CheckInsn
  <2>2. Mild(c, went) /\ went \in States
    BY DEF States, Mild
  <2> HIDE DEF went
  <2>3. Mild(went, a)
    BY <1>c, <2>2, AddIsMild, Zenon
  <2> HIDE DEF a
  <2>4. a \in States /\ BitsOf(HaltCode) \in SUBSET Nat /\ B_BUS_OFFSET \in Nat
    BY <2>3 DEF Mild, BitsOf, B_BUS_OFFSET
  <2>5. Mild(a, Put(a, BitsOf(HaltCode), B_BUS_OFFSET))
    BY <2>4, PutIsMild, Zenon
  <2>6. Mild(c, d)
    BY <2>1, <2>2, <2>3, <2>5, MildTwice, Zenon
  <2> QED
    BY <2>6 DEF Blames, Mild
<1> QED
  BY <1>0, <1>1, <1>2, <1>3, <1>4, <1>5, <1>6, <1>7

-----------------------------------------------------------------------------
(* The instructions of a line. *)

Start == [word |-> {}, goto |-> FALSE, assign |-> FALSE, problems |-> {}]
CheckedInsns(insns, alone, addressOf) ==
  LET step(insn, c) == CheckInsn(c, insn, alone, addressOf)
  IN  FoldRight(step, insns, Start)

\* The check starts without a word and without a warning.
LEMMA StartType == Start \in States
BY DEF Start, States

\* A line is its instructions, and the address of the next line.
LEMMA CheckedLineParts ==
  ASSUME NEW insns, NEW addressOf, NEW following
  PROVE  LET c == CheckedInsns(insns, Len(insns) = 1, addressOf)
         IN  CheckedLine(insns, addressOf, following)
               = IF insns = <<>> \/ c.goto THEN c
                 ELSE IF following = Nowhere THEN Add(c, {"last line"})
                 ELSE PutAddress(c, following)
BY Zenon DEF CheckedLine, CheckedInsns, Start

\* They are checked from the last one to the first one.
LEMMA InsnSteps ==
  ASSUME NEW insns \in Seq(Insns), NEW alone \in BOOLEAN, NEW addressOf
  PROVE  \E C : /\ C[Len(insns) + 1] = Start
                /\ \A k \in 1 .. Len(insns) : C[k] = CheckInsn(C[k + 1], insns[k], alone, addressOf)
                /\ CheckedInsns(insns, alone, addressOf) = C[1]
<1> DEFINE m == Len(insns)
           D == 1 .. m
           choice == [s \in SUBSET D |-> IF s = {} THEN 0 ELSE Min(s)]
           next(v, i) == CheckInsn(v, insns[i], alone, addressOf)
           step == [i \in D |-> [v \in States |-> next(v, i)]]
           Fold(g) == [s \in SUBSET D |-> IF s = {} THEN Start ELSE next(g[s \ {Min(s)}], Min(s))]
<1>1. m \in Nat /\ DOMAIN insns = D /\ \A i \in D : insns[i] \in Insns
  OBVIOUS
<1>2. step \in [D -> [States -> States]]
  <2>1. ASSUME NEW i \in D, NEW v \in States PROVE next(v, i) \in States
    <3> DEFINE d == CheckInsn(v, insns[i], alone, addressOf)
    <3>0. insns[i] \in Insns
      BY <1>1
    <3>1. Blames(insns[i], v, d)
      BY <3>0, InsnBlames, Zenon
    <3> HIDE DEF d
    <3>2. d \in States
      BY <3>1 DEF Blames
    <3> QED
      BY <3>2 DEF d
  <2> HIDE DEF next
  <2> QED
    BY <2>1
<1> HIDE DEF next
<1>3. \A s \in SUBSET D : s # {} => Min(s) \in s /\ choice[s] = Min(s)
  <2> SUFFICES ASSUME NEW s \in SUBSET D, s # {} PROVE Min(s) \in s /\ choice[s] = Min(s)
    OBVIOUS
  <2>1. s \in SUBSET Nat
    BY <1>1
  <2>2. Min(s) \in s
    BY <1>1, <2>1, MinIsIn
  <2> QED
    BY <2>2
<1>4. IsFiniteSet(D)
  <2>1. 1 \in Int /\ m \in Int
    BY <1>1
  <2> QED
    BY <2>1, FS_Interval, Zenon
<1> HIDE DEF m
<1>5. PICK f : IsFold(f, D, States, Start, step, choice)
  <2>1. \A s \in SUBSET D : s # {} => choice[s] \in s
    BY <1>3
  <2> HIDE DEF step, choice, D
  <2>2. Foldable(D, States, Start, step, choice)
    BY <1>2, <1>4, <2>1, StartType DEF Foldable
  <2> QED
    BY <2>2, FoldExists, Zenon
<1>6. f = Fold(f)
  <2>0. /\ f \in [SUBSET D -> States]
        /\ \A s \in SUBSET D : f[s] = IF s = {} THEN Start ELSE step[choice[s]][f[s \ {choice[s]}]]
    BY <1>5, Zenon DEF IsFold
  <2>1. ASSUME NEW s \in SUBSET D, s # {}
        PROVE  f[s] = next(f[s \ {Min(s)}], Min(s))
    <3>1. choice[s] = Min(s) /\ Min(s) \in D /\ s \ {Min(s)} \in SUBSET D
      BY <1>3, <2>1
    <3>2. f[s \ {Min(s)}] \in States
      BY <2>0, <3>1
    <3>3. step[Min(s)][f[s \ {Min(s)}]] = next(f[s \ {Min(s)}], Min(s))
      BY <3>1, <3>2
    <3> HIDE DEF step, choice
    <3>4. f[s] = step[choice[s]][f[s \ {choice[s]}]]
      BY <2>0, <2>1
    <3> QED
      BY <3>1, <3>3, <3>4, Zenon
  <2>2. f[{}] = Start
    BY <2>0
  <2> QED
    BY <2>0, <2>1, <2>2
<1> DEFINE iter == CHOOSE g : g = Fold(g)
<1>7. iter = Fold(iter)
  <2> HIDE DEF Fold
  <2> QED
    BY <1>6
<1>8. CheckedInsns(insns, alone, addressOf) = iter[D]
  BY <1>1, Zenon DEF CheckedInsns, FoldRight, MapThenFoldSet, next
<1>9. \A s \in SUBSET D : iter[s] = IF s = {} THEN Start ELSE next(iter[s \ {Min(s)}], Min(s))
  <2> HIDE DEF iter
  <2> QED
    BY <1>7
<1> HIDE DEF iter
<1> DEFINE C == [k \in 1 .. m + 1 |-> iter[k .. m]]
<1>10. C[m + 1] = Start /\ C[1] = iter[D]
  <2>1. m + 1 .. m = {} /\ m + 1 \in 1 .. m + 1 /\ 1 \in 1 .. m + 1
    BY <1>1
  <2> QED
    BY <1>9, <2>1
<1>11. ASSUME NEW k \in 1 .. m PROVE C[k] = next(C[k + 1], k)
  <2>1. /\ k .. m \in SUBSET D /\ k .. m # {}
        /\ Min(k .. m) = k /\ (k .. m) \ {k} = k + 1 .. m
    BY <1>1, DownFrom, Zenon
  <2>2. k \in 1 .. m + 1 /\ k + 1 \in 1 .. m + 1
    BY <1>1
  <2>3. iter[k .. m] = next(iter[k + 1 .. m], k)
    BY <1>9, <2>1, Zenon
  <2> QED
    BY <2>2, <2>3
<1> HIDE DEF C
<1> QED
  BY <1>8, <1>10, <1>11 DEF m, next

\* The check of a line ends with a word and known warnings, and warns about an
\* expression only when it refuses one.
LEMMA LineIsMild ==
  ASSUME NEW insns \in Seq(Insns), NEW addressOf, NEW following
  PROVE  LET d == CheckedLine(insns, addressOf, following)
         IN  /\ d \in States
             /\ (\A i \in DOMAIN insns : ~Refuses(insns[i])) => d.problems \intersect Refusals = {}
<1> DEFINE m == Len(insns)
           alone == m = 1
           c == CheckedInsns(insns, alone, addressOf)
           d == CheckedLine(insns, addressOf, following)
           Refusing == \E i \in DOMAIN insns : Refuses(insns[i])
           Fine(e) == e \in States /\ (Mild(Start, e) \/ Refusing)
<1>1. m \in Nat /\ \A i \in 1 .. m : insns[i] \in Insns /\ (Refuses(insns[i]) => Refusing)
  OBVIOUS
<1>2. d = IF insns = <<>> \/ c.goto THEN c
          ELSE IF following = Nowhere THEN Add(c, {"last line"})
          ELSE PutAddress(c, following)
  BY CheckedLineParts, Zenon
<1>3. alone \in BOOLEAN
  OBVIOUS
<1> HIDE DEF d, alone, Refusing
<1>4. PICK C : /\ C[m + 1] = Start
               /\ \A k \in 1 .. m : C[k] = CheckInsn(C[k + 1], insns[k], alone, addressOf)
               /\ c = C[1]
  <2> HIDE DEF m
  <2>1. m = Len(insns)
    BY DEF m
  <2> QED
    BY <1>3, <2>1, InsnSteps
<1> HIDE DEF c, m
<1>5. ASSUME NEW e \in States, NEW f, Fine(e), Mild(e, f) PROVE Fine(f)
  BY <1>5, MildTwice DEF Mild
<1>6. ASSUME NEW k \in 1 .. m, Fine(C[k + 1]) PROVE Fine(C[k])
  <2>1. C[k + 1] \in States
    BY <1>6
  <2>2. insns[k] \in Insns /\ (Refuses(insns[k]) => Refusing)
    BY <1>1
  <2>3. C[k] = CheckInsn(C[k + 1], insns[k], alone, addressOf)
    BY <1>4
  <2>4. Blames(insns[k], C[k + 1], C[k])
    BY <1>3, <2>1, <2>2, <2>3, InsnBlames, Zenon
  <2> QED
    BY <1>5, <1>6, <2>1, <2>2, <2>4, Zenon DEF Blames
<1>7. Fine(c)
  <2> DEFINE G == {k \in Nat : k =< m => Fine(C[m + 1 - k])}
  <2>1. 0 \in G
    <3>1. Fine(Start)
      BY StartType DEF Mild
    <3>2. m + 1 - 0 = m + 1
      BY <1>1
    <3> HIDE DEF Fine
    <3> QED
      BY <1>4, <3>1, <3>2
  <2> HIDE DEF Fine
  <2>2. ASSUME NEW k \in Nat, k \in G PROVE k + 1 \in G
    <3> SUFFICES ASSUME k + 1 =< m PROVE Fine(C[m + 1 - (k + 1)])
      OBVIOUS
    <3>1. /\ Fine(C[m + 1 - k]) /\ m - k \in 1 .. m
          /\ m + 1 - k = (m - k) + 1 /\ m + 1 - (k + 1) = m - k
      BY <1>1, <2>2
    <3> QED
      BY <1>6, <3>1
  <2>3. G = Nat
    <3>1. G \in SUBSET Nat
      OBVIOUS
    <3> HIDE DEF G
    <3> QED
      BY <2>1, <2>2, <3>1, Upwards
  <2>4. m + 1 - m = 1 /\ m =< m
    BY <1>1
  <2>5. m \in G
    BY <1>1, <2>3
  <2> QED
    BY <1>4, <2>4, <2>5
<1>8. Fine(d)
  <2>1. Mild(c, Add(c, {"last line"}))
    <3>1. "last line" \in LineProblems \ Refusals
      BY DEF LineProblems, Refusals
    <3> QED
      BY <1>7, <3>1, AddIsMild, Zenon
  <2>2. Mild(c, PutAddress(c, following))
    BY <1>7, AddressIsMild, Zenon
  <2> HIDE DEF Fine
  <2>3. c \in States
    BY <1>7 DEF Fine
  <2> QED
    BY <1>2, <1>5, <1>7, <2>1, <2>2, <2>3, Zenon
<1>9. Mild(Start, d) => d.problems \intersect Refusals = {}
  BY DEF Mild, Start
<1>10. /\ d \in States
       /\ (\A i \in DOMAIN insns : ~Refuses(insns[i])) => d.problems \intersect Refusals = {}
  BY <1>8, <1>9, Zenon DEF Refusing
<1> QED
  BY <1>10, Zenon DEF d

\* The instructions from j on without a warning: their bits are in the word, and
\* of those that say where the line goes, and of the assignments, there is one.
Bits(insns, addressOf, j) == UNION {InsnBits(insns[i], addressOf) : i \in j .. Len(insns)}
AtMostOne(insns, kinds, j) ==
  \A i, k \in j .. Len(insns) : insns[i].kind \in kinds /\ insns[k].kind \in kinds => i = k
Some(insns, kinds, j) == \E i \in j .. Len(insns) : insns[i].kind \in kinds
AllFine(insns, alone, addressOf, j) ==
  \A i \in j .. Len(insns) : FineInsn(insns[i], alone, addressOf)

Rests(insns, alone, addressOf, c, j) ==
  /\ c \in States
  /\ c.problems = {} =>
       /\ c.word = Bits(insns, addressOf, j)
       /\ c.goto = Some(insns, Jumps \union {"halt"}, j)
       /\ c.assign = Some(insns, {"assign"}, j)
       /\ AtMostOne(insns, Jumps, j) /\ AtMostOne(insns, {"assign"}, j)
       /\ AllFine(insns, alone, addressOf, j)

\* One more instruction.
LEMMA InsnRests ==
  ASSUME NEW insns \in Seq(Insns), \A i \in DOMAIN insns : InStore(insns[i]),
         NEW alone \in BOOLEAN, NEW addressOf \in AddressMaps,
         NEW j \in 1 .. Len(insns), NEW c, Rests(insns, alone, addressOf, c, j + 1)
  PROVE  Rests(insns, alone, addressOf, CheckInsn(c, insns[j], alone, addressOf), j)
<1> DEFINE d == CheckInsn(c, insns[j], alone, addressOf)
           m == Len(insns)
           bits == InsnBits(insns[j], addressOf)
<1>1. insns[j] \in Insns /\ InStore(insns[j]) /\ c \in States /\ m \in Nat
  BY DEF Rests
<1>2. /\ Advances(c, d, bits, insns[j].kind \in Jumps \union {"halt"}, insns[j].kind = "assign")
      /\ d.problems = {} => /\ FineInsn(insns[j], alone, addressOf)
                            /\ insns[j].kind \in Jumps => ~c.goto
                            /\ insns[j].kind = "assign" => ~c.assign
  BY <1>1, InsnAdvances, Zenon
<1>3. j .. m = {j} \union (j + 1 .. m) /\ j \notin j + 1 .. m
  BY <1>1
<1> HIDE DEF d, m, bits
<1>4. d \in States /\ (d.problems = {} => c.problems = {})
  BY <1>2 DEF Advances
<1> SUFFICES ASSUME d.problems = {}
             PROVE  /\ d.word = Bits(insns, addressOf, j)
                    /\ d.goto = Some(insns, Jumps \union {"halt"}, j)
                    /\ d.assign = Some(insns, {"assign"}, j)
                    /\ AtMostOne(insns, Jumps, j) /\ AtMostOne(insns, {"assign"}, j)
                    /\ AllFine(insns, alone, addressOf, j)
  BY <1>4 DEF Rests, d
<1>5. /\ c.word = Bits(insns, addressOf, j + 1)
      /\ c.goto = Some(insns, Jumps \union {"halt"}, j + 1)
      /\ c.assign = Some(insns, {"assign"}, j + 1)
      /\ AtMostOne(insns, Jumps, j + 1) /\ AtMostOne(insns, {"assign"}, j + 1)
      /\ AllFine(insns, alone, addressOf, j + 1)
  BY <1>4 DEF Rests
<1>6. /\ d.goto = (c.goto \/ insns[j].kind \in Jumps \union {"halt"})
      /\ d.assign = (c.assign \/ insns[j].kind = "assign")
      /\ d.word = c.word \union bits
  BY <1>2 DEF Advances
<1>7. d.word = Bits(insns, addressOf, j)
  <2>1. Bits(insns, addressOf, j) = Bits(insns, addressOf, j + 1) \union bits
    BY <1>3 DEF Bits, m, bits
  <2> QED
    BY <1>5, <1>6, <2>1
<1>8. ASSUME NEW kinds
      PROVE  Some(insns, kinds, j) = (Some(insns, kinds, j + 1) \/ insns[j].kind \in kinds)
  BY <1>3 DEF Some, m
<1>9. d.goto = Some(insns, Jumps \union {"halt"}, j)
  BY <1>5, <1>6, <1>8, Zenon
<1>10. d.assign = Some(insns, {"assign"}, j)
  <2>1. insns[j].kind \in {"assign"} <=> insns[j].kind = "assign"
    OBVIOUS
  <2> QED
    BY <1>5, <1>6, <1>8, <2>1
<1>11. AtMostOne(insns, Jumps, j)
  <2> SUFFICES ASSUME NEW i \in j .. m, NEW k \in j .. m,
                      insns[i].kind \in Jumps, insns[k].kind \in Jumps
               PROVE  i = k
    BY DEF AtMostOne, m
  <2>1. CASE insns[j].kind \in Jumps
    <3>1. ~Some(insns, Jumps \union {"halt"}, j + 1)
      BY <1>2, <1>5, <2>1, Zenon
    <3>2. i \notin j + 1 .. m /\ k \notin j + 1 .. m
      BY <3>1 DEF Some, m
    <3> QED
      BY <1>3, <3>2
  <2>2. CASE insns[j].kind \notin Jumps
    <3>1. i \in j + 1 .. m /\ k \in j + 1 .. m
      BY <1>3, <2>2
    <3> QED
      BY <1>5, <3>1 DEF AtMostOne, m
  <2> QED
    BY <2>1, <2>2
<1>12. AtMostOne(insns, {"assign"}, j)
  <2> SUFFICES ASSUME NEW i \in j .. m, NEW k \in j .. m,
                      insns[i].kind = "assign", insns[k].kind = "assign"
               PROVE  i = k
    BY DEF AtMostOne, m
  <2>1. CASE insns[j].kind = "assign"
    <3>1. ~Some(insns, {"assign"}, j + 1)
      BY <1>2, <1>5, <2>1, Zenon
    <3>2. i \notin j + 1 .. m /\ k \notin j + 1 .. m
      BY <3>1 DEF Some, m
    <3> QED
      BY <1>3, <3>2
  <2>2. CASE insns[j].kind # "assign"
    <3>1. i \in j + 1 .. m /\ k \in j + 1 .. m
      BY <1>3, <2>2
    <3> QED
      BY <1>5, <3>1 DEF AtMostOne, m
  <2> QED
    BY <2>1, <2>2
<1>13. AllFine(insns, alone, addressOf, j)
  BY <1>2, <1>3, <1>5 DEF AllFine, m
<1> QED
  BY <1>7, <1>9, <1>10, <1>11, <1>12, <1>13

\* All of them.
LEMMA LineRests ==
  ASSUME NEW insns \in Seq(Insns), \A i \in DOMAIN insns : InStore(insns[i]),
         NEW alone \in BOOLEAN, NEW addressOf \in AddressMaps
  PROVE  Rests(insns, alone, addressOf, CheckedInsns(insns, alone, addressOf), 1)
<1> DEFINE m == Len(insns)
<1>1. PICK C : /\ C[m + 1] = Start
               /\ \A k \in 1 .. m : C[k] = CheckInsn(C[k + 1], insns[k], alone, addressOf)
               /\ CheckedInsns(insns, alone, addressOf) = C[1]
  <2> HIDE DEF m
  <2>1. m = Len(insns)
    BY DEF m
  <2> QED
    BY <2>1, InsnSteps
<1>2. m \in Nat
  OBVIOUS
<1> DEFINE Good(j) == Rests(insns, alone, addressOf, C[j], j)
           G == {j \in 1 .. m + 1 : Good(j)}
<1>3. Good(m + 1)
  <2>1. m + 1 .. m = {}
    BY <1>2
  <2> QED
    BY <1>1, <2>1, StartType DEF Rests, Start, Bits, Some, AtMostOne, AllFine
<1>4. ASSUME NEW j \in 1 .. m, Good(j + 1) PROVE Good(j)
  BY <1>1, <1>4, InsnRests, Zenon
<1> HIDE DEF Good, m
<1>5. G = 1 .. m + 1
  <2>1. G \in SUBSET (1 .. m + 1) /\ m + 1 \in G
    BY <1>2, <1>3
  <2>2. \A j \in 1 .. m : j + 1 \in G => j \in G
    BY <1>2, <1>4
  <2> HIDE DEF G
  <2> QED
    BY <1>2, <2>1, <2>2, Downwards, Zenon
<1>6. Good(1)
  <2>1. 1 \in 1 .. m + 1
    BY <1>2
  <2> QED
    BY <1>5, <2>1
<1> QED
  BY <1>1, <1>6, Zenon DEF Good

\* A line without a warning: its word has the bits of its instructions and, when
\* none of them says where to go, the address of the next line.
LineWord(insns, addressOf, following, word) ==
  /\ AtMostOne(insns, Jumps, 1) /\ AtMostOne(insns, {"assign"}, 1)
  /\ AllFine(insns, Len(insns) = 1, addressOf, 1)
  /\ IF Some(insns, Jumps \union {"halt"}, 1) THEN word = Bits(insns, addressOf, 1)
     ELSE /\ following # Nowhere
          /\ word = Bits(insns, addressOf, 1) \union AddressBits(following)

\* The word of a line without a warning.
LEMMA CheckedLineWord ==
  ASSUME NEW insns \in Seq(Insns), insns # <<>>, \A i \in DOMAIN insns : InStore(insns[i]),
         NEW addressOf \in AddressMaps, NEW following \in MicroAddresses \union {Nowhere},
         CheckedLine(insns, addressOf, following).problems = {}
  PROVE  LineWord(insns, addressOf, following, CheckedLine(insns, addressOf, following).word)
<1> DEFINE alone == Len(insns) = 1
           c == CheckedInsns(insns, alone, addressOf)
           d == CheckedLine(insns, addressOf, following)
<1>1. Rests(insns, alone, addressOf, c, 1)
  <2>1. alone \in BOOLEAN
    OBVIOUS
  <2> QED
    BY <2>1, LineRests, Zenon
<1>2. d = IF insns = <<>> \/ c.goto THEN c
           ELSE IF following = Nowhere THEN Add(c, {"last line"})
           ELSE PutAddress(c, following)
  BY CheckedLineParts, Zenon
<1> HIDE DEF c, d, alone
<1>3. c \in States /\ d.problems = {}
  BY <1>1 DEF Rests, d
<1>4. CASE c.goto
  <2>1. d = c
    BY <1>2, <1>4
  <2>2. Some(insns, Jumps \union {"halt"}, 1)
    BY <1>1, <1>3, <1>4, <2>1 DEF Rests
  <2>3. LineWord(insns, addressOf, following, d.word)
    BY <1>1, <1>3, <2>1, <2>2 DEF Rests, LineWord, alone
  <2> QED
    BY <2>3 DEF d
<1>5. CASE ~c.goto /\ following = Nowhere
  <2>1. d = Add(c, {"last line"})
    BY <1>2, <1>5
  <2>2. {"last line"} \in SUBSET LineProblems
    BY DEF LineProblems
  <2>3. d.problems = c.problems \union {"last line"}
    BY <1>3, <2>1, <2>2, AddType, Zenon
  <2> QED
    BY <1>3, <2>3
<1>6. CASE ~c.goto /\ following # Nowhere
  <2>1. d = PutAddress(c, following)
    BY <1>2, <1>6
  <2>2. following \in MicroAddresses
    BY <1>6
  <2>3. Puts(c, d, AddressBits(following))
    BY <1>3, <2>1, <2>2, AddressPut, Zenon
  <2>4. c.problems = {} /\ d.word = c.word \union AddressBits(following)
    BY <1>3, <2>3 DEF Puts
  <2>5. ~Some(insns, Jumps \union {"halt"}, 1)
    BY <1>1, <1>6, <2>4 DEF Rests
  <2>6. LineWord(insns, addressOf, following, d.word)
    BY <1>1, <1>6, <2>4, <2>5 DEF Rests, LineWord, alone
  <2> QED
    BY <2>6 DEF d
<1> QED
  BY <1>4, <1>5, <1>6

-----------------------------------------------------------------------------
(* The fields of a word. *)

\* A field is the bits of the word at its place.
LEMMA DecodedFields ==
  ASSUME NEW word \in SUBSET Nat
  PROVE  LET w == Decoded(word)
         IN  /\ w.b = BusOf(NumberOf({b \in 0 .. 3 : b \in word}))
             /\ w.alu = AluOf({b \in 0 .. 5 : b + 16 \in word})
             /\ w.sra1 = (SRA1_BIT \in word) /\ w.sll8 = (SLL8_BIT \in word)
             /\ w.c = {r \in Registers : CBit(r) \in word}
             /\ w.mem = {m \in DOMAIN MemoryBit : MemoryBit[m] \in word}
             /\ w.jam = {j \in DOMAIN JamBit : JamBit[j] \in word}
             /\ w.next = NumberOf({b \in 0 .. 8 : b + 27 \in word})
<1>1. \A p \in 0 .. 39 : GetBit(word, p) = (p \in word)
  <2> TAKE p \in 0 .. 39
  <2>1. GetBits(word, p, 1) = Field(word, p, 1)
    BY FieldsAreFields, GetBitsIsField
  <2>2. Field(word, p, 1) # {} <=> p \in word
    BY DEF Field
  <2> QED
    BY <2>1, <2>2 DEF GetBit
<1>2. /\ GetBits(word, B_BUS_OFFSET, B_BUS_SIZE) = {b \in 0 .. 3 : b \in word}
      /\ GetBits(word, ALU_OFFSET, ALU_SIZE) = {b \in 0 .. 5 : b + 16 \in word}
      /\ GetBits(word, ADDRESS_OFFSET, ADDRESS_SIZE) = {b \in 0 .. 8 : b + 27 \in word}
  <2>1. /\ GetBits(word, B_BUS_OFFSET, B_BUS_SIZE) = Field(word, B_BUS_OFFSET, B_BUS_SIZE)
        /\ GetBits(word, ALU_OFFSET, ALU_SIZE) = Field(word, ALU_OFFSET, ALU_SIZE)
        /\ GetBits(word, ADDRESS_OFFSET, ADDRESS_SIZE) = Field(word, ADDRESS_OFFSET, ADDRESS_SIZE)
    BY FieldsAreFields, GetBitsIsField
  <2>2. /\ Field(word, B_BUS_OFFSET, B_BUS_SIZE) = {b \in 0 .. 3 : b \in word}
        /\ Field(word, ALU_OFFSET, ALU_SIZE) = {b \in 0 .. 5 : b + 16 \in word}
        /\ Field(word, ADDRESS_OFFSET, ADDRESS_SIZE) = {b \in 0 .. 8 : b + 27 \in word}
    BY DEF Field, B_BUS_OFFSET, B_BUS_SIZE, ALU_OFFSET, ALU_SIZE, ADDRESS_OFFSET, ADDRESS_SIZE
  <2> QED
    BY <2>1, <2>2, Zenon
<1>3. /\ GetBit(word, SRA1_BIT) = (SRA1_BIT \in word)
      /\ GetBit(word, SLL8_BIT) = (SLL8_BIT \in word)
  BY <1>1, BitsInWord
<1>4. /\ {r \in Registers : GetBit(word, CBit(r))} = {r \in Registers : CBit(r) \in word}
      /\ {m \in DOMAIN MemoryBit : GetBit(word, MemoryBit[m])}
           = {m \in DOMAIN MemoryBit : MemoryBit[m] \in word}
      /\ {j \in DOMAIN JamBit : GetBit(word, JamBit[j])}
           = {j \in DOMAIN JamBit : JamBit[j] \in word}
  BY <1>1, BitsInWord
<1> QED
  BY <1>2, <1>3, <1>4, Zenon DEF Decoded

\* No two fields meet, and no two registers on the C bus share a bit.
LEMMA CBits ==
  /\ \A r \in Registers : CBit(r) \in 7 .. 15
  /\ \A r, s \in Registers : CBit(r) = CBit(s) => r = s
<1>1. DOMAIN COnBus = 1 .. 9
  BY DEF COnBus
<1>2. ASSUME NEW r \in Registers
      PROVE  CBit(r) \in 7 .. 15 /\ COnBus[CBit(r) - 6] = r
  <2>1. \E i \in 1 .. 9 : COnBus[i] = r
    BY DEF Registers, COnBus
  <2> DEFINE i == CHOOSE i \in DOMAIN COnBus : COnBus[i] = r
  <2>2. i \in 1 .. 9 /\ COnBus[i] = r
    BY <1>1, <2>1
  <2>3. CBit(r) = 6 + i
    BY SMT DEF CBit, C_BUS_OFFSET
  <2> HIDE DEF i
  <2>4. CBit(r) - 6 = i /\ CBit(r) \in 7 .. 15
    BY <2>2, <2>3
  <2> QED
    BY <2>2, <2>4
<1>3. ASSUME NEW r \in Registers, NEW s \in Registers, CBit(r) = CBit(s) PROVE r = s
  <2>1. COnBus[CBit(r) - 6] = r /\ COnBus[CBit(s) - 6] = s
    BY <1>2
  <2> QED
    BY <1>3, <2>1, Zenon
<1> QED
  BY <1>2, <1>3

\* The numbers of the bits.
LEMMA Places ==
  /\ HaltBits = 0 .. 3
  /\ MemoryBit["fetch"] = 4 /\ MemoryBit["read"] = 5 /\ MemoryBit["write"] = 6
  /\ DOMAIN MemoryBit = {"fetch", "read", "write"}
  /\ SRA1_BIT = 22 /\ SLL8_BIT = 23
  /\ JamBit["Z"] = 24 /\ JamBit["N"] = 25 /\ JamBit["MPC"] = 26
  /\ DOMAIN JamBit = {"Z", "N", "MPC"}
<1>1. BitsOf(15) = 0 .. 3
  <2>1. BitsOf(15) \in SUBSET (0 .. 3)
    BY NumberOfBits
  <2>2. \A i \in 0 .. 3 : Bit(15, i) = 1
    <3>1. Bit(15, 0) = 1 /\ Bit(15, 1) = 1 /\ Bit(15, 2) = 1 /\ Bit(15, 3) = 1
      BY SMT DEF Bit
    <3> QED
      BY <3>1
  <2>3. 0 .. 3 \in SUBSET BitsOf(15)
    BY <2>2 DEF BitsOf
  <2> QED
    BY <2>1, <2>3
<1>2. HaltBits = 0 .. 3
  BY <1>1 DEF HaltBits, HaltCode, B_BUS_OFFSET
<1> QED
  BY <1>2 DEF MemoryBit, SRA1_BIT, SLL8_BIT, JamBit

\* The address has a field of its own, which gives it back.
LEMMA AddressPlaces ==
  ASSUME NEW a \in MicroAddresses
  PROVE  /\ AddressBits(a) \in SUBSET (27 .. 35)
         /\ NumberOf({b \in 0 .. 8 : b + 27 \in AddressBits(a)}) = a
<1>1. a \in 0 .. 511
  BY DEF MicroAddresses
<1>2. BitsOf(a) \in SUBSET (0 .. 8) /\ NumberOf(BitsOf(a)) = a
  BY <1>1, NumberOfBits
<1>3. AddressBits(a) = {b + 27 : b \in BitsOf(a)}
  BY DEF AddressBits, ADDRESS_OFFSET
<1>4. {b \in 0 .. 8 : b + 27 \in AddressBits(a)} = BitsOf(a)
  BY <1>2, <1>3
<1> QED
  BY <1>2, <1>3, <1>4

\* So has the function of the ALU,
LEMMA AluPlaces ==
  ASSUME NEW op, IsOperation(op)
  PROVE  /\ AluBits(op) \in SUBSET (16 .. 21)
         /\ op.alu # Unused => AluOf({b \in 0 .. 5 : b + 16 \in AluBits(op)}) = op.alu
<1>1. CASE op.alu = Unused
  BY <1>1 DEF AluBits
<1>2. CASE op.alu # Unused
  <2>1. op.alu \in Alu \ {"random"}
    BY <1>2 DEF IsOperation
  <2>2. AluCode(op.alu) \in SUBSET (0 .. 5) /\ AluOf(AluCode(op.alu)) = op.alu
    BY <2>1, AluCodesDiffer
  <2>3. AluBits(op) = {b + 16 : b \in AluCode(op.alu)}
    BY <1>2 DEF AluBits, ALU_OFFSET
  <2>4. {b \in 0 .. 5 : b + 16 \in AluBits(op)} = AluCode(op.alu)
    BY <2>2, <2>3
  <2> QED
    BY <2>2, <2>3, <2>4
<1> QED
  BY <1>1, <1>2

\* and the register on the B bus: MDR when there is none.
LEMMA BusPlaces ==
  ASSUME NEW op, IsOperation(op), op.b # "MAR"
  PROVE  /\ BusBits(op) \in SUBSET (0 .. 3)
         /\ BusOf(NumberOf({b \in 0 .. 3 : b \in BusBits(op)})) = IF op.b = Unused THEN "MDR" ELSE op.b
<1>1. CASE op.b = Unused
  <2>1. BusBits(op) = {}
    BY <1>1 DEF BusBits
  <2>2. NumberOf({}) = 0
    <3>1. 0 \in 0 .. 511 /\ 0 < 16
      OBVIOUS
    <3>2. BitsOf(0) = {}
      <4>1. BitsOf(0) \in SUBSET (0 .. 3)
        BY <3>1, NumberOfBits
      <4>2. Bit(0, 0) = 0 /\ Bit(0, 1) = 0 /\ Bit(0, 2) = 0 /\ Bit(0, 3) = 0
        BY SMT DEF Bit
      <4>3. \A i \in 0 .. 3 : i \notin BitsOf(0)
        BY <4>2 DEF BitsOf
      <4> QED
        BY <4>1, <4>3
    <3>3. NumberOf(BitsOf(0)) = 0
      BY <3>1, NumberOfBits
    <3> QED
      BY <3>2, <3>3, Zenon
  <2>3. BusOf(0) = "MDR"
    <3>1. Len(BOnBus) = 9 /\ BOnBus[0 + 1] = "MDR"
      BY DEF BOnBus
    <3>2. 0 < Len(BOnBus) /\ 0 # HaltCode
      BY <3>1 DEF HaltCode
    <3> QED
      BY <3>1, <3>2 DEF BusOf
  <2>4. {b \in 0 .. 3 : b \in BusBits(op)} = {}
    BY <2>1
  <2> QED
    BY <1>1, <2>1, <2>2, <2>3, <2>4
<1>2. CASE op.b # Unused
  <2>1. op.b \in Readable \ {"H", "MAR"}
    BY <1>2 DEF IsOperation
  <2>2. BCode(op.b) \in 0 .. 8 /\ BusOf(BCode(op.b)) = op.b
    BY <2>1, BusCodes
  <2> DEFINE code == BCode(op.b)
  <2>3. code \in 0 .. 511 /\ code < 16
    BY <2>2
  <2> HIDE DEF code
  <2>4. BitsOf(code) \in SUBSET (0 .. 3) /\ NumberOf(BitsOf(code)) = code
    BY <2>3, NumberOfBits
  <2>5. BusBits(op) = BitsOf(code)
    BY <1>2, <2>4 DEF BusBits, B_BUS_OFFSET, code
  <2>6. {b \in 0 .. 3 : b \in BusBits(op)} = BitsOf(code)
    BY <2>4, <2>5
  <2> QED
    BY <1>2, <2>2, <2>4, <2>5, <2>6 DEF code
<1> QED
  BY <1>1, <1>2

\* Where the bits of an instruction are: every field of the word has those of
\* the instructions that it is for.
TargetAddress(insn, addressOf) ==
  CASE insn.kind = "goto" -> addressOf[insn.label]
    [] insn.kind = "igoto" -> insn.base
    [] insn.kind = "if" -> addressOf[insn.label2]
    [] OTHER -> Nowhere
OperatesOn(insn, bit) == insn.kind = "assign" /\ bit \in AluBits(Operation(insn.alu))
Selects(insn, bit) == insn.kind = "assign" /\ bit \in BusBits(Operation(insn.alu))
Loads(insn, reg) == insn.kind = "assign" /\ reg \in ToSet(insn.targets)
ShiftsBy(insn, shift) == insn.kind = "assign" /\ insn.shift = shift
Conditions(insn, j) ==
  \/ insn.kind = "igoto" /\ j = "MPC"
  \/ insn.kind = "if" /\ j = insn.cond
GoesTo(insn, addressOf, bit) ==
  /\ TargetAddress(insn, addressOf) # Nowhere
  /\ bit \in AddressBits(TargetAddress(insn, addressOf))

HasPlaces(insn, addressOf, bits) ==
  /\ bits \in SUBSET Nat
  /\ \A p \in 0 .. 3 : p \in bits <=> insn.kind = "halt" \/ Selects(insn, p)
  /\ \A m \in DOMAIN MemoryBit : MemoryBit[m] \in bits <=> insn.kind = Spelling[m]
  /\ \A r \in Registers : CBit(r) \in bits <=> Loads(insn, r)
  /\ \A p \in 16 .. 21 : p \in bits <=> OperatesOn(insn, p)
  /\ SRA1_BIT \in bits <=> ShiftsBy(insn, "rshift1")
  /\ SLL8_BIT \in bits <=> ShiftsBy(insn, "lshift8")
  /\ \A j \in DOMAIN JamBit : JamBit[j] \in bits <=> Conditions(insn, j)
  /\ \A p \in 27 .. 35 : p \in bits <=> GoesTo(insn, addressOf, p)

\* The bits of a target.
LEMMA GotoPlaces ==
  ASSUME NEW target \in MicroAddresses \union {Nowhere}
  PROVE  /\ GotoBits(target) \in SUBSET (27 .. 35)
         /\ \A p : p \in GotoBits(target) <=> target # Nowhere /\ p \in AddressBits(target)
<1>1. CASE target = Nowhere
  BY <1>1 DEF GotoBits
<1>2. CASE target # Nowhere
  <2>1. target \in MicroAddresses
    BY <1>2
  <2>2. AddressBits(target) \in SUBSET (27 .. 35)
    BY <2>1, AddressPlaces
  <2> QED
    BY <1>2, <2>2 DEF GotoBits
<1> QED
  BY <1>1, <1>2

\* An assignment has its bits in the fields that are for it.
LEMMA AssignPlaces ==
  ASSUME NEW insn \in Insns, insn.kind = "assign", FineAssign(insn), NEW addressOf
  PROVE  HasPlaces(insn, addressOf, AssignBits(insn))
<1> DEFINE op == Operation(insn.alu)
           tbits == TargetBits(insn.targets)
           abits == AluBits(op)
           bbits == BusBits(op)
           sbits == ShiftBits(insn.shift)
           bits == AssignBits(insn)
<1>1. /\ insn.targets \in Seq(Targets) /\ insn.alu \in AluExprs
      /\ insn.shift \in {"none", "rshift1", "lshift8"}
  BY InsnParts, Zenon DEF Targets
<1>2. bits = (tbits \union (abits \union bbits)) \union sbits
  BY Zenon DEF AssignBits
<1>3. IsOperation(op) /\ op.b # "MAR"
  BY <1>1, OperationType, Zenon DEF FineAssign
<1>4. tbits \in SUBSET (7 .. 15) /\ \A r \in Registers : CBit(r) \in tbits <=> r \in ToSet(insn.targets)
  BY CBits DEF TargetBits
<1> HIDE DEF op, bits
<1>5. abits \in SUBSET (16 .. 21) /\ bbits \in SUBSET (0 .. 3)
  BY <1>3, AluPlaces, BusPlaces
<1>6. /\ sbits \in SUBSET {22, 23}
      /\ 22 \in sbits <=> insn.shift = "rshift1"
      /\ 23 \in sbits <=> insn.shift = "lshift8"
  BY <1>1, Places DEF ShiftBits
<1>7. /\ \A p : Selects(insn, p) <=> p \in bbits
      /\ \A p : OperatesOn(insn, p) <=> p \in abits
      /\ \A r : Loads(insn, r) <=> r \in ToSet(insn.targets)
      /\ \A shift : ShiftsBy(insn, shift) <=> insn.shift = shift
      /\ \A j : ~Conditions(insn, j)
      /\ \A p : ~GoesTo(insn, addressOf, p)
  BY DEF Selects, OperatesOn, Loads, ShiftsBy, Conditions, GoesTo, TargetAddress, op
<1> HIDE DEF tbits, abits, bbits, sbits
<1>8. /\ bits \in SUBSET Nat
      /\ \A p \in 0 .. 3 : p \in bits <=> p \in bbits
      /\ \A p \in 4 .. 6 : p \notin bits
      /\ \A p \in 7 .. 15 : p \in bits <=> p \in tbits
      /\ \A p \in 16 .. 21 : p \in bits <=> p \in abits
      /\ 22 \in bits <=> 22 \in sbits
      /\ 23 \in bits <=> 23 \in sbits
      /\ \A p \in 24 .. 35 : p \notin bits
  BY <1>2, <1>4, <1>5, <1>6
<1>9. \A m \in DOMAIN MemoryBit : MemoryBit[m] \in 4 .. 6 /\ Spelling[m] # "assign"
  BY Places DEF Spelling
<1>10. \A j \in DOMAIN JamBit : JamBit[j] \in 24 .. 35
  BY Places
<1>11. \A r \in Registers : CBit(r) \in bits <=> r \in ToSet(insn.targets)
  BY <1>4, <1>8, CBits
<1>12. \A p \in 27 .. 35 : p \in 24 .. 35
  OBVIOUS
<1> HIDE DEF bits
<1>13. HasPlaces(insn, addressOf, bits)
  <2>1. bits \in SUBSET Nat /\ \A p \in 0 .. 3 : p \in bits <=> insn.kind = "halt" \/ Selects(insn, p)
    BY <1>7, <1>8
  <2>2. \A m \in DOMAIN MemoryBit : MemoryBit[m] \in bits <=> insn.kind = Spelling[m]
    BY <1>8, <1>9
  <2>3. /\ \A r \in Registers : CBit(r) \in bits <=> Loads(insn, r)
        /\ \A p \in 16 .. 21 : p \in bits <=> OperatesOn(insn, p)
    BY <1>7, <1>8, <1>11, Zenon
  <2>4. /\ SRA1_BIT \in bits <=> ShiftsBy(insn, "rshift1")
        /\ SLL8_BIT \in bits <=> ShiftsBy(insn, "lshift8")
    BY <1>6, <1>7, <1>8, Places
  <2>5. /\ \A j \in DOMAIN JamBit : JamBit[j] \in bits <=> Conditions(insn, j)
        /\ \A p \in 27 .. 35 : p \in bits <=> GoesTo(insn, addressOf, p)
    BY <1>7, <1>8, <1>10, <1>12, Zenon
  <2> QED
    BY <2>1, <2>2, <2>3, <2>4, <2>5, Zenon DEF HasPlaces
<1> QED
  BY <1>13 DEF bits

\* An instruction that is no assignment.
OtherPlaces(insn, addressOf, bits) ==
  /\ bits \in SUBSET Nat
  /\ \A p \in 0 .. 3 : p \in bits <=> insn.kind = "halt"
  /\ \A m \in DOMAIN MemoryBit : MemoryBit[m] \in bits <=> insn.kind = Spelling[m]
  /\ \A p \in 7 .. 23 : p \notin bits
  /\ \A j \in DOMAIN JamBit : JamBit[j] \in bits <=> Conditions(insn, j)
  /\ \A p \in 27 .. 35 : p \in bits <=> GoesTo(insn, addressOf, p)

\* The fields of an assignment are those it says nothing in.
LEMMA OthersHavePlaces ==
  ASSUME NEW insn, insn.kind # "assign", NEW addressOf, NEW bits, OtherPlaces(insn, addressOf, bits)
  PROVE  HasPlaces(insn, addressOf, bits)
<1>1. /\ \A p : ~Selects(insn, p) /\ ~OperatesOn(insn, p)
      /\ \A r : ~Loads(insn, r)
      /\ \A shift : ~ShiftsBy(insn, shift)
  BY DEF Selects, OperatesOn, Loads, ShiftsBy
<1>2. /\ \A r \in Registers : CBit(r) \in 7 .. 23
      /\ \A p \in 16 .. 21 : p \in 7 .. 23
      /\ SRA1_BIT \in 7 .. 23 /\ SLL8_BIT \in 7 .. 23
  BY CBits, Places
<1> QED
  BY <1>1, <1>2, Zenon DEF OtherPlaces, HasPlaces

\* Every instruction has its bits in the fields that are for it.
LEMMA InsnPlaces ==
  ASSUME NEW insn \in Insns, InStore(insn), NEW addressOf \in AddressMaps,
         NEW alone, FineInsn(insn, alone, addressOf)
  PROVE  HasPlaces(insn, addressOf, InsnBits(insn, addressOf))
<1> DEFINE bits == InsnBits(insn, addressOf)
           target == TargetAddress(insn, addressOf)
<1>0. /\ insn.kind \in {"rd", "wr", "fetch", "empty", "halt", "goto", "igoto", "if", "assign"}
      /\ insn.kind = "goto" => insn.label \in Labels
      /\ insn.kind = "if" => insn.cond \in {"Z", "N"} /\ insn.label2 \in Labels
  BY InsnParts, Zenon
<1>a. \A m \in DOMAIN MemoryBit : Spelling[m] \in {"rd", "wr", "fetch"}
  BY Places DEF Spelling
<1>1. CASE insn.kind = "assign"
  <2>1. bits = AssignBits(insn)
    BY <1>1, Zenon DEF InsnBits
  <2> QED
    BY <1>1, <2>1, AssignPlaces DEF FineInsn
<1>2. CASE insn.kind \in {"rd", "wr", "fetch", "empty", "halt"}
  <2>1. target = Nowhere
    BY <1>2 DEF TargetAddress
  <2>2. \A j, p : ~Conditions(insn, j) /\ ~GoesTo(insn, addressOf, p)
    BY <1>2, <2>1 DEF Conditions, GoesTo
  <2>3. \/ insn.kind = "rd" /\ bits = {5}
        \/ insn.kind = "wr" /\ bits = {6}
        \/ insn.kind = "fetch" /\ bits = {4}
        \/ insn.kind = "empty" /\ bits = {}
        \/ insn.kind = "halt" /\ bits = 0 .. 3
    BY <1>2, Places DEF InsnBits
  <2> HIDE DEF bits, target
  <2>4. \A m \in DOMAIN MemoryBit : MemoryBit[m] \in bits <=> insn.kind = Spelling[m]
    BY <1>2, <2>3, Places DEF Spelling
  <2>5. OtherPlaces(insn, addressOf, bits)
    BY <1>2, <2>2, <2>3, <2>4, Places DEF OtherPlaces
  <2> QED
    BY <1>2, <2>5, OthersHavePlaces DEF bits
<1>3. CASE insn.kind \in Jumps
  <2> DEFINE conds == {j \in DOMAIN JamBit : Conditions(insn, j)}
             jams == {JamBit[j] : j \in conds}
  <2>1. target \in MicroAddresses \union {Nowhere}
    BY <1>0, <1>3 DEF TargetAddress, Jumps, InStore, AddressMaps
  <2>2. bits = GotoBits(target) \union jams
    <3>1. CASE insn.kind = "goto"
      <4>1. bits = GotoBits(target)
        BY <3>1 DEF InsnBits, TargetAddress
      <4>2. conds = {}
        BY <3>1 DEF Conditions
      <4> QED
        BY <4>1, <4>2
    <3>2. CASE insn.kind = "igoto"
      <4>1. target = insn.base /\ target \in MicroAddresses
        BY <3>2 DEF TargetAddress, InStore
      <4>2. bits = AddressBits(target) \union {JamBit["MPC"]}
        BY <3>2, <4>1 DEF InsnBits
      <4>3. conds = {"MPC"}
        <5>1. \A j : Conditions(insn, j) <=> j = "MPC"
          <6>1. insn.kind # "if"
            BY <3>2
          <6> QED
            BY <3>2, <6>1, Zenon DEF Conditions
        <5> HIDE DEF Conditions
        <5> QED
          BY <5>1, Places
      <4>4. target # Nowhere
        BY <4>1, NowhereIsNoAddress
      <4>5. GotoBits(target) = AddressBits(target)
        BY <4>4 DEF GotoBits
      <4> QED
        BY <4>2, <4>3, <4>5
    <3>3. CASE insn.kind = "if"
      <4>1. bits = GotoBits(target) \union {JamBit[insn.cond]}
        BY <3>3 DEF InsnBits, TargetAddress
      <4>2. conds = {insn.cond}
        BY <1>0, <3>3, Places DEF Conditions
      <4> QED
        BY <4>1, <4>2
    <3> QED
      BY <1>3, <3>1, <3>2, <3>3 DEF Jumps
  <2>3. GotoBits(target) \in SUBSET (27 .. 35)
        /\ \A p : p \in GotoBits(target) <=> GoesTo(insn, addressOf, p)
    BY <2>1, GotoPlaces DEF GoesTo
  <2>4. jams \in SUBSET (24 .. 26) /\ \A j \in DOMAIN JamBit : JamBit[j] \in jams <=> Conditions(insn, j)
    BY Places
  <2> HIDE DEF bits, target, jams
  <2>5. \A m \in DOMAIN MemoryBit : MemoryBit[m] \in 4 .. 6
    BY Places
  <2>6. \A j \in DOMAIN JamBit : JamBit[j] \in 24 .. 26
    BY Places
  <2>7. /\ bits \in SUBSET Nat
        /\ \A p \in 0 .. 23 : p \notin bits
        /\ \A p \in 24 .. 26 : p \in bits <=> p \in jams
        /\ \A p \in 27 .. 35 : p \in bits <=> p \in GotoBits(target)
    <3>1. \A p \in 27 .. 35 : p \notin jams
      BY <2>4
    <3>2. \A p \in 0 .. 26 : p \notin GotoBits(target)
      BY <2>3
    <3>3. \A p \in 0 .. 23 : p \notin jams
      BY <2>4
    <3>4. /\ \A p \in 0 .. 23 : p \in 0 .. 26
          /\ \A p \in 24 .. 26 : p \in 0 .. 26
      OBVIOUS
    <3>5. bits \in SUBSET Nat
      <4>1. /\ \A p \in 27 .. 35 : p \in Nat
            /\ \A p \in 24 .. 26 : p \in Nat
        OBVIOUS
      <4>2. GotoBits(target) \in SUBSET Nat /\ jams \in SUBSET Nat
        BY <2>3, <2>4, <4>1, Zenon
      <4> QED
        BY <2>2, <4>2
    <3> QED
      BY <2>2, <3>1, <3>2, <3>3, <3>4, <3>5, Zenon
  <2>8. /\ \A p \in 0 .. 3 : p \in 0 .. 23
        /\ \A p \in 4 .. 6 : p \in 0 .. 23
        /\ \A p \in 7 .. 23 : p \in 0 .. 23
    OBVIOUS
  <2>9. insn.kind # "halt" /\ \A m \in DOMAIN MemoryBit : insn.kind # Spelling[m]
    BY <1>3, <1>a DEF Jumps
  <2>10. OtherPlaces(insn, addressOf, bits)
    BY <2>3, <2>4, <2>5, <2>6, <2>7, <2>8, <2>9, Zenon DEF OtherPlaces
  <2>11. insn.kind # "assign"
    BY <1>3 DEF Jumps
  <2> QED
    BY <2>10, <2>11, OthersHavePlaces DEF bits
<1> QED
  BY <1>0, <1>1, <1>2, <1>3 DEF Jumps

\* The bits of the word of a line are those of its instructions, and of the
\* address of the next line when none of them says where to go.
FallsTo(insns, following, bit) ==
  ~Some(insns, Jumps \union {"halt"}, 1) /\ bit \in AddressBits(following)

HasFields(insns, addressOf, following, word) ==
  /\ word \in SUBSET Nat
  /\ \A p \in 0 .. 3 :
       p \in word <=> \E i \in DOMAIN insns : insns[i].kind = "halt" \/ Selects(insns[i], p)
  /\ \A m \in DOMAIN MemoryBit :
       MemoryBit[m] \in word <=> \E i \in DOMAIN insns : insns[i].kind = Spelling[m]
  /\ \A r \in Registers : CBit(r) \in word <=> \E i \in DOMAIN insns : Loads(insns[i], r)
  /\ \A p \in 16 .. 21 : p \in word <=> \E i \in DOMAIN insns : OperatesOn(insns[i], p)
  /\ SRA1_BIT \in word <=> \E i \in DOMAIN insns : ShiftsBy(insns[i], "rshift1")
  /\ SLL8_BIT \in word <=> \E i \in DOMAIN insns : ShiftsBy(insns[i], "lshift8")
  /\ \A j \in DOMAIN JamBit : JamBit[j] \in word <=> \E i \in DOMAIN insns : Conditions(insns[i], j)
  /\ \A p \in 27 .. 35 :
       p \in word <=> \/ \E i \in DOMAIN insns : GoesTo(insns[i], addressOf, p)
                      \/ FallsTo(insns, following, p)

\* No two instructions of a line get into each other's fields.
LEMMA LineFields ==
  ASSUME NEW insns \in Seq(Insns), \A i \in DOMAIN insns : InStore(insns[i]),
         NEW addressOf \in AddressMaps, NEW following \in MicroAddresses \union {Nowhere},
         NEW word, LineWord(insns, addressOf, following, word)
  PROVE  HasFields(insns, addressOf, following, word)
<1> DEFINE D == DOMAIN insns
           bits(i) == InsnBits(insns[i], addressOf)
           all == UNION {bits(i) : i \in D}
           stays == Some(insns, Jumps \union {"halt"}, 1)
           falls == {p \in 27 .. 35 : FallsTo(insns, following, p)}
<1>1. ASSUME NEW i \in D PROVE HasPlaces(insns[i], addressOf, bits(i))
  <2>1. D = 1 .. Len(insns) /\ insns[i] \in Insns /\ InStore(insns[i])
    OBVIOUS
  <2>2. FineInsn(insns[i], Len(insns) = 1, addressOf)
    BY <2>1 DEF LineWord, AllFine
  <2> QED
    BY <2>1, <2>2, InsnPlaces, Zenon
<1>2. word = all \union falls
  <2>1. D = 1 .. Len(insns)
    OBVIOUS
  <2>2. Bits(insns, addressOf, 1) = all
    BY <2>1, Zenon DEF Bits
  <2>3. CASE stays
    <3>1. falls = {}
      BY <2>3 DEF FallsTo
    <3> QED
      BY <2>2, <2>3, <3>1 DEF LineWord
  <2>4. CASE ~stays
    <3>1. following \in MicroAddresses /\ word = all \union AddressBits(following)
      BY <2>2, <2>4 DEF LineWord
    <3>2. AddressBits(following) \in SUBSET (27 .. 35)
      BY <3>1, AddressPlaces
    <3>3. falls = AddressBits(following)
      BY <2>4, <3>2 DEF FallsTo
    <3> QED
      BY <3>1, <3>3
  <2> QED
    BY <2>3, <2>4
<1> HIDE DEF bits
<1>3. \A i \in D : bits(i) \in SUBSET Nat
  BY <1>1, Zenon DEF HasPlaces
<1>4. \A p : p \in word <=> (\E i \in D : p \in bits(i)) \/ p \in falls
  BY <1>2
<1>5. \A p \in 0 .. 26 : p \notin falls
  OBVIOUS
<1>6. /\ \A p \in 27 .. 35 : p \in falls <=> FallsTo(insns, following, p)
      /\ \A p \in falls : p \in Nat
  OBVIOUS
<1> HIDE DEF falls, D
<1>7. word \in SUBSET Nat
  BY <1>3, <1>4, <1>6
<1>8. \A p \in 0 .. 26 : p \in word <=> \E i \in D : p \in bits(i)
  BY <1>4, <1>5, Zenon
<1>9. /\ \A p \in 0 .. 3 : p \in 0 .. 26
      /\ \A p \in 16 .. 21 : p \in 0 .. 26
      /\ \A m \in DOMAIN MemoryBit : MemoryBit[m] \in 0 .. 26
      /\ \A j \in DOMAIN JamBit : JamBit[j] \in 0 .. 26
      /\ \A r \in Registers : CBit(r) \in 0 .. 26
      /\ SRA1_BIT \in 0 .. 26 /\ SLL8_BIT \in 0 .. 26
  BY Places, CBits
<1>10. \A p \in 0 .. 3 : p \in word <=> \E i \in D : insns[i].kind = "halt" \/ Selects(insns[i], p)
  BY <1>1, <1>8, <1>9, Zenon DEF HasPlaces
<1>11. \A m \in DOMAIN MemoryBit : MemoryBit[m] \in word <=> \E i \in D : insns[i].kind = Spelling[m]
  <2>1. \A i \in D : \A m \in DOMAIN MemoryBit : MemoryBit[m] \in bits(i) <=> insns[i].kind = Spelling[m]
    BY <1>1, Zenon DEF HasPlaces
  <2> QED
    BY <1>8, <1>9, <2>1, Zenon
<1>12. \A r \in Registers : CBit(r) \in word <=> \E i \in D : Loads(insns[i], r)
  BY <1>1, <1>8, <1>9, Zenon DEF HasPlaces
<1>13. \A p \in 16 .. 21 : p \in word <=> \E i \in D : OperatesOn(insns[i], p)
  BY <1>1, <1>8, <1>9, Zenon DEF HasPlaces
<1>14. /\ SRA1_BIT \in word <=> \E i \in D : ShiftsBy(insns[i], "rshift1")
       /\ SLL8_BIT \in word <=> \E i \in D : ShiftsBy(insns[i], "lshift8")
  BY <1>1, <1>8, <1>9, Zenon DEF HasPlaces
<1>15. \A j \in DOMAIN JamBit : JamBit[j] \in word <=> \E i \in D : Conditions(insns[i], j)
  BY <1>1, <1>8, <1>9, Zenon DEF HasPlaces
<1>16. \A p \in 27 .. 35 :
         p \in word <=> \/ \E i \in D : GoesTo(insns[i], addressOf, p)
                        \/ FallsTo(insns, following, p)
  BY <1>1, <1>4, <1>6, Zenon DEF HasPlaces
<1> QED
  BY <1>7, <1>10, <1>11, <1>12, <1>13, <1>14, <1>15, <1>16, Zenon DEF HasFields, D

-----------------------------------------------------------------------------
(* What the word of a line is for mic1. *)

\* Of a word without a warning, the parts but the value and the next address.
LEMMA SimpleFields ==
  ASSUME NEW insns, NEW addressOf, NEW following, NEW word,
         HasFields(insns, addressOf, following, word)
  PROVE  /\ Decoded(word).mem
              = {m \in DOMAIN MemoryBit : \E i \in DOMAIN insns : insns[i].kind = Spelling[m]}
         /\ Decoded(word).c = {r \in Registers : \E i \in DOMAIN insns : Loads(insns[i], r)}
         /\ Decoded(word).jam
              = {j \in DOMAIN JamBit : \E i \in DOMAIN insns : Conditions(insns[i], j)}
<1>1. /\ Decoded(word).c = {r \in Registers : CBit(r) \in word}
      /\ Decoded(word).mem = {m \in DOMAIN MemoryBit : MemoryBit[m] \in word}
      /\ Decoded(word).jam = {j \in DOMAIN JamBit : JamBit[j] \in word}
  <2>1. word \in SUBSET Nat
    BY Zenon DEF HasFields
  <2> QED
    BY <2>1, DecodedFields, Zenon
<1>2. /\ \A m \in DOMAIN MemoryBit :
           MemoryBit[m] \in word <=> \E i \in DOMAIN insns : insns[i].kind = Spelling[m]
      /\ \A r \in Registers : CBit(r) \in word <=> \E i \in DOMAIN insns : Loads(insns[i], r)
      /\ \A j \in DOMAIN JamBit : JamBit[j] \in word <=> \E i \in DOMAIN insns : Conditions(insns[i], j)
  BY Zenon DEF HasFields
<1>3. {r \in Registers : CBit(r) \in word} = {r \in Registers : \E i \in DOMAIN insns : Loads(insns[i], r)}
  BY <1>2, Zenon
<1>4. {m \in DOMAIN MemoryBit : MemoryBit[m] \in word}
        = {m \in DOMAIN MemoryBit : \E i \in DOMAIN insns : insns[i].kind = Spelling[m]}
  BY <1>2, Zenon
<1>5. {j \in DOMAIN JamBit : JamBit[j] \in word}
        = {j \in DOMAIN JamBit : \E i \in DOMAIN insns : Conditions(insns[i], j)}
  BY <1>2, Zenon
<1> QED
  BY <1>1, <1>3, <1>4, <1>5, Zenon

\* The one assignment of a line has the ALU, the B bus and the shifter.
LEMMA AssignFields ==
  ASSUME NEW insns, NEW addressOf, NEW following, NEW word,
         HasFields(insns, addressOf, following, word),
         NEW k \in DOMAIN insns, insns[k].kind = "assign", insns[k].alu \in AluExprs,
         \A i \in DOMAIN insns : insns[i].kind = "assign" => i = k,
         \A i \in DOMAIN insns : insns[i].kind # "halt",
         Operation(insns[k].alu).b # "MAR"
  PROVE  LET w == Decoded(word)
             op == Operation(insns[k].alu)
         IN  /\ op.alu # Unused => w.alu = op.alu
             /\ w.b = IF op.b = Unused THEN "MDR" ELSE op.b
             /\ w.sra1 = (insns[k].shift = "rshift1")
             /\ w.sll8 = (insns[k].shift = "lshift8")
<1> DEFINE w == Decoded(word)
           op == Operation(insns[k].alu)
<1>1. IsOperation(op)
  BY OperationType, Zenon
<1>2. /\ \A p : (\E i \in DOMAIN insns : insns[i].kind = "halt" \/ Selects(insns[i], p)) <=> p \in BusBits(op)
      /\ \A p : (\E i \in DOMAIN insns : OperatesOn(insns[i], p)) <=> p \in AluBits(op)
      /\ \A shift : (\E i \in DOMAIN insns : ShiftsBy(insns[i], shift)) <=> insns[k].shift = shift
  BY Zenon DEF Selects, OperatesOn, ShiftsBy
<1>3. /\ \A p \in 0 .. 3 : p \in word <=> p \in BusBits(op)
      /\ \A p \in 16 .. 21 : p \in word <=> p \in AluBits(op)
      /\ SRA1_BIT \in word <=> insns[k].shift = "rshift1"
      /\ SLL8_BIT \in word <=> insns[k].shift = "lshift8"
  BY <1>2, Zenon DEF HasFields
<1>4. /\ w.b = BusOf(NumberOf({b \in 0 .. 3 : b \in word}))
      /\ w.alu = AluOf({b \in 0 .. 5 : b + 16 \in word})
      /\ w.sra1 = (SRA1_BIT \in word) /\ w.sll8 = (SLL8_BIT \in word)
  <2>1. word \in SUBSET Nat
    BY Zenon DEF HasFields
  <2> QED
    BY <2>1, DecodedFields, Zenon
<1> HIDE DEF w, op
<1>5. {b \in 0 .. 3 : b \in word} = {b \in 0 .. 3 : b \in BusBits(op)}
  BY <1>3
<1>6. {b \in 0 .. 5 : b + 16 \in word} = {b \in 0 .. 5 : b + 16 \in AluBits(op)}
  <2>1. \A b \in 0 .. 5 : b + 16 \in 16 .. 21
    OBVIOUS
  <2> QED
    BY <1>3, <2>1, Zenon
<1>7. op.b # "MAR"
  BY DEF op
<1>8. /\ BusOf(NumberOf({b \in 0 .. 3 : b \in BusBits(op)})) = IF op.b = Unused THEN "MDR" ELSE op.b
      /\ op.alu # Unused => AluOf({b \in 0 .. 5 : b + 16 \in AluBits(op)}) = op.alu
  BY <1>1, <1>7, AluPlaces, BusPlaces, Zenon
<1>9. /\ op.alu # Unused => w.alu = op.alu
      /\ w.b = IF op.b = Unused THEN "MDR" ELSE op.b
  BY <1>4, <1>5, <1>6, <1>8, Zenon
<1>10. w.sra1 = (insns[k].shift = "rshift1") /\ w.sll8 = (insns[k].shift = "lshift8")
  BY <1>3, <1>4
<1> QED
  BY <1>9, <1>10, Zenon DEF w, op

\* A line stops mic1 when it says halt, and only then.
LEMMA HaltField ==
  ASSUME NEW insns \in Seq(Insns), NEW addressOf, NEW following, NEW word,
         HasFields(insns, addressOf, following, word),
         LineWord(insns, addressOf, following, word)
  PROVE  Decoded(word).b = "halt" <=> \E i \in DOMAIN insns : insns[i].kind = "halt"
<1>1. Decoded(word).b = BusOf(NumberOf({b \in 0 .. 3 : b \in word}))
  <2>1. word \in SUBSET Nat
    BY Zenon DEF HasFields
  <2> QED
    BY <2>1, DecodedFields, Zenon
<1>2. \A p \in 0 .. 3 :
        p \in word <=> \E i \in DOMAIN insns : insns[i].kind = "halt" \/ Selects(insns[i], p)
  BY Zenon DEF HasFields
<1>3. CASE \E i \in DOMAIN insns : insns[i].kind = "halt"
  <2>1. {b \in 0 .. 3 : b \in word} = 0 .. 3
    BY <1>2, <1>3
  <2>2. 0 .. 3 = BitsOf(15)
    <3>1. 15 \in 0 .. 511 /\ 15 < 16
      OBVIOUS
    <3>2. BitsOf(15) \in SUBSET (0 .. 3)
      BY <3>1, NumberOfBits, Zenon
    <3>3. \A b \in BitsOf(15) : b + 0 = b
      BY <3>2
    <3>4. {b + 0 : b \in BitsOf(15)} = 0 .. 3
      BY Places, Zenon DEF HaltBits, HaltCode, B_BUS_OFFSET
    <3> QED
      BY <3>3, <3>4
  <2>3. NumberOf(BitsOf(15)) = 15
    <3>1. 15 \in 0 .. 511
      OBVIOUS
    <3> QED
      BY <3>1, NumberOfBits, Zenon
  <2>4. BusOf(15) = "halt"
    <3>1. Len(BOnBus) = 9
      BY DEF BOnBus
    <3>2. ~(15 < Len(BOnBus)) /\ 15 = HaltCode
      BY <3>1 DEF HaltCode
    <3> QED
      BY <3>2 DEF BusOf
  <2> QED
    BY <1>1, <1>3, <2>1, <2>2, <2>3, <2>4, Zenon
<1>4. CASE \A i \in DOMAIN insns : insns[i].kind \notin {"halt", "assign"}
  <2>1. \A p \in 0 .. 3 : p \notin word
    BY <1>2, <1>4 DEF Selects
  <2>2. {b \in 0 .. 3 : b \in word} = {}
    BY <2>1
  <2>3. BusOf(NumberOf({})) = "MDR"
    <3> DEFINE op == Computed(Unused, Unused)
    <3>1. IsOperation(op) /\ op.b = Unused /\ op.b # "MAR"
      BY DEF IsOperation, Computed, Unused
    <3>2. BusOf(NumberOf({b \in 0 .. 3 : b \in BusBits(op)})) = "MDR"
      BY <3>1, BusPlaces
    <3>3. BusBits(op) = {}
      BY <3>1 DEF BusBits
    <3> HIDE DEF op
    <3>4. {b \in 0 .. 3 : b \in BusBits(op)} = {}
      BY <3>3
    <3> QED
      BY <3>2, <3>4
  <2> QED
    BY <1>1, <1>4, <2>2, <2>3
<1>5. CASE (\A i \in DOMAIN insns : insns[i].kind # "halt")
           /\ \E i \in DOMAIN insns : insns[i].kind = "assign"
  <2>1. PICK k \in DOMAIN insns : insns[k].kind = "assign"
    BY <1>5
  <2>2. DOMAIN insns = 1 .. Len(insns)
    OBVIOUS
  <2>3. \A i \in DOMAIN insns : insns[i].kind = "assign" => i = k
    BY <2>1, <2>2 DEF LineWord, AtMostOne
  <2>4. insns[k] \in Insns
    OBVIOUS
  <2>5. insns[k].alu \in AluExprs
    BY <2>1, <2>4, InsnParts, Zenon
  <2> DEFINE op == Operation(insns[k].alu)
  <2>6. op.b # "MAR"
    <3>1. FineInsn(insns[k], Len(insns) = 1, addressOf)
      BY <2>2, Zenon DEF LineWord, AllFine
    <3> QED
      BY <2>1, <3>1, Zenon DEF FineInsn, FineAssign
  <2>7. Decoded(word).b = IF op.b = Unused THEN "MDR" ELSE op.b
    <3>1. \A i \in DOMAIN insns : insns[i].kind # "halt"
      BY <1>5
    <3>2. Operation(insns[k].alu).b # "MAR"
      BY <2>6
    <3> HIDE DEF op
    <3>3. Decoded(word).b = IF Operation(insns[k].alu).b = Unused THEN "MDR" ELSE Operation(insns[k].alu).b
      BY <2>1, <2>3, <2>5, <3>1, <3>2, AssignFields
    <3> QED
      BY <3>3, Zenon DEF op
  <2>8. op.b \in (Readable \ {"H"}) \union {Unused}
    BY <2>5, OperationType, Zenon DEF IsOperation
  <2> HIDE DEF op
  <2>9. Decoded(word).b # "halt"
    BY <2>7, <2>8 DEF Readable, Registers, Unused
  <2> QED
    BY <1>5, <2>9
<1> QED
  BY <1>3, <1>4, <1>5

\* What goes to the field of the next address is the address of a line.
LEMMA AddressField ==
  ASSUME NEW word \in SUBSET Nat, NEW a \in MicroAddresses,
         \A p \in 27 .. 35 : p \in word <=> p \in AddressBits(a)
  PROVE  Decoded(word).next = a
<1>1. Decoded(word).next = NumberOf({b \in 0 .. 8 : b + 27 \in word})
  BY DecodedFields, Zenon
<1>2. {b \in 0 .. 8 : b + 27 \in word} = {b \in 0 .. 8 : b + 27 \in AddressBits(a)}
  <2>1. \A b \in 0 .. 8 : b + 27 \in 27 .. 35
    OBVIOUS
  <2> QED
    BY <2>1, Zenon
<1> QED
  BY <1>1, <1>2, AddressPlaces, Zenon

\* A line that says where to go goes there, and under the condition it names.
LEMMA JumpFields ==
  ASSUME NEW insns \in Seq(Insns), \A i \in DOMAIN insns : InStore(insns[i]),
         NEW addressOf \in AddressMaps, NEW following, NEW word,
         HasFields(insns, addressOf, following, word),
         LineWord(insns, addressOf, following, word),
         NEW k \in DOMAIN insns, insns[k].kind \in Jumps
  PROVE  /\ Decoded(word).jam = {j \in DOMAIN JamBit : Conditions(insns[k], j)}
         /\ TargetAddress(insns[k], addressOf) # Nowhere
              => Decoded(word).next = TargetAddress(insns[k], addressOf)
<1> DEFINE target == TargetAddress(insns[k], addressOf)
<1>1. DOMAIN insns = 1 .. Len(insns)
  OBVIOUS
<1>2. \A i \in DOMAIN insns : insns[i].kind \in Jumps => i = k
  BY <1>1, Zenon DEF LineWord, AtMostOne
<1>3. \A i \in DOMAIN insns : insns[i].kind \notin Jumps =>
        /\ \A j : ~Conditions(insns[i], j)
        /\ \A p : ~GoesTo(insns[i], addressOf, p)
  BY DEF Conditions, GoesTo, TargetAddress, Jumps
<1>4. Decoded(word).jam = {j \in DOMAIN JamBit : Conditions(insns[k], j)}
  <2>1. Decoded(word).jam = {j \in DOMAIN JamBit : \E i \in DOMAIN insns : Conditions(insns[i], j)}
    BY SimpleFields, Zenon
  <2>2. \A j : (\E i \in DOMAIN insns : Conditions(insns[i], j)) <=> Conditions(insns[k], j)
    BY <1>2, <1>3, Zenon
  <2> QED
    BY <2>1, <2>2
<1>5. ASSUME target # Nowhere PROVE Decoded(word).next = target
  <2>1. insns[k] \in Insns /\ InStore(insns[k])
    OBVIOUS
  <2>2. target \in MicroAddresses
    <3>1. /\ insns[k].kind = "goto" => insns[k].label \in Labels
          /\ insns[k].kind = "if" => insns[k].label2 \in Labels
      BY <2>1, InsnParts, Zenon
    <3>2. CASE insns[k].kind = "goto"
      <4>1. target = addressOf[insns[k].label]
        BY <3>2 DEF TargetAddress
      <4> QED
        BY <1>5, <3>1, <3>2, <4>1 DEF AddressMaps
    <3>3. CASE insns[k].kind = "if"
      <4>1. target = addressOf[insns[k].label2]
        BY <3>3 DEF TargetAddress
      <4> QED
        BY <1>5, <3>1, <3>3, <4>1 DEF AddressMaps
    <3>4. CASE insns[k].kind = "igoto"
      <4>1. target = insns[k].base
        BY <3>4 DEF TargetAddress
      <4> QED
        BY <2>1, <3>4, <4>1 DEF InStore
    <3> QED
      BY <3>2, <3>3, <3>4 DEF Jumps
  <2>3. \A p : ~FallsTo(insns, following, p)
    BY <1>1 DEF FallsTo, Some
  <2>4. \A p : GoesTo(insns[k], addressOf, p) <=> p \in AddressBits(target)
    BY <1>5, Zenon DEF GoesTo
  <2>5. \A p \in 27 .. 35 : p \in word <=> p \in AddressBits(target)
    <3>1. \A p \in 27 .. 35 :
            p \in word <=> \/ \E i \in DOMAIN insns : GoesTo(insns[i], addressOf, p)
                           \/ FallsTo(insns, following, p)
      BY Zenon DEF HasFields
    <3> HIDE DEF target
    <3> QED
      BY <1>2, <1>3, <2>3, <2>4, <3>1, Zenon
  <2>6. word \in SUBSET Nat
    BY Zenon DEF HasFields
  <2> HIDE DEF target
  <2> QED
    BY <2>2, <2>5, <2>6, AddressField, Zenon
<1> QED
  BY <1>4, <1>5

\* A line that does not goes on with the next line.
LEMMA FallFields ==
  ASSUME NEW insns \in Seq(Insns), NEW addressOf,
         NEW following \in MicroAddresses \union {Nowhere}, NEW word,
         HasFields(insns, addressOf, following, word),
         LineWord(insns, addressOf, following, word),
         \A i \in DOMAIN insns : insns[i].kind \notin Jumps \union {"halt"}
  PROVE  /\ Decoded(word).jam = {}
         /\ following # Nowhere /\ Decoded(word).next = following
<1>1. DOMAIN insns = 1 .. Len(insns)
  OBVIOUS
<1>2. ~Some(insns, Jumps \union {"halt"}, 1)
  BY <1>1 DEF Some
<1>3. following \in MicroAddresses /\ following # Nowhere
  BY <1>2 DEF LineWord
<1>4. \A i \in DOMAIN insns : /\ \A j : ~Conditions(insns[i], j)
                              /\ \A p : ~GoesTo(insns[i], addressOf, p)
  BY DEF Conditions, GoesTo, TargetAddress, Jumps
<1>5. Decoded(word).jam = {}
  <2>1. Decoded(word).jam = {j \in DOMAIN JamBit : \E i \in DOMAIN insns : Conditions(insns[i], j)}
    BY SimpleFields, Zenon
  <2> QED
    BY <1>4, <2>1
<1>6. \A p \in 27 .. 35 : p \in word <=> p \in AddressBits(following)
  <2>1. \A p \in 27 .. 35 :
          p \in word <=> \/ \E i \in DOMAIN insns : GoesTo(insns[i], addressOf, p)
                         \/ FallsTo(insns, following, p)
    BY Zenon DEF HasFields
  <2> QED
    BY <1>2, <1>4, <2>1, Zenon DEF FallsTo
<1>7. word \in SUBSET Nat
  BY Zenon DEF HasFields
<1> QED
  BY <1>3, <1>5, <1>6, <1>7, AddressField, Zenon

-----------------------------------------------------------------------------
(* The value of an assignment. *)

\* The ALU sees the code of its function alone.
LEMMA AluOfWord ==
  ASSUME NEW w, NEW v, w.alu = v.alu
  PROVE  \A h, b, r : AluResult(w, h, b, r) = AluResult(v, h, b, r)
BY Zenon DEF AluResult

\* The valuations that TLC tries give every register a word: those that are all
\* different,
LEMMA ScatteredType == Scattered \in SUBSET [Readable -> Word]
<1> DEFINE names == COnBus \o <<"MBR", "MBRU">>
           Index(r) == CHOOSE i \in DOMAIN names : names[i] = r
           value(k, r) == k * Index(r) * Index(r) + 37 * Index(r)
<1>1. \A r \in Readable : Index(r) \in Int
  <2> TAKE r \in Readable
  <2>0. COnBus \in Seq(Readable)
    BY DEF COnBus, Readable, Registers
  <2>1. /\ Len(COnBus) = 9
        /\ COnBus[1] = "MAR" /\ COnBus[2] = "MDR" /\ COnBus[3] = "PC" /\ COnBus[4] = "SP"
        /\ COnBus[5] = "LV" /\ COnBus[6] = "CPP" /\ COnBus[7] = "TOS" /\ COnBus[8] = "OPC"
        /\ COnBus[9] = "H"
    BY DEF COnBus
  <2> DEFINE both == <<"MBR", "MBRU">>
  <2>2. Len(both) = 2 /\ both[1] = "MBR" /\ both[2] = "MBRU"
    OBVIOUS
  <2>c. both \in Seq(Readable)
    BY DEF Readable
  <2> HIDE DEF both
  <2>a. names = COnBus \o both
    BY DEF both
  <2> HIDE DEF names
  <2>b. /\ DOMAIN names = 1 .. 11
        /\ \A i \in 1 .. 9 : names[i] = COnBus[i]
        /\ names[10] = both[1] /\ names[11] = both[2]
    <3>1. /\ names \in Seq(Readable) /\ Len(names) = 11
          /\ \A i \in 1 .. 11 : names[i] = IF i <= 9 THEN COnBus[i] ELSE both[i - 9]
      <4>1. /\ COnBus \o both \in Seq(Readable) /\ Len(COnBus \o both) = Len(COnBus) + Len(both)
            /\ \A i \in 1 .. Len(COnBus) + Len(both) :
                 (COnBus \o both)[i] = IF i <= Len(COnBus) THEN COnBus[i] ELSE both[i - Len(COnBus)]
        BY <2>0, <2>c, ConcatProperties, Zenon
      <4> QED
        <5>1. COnBus \o both = names /\ Len(COnBus) + Len(both) = 11 /\ Len(COnBus) = 9
          BY <2>1, <2>2, <2>a
        <5> QED
          BY <4>1, <5>1, Zenon
    <3> QED
      BY <3>1
  <2>3. \E i \in 1 .. 11 : names[i] = r
    <3>1. /\ names[1] = "MAR" /\ names[2] = "MDR" /\ names[3] = "PC" /\ names[4] = "SP"
          /\ names[5] = "LV" /\ names[6] = "CPP" /\ names[7] = "TOS" /\ names[8] = "OPC"
          /\ names[9] = "H" /\ names[10] = "MBR" /\ names[11] = "MBRU"
      BY <2>1, <2>2, <2>b
    <3> QED
      BY <3>1 DEF Readable, Registers
  <2>4. Index(r) \in 1 .. 11
    BY <2>b, <2>3
  <2> HIDE DEF Index
  <2> QED
    BY <2>4
<1> HIDE DEF Index
<1>2. \A k \in {211, -1409}, r \in Readable : value(k, r) \in Int
  BY <1>1
<1>3. Scattered = {[r \in Readable |-> ToWord(value(k, r))] : k \in {211, -1409}}
  BY Zenon DEF Scattered, Index, names
<1> HIDE DEF value
<1>4. \A k \in {211, -1409}, r \in Readable : ToWord(value(k, r)) \in Word
  BY <1>2, WordFacts
<1> QED
  BY <1>3, <1>4

\* and those that are the same but for one register.
LEMMA ValuationsType == Valuations \in SUBSET [Readable -> Word]
<1>1. Uniforms \in SUBSET [Readable -> Word]
  BY SmallNumbers, WordFacts DEF Uniforms, Uniform
<1> QED
  BY <1>1, ScatteredType DEF Valuations

\* The value of an expression that is computed.
LEMMA ComputedIsMeant ==
  ASSUME NEW alu, NEW op, IsComputed(alu, op),
         NEW f \in [Readable -> Word], NEW b, op.b \in {Unused, b}
  PROVE  Result(op, b, f) = ToWord(Meaning(alu, f))
BY SMT DEF IsComputed

\* The word of an assignment computes its expression.
HasShift(w, shift) == w.sra1 = (shift = "rshift1") /\ w.sll8 = (shift = "lshift8")

\* The word of an assignment computes its value, for all values of the registers.
LEMMA AssignmentComputes ==
  ASSUME NEW insn, insn.alu \in AluExprs, ~IllegalConstant(insn.alu),
         insn.shift \in {"none", "rshift1", "lshift8"},
         Operation(insn.alu).problem = Unused,
         NEW w, w.alu = Operation(insn.alu).alu,
         Operation(insn.alu).b \in {Unused, w.b},
         HasShift(w, insn.shift),
         NEW f \in [Readable -> Word]
  PROVE  Shifted(w, AluResult(w, f["H"], Bus(w.b, f), 0)) = AssignedValue(insn, f)
<1> DEFINE op == Operation(insn.alu)
           value == ToWord(Meaning(insn.alu, f))
           result == AluResult(w, f["H"], Bus(w.b, f), 0)
<1>1. IsComputed(insn.alu, op)
  BY ExpressionsAreComputed, Zenon
<1>0. op.b \in {Unused, w.b} /\ w.alu = op.alu
  OBVIOUS
<1> HIDE DEF op
<1>2. Result(op, w.b, f) = value
  <2> DEFINE b == w.b
  <2>1. op.b \in {Unused, b} /\ f \in [Readable -> Word]
    BY <1>0
  <2> HIDE DEF value, b
  <2>2. Result(op, b, f) = ToWord(Meaning(insn.alu, f))
    BY <1>1, <2>1, ComputedIsMeant
  <2> QED
    BY <2>2 DEF value, b
<1>3. result = Result(op, w.b, f)
  <2> DEFINE v == [alu |-> op.alu]
  <2>1. w.alu = v.alu
    BY <1>0
  <2> HIDE DEF v
  <2>2. \A h, b, r : AluResult(w, h, b, r) = AluResult(v, h, b, r)
    BY <2>1, AluOfWord, Zenon
  <2> QED
    BY <2>2, Zenon DEF Result, v
<1>4. result = value
  BY <1>2, <1>3, Zenon
<1>5. AssignedValue(insn, f) = CASE insn.shift = "rshift1" -> value \div 2
                                 [] insn.shift = "lshift8" -> ToWord(value * 256)
                                 [] insn.shift = "none" -> value
  BY Zenon DEF AssignedValue
<1> HIDE DEF value, result
<1>6. Shifted(w, value) = CASE insn.shift = "rshift1" -> value \div 2
                            [] insn.shift = "lshift8" -> ToWord(value * 256)
                            [] insn.shift = "none" -> value
  <2>1. CASE insn.shift = "rshift1"
    BY <2>1 DEF Shifted, HasShift
  <2>2. CASE insn.shift = "lshift8"
    BY <2>2 DEF Shifted, HasShift
  <2>3. CASE insn.shift = "none"
    BY <2>3 DEF Shifted, HasShift
  <2> QED
    BY <2>1, <2>2, <2>3
<1> QED
  BY <1>4, <1>5, <1>6, Zenon DEF result

\* In particular for those that TLC tries.
LEMMA WordComputes ==
  ASSUME NEW insn, insn.alu \in AluExprs, ~IllegalConstant(insn.alu),
         insn.shift \in {"none", "rshift1", "lshift8"},
         Operation(insn.alu).problem = Unused,
         NEW w, w.alu = Operation(insn.alu).alu,
         Operation(insn.alu).b \in {Unused, w.b},
         HasShift(w, insn.shift)
  PROVE  Computes(w, insn)
<1> SUFFICES ASSUME NEW f \in Valuations
             PROVE  Shifted(w, AluResult(w, f["H"], Bus(w.b, f), 0)) = AssignedValue(insn, f)
  BY Zenon DEF Computes, Bus
<1>1. f \in [Readable -> Word]
  BY ValuationsType
<1> QED
  BY <1>1, AssignmentComputes

-----------------------------------------------------------------------------
(* What a line says, and what its word does. *)

WordSays(insns, addressOf, following, w) ==
  /\ AtMostOne(insns, Jumps, 1)
  /\ w.mem = {m \in DOMAIN Spelling : \E i \in DOMAIN insns : insns[i].kind = Spelling[m]}
  /\ w.c = {r \in Targets \ {"VIRTUAL"} :
              \E i \in DOMAIN insns : insns[i].kind = "assign" /\ r \in ToSet(insns[i].targets)}
  /\ \A i \in DOMAIN insns : insns[i].kind = "assign" => Computes(w, insns[i])
  /\ w.b = "halt" <=> \E i \in DOMAIN insns : insns[i].kind = "halt"
  /\ \A i \in DOMAIN insns : insns[i].kind \in Jumps =>
       /\ w.jam = {j \in DOMAIN JamBit : Conditions(insns[i], j)}
       /\ TargetAddress(insns[i], addressOf) # Nowhere
            => w.next = TargetAddress(insns[i], addressOf)
  /\ \A i \in DOMAIN insns : insns[i].kind = "goto" => addressOf[insns[i].label] # Nowhere
  /\ (\A i \in DOMAIN insns : insns[i].kind \notin Jumps \union {"halt"})
       => w.jam = {} /\ following # Nowhere /\ w.next = following

\* The word of a line with an assignment computes its value.
LEMMA AssignmentsCompute ==
  ASSUME NEW insns \in Seq(Insns), NEW addressOf, NEW following, NEW word,
         HasFields(insns, addressOf, following, word),
         LineWord(insns, addressOf, following, word),
         NEW k \in DOMAIN insns, insns[k].kind = "assign", ~ParserWarns(insns[k])
  PROVE  Computes(Decoded(word), insns[k])
<1> DEFINE w == Decoded(word)
           insn == insns[k]
           op == Operation(insn.alu)
<1>1. DOMAIN insns = 1 .. Len(insns) /\ insn \in Insns /\ Len(insns) \in Nat
  OBVIOUS
<1>2. \A i \in DOMAIN insns : FineInsn(insns[i], Len(insns) = 1, addressOf)
  BY <1>1, Zenon DEF LineWord, AllFine
<1>3. \A i \in DOMAIN insns : insns[i].kind = "assign" => i = k
  BY <1>1 DEF LineWord, AtMostOne
<1>4. \A i \in DOMAIN insns : insns[i].kind # "halt"
  <2> SUFFICES ASSUME NEW i \in DOMAIN insns, insns[i].kind = "halt" PROVE FALSE
    OBVIOUS
  <2>1. Len(insns) = 1
    BY <1>2, Zenon DEF FineInsn
  <2>2. i = 1 /\ k = 1
    BY <1>1, <2>1
  <2> QED
    BY <2>2
<1>5. insn.alu \in AluExprs /\ insn.shift \in {"none", "rshift1", "lshift8"}
  BY <1>1, InsnParts, Zenon
<1>6. op.problem = Unused /\ op.b # "MAR"
  BY <1>2, Zenon DEF FineInsn, FineAssign
<1>7. ~IllegalConstant(insn.alu)
  BY Zenon DEF ParserWarns
<1>8. op.alu \in Alu \ {"random"}
  <2>1. IsComputed(insn.alu, op)
    BY <1>5, <1>6, <1>7, ExpressionsAreComputed, Zenon
  <2> QED
    BY <2>1, Zenon DEF IsComputed
<1>9. op.alu # Unused
  BY <1>8 DEF Alu, Unused
<1> DEFINE Goal == /\ w.alu = op.alu
                   /\ w.b = IF op.b = Unused THEN "MDR" ELSE op.b
                   /\ HasShift(w, insn.shift)
<1>10. Goal
  BY <1>3, <1>4, <1>5, <1>6, <1>9, AssignFields DEF HasShift
<1>11. op.b \in {Unused, w.b}
  BY <1>10
<1> HIDE DEF w, insn, op
<1>12. Computes(w, insn)
  <2>1. w.alu = op.alu /\ HasShift(w, insn.shift)
    BY <1>10, Zenon
  <2> QED
    BY <1>5, <1>6, <1>7, <1>11, <2>1, WordComputes, Zenon DEF op
<1> QED
  BY <1>12, Zenon DEF w, insn

\* The registers that are loaded are the targets of the assignments.
LEMMA LoadedRegisters ==
  ASSUME NEW insns \in Seq(Insns), NEW addressOf, NEW following, NEW word,
         LineWord(insns, addressOf, following, word)
  PROVE  {r \in Registers : \E i \in DOMAIN insns : Loads(insns[i], r)}
           = {r \in Targets \ {"VIRTUAL"} :
                \E i \in DOMAIN insns : insns[i].kind = "assign" /\ r \in ToSet(insns[i].targets)}
<1>1. DOMAIN insns = 1 .. Len(insns)
  OBVIOUS
<1>2. \A i \in DOMAIN insns : FineInsn(insns[i], Len(insns) = 1, addressOf)
  BY <1>1, Zenon DEF LineWord, AllFine
<1>3. ASSUME NEW i \in DOMAIN insns, insns[i].kind = "assign", NEW r \in ToSet(insns[i].targets)
      PROVE  r \notin {"MBR", "MBRU"}
  <2>1. FineAssign(insns[i])
    BY <1>2, <1>3, Zenon DEF FineInsn
  <2>2. PICK j \in DOMAIN insns[i].targets : r = insns[i].targets[j]
    BY DEF ToSet
  <2> QED
    BY <2>1, <2>2 DEF FineAssign
<1>4. Targets \ {"VIRTUAL"} = Registers \union {"MBR", "MBRU"}
  BY DEF Targets, Readable, Registers
<1> QED
  BY <1>3, <1>4, Zenon DEF Loads

\* A line that is checked without a warning is a word that does what the line
\* says, for every line that the grammar accepts: the memory operations it
\* names, its value for the registers it names, and its next address.
THEOREM CheckedLineDoesWhatItSays ==
  ASSUME NEW insns \in Seq(Insns), insns # <<>>,
         \A i \in DOMAIN insns : InStore(insns[i]) /\ ~ParserWarns(insns[i]),
         NEW addressOf \in AddressMaps, NEW following \in MicroAddresses \union {Nowhere},
         CheckedLine(insns, addressOf, following).problems = {}
  PROVE  WordSays(insns, addressOf, following,
                  Decoded(CheckedLine(insns, addressOf, following).word))
<1> DEFINE word == CheckedLine(insns, addressOf, following).word
           w == Decoded(word)
<1>1. LineWord(insns, addressOf, following, word)
  BY CheckedLineWord, Zenon
<1> HIDE DEF word
<1>2. HasFields(insns, addressOf, following, word)
  BY <1>1, LineFields, Zenon
<1>3. /\ w.mem = {m \in DOMAIN MemoryBit : \E i \in DOMAIN insns : insns[i].kind = Spelling[m]}
      /\ w.c = {r \in Registers : \E i \in DOMAIN insns : Loads(insns[i], r)}
  BY <1>2, SimpleFields
<1>4. DOMAIN MemoryBit = DOMAIN Spelling
  BY DEF MemoryBit, Spelling
<1>5. w.b = "halt" <=> \E i \in DOMAIN insns : insns[i].kind = "halt"
  BY <1>1, <1>2, HaltField, Zenon
<1>6. \A i \in DOMAIN insns : insns[i].kind = "assign" => Computes(w, insns[i])
  BY <1>1, <1>2, AssignmentsCompute, Zenon
<1>7. \A i \in DOMAIN insns : insns[i].kind \in Jumps =>
        /\ w.jam = {j \in DOMAIN JamBit : Conditions(insns[i], j)}
        /\ TargetAddress(insns[i], addressOf) # Nowhere
             => w.next = TargetAddress(insns[i], addressOf)
  <2>1. \A i \in DOMAIN insns : InStore(insns[i])
    OBVIOUS
  <2> HIDE DEF w
  <2>2. ASSUME NEW i \in DOMAIN insns, insns[i].kind \in Jumps
        PROVE  /\ Decoded(word).jam = {j \in DOMAIN JamBit : Conditions(insns[i], j)}
               /\ TargetAddress(insns[i], addressOf) # Nowhere
                    => Decoded(word).next = TargetAddress(insns[i], addressOf)
    BY <1>1, <1>2, <2>1, <2>2, JumpFields
  <2> QED
    BY <2>2, Zenon DEF w
<1>8. (\A i \in DOMAIN insns : insns[i].kind \notin Jumps \union {"halt"})
        => w.jam = {} /\ following # Nowhere /\ w.next = following
  <2> HIDE DEF w
  <2>1. ASSUME \A i \in DOMAIN insns : insns[i].kind \notin Jumps \union {"halt"}
        PROVE  /\ Decoded(word).jam = {}
               /\ following # Nowhere /\ Decoded(word).next = following
    BY <1>1, <1>2, <2>1, FallFields
  <2> QED
    BY <2>1, Zenon DEF w
<1>9. \A i \in DOMAIN insns : insns[i].kind = "goto" => addressOf[insns[i].label] # Nowhere
  <2>1. DOMAIN insns = 1 .. Len(insns)
    OBVIOUS
  <2>2. \A i \in DOMAIN insns : FineInsn(insns[i], Len(insns) = 1, addressOf)
    BY <1>1, <2>1, Zenon DEF LineWord, AllFine
  <2> QED
    BY <2>2, Zenon DEF FineInsn
<1>10. w.c = {r \in Targets \ {"VIRTUAL"} :
                \E i \in DOMAIN insns : insns[i].kind = "assign" /\ r \in ToSet(insns[i].targets)}
  BY <1>1, <1>3, LoadedRegisters, Zenon
<1>11. w.mem = {m \in DOMAIN Spelling : \E i \in DOMAIN insns : insns[i].kind = Spelling[m]}
  BY <1>3, <1>4, Zenon
<1>13. AtMostOne(insns, Jumps, 1)
  BY <1>1, Zenon DEF LineWord
<1> HIDE DEF w
<1>12. WordSays(insns, addressOf, following, w)
  BY <1>13, <1>5, <1>6, <1>7, <1>8, <1>9, <1>10, <1>11, Zenon DEF WordSays
<1> QED
  BY <1>12 DEF w, word

-----------------------------------------------------------------------------
(* What the assembler keeps while it checks the lines. *)

\* The lines that labels stand for.
LEMMA LayoutLineTypes ==
  ASSUME LP!TypeOK
  PROVE  /\ \A name : \/ Layout!Lookup(name) = Layout!None
                      \/ /\ Layout!Lookup(name) \in DOMAIN lines
                         /\ lines[Layout!Lookup(name)].insns
         /\ \A n \in DOMAIN lines : \/ Layout!LineOf(n + 1) = Layout!None
                                    \/ /\ Layout!LineOf(n + 1) \in DOMAIN lines
                                       /\ lines[Layout!LineOf(n + 1)].insns
<1>1. lines \in Seq(LP!Lines)
  BY Zenon DEF LP!TypeOK
<1>2. /\ \A name : LP!Lookup(name) = Layout!Lookup(name)
      /\ \A n : LP!LineOf(n) = Layout!LineOf(n)
      /\ LP!None = Layout!None
  BY Zenon DEF LP!Lookup, Layout!Lookup, LP!LineOf, Layout!LineOf, LP!None, Layout!None,
               LP!Defines, Layout!Defines
<1>3. \A name : \/ LP!Lookup(name) = LP!None
                \/ LP!Lookup(name) \in DOMAIN lines /\ lines[LP!Lookup(name)].insns
  BY <1>1, LayoutAssumptions, LP!LookupType, Zenon
<1>4. \A n \in DOMAIN lines : \/ LP!LineOf(n) = LP!None
                              \/ LP!LineOf(n) \in DOMAIN lines /\ lines[LP!LineOf(n)].insns
  BY <1>1, LayoutAssumptions, LP!LineOfType, Zenon
<1>5. ASSUME NEW n \in DOMAIN lines
      PROVE  \/ LP!LineOf(n + 1) = LP!None
             \/ LP!LineOf(n + 1) \in DOMAIN lines /\ lines[LP!LineOf(n + 1)].insns
  <2>1. DOMAIN lines = 1 .. Len(lines) /\ Len(lines) \in Nat
    BY <1>1
  <2>2. CASE n + 1 \in DOMAIN lines
    BY <1>4, <2>2
  <2>3. CASE n + 1 \notin DOMAIN lines
    <3>1. n + 1 .. Len(lines) = {}
      BY <2>1, <2>3
    <3> QED
      BY <3>1 DEF LP!LineOf
  <2> QED
    BY <2>2, <2>3
<1> QED
  BY <1>2, <1>3, <1>5, Zenon

AddressMap == [l \in Labels |-> AddressOf(l)]

\* The check is given addresses of the store.
LEMMA AddressTypes ==
  ASSUME LP!TypeOK, LinesInStore
  PROVE  /\ AddressMap \in AddressMaps
         /\ \A n \in DOMAIN lines : Following(n) \in MicroAddresses \union {Nowhere}
<1>1. \A line \in DOMAIN lines : address[line] \in MicroAddresses \union {Nowhere}
  BY DEF LinesInStore
<1>2. \A l : AddressOf(l) \in MicroAddresses \union {Nowhere}
  BY <1>1, LayoutLineTypes DEF AddressOf
<1>3. \A n \in DOMAIN lines : Following(n) \in MicroAddresses \union {Nowhere}
  BY <1>1, LayoutLineTypes DEF Following
<1> QED
  BY <1>2, <1>3, Zenon DEF AddressMap, AddressMaps

\* The indirect gotos of the microprogram name addresses of the control store:
\* masm_check_insn puts the address into the word without a look at it.
IgotosInStore ==
  \A n \in DOMAIN program : \A i \in DOMAIN program[n].insns : InStore(program[n].insns[i])

CheckOf(n) == CheckedLine(program[n].insns, AddressMap, Following(n))

\* The check of a line of the microprogram.
LEMMA CheckOfType ==
  ASSUME SameProgram, program \in Microprograms, NEW n \in DOMAIN program
  PROVE  /\ program[n].insns \in Seq(Insns) /\ n \in DOMAIN lines
         /\ CheckOf(n).word \in SUBSET Nat
<1>1. program \in Seq(SourceLines)
  BY ProgramType
<1>2. program[n].insns \in Seq(Insns)
  BY <1>1 DEF SourceLines
<1>3. n \in DOMAIN lines
  BY DEF SameProgram, LayoutLines
<1>5. CheckOf(n) \in States
  BY <1>2, LineIsMild, Zenon DEF CheckOf
<1> HIDE DEF CheckOf
<1>6. CheckOf(n).word \in SUBSET Nat
  BY <1>5 DEF States
<1> QED
  BY <1>2, <1>3, <1>6, Zenon

\* The lines checked so far have their words, and their warnings are known.
CheckInv ==
  /\ program \in Microprograms
  /\ words \in Seq(SUBSET Nat) /\ Len(words) =< Len(program)
  /\ words # <<>> => pass = "done"
  /\ ParserWarnings(program) \subseteq problems
  /\ \A k \in DOMAIN words : words[k] = CheckOf(k).word /\ CheckOf(k).problems \subseteq problems
  /\ outcome = "emitted" => problems = {}

\* The check of a line depends on the microprogram and the layout alone.
LEMMA CheckOfStays ==
  ASSUME program' = program, UNCHANGED layoutVars
  PROVE  \A n : CheckOf(n)' = CheckOf(n)
<1>1. /\ \A l : AddressOf(l)' = AddressOf(l)
      /\ \A n : Following(n)' = Following(n)
  <2>1. lines' = lines /\ address' = address
    BY DEF layoutVars
  <2>2. /\ \A n : Layout!LineOf(n)' = Layout!LineOf(n)
        /\ \A l : Layout!Lookup(l)' = Layout!Lookup(l)
    <3>1. ASSUME NEW n PROVE Layout!LineOf(n)' = Layout!LineOf(n)
      BY <2>1 DEF Layout!LineOf, Layout!None
    <3>2. ASSUME NEW l PROVE Layout!Lookup(l)' = Layout!Lookup(l)
      BY <2>1 DEF Layout!Lookup, Layout!Defines, Layout!LineOf, Layout!None
    <3> QED
      BY <3>1, <3>2
  <2> QED
    BY <2>1, <2>2, Zenon DEF AddressOf, Following, Layout!None
<1>2. AddressMap' = AddressMap
  BY <1>1, Zenon DEF AddressMap
<1> QED
  BY <1>1, <1>2, Zenon DEF CheckOf

\* The microprogram does not change.
LEMMA ProgramUnchanged ==
  ASSUME [Next]_masmVars
  PROVE  program' = program
BY DEF Next, LayOut, Check, NoEntry, Abort, Emit, Finished, masmVars

\* Nothing is checked at first, and the warnings are those of the parser.
LEMMA CheckInit == Init => CheckInv
<1> SUFFICES ASSUME Init PROVE CheckInv
  OBVIOUS
<1>1. /\ program \in Microprograms /\ words = <<>> /\ outcome = "running"
      /\ problems = ParserWarnings(program)
  BY DEF Init
<1>2. program \in Seq(SourceLines)
  BY <1>1, ProgramType
<1> QED
  BY <1>1, <1>2 DEF CheckInv

\* Nothing that a check looked at changes after it.
LEMMA QuietCheck ==
  ASSUME CheckInv, program' = program, UNCHANGED words, UNCHANGED problems,
         words # <<>> => pass' = pass /\ UNCHANGED layoutVars,
         outcome' = "emitted" => problems' = {}
  PROVE  CheckInv'
<1>1. CASE words = <<>>
  BY <1>1 DEF CheckInv
<1>2. CASE words # <<>>
  <2>1. pass' = pass /\ UNCHANGED layoutVars
    BY <1>2
  <2>2. \A k : CheckOf(k)' = CheckOf(k)
    BY <2>1, CheckOfStays
  <2>3. (\A k \in DOMAIN words :
           words[k] = CheckOf(k).word /\ CheckOf(k).problems \subseteq problems)'
    BY <2>2, Zenon DEF CheckInv
  <2>4. ParserWarnings(program)' \subseteq problems'
    BY DEF CheckInv
  <2> QED
    BY <2>1, <2>3, <2>4 DEF CheckInv
<1> QED
  BY <1>1, <1>2

\* One more line is checked.
LEMMA CheckStep ==
  ASSUME CheckInv, LP!TypeOK, SameProgram, EmittedInv, Check
  PROVE  CheckInv'
<1> DEFINE n == Len(words) + 1
           c == CheckOf(n)
<1>1. /\ Checking /\ UNCHANGED <<program, layoutVars, image, outcome>>
      /\ words' = Append(words, c.word) /\ problems' = problems \union c.problems
  BY Zenon DEF Check, CheckOf, AddressMap
<1>2. /\ program \in Seq(SourceLines) /\ words \in Seq(SUBSET Nat) /\ pass = "done"
      /\ Len(words) < Len(program)
  BY <1>1, ProgramType DEF CheckInv, Checking
<1>3. n \in DOMAIN program
  BY <1>2
<1>4. c.word \in SUBSET Nat
  <2>1. program \in Microprograms
    BY DEF CheckInv
  <2> HIDE DEF n
  <2> QED
    BY <1>3, <2>1, CheckOfType, Zenon
<1>5. \A k : CheckOf(k)' = CheckOf(k)
  BY <1>1, CheckOfStays
<1> HIDE DEF c
<1>6. /\ words' \in Seq(SUBSET Nat) /\ Len(words') = n
      /\ \A k \in DOMAIN words : words'[k] = words[k]
      /\ words'[n] = c.word
      /\ \A k \in DOMAIN words' : k \in DOMAIN words \/ k = n
  BY <1>1, <1>2, <1>4
<1>7. \A k \in DOMAIN words' :
        words'[k] = CheckOf(k).word /\ CheckOf(k).problems \subseteq problems'
  <2> SUFFICES ASSUME NEW k \in DOMAIN words'
               PROVE  words'[k] = CheckOf(k).word /\ CheckOf(k).problems \subseteq problems'
    OBVIOUS
  <2>1. CASE k \in DOMAIN words
    <3>1. words[k] = CheckOf(k).word /\ CheckOf(k).problems \subseteq problems
      BY <2>1, Zenon DEF CheckInv
    <3> QED
      BY <1>1, <1>6, <2>1, <3>1
  <2>2. CASE k = n
    <3>1. c.word = CheckOf(k).word /\ c.problems = CheckOf(k).problems
      BY <2>2 DEF c
    <3> QED
      BY <1>1, <1>6, <2>2, <3>1
  <2> QED
    BY <1>6, <2>1, <2>2
<1>8. (\A k \in DOMAIN words :
         words[k] = CheckOf(k).word /\ CheckOf(k).problems \subseteq problems)'
  BY <1>5, <1>7, Zenon
<1>9. outcome # "emitted" /\ outcome' = outcome
  BY <1>1, <1>2 DEF EmittedInv
<1>10. ParserWarnings(program)' \subseteq problems'
  BY <1>1 DEF CheckInv
<1>11. pass' = "done" /\ program' = program /\ program \in Microprograms
  BY <1>1, <1>2 DEF layoutVars, CheckInv
<1>12. (Len(words) =< Len(program))'
  BY <1>1, <1>2, <1>6
<1> QED
  BY <1>6, <1>8, <1>9, <1>10, <1>11, <1>12 DEF CheckInv

\* Every step keeps what the check knows.
LEMMA CheckInvStep ==
  ASSUME CheckInv, LP!TypeOK, SameProgram, EmittedInv, [Next]_masmVars
  PROVE  CheckInv'
<1>1. program' = program
  BY ProgramUnchanged
<1>2. (words # <<>> => pass = "done") /\ (outcome = "emitted" => problems = {})
  BY DEF CheckInv
<1>3. CASE LayOut
  <2>1. pass # "done" /\ UNCHANGED words /\ UNCHANGED problems /\ outcome' # "emitted"
    BY <1>3 DEF LayOut
  <2>2. words = <<>>
    BY <1>2, <2>1
  <2> QED
    BY <1>1, <2>1, <2>2, QuietCheck
<1>4. CASE Check
  BY <1>4, CheckStep
<1>5. CASE NoEntry \/ Abort
  <2>1. UNCHANGED words /\ UNCHANGED problems /\ UNCHANGED layoutVars /\ outcome' = "aborted"
    BY <1>5 DEF NoEntry, Abort
  <2> QED
    BY <1>1, <2>1, QuietCheck DEF layoutVars
<1>6. CASE Emit
  <2>1. UNCHANGED words /\ UNCHANGED problems /\ UNCHANGED layoutVars /\ problems = {}
    BY <1>6 DEF Emit
  <2> QED
    BY <1>1, <2>1, QuietCheck DEF layoutVars
<1>7. CASE Finished \/ UNCHANGED masmVars
  <2>1. UNCHANGED words /\ UNCHANGED problems /\ UNCHANGED layoutVars /\ UNCHANGED outcome
    BY <1>7 DEF Finished, masmVars
  <2> QED
    BY <1>1, <1>2, <2>1, QuietCheck DEF layoutVars
<1> QED
  BY <1>3, <1>4, <1>5, <1>6, <1>7 DEF Next

\* So the words are those of the check of the lines, in every state.
LEMMA WordsAreChecked == Spec => []CheckInv
<1>1. CheckInv /\ LP!TypeOK /\ SameProgram /\ EmittedInv /\ [Next]_masmVars => CheckInv'
  BY CheckInvStep
<1> QED
  BY <1>1, CheckInit, AssemblerPlacesLines, ProgramStays, ImageStays, PTL DEF Spec

\* The lines that are named have their words.
LEMMA LineAtAddress ==
  ASSUME LP!TypeOK, LP!EveryLinePlaced, EmittedInv, LP!InStore, LinesInStore,
         outcome = "emitted"
  PROVE  /\ \A l : AddressOf(l) # Nowhere =>
                     /\ AddressOf(l) \in MicroAddresses
                     /\ store[AddressOf(l)] = Layout!Lookup(l)
         /\ \A n \in DOMAIN lines : Following(n) # Nowhere =>
                     store[Following(n)] = Layout!LineOf(n + 1)
<1>1. \A line \in DOMAIN lines : lines[line].insns => store[address[line]] = line
  BY DEF EmittedInv, LP!EveryLinePlaced, LP!Clean, LP!Emittable
<1>2. \A line \in DOMAIN lines : address[line] \in MicroAddresses \union {Nowhere}
  BY DEF LinesInStore
<1> QED
  BY <1>1, <1>2, LayoutLineTypes DEF AddressOf, Following

\* The two branches of an `if' are where the hardware looks for them.
LEMMA IfAtAddress ==
  ASSUME LP!TypeOK, LP!BranchesPaired, EmittedInv, SameProgram, LP!InStore,
         outcome = "emitted",
         program \in Microprograms, NEW n \in DOMAIN program,
         NEW k \in DOMAIN program[n].insns, program[n].insns[k].kind = "if",
         AtMostOne(program[n].insns, Jumps, 1)
  PROVE  LET insn == program[n].insns[k]
             a == AddressOf(insn.label2)
         IN  /\ a # Nowhere /\ store[a] = Layout!Lookup(insn.label2)
             /\ store[TrueBranch(a)] = Layout!Lookup(insn.label1)
<1> DEFINE insns == program[n].insns
           insn == insns[k]
           line1 == Layout!Lookup(insn.label1)
           line2 == Layout!Lookup(insn.label2)
<1>1. insns \in Seq(Insns) /\ n \in DOMAIN lines
  <2>1. program \in Seq(SourceLines)
    BY ProgramType
  <2> QED
    BY <2>1 DEF SourceLines, SameProgram, LayoutLines
<1>2. DOMAIN insns = 1 .. Len(insns) /\ insn \in Insns
  BY <1>1
<1>3. IfsOf(insns) = {k}
  <2>1. \A i \in DOMAIN insns : insns[i].kind = "if" => i = k
    BY <1>2 DEF AtMostOne, Jumps
  <2> QED
    BY <2>1 DEF IfsOf
<1>4. Max(IfsOf(insns)) = k
  <2>1. Max(IfsOf(insns)) \in IfsOf(insns)
    BY <1>1, <1>3, LastIf
  <2> QED
    BY <1>3, <2>1
<1>5. lines[n].label1 = insn.label1 /\ lines[n].label2 = insn.label2
  <2>1. lines[n] = LayoutLine(program[n])
    BY DEF SameProgram, LayoutLines
  <2> QED
    BY <1>3, <1>4, <2>1 DEF LayoutLine
<1>6. insn.label1 \in Labels /\ insn.label1 # NoLabel
  BY <1>2, InsnParts, LabelAssumption
<1> HIDE DEF insn
<1>7. /\ line2 # Layout!None /\ address[line2] # Nowhere
      /\ address[line2] < 256 /\ store[address[line2]] = line2
      /\ store[address[line2] + 256] = line1
  <2>1. /\ \A name : LP!Lookup(name) = Layout!Lookup(name)
        /\ LP!None = Layout!None /\ LP!Nowhere = Nowhere
    BY Zenon DEF LP!Lookup, Layout!Lookup, LP!LineOf, Layout!LineOf, LP!None, Layout!None,
                 LP!Defines, Layout!Defines, LP!Nowhere, Nowhere
  <2>2. LP!Clean
    BY DEF EmittedInv, LP!Clean, LP!Emittable
  <2> QED
    BY <1>1, <1>5, <1>6, <2>1, <2>2 DEF LP!BranchesPaired, LP!LaidOut
<1>8. AddressOf(insn.label2) = address[line2]
  BY <1>7 DEF AddressOf
<1>9. TrueBranch(address[line2]) = address[line2] + 256
  BY <1>7 DEF TrueBranch
<1> QED
  BY <1>7, <1>8, <1>9 DEF insn

\* In an image, the word of every line was checked without a warning.
LEMMA EmittedLineSays ==
  ASSUME LP!TypeOK, EmittedInv, SameProgram, CheckInv, IgotosInStore, LinesInStore,
         outcome = "emitted",
         NEW n \in DOMAIN program, Placed(n)
  PROVE  /\ WordSays(program[n].insns, AddressMap, Following(n), Decoded(words[n]))
         /\ words[n] \in SUBSET Nat /\ program[n].insns \in Seq(Insns) /\ n \in DOMAIN lines
<1> DEFINE insns == program[n].insns
<1>1. program \in Microprograms /\ problems = {} /\ Len(words) = Len(program)
  BY DEF CheckInv, EmittedInv
<1>2. n \in DOMAIN words
  <2>1. program \in Seq(SourceLines)
    BY <1>1, ProgramType
  <2>2. words \in Seq(SUBSET Nat)
    BY DEF CheckInv
  <2> QED
    BY <1>1, <2>1, <2>2
<1>3. words[n] = CheckOf(n).word /\ CheckOf(n).problems = {}
  <2>1. words[n] = CheckOf(n).word /\ CheckOf(n).problems \subseteq problems
    BY <1>2, Zenon DEF CheckInv
  <2> QED
    BY <1>1, <2>1
<1>4. /\ insns \in Seq(Insns) /\ n \in DOMAIN lines
      /\ AddressMap \in AddressMaps /\ Following(n) \in MicroAddresses \union {Nowhere}
      /\ CheckOf(n).word \in SUBSET Nat
  BY <1>1, CheckOfType, AddressTypes
<1>5. \A i \in DOMAIN insns : InStore(insns[i]) /\ ~ParserWarns(insns[i])
  <2>1. ParserWarnings(program) = {}
    BY <1>1 DEF CheckInv
  <2>2. ~\E m \in DOMAIN program : \E i \in DOMAIN program[m].insns : ParserWarns(program[m].insns[i])
    BY <2>1 DEF ParserWarnings
  <2> QED
    BY <2>2 DEF IgotosInStore
<1>6. insns # <<>>
  BY DEF Placed
<1>7. CheckedLine(insns, AddressMap, Following(n)).problems = {}
      /\ words[n] = CheckedLine(insns, AddressMap, Following(n)).word
  BY <1>3, Zenon DEF CheckOf
<1> HIDE DEF insns
<1>8. WordSays(insns, AddressMap, Following(n), Decoded(words[n]))
  BY <1>4, <1>5, <1>6, <1>7, CheckedLineDoesWhatItSays, Zenon
<1> QED
  BY <1>3, <1>4, <1>8 DEF insns

-----------------------------------------------------------------------------
(* The microprogram that mic1 executes is the one that was written. *)

\* In an image, every line does what it says.
LEMMA LineDoesWhatItSays ==
  ASSUME LP!TypeOK, LP!EveryLinePlaced, LP!BranchesPaired, EmittedInv, SameProgram,
         CheckInv, IgotosInStore, LP!InStore, LinesInStore, outcome = "emitted",
         NEW n \in DOMAIN program, Placed(n)
  PROVE  DoesWhatItSays(Decoded(words[n]), n)
<1> DEFINE insns == program[n].insns
           w == Decoded(words[n])
<1>1. WordSays(insns, AddressMap, Following(n), w) /\ insns \in Seq(Insns) /\ n \in DOMAIN lines
  BY EmittedLineSays
<1>2. /\ Said(n) = {insns[i] : i \in DOMAIN insns}
      /\ SaidKinds(n) = {insns[i].kind : i \in DOMAIN insns}
      /\ \A kind : Saying(n, kind) = {insn \in Said(n) : insn.kind = kind}
  BY DEF Said, SaidKinds, Saying, ToSet
<1>3. \A i \in DOMAIN insns : insns[i] \in Insns
  BY <1>1
<1> HIDE DEF w
<1>4. w.mem = {m \in DOMAIN Spelling : Spelling[m] \in SaidKinds(n)}
  <2>1. w.mem = {m \in DOMAIN Spelling : \E i \in DOMAIN insns : insns[i].kind = Spelling[m]}
    BY <1>1, Zenon DEF WordSays
  <2> HIDE DEF insns
  <2> QED
    BY <1>2, <2>1
<1>5. w.c = (UNION {ToSet(insn.targets) : insn \in Saying(n, "assign")}) \ {"VIRTUAL"}
  <2>1. w.c = {r \in Targets \ {"VIRTUAL"} :
                 \E i \in DOMAIN insns : insns[i].kind = "assign" /\ r \in ToSet(insns[i].targets)}
    BY <1>1, Zenon DEF WordSays
  <2>2. ASSUME NEW i \in DOMAIN insns, insns[i].kind = "assign"
        PROVE  ToSet(insns[i].targets) \subseteq Targets
    <3>1. insns[i].targets \in Seq(Targets)
      BY <1>3, <2>2, InsnParts, Zenon DEF Targets
    <3> QED
      BY <3>1 DEF ToSet
  <2> HIDE DEF insns
  <2>3. \A r : r \in UNION {ToSet(insn.targets) : insn \in Saying(n, "assign")}
                 <=> \E i \in DOMAIN insns : insns[i].kind = "assign" /\ r \in ToSet(insns[i].targets)
    BY <1>2
  <2> DEFINE all == UNION {ToSet(insn.targets) : insn \in Saying(n, "assign")}
  <2>4. \A r : r \in all <=> \E i \in DOMAIN insns : insns[i].kind = "assign" /\ r \in ToSet(insns[i].targets)
    BY <2>3, Zenon
  <2>5. \A r \in all : r \in Targets
    BY <2>2, <2>4
  <2> HIDE DEF all
  <2>6. {r \in Targets \ {"VIRTUAL"} :
          \E i \in DOMAIN insns : insns[i].kind = "assign" /\ r \in ToSet(insns[i].targets)}
          = all \ {"VIRTUAL"}
    BY <2>4, <2>5, Zenon
  <2> QED
    BY <2>1, <2>6, Zenon DEF all
<1>6. \A insn \in Saying(n, "assign") : Computes(w, insn)
  <2>1. \A i \in DOMAIN insns : insns[i].kind = "assign" => Computes(w, insns[i])
    BY <1>1, Zenon DEF WordSays
  <2> HIDE DEF insns
  <2> QED
    BY <1>2, <2>1
<1>7. w.b = "halt" <=> "halt" \in SaidKinds(n)
  <2>1. w.b = "halt" <=> \E i \in DOMAIN insns : insns[i].kind = "halt"
    BY <1>1, Zenon DEF WordSays
  <2> HIDE DEF insns
  <2> QED
    BY <1>2, <2>1
<1>8. \A i \in DOMAIN insns : insns[i].kind \in Jumps =>
        /\ w.jam = {j \in DOMAIN JamBit : Conditions(insns[i], j)}
        /\ TargetAddress(insns[i], AddressMap) # Nowhere
             => w.next = TargetAddress(insns[i], AddressMap)
  BY <1>1, Zenon DEF WordSays
<1>9. \A insn \in Saying(n, "goto") : w.jam = {} /\ store[w.next] = Layout!Lookup(insn.label)
  <2> SUFFICES ASSUME NEW i \in DOMAIN insns, insns[i].kind = "goto"
               PROVE  w.jam = {} /\ store[w.next] = Layout!Lookup(insns[i].label)
    BY <1>2
  <2>1. insns[i].label \in Labels
    BY <1>3, InsnParts, Zenon
  <2>2. AddressMap[insns[i].label] = AddressOf(insns[i].label)
    BY <2>1 DEF AddressMap
  <2>3. AddressMap[insns[i].label] # Nowhere
    BY <1>1, Zenon DEF WordSays
  <2>4. TargetAddress(insns[i], AddressMap) = AddressMap[insns[i].label]
    BY DEF TargetAddress
  <2>5. {j \in DOMAIN JamBit : Conditions(insns[i], j)} = {}
    BY DEF Conditions
  <2>6. w.jam = {} /\ w.next = AddressOf(insns[i].label)
    BY <1>8, <2>2, <2>3, <2>4, <2>5 DEF Jumps
  <2>7. store[AddressOf(insns[i].label)] = Layout!Lookup(insns[i].label)
    BY <2>2, <2>3, LineAtAddress, Zenon
  <2> QED
    BY <2>6, <2>7
<1>10. \A insn \in Saying(n, "igoto") : w.jam = {"MPC"} /\ w.next = insn.base
  <2> SUFFICES ASSUME NEW i \in DOMAIN insns, insns[i].kind = "igoto"
               PROVE  w.jam = {"MPC"} /\ w.next = insns[i].base
    BY <1>2
  <2>1. insns[i].base \in MicroAddresses
    BY DEF IgotosInStore, InStore
  <2>2. TargetAddress(insns[i], AddressMap) = insns[i].base /\ insns[i].base # Nowhere
    BY <2>1, NowhereIsNoAddress DEF TargetAddress
  <2>3. {j \in DOMAIN JamBit : Conditions(insns[i], j)} = {"MPC"}
    <3>1. insns[i].kind # "if"
      OBVIOUS
    <3>2. \A j : Conditions(insns[i], j) <=> j = "MPC"
      BY <3>1, Zenon DEF Conditions
    <3> QED
      BY <3>2, Places
  <2> QED
    BY <1>8, <2>2, <2>3 DEF Jumps
<1>11. \A insn \in Saying(n, "if") :
         /\ w.jam = {insn.cond}
         /\ store[w.next] = Layout!Lookup(insn.label2)
         /\ store[TrueBranch(w.next)] = Layout!Lookup(insn.label1)
  <2> SUFFICES ASSUME NEW i \in DOMAIN insns, insns[i].kind = "if"
               PROVE  /\ w.jam = {insns[i].cond}
                      /\ store[w.next] = Layout!Lookup(insns[i].label2)
                      /\ store[TrueBranch(w.next)] = Layout!Lookup(insns[i].label1)
    BY <1>2
  <2>1. insns[i].label2 \in Labels /\ insns[i].cond \in {"Z", "N"}
    BY <1>3, InsnParts, Zenon
  <2>2. AtMostOne(program[n].insns, Jumps, 1) /\ program \in Microprograms
    BY <1>1, Zenon DEF WordSays, CheckInv
  <2>3. /\ AddressOf(insns[i].label2) # Nowhere
        /\ store[AddressOf(insns[i].label2)] = Layout!Lookup(insns[i].label2)
        /\ store[TrueBranch(AddressOf(insns[i].label2))] = Layout!Lookup(insns[i].label1)
    BY <2>2, IfAtAddress
  <2>4. TargetAddress(insns[i], AddressMap) = AddressOf(insns[i].label2)
    BY <2>1 DEF TargetAddress, AddressMap
  <2>5. {j \in DOMAIN JamBit : Conditions(insns[i], j)} = {insns[i].cond}
    BY <2>1, Places DEF Conditions
  <2>6. w.jam = {insns[i].cond} /\ w.next = AddressOf(insns[i].label2)
    BY <1>8, <2>3, <2>4, <2>5 DEF Jumps
  <2> QED
    BY <2>3, <2>6
<1>12. ASSUME SaidKinds(n) \intersect {"goto", "igoto", "if", "halt"} = {}
       PROVE  w.jam = {} /\ store[w.next] = Layout!LineOf(n + 1)
  <2>1. \A i \in DOMAIN insns : insns[i].kind \notin Jumps \union {"halt"}
    BY <1>2, <1>12 DEF Jumps
  <2>2. w.jam = {} /\ Following(n) # Nowhere /\ w.next = Following(n)
    BY <1>1, <2>1, Zenon DEF WordSays
  <2>3. store[Following(n)] = Layout!LineOf(n + 1)
    BY <1>1, <2>2, LineAtAddress, Zenon
  <2> QED
    BY <2>2, <2>3
<1> HIDE DEF insns
<1>13. DoesWhatItSays(w, n)
  BY <1>4, <1>5, <1>6, <1>7, <1>9, <1>10, <1>11, <1>12, Zenon DEF DoesWhatItSays
<1> QED
  BY <1>13 DEF w

\* Every line of every microprogram that mic1-asm assembles, and that has no
\* negative label, does on mic1 what it says, when no goto (MBR or n) names an
\* address behind the control store: the code puts that address into the word
\* without a look at it.
THEOREM LinesDoWhatTheySay == Spec => [](IgotosInStore => EmittedMeansSource)
<1>1. ASSUME LP!TypeOK, LP!EveryLinePlaced, LP!BranchesPaired, EmittedInv, SameProgram,
             CheckInv, IgotosInStore, LP!InStore, LinesInStore, outcome = "emitted",
             \A n \in DOMAIN program, after \in SUBSET Nat : Placed(n) => WordReaches(n, after),
             NEW n \in DOMAIN program, NEW after \in {{}, 0 .. 15}, Placed(n)
      PROVE  DoesWhatItSays(MicroWordAt(address[n], after), n)
  <2>1. after \in SUBSET Nat
    OBVIOUS
  <2>2. MicroWordAt(address[n], after) = Decoded(words[n] \intersect WordBits)
    BY <1>1, <2>1 DEF WordReaches
  <2>3. Decoded(words[n] \intersect WordBits) = Decoded(words[n])
    <3>1. words[n] \in SUBSET Nat
      BY <1>1, EmittedLineSays
    <3> DEFINE cut == words[n] \intersect WordBits
    <3>2. cut \in SUBSET Nat /\ cut \intersect WordBits = words[n] \intersect WordBits
      BY <3>1
    <3> HIDE DEF cut
    <3>3. Decoded(cut) = Decoded(words[n])
      BY <3>1, <3>2, DecodesOnlyTheWord
    <3> QED
      BY <3>3 DEF cut
  <2>4. DoesWhatItSays(Decoded(words[n]), n)
    BY <1>1, LineDoesWhatItSays
  <2> QED
    BY <2>2, <2>3, <2>4, Zenon
<1>2. /\ LP!TypeOK /\ LP!EveryLinePlaced /\ LP!BranchesPaired /\ EmittedInv /\ SameProgram
      /\ CheckInv /\ (LP!InStore => LinesInStore)
      /\ Assembled =>
           \A n \in DOMAIN program, after \in SUBSET Nat : Placed(n) => WordReaches(n, after)
      => (IgotosInStore => EmittedMeansSource)
  BY <1>1, LabelsInStore, Zenon DEF EmittedMeansSource, Assembled
<1> QED
  BY <1>2, AssemblerPlacesLines, AssemblerPairsBranches, ProgramStays, ImageStays,
     WordsAreChecked, WordsReach, AssemblerStaysInStore, PTL

-----------------------------------------------------------------------------
(* An expression is refused only when the data path cannot compute it. *)

\* The warnings about expressions are those of an expression that is refused.
RefusalsBlamed ==
  problems \intersect Refusals # {} =>
    \E n \in DOMAIN program : \E insn \in Said(n) : Refuses(insn)

\* The parser gives none of them.
LEMMA BlameInit == Init => RefusalsBlamed
BY DEF Init, RefusalsBlamed, ParserWarnings, Refusals

\* A check gives one when it looks at such an expression.
LEMMA BlameStep ==
  ASSUME CheckInv, RefusalsBlamed, [Next]_masmVars
  PROVE  RefusalsBlamed'
<1>1. program' = program
  BY ProgramUnchanged
<1>2. CASE UNCHANGED problems
  BY <1>1, <1>2 DEF RefusalsBlamed, Said
<1>3. CASE Check
  <2> DEFINE n == Len(words) + 1
             c == CheckOf(n)
  <2>1. Checking /\ problems' = problems \union c.problems
    BY <1>3, Zenon DEF Check, CheckOf, AddressMap
  <2>2. program \in Seq(SourceLines) /\ words \in Seq(SUBSET Nat)
    BY ProgramType DEF CheckInv
  <2>3. n \in DOMAIN program
    BY <2>1, <2>2 DEF Checking
  <2>4. program[n].insns \in Seq(Insns)
    BY <2>2, <2>3 DEF SourceLines
  <2> HIDE DEF n
  <2>5. (\A i \in DOMAIN program[n].insns : ~Refuses(program[n].insns[i]))
          => c.problems \intersect Refusals = {}
    BY <2>4, LineIsMild, Zenon DEF CheckOf
  <2> HIDE DEF c
  <2>6. c.problems \intersect Refusals # {} => \E insn \in Said(n) : Refuses(insn)
    BY <2>4, <2>5 DEF Said, ToSet
  <2>7. problems' \intersect Refusals # {} =>
          \E k \in DOMAIN program : \E insn \in Said(k) : Refuses(insn)
    BY <2>1, <2>3, <2>6 DEF RefusalsBlamed
  <2> QED
    BY <1>1, <2>7 DEF RefusalsBlamed, Said
<1> QED
  BY <1>2, <1>3 DEF Next, LayOut, NoEntry, Abort, Emit, Finished, masmVars

\* So they are in every state.
LEMMA RefusalsAreBlamed == Spec => []RefusalsBlamed
<1>1. CheckInv /\ RefusalsBlamed /\ [Next]_masmVars => RefusalsBlamed'
  BY BlameStep
<1> QED
  BY <1>1, BlameInit, WordsAreChecked, PTL DEF Spec

\* No word of the data path computes an expression that is refused.
LEMMA RefusedIsNotComputed ==
  ASSUME NEW insn \in Insns, Refuses(insn), ~Repeats(insn.alu), NEW w \in DataPaths(insn)
  PROVE  ~Computes(w, insn)
<1>1. insn.alu \in AluExprs /\ insn.shift \in Shifts
  BY InsnParts DEF Refuses, Shifts
<1>2. w.alu \in Names /\ w.b \in Buses /\ HasShift(w, insn.shift)
  BY DEF DataPaths, Names, Buses, HasShift
<1>3. IsRefused(Operation(insn.alu))
  BY DEF Refuses
<1>4. Fails(insn.alu, w.alu, w.b, insn.shift)
  BY <1>1, <1>2, <1>3, RefusedIsImpossible, Zenon
<1>5. PICK f \in Uniforms :
        After(insn.shift, AluGives(w.alu, f["H"], Bus(w.b, f)))
          # After(insn.shift, ToWord(Meaning(insn.alu, f)))
  BY <1>4, Zenon DEF Fails
<1>6. \A v : Shifted(w, v) = After(insn.shift, v)
  <2>1. CASE insn.shift = "rshift1"
    BY <1>2, <2>1 DEF Shifted, HasShift, After
  <2>2. CASE insn.shift = "lshift8"
    BY <1>2, <2>2 DEF Shifted, HasShift, After
  <2>3. CASE insn.shift = "none"
    BY <1>2, <2>3 DEF Shifted, HasShift, After
  <2> QED
    BY <1>1, <2>1, <2>2, <2>3 DEF Shifts
<1>7. AssignedValue(insn, f) = After(insn.shift, ToWord(Meaning(insn.alu, f)))
  <2> DEFINE value == ToWord(Meaning(insn.alu, f))
  <2>1. AssignedValue(insn, f) = CASE insn.shift = "rshift1" -> value \div 2
                                   [] insn.shift = "lshift8" -> ToWord(value * 256)
                                   [] insn.shift = "none" -> value
    BY Zenon DEF AssignedValue
  <2> HIDE DEF value
  <2>2. AssignedValue(insn, f) = After(insn.shift, value)
    BY <1>1, <2>1 DEF After, Shifts
  <2> QED
    BY <2>2 DEF value
<1>8. AluResult(w, f["H"], Bus(w.b, f), 0) = AluGives(w.alu, f["H"], Bus(w.b, f))
  <2> DEFINE v == [alu |-> w.alu]
  <2>1. w.alu = v.alu
    OBVIOUS
  <2> HIDE DEF v
  <2>2. \A h, b, r : AluResult(w, h, b, r) = AluResult(v, h, b, r)
    BY <2>1, AluOfWord, Zenon
  <2> QED
    BY <2>2, Zenon DEF AluGives, v
<1>9. Shifted(w, AluResult(w, f["H"], Bus(w.b, f), 0)) # AssignedValue(insn, f)
  BY <1>5, <1>6, <1>7, <1>8, Zenon
<1>10. f \in Valuations
  BY <1>5, Zenon DEF Valuations
<1> QED
  BY <1>9, <1>10, Zenon DEF Computes, Bus

\* An assembly that stops on a warning about expressions, and on no other, has an
\* expression that nothing computes, or one that operates on a register with itself:
\* masm_check_alu turns down nothing else that the data path can do.
THEOREM RefusesOnlyImpossible == Spec => []RefusesOnlyTheImpossible
<1>1. CheckInv /\ RefusalsBlamed => RefusesOnlyTheImpossible
  <2> SUFFICES ASSUME CheckInv, RefusalsBlamed,
                      problems \subseteq Refusals, problems # {}
               PROVE  \E n \in DOMAIN program : \E insn \in Saying(n, "assign") :
                        Repeats(insn.alu) \/ \A w \in DataPaths(insn) : ~Computes(w, insn)
    BY Zenon DEF RefusesOnlyTheImpossible, Refusals
  <2>1. PICK n \in DOMAIN program : \E insn \in Said(n) : Refuses(insn)
    BY DEF RefusalsBlamed
  <2>2. PICK insn \in Said(n) : Refuses(insn)
    BY <2>1
  <2>3. insn \in Insns
    <3>1. program \in Seq(SourceLines)
      BY ProgramType DEF CheckInv
    <3> QED
      BY <2>2, <3>1 DEF SourceLines, Said, ToSet
  <2>4. insn \in Saying(n, "assign")
    BY <2>2 DEF Saying, Refuses
  <2>5. ~Repeats(insn.alu) => \A w \in DataPaths(insn) : ~Computes(w, insn)
    BY <2>2, <2>3, RefusedIsNotComputed, Zenon
  <2> QED
    BY <2>4, <2>5, Zenon
<1> QED
  BY <1>1, RefusalsAreBlamed, WordsAreChecked, PTL
=============================================================================
