----------------------------- MODULE Mic1Proofs -----------------------------
(***************************************************************************)
(* The simulator of src/mic1.c keeps its registers in their C types and    *)
(* its microprogram counter in the control store, for every microprogram,  *)
(* every IJVM image and whatever random() returns.                         *)
(***************************************************************************)
EXTENDS Mic1IJVM, ImageProofs

-----------------------------------------------------------------------------
(* The data path. *)

\* Whatever is on its inputs, the ALU puts a word on its output: it wraps around.
LEMMA AluResultType ==
  ASSUME NEW w, w.alu \in Alu, NEW h \in Word, NEW b \in Word, NEW r \in Word
  PROVE  AluResult(w, h, b, r) \in Word
<1>1. h \in Int /\ b \in Int
  BY WordBounds
<1>2. -h - 1 \in Word /\ -b - 1 \in Word
  BY WordBounds, WordModHalves
<1>3. /\ ToWord(b + h) \in Word /\ ToWord(b + h + 1) \in Word /\ ToWord(h + 1) \in Word
      /\ ToWord(b + 1) \in Word /\ ToWord(b - h) \in Word /\ ToWord(b - 1) \in Word
      /\ ToWord(-h) \in Word
  BY <1>1, ToWordBounds
<1>4. BitAnd(h, b) \in Word /\ BitOr(h, b) \in Word
  BY <1>1, BitAndType, BitOrType
<1>5. 0 \in Word /\ 1 \in Word /\ -1 \in Word
  BY WordBounds, WordModHalves
<1> QED  BY Zenon, <1>2, <1>3, <1>4, <1>5 DEF AluResult, Alu

\* So does the shifter.
LEMMA ShiftedType ==
  ASSUME NEW w, NEW value \in Word
  PROVE  Shifted(w, value) \in Word
<1> DEFINE right == IF w.sra1 THEN value \div 2 ELSE value
<1>1. value \div 2 \in Word
  <2>1. value \in Int /\ -Half <= value /\ value < Half
    BY WordBounds
  <2>2. value \div 2 \in Int /\ -Half <= value \div 2 /\ value \div 2 < Half
    BY SMT, <2>1, WordModHalves
  <2> QED  BY <2>2, WordBounds
<1>2. right \in Word /\ right * 256 \in Int
  <2>1. right \in Word
    BY <1>1
  <2> QED  BY <2>1, WordBounds
<1>3. ToWord(right * 256) \in Word
  BY <1>2, ToWordBounds
<1> QED  BY Zenon, <1>2, <1>3 DEF Shifted

\* What is on the B bus, MBR with its sign included.
LEMMA OnBBusType ==
  ASSUME Mic1TypeOK, NEW w, NEW r \in Word
  PROVE  OnBBus(w, r) \in Word
<1>1. reg \in [Registers -> Word] /\ mbr \in Byte
  BY DEF Mic1TypeOK
<1>2. Signed(mbr, 256) \in Word
  <2>1. mbr \in Int /\ 0 <= mbr /\ mbr <= 255
    BY <1>1 DEF Byte
  <2>2. Signed(mbr, 256) \in Int /\ -128 <= Signed(mbr, 256) /\ Signed(mbr, 256) <= 127
    BY SMT, <2>1 DEF Signed
  <2> QED  BY <2>2, WordBounds, WordModHalves
<1>3. mbr \in Word
  BY <1>1, BytesAreWords
<1>4. CASE w.b = "MBR"
  <2>1. OnBBus(w, r) = Signed(mbr, 256)
    BY <1>4 DEF OnBBus, Registers
  <2> QED  BY <1>2, <2>1
<1>5. CASE w.b = "MBRU"
  <2>1. OnBBus(w, r) = mbr
    BY <1>5 DEF OnBBus, Registers
  <2> QED  BY <1>3, <2>1
<1>6. CASE w.b \in Registers
  <2>1. w.b # "MBR" /\ w.b # "MBRU"
    BY <1>6 DEF Registers
  <2>2. OnBBus(w, r) = reg[w.b]
    BY <1>6, <2>1 DEF OnBBus
  <2> QED  BY <1>1, <1>6, <2>2
<1>7. CASE w.b \notin Registers /\ w.b # "MBR" /\ w.b # "MBRU"
  BY <1>7 DEF OnBBus
<1> QED  BY <1>4, <1>5, <1>6, <1>7

\* The or of the address with MBR, and its top bit, lead to the control store
\* again: the or changes the low byte only.
LEMMA NextAddressType ==
  ASSUME NEW w, w.next \in MicroAddresses, NEW value, NEW byte \in Byte
  PROVE  NextAddress(w, value, byte) \in MicroAddresses
<1> DEFINE low == w.next % 256
           ored == IF "MPC" \in w.jam THEN low + byte - AndByte(low, byte) ELSE low
           jammed == ("Z" \in w.jam /\ value = 0) \/ ("N" \in w.jam /\ value < 0)
           high == IF jammed THEN 256 ELSE w.next - low
<1>1. low \in Byte /\ (w.next - low = 0 \/ w.next - low = 256)
  BY SMT DEF MicroAddresses, Byte
<1>2. ored \in Byte
  BY <1>1, AndOfBytes
<1>3. high = 0 \/ high = 256
  BY <1>1
<1>4. NextAddress(w, value, byte) = high + ored
  BY DEF NextAddress
<1> HIDE DEF low, ored, jammed, high
<1> QED  BY <1>2, <1>3, <1>4 DEF MicroAddresses, Byte

-----------------------------------------------------------------------------
(* The steps. *)

\* A simulator that has just been made.
LEMMA InitType == Init => Mic1TypeOK
<1>1. 0 \in Word /\ 0 \in Byte
  BY BytesAreWords DEF Byte
<1> QED  BY <1>1, MicroprogramAssumption DEF Init, Mic1TypeOK

\* mic1_new: where the image fits, its addresses fit in registers.
LEMMA LoadType == Mic1TypeOK /\ Load => Mic1TypeOK'
<1> SUFFICES ASSUME Mic1TypeOK, Load PROVE Mic1TypeOK'
  OBVIOUS
<1>1. /\ program \in Programs /\ reg \in [Registers -> Word] /\ mbr \in Byte
      /\ mpc \in MicroAddresses /\ doingRd \in BOOLEAN /\ doingFetch \in BOOLEAN
      /\ result \in Word
  BY DEF Mic1TypeOK
<1>2. /\ ArgumentsTop(program) \in Address /\ ArgumentsAreNumbers(program)
      /\ mem' = WithArguments(program, Loaded(program))
      /\ reg' = [reg EXCEPT !["H"] = program.main, !["CPP"] = CppOf(program),
                            !["SP"] = ArgumentsTop(program)]
      /\ status' = "run"
      /\ program' = program /\ mbr' = mbr /\ mpc' = mpc
      /\ doingRd' = doingRd /\ doingFetch' = doingFetch /\ result' = result
  BY DEF Load
<1>3. mem' \in [Address -> Word]
  BY <1>1, <1>2, LoadedType, WithArgumentsType
<1>4. program.main \in Word /\ CppOf(program) \in Word /\ ArgumentsTop(program) \in Word
  <2>1. PICK top \in Address : top = ArgumentsTop(program)
    BY <1>2
  <2>2. /\ program.main \in Int /\ 0 <= program.main /\ program.main <= top
        /\ CppOf(program) \in Int /\ 0 <= CppOf(program) /\ CppOf(program) <= top
    <3>1. Len(program.args) \in Nat /\ Len(program.cpool) \in Nat
      BY <1>1, ProgramParts
    <3> QED  BY <1>1, <2>1, <3>1, ProgramParts
  <2>3. program.main \in Address /\ CppOf(program) \in Address
    BY <2>2, AddressBounds
  <2> QED  BY <2>1, <2>3, AddressesAreWords
<1>5. reg' \in [Registers -> Word]
  BY Zenon, <1>1, <1>2, <1>4
<1> QED  BY <1>1, <1>2, <1>3, <1>5 DEF Mic1TypeOK

\* A cycle: what C bus, memory and byte port give, and where it goes on.
LEMMA ClockType ==
  ASSUME Mic1TypeOK, FetchIsDefined, status = "run",
         NEW w, IsMicroWord(w), NEW value \in Word, Clock(w, value)
  PROVE  Mic1TypeOK'
<1>1. /\ program \in Programs /\ mem \in [Address -> Word] /\ reg \in [Registers -> Word]
      /\ mbr \in Byte /\ result \in Word
  BY DEF Mic1TypeOK
<1>2. /\ reg' = Clocked(w, value)
      /\ mbr' = IF doingFetch THEN ByteFetched ELSE mbr
      /\ mem' = Written(w, reg')
      /\ doingRd' = ("read" \in w.mem) /\ doingFetch' = ("fetch" \in w.mem)
      /\ mpc' = NextAddress(w, value, mbr')
      /\ program' = program /\ status' = status /\ result' = result
  BY Zenon DEF Clock, Starts
<1>3. reg' \in [Registers -> Word]
  <2>1. MdrRead \in Word
    BY <1>1, BytesAreWords DEF MdrRead
  <2>2. \A r \in Registers : (IF r \in w.c THEN value
                              ELSE IF r = "MDR" /\ doingRd THEN MdrRead ELSE reg[r]) \in Word
    BY Zenon, <1>1, <2>1
  <2> QED  BY Zenon, <1>2, <2>2 DEF Clocked
<1>4. mbr' \in Byte
  <2>1. CASE doingFetch /\ FetchIsChecked
    <3>1. reg["PC"] \in ByteAddress
      BY <2>1 DEF FetchIsDefined
    <3>2. ByteOf(mem, reg["PC"]) \in Byte
      BY <1>1, <3>1, ByteOfType
    <3> QED  BY Zenon, <1>2, <2>1, <3>2 DEF ByteFetched
  <2>2. CASE doingFetch /\ ~FetchIsChecked
    BY <1>2, <2>2 DEF ByteFetched, Byte
  <2>3. CASE ~doingFetch
    BY Zenon, <1>1, <1>2, <2>3
  <2> QED  BY <2>1, <2>2, <2>3
<1>5. mem' \in [Address -> Word]
  <2>1. "MDR" \in Registers
    BY DEF Registers
  <2>2. reg'["MDR"] \in Word
    BY <1>3, <2>1
  <2> QED  BY Zenon, <1>1, <1>2, <2>2 DEF Written
<1>6. mpc' \in MicroAddresses
  BY <1>2, <1>4, NextAddressType DEF IsMicroWord
<1>7. doingRd' \in BOOLEAN /\ doingFetch' \in BOOLEAN
  <2>1. ("read" \in w.mem) = TRUE \/ ("read" \in w.mem) = FALSE
    OBVIOUS
  <2>2. ("fetch" \in w.mem) = TRUE \/ ("fetch" \in w.mem) = FALSE
    OBVIOUS
  <2>3. TRUE \in BOOLEAN /\ FALSE \in BOOLEAN
    OBVIOUS
  <2> QED  BY Zenon, <1>2, <2>1, <2>2, <2>3
<1>8. /\ program' \in Programs /\ result' \in Word
      /\ status' \in {"start", "run", "exited", "halted", "undefined"}
  BY <1>1, <1>2
<1> QED  BY <1>3, <1>4, <1>5, <1>6, <1>7, <1>8 DEF Mic1TypeOK

\* mic1_cycle on any word of the control store.
LEMMA CycleType == Mic1TypeOK /\ Cycle => Mic1TypeOK'
<1> SUFFICES ASSUME Mic1TypeOK, Cycle PROVE Mic1TypeOK'
  OBVIOUS
<1>1. status = "run" /\ FetchIsDefined
  BY DEF Cycle
<1>2. PICK r \in RandomWords :
        Clock(word, Shifted(word, AluResult(word, reg["H"], OnBBus(word, r), r)))
  BY DEF Cycle
<1>3. IsMicroWord(word)
  BY MicroprogramAssumption DEF word, Mic1TypeOK
<1>4. word.alu \in Alu
  BY <1>3 DEF IsMicroWord
<1>5. r \in Word
  BY MicroprogramAssumption
<1>6. reg["H"] \in Word
  BY DEF Mic1TypeOK, Registers
<1>7. Shifted(word, AluResult(word, reg["H"], OnBBus(word, r), r)) \in Word
  BY <1>4, <1>5, <1>6, OnBBusType, AluResultType, ShiftedType
<1> QED  BY <1>1, <1>2, <1>3, <1>7, ClockType

\* Every other step leaves the machine as it is.
LEMMA StepType == Mic1TypeOK /\ [Next]_mic1Vars => Mic1TypeOK'
<1> SUFFICES ASSUME Mic1TypeOK, [Next]_mic1Vars PROVE Mic1TypeOK'
  OBVIOUS
<1>1. CASE Load  BY <1>1, LoadType
<1>2. CASE Cycle  BY <1>2, CycleType
<1>3. CASE Halt
  <2>1. reg["TOS"] \in Word
    BY DEF Mic1TypeOK, Registers
  <2> QED  BY <1>3, <2>1 DEF Halt, Mic1TypeOK
<1>4. CASE RefuseArgument  BY <1>4 DEF RefuseArgument, Mic1TypeOK
<1>5. CASE OutOfBounds  BY <1>5 DEF OutOfBounds, Mic1TypeOK
<1>6. CASE UNCHANGED mic1Vars  BY <1>6 DEF mic1Vars, Mic1TypeOK
<1> QED  BY <1>1, <1>2, <1>3, <1>4, <1>5, <1>6 DEF Next, Stopped

\* No microprogram, be it one that an assembler refuses, makes mic1 leave its
\* control store, or gets a value into a register that its type does not have.
THEOREM Mic1TypeCorrect == Spec => []Mic1TypeOK
BY InitType, StepType, PTL DEF Spec

\* Nor does the trace make a difference.
THEOREM TracedTypeCorrect == TracedSpec => []Mic1TypeOK
<1>1. TracedInit => Mic1TypeOK
  BY InitType DEF TracedInit
<1>2. Mic1TypeOK /\ [TracedNext]_mic1IjvmVars => Mic1TypeOK'
  <2>1. [TracedNext]_mic1IjvmVars => [Next]_mic1Vars
    BY DEF TracedNext, mic1IjvmVars
  <2> QED  BY <2>1, StepType
<1> QED  BY <1>1, <1>2, PTL DEF TracedSpec
=============================================================================
