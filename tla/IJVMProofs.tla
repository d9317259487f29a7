----------------------------- MODULE IJVMProofs -----------------------------
(***************************************************************************)
(* What the interpreter of src/ijvm.c keeps true of its one unchecked      *)
(* memory, for every size of memory and every program:                     *)
(*   - its registers and words stay in their C types;                      *)
(*   - the frames of the methods being executed stay apart, each with the  *)
(*     words it is to return to, as long as the program is lawful;         *)
(*   - so the code and the constants stay those of the image, and only the *)
(*     return of main ends the main loop.                                  *)
(***************************************************************************)
EXTENDS IJVMRefinement, ImageProofs, SequenceTheorems

\* The opcodes that the proofs tell apart.
LEMMA OpcodeValues ==
  /\ OP.BIPUSH = 16 /\ OP.DUP = 89 /\ OP.GOTO = 167 /\ OP.IADD = 96 /\ OP.IAND = 126
  /\ OP.IFEQ = 153 /\ OP.IFLT = 155 /\ OP.IF_ICMPEQ = 159 /\ OP.IINC = 132
  /\ OP.ILOAD = 21 /\ OP.INVOKEVIRTUAL = 182 /\ OP.IOR = 128 /\ OP.IRETURN = 172
  /\ OP.ISTORE = 54 /\ OP.ISUB = 100 /\ OP.LDC_W = 19 /\ OP.NOP = 0 /\ OP.POP = 87
  /\ OP.SWAP = 95 /\ OP.WIDE = 196
BY DEF OP

\* Where an opcode ends, and the words that it touches.
LEMMA OpcodeAfter ==
  /\ Opcode = OP.BIPUSH => After = pc + 2
  /\ Opcode \in {OP.ILOAD, OP.ISTORE} => After = IF wide THEN pc + 3 ELSE pc + 2
  /\ Opcode \in {OP.GOTO, OP.IFEQ, OP.IFLT, OP.IF_ICMPEQ, OP.IINC,
                 OP.INVOKEVIRTUAL, OP.LDC_W} => After = pc + 3
  /\ Opcode \notin {OP.BIPUSH, OP.ILOAD, OP.ISTORE, OP.GOTO, OP.IFEQ, OP.IFLT, OP.IF_ICMPEQ,
                    OP.IINC, OP.INVOKEVIRTUAL, OP.LDC_W} => After = pc + 1
BY OpcodeValues DEF After

\* The same, opcode by opcode, for the words touched.
LEMMA OpcodeOperands ==
  /\ Opcode \in {OP.IADD, OP.IAND, OP.IOR, OP.ISUB, OP.IF_ICMPEQ, OP.SWAP} => Operands = {sp - 1, sp}
  /\ Opcode \in {OP.IFEQ, OP.IFLT, OP.POP} => Operands = {sp}
  /\ Opcode = OP.BIPUSH => Operands = {sp + 1}
  /\ Opcode = OP.DUP => Operands = {sp, sp + 1}
  /\ Opcode = OP.IINC => Operands = {lv + Method(pc + 1)}
  /\ Opcode = OP.ILOAD => Operands = {lv + Variable, sp + 1}
  /\ Opcode = OP.ISTORE => Operands = {lv + Variable, sp}
  /\ Opcode = OP.LDC_W => Operands = {cpp + Index, sp + 1}
  /\ Opcode = OP.INVOKEVIRTUAL /\ Index = GETCHAR => Operands = {sp}
  /\ Opcode = OP.INVOKEVIRTUAL /\ Index = PUTCHAR => Operands = {sp - 1, sp}
  /\ Opcode = OP.INVOKEVIRTUAL /\ Index # GETCHAR /\ Index # PUTCHAR => Operands = {}
  /\ Opcode \notin {OP.IADD, OP.IAND, OP.IOR, OP.ISUB, OP.IF_ICMPEQ, OP.SWAP, OP.IFEQ,
                    OP.IFLT, OP.POP, OP.BIPUSH, OP.DUP, OP.IINC, OP.ILOAD, OP.ISTORE,
                    OP.LDC_W, OP.INVOKEVIRTUAL} => Operands = {}
<1> DEFINE op == Opcode
<1>x1. GETCHAR # PUTCHAR
  BY SMT DEF GETCHAR, PUTCHAR
<1>b. /\ Operands =
          CASE op \in {OP.IADD, OP.IAND, OP.IOR, OP.ISUB, OP.IF_ICMPEQ, OP.SWAP} ->
                 {sp - 1, sp}
            [] op \in {OP.IFEQ, OP.IFLT, OP.POP} -> {sp}
            [] op = OP.BIPUSH -> {sp + 1}
            [] op = OP.DUP -> {sp, sp + 1}
            [] op = OP.IINC -> {lv + Method(pc + 1)}
            [] op = OP.ILOAD -> {lv + Variable, sp + 1}
            [] op = OP.ISTORE -> {lv + Variable, sp}
            [] op = OP.LDC_W -> {cpp + Index, sp + 1}
            [] op = OP.INVOKEVIRTUAL /\ Index = GETCHAR -> {sp}
            [] op = OP.INVOKEVIRTUAL /\ Index = PUTCHAR -> {sp - 1, sp}
            [] OTHER -> {}
  BY DEF Operands
<1> HIDE DEF op
<1>1. op \in {OP.IADD, OP.IAND, OP.IOR, OP.ISUB, OP.IF_ICMPEQ, OP.SWAP} => Operands = {sp - 1, sp}
  BY <1>b, OpcodeValues
<1>2. op \in {OP.IFEQ, OP.IFLT, OP.POP} => Operands = {sp}
  BY <1>b, OpcodeValues
<1>3. op = OP.BIPUSH => Operands = {sp + 1}
  BY <1>b, OpcodeValues
<1>4. op = OP.DUP => Operands = {sp, sp + 1}
  BY <1>b, OpcodeValues
<1>5. op = OP.IINC => Operands = {lv + Method(pc + 1)}
  BY <1>b, OpcodeValues
<1>6. op = OP.ILOAD => Operands = {lv + Variable, sp + 1}
  BY <1>b, OpcodeValues
<1>7. op = OP.ISTORE => Operands = {lv + Variable, sp}
  BY <1>b, OpcodeValues
<1>8. op = OP.LDC_W => Operands = {cpp + Index, sp + 1}
  BY <1>b, OpcodeValues
<1>9. op = OP.INVOKEVIRTUAL /\ Index = GETCHAR => Operands = {sp}
  BY <1>x1, <1>b, OpcodeValues
<1>10. op = OP.INVOKEVIRTUAL /\ Index = PUTCHAR => Operands = {sp - 1, sp}
  BY <1>x1, <1>b, OpcodeValues
<1>11. op = OP.INVOKEVIRTUAL /\ Index # GETCHAR /\ Index # PUTCHAR => Operands = {}
  BY <1>x1, <1>b, OpcodeValues
<1>12. op \notin {OP.IADD, OP.IAND, OP.IOR, OP.ISUB, OP.IF_ICMPEQ, OP.SWAP, OP.IFEQ,
                    OP.IFLT, OP.POP, OP.BIPUSH, OP.DUP, OP.IINC, OP.ILOAD, OP.ISTORE,
                    OP.LDC_W, OP.INVOKEVIRTUAL} => Operands = {}
  BY <1>x1, <1>b, OpcodeValues
<1> QED  BY Zenon, <1>1, <1>2, <1>3, <1>4, <1>5, <1>6, <1>7, <1>8, <1>9, <1>10, <1>11, <1>12 DEF op

\* The bytes of the next opcode are bytes of the memory.
LEMMA OpcodeBytes ==
  ASSUME TypeOK, InBounds
  PROVE  /\ program \in Programs
         /\ pc \in Nat /\ sp \in Nat /\ lv \in Nat
         /\ Opcode \in Byte
         /\ After \in Int /\ pc < After /\ After <= pc + 3
         /\ \A a \in Int : pc <= a /\ a < After => a \in ByteAddress /\ Method(a) \in Byte
         /\ Operands \subseteq Address
<1>1. /\ mem \in [Address -> Word] /\ program \in Programs
      /\ pc \in Nat /\ sp \in Nat /\ lv \in Nat
  BY WordBounds DEF TypeOK
<1>2. pc \in ByteAddress /\ pc .. After - 1 \subseteq ByteAddress /\ Operands \subseteq Address
  BY DEF InBounds
<1>3. After \in {pc + 1, pc + 2, pc + 3}
  BY DEF After
<1>4. After \in Int /\ pc < After /\ After <= pc + 3
  BY <1>1, <1>3
<1>5. ASSUME NEW a \in Int, pc <= a, a < After PROVE a \in ByteAddress /\ Method(a) \in Byte
  <2>1. a \in pc .. After - 1
    BY <1>1, <1>4, <1>5
  <2> QED  BY <1>1, <1>2, <2>1, ByteOfType DEF Method
<1>6. Opcode \in Byte
  BY <1>1, <1>2, ByteOfType DEF Method, Opcode
<1> QED  BY <1>1, <1>2, <1>4, <1>5, <1>6

\* A 16-bit operand, and a byte as a signed number.
LEMMA Operand16 ==
  ASSUME TypeOK, InBounds, After = pc + 3
  PROVE  Index \in Int /\ 0 <= Index /\ Index <= 65535 /\ Target \in Int
<1>1. pc + 1 \in ByteAddress /\ pc + 2 \in ByteAddress /\ pc \in Nat
  BY OpcodeBytes
<1>2. mem \in [Address -> Word] /\ pc + 1 + 1 = pc + 2
  BY <1>1 DEF TypeOK
<1>3. Index \in Int /\ 0 <= Index /\ Index <= 65535
  BY SMT, <1>1, <1>2, UInt16OfType DEF Index, UInt16
<1>4. Target = pc + (IF Index % 65536 < 32768 THEN Index % 65536 ELSE (Index % 65536) - 65536)
  BY SMT DEF Target, Signed, Index
<1>5. Target \in Int
  BY SMT, <1>1, <1>3, <1>4
<1> QED  BY SMT, <1>3, <1>5

\* A byte read as an int8 is a word.
LEMMA SignedByte ==
  ASSUME NEW b \in Byte
  PROVE  Signed(b, 256) \in Int /\ Signed(b, 256) \in Word
<1>1. Signed(b, 256) \in Int /\ -128 <= Signed(b, 256) /\ Signed(b, 256) < 128
  BY SMT DEF Signed, Byte
<1> QED  BY <1>1, WordBounds, WordModHalves

\* The steps that end in Goto, and a call, keep every register a register.
LEMMA GotoType ==
  ASSUME TypeOK, NEW newPc \in Int, NEW newSp \in Int, NEW newMem \in [Address -> Word],
         Goto(newPc, newSp, newMem)
  PROVE  TypeOK'
BY ToWordBounds DEF TypeOK, Goto

\* A call keeps every register a register.
LEMMA InvokeType ==
  ASSUME TypeOK, NEW m \in [Address -> Word], NEW top \in Nat, NEW return \in Int,
         NEW index, Invocation(m, top, index), Invoke(m, top, return, index)
  PROVE  mem' \in [Address -> Word] /\ sp' \in UWord /\ lv' \in UWord /\ pc' \in UWord
           /\ wide' \in BOOLEAN
<1> DEFINE address == ToUWord(m[cpp + index])
           nargs == UInt16Of(m, address)
           nlocals == UInt16Of(m, address + 2)
           newSp == top + nlocals + 2
           newLv == LinkPointer(newSp, nargs, nlocals)
<1>1. cpp + index \in Address /\ address \in ByteAddress /\ address + 3 \in ByteAddress
  BY DEF Invocation
<1> HIDE DEF address
<1>2. /\ {top + nlocals + 1, top + nlocals + 1 + 1} \subseteq Address
      /\ (top + nlocals + 1) - nargs - nlocals \in Address
  BY DEF Invocation, address
<1>3. /\ mem' = [m EXCEPT ![newSp - 1] = ToWord(return), ![newSp] = ToWord(lv),
                          ![newLv] = newSp - 1]
      /\ sp' = newSp /\ lv' = newLv /\ pc' = address + 4 /\ wide' = FALSE
  BY DEF Invoke, address
<1>4. newLv = newSp - nargs - nlocals - 1
  BY DEF LinkPointer
<1>5. address \in Nat /\ address + 1 \in ByteAddress /\ address + 2 \in ByteAddress
  <2>1. address + 3 \in Nat /\ address \in Nat
    BY <1>1, ByteAddressBounds
  <2> QED  BY <1>1, <2>1, ByteAddressBounds
<1>6. nargs \in Int /\ nlocals \in Int
  <2>1. address + 2 + 1 = address + 3
    BY <1>5
  <2> QED  BY SMT, <1>1, <1>5, <2>1, UInt16OfType
<1>7. /\ newSp - 1 \in Address /\ newSp \in Address /\ newLv \in Address
  BY <1>2, <1>4, <1>6
<1>8. pc' \in UWord
  <2>1. address + 3 + 1 \in UWord /\ address + 3 + 1 = address + 4
    BY <1>1, <1>5, ByteAddressBounds
  <2> QED  BY <1>3, <2>1
<1>9. ToWord(return) \in Word /\ ToWord(lv) \in Word /\ newSp - 1 \in Word
  BY <1>7, ToWordBounds, AddressesAreWords, WordBounds DEF TypeOK
<1> HIDE DEF newSp, newLv
<1> QED  BY <1>3, <1>7, <1>8, <1>9, AddressesAreWords

\* Type correctness, one action at a time.
LEMMA InitType == Init => TypeOK
<1> SUFFICES ASSUME Init PROVE TypeOK
  OBVIOUS
<1>1. 0 \in Word /\ 0 \in UWord /\ INITIAL_PC \in UWord
  BY WordBounds, WordModHalves DEF INITIAL_PC
<1>2. program \in Programs /\ input \in Seq(Byte) /\ output \in Seq(Byte)
  BY ProgramParts DEF Init
<1> QED  BY <1>1, <1>2 DEF Init, TypeOK

\* The call of main.
LEMMA StartMainType == TypeOK /\ StartMain => TypeOK'
<1> SUFFICES ASSUME TypeOK, StartMain PROVE TypeOK'
  OBVIOUS
<1> DEFINE m == WithArguments(program, Loaded(program))
<1>1. program \in Programs /\ ArgumentsAreNumbers(program) /\ Fits /\ CountMatches
  BY DEF TypeOK, StartMain
<1>2. m \in [Address -> Word]
  BY <1>1, LoadedType, WithArgumentsType
<1>3. ArgumentsTop(program) \in Nat
  BY <1>1, ProgramParts
<1>4. /\ Invocation(m, ArgumentsTop(program), program.main)
      /\ Invoke(m, ArgumentsTop(program), INITIAL_PC, program.main)
  BY <1>1 DEF Fits, StartMain
<1>5. INITIAL_PC \in Int
  BY DEF INITIAL_PC
<1> HIDE DEF m
<1>6. mem' \in [Address -> Word] /\ sp' \in UWord /\ lv' \in UWord /\ pc' \in UWord /\ wide' \in BOOLEAN
  BY <1>2, <1>3, <1>4, <1>5, InvokeType
<1> QED  BY <1>6 DEF TypeOK, StartMain

\* A call of a method.
LEMMA InvokeVirtualType == TypeOK /\ InvokeVirtual => TypeOK'
<1> SUFFICES ASSUME TypeOK, InvokeVirtual PROVE TypeOK'
  OBVIOUS
<1>1. InBounds /\ Opcode = OP.INVOKEVIRTUAL /\ Index < GETCHAR
  BY DEF InvokeVirtual, Executing
<1>2. Invocation(mem, sp, Index) /\ Invoke(mem, sp, After, Index)
  BY <1>1 DEF InBounds, InvokeVirtual
<1>3. mem \in [Address -> Word] /\ sp \in Nat /\ After \in Int
  BY <1>1, OpcodeBytes DEF TypeOK
<1>4. mem' \in [Address -> Word] /\ sp' \in UWord /\ lv' \in UWord /\ pc' \in UWord /\ wide' \in BOOLEAN
  BY <1>2, <1>3, InvokeType
<1> QED  BY <1>4 DEF TypeOK, InvokeVirtual

\* A character, or EOF, is a word.
LEMMA GetcharType == TypeOK /\ Getchar => TypeOK'
<1> SUFFICES ASSUME TypeOK, Getchar PROVE TypeOK'
  OBVIOUS
<1>1. InBounds /\ Opcode = OP.INVOKEVIRTUAL /\ Index = GETCHAR
  BY DEF Getchar, Executing
<1>2. mem \in [Address -> Word] /\ After \in Int /\ input \in Seq(Byte)
  BY <1>1, OpcodeBytes DEF TypeOK
<1>3. mem' \in [Address -> Word] /\ input' \in Seq(Byte)
  <2>1. EOF \in Word
    BY BytesAreWords DEF EOF
  <2>2. CASE input = <<>>
    BY <1>2, <2>1, <2>2 DEF Getchar
  <2>3. CASE input # <<>>
    <3>1. Head(input) \in Byte /\ Tail(input) \in Seq(Byte)
      BY <1>2, <2>3
    <3> QED  BY <1>2, <2>3, <3>1, BytesAreWords DEF Getchar
  <2> QED  BY <2>2, <2>3
<1>4. pc' \in UWord
  BY <1>2, ToWordBounds DEF Getchar
<1> QED  BY <1>3, <1>4 DEF TypeOK, Getchar

\* What is written is a byte.
LEMMA PutcharType == TypeOK /\ Putchar => TypeOK'
<1> SUFFICES ASSUME TypeOK, Putchar PROVE TypeOK'
  OBVIOUS
<1>1. InBounds /\ Opcode = OP.INVOKEVIRTUAL /\ Index = PUTCHAR
  BY DEF Putchar, Executing
<1>2. mem \in [Address -> Word] /\ After \in Int /\ sp \in Nat /\ Operands \subseteq Address
  BY <1>1, OpcodeBytes DEF TypeOK
<1>3. sp \in Address
  BY <1>1, <1>2, OpcodeOperands
<1>4. Unsigned(mem[sp], 256) \in Byte
  <2>1. mem[sp] \in Int
    BY <1>2, <1>3, WordBounds
  <2> QED  BY <2>1 DEF Unsigned, Byte
<1>5. pc' \in UWord /\ sp' \in UWord
  BY <1>2, ToWordBounds DEF Putchar
<1>6. mem' \in [Address -> Word] /\ output' \in Seq(Byte)
  <2>1. mem' = [mem EXCEPT ![sp - 1] = Unsigned(mem[sp], 256)]
        /\ output' = Append(output, Unsigned(mem[sp], 256))
    BY DEF Putchar
  <2>2. output \in Seq(Byte)
    BY DEF TypeOK
  <2>3. mem' \in [Address -> Word]
    BY <1>2, <1>4, <2>1, BytesAreWords
  <2>4. Append(output, Unsigned(mem[sp], 256)) \in Seq(Byte)
    BY <1>4, <2>2
  <2> QED  BY <2>1, <2>3, <2>4
<1> QED  BY <1>5, <1>6 DEF TypeOK, Putchar

\* The saved pc and lv are words, read as registers.
LEMMA IreturnType == TypeOK /\ Ireturn => TypeOK'
<1> SUFFICES ASSUME TypeOK, Ireturn PROVE TypeOK'
  OBVIOUS
<1>1. {lv, sp} \subseteq Address /\ {mem[lv], mem[lv] + 1} \subseteq Address
  BY DEF Ireturn, Executing, InBounds
<1> DEFINE returned == [mem EXCEPT ![lv] = mem[sp]]
<1>2. returned \in [Address -> Word]
  BY <1>1 DEF TypeOK
<1>3. returned[mem[lv]] \in Int /\ returned[mem[lv] + 1] \in Int
  BY <1>1, <1>2, WordBounds
<1>4. /\ mem' = returned /\ sp' = lv /\ pc' = ToUWord(returned[mem[lv]])
      /\ lv' = ToUWord(returned[mem[lv] + 1])
  BY DEF Ireturn
<1> HIDE DEF returned
<1>5. mem' \in [Address -> Word] /\ sp' \in UWord /\ lv' \in UWord /\ pc' \in UWord
  BY <1>2, <1>3, <1>4, ToWordBounds DEF TypeOK
<1> QED  BY <1>5 DEF TypeOK, Ireturn

\* An opcode that only moves on, or only writes one word.
LEMMA StackWordType ==
  ASSUME TypeOK, InBounds, NEW value \in Int, NEW newPc \in Int, NEW newSp \in Int,
         NEW w, Goto(newPc, newSp, [mem EXCEPT ![w] = ToWord(value)])
  PROVE  TypeOK'
<1>1. [mem EXCEPT ![w] = ToWord(value)] \in [Address -> Word]
  BY ToWordBounds DEF TypeOK
<1> QED  BY <1>1, GotoType

\* The words on top of the stack.
LEMMA ReadWord ==
  ASSUME TypeOK, NEW w \in Address
  PROVE  mem[w] \in Int /\ mem[w] \in Word
BY WordBounds DEF TypeOK

\* Every opcode keeps the types.
LEMMA OpcodeType == TypeOK /\ ExecuteOpcode => TypeOK'
<1> SUFFICES ASSUME TypeOK, InBounds, ExecuteOpcode PROVE TypeOK'
  BY DEF ExecuteOpcode, Executing, Bipush, Dup, GotoOp, Iadd, Iand, Ifeq, Iflt, IfIcmpeq,
         Iinc, Iload, InvokeVirtual, Getchar, Putchar, UnknownBuiltin, Ior, Ireturn, Istore,
         Isub, LdcW, Nop, Pop, Swap, Wide, Unknown
<1>1. /\ mem \in [Address -> Word] /\ sp \in Int /\ After \in Int /\ pc \in Int /\ lv \in Int
      /\ sp - 1 \in Int /\ sp + 1 \in Int /\ sp - 2 \in Int /\ sp - 0 = sp
      /\ Operands \subseteq Address
  BY OpcodeBytes DEF TypeOK
<1>2. CASE Bipush
  <2>1. Opcode = OP.BIPUSH
    BY <1>2 DEF Bipush, Executing
  <2>2. Method(pc + 1) \in Byte
    BY <1>1, <2>1, OpcodeAfter, OpcodeBytes
  <2>3. Signed(Method(pc + 1), 256) \in Int
    BY <2>2, SignedByte
  <2> QED  BY ZenonT(60), <1>1, <1>2, <2>3, StackWordType DEF Bipush, Pushed
<1>3. CASE Dup
  <2>1. sp \in Address
    BY <1>1, <1>3, OpcodeOperands DEF Dup, Executing
  <2> QED  BY Zenon, <1>1, <1>3, <2>1, ReadWord, StackWordType DEF Dup, Pushed
<1>4. CASE GotoOp
  <2>1. After = pc + 3
    BY <1>4, OpcodeAfter DEF GotoOp, Executing
  <2> QED  BY <1>1, <1>4, <2>1, Operand16, GotoType DEF GotoOp
<1>5. ASSUME Opcode \in {OP.IADD, OP.ISUB, OP.IAND, OP.IOR, OP.IF_ICMPEQ, OP.SWAP}
      PROVE  /\ sp \in Address /\ sp - 1 \in Address
             /\ mem[sp] \in Int /\ mem[sp - 1] \in Int
  <2>1. {sp - 1, sp} \subseteq Address
    BY <1>1, <1>5, OpcodeOperands
  <2> QED  BY <2>1, ReadWord
<1>6. ASSUME NEW value \in Int, Binary(value)
      PROVE  TypeOK'
  BY Zenon, <1>1, <1>6, StackWordType DEF Binary
<1>7. CASE Iadd
  <2>1. mem[sp] + mem[sp - 1] \in Int
    BY <1>5, <1>7 DEF Iadd, Executing
  <2> QED  BY <1>6, <1>7, <2>1 DEF Iadd
<1>8. CASE Isub
  <2>1. mem[sp - 1] - mem[sp] \in Int
    BY <1>5, <1>8 DEF Isub, Executing
  <2> QED  BY <1>6, <1>8, <2>1 DEF Isub
<1>9. CASE Iand
  <2>1. BitAnd(mem[sp], mem[sp - 1]) \in Int
    BY <1>5, <1>9, BitAndType, WordBounds DEF Iand, Executing
  <2> QED  BY <1>6, <1>9, <2>1 DEF Iand
<1>10. CASE Ior
  <2>1. BitOr(mem[sp], mem[sp - 1]) \in Int
    BY <1>5, <1>10, BitOrType, WordBounds DEF Ior, Executing
  <2> QED  BY <1>6, <1>10, <2>1 DEF Ior
<1>11. ASSUME Opcode \in {OP.IFEQ, OP.IFLT, OP.IF_ICMPEQ},
              NEW taken, NEW popped \in Int, Branch(taken, popped)
       PROVE  TypeOK'
  <2>1. Target \in Int
    BY <1>11, OpcodeAfter, Operand16
  <2>2. (IF taken THEN Target ELSE After) \in Int /\ sp - popped \in Int
    BY <1>1, <1>11, <2>1
  <2> QED  BY Zenon, <1>1, <1>11, <2>2, GotoType DEF Branch
<1>12. CASE Ifeq
  BY <1>11, <1>12 DEF Ifeq, Executing
<1>13. CASE Iflt
  BY <1>11, <1>13 DEF Iflt, Executing
<1>14. CASE IfIcmpeq
  BY <1>11, <1>14 DEF IfIcmpeq, Executing
<1>15. CASE Iinc
  <2>1. Opcode = OP.IINC /\ After = pc + 3
    BY <1>15, OpcodeAfter DEF Iinc, Executing
  <2>2. lv + Method(pc + 1) \in Address
    BY <1>1, <2>1, OpcodeOperands
  <2>3. Signed(Method(pc + 2), 256) \in Int
    BY <1>1, <2>1, OpcodeBytes, SignedByte
  <2>4. mem[lv + Method(pc + 1)] + Signed(Method(pc + 2), 256) \in Int
    BY <2>2, <2>3, ReadWord
  <2>5. Goto(After, sp, [mem EXCEPT ![lv + Method(pc + 1)] =
               ToWord(mem[lv + Method(pc + 1)] + Signed(Method(pc + 2), 256))])
    BY <1>15 DEF Iinc
  <2> QED  BY ZenonT(60), <1>1, <2>4, <2>5, StackWordType
<1>16. CASE Iload
  <2>1. lv + Variable \in Address
    BY <1>1, <1>16, OpcodeOperands DEF Iload, Executing
  <2> QED  BY Zenon, <1>1, <1>16, <2>1, ReadWord, StackWordType DEF Iload, Pushed
<1>17. CASE Istore
  <2>1. sp \in Address
    BY <1>1, <1>17, OpcodeOperands DEF Istore, Executing
  <2>2. [mem EXCEPT ![lv + Variable] = mem[sp]] \in [Address -> Word]
    BY <1>1, <2>1
  <2> QED  BY Zenon, <1>1, <1>17, <2>2, GotoType DEF Istore
<1>18. CASE LdcW
  <2>1. cpp + Index \in Address
    BY <1>1, <1>18, OpcodeOperands DEF LdcW, Executing
  <2> QED  BY Zenon, <1>1, <1>18, <2>1, ReadWord, StackWordType DEF LdcW, Pushed
<1>19. CASE Nop
  BY Zenon, <1>1, <1>19, GotoType DEF Nop
<1>20. CASE Pop
  BY Zenon, <1>1, <1>20, GotoType DEF Pop
<1>21. CASE Swap
  <2>1. sp \in Address /\ sp - 1 \in Address
    BY <1>5, <1>21 DEF Swap, Executing
  <2>2. [mem EXCEPT ![sp] = mem[sp - 1], ![sp - 1] = mem[sp]] \in [Address -> Word]
    BY <1>1, <2>1
  <2> QED  BY Zenon, <1>1, <1>21, <2>2, GotoType DEF Swap
<1>22. CASE Wide
  <2>1. pc' \in UWord
    BY <1>1, <1>22, ToWordBounds DEF Wide
  <2> QED  BY <1>22, <2>1 DEF Wide, TypeOK
<1>23. CASE Unknown
  BY Zenon, <1>1, <1>23, GotoType DEF Unknown
<1>24. CASE UnknownBuiltin
  BY Zenon, <1>1, <1>24, GotoType DEF UnknownBuiltin
<1>25. CASE InvokeVirtual
  BY <1>25, InvokeVirtualType
<1>26. CASE Getchar
  BY <1>26, GetcharType
<1>27. CASE Putchar
  BY <1>27, PutcharType
<1>28. CASE Ireturn
  BY <1>28, IreturnType
<1> QED
  BY Zenon, <1>2, <1>3, <1>4, <1>7, <1>8, <1>9, <1>10, <1>12, <1>13, <1>14, <1>15, <1>16, <1>17,
     <1>18, <1>19, <1>20, <1>21, <1>22, <1>23, <1>24, <1>25, <1>26, <1>27, <1>28
  DEF ExecuteOpcode

\* And so does every step.
LEMMA StepType == TypeOK /\ [Next]_vars => TypeOK'
<1> SUFFICES ASSUME TypeOK, [Next]_vars PROVE TypeOK'
  OBVIOUS
<1>1. CASE StartMain
  BY <1>1, StartMainType
<1>2. CASE ExecuteOpcode
  BY <1>2, OpcodeType
<1>3. CASE PrintResult
  <2>1. mem[sp] \in Word
    BY <1>3 DEF PrintResult, TypeOK
  <2> QED  BY <1>3, <2>1 DEF PrintResult, TypeOK
<1>4. CASE RefuseArguments
  BY <1>4 DEF RefuseArguments, TypeOK
<1>5. CASE OutOfBounds
  BY <1>5 DEF OutOfBounds, TypeOK
<1>6. CASE UNCHANGED vars
  BY <1>6 DEF vars, TypeOK
<1> QED  BY <1>1, <1>2, <1>3, <1>4, <1>5, <1>6 DEF Next, Terminated

\* Whatever program is executed, lawful or not, sp, lv and pc stay uint32, the
\* words of the memory and the result int32, and only characters are read and
\* written: every access that could leave the memory ends in "undefined" first.
THEOREM IJVMTypeCorrect == Spec => []TypeOK
<1> QED  BY InitType, StepType, PTL DEF Spec

-----------------------------------------------------------------------------
(* Frames in the stack. *)

\* The words that the method called last may write to: its variables, and those
\* above the two that it is to return to.
Own(m, c, w) ==
  LET link == m[c[Len(c)]] IN (c[Len(c)] < w /\ w < link) \/ link + 1 < w

\* The first elements of a sequence.
LEMMA Prefix ==
  ASSUME NEW S, NEW s \in Seq(S), NEW k \in Nat, k <= Len(s)
  PROVE  /\ SubSeq(s, 1, k) \in Seq(S) /\ Len(SubSeq(s, 1, k)) = k
         /\ DOMAIN SubSeq(s, 1, k) = 1 .. k
         /\ \A i \in 1 .. k : SubSeq(s, 1, k)[i] = s[i]
<1>1. Len(s) \in Nat /\ 1 \in 1 .. Len(s) + 1 /\ k \in 1 - 1 .. Len(s)
  OBVIOUS
<1>2. /\ SubSeq(s, 1, k) \in Seq(S) /\ Len(SubSeq(s, 1, k)) = k - 1 + 1
      /\ \A i \in 1 .. k - 1 + 1 : SubSeq(s, 1, k)[i] = s[1 + i - 1]
  BY <1>1, SubSeqProperties
<1>3. \A i \in 1 .. k : SubSeq(s, 1, k)[i] = s[i]
  BY <1>2
<1> QED  BY <1>2, <1>3

\* The places that a chain of frames names are in the memory, apart from each
\* other, and none of them is among the words of the last frame.
LEMMA ChainFacts ==
  ASSUME program \in Programs, NEW m \in [Address -> Word], NEW c, NEW top, Chained(m, c, top)
  PROVE  /\ c \in Seq(Address) /\ Len(c) \in Nat /\ DOMAIN c = 1 .. Len(c)
         /\ top \in Address /\ top \in Int /\ InitialSp(program) \in Nat
         /\ \A i \in DOMAIN c :
              /\ i \in Int /\ 1 <= i /\ i <= Len(c)
              /\ c[i] \in Address /\ c[i] \in Int /\ m[c[i]] \in Int
              /\ m[c[i]] \in Address /\ m[c[i]] + 1 \in Address
              /\ InitialSp(program) < c[i] /\ c[i] < m[c[i]] /\ m[c[i]] < top
              /\ i < Len(c) => m[c[i]] + 1 < c[Len(c)]
              /\ i # Len(c) => i < Len(c)
              /\ ~Own(m, c, c[i]) /\ ~Own(m, c, m[c[i]]) /\ ~Own(m, c, m[c[i]] + 1)
<1>1. c \in Seq(Address) /\ Len(c) \in Nat /\ DOMAIN c = 1 .. Len(c)
  BY DEF Chained
<1>2. top \in Address /\ top \in Int /\ InitialSp(program) \in Nat
  BY ProgramParts DEF Chained, Address
<1>3. ASSUME NEW i \in DOMAIN c
      PROVE  /\ i \in Int /\ 1 <= i /\ i <= Len(c)
             /\ c[i] \in Address /\ c[i] \in Int /\ m[c[i]] \in Int
             /\ m[c[i]] \in Address /\ m[c[i]] + 1 \in Address
             /\ InitialSp(program) < c[i] /\ c[i] < m[c[i]] /\ m[c[i]] < top
             /\ i < Len(c) => m[c[i]] + 1 < c[Len(c)]
             /\ i # Len(c) => i < Len(c)
             /\ Len(c) \in DOMAIN c
  <2>1. i \in Int /\ 1 <= i /\ i <= Len(c) /\ Len(c) \in DOMAIN c
    BY <1>1
  <2>2. c[i] \in Address /\ c[i] \in Int /\ 0 <= c[i]
    <3>1. c[i] \in Address
      BY <1>1
    <3> QED  BY <3>1 DEF Address
  <2>3. m[c[i]] \in Int
    BY <2>2, WordBounds
  <2>4. InitialSp(program) < c[i] /\ c[i] < m[c[i]] /\ m[c[i]] < top
    BY DEF Chained
  <2>5. m[c[i]] \in Address /\ m[c[i]] + 1 \in Address
    BY <1>2, <2>2, <2>3, <2>4, AddressesAreWords DEF Address
  <2>6. i < Len(c) => m[c[i]] + 1 < c[Len(c)]
    BY <2>1 DEF Chained
  <2>7. i # Len(c) => i < Len(c)
    BY <1>1, <2>1
  <2> QED  BY <2>1, <2>2, <2>3, <2>4, <2>5, <2>6, <2>7
<1>4. ASSUME NEW i \in DOMAIN c
      PROVE  ~Own(m, c, c[i]) /\ ~Own(m, c, m[c[i]]) /\ ~Own(m, c, m[c[i]] + 1)
  <2> DEFINE a == c[i]    b == m[c[i]]    x == c[Len(c)]    y == m[c[Len(c)]]
  <2>1. a \in Int /\ b \in Int /\ x \in Int /\ y \in Int /\ a < b /\ x < y
    BY <1>3
  <2>2. b + 1 < x \/ (a = x /\ b = y)
    BY <1>3
  <2>3. \A w : Own(m, c, w) <=> (x < w /\ w < y) \/ y + 1 < w
    BY DEF Own
  <2> HIDE DEF a, b, x, y
  <2>4. ~Own(m, c, a) /\ ~Own(m, c, b) /\ ~Own(m, c, b + 1)
    BY <2>1, <2>2, <2>3
  <2> QED  BY <2>4 DEF a, b
<1> QED  BY Zenon, <1>1, <1>2, <1>3, <1>4

\* A method may write to its own words, and have any operands on its stack.
LEMMA ChainKept ==
  ASSUME program \in Programs, NEW m \in [Address -> Word], NEW n \in [Address -> Word],
         NEW c, NEW top, NEW newTop \in Address, Chained(m, c, top), c # <<>>,
         m[c[Len(c)]] < newTop, \A w \in Address : n[w] = m[w] \/ Own(m, c, w)
  PROVE  /\ Chained(n, c, newTop)
         /\ \A i \in DOMAIN c : /\ n[c[i]] = m[c[i]] /\ n[m[c[i]]] = m[m[c[i]]]
                                /\ n[m[c[i]] + 1] = m[m[c[i]] + 1]
         /\ \A w \in Address : w <= InitialSp(program) => n[w] = m[w]
<1>1. ASSUME NEW i \in DOMAIN c
      PROVE  n[c[i]] = m[c[i]] /\ n[m[c[i]]] = m[m[c[i]]] /\ n[m[c[i]] + 1] = m[m[c[i]] + 1]
  <2>1. /\ c[i] \in Address /\ m[c[i]] \in Address /\ m[c[i]] + 1 \in Address
        /\ ~Own(m, c, c[i]) /\ ~Own(m, c, m[c[i]]) /\ ~Own(m, c, m[c[i]] + 1)
    BY <1>1, ChainFacts
  <2> QED  BY Zenon, <2>1
<1>2. ASSUME NEW i \in DOMAIN c
      PROVE  n[c[i]] < newTop
  <2>1. /\ n[c[i]] = m[c[i]] /\ m[c[i]] \in Int
        /\ i = Len(c) \/ m[c[i]] + 1 < c[Len(c)]
        /\ Len(c) \in DOMAIN c
    BY <1>1, ChainFacts
  <2>2. c[Len(c)] \in Int /\ m[c[Len(c)]] \in Int /\ c[Len(c)] < m[c[Len(c)]] /\ newTop \in Int
    BY <2>1, ChainFacts DEF Address
  <2> QED  BY <2>1, <2>2
<1>3. Chained(n, c, newTop)
  <2> DEFINE P(i) == /\ InitialSp(program) < c[i] /\ c[i] < m[c[i]]
                     /\ i > 1 => m[m[c[i]] + 1] = c[i - 1]
                     /\ ToUWord(m[m[c[i]]]) = INITIAL_PC <=> i = 1
  <2>1. /\ c \in Seq(Address) /\ c[1] = InitialSp(program) + 1
        /\ \A i \in DOMAIN c : P(i)
        /\ \A i, j \in DOMAIN c : i < j => m[c[i]] + 1 < c[j]
    BY Zenon DEF Chained
  <2>2. ASSUME NEW i \in DOMAIN c
        PROVE  /\ InitialSp(program) < c[i] /\ c[i] < n[c[i]] /\ n[c[i]] < newTop
               /\ i > 1 => n[n[c[i]] + 1] = c[i - 1]
               /\ ToUWord(n[n[c[i]]]) = INITIAL_PC <=> i = 1
    <3>1. P(i)
      BY <2>1, <2>2
    <3> QED  BY Zenon, <1>1, <1>2, <3>1
  <2>3. \A i, j \in DOMAIN c : i < j => n[c[i]] + 1 < c[j]
    BY Zenon, <1>1, <2>1
  <2> QED  BY Zenon, <2>1, <2>2, <2>3 DEF Chained
<1>4. ASSUME NEW w \in Address, w <= InitialSp(program)
      PROVE  n[w] = m[w]
  <2>1. Len(c) \in DOMAIN c
    BY ChainFacts
  <2>2. /\ c[Len(c)] \in Int /\ InitialSp(program) < c[Len(c)] /\ InitialSp(program) \in Nat
        /\ c[Len(c)] < m[c[Len(c)]] /\ m[c[Len(c)]] \in Int /\ w \in Int
    BY <2>1, ChainFacts DEF Address
  <2>3. ~Own(m, c, w)
    BY <1>4, <2>2 DEF Own
  <2> QED  BY <2>3
<1> QED  BY <1>1, <1>3, <1>4

\* The words of memory that a call writes: the frame at link, above the frames of c.
FrameAdded(m, n, c, link, newTop) ==
  /\ n[link] = newTop - 1 /\ link < newTop - 1
  /\ IF c = <<>>
     THEN link = InitialSp(program) + 1 /\ ToUWord(n[newTop - 1]) = INITIAL_PC
     ELSE /\ m[c[Len(c)]] + 1 < link /\ n[newTop] = c[Len(c)]
          /\ ToUWord(n[newTop - 1]) # INITIAL_PC
  /\ \A w \in Address : n[w] = m[w] \/ link <= w

\* A call: a frame of a method above those of the others.
LEMMA ChainPush ==
  ASSUME program \in Programs, NEW m \in [Address -> Word], NEW n \in [Address -> Word],
         NEW c, NEW top, NEW link \in Address, NEW newTop \in Address, Chained(m, c, top),
         FrameAdded(m, n, c, link, newTop)
  PROVE  /\ Chained(n, Append(c, link), newTop)
         /\ \A w \in Address : w <= InitialSp(program) => n[w] = m[w]
<1> USE DEF FrameAdded
<1> DEFINE k == Len(c) + 1
           d == Append(c, link)
<1>1. /\ c \in Seq(Address) /\ Len(c) \in Nat /\ InitialSp(program) \in Nat
      /\ link \in Int /\ newTop \in Int
  BY ChainFacts DEF Address
<1>2. /\ d \in Seq(Address) /\ DOMAIN d = 1 .. k /\ d[k] = link /\ d # <<>>
      /\ \A i \in DOMAIN d : i \in Int /\ (i = k \/ (i \in DOMAIN c /\ d[i] = c[i] /\ i < k))
      /\ k \in Int /\ k - 1 = Len(c)
  BY <1>1
<1>3. /\ InitialSp(program) < link
      /\ \A i \in DOMAIN c : m[c[i]] + 1 < link
  <2>1. CASE c = <<>>
    BY <1>1, <2>1
  <2>2. CASE c # <<>>
    <3>1. Len(c) \in DOMAIN c /\ m[c[Len(c)]] + 1 < link
      BY <1>1, <2>2
    <3>2. ASSUME NEW i \in DOMAIN c PROVE m[c[i]] + 1 < link /\ InitialSp(program) < link
      <4>1. m[c[i]] \in Int /\ (i = Len(c) \/ m[c[i]] + 1 < c[Len(c)])
            /\ InitialSp(program) < c[i] /\ c[i] < m[c[i]] /\ c[i] \in Int
        BY ChainFacts
      <4>2. c[Len(c)] \in Int /\ m[c[Len(c)]] \in Int /\ c[Len(c)] < m[c[Len(c)]]
        BY <3>1, ChainFacts
      <4> QED  BY <1>1, <3>1, <4>1, <4>2
    <3> QED  BY <3>1, <3>2
  <2> QED  BY <2>1, <2>2
<1>4. ASSUME NEW i \in DOMAIN c
      PROVE  n[c[i]] = m[c[i]] /\ n[m[c[i]]] = m[m[c[i]]] /\ n[m[c[i]] + 1] = m[m[c[i]] + 1]
  <2>1. /\ c[i] \in Address /\ m[c[i]] \in Address /\ m[c[i]] + 1 \in Address
        /\ c[i] \in Int /\ m[c[i]] \in Int /\ c[i] < m[c[i]]
    BY ChainFacts
  <2>2. c[i] < link /\ m[c[i]] < link /\ m[c[i]] + 1 < link
    BY <1>1, <1>3, <2>1
  <2>3. ~(link <= c[i]) /\ ~(link <= m[c[i]]) /\ ~(link <= m[c[i]] + 1)
    BY <1>1, <2>1, <2>2
  <2> QED  BY Zenon, <2>1, <2>3
<1> HIDE DEF d
<1>5. ASSUME NEW i \in DOMAIN d
      PROVE  /\ InitialSp(program) < d[i] /\ d[i] < n[d[i]] /\ n[d[i]] < newTop
             /\ i > 1 => n[n[d[i]] + 1] = d[i - 1]
             /\ ToUWord(n[n[d[i]]]) = INITIAL_PC <=> i = 1
  <2>1. CASE i = k
    <3>1. d[i] = link /\ n[d[i]] = newTop - 1 /\ n[d[i]] + 1 = newTop /\ newTop - 1 < newTop
      BY SMTT(60), <1>1, <1>2, <2>1
    <3>2. i > 1 => n[n[d[i]] + 1] = d[i - 1]
      <4> SUFFICES ASSUME i > 1 PROVE n[newTop] = d[i - 1]
        BY <3>1
      <4>1. c # <<>> /\ i - 1 = Len(c)
        BY <1>1, <2>1
      <4>2. d[i - 1] = c[Len(c)]
        BY <1>1, <4>1 DEF d
      <4> QED  BY <4>1, <4>2
    <3>3. ToUWord(n[n[d[i]]]) = INITIAL_PC <=> i = 1
      <4>1. c = <<>> <=> i = 1
        BY <1>1, <2>1
      <4> QED  BY <3>1, <4>1
    <3> QED  BY Zenon, <1>3, <3>1, <3>2, <3>3
  <2>2. CASE i # k
    <3>1. i \in DOMAIN c /\ d[i] = c[i] /\ (i > 1 => d[i - 1] = c[i - 1])
      BY <1>1, <1>2, <2>2 DEF d
    <3>4. n[d[i]] = m[c[i]] /\ n[n[d[i]]] = m[m[c[i]]] /\ n[n[d[i]] + 1] = m[m[c[i]] + 1]
      <4>1. n[c[i]] = m[c[i]] /\ n[m[c[i]]] = m[m[c[i]]] /\ n[m[c[i]] + 1] = m[m[c[i]] + 1]
        BY <1>4, <3>1
      <4> QED  BY <3>1, <4>1
    <3>2. /\ InitialSp(program) < c[i] /\ c[i] < m[c[i]]
          /\ i > 1 => m[m[c[i]] + 1] = c[i - 1]
          /\ ToUWord(m[m[c[i]]]) = INITIAL_PC <=> i = 1
      BY Zenon, <3>1 DEF Chained
    <3>3. m[c[i]] < newTop
      <4>1. m[c[i]] + 1 < link /\ m[c[i]] \in Int
        BY <1>3, <3>1, ChainFacts
      <4> QED  BY <1>1, <4>1
    <3> QED  BY Zenon, <3>1, <3>2, <3>3, <3>4
  <2> QED  BY <2>1, <2>2
<1>6. ASSUME NEW i \in DOMAIN d, NEW j \in DOMAIN d, i < j PROVE n[d[i]] + 1 < d[j]
  <2>1. i \in DOMAIN c /\ d[i] = c[i] /\ n[d[i]] = m[c[i]]
    BY <1>2, <1>4, <1>6
  <2>2. CASE j = k
    BY <1>2, <1>3, <2>1, <2>2
  <2>3. CASE j # k
    <3>1. j \in DOMAIN c /\ d[j] = c[j]
      BY <1>2, <2>3
    <3>2. m[c[i]] + 1 < c[j]
      BY Zenon, <1>6, <2>1, <3>1 DEF Chained
    <3> QED  BY Zenon, <2>1, <3>1, <3>2
  <2> QED  BY <2>2, <2>3
<1>7. d[1] = InitialSp(program) + 1
  <2>1. CASE c = <<>>
    BY <1>1, <2>1 DEF d
  <2>2. CASE c # <<>>
    <3>1. c[1] = InitialSp(program) + 1
      BY Zenon, <2>2 DEF Chained
    <3> QED  BY <1>1, <2>2, <3>1 DEF d
  <2> QED  BY <2>1, <2>2
<1>8. Chained(n, d, newTop)
  BY Zenon, <1>2, <1>5, <1>6, <1>7 DEF Chained
<1>9. ASSUME NEW w \in Address, w <= InitialSp(program) PROVE n[w] = m[w]
  BY <1>1, <1>3, <1>9 DEF Address
<1> QED  BY <1>8, <1>9 DEF d

\* A return: the frame is gone, and its place on the stack taken by one word.
LEMMA ChainPop ==
  ASSUME program \in Programs, NEW m \in [Address -> Word], NEW n \in [Address -> Word],
         NEW c, NEW top, Chained(m, c, top), c # <<>>,
         \A w \in Address : w # c[Len(c)] => n[w] = m[w]
  PROVE  /\ Chained(n, SubSeq(c, 1, Len(c) - 1), c[Len(c)])
         /\ \A w \in Address : w <= InitialSp(program) => n[w] = m[w]
<1> DEFINE k == Len(c)
           d == SubSeq(c, 1, k - 1)
<1>1. c \in Seq(Address) /\ k \in Nat /\ k >= 1 /\ k \in DOMAIN c /\ InitialSp(program) \in Nat
  BY ChainFacts
<1>2. /\ d \in Seq(Address) /\ DOMAIN d = 1 .. k - 1
      /\ \A i \in DOMAIN d : i \in Int /\ i \in DOMAIN c /\ d[i] = c[i] /\ i < k
      /\ d = <<>> <=> k = 1
      /\ \A i \in DOMAIN d : i > 1 => d[i - 1] = c[i - 1]
      /\ k # 1 => d[1] = c[1]
  <2>1. k - 1 \in Nat /\ k - 1 <= Len(c)
    BY <1>1
  <2>2. /\ d \in Seq(Address) /\ Len(d) = k - 1 /\ DOMAIN d = 1 .. k - 1
        /\ \A i \in 1 .. k - 1 : d[i] = c[i]
    <3>1. \A q \in Nat : q <= Len(c) =>
            /\ SubSeq(c, 1, q) \in Seq(Address) /\ Len(SubSeq(c, 1, q)) = q
            /\ DOMAIN SubSeq(c, 1, q) = 1 .. q
            /\ \A i \in 1 .. q : SubSeq(c, 1, q)[i] = c[i]
      BY <1>1, Prefix
    <3> QED  BY Zenon, <2>1, <3>1
  <2> HIDE DEF d
  <2>3. d = <<>> <=> k = 1
    BY <1>1, <2>2
  <2> QED  BY <1>1, <2>2, <2>3
<1>3. ASSUME NEW i \in DOMAIN d
      PROVE  /\ m[c[i]] + 1 < c[k] /\ m[c[i]] < c[k]
             /\ n[c[i]] = m[c[i]] /\ n[m[c[i]]] = m[m[c[i]]] /\ n[m[c[i]] + 1] = m[m[c[i]] + 1]
  <2>1. /\ c[i] \in Address /\ m[c[i]] \in Address /\ m[c[i]] + 1 \in Address
        /\ c[i] \in Int /\ m[c[i]] \in Int /\ c[i] < m[c[i]] /\ m[c[i]] + 1 < c[k]
    BY <1>2, ChainFacts
  <2>2. c[k] \in Int
    BY <1>1, ChainFacts
  <2>3. c[i] # c[k] /\ m[c[i]] # c[k] /\ m[c[i]] + 1 # c[k] /\ m[c[i]] < c[k]
    BY <2>1, <2>2
  <2> QED  BY Zenon, <2>1, <2>3
<1>4. ASSUME NEW i \in DOMAIN d
      PROVE  /\ InitialSp(program) < d[i] /\ d[i] < n[d[i]] /\ n[d[i]] < c[k]
             /\ i > 1 => n[n[d[i]] + 1] = d[i - 1]
             /\ ToUWord(n[n[d[i]]]) = INITIAL_PC <=> i = 1
  <2>1. i \in DOMAIN c /\ d[i] = c[i] /\ (i > 1 => d[i - 1] = c[i - 1])
    BY <1>2
  <2>2. /\ InitialSp(program) < c[i] /\ c[i] < m[c[i]]
        /\ i > 1 => m[m[c[i]] + 1] = c[i - 1]
        /\ ToUWord(m[m[c[i]]]) = INITIAL_PC <=> i = 1
    BY Zenon, <2>1 DEF Chained
  <2> QED  BY Zenon, <1>3, <2>1, <2>2
<1>5. ASSUME NEW i \in DOMAIN d, NEW j \in DOMAIN d, i < j PROVE n[d[i]] + 1 < d[j]
  <2>1. d[i] = c[i] /\ d[j] = c[j] /\ i \in DOMAIN c /\ j \in DOMAIN c
    BY <1>2, <1>5
  <2>2. m[c[i]] + 1 < c[j]
    BY Zenon, <1>5, <2>1 DEF Chained
  <2>3. n[c[i]] = m[c[i]]
    BY <1>3
  <2> QED  BY <2>1, <2>2, <2>3
<1>6. c[1] = InitialSp(program) + 1 /\ c[k] \in Address
  BY <1>1, ChainFacts DEF Chained
<1> HIDE DEF d
<1>7. IF d = <<>> THEN c[k] = InitialSp(program) + 1 ELSE d[1] = InitialSp(program) + 1
  BY <1>2, <1>6
<1>8. Chained(n, d, c[k])
  BY Zenon, <1>2, <1>4, <1>5, <1>6, <1>7 DEF Chained
<1>9. ASSUME NEW w \in Address, w <= InitialSp(program) PROVE n[w] = m[w]
  <2>1. c[k] \in Int /\ InitialSp(program) < c[k]
    BY <1>1, ChainFacts
  <2>2. w # c[k]
    BY <1>1, <1>9, <2>1 DEF Address
  <2> QED  BY <2>2
<1> QED  BY <1>8, <1>9 DEF d

-----------------------------------------------------------------------------
(* The frame of the method being executed, and its code. *)

\* What holds between opcodes while a method is executed.
Executed ==
  TypeOK /\ FramesAreChained /\ ImageIntact /\ status = "run" /\ calls # <<>>

\* The address of the words that the method is to return to.
Link == mem[lv]

\* While an opcode is executed there is a frame, above the image.
LEMMA ExecutedFrame ==
  ASSUME Executed
  PROVE  /\ program \in Programs /\ mem \in [Address -> Word] /\ Chained(mem, calls, sp)
         /\ calls \in Seq(Address) /\ Depth \in Nat /\ Depth >= 1 /\ Depth \in DOMAIN calls
         /\ lv = calls[Depth] /\ lv \in Address /\ lv \in Int /\ sp \in Address /\ sp \in Int
         /\ Link \in Address /\ Link \in Int /\ Link + 1 \in Address
         /\ InitialSp(program) \in Nat /\ InitialSp(program) \in Address
         /\ InitialSp(program) < lv /\ lv < Link /\ Link < sp
         /\ pc # INITIAL_PC /\ pc \in Nat
<1>1. /\ program \in Programs /\ mem \in [Address -> Word] /\ Chained(mem, calls, sp)
      /\ lv = calls[Depth] /\ pc # INITIAL_PC
  BY DEF Executed, TypeOK, FramesAreChained
<1>2. /\ calls \in Seq(Address) /\ Depth \in Nat /\ Depth >= 1 /\ Depth \in DOMAIN calls
  BY <1>1, ChainFacts DEF Executed, Depth
<1>3. /\ lv \in Address /\ lv \in Int /\ sp \in Address /\ sp \in Int
      /\ Link \in Address /\ Link \in Int /\ Link + 1 \in Address
      /\ InitialSp(program) \in Nat
      /\ InitialSp(program) < lv /\ lv < Link /\ Link < sp
  BY <1>1, <1>2, ChainFacts DEF Link
<1>4. InitialSp(program) \in Address
  BY <1>3, AddressBounds
<1>5. pc \in Nat
  BY WordBounds DEF Executed, TypeOK
<1> QED  BY <1>1, <1>2, <1>3, <1>4, <1>5

\* A place in the stack, as a sequence.
LEMMA SliceWords ==
  ASSUME NEW from \in Int, NEW to \in Int, from <= to + 1
  PROVE  /\ Len(Slice(from, to)) = to - from + 1 /\ DOMAIN Slice(from, to) = 1 .. to - from + 1
         /\ \A i \in 1 .. to - from + 1 : Slice(from, to)[i] = mem[from + i - 1]
<1>1. CASE to < from
  BY <1>1 DEF Slice
<1>2. CASE ~(to < from)
  <2>1. Slice(from, to) = [i \in 1 .. to - from + 1 |-> mem[from + i - 1]] /\ to - from + 1 \in Nat
    BY <1>2 DEF Slice
  <2> QED  BY <2>1
<1> QED  BY <1>1, <1>2

\* The call machine and the interpreter compute with the same words.
LEMMA SameWords ==
  /\ Abstract!OP = OP /\ Abstract!GETCHAR = GETCHAR /\ Abstract!PUTCHAR = PUTCHAR
  /\ Abstract!INITIAL_PC = INITIAL_PC /\ Abstract!INITIAL_OBJ_REF = INITIAL_OBJ_REF
  /\ Abstract!EOF = EOF /\ Abstract!Word = Word
  /\ \A v, m : Abstract!Signed(v, m) = Signed(v, m)
  /\ \A v : Abstract!ToWord(v) = ToWord(v)
  /\ \A v, w : Abstract!BitAnd(v, w) = BitAnd(v, w) /\ Abstract!BitOr(v, w) = BitOr(v, w)
<1>1. /\ Abstract!OP = OP /\ Abstract!INITIAL_PC = INITIAL_PC
      /\ Abstract!INITIAL_OBJ_REF = INITIAL_OBJ_REF /\ Abstract!EOF = EOF
  BY Zenon DEF Abstract!OP, OP, Abstract!INITIAL_PC, INITIAL_PC, Abstract!INITIAL_OBJ_REF,
               INITIAL_OBJ_REF, Abstract!EOF, EOF
<1>2. Abstract!GETCHAR = GETCHAR /\ Abstract!PUTCHAR = PUTCHAR
  BY SMT DEF Abstract!GETCHAR, GETCHAR, Abstract!PUTCHAR, PUTCHAR
<1>3. Abstract!WordMod = WordMod /\ Abstract!Word = Word
  BY Zenon DEF Abstract!Word, Word, Abstract!WordMod, WordMod
<1>4. /\ \A v, m : Abstract!Signed(v, m) = Signed(v, m)
      /\ \A v : Abstract!ToWord(v) = ToWord(v) /\ Abstract!ToUWord(v) = ToUWord(v)
  BY Zenon, <1>3 DEF Abstract!ToWord, ToWord, Abstract!Signed, Signed, Abstract!ToUWord, ToUWord,
                     Abstract!Unsigned, Unsigned
<1>5. \A x, y : Abstract!AndByte(x, y) = AndByte(x, y) /\ Abstract!ByteIn(x, y) = ByteIn(x, y)
  BY Zenon DEF Abstract!AndByte, AndByte, Abstract!Bit, Bit, Abstract!ByteIn, ByteIn
<1>6. ASSUME NEW v, NEW w PROVE Abstract!BitAnd(v, w) = BitAnd(v, w)
  <2> DEFINE one(i) == Abstract!AndByte(Abstract!ByteIn(Abstract!ToUWord(v), i),
                                        Abstract!ByteIn(Abstract!ToUWord(w), i))
             other(i) == AndByte(ByteIn(ToUWord(v), i), ByteIn(ToUWord(w), i))
             at(i) == IF i < WordBytes THEN one(i) * 256 ^ i ELSE 0
             then(i) == IF i < WordBytes THEN other(i) * 256 ^ i ELSE 0
  <2>1. \A i : one(i) = other(i)
    BY Zenon, <1>4, <1>5
  <2>2. Abstract!BitAnd(v, w) = Abstract!ToWord(at(0) + at(1) + at(2) + at(3))
    BY Zenon DEF Abstract!BitAnd, Abstract!FromBytes
  <2>3. BitAnd(v, w) = ToWord(then(0) + then(1) + then(2) + then(3))
    BY Zenon DEF BitAnd, FromBytes
  <2> HIDE DEF one, other
  <2>4. \A i : at(i) = then(i)
    BY Zenon, <2>1
  <2> HIDE DEF at, then
  <2> QED  BY <1>4, <2>2, <2>3, <2>4
<1>7. \A v, w : Abstract!BitOr(v, w) = BitOr(v, w)
  BY Zenon, <1>4, <1>6 DEF Abstract!BitOr, BitOr
<1> QED  BY Zenon, <1>1, <1>2, <1>3, <1>4, <1>6, <1>7

\* The current frame of the call machine.
LEMMA AbstractFrame ==
  ASSUME Executed
  PROVE  /\ Len(Frames) = Depth + 1 /\ DOMAIN Frames = 1 .. Depth + 1
         /\ Abstract!Frame = FrameOf(Depth)
         /\ FrameOf(Depth) = [pc |-> pc, locals |-> Slice(lv + 1, Link - 1),
                              stack |-> Slice(Link + 2, sp)]
         /\ Abstract!Active /\ Abstract!pc = pc
         /\ Len(Abstract!Frame.stack) = sp - Link - 1
         /\ Len(Abstract!Frame.locals) = Link - lv - 1
         /\ \A i \in 1 .. sp - Link - 1 : Abstract!Frame.stack[i] = mem[Link + 1 + i]
         /\ \A i \in 1 .. Link - lv - 1 : Abstract!Frame.locals[i] = mem[lv + i]
<1>1. /\ Depth \in Nat /\ Depth >= 1 /\ lv = calls[Depth] /\ lv \in Int /\ sp \in Int /\ Link \in Int
      /\ lv < Link /\ Link < sp
  BY ExecutedFrame
<1>2. Len(Frames) = Depth + 1 /\ DOMAIN Frames = 1 .. Depth + 1 /\ Frames[Depth + 1] = FrameOf(Depth)
  BY <1>1 DEF Frames
<1>3. Abstract!Frame = FrameOf(Depth)
  BY <1>2 DEF Abstract!Frame, Abstract!Last
<1>4. FrameOf(Depth) = [pc |-> pc, locals |-> Slice(lv + 1, Link - 1),
                        stack |-> Slice(Link + 2, sp)]
  BY <1>1 DEF FrameOf, NextOf, TopOf, LinkOf, Link
<1>5. Abstract!Active /\ Abstract!pc = pc
  BY <1>1, <1>2, <1>3, <1>4 DEF Abstract!Active, Abstract!pc, Executed
<1>6. /\ Len(Slice(Link + 2, sp)) = sp - Link - 1 /\ Len(Slice(lv + 1, Link - 1)) = Link - lv - 1
      /\ \A i \in 1 .. sp - Link - 1 : Slice(Link + 2, sp)[i] = mem[Link + 1 + i]
      /\ \A i \in 1 .. Link - lv - 1 : Slice(lv + 1, Link - 1)[i] = mem[lv + i]
  <2>1. /\ sp - (Link + 2) + 1 = sp - Link - 1 /\ (Link - 1) - (lv + 1) + 1 = Link - lv - 1
        /\ Link + 2 <= sp + 1 /\ lv + 1 <= (Link - 1) + 1
    BY <1>1
  <2>2. /\ \A i \in 1 .. sp - Link - 1 : (Link + 2) + i - 1 = Link + 1 + i
        /\ \A i \in 1 .. Link - lv - 1 : (lv + 1) + i - 1 = lv + i
    BY <1>1
  <2>3. /\ Len(Slice(Link + 2, sp)) = sp - (Link + 2) + 1
        /\ \A i \in 1 .. sp - (Link + 2) + 1 : Slice(Link + 2, sp)[i] = mem[(Link + 2) + i - 1]
    <3>1. Link + 2 \in Int
      BY <1>1
    <3> QED  BY Zenon, <1>1, <2>1, <3>1, SliceWords
  <2>4. /\ Len(Slice(lv + 1, Link - 1)) = (Link - 1) - (lv + 1) + 1
        /\ \A i \in 1 .. (Link - 1) - (lv + 1) + 1 :
              Slice(lv + 1, Link - 1)[i] = mem[(lv + 1) + i - 1]
    <3>1. lv + 1 \in Int /\ Link - 1 \in Int
      BY <1>1
    <3> QED  BY Zenon, <1>1, <2>1, <3>1, SliceWords
  <2> QED  BY <2>1, <2>2, <2>3, <2>4
<1> QED  BY <1>2, <1>3, <1>4, <1>5, <1>6

\* Memory in which the image is whole holds the code and the constants.
LEMMA ImageRead ==
  ASSUME program \in Programs, NEW m \in [Address -> Word], InitialSp(program) \in Address,
         \A w \in Address : w <= InitialSp(program) => m[w] = Loaded(program)[w]
  PROVE  /\ \A a \in Nat : a < Len(program.method)
               => a \in ByteAddress /\ ByteOf(m, a) = Abstract!Code(a)
                    /\ Abstract!Code(a) \in Byte
         /\ \A k \in Nat : k < Len(program.cpool)
               => cpp + k \in Address /\ m[cpp + k] = Abstract!Constant(k)
                    /\ Abstract!Constant(k) \in Word
<1>1. /\ cpp \in Nat /\ InitialSp(program) \in Nat
      /\ InitialSp(program) = cpp + Len(program.cpool) - 1 /\ Len(program.cpool) \in Nat
      /\ Len(program.cpool) > 0 /\ Len(program.method) \in Nat
      /\ program.method \in Seq(Byte) /\ program.cpool \in Seq(Word)
  BY SMTT(60), ProgramParts DEF cpp
<1>2. ASSUME NEW a \in Nat, a < Len(program.method)
      PROVE  a \in ByteAddress /\ ByteOf(m, a) = Abstract!Code(a) /\ Abstract!Code(a) \in Byte
  <2> DEFINE w == a \div WordBytes
  <2>1. w \in Nat /\ w < cpp
    BY <1>2, WordOfByte, MethodBelowPool DEF cpp
  <2>2. w \in Address /\ w <= InitialSp(program)
    BY <1>1, <2>1, AddressBounds
  <2>3. a \in ByteAddress
    BY <2>2, WordOfByte
  <2>4. m[w] = Loaded(program)[w]
    BY <2>2
  <2>5. ByteOf(m, a) = ByteOf(Loaded(program), a)
    BY <2>4 DEF ByteOf
  <2>6. ByteOf(Loaded(program), a) = program.method[a + 1]
    BY <1>2, <2>3, CodeIsLoaded
  <2>7. program.method[a + 1] \in Byte
    BY <1>1, <1>2
  <2> QED  BY <2>3, <2>5, <2>6, <2>7 DEF Abstract!Code
<1>3. ASSUME NEW k \in Nat, k < Len(program.cpool)
      PROVE  cpp + k \in Address /\ m[cpp + k] = Abstract!Constant(k) /\ Abstract!Constant(k) \in Word
  <2>1. cpp + k \in Address /\ cpp + k <= InitialSp(program)
    BY <1>1, <1>3, AddressBounds
  <2>2. Loaded(program)[cpp + k] = program.cpool[k + 1]
    BY <1>3, <2>1, ConstantIsLoaded DEF cpp
  <2>3. program.cpool[k + 1] \in Word
    BY <1>1, <1>3
  <2> QED  BY <2>1, <2>2, <2>3 DEF Abstract!Constant
<1> QED  BY <1>2, <1>3

\* While an opcode is executed, the code and the constants are those of the image.
LEMMA ExecutedImage ==
  ASSUME Executed
  PROVE  /\ \A a \in Nat : a < Len(program.method)
               => a \in ByteAddress /\ Method(a) = Abstract!Code(a) /\ Abstract!Code(a) \in Byte
         /\ \A k \in Nat : k < Len(program.cpool)
               => cpp + k \in Address /\ mem[cpp + k] = Abstract!Constant(k)
                    /\ Abstract!Constant(k) \in Word
         /\ \A w \in Address : w <= InitialSp(program) => mem[w] = Loaded(program)[w]
<1>1. \A w \in Address : w <= InitialSp(program) => mem[w] = Loaded(program)[w]
  BY ExecutedFrame DEF Executed, ImageIntact, Address
<1>2. program \in Programs /\ mem \in [Address -> Word] /\ InitialSp(program) \in Address
  BY ExecutedFrame
<1> QED  BY <1>1, <1>2, ImageRead DEF Method

-----------------------------------------------------------------------------
(* What a lawful program gives the interpreter. *)

\* The opcode and all its operand bytes are in the code.
LEMMA LawfulFetch ==
  ASSUME Executed, ProgramsAreLawful
  PROVE  /\ 4 <= pc /\ pc < Len(program.method) /\ After \in Int /\ pc < After
         /\ After <= Len(program.method) /\ Len(program.method) \in Nat
         /\ Opcode = Abstract!Code(pc) /\ Opcode \in Byte
         /\ After = pc + Abstract!Size
         /\ \A a \in Int : pc <= a /\ a < After
              => a \in ByteAddress /\ Method(a) = Abstract!Code(a) /\ Method(a) \in Byte
         /\ ToUWord(After) = After
<1>1. pc \in Abstract!FirstCode .. Len(program.method) - 1 /\ pc + Abstract!Size <= Len(program.method)
  BY AbstractFrame DEF ProgramsAreLawful, Abstract!Lawful
<1>2. Len(program.method) \in Nat /\ pc \in Nat
  BY ExecutedFrame, ProgramParts
<1>3. 4 <= pc /\ pc < Len(program.method)
  BY <1>1, <1>2 DEF Abstract!FirstCode
<1>4. Opcode = Abstract!Code(pc) /\ Opcode \in Byte
  BY <1>2, <1>3, ExecutedImage DEF Opcode
<1>5. After = pc + Abstract!Size /\ Abstract!Size \in {1, 2, 3}
  <2> DEFINE op == Opcode
  <2>1. Abstract!Size =
          CASE op = OP.BIPUSH -> 2
            [] op \in {OP.ILOAD, OP.ISTORE} -> IF wide THEN 3 ELSE 2
            [] op \in {OP.GOTO, OP.IFEQ, OP.IFLT, OP.IF_ICMPEQ, OP.IINC,
                       OP.INVOKEVIRTUAL, OP.LDC_W} -> 3
            [] OTHER -> 1
    BY Zenon, <1>4, AbstractFrame, SameWords DEF Abstract!Size
  <2>2. /\ op = OP.BIPUSH => After = pc + 2
        /\ op \in {OP.ILOAD, OP.ISTORE} => After = IF wide THEN pc + 3 ELSE pc + 2
        /\ op \in {OP.GOTO, OP.IFEQ, OP.IFLT, OP.IF_ICMPEQ, OP.IINC,
                   OP.INVOKEVIRTUAL, OP.LDC_W} => After = pc + 3
        /\ op \notin {OP.BIPUSH, OP.ILOAD, OP.ISTORE, OP.GOTO, OP.IFEQ, OP.IFLT, OP.IF_ICMPEQ,
                      OP.IINC, OP.INVOKEVIRTUAL, OP.LDC_W} => After = pc + 1
    BY Zenon, OpcodeAfter
  <2> HIDE DEF op
  <2>3. CASE op = OP.BIPUSH
    BY <2>1, <2>2, <2>3
  <2>4. CASE op \in {OP.ILOAD, OP.ISTORE}
    BY <2>1, <2>2, <2>4, OpcodeValues
  <2>5. CASE op \in {OP.GOTO, OP.IFEQ, OP.IFLT, OP.IF_ICMPEQ, OP.IINC,
                     OP.INVOKEVIRTUAL, OP.LDC_W}
    BY <2>1, <2>2, <2>5, OpcodeValues
  <2>6. CASE op \notin {OP.BIPUSH, OP.ILOAD, OP.ISTORE, OP.GOTO, OP.IFEQ, OP.IFLT,
                        OP.IF_ICMPEQ, OP.IINC, OP.INVOKEVIRTUAL, OP.LDC_W}
    BY <2>1, <2>2, <2>6
  <2> QED  BY <2>3, <2>4, <2>5, <2>6
<1>6. After \in Int /\ pc < After /\ After <= Len(program.method)
  BY <1>1, <1>2, <1>5
<1>7. ASSUME NEW a \in Int, pc <= a, a < After
      PROVE  a \in ByteAddress /\ Method(a) = Abstract!Code(a) /\ Method(a) \in Byte
  <2>1. a \in Nat /\ a < Len(program.method)
    BY <1>2, <1>6, <1>7
  <2> QED  BY <2>1, ExecutedImage
<1>8. ToUWord(After) = After
  <2>1. After - 1 \in ByteAddress /\ After - 1 + 1 = After
    BY <1>2, <1>6, <1>7
  <2> QED  BY <2>1, ByteAddressBounds, ToUWordOfUWord
<1> QED  BY <1>1, <1>2, <1>3, <1>4, <1>5, <1>6, <1>7, <1>8

\* The operands, variables and constants that an opcode uses are there.
LEMMA LawfulOperands ==
  ASSUME Executed, ProgramsAreLawful
  PROVE  /\ Opcode \in {OP.IADD, OP.IAND, OP.IOR, OP.ISUB, OP.IF_ICMPEQ, OP.SWAP}
              => Link + 3 <= sp
         /\ Opcode \in {OP.IFEQ, OP.IFLT, OP.POP, OP.ISTORE, OP.DUP} => Link + 2 <= sp
         /\ Opcode \in {OP.ILOAD, OP.ISTORE}
              => /\ Variable = Abstract!Var /\ After = Abstract!AfterVar
                 /\ Variable \in Int /\ 1 <= Variable /\ lv + Variable < Link
         /\ Opcode = OP.IINC => Method(pc + 1) \in Int /\ 1 <= Method(pc + 1)
                                 /\ lv + Method(pc + 1) < Link
         /\ After = pc + 3 => Index = Abstract!UInt16(pc + 1) /\ Index \in Nat
                                 /\ Target = Abstract!Target
         /\ Opcode = OP.LDC_W => Index < Len(program.cpool)
         /\ Opcode \in {OP.GOTO, OP.IFEQ, OP.IFLT, OP.IF_ICMPEQ}
              => Target \in Int /\ 4 <= Target /\ Target < Len(program.method)
                   /\ ToUWord(Target) = Target
         /\ Opcode = OP.INVOKEVIRTUAL /\ Index = GETCHAR => Link + 2 <= sp
         /\ Opcode = OP.INVOKEVIRTUAL /\ Index = PUTCHAR => Link + 3 <= sp
<1> DEFINE op == Opcode
<1>1. /\ op = Abstract!Code(pc) /\ Abstract!pc = pc /\ Abstract!Active
      /\ Len(Abstract!Frame.stack) = sp - Link - 1 /\ Len(Abstract!Frame.locals) = Link - lv - 1
      /\ pc \in Nat /\ sp \in Int /\ Link \in Int /\ lv \in Int
  BY LawfulFetch, AbstractFrame, ExecutedFrame
<1>2. /\ Len(Abstract!Frame.stack) >= Abstract!Taken
      /\ Abstract!At("ILOAD") \/ Abstract!At("ISTORE") => Abstract!HasVar(Abstract!Var)
      /\ Abstract!At("IINC") => Abstract!HasVar(Abstract!Code(Abstract!pc + 1))
      /\ Abstract!At("LDC_W") => Abstract!IsConstant(Abstract!UInt16(Abstract!pc + 1))
      /\ Abstract!At("GOTO") \/ Abstract!At("IFEQ") \/ Abstract!At("IFLT") \/ Abstract!At("IF_ICMPEQ")
           => Abstract!Target \in Abstract!FirstCode .. Len(program.method) - 1
  BY <1>1 DEF ProgramsAreLawful, Abstract!Lawful
<1>3. \A name : Abstract!At(name) <=> op = OP[name]
  BY Zenon, <1>1, SameWords DEF Abstract!At
<1>4. /\ After \in Int /\ Len(program.method) \in Nat /\ After <= Len(program.method)
      /\ \A a \in Int : pc <= a /\ a < After
           => a \in ByteAddress /\ Method(a) = Abstract!Code(a) /\ Method(a) \in Byte
      /\ \A a \in Nat : a < Len(program.method) => a \in ByteAddress
  BY LawfulFetch, ExecutedImage
<1>5. ASSUME After = pc + 3
      PROVE  /\ Index = Abstract!UInt16(pc + 1) /\ Index \in Nat /\ Target = Abstract!Target
             /\ Method(pc + 1) = Abstract!Code(pc + 1)
  <2>1. /\ Method(pc + 1) = Abstract!Code(pc + 1) /\ Method(pc + 1 + 1) = Abstract!Code(pc + 1 + 1)
        /\ Method(pc + 1) \in Byte /\ Method(pc + 1 + 1) \in Byte
    BY <1>1, <1>4, <1>5
  <2>2. Index = Abstract!UInt16(pc + 1) /\ Index = 256 * Method(pc + 1) + Method(pc + 1 + 1)
    BY <2>1 DEF Index, UInt16, UInt16Of, Abstract!UInt16, Method
  <2>3. Target = Abstract!Target
    BY SMT, <1>1, <2>2, SameWords DEF Target, Abstract!Target, Index
  <2>4. Index \in Nat
    <3>1. \A x, y \in Byte : 256 * x + y \in Nat
      BY DEF Byte
    <3> QED  BY <2>1, <2>2, <3>1
  <2> QED  BY <2>1, <2>2, <2>3, <2>4
<1> HIDE DEF op
<1>6. /\ op \in {OP.IADD, OP.IAND, OP.IOR, OP.ISUB, OP.IF_ICMPEQ, OP.SWAP} => Abstract!Taken = 2
      /\ op \in {OP.IFEQ, OP.IFLT, OP.POP, OP.ISTORE, OP.DUP} => Abstract!Taken = 1
      /\ op = OP.INVOKEVIRTUAL /\ Abstract!UInt16(pc + 1) = GETCHAR => Abstract!Taken = 1
      /\ op = OP.INVOKEVIRTUAL /\ Abstract!UInt16(pc + 1) = PUTCHAR => Abstract!Taken = 2
  <2> DEFINE index == Abstract!UInt16(pc + 1)
  <2>1. Abstract!Taken =
          CASE op \in {OP.IADD, OP.IAND, OP.IOR, OP.ISUB, OP.IF_ICMPEQ, OP.SWAP} -> 2
            [] op \in {OP.IFEQ, OP.IFLT, OP.POP, OP.ISTORE, OP.DUP} -> 1
            [] op = OP.INVOKEVIRTUAL /\ index = GETCHAR -> 1
            [] op = OP.INVOKEVIRTUAL /\ index = PUTCHAR -> 2
            [] OTHER -> 0
    BY Zenon, <1>1, SameWords DEF Abstract!Taken
  <2>2. GETCHAR # PUTCHAR
    BY SMT DEF GETCHAR, PUTCHAR
  <2> HIDE DEF index
  <2>3. op \in {OP.IADD, OP.IAND, OP.IOR, OP.ISUB, OP.IF_ICMPEQ, OP.SWAP} => Abstract!Taken = 2
    BY <2>1, OpcodeValues
  <2>4. op \in {OP.IFEQ, OP.IFLT, OP.POP, OP.ISTORE, OP.DUP} => Abstract!Taken = 1
    BY <2>1, OpcodeValues
  <2>5. op = OP.INVOKEVIRTUAL /\ index = GETCHAR => Abstract!Taken = 1
    BY <2>1, <2>2, OpcodeValues
  <2>6. op = OP.INVOKEVIRTUAL /\ index = PUTCHAR => Abstract!Taken = 2
    BY <2>1, <2>2, OpcodeValues
  <2> QED  BY Zenon, <2>3, <2>4, <2>5, <2>6 DEF index
<1>7. /\ op = OP.INVOKEVIRTUAL => After = pc + 3
      /\ op = OP.LDC_W => After = pc + 3
      /\ op \in {OP.GOTO, OP.IFEQ, OP.IFLT, OP.IF_ICMPEQ} => After = pc + 3
      /\ op = OP.IINC => After = pc + 3
      /\ op \in {OP.ILOAD, OP.ISTORE} => After = IF wide THEN pc + 3 ELSE pc + 2
  BY OpcodeAfter DEF op
<1>8. ASSUME op \in {OP.ILOAD, OP.ISTORE}
      PROVE  /\ Variable = Abstract!Var /\ After = Abstract!AfterVar
             /\ Variable \in Int /\ 1 <= Variable /\ lv + Variable < Link
  <2>1. Variable = Abstract!Var
    <3>1. CASE wide
      BY <1>1, <1>5, <1>7, <1>8, <3>1 DEF Variable, Abstract!Var, Index
    <3>2. CASE ~wide
      <4>1. Method(pc + 1) = Abstract!Code(pc + 1)
        BY <1>1, <1>4, <1>7, <1>8, <3>2
      <4> QED  BY <1>1, <3>2, <4>1 DEF Variable, Abstract!Var
    <3> QED  BY <3>1, <3>2
  <2>2. After = Abstract!AfterVar
    BY <1>1, <1>7, <1>8 DEF Abstract!AfterVar
  <2>3. Variable \in 1 .. Link - lv - 1
    BY <1>1, <1>2, <1>3, <1>8, <2>1 DEF Abstract!HasVar
  <2> QED  BY <1>1, <2>1, <2>2, <2>3
<1>9. ASSUME op = OP.IINC
      PROVE  Method(pc + 1) \in Int /\ 1 <= Method(pc + 1) /\ lv + Method(pc + 1) < Link
  <2>1. Method(pc + 1) \in 1 .. Link - lv - 1
    BY <1>1, <1>2, <1>3, <1>5, <1>7, <1>9 DEF Abstract!HasVar
  <2> QED  BY <1>1, <2>1
<1>10. op = OP.LDC_W => Index < Len(program.cpool)
  BY <1>1, <1>2, <1>3, <1>5, <1>7 DEF Abstract!IsConstant
<1>11. ASSUME op \in {OP.GOTO, OP.IFEQ, OP.IFLT, OP.IF_ICMPEQ}
       PROVE  /\ Target \in Int /\ 4 <= Target /\ Target < Len(program.method)
              /\ ToUWord(Target) = Target
  <2>1. Target \in 4 .. Len(program.method) - 1
    BY <1>1, <1>2, <1>3, <1>5, <1>7, <1>11 DEF Abstract!FirstCode
  <2>2. Target \in ByteAddress
    BY <1>4, <2>1
  <2>3. ToUWord(Target) = Target
    BY <2>2, AddressesAreWords, ToUWordOfUWord
  <2> QED  BY <1>4, <2>1, <2>3
<1>12. /\ op \in {OP.IADD, OP.IAND, OP.IOR, OP.ISUB, OP.IF_ICMPEQ, OP.SWAP} => Link + 3 <= sp
       /\ op \in {OP.IFEQ, OP.IFLT, OP.POP, OP.ISTORE, OP.DUP} => Link + 2 <= sp
       /\ op = OP.INVOKEVIRTUAL /\ Index = GETCHAR => Link + 2 <= sp
       /\ op = OP.INVOKEVIRTUAL /\ Index = PUTCHAR => Link + 3 <= sp
  BY <1>1, <1>2, <1>5, <1>6, <1>7
<1> QED
  BY Zenon, <1>5, <1>8, <1>9, <1>10, <1>11, <1>12 DEF op

\* So are the methods that it calls, and their arguments.
LEMMA LawfulCall ==
  ASSUME Executed, ProgramsAreLawful, Opcode = OP.INVOKEVIRTUAL, Index < GETCHAR,
         NEW method, method = Abstract!Constant(Index)
  PROVE  /\ Index < Len(program.cpool) /\ mem[cpp + Index] = method
         /\ method \in Nat /\ method + 4 <= Len(program.method) /\ ToUWord(method) = method
         /\ UInt16Of(mem, method) = Abstract!UInt16(method)
         /\ UInt16Of(mem, method + 2) = Abstract!UInt16(method + 2)
         /\ Abstract!UInt16(method) \in Nat /\ Abstract!UInt16(method + 2) \in Nat
         /\ 1 <= Abstract!UInt16(method) /\ Abstract!UInt16(method) <= sp - Link - 1
<1>1. Abstract!pc = pc /\ Abstract!Active /\ Len(Abstract!Frame.stack) = sp - Link - 1
      /\ Opcode = Abstract!Code(pc)
  BY LawfulFetch, AbstractFrame
<1>2. Index = Abstract!UInt16(pc + 1) /\ Index \in Nat
  BY LawfulOperands, OpcodeAfter
<1>3. /\ Abstract!IsConstant(Index) /\ Abstract!IsMethod(method)
      /\ sp - Link - 1 >= Abstract!UInt16(method)
  BY <1>1, <1>2, SameWords DEF ProgramsAreLawful, Abstract!Lawful, Abstract!At
<1>4. Index < Len(program.cpool)
  BY <1>3 DEF Abstract!IsConstant
<1>5. mem[cpp + Index] = method /\ Len(program.method) \in Nat
  BY <1>2, <1>4, ExecutedImage, LawfulFetch
<1>6. /\ method \in Nat /\ method + 4 <= Len(program.method)
      /\ 1 <= Abstract!UInt16(method)
  BY <1>3, <1>5 DEF Abstract!IsMethod, Abstract!FirstCode
<1>7. method \in ByteAddress
  BY <1>5, <1>6, ExecutedImage
<1>8. ToUWord(method) = method
  BY <1>7, AddressesAreWords, ToUWordOfUWord
<1>9. /\ UInt16Of(mem, method) = Abstract!UInt16(method) /\ Abstract!UInt16(method) \in Nat
      /\ UInt16Of(mem, method + 2) = Abstract!UInt16(method + 2) /\ Abstract!UInt16(method + 2) \in Nat
  <2>1. \A a \in {method, method + 1, method + 2, method + 2 + 1} :
          ByteOf(mem, a) = Abstract!Code(a) /\ Abstract!Code(a) \in Byte
    BY <1>5, <1>6, ExecutedImage DEF Method
  <2>2. \A x, y \in Byte : 256 * x + y \in Nat
    BY DEF Byte
  <2>3. ASSUME NEW a \in {method, method + 2}
        PROVE  UInt16Of(mem, a) = Abstract!UInt16(a) /\ Abstract!UInt16(a) \in Nat
    <3>1. /\ ByteOf(mem, a) = Abstract!Code(a) /\ ByteOf(mem, a + 1) = Abstract!Code(a + 1)
          /\ Abstract!Code(a) \in Byte /\ Abstract!Code(a + 1) \in Byte
      BY <2>1
    <3>2. Abstract!UInt16(a) = 256 * Abstract!Code(a) + Abstract!Code(a + 1)
      BY DEF Abstract!UInt16
    <3>3. UInt16Of(mem, a) = 256 * ByteOf(mem, a) + ByteOf(mem, a + 1)
      BY DEF UInt16Of
    <3> QED  BY <2>2, <3>1, <3>2, <3>3
  <2> QED  BY <2>3
<1> QED  BY <1>3, <1>4, <1>5, <1>6, <1>8, <1>9

-----------------------------------------------------------------------------
(* What opcodes do to the frame that they are executed in. *)

\* An address an opcode may go on at.
Lands(next) == next \in Int /\ ToUWord(next) = next /\ next # INITIAL_PC

\* Takes n operands, leaves others, and goes on.
StackStep(n, pushed, next) ==
  /\ n \in Nat /\ Link + 1 + n <= sp
  /\ pushed \in Seq(Word)
  /\ sp' = sp - n + Len(pushed) /\ sp' \in Address
  /\ mem' \in [Address -> Word]
  /\ \A w \in Address : w <= sp - n => mem'[w] = mem[w]
  /\ \A k \in 1 .. Len(pushed) : mem'[sp - n + k] = pushed[k]
  /\ pc' = next /\ Lands(next)
  /\ UNCHANGED <<program, lv, status, result>>

\* Takes n operands and gives a variable a value.
VarStep(v, value, n, next) ==
  /\ n \in Nat /\ Link + 1 + n <= sp
  /\ v \in Int /\ 1 <= v /\ lv + v < Link
  /\ value \in Word
  /\ sp' = sp - n
  /\ mem' = [mem EXCEPT ![lv + v] = value]
  /\ pc' = next /\ Lands(next)
  /\ UNCHANGED <<program, lv, status, result>>

\* The next opcode, and the target of a branch, are addresses in the code.
LEMMA OpcodesLand ==
  ASSUME Executed, ProgramsAreLawful
  PROVE  /\ Lands(After)
         /\ Opcode \in {OP.GOTO, OP.IFEQ, OP.IFLT, OP.IF_ICMPEQ} => Lands(Target)
<1>1. INITIAL_PC < 4
  BY DEF INITIAL_PC
<1>2. /\ 4 <= pc /\ pc < After /\ pc \in Nat /\ After \in Int /\ ToUWord(After) = After
      /\ INITIAL_PC \in Int
  BY LawfulFetch, ExecutedFrame DEF INITIAL_PC
<1>3. Lands(After)
  BY <1>1, <1>2 DEF Lands
<1>4. ASSUME Opcode \in {OP.GOTO, OP.IFEQ, OP.IFLT, OP.IF_ICMPEQ} PROVE Lands(Target)
  <2>1. Target \in Int /\ 4 <= Target /\ ToUWord(Target) = Target
    BY <1>4, LawfulOperands
  <2> QED  BY <1>1, <1>2, <2>1 DEF Lands
<1> QED  BY <1>3, <1>4

\* The addresses that opcodes may leave as stack pointer.
LEMMA StackAddress ==
  ASSUME Executed, NEW a \in Int, Link < a, a <= sp
  PROVE  a \in Address /\ ToUWord(a) = a
<1>1. a \in Address
  BY ExecutedFrame, AddressBounds
<1> QED  BY <1>1, AddressesAreWords, ToUWordOfUWord

\* One value pushed.
LEMMA PushStep ==
  ASSUME Executed, NEW value \in Word, NEW next, Lands(next), sp + 1 \in Address,
         Goto(next, sp + 1, Pushed(value))
  PROVE  StackStep(0, <<value>>, next)
<1>1. /\ sp \in Int /\ Link \in Int /\ Link < sp /\ mem \in [Address -> Word]
  BY ExecutedFrame
<1>2. ToUWord(sp + 1) = sp + 1 /\ ToWord(value) = value
  BY AddressesAreWords, ToUWordOfUWord, ToWordOfWord
<1>3. /\ mem' = [mem EXCEPT ![sp + 1] = value] /\ sp' = sp + 1 /\ pc' = next
      /\ UNCHANGED <<program, lv, status, result>>
  BY <1>2 DEF Goto, Pushed, Lands
<1>4. mem' \in [Address -> Word] /\ mem'[sp + 1] = value
  BY <1>1, <1>3
<1>5. \A w \in Address : w <= sp - 0 => mem'[w] = mem[w]
  <2> SUFFICES ASSUME NEW w \in Address, w <= sp - 0 PROVE mem'[w] = mem[w]
    OBVIOUS
  <2>1. w # sp + 1
    BY <1>1, AddressBounds
  <2> QED  BY <1>1, <1>3, <2>1
<1> DEFINE pushed == <<value>>
<1>6. /\ pushed \in Seq(Word) /\ Len(pushed) = 1 /\ pushed[1] = value
  OBVIOUS
<1> HIDE DEF pushed
<1>7. \A k \in 1 .. Len(pushed) : mem'[sp - 0 + k] = pushed[k]
  <2> SUFFICES ASSUME NEW k \in 1 .. Len(pushed) PROVE mem'[sp - 0 + k] = pushed[k]
    OBVIOUS
  <2>1. k = 1 /\ sp - 0 + k = sp + 1
    BY <1>1, <1>6
  <2> QED  BY <1>4, <1>6, <2>1
<1>8. Link + 1 + 0 <= sp /\ sp' = sp - 0 + Len(pushed) /\ sp' \in Address
  BY <1>1, <1>3, <1>6
<1>9. StackStep(0, pushed, next)
  BY <1>3, <1>4, <1>5, <1>6, <1>7, <1>8 DEF StackStep
<1> QED  BY <1>9 DEF pushed

\* Only takes operands.
LEMMA PopStep ==
  ASSUME Executed, NEW n \in Nat, Link + 1 + n <= sp, NEW next, Lands(next),
         Goto(next, sp - n, mem)
  PROVE  StackStep(n, <<>>, next)
<1>1. sp \in Int /\ Link \in Int /\ Link < sp /\ mem \in [Address -> Word]
  BY ExecutedFrame
<1>2. sp - n \in Address /\ ToUWord(sp - n) = sp - n
  BY <1>1, StackAddress
<1>3. mem' = mem /\ sp' = sp - n /\ pc' = next /\ UNCHANGED <<program, lv, status, result>>
  BY <1>2 DEF Goto, Lands
<1>4. sp' = sp - n + Len(<<>>) /\ <<>> \in Seq(Word) /\ 1 .. Len(<<>>) = {}
  BY <1>1, <1>3
<1> QED  BY <1>1, <1>2, <1>3, <1>4 DEF StackStep

\* Two operands replaced by the result computed from them.
LEMMA BinaryStep ==
  ASSUME Executed, NEW value \in Int, Link + 3 <= sp, Lands(After), Binary(value)
  PROVE  StackStep(2, <<ToWord(value)>>, After)
<1> DEFINE v == ToWord(value)
<1>1. sp \in Int /\ Link \in Int /\ mem \in [Address -> Word]
  BY ExecutedFrame
<1>2. sp - 1 \in Address /\ ToUWord(sp - 1) = sp - 1
  BY <1>1, StackAddress
<1>3. v \in Word
  BY ToWordBounds
<1>4. /\ mem' = [mem EXCEPT ![sp - 1] = v] /\ sp' = sp - 1 /\ pc' = After
      /\ UNCHANGED <<program, lv, status, result>>
  BY <1>2 DEF Binary, Goto, Lands
<1> HIDE DEF v
<1>5. mem' \in [Address -> Word] /\ mem'[sp - 1] = v
  BY <1>1, <1>2, <1>3, <1>4
<1>6. \A w \in Address : w <= sp - 2 => mem'[w] = mem[w]
  <2> SUFFICES ASSUME NEW w \in Address, w <= sp - 2 PROVE mem'[w] = mem[w]
    OBVIOUS
  <2>1. w # sp - 1
    BY <1>1, AddressBounds
  <2> QED  BY <1>1, <1>4, <2>1
<1> DEFINE pushed == <<v>>
<1>7. /\ pushed \in Seq(Word) /\ Len(pushed) = 1 /\ pushed[1] = v
  BY <1>3
<1> HIDE DEF pushed
<1>8. \A k \in 1 .. Len(pushed) : mem'[sp - 2 + k] = pushed[k]
  <2> SUFFICES ASSUME NEW k \in 1 .. Len(pushed) PROVE mem'[sp - 2 + k] = pushed[k]
    OBVIOUS
  <2>1. k = 1 /\ sp - 2 + k = sp - 1
    BY <1>1, <1>7
  <2> QED  BY <1>5, <1>7, <2>1
<1>9. Link + 1 + 2 <= sp /\ sp' = sp - 2 + Len(pushed) /\ sp' \in Address
  BY <1>1, <1>2, <1>4, <1>7
<1>10. StackStep(2, pushed, After)
  BY <1>4, <1>5, <1>6, <1>7, <1>8, <1>9 DEF StackStep
<1> QED  BY <1>10 DEF pushed, v

\* Operands compared and taken off the stack.
LEMMA BranchStep ==
  ASSUME Executed, NEW taken, NEW n \in Nat, Link + 1 + n <= sp, Lands(After), Lands(Target),
         Branch(taken, n)
  PROVE  StackStep(n, <<>>, IF taken THEN Target ELSE After)
<1> DEFINE next == IF taken THEN Target ELSE After
<1>1. Lands(next)
  OBVIOUS
<1>2. Goto(next, sp - n, mem)
  BY DEF Branch
<1> HIDE DEF next
<1>3. StackStep(n, <<>>, next)
  BY <1>1, <1>2, PopStep
<1> QED  BY <1>3 DEF next

\* An opcode that reads finds operands.
LEMMA Operand ==
  ASSUME Executed, NEW a \in Int, Link < a, a <= sp
  PROVE  mem[a] \in Word /\ mem[a] \in Int
BY StackAddress, ExecutedFrame, WordBounds

\* Which operands an opcode takes, what it pushes and where it goes on.
LEMMA PushOpcodes ==
  ASSUME Executed, ProgramsAreLawful
  PROVE  /\ Bipush => StackStep(0, <<Signed(Method(pc + 1), 256)>>, After)
         /\ Iload => StackStep(0, <<mem[lv + Variable]>>, After) /\ lv + Variable \in Address
         /\ LdcW => StackStep(0, <<mem[cpp + Index]>>, After)
<1>1. Lands(After) /\ mem \in [Address -> Word] /\ TypeOK
  BY OpcodesLand, ExecutedFrame DEF Executed
<1>2. ASSUME Bipush PROVE StackStep(0, <<Signed(Method(pc + 1), 256)>>, After)
  <2>1. Opcode = OP.BIPUSH /\ InBounds
    BY <1>2 DEF Bipush, Executing
  <2>2. Method(pc + 1) \in Byte /\ sp + 1 \in Address
    BY <1>1, <2>1, OpcodeAfter, OpcodeBytes, OpcodeOperands
  <2>3. Signed(Method(pc + 1), 256) \in Word
    BY <2>2, SignedByte
  <2> QED  BY Zenon, <1>1, <1>2, <2>2, <2>3, PushStep DEF Bipush
<1>3. ASSUME Iload PROVE StackStep(0, <<mem[lv + Variable]>>, After) /\ lv + Variable \in Address
  <2>1. lv + Variable \in Address /\ sp + 1 \in Address
    BY <1>1, <1>3, OpcodeBytes, OpcodeOperands DEF Iload, Executing
  <2>2. mem[lv + Variable] \in Word
    BY <1>1, <2>1
  <2> QED  BY Zenon, <1>1, <1>3, <2>1, <2>2, PushStep DEF Iload
<1>4. ASSUME LdcW PROVE StackStep(0, <<mem[cpp + Index]>>, After)
  <2>1. cpp + Index \in Address /\ sp + 1 \in Address
    BY <1>1, <1>4, OpcodeBytes, OpcodeOperands DEF LdcW, Executing
  <2>2. mem[cpp + Index] \in Word
    BY <1>1, <2>1
  <2> QED  BY Zenon, <1>1, <1>4, <2>1, <2>2, PushStep DEF LdcW
<1> QED  BY <1>2, <1>3, <1>4

\* DUP pushes the top again.
LEMMA DupOpcode ==
  ASSUME Executed, ProgramsAreLawful, Dup
  PROVE  StackStep(1, <<mem[sp], mem[sp]>>, After)
<1> DEFINE pushed == <<mem[sp], mem[sp]>>
<1>1. /\ Lands(After) /\ mem \in [Address -> Word] /\ sp \in Int /\ Link \in Int
      /\ Opcode = OP.DUP /\ InBounds /\ TypeOK
  BY OpcodesLand, ExecutedFrame DEF Executed, Dup, Executing
<1>2. Link + 2 <= sp /\ sp \in Address /\ sp + 1 \in Address
  BY <1>1, LawfulOperands, OpcodeBytes, OpcodeOperands
<1>3. mem[sp] \in Word
  BY <1>1, <1>2
<1>4. StackStep(0, <<mem[sp]>>, After)
  BY Zenon, <1>1, <1>2, <1>3, PushStep DEF Dup
<1>5. /\ mem' \in [Address -> Word] /\ sp' = sp + 1 /\ pc' = After
      /\ mem'[sp] = mem[sp] /\ mem'[sp + 1] = mem[sp]
      /\ \A w \in Address : w <= sp => mem'[w] = mem[w]
      /\ UNCHANGED <<program, lv, status, result>>
  <2>1. /\ mem' \in [Address -> Word] /\ sp' = sp - 0 + Len(<<mem[sp]>>) /\ pc' = After
        /\ \A w \in Address : w <= sp - 0 => mem'[w] = mem[w]
        /\ \A k \in 1 .. Len(<<mem[sp]>>) : mem'[sp - 0 + k] = <<mem[sp]>>[k]
        /\ UNCHANGED <<program, lv, status, result>>
    BY Zenon, <1>4 DEF StackStep
  <2>2. mem'[sp - 0 + 1] = <<mem[sp]>>[1]
    BY <2>1
  <2> QED  BY <1>1, <1>2, <2>1, <2>2
<1>6. pushed \in Seq(Word) /\ Len(pushed) = 2 /\ pushed[1] = mem[sp] /\ pushed[2] = mem[sp]
  BY <1>3
<1> HIDE DEF pushed
<1>7. \A k \in 1 .. Len(pushed) : mem'[sp - 1 + k] = pushed[k]
  <2> SUFFICES ASSUME NEW k \in 1 .. Len(pushed) PROVE mem'[sp - 1 + k] = pushed[k]
    OBVIOUS
  <2>1. (k = 1 /\ sp - 1 + k = sp) \/ (k = 2 /\ sp - 1 + k = sp + 1)
    BY <1>1, <1>6
  <2> QED  BY <1>5, <1>6, <2>1
<1>8. /\ \A w \in Address : w <= sp - 1 => mem'[w] = mem[w]
      /\ sp' = sp - 1 + Len(pushed) /\ sp' \in Address /\ Link + 1 + 1 <= sp
  BY <1>1, <1>2, <1>5, <1>6, AddressBounds
<1>9. StackStep(1, pushed, After)
  BY <1>1, <1>5, <1>6, <1>7, <1>8 DEF StackStep
<1> QED  BY <1>9 DEF pushed

\* The operands of a computation are replaced by its result.
LEMMA BinaryOpcodes ==
  ASSUME Executed, ProgramsAreLawful
  PROVE  /\ Iadd => StackStep(2, <<ToWord(mem[sp] + mem[sp - 1])>>, After)
         /\ Isub => StackStep(2, <<ToWord(mem[sp - 1] - mem[sp])>>, After)
         /\ Iand => StackStep(2, <<ToWord(BitAnd(mem[sp], mem[sp - 1]))>>, After)
         /\ Ior => StackStep(2, <<ToWord(BitOr(mem[sp], mem[sp - 1]))>>, After)
<1>1. ASSUME Opcode \in {OP.IADD, OP.ISUB, OP.IAND, OP.IOR}
      PROVE  Link + 3 <= sp /\ Lands(After) /\ mem[sp] \in Int /\ mem[sp - 1] \in Int
  <2>1. Link + 3 <= sp /\ Lands(After) /\ Link \in Int /\ sp \in Int
    BY <1>1, LawfulOperands, OpcodesLand, ExecutedFrame
  <2> QED  BY <2>1, Operand
<1>2. ASSUME Iadd PROVE StackStep(2, <<ToWord(mem[sp] + mem[sp - 1])>>, After)
  <2>1. Link + 3 <= sp /\ Lands(After) /\ mem[sp] + mem[sp - 1] \in Int
    BY <1>1, <1>2 DEF Iadd, Executing
  <2> QED  BY Zenon, <1>2, <2>1, BinaryStep DEF Iadd
<1>3. ASSUME Isub PROVE StackStep(2, <<ToWord(mem[sp - 1] - mem[sp])>>, After)
  <2>1. Link + 3 <= sp /\ Lands(After) /\ mem[sp - 1] - mem[sp] \in Int
    BY <1>1, <1>3 DEF Isub, Executing
  <2> QED  BY Zenon, <1>3, <2>1, BinaryStep DEF Isub
<1>4. ASSUME Iand PROVE StackStep(2, <<ToWord(BitAnd(mem[sp], mem[sp - 1]))>>, After)
  <2>1. Link + 3 <= sp /\ Lands(After) /\ BitAnd(mem[sp], mem[sp - 1]) \in Int
    BY <1>1, <1>4, BitAndType, WordBounds DEF Iand, Executing
  <2> QED  BY Zenon, <1>4, <2>1, BinaryStep DEF Iand
<1>5. ASSUME Ior PROVE StackStep(2, <<ToWord(BitOr(mem[sp], mem[sp - 1]))>>, After)
  <2>1. Link + 3 <= sp /\ Lands(After) /\ BitOr(mem[sp], mem[sp - 1]) \in Int
    BY <1>1, <1>5, BitOrType, WordBounds DEF Ior, Executing
  <2> QED  BY Zenon, <1>5, <2>1, BinaryStep DEF Ior
<1> QED  BY <1>2, <1>3, <1>4, <1>5

\* A branch takes its operands and goes on at one of two places.
LEMMA BranchOpcodes ==
  ASSUME Executed, ProgramsAreLawful
  PROVE  /\ GotoOp => StackStep(0, <<>>, Target)
         /\ Ifeq => StackStep(1, <<>>, IF mem[sp] = 0 THEN Target ELSE After)
         /\ Iflt => StackStep(1, <<>>, IF mem[sp] < 0 THEN Target ELSE After)
         /\ IfIcmpeq => StackStep(2, <<>>, IF mem[sp] = mem[sp - 1] THEN Target ELSE After)
<1>1. Lands(After) /\ sp \in Int /\ Link \in Int /\ Link < sp
  BY OpcodesLand, ExecutedFrame
<1>2. ASSUME GotoOp PROVE StackStep(0, <<>>, Target)
  <2>1. Lands(Target) /\ Link + 1 + 0 <= sp /\ sp - 0 = sp
    BY <1>1, <1>2, OpcodesLand DEF GotoOp, Executing
  <2>2. Goto(Target, sp - 0, mem)
    BY <1>2, <2>1 DEF GotoOp
  <2> QED  BY <2>1, <2>2, PopStep
<1>3. ASSUME Ifeq PROVE StackStep(1, <<>>, IF mem[sp] = 0 THEN Target ELSE After)
  <2>1. Lands(Target) /\ Link + 1 + 1 <= sp
    BY <1>1, <1>3, OpcodesLand, LawfulOperands DEF Ifeq, Executing
  <2> QED  BY Zenon, <1>1, <1>3, <2>1, BranchStep DEF Ifeq
<1>4. ASSUME Iflt PROVE StackStep(1, <<>>, IF mem[sp] < 0 THEN Target ELSE After)
  <2>1. Lands(Target) /\ Link + 1 + 1 <= sp
    BY <1>1, <1>4, OpcodesLand, LawfulOperands DEF Iflt, Executing
  <2> QED  BY Zenon, <1>1, <1>4, <2>1, BranchStep DEF Iflt
<1>5. ASSUME IfIcmpeq PROVE StackStep(2, <<>>, IF mem[sp] = mem[sp - 1] THEN Target ELSE After)
  <2>1. Lands(Target) /\ Link + 1 + 2 <= sp
    BY <1>1, <1>5, OpcodesLand, LawfulOperands DEF IfIcmpeq, Executing
  <2> QED  BY Zenon, <1>1, <1>5, <2>1, BranchStep DEF IfIcmpeq
<1> QED  BY <1>2, <1>3, <1>4, <1>5

\* What takes an operand at most, and computes nothing.
LEMMA MoveOpcodes ==
  ASSUME Executed, ProgramsAreLawful
  PROVE  /\ Nop => StackStep(0, <<>>, After)
         /\ Pop => StackStep(1, <<>>, After)
         /\ Unknown => StackStep(0, <<>>, After)
         /\ UnknownBuiltin => StackStep(0, <<>>, After)
         /\ Wide => StackStep(0, <<>>, After)
<1>1. /\ Lands(After) /\ sp \in Int /\ Link \in Int /\ Link < sp /\ Link + 1 + 0 <= sp /\ sp - 0 = sp
      /\ mem \in [Address -> Word] /\ sp \in Address
  BY OpcodesLand, ExecutedFrame
<1>2. ASSUME Goto(After, sp, mem) PROVE StackStep(0, <<>>, After)
  <2>1. Goto(After, sp - 0, mem)
    BY <1>1, <1>2
  <2> QED  BY <1>1, <2>1, PopStep
<1>3. ASSUME Pop PROVE StackStep(1, <<>>, After)
  <2>1. Link + 1 + 1 <= sp
    BY <1>1, <1>3, LawfulOperands DEF Pop, Executing
  <2> QED  BY Zenon, <1>1, <1>3, <2>1, PopStep DEF Pop
<1>4. ASSUME Wide PROVE StackStep(0, <<>>, After)
  <2>1. /\ pc' = After /\ mem' = mem /\ sp' = sp /\ UNCHANGED <<program, lv, status, result>>
    BY <1>1, <1>4 DEF Wide, Lands
  <2>2. sp' = sp - 0 + Len(<<>>) /\ <<>> \in Seq(Word) /\ 1 .. Len(<<>>) = {}
    BY <1>1, <2>1
  <2> QED  BY <1>1, <2>1, <2>2 DEF StackStep
<1> QED  BY <1>2, <1>3, <1>4 DEF Nop, Unknown, UnknownBuiltin

\* Writes over the operands that are taken.
LEMMA ReplaceStep ==
  ASSUME Executed, NEW n \in Nat, Link + 1 + n <= sp, NEW pushed \in Seq(Word), Len(pushed) <= n,
         NEW next, Lands(next), mem' \in [Address -> Word], sp' = ToUWord(sp - n + Len(pushed)),
         \A w \in Address : w <= sp - n => mem'[w] = mem[w],
         \A k \in 1 .. Len(pushed) : mem'[sp - n + k] = pushed[k],
         pc' = ToUWord(next), UNCHANGED <<program, lv, status, result>>
  PROVE  StackStep(n, pushed, next)
<1>1. /\ sp \in Int /\ Link \in Int /\ Link < sp /\ Len(pushed) \in Nat
  BY ExecutedFrame
<1> DEFINE top == sp - n + Len(pushed)
<1>2. top \in Int /\ Link < top /\ top <= sp
  BY <1>1
<1> HIDE DEF top
<1>3. top \in Address /\ ToUWord(top) = top
  BY <1>2, StackAddress
<1>4. pc' = next
  BY DEF Lands
<1> QED  BY <1>3, <1>4 DEF StackStep, top

\* SWAP exchanges the two words on top.
LEMMA SwapOpcode ==
  ASSUME Executed, ProgramsAreLawful, Swap
  PROVE  StackStep(2, <<mem[sp], mem[sp - 1]>>, After)
<1> DEFINE pushed == <<mem[sp], mem[sp - 1]>>
<1>1. /\ Lands(After) /\ sp \in Int /\ Link \in Int /\ mem \in [Address -> Word]
      /\ Link + 3 <= sp /\ Link + 1 + 2 <= sp
  BY OpcodesLand, ExecutedFrame, LawfulOperands DEF Swap, Executing
<1>2. sp \in Address /\ sp - 1 \in Address /\ mem[sp] \in Word /\ mem[sp - 1] \in Word
  BY <1>1, StackAddress
<1>3. /\ mem' = [mem EXCEPT ![sp] = mem[sp - 1], ![sp - 1] = mem[sp]]
      /\ sp' = ToUWord(sp) /\ pc' = ToUWord(After) /\ UNCHANGED <<program, lv, status, result>>
  BY <1>1 DEF Swap, Goto
<1>4. /\ mem' \in [Address -> Word] /\ mem'[sp] = mem[sp - 1] /\ mem'[sp - 1] = mem[sp]
      /\ \A w \in Address : w <= sp - 2 => mem'[w] = mem[w]
  <2>1. sp # sp - 1 /\ \A w \in Address : w <= sp - 2 => w # sp /\ w # sp - 1
    BY <1>1, AddressBounds
  <2> QED  BY <1>1, <1>2, <1>3, <2>1
<1>5. /\ pushed \in Seq(Word) /\ Len(pushed) = 2 /\ pushed[1] = mem[sp] /\ pushed[2] = mem[sp - 1]
  BY <1>2
<1> HIDE DEF pushed
<1>6. \A k \in 1 .. Len(pushed) : mem'[sp - 2 + k] = pushed[k]
  <2> SUFFICES ASSUME NEW k \in 1 .. Len(pushed) PROVE mem'[sp - 2 + k] = pushed[k]
    OBVIOUS
  <2>1. (k = 1 /\ sp - 2 + k = sp - 1) \/ (k = 2 /\ sp - 2 + k = sp)
    BY <1>1, <1>5
  <2> QED  BY <1>4, <1>5, <2>1
<1>7. sp' = ToUWord(sp - 2 + Len(pushed)) /\ Len(pushed) <= 2 /\ 2 \in Nat
  BY <1>1, <1>3, <1>5
<1>8. StackStep(2, pushed, After)
  BY Zenon, <1>1, <1>3, <1>4, <1>5, <1>6, <1>7, ReplaceStep
<1> QED  BY <1>8 DEF pushed

\* The two calls into the interpreter.
LEMMA BuiltinOpcodes ==
  ASSUME Executed, ProgramsAreLawful
  PROVE  /\ Getchar => StackStep(1, <<IF input = <<>> THEN EOF ELSE Head(input)>>, After)
         /\ Putchar => StackStep(2, <<Unsigned(mem[sp], 256)>>, After)
<1>1. /\ Lands(After) /\ sp \in Int /\ Link \in Int /\ mem \in [Address -> Word] /\ input \in Seq(Byte)
      /\ sp \in Address
  BY OpcodesLand, ExecutedFrame DEF Executed, TypeOK
<1>2. ASSUME NEW n \in {1, 2}, NEW value \in Word, Link + 1 + n <= sp,
             mem' = [mem EXCEPT ![sp - n + 1] = value], sp' = ToUWord(sp - n + 1),
             pc' = ToUWord(After), UNCHANGED <<program, lv, status, result>>
      PROVE  StackStep(n, <<value>>, After)
  <2> DEFINE pushed == <<value>>
             a == sp - n + 1
  <2>1. a \in Int /\ Link < a /\ a <= sp /\ n \in Nat
    BY <1>1, <1>2
  <2>2. a \in Address
    BY <2>1, StackAddress
  <2>3. mem' \in [Address -> Word] /\ mem'[a] = value
    BY <1>1, <1>2, <2>2
  <2>4. \A w \in Address : w <= sp - n => mem'[w] = mem[w]
    <3> SUFFICES ASSUME NEW w \in Address, w <= sp - n PROVE mem'[w] = mem[w]
      OBVIOUS
    <3>1. w # a
      BY <1>1, <2>1, AddressBounds
    <3> QED  BY <1>1, <1>2, <3>1
  <2>5. pushed \in Seq(Word) /\ Len(pushed) = 1 /\ pushed[1] = value
    OBVIOUS
  <2> HIDE DEF pushed
  <2>6. \A k \in 1 .. Len(pushed) : mem'[sp - n + k] = pushed[k]
    <3> SUFFICES ASSUME NEW k \in 1 .. Len(pushed) PROVE mem'[sp - n + k] = pushed[k]
      OBVIOUS
    <3>1. k = 1
      BY <2>5
    <3> QED  BY <2>3, <2>5, <3>1
  <2>7. sp' = ToUWord(sp - n + Len(pushed)) /\ Len(pushed) <= n
    BY <1>2, <2>5
  <2>8. StackStep(n, pushed, After)
    BY Zenon, <1>1, <1>2, <2>1, <2>3, <2>4, <2>5, <2>6, <2>7, ReplaceStep
  <2> QED  BY <2>8 DEF pushed
<1>3. ASSUME Getchar PROVE StackStep(1, <<IF input = <<>> THEN EOF ELSE Head(input)>>, After)
  <2> DEFINE value == IF input = <<>> THEN EOF ELSE Head(input)
  <2>1. value \in Word
    <3>1. CASE input = <<>>
      BY <3>1, BytesAreWords DEF EOF
    <3>2. CASE input # <<>>
      <4>1. Head(input) \in Byte
        BY <1>1, <3>2
      <4> QED  BY <3>2, <4>1, BytesAreWords
    <3> QED  BY <3>1, <3>2
  <2>2. mem' = [mem EXCEPT ![sp] = value]
    BY <1>3 DEF Getchar
  <2>3. Link + 1 + 1 <= sp /\ sp - 1 + 1 = sp /\ ToUWord(sp) = sp
    <3>1. Link + 2 <= sp
      BY <1>3, LawfulOperands DEF Getchar, Executing
    <3> QED  BY <1>1, <3>1, StackAddress
  <2>4. /\ sp' = ToUWord(sp - 1 + 1) /\ pc' = ToUWord(After)
        /\ UNCHANGED <<program, lv, status, result>>
    BY <1>3, <2>3 DEF Getchar
  <2> HIDE DEF value
  <2>5. mem' = [mem EXCEPT ![sp - 1 + 1] = value]
    BY <2>2, <2>3
  <2>6. StackStep(1, <<value>>, After)
    BY <1>2, <2>1, <2>3, <2>4, <2>5
  <2> QED  BY <2>6 DEF value
<1>4. ASSUME Putchar PROVE StackStep(2, <<Unsigned(mem[sp], 256)>>, After)
  <2> DEFINE value == Unsigned(mem[sp], 256)
  <2>1. Link + 1 + 2 <= sp /\ sp - 2 + 1 = sp - 1
    <3>1. Link + 3 <= sp
      BY <1>4, LawfulOperands DEF Putchar, Executing
    <3> QED  BY <1>1, <3>1
  <2>2. value \in Word
    <3>1. mem[sp] \in Int
      BY <1>1, WordBounds
    <3>2. value \in Byte
      BY <3>1 DEF Unsigned, Byte
    <3> QED  BY <3>2, BytesAreWords
  <2>3. /\ mem' = [mem EXCEPT ![sp - 1] = value] /\ sp' = ToUWord(sp - 1) /\ pc' = ToUWord(After)
        /\ UNCHANGED <<program, lv, status, result>>
    BY <1>4 DEF Putchar
  <2> HIDE DEF value
  <2>4. mem' = [mem EXCEPT ![sp - 2 + 1] = value] /\ sp' = ToUWord(sp - 2 + 1)
    BY <2>1, <2>3
  <2>5. StackStep(2, <<value>>, After)
    BY <1>2, <2>1, <2>2, <2>3, <2>4
  <2> QED  BY <2>5 DEF value
<1> QED  BY <1>3, <1>4

\* Which variable an opcode sets, and to what.
LEMMA VariableOpcodes ==
  ASSUME Executed, ProgramsAreLawful
  PROVE  /\ Istore => VarStep(Variable, mem[sp], 1, After)
         /\ Iinc => VarStep(Method(pc + 1),
                            ToWord(mem[lv + Method(pc + 1)] + Signed(Method(pc + 2), 256)), 0, After)
<1>1. /\ Lands(After) /\ sp \in Int /\ Link \in Int /\ mem \in [Address -> Word] /\ TypeOK
      /\ Link < sp /\ sp \in Address /\ ToUWord(sp) = sp
  BY OpcodesLand, ExecutedFrame, AddressesAreWords, ToUWordOfUWord DEF Executed
<1>2. ASSUME Istore PROVE VarStep(Variable, mem[sp], 1, After)
  <2>1. Opcode = OP.ISTORE
    BY <1>2 DEF Istore, Executing
  <2>2. /\ Link + 1 + 1 <= sp /\ Variable \in Int /\ 1 <= Variable /\ lv + Variable < Link
    BY <1>1, <2>1, LawfulOperands
  <2>3. mem[sp] \in Word /\ ToUWord(sp - 1) = sp - 1
    BY <1>1, <2>2, StackAddress
  <2>4. /\ mem' = [mem EXCEPT ![lv + Variable] = mem[sp]] /\ sp' = sp - 1 /\ pc' = After
        /\ UNCHANGED <<program, lv, status, result>>
    BY <1>1, <1>2, <2>3 DEF Istore, Goto, Lands
  <2> QED  BY Zenon, <1>1, <2>2, <2>3, <2>4 DEF VarStep
<1>3. ASSUME Iinc
      PROVE  VarStep(Method(pc + 1),
                     ToWord(mem[lv + Method(pc + 1)] + Signed(Method(pc + 2), 256)), 0, After)
  <2> DEFINE v == Method(pc + 1)
             value == ToWord(mem[lv + v] + Signed(Method(pc + 2), 256))
  <2>1. Opcode = OP.IINC /\ InBounds /\ After = pc + 3
    BY <1>3, OpcodeAfter DEF Iinc, Executing
  <2>2. v \in Int /\ 1 <= v /\ lv + v < Link
    BY <2>1, LawfulOperands
  <2>3. lv + v \in Address /\ Method(pc + 2) \in Byte
    BY <1>1, <2>1, OpcodeOperands, OpcodeBytes
  <2>4. mem[lv + v] \in Int /\ Signed(Method(pc + 2), 256) \in Int
    BY <1>1, <2>3, ReadWord, SignedByte
  <2>5. value \in Word
    BY <2>4, ToWordBounds
  <2>6. /\ mem' = [mem EXCEPT ![lv + v] = value] /\ sp' = sp /\ pc' = After
        /\ UNCHANGED <<program, lv, status, result>>
    BY <1>1, <1>3 DEF Iinc, Goto, Lands
  <2> HIDE DEF v, value
  <2>7. VarStep(v, value, 0, After)
    BY <1>1, <2>2, <2>5, <2>6 DEF VarStep
  <2> QED  BY <2>7 DEF v, value
<1> QED  BY <1>2, <1>3

-----------------------------------------------------------------------------
\* An opcode that replaces operands, or sets a variable, leaves the chain of
\* frames and the image as they were.
LEMMA StackStepKeeps ==
  ASSUME Executed, NEW n, NEW pushed, NEW next, StackStep(n, pushed, next), UNCHANGED calls
  PROVE  FramesAreChained' /\ ImageIntact'
         /\ \A i \in DOMAIN calls : /\ mem'[calls[i]] = mem[calls[i]]
                                   /\ mem'[mem[calls[i]]] = mem[mem[calls[i]]]
<1>1. /\ program \in Programs /\ mem \in [Address -> Word] /\ Chained(mem, calls, sp)
      /\ Depth \in Nat /\ lv = calls[Depth] /\ calls # <<>> /\ lv \in Int /\ sp \in Int
      /\ Link \in Int /\ lv < Link /\ Depth = Len(calls)
  BY ExecutedFrame DEF Depth, Executed
<1>2. /\ n \in Nat /\ Link + 1 + n <= sp /\ Len(pushed) \in Nat
      /\ sp' = sp - n + Len(pushed) /\ sp' \in Address /\ mem' \in [Address -> Word]
      /\ \A w \in Address : w <= sp - n => mem'[w] = mem[w]
      /\ pc' # INITIAL_PC /\ program' = program /\ lv' = lv /\ status' = status
  BY DEF StackStep, Lands
<1>3. \A w \in Address : mem'[w] = mem[w] \/ Own(mem, calls, w)
  <2> SUFFICES ASSUME NEW w \in Address, ~Own(mem, calls, w) PROVE mem'[w] = mem[w]
    OBVIOUS
  <2>1. w \in Int /\ ~(Link + 1 < w)
    BY <1>1, AddressBounds DEF Own, Link
  <2>2. w <= sp - n
    BY <1>1, <1>2, <2>1
  <2> QED  BY <1>2, <2>2
<1>4. mem[calls[Len(calls)]] < sp' /\ sp' \in Address /\ mem' \in [Address -> Word]
  BY <1>1, <1>2 DEF Link
<1>5. /\ Chained(mem', calls, sp')
      /\ \A i \in DOMAIN calls : /\ mem'[calls[i]] = mem[calls[i]]
                                /\ mem'[mem[calls[i]]] = mem[mem[calls[i]]]
      /\ \A w \in Address : w <= InitialSp(program) => mem'[w] = mem[w]
  <2>1. /\ Chained(mem', calls, sp')
        /\ \A i \in DOMAIN calls : /\ mem'[calls[i]] = mem[calls[i]]
                                  /\ mem'[mem[calls[i]]] = mem[mem[calls[i]]]
                                  /\ mem'[mem[calls[i]] + 1] = mem[mem[calls[i]] + 1]
        /\ \A w \in Address : w <= InitialSp(program) => mem'[w] = mem[w]
    BY Zenon, <1>1, <1>3, <1>4, ChainKept
  <2> QED  BY Zenon, <2>1
<1>6. Chained(mem, calls, sp)'
  BY <1>2, <1>5 DEF Chained
<1>7. FramesAreChained'
  BY <1>1, <1>2, <1>6 DEF FramesAreChained, Depth
<1>8. ImageIntact'
  <2>1. \A w \in 0 .. InitialSp(program) : w \in Address /\ w <= InitialSp(program)
    BY ExecutedFrame, AddressBounds
  <2> QED  BY <1>2, <1>5, <2>1, ExecutedImage DEF ImageIntact
<1> QED  BY <1>5, <1>7, <1>8

\* An opcode that sets a variable leaves them as they were, too.
LEMMA VarStepKeeps ==
  ASSUME Executed, NEW v, NEW value, NEW n, NEW next, VarStep(v, value, n, next), UNCHANGED calls
  PROVE  FramesAreChained' /\ ImageIntact'
         /\ \A i \in DOMAIN calls : /\ mem'[calls[i]] = mem[calls[i]]
                                   /\ mem'[mem[calls[i]]] = mem[mem[calls[i]]]
<1>1. /\ program \in Programs /\ mem \in [Address -> Word] /\ Chained(mem, calls, sp)
      /\ Depth \in Nat /\ lv = calls[Depth] /\ calls # <<>> /\ lv \in Int /\ sp \in Int
      /\ Link \in Int /\ lv < Link /\ Depth = Len(calls) /\ Link \in Address
  BY ExecutedFrame DEF Depth, Executed
<1>2. /\ n \in Nat /\ Link + 1 + n <= sp /\ v \in Int /\ 1 <= v /\ lv + v < Link
      /\ value \in Word /\ sp' = sp - n /\ mem' = [mem EXCEPT ![lv + v] = value]
      /\ pc' # INITIAL_PC /\ program' = program /\ lv' = lv /\ status' = status
  BY DEF VarStep, Lands
<1>3. \A w \in Address : mem'[w] = mem[w] \/ Own(mem, calls, w)
  <2> SUFFICES ASSUME NEW w \in Address, w = lv + v PROVE Own(mem, calls, w)
    BY <1>1, <1>2
  <2> QED  BY <1>1, <1>2 DEF Own, Link
<1>4. mem[calls[Len(calls)]] < sp' /\ sp' \in Address /\ mem' \in [Address -> Word]
  <2>1. Link < sp' /\ sp' <= sp /\ sp' \in Int
    BY <1>1, <1>2
  <2>2. sp' \in Address
    BY <2>1, StackAddress
  <2> QED  BY <1>1, <1>2, <2>1, <2>2 DEF Link
<1>5. /\ Chained(mem', calls, sp')
      /\ \A i \in DOMAIN calls : /\ mem'[calls[i]] = mem[calls[i]]
                                /\ mem'[mem[calls[i]]] = mem[mem[calls[i]]]
      /\ \A w \in Address : w <= InitialSp(program) => mem'[w] = mem[w]
  <2>1. /\ Chained(mem', calls, sp')
        /\ \A i \in DOMAIN calls : /\ mem'[calls[i]] = mem[calls[i]]
                                  /\ mem'[mem[calls[i]]] = mem[mem[calls[i]]]
                                  /\ mem'[mem[calls[i]] + 1] = mem[mem[calls[i]] + 1]
        /\ \A w \in Address : w <= InitialSp(program) => mem'[w] = mem[w]
    BY Zenon, <1>1, <1>3, <1>4, ChainKept
  <2> QED  BY Zenon, <2>1
<1>6. Chained(mem, calls, sp)'
  BY <1>2, <1>5 DEF Chained
<1>7. FramesAreChained'
  BY <1>1, <1>2, <1>6 DEF FramesAreChained, Depth
<1>8. ImageIntact'
  <2>1. \A w \in 0 .. InitialSp(program) : w \in Address /\ w <= InitialSp(program)
    BY ExecutedFrame, AddressBounds
  <2> QED  BY <1>2, <1>5, <2>1, ExecutedImage DEF ImageIntact
<1> QED  BY <1>5, <1>7, <1>8

-----------------------------------------------------------------------------
(* Calls and returns. *)

\* The words that an invocation writes: the caller's pc and lv at the top of
\* the callee's frame, and their place in its link pointer.
LEMMA FrameWords ==
  ASSUME NEW m \in [Address -> Word], NEW s \in Address, NEW l \in Address, s - 1 \in Address,
         l < s - 1, NEW r \in Word, NEW o \in Word, NEW after,
         after = [m EXCEPT ![s - 1] = r, ![s] = o, ![l] = s - 1]
  PROVE  /\ after \in [Address -> Word]
         /\ after[l] = s - 1 /\ after[s - 1] = r /\ after[s] = o
         /\ \A w \in Address : w # l /\ w # s - 1 /\ w # s => after[w] = m[w]
<1>1. s \in Int /\ l \in Int /\ s - 1 \in Word
  BY AddressBounds, AddressesAreWords
<1>2. s # s - 1 /\ l # s /\ l # s - 1
  BY <1>1
<1> QED  BY <1>1, <1>2

\* A call by a method: the callee takes its arguments off the caller's stack.
LEMMA CallStep ==
  ASSUME Executed, ProgramsAreLawful, InvokeVirtual,
         NEW method, method = Abstract!Constant(Index), NEW nargs, nargs = Abstract!UInt16(method),
         NEW nlocals, nlocals = Abstract!UInt16(method + 2)
  PROVE  /\ method \in Nat /\ nargs \in Nat /\ nlocals \in Nat /\ 1 <= nargs
         /\ Link + 1 + nargs <= sp
         /\ sp' = sp + nlocals + 2 /\ sp' \in Address
         /\ lv' = sp + 1 - nargs /\ lv' \in Address /\ lv' < sp' - 1
         /\ pc' = method + 4 /\ wide' = FALSE
         /\ mem' \in [Address -> Word]
         /\ mem'[lv'] = sp' - 1 /\ ToUWord(mem'[sp' - 1]) = After /\ mem'[sp'] = lv
         /\ \A w \in Address : w # lv' /\ w # sp' - 1 /\ w # sp' => mem'[w] = mem[w]
         /\ UNCHANGED <<program, status>>
<1>1. /\ Opcode = OP.INVOKEVIRTUAL /\ Index < GETCHAR /\ InBounds
      /\ Invoke(mem, sp, After, Index) /\ UNCHANGED <<program, status>>
  BY DEF InvokeVirtual, Executing
<1>2. /\ mem[cpp + Index] = method /\ ToUWord(method) = method
      /\ method \in Nat /\ nargs \in Nat /\ nlocals \in Nat /\ 1 <= nargs /\ nargs <= sp - Link - 1
      /\ UInt16Of(mem, method) = nargs /\ UInt16Of(mem, method + 2) = nlocals
  BY <1>1, LawfulCall
<1>3. /\ Invocation(mem, sp, Index) /\ mem \in [Address -> Word] /\ sp \in Nat /\ sp \in Int
      /\ Link \in Int /\ lv \in Int /\ lv \in Address /\ After \in Int /\ ToUWord(After) = After
  BY <1>1, ExecutedFrame, LawfulFetch, AddressBounds DEF InBounds
<1>4. ToUWord(mem[cpp + Index]) = method
  BY <1>2
<1>5. PICK address, n, l :
         /\ address = ToUWord(mem[cpp + Index]) /\ n = UInt16Of(mem, address)
         /\ l = UInt16Of(mem, address + 2)
         /\ mem' = [mem EXCEPT ![(sp + l + 2) - 1] = ToWord(After), ![sp + l + 2] = ToWord(lv),
                              ![LinkPointer(sp + l + 2, n, l)] = (sp + l + 2) - 1]
         /\ sp' = sp + l + 2 /\ lv' = LinkPointer(sp + l + 2, n, l)
         /\ pc' = address + 4 /\ wide' = FALSE
  BY Zenon, <1>1 DEF Invoke
<1>6. address = method /\ n = nargs /\ l = nlocals
  BY Zenon, <1>2, <1>3, <1>4, <1>5
<1>7. /\ sp' \in Address /\ sp' - 1 \in Address /\ lv' \in Address
      /\ lv' = sp + 1 - nargs /\ lv' < sp' - 1
  <2>1. /\ {sp + nlocals + 1, sp + nlocals + 1 + 1} \subseteq Address
        /\ (sp + nlocals + 1) - nargs - nlocals \in Address
    BY <1>2, <1>3, <1>4 DEF Invocation
  <2>2. sp' = sp + nlocals + 2 /\ lv' = LinkPointer(sp', nargs, nlocals)
    BY Zenon, <1>5, <1>6
  <2>3. sp \in Nat /\ nargs \in Nat /\ nlocals \in Nat /\ 1 <= nargs
    BY <1>2, <1>3, <1>4
  <2> QED  BY SMT, <2>1, <2>2, <2>3 DEF LinkPointer
<1>8. mem' = [mem EXCEPT ![sp' - 1] = ToWord(After), ![sp'] = ToWord(lv), ![lv'] = sp' - 1]
  BY Zenon, <1>5
<1>9. /\ mem' \in [Address -> Word]
      /\ mem'[lv'] = sp' - 1 /\ mem'[sp' - 1] = ToWord(After) /\ mem'[sp'] = ToWord(lv)
      /\ \A w \in Address : w # lv' /\ w # sp' - 1 /\ w # sp' => mem'[w] = mem[w]
  <2>1. ToWord(After) \in Word /\ ToWord(lv) \in Word
    BY <1>2, <1>3, <1>4, ToWordBounds
  <2>2. /\ mem \in [Address -> Word] /\ sp' \in Address /\ lv' \in Address /\ sp' - 1 \in Address
        /\ lv' < sp' - 1 /\ ToWord(After) \in Word /\ ToWord(lv) \in Word
        /\ mem' = [mem EXCEPT ![sp' - 1] = ToWord(After), ![sp'] = ToWord(lv), ![lv'] = sp' - 1]
    BY <1>2, <1>3, <1>4, <2>1, <1>7, <1>8
  <2> QED  BY <2>2, FrameWords
<1>10. sp' = sp + nlocals + 2 /\ pc' = method + 4 /\ wide' = FALSE
  BY Zenon, <1>5, <1>6
<1>11. ToUWord(mem'[sp' - 1]) = After /\ mem'[sp'] = lv
  BY <1>3, <1>9, ToUWordOfToWord, AddressesAreWords, ToWordOfWord
<1>12. Link + 1 + nargs <= sp
  BY <1>2, <1>3
<1> QED  BY Zenon, <1>1, <1>2, <1>7, <1>9, <1>10, <1>11, <1>12

\* A call adds a frame to the chain.
LEMMA CallKeeps ==
  ASSUME Executed, ProgramsAreLawful, InvokeVirtual, calls' = Append(calls, lv')
  PROVE  FramesAreChained' /\ ImageIntact'
<1>1. PICK method, nargs, nlocals :
        /\ method = Abstract!Constant(Index) /\ nargs = Abstract!UInt16(method)
        /\ nlocals = Abstract!UInt16(method + 2)
  OBVIOUS
<1>2. /\ program \in Programs /\ mem \in [Address -> Word] /\ Chained(mem, calls, sp)
      /\ calls # <<>> /\ calls \in Seq(Address) /\ Depth = Len(calls) /\ Depth \in Nat
      /\ lv = calls[Len(calls)] /\ Link = mem[calls[Len(calls)]] /\ Link \in Int /\ sp \in Int
      /\ Lands(After) /\ status = "run"
  BY ExecutedFrame, OpcodesLand DEF Depth, Executed, Link
<1>3. /\ method \in Nat /\ nargs \in Nat /\ nlocals \in Nat /\ 1 <= nargs
      /\ Link + 1 + nargs <= sp
      /\ sp' = sp + nlocals + 2 /\ sp' \in Address
      /\ lv' = sp + 1 - nargs /\ lv' \in Address /\ lv' < sp' - 1
      /\ pc' = method + 4
      /\ mem' \in [Address -> Word]
      /\ mem'[lv'] = sp' - 1 /\ ToUWord(mem'[sp' - 1]) = After /\ mem'[sp'] = lv
      /\ \A w \in Address : w # lv' /\ w # sp' - 1 /\ w # sp' => mem'[w] = mem[w]
      /\ UNCHANGED <<program, status>>
  BY Zenon, <1>1, CallStep
<1>4. mem[calls[Len(calls)]] + 1 < lv' /\ ToUWord(mem'[sp' - 1]) # INITIAL_PC
      /\ pc' # INITIAL_PC /\ sp' \in Int /\ lv' \in Int
  BY SMTT(60), <1>2, <1>3 DEF Lands, INITIAL_PC
<1>5. \A w \in Address : mem'[w] = mem[w] \/ lv' <= w
  <2> SUFFICES ASSUME NEW w \in Address, ~(lv' <= w) PROVE mem'[w] = mem[w]
    OBVIOUS
  <2>1. w \in Int
    BY AddressBounds
  <2>2. w # lv' /\ w # sp' - 1 /\ w # sp'
    BY <1>3, <1>4, <2>1
  <2> QED  BY <1>3, <2>2
<1>6. /\ Chained(mem', Append(calls, lv'), sp')
      /\ \A w \in Address : w <= InitialSp(program) => mem'[w] = mem[w]
  <2>1. /\ program \in Programs /\ mem \in [Address -> Word] /\ mem' \in [Address -> Word]
        /\ lv' \in Address /\ sp' \in Address /\ mem'[lv'] = sp' - 1 /\ lv' < sp' - 1
        /\ Chained(mem, calls, sp)
    BY <1>2, <1>3
  <2>2. IF calls = <<>>
        THEN lv' = InitialSp(program) + 1 /\ ToUWord(mem'[sp' - 1]) = INITIAL_PC
        ELSE /\ mem[calls[Len(calls)]] + 1 < lv' /\ mem'[sp'] = calls[Len(calls)]
             /\ ToUWord(mem'[sp' - 1]) # INITIAL_PC
    BY <1>2, <1>3, <1>4
  <2>3. FrameAdded(mem, mem', calls, lv', sp')
    BY Zenon, <1>5, <2>1, <2>2 DEF FrameAdded
  <2> QED  BY Zenon, <2>1, <2>3, ChainPush
<1>7. /\ Append(calls, lv') # <<>> /\ Len(Append(calls, lv')) = Len(calls) + 1
      /\ Append(calls, lv')[Len(calls) + 1] = lv'
  BY SMTT(60), <1>2, <1>3
<1>8. Chained(mem, calls, sp)'
  BY <1>3, <1>6 DEF Chained
<1>9. FramesAreChained'
  BY <1>4, <1>7, <1>8 DEF FramesAreChained, Depth
<1>10. ImageIntact'
  <2>1. \A w \in 0 .. InitialSp(program) : w \in Address /\ w <= InitialSp(program)
    BY ExecutedFrame, AddressBounds
  <2> QED  BY <1>3, <1>6, <2>1, ExecutedImage DEF ImageIntact
<1> QED  BY <1>9, <1>10

\* A return: the frame below continues where it called.
LEMMA ReturnStep ==
  ASSUME Executed, Ireturn
  PROVE  /\ sp' = lv /\ mem' = [mem EXCEPT ![lv] = mem[sp]] /\ mem' \in [Address -> Word]
         /\ mem'[lv] = mem[sp] /\ mem[sp] \in Word
         /\ pc' = ToUWord(mem[Link]) /\ wide' = FALSE
         /\ Depth > 1 => lv' = calls[Depth - 1] /\ pc' # INITIAL_PC
         /\ Depth = 1 => pc' = INITIAL_PC
         /\ UNCHANGED <<program, input, output, status, result>>
<1>1. /\ mem \in [Address -> Word] /\ lv \in Address /\ sp \in Address /\ lv \in Int
      /\ Link \in Int /\ lv < Link /\ Link \in Address /\ Link + 1 \in Address
      /\ Depth \in DOMAIN calls /\ Depth \in Nat /\ Depth >= 1 /\ lv = calls[Depth]
      /\ Chained(mem, calls, sp) /\ calls \in Seq(Address)
  BY ExecutedFrame
<1> DEFINE returned == [mem EXCEPT ![lv] = mem[sp]]
<1>2. returned[Link] = mem[Link] /\ returned[Link + 1] = mem[Link + 1]
  BY <1>1
<1>3. /\ mem' = returned /\ sp' = lv /\ pc' = ToUWord(returned[Link])
      /\ lv' = ToUWord(returned[Link + 1]) /\ wide' = FALSE
      /\ UNCHANGED <<program, input, output, status, result>>
  BY DEF Ireturn, Link
<1>4. returned \in [Address -> Word] /\ returned[lv] = mem[sp] /\ mem[sp] \in Word
  BY <1>1
<1>5. /\ Depth > 1 => mem[Link + 1] = calls[Depth - 1]
      /\ ToUWord(mem[Link]) = INITIAL_PC <=> Depth = 1
  BY Zenon, <1>1 DEF Chained, Link
<1>6. Depth > 1 => ToUWord(calls[Depth - 1]) = calls[Depth - 1]
  <2> SUFFICES ASSUME Depth > 1 PROVE ToUWord(calls[Depth - 1]) = calls[Depth - 1]
    OBVIOUS
  <2>1. Depth - 1 \in 1 .. Len(calls)
    BY <1>1 DEF Depth
  <2>2. calls[Depth - 1] \in Address
    BY <1>1, <2>1
  <2> QED  BY <2>2, AddressesAreWords, ToUWordOfUWord
<1> HIDE DEF returned
<1>7. /\ Depth > 1 => lv' = calls[Depth - 1] /\ pc' # INITIAL_PC
      /\ Depth = 1 => pc' = INITIAL_PC
  BY <1>1, <1>2, <1>3, <1>5, <1>6
<1> QED  BY <1>2, <1>3, <1>4, <1>7 DEF returned

\* A return takes the last frame off the chain.
LEMMA ReturnKeeps ==
  ASSUME Executed, Ireturn, calls' = SubSeq(calls, 1, Len(calls) - 1)
  PROVE  FramesAreChained' /\ ImageIntact'
<1>1. /\ program \in Programs /\ mem \in [Address -> Word] /\ Chained(mem, calls, sp)
      /\ calls # <<>> /\ calls \in Seq(Address) /\ Depth = Len(calls) /\ Depth \in Nat
      /\ Depth >= 1 /\ lv = calls[Len(calls)]
  BY ExecutedFrame DEF Depth, Executed
<1>2. /\ sp' = lv /\ mem' = [mem EXCEPT ![lv] = mem[sp]] /\ mem' \in [Address -> Word]
      /\ Depth > 1 => lv' = calls[Depth - 1] /\ pc' # INITIAL_PC
      /\ Depth = 1 => pc' = INITIAL_PC
      /\ program' = program /\ status' = status
  BY ReturnStep
<1>3. \A w \in Address : w # calls[Len(calls)] => mem'[w] = mem[w]
  BY <1>1, <1>2
<1>4. /\ Chained(mem', SubSeq(calls, 1, Len(calls) - 1), calls[Len(calls)])
      /\ \A w \in Address : w <= InitialSp(program) => mem'[w] = mem[w]
  <2>1. /\ program \in Programs /\ mem \in [Address -> Word] /\ mem' \in [Address -> Word]
        /\ Chained(mem, calls, sp) /\ calls # <<>>
    BY <1>1, <1>2
  <2> QED  BY ZenonT(60), <1>3, <2>1, ChainPop
<1>5. Chained(mem, calls, sp)'
  BY <1>1, <1>2, <1>4 DEF Chained
<1>6. /\ Len(calls') = Depth - 1 /\ calls' = <<>> <=> Depth = 1
      /\ Depth > 1 => calls'[Depth - 1] = calls[Depth - 1]
  <2>1. /\ calls' \in Seq(Address) /\ Len(calls') = Len(calls) - 1
        /\ \A i \in 1 .. Len(calls) - 1 : calls'[i] = calls[i]
    <3>1. \A k \in Nat : k <= Len(calls) =>
            /\ SubSeq(calls, 1, k) \in Seq(Address) /\ Len(SubSeq(calls, 1, k)) = k
            /\ \A i \in 1 .. k : SubSeq(calls, 1, k)[i] = calls[i]
      BY <1>1, Prefix
    <3>2. Len(calls) - 1 \in Nat /\ Len(calls) - 1 <= Len(calls)
      BY <1>1
    <3> QED  BY Zenon, <3>1, <3>2
  <2>2. calls' = <<>> <=> Depth = 1
    <3>1. \A c \in Seq(Address) : c = <<>> <=> Len(c) = 0
      OBVIOUS
    <3>2. Len(calls') = 0 <=> Depth = 1
      BY <1>1, <2>1
    <3> QED  BY Zenon, <2>1, <3>1, <3>2
  <2> QED  BY <1>1, <2>1, <2>2
<1>7. FramesAreChained'
  <2>1. calls' # <<>> => lv' = calls'[Len(calls')]
    BY <1>1, <1>2, <1>6
  <2>2. pc' = INITIAL_PC <=> calls' = <<>>
    BY <1>1, <1>2, <1>6
  <2> QED  BY <1>5, <2>1, <2>2 DEF FramesAreChained, Depth
<1>8. ImageIntact'
  <2>1. \A w \in 0 .. InitialSp(program) : w \in Address /\ w <= InitialSp(program)
    BY ExecutedFrame, AddressBounds
  <2> QED  BY <1>2, <1>4, <2>1, ExecutedImage DEF ImageIntact
<1> QED  BY <1>7, <1>8

\* The call of main by ijvm_new.
LEMMA StartStep ==
  ASSUME TypeOK, ProgramsAreLawful, StartMain,
         NEW m, m = WithArguments(program, Loaded(program)),
         NEW method, method = Abstract!Constant(program.main),
         NEW nlocals, nlocals = Abstract!UInt16(method + 2)
  PROVE  /\ program \in Programs /\ m \in [Address -> Word]
         /\ InitialSp(program) \in Nat /\ InitialSp(program) + 1 \in Address
         /\ ArgumentsTop(program) \in Address
         /\ \A w \in Address : w <= InitialSp(program) => m[w] = Loaded(program)[w]
         /\ method \in Nat /\ nlocals \in Nat /\ Abstract!UInt16(method) = Len(program.args) + 1
         /\ sp' = ArgumentsTop(program) + nlocals + 2 /\ sp' \in Address
         /\ lv' = InitialSp(program) + 1 /\ lv' \in Address /\ lv' < sp' - 1
         /\ pc' = method + 4 /\ wide' = FALSE
         /\ mem' \in [Address -> Word]
         /\ mem'[lv'] = sp' - 1 /\ ToUWord(mem'[sp' - 1]) = INITIAL_PC
         /\ \A w \in Address : w # lv' /\ w # sp' - 1 /\ w # sp' => mem'[w] = m[w]
         /\ status' = "run" /\ UNCHANGED <<program, input, output, result>>
<1>1. /\ program \in Programs /\ Fits /\ CountMatches /\ ArgumentsAreNumbers(program)
      /\ Invoke(m, ArgumentsTop(program), INITIAL_PC, program.main) /\ status = "start"
      /\ status' = "run" /\ UNCHANGED <<program, input, output, result>>
  BY DEF TypeOK, StartMain
<1>2. /\ m \in [Address -> Word] /\ Loaded(program) \in [Address -> Word]
      /\ \A w \in Address : w <= InitialSp(program) => m[w] = Loaded(program)[w]
  BY <1>1, LoadedType, WithArgumentsType
<1>3. /\ InitialSp(program) \in Address /\ ArgumentsTop(program) \in Address
      /\ Invocation(m, ArgumentsTop(program), program.main)
  BY <1>1 DEF Fits
<1>4. /\ program.main \in Nat /\ program.main < Len(program.cpool)
      /\ ArgumentsTop(program) = InitialSp(program) + 1 + Len(program.args)
      /\ ArgumentsTop(program) \in Nat /\ InitialSp(program) \in Nat
      /\ Len(program.args) \in Nat /\ Len(program.method) \in Nat
  BY SMTT(60), <1>1, ProgramParts
<1>5. Abstract!IsMethod(method)
  BY <1>1 DEF ProgramsAreLawful, Abstract!Lawful, Abstract!Main
<1>6. method \in Nat /\ method + 4 <= Len(program.method) /\ 1 <= Abstract!UInt16(method)
  BY <1>4, <1>5 DEF Abstract!IsMethod, Abstract!FirstCode
<1>7. /\ m[cpp + program.main] = method /\ Loaded(program)[cpp + program.main] = method
      /\ \A a \in {method, method + 1, method + 2, method + 2 + 1} :
            /\ a \in ByteAddress
            /\ ByteOf(m, a) = Abstract!Code(a) /\ ByteOf(Loaded(program), a) = Abstract!Code(a)
            /\ Abstract!Code(a) \in Byte
  <2>1. \A a \in {method, method + 1, method + 2, method + 2 + 1} :
          a \in Nat /\ a < Len(program.method)
    <3>1. PICK n : n = Len(program.method)
      OBVIOUS
    <3>2. n \in Nat /\ method \in Nat /\ method + 4 <= n
      BY Zenon, <1>4, <1>6, <3>1
    <3>3. \A a \in {method, method + 1, method + 2, method + 2 + 1} : a \in Nat /\ a < n
      BY <3>2
    <3> QED  BY Zenon, <3>1, <3>3
  <2>2. /\ m[cpp + program.main] = method
        /\ \A a \in Nat : a < Len(program.method)
             => a \in ByteAddress /\ ByteOf(m, a) = Abstract!Code(a) /\ Abstract!Code(a) \in Byte
    BY <1>1, <1>2, <1>3, <1>4, ImageRead
  <2>3. /\ Loaded(program)[cpp + program.main] = method
        /\ \A a \in Nat : a < Len(program.method) => ByteOf(Loaded(program), a) = Abstract!Code(a)
    BY <1>1, <1>2, <1>3, <1>4, ImageRead
  <2> QED  BY <2>1, <2>2, <2>3
<1>8. ASSUME NEW a \in {method, method + 2}
      PROVE  /\ UInt16Of(m, a) = Abstract!UInt16(a) /\ UInt16Of(Loaded(program), a) = Abstract!UInt16(a)
             /\ Abstract!UInt16(a) \in Nat
  <2>1. \A x, y \in Byte : 256 * x + y \in Nat
    BY DEF Byte
  <2>2. /\ Abstract!UInt16(a) = 256 * Abstract!Code(a) + Abstract!Code(a + 1)
        /\ UInt16Of(m, a) = 256 * ByteOf(m, a) + ByteOf(m, a + 1)
        /\ UInt16Of(Loaded(program), a) = 256 * ByteOf(Loaded(program), a) + ByteOf(Loaded(program), a + 1)
    BY DEF UInt16Of, Abstract!UInt16
  <2>3. /\ ByteOf(m, a) = Abstract!Code(a) /\ ByteOf(m, a + 1) = Abstract!Code(a + 1)
        /\ ByteOf(Loaded(program), a) = Abstract!Code(a)
        /\ ByteOf(Loaded(program), a + 1) = Abstract!Code(a + 1)
        /\ Abstract!Code(a) \in Byte /\ Abstract!Code(a + 1) \in Byte
    BY <1>7
  <2> QED  BY <2>1, <2>2, <2>3
<1>9. Abstract!UInt16(method) = Len(program.args) + 1
  BY <1>1, <1>4, <1>7, <1>8 DEF CountMatches, MainOffset
<1>10. ToUWord(m[cpp + program.main]) = method
  BY <1>7, AddressesAreWords, ToUWordOfUWord
<1>11. INITIAL_PC \in Int /\ lv \in Int /\ INITIAL_PC \in UWord
  BY SMTT(60), WordBounds, WordModHalves DEF INITIAL_PC, TypeOK
<1> PICK top, nargs : top = ArgumentsTop(program) /\ nargs = Abstract!UInt16(method)
  OBVIOUS
<1>12. /\ nargs \in Nat /\ nlocals \in Nat /\ UInt16Of(m, method) = nargs
       /\ UInt16Of(m, method + 2) = nlocals /\ 1 <= nargs
  BY <1>6, <1>8
<1>13. PICK address, n, l :
         /\ address = ToUWord(m[cpp + program.main]) /\ n = UInt16Of(m, address)
         /\ l = UInt16Of(m, address + 2)
         /\ mem' = [m EXCEPT ![(top + l + 2) - 1] = ToWord(INITIAL_PC), ![top + l + 2] = ToWord(lv),
                              ![LinkPointer(top + l + 2, n, l)] = (top + l + 2) - 1]
         /\ sp' = top + l + 2 /\ lv' = LinkPointer(top + l + 2, n, l)
         /\ pc' = address + 4 /\ wide' = FALSE
  BY Zenon, <1>1 DEF Invoke
<1>14. address = method /\ n = nargs /\ l = nlocals
  BY Zenon, <1>2, <1>3, <1>4, <1>6, <1>10, <1>11, <1>12, <1>13
<1>15. /\ sp' \in Address /\ sp' - 1 \in Address /\ lv' \in Address
      /\ lv' = top + 1 - nargs /\ lv' < sp' - 1
  <2>1. /\ {top + nlocals + 1, top + nlocals + 1 + 1} \subseteq Address
        /\ (top + nlocals + 1) - nargs - nlocals \in Address
    BY <1>2, <1>3, <1>4, <1>6, <1>10, <1>11, <1>12 DEF Invocation
  <2>2. sp' = top + nlocals + 2 /\ lv' = LinkPointer(sp', nargs, nlocals)
    BY Zenon, <1>13, <1>14
  <2>3. top \in Nat /\ nargs \in Nat /\ nlocals \in Nat /\ 1 <= nargs
    BY <1>2, <1>3, <1>4, <1>6, <1>10, <1>11, <1>12
  <2> QED  BY SMT, <2>1, <2>2, <2>3 DEF LinkPointer
<1>16. mem' = [m EXCEPT ![sp' - 1] = ToWord(INITIAL_PC), ![sp'] = ToWord(lv), ![lv'] = sp' - 1]
  BY Zenon, <1>13
<1>17. /\ mem' \in [Address -> Word]
      /\ mem'[lv'] = sp' - 1 /\ mem'[sp' - 1] = ToWord(INITIAL_PC) /\ mem'[sp'] = ToWord(lv)
      /\ \A w \in Address : w # lv' /\ w # sp' - 1 /\ w # sp' => mem'[w] = m[w]
  <2>1. ToWord(INITIAL_PC) \in Word /\ ToWord(lv) \in Word
    BY <1>2, <1>3, <1>4, <1>6, <1>10, <1>11, <1>12, ToWordBounds
  <2>2. /\ m \in [Address -> Word] /\ sp' \in Address /\ lv' \in Address /\ sp' - 1 \in Address
        /\ lv' < sp' - 1 /\ ToWord(INITIAL_PC) \in Word /\ ToWord(lv) \in Word
        /\ mem' = [m EXCEPT ![sp' - 1] = ToWord(INITIAL_PC), ![sp'] = ToWord(lv), ![lv'] = sp' - 1]
    BY <1>2, <1>3, <1>4, <1>6, <1>10, <1>11, <1>12, <2>1, <1>15, <1>16
  <2> QED  BY <2>2, FrameWords
<1>18. sp' = top + nlocals + 2 /\ pc' = method + 4 /\ wide' = FALSE
  BY Zenon, <1>13, <1>14
<1>19. lv' = InitialSp(program) + 1
  BY SMTT(60), <1>4, <1>9, <1>12, <1>15
<1>20. ToUWord(mem'[sp' - 1]) = INITIAL_PC
  BY <1>11, <1>17, ToUWordOfToWord, ToUWordOfUWord
<1> QED  BY <1>1, <1>2, <1>3, <1>4, <1>6, <1>9, <1>12, <1>15, <1>17, <1>18, <1>19, <1>20

\* main's frame is the first one.
LEMMA StartKeeps ==
  ASSUME TypeOK, ProgramsAreLawful, StartMain, calls = <<>>, calls' = Append(calls, lv')
  PROVE  FramesAreChained' /\ ImageIntact'
<1>1. PICK m, method, nlocals :
        /\ m = WithArguments(program, Loaded(program))
        /\ method = Abstract!Constant(program.main) /\ nlocals = Abstract!UInt16(method + 2)
  OBVIOUS
<1>2. /\ program \in Programs /\ m \in [Address -> Word]
      /\ InitialSp(program) \in Nat /\ InitialSp(program) + 1 \in Address
      /\ \A w \in Address : w <= InitialSp(program) => m[w] = Loaded(program)[w]
      /\ method \in Nat
      /\ sp' \in Address
      /\ lv' = InitialSp(program) + 1 /\ lv' \in Address /\ lv' < sp' - 1
      /\ pc' = method + 4
      /\ mem' \in [Address -> Word]
      /\ mem'[lv'] = sp' - 1 /\ ToUWord(mem'[sp' - 1]) = INITIAL_PC
      /\ \A w \in Address : w # lv' /\ w # sp' - 1 /\ w # sp' => mem'[w] = m[w]
      /\ status' = "run" /\ program' = program
  BY Zenon, <1>1, StartStep
<1>3. Chained(m, <<>>, InitialSp(program) + 1)
  <2>1. <<>> \in Seq(Address) /\ DOMAIN <<>> = {}
    OBVIOUS
  <2> QED  BY <1>2, <2>1 DEF Chained
<1>4. \A w \in Address : mem'[w] = m[w] \/ lv' <= w
  <2> SUFFICES ASSUME NEW w \in Address, ~(lv' <= w) PROVE mem'[w] = m[w]
    OBVIOUS
  <2>1. w \in Int /\ lv' \in Int /\ sp' \in Int /\ lv' < sp' - 1
    BY <1>2, AddressBounds
  <2>2. w # lv' /\ w # sp' - 1 /\ w # sp'
    <3>1. \A a, b, c \in Int : ~(a <= c) /\ a < b - 1 => c # a /\ c # b - 1 /\ c # b
      OBVIOUS
    <3> QED  BY Zenon, <2>1, <3>1
  <2> QED  BY <1>2, <2>2
<1>5. /\ Chained(mem', Append(<<>>, lv'), sp')
      /\ \A w \in Address : w <= InitialSp(program) => mem'[w] = m[w]
  <2> DEFINE c == <<>>
  <2>1. /\ program \in Programs /\ m \in [Address -> Word] /\ mem' \in [Address -> Word]
        /\ lv' \in Address /\ sp' \in Address /\ mem'[lv'] = sp' - 1 /\ lv' < sp' - 1
        /\ Chained(m, c, InitialSp(program) + 1)
    BY <1>2, <1>3
  <2>2. IF c = <<>>
        THEN lv' = InitialSp(program) + 1 /\ ToUWord(mem'[sp' - 1]) = INITIAL_PC
        ELSE /\ m[c[Len(c)]] + 1 < lv' /\ mem'[sp'] = c[Len(c)]
             /\ ToUWord(mem'[sp' - 1]) # INITIAL_PC
    BY <1>2
  <2> HIDE DEF c
  <2>3. FrameAdded(m, mem', c, lv', sp')
    BY Zenon, <1>4, <2>1, <2>2 DEF FrameAdded
  <2>4. /\ Chained(mem', Append(c, lv'), sp')
        /\ \A w \in Address : w <= InitialSp(program) => mem'[w] = m[w]
    BY ZenonT(60), <2>1, <2>3, ChainPush
  <2> QED  BY <2>4 DEF c
<1>6. Append(<<>>, lv') # <<>> /\ Len(Append(<<>>, lv')) = 1 /\ Append(<<>>, lv')[1] = lv'
  BY <1>2
<1>7. Chained(mem, calls, sp)'
  BY <1>2, <1>5 DEF Chained
<1>8. pc' # INITIAL_PC
  BY <1>2 DEF INITIAL_PC
<1>9. FramesAreChained'
  BY <1>6, <1>7, <1>8 DEF FramesAreChained, Depth
<1>10. ImageIntact'
  <2>1. \A w \in 0 .. InitialSp(program) : w \in Address /\ w <= InitialSp(program)
    BY <1>2, AddressBounds
  <2> QED  BY <1>2, <1>5, <2>1 DEF ImageIntact
<1> QED  BY <1>9, <1>10

-----------------------------------------------------------------------------
(* The inductive invariant. *)

\* The image and the frames are intact whatever has been executed so far.
IInv ==
  /\ TypeOK /\ FramesAreChained /\ ImageIntact
  /\ status = "start" => calls = <<>> /\ sp = 0

\* The history variable changes nothing.
LEMMA FramedIsNext == [FramedNext]_framedVars => [Next]_vars
BY DEF FramedNext, framedVars, vars, Next, ExecuteOpcode, LocalStep

\* The invariant holds at first, and every step keeps it.
LEMMA FramedInitInv == FramedInit => IInv
<1> SUFFICES ASSUME FramedInit PROVE IInv
  OBVIOUS
<1>1. TypeOK
  BY InitType DEF FramedInit
<1> QED  BY <1>1 DEF FramedInit, Init, IInv, FramesAreChained, ImageIntact

\* An opcode of a lawful program is executed in a frame, and every one but the
\* calls and returns stays in it.
LEMMA LocalSteps ==
  ASSUME IInv, ProgramsAreLawful, LocalStep
  PROVE  \/ RefuseArguments \/ PrintResult \/ OutOfBounds \/ Terminated
         \/ /\ Executed /\ ExecuteOpcode
            /\ \/ \E n, pushed, next : StackStep(n, pushed, next)
               \/ \E v, value, n, next : VarStep(v, value, n, next)
<1>0. TypeOK /\ FramesAreChained /\ ImageIntact
  BY DEF IInv
<1>1. ASSUME ExecuteOpcode PROVE Executed
  BY <1>0, <1>1 DEF Executed, FramesAreChained, ExecuteOpcode, Executing, Bipush, Dup, GotoOp, Iadd,
       Iand, Ifeq, Iflt, IfIcmpeq, Iinc, Iload, InvokeVirtual, Getchar, Putchar, UnknownBuiltin,
       Ior, Ireturn, Istore, Isub, LdcW, Nop, Pop, Swap, Wide, Unknown
<1>2. CASE RefuseArguments \/ PrintResult \/ OutOfBounds \/ Terminated
  BY <1>2
<1>3. CASE Bipush \/ Iload \/ LdcW \/ Dup
  <2>1. Executed /\ ExecuteOpcode
    BY <1>1, <1>3 DEF ExecuteOpcode
  <2>2. \E n, pushed, next : StackStep(n, pushed, next)
    BY Zenon, <1>3, <2>1, PushOpcodes, DupOpcode
  <2> QED  BY <2>1, <2>2
<1>4. CASE Iadd \/ Isub \/ Iand \/ Ior \/ Swap
  <2>1. Executed /\ ExecuteOpcode
    BY <1>1, <1>4 DEF ExecuteOpcode
  <2>2. \E n, pushed, next : StackStep(n, pushed, next)
    BY Zenon, <1>4, <2>1, BinaryOpcodes, SwapOpcode
  <2> QED  BY <2>1, <2>2
<1>5. CASE GotoOp \/ Ifeq \/ Iflt \/ IfIcmpeq
  <2>1. Executed /\ ExecuteOpcode
    BY <1>1, <1>5 DEF ExecuteOpcode
  <2>2. \E n, pushed, next : StackStep(n, pushed, next)
    BY Zenon, <1>5, <2>1, BranchOpcodes
  <2> QED  BY <2>1, <2>2
<1>6. CASE Nop \/ Pop \/ Unknown \/ UnknownBuiltin \/ Wide \/ Getchar \/ Putchar
  <2>1. Executed /\ ExecuteOpcode
    BY <1>1, <1>6 DEF ExecuteOpcode
  <2>2. \E n, pushed, next : StackStep(n, pushed, next)
    BY Zenon, <1>6, <2>1, MoveOpcodes, BuiltinOpcodes
  <2> QED  BY <2>1, <2>2
<1>7. CASE Istore \/ Iinc
  <2>1. Executed /\ ExecuteOpcode
    BY <1>1, <1>7 DEF ExecuteOpcode
  <2>2. \E v, value, n, next : VarStep(v, value, n, next)
    BY Zenon, <1>7, <2>1, VariableOpcodes
  <2> QED  BY <2>1, <2>2
<1> QED
  BY Zenon, <1>2, <1>3, <1>4, <1>5, <1>6, <1>7 DEF LocalStep

\* Every step keeps the invariant.
LEMMA FramedStepInv == IInv /\ ProgramsAreLawful /\ [FramedNext]_framedVars => IInv'
<1> SUFFICES ASSUME IInv, ProgramsAreLawful, [FramedNext]_framedVars PROVE IInv'
  OBVIOUS
<1>0. TypeOK /\ TypeOK' /\ FramesAreChained /\ ImageIntact /\ (status = "start" => calls = <<>> /\ sp = 0)
  BY FramedIsNext, StepType DEF IInv
<1>1. SUFFICES FramesAreChained' /\ ImageIntact' /\ (status' = "start" => calls' = <<>> /\ sp' = 0)
  BY <1>0 DEF IInv
<1>2. CASE StartMain /\ calls' = Append(calls, lv')
  <2>1. calls = <<>> /\ status' = "run"
    BY <1>0, <1>2 DEF StartMain
  <2> QED  BY <1>0, <1>2, <2>1, StartKeeps
<1>3. ASSUME status = "run", pc # INITIAL_PC PROVE Executed
  BY <1>0, <1>3 DEF Executed, FramesAreChained
<1>4. CASE InvokeVirtual /\ calls' = Append(calls, lv')
  <2>1. Executed /\ status' = "run"
    BY <1>3, <1>4 DEF InvokeVirtual, Executing
  <2> QED  BY <1>4, <2>1, CallKeeps
<1>5. CASE Ireturn /\ calls' = SubSeq(calls, 1, Len(calls) - 1)
  <2>1. Executed /\ status' = "run"
    BY <1>3, <1>5 DEF Ireturn, Executing
  <2> QED  BY <1>5, <2>1, ReturnKeeps
<1>6. CASE LocalStep /\ UNCHANGED calls
  <2>1. CASE RefuseArguments \/ OutOfBounds
    BY <2>1 DEF RefuseArguments, OutOfBounds, FramesAreChained, ImageIntact
  <2>2. CASE PrintResult
    <3>1. /\ status = "run" /\ status' = "returned" /\ UNCHANGED <<program, mem, sp, lv, pc, calls>>
      BY <1>6, <2>2 DEF PrintResult
    <3>2. FramesAreChained'
      BY <1>0, <3>1 DEF FramesAreChained, Chained, Depth
    <3>3. ImageIntact'
      BY <1>0, <3>1 DEF ImageIntact
    <3> QED  BY <3>1, <3>2, <3>3
  <2>3. CASE Terminated
    BY <1>0, <1>6, <2>3 DEF Terminated, vars, FramesAreChained, ImageIntact, Chained, Depth
  <2>4. CASE /\ Executed
             /\ \/ \E n, pushed, next : StackStep(n, pushed, next)
                \/ \E v, value, n, next : VarStep(v, value, n, next)
    <3>1. FramesAreChained' /\ ImageIntact'
      BY Zenon, <1>6, <2>4, StackStepKeeps, VarStepKeeps
    <3>2. status' = "run"
      BY <2>4 DEF Executed, StackStep, VarStep
    <3> QED  BY <3>1, <3>2
  <2> QED
    BY Zenon, <1>6, <2>1, <2>2, <2>3, <2>4, LocalSteps
<1>7. CASE UNCHANGED framedVars
  BY <1>0, <1>7 DEF framedVars, vars, FramesAreChained, ImageIntact, Chained, Depth
<1> QED  BY <1>2, <1>4, <1>5, <1>6, <1>7 DEF FramedNext

\* The inductive invariant holds of every execution of lawful programs.
LEMMA FramedInv == FramedSpec /\ []ProgramsAreLawful => []IInv
BY FramedInitInv, FramedStepInv, PTL DEF FramedSpec

\* As long as the program is lawful, the frames of the methods being executed stay
\* apart in the one stack, and no sequence of calls, returns, stores and pushes
\* breaks the chain of link pointers and saved lvs that leads back to main.
THEOREM FramesStayChained == FramedSpec /\ []ProgramsAreLawful => []FramesAreChained
<1>1. IInv => FramesAreChained
  BY DEF IInv
<1> QED  BY <1>1, FramedInv, PTL

\* Nothing in the interpreter checks a write, and yet a lawful program never
\* overwrites its own code or its constants.
THEOREM ImageStaysIntact == FramedSpec /\ []ProgramsAreLawful => []ImageIntact
<1>1. IInv => ImageIntact
  BY DEF IInv
<1> QED  BY <1>1, FramedInv, PTL

\* The run checks TypeOK of the specification with the history variable.
THEOREM FramedTypeCorrect == FramedSpec => []TypeOK
<1>1. FramedInit => TypeOK
  BY InitType DEF FramedInit
<1>2. TypeOK /\ [FramedNext]_framedVars => TypeOK'
  BY FramedIsNext, StepType
<1> QED  BY <1>1, <1>2, PTL DEF FramedSpec

\* In one step, pc becomes INITIAL_PC only by the return from main.
LEMMA MainReturnsStep ==
  IInv /\ ProgramsAreLawful /\ [FramedNext]_framedVars
    => [status = "run" /\ pc # INITIAL_PC /\ pc' = INITIAL_PC
          => Opcode = OP.IRETURN /\ lv = InitialSp(program) + 1]_vars
<1> SUFFICES ASSUME IInv, ProgramsAreLawful, [FramedNext]_framedVars,
                    status = "run", pc # INITIAL_PC, pc' = INITIAL_PC
             PROVE  Opcode = OP.IRETURN /\ lv = InitialSp(program) + 1
  OBVIOUS
<1>1. Executed
  BY DEF IInv, Executed, FramesAreChained
<1>2. CASE StartMain
  BY <1>2 DEF StartMain
<1>3. CASE InvokeVirtual
  <2>1. pc' = Abstract!Constant(Index) + 4 /\ Abstract!Constant(Index) \in Nat
    BY <1>1, <1>3, CallStep
  <2> QED  BY <2>1 DEF INITIAL_PC
<1>4. CASE Ireturn
  <2>1. Depth = 1
    BY <1>1, <1>4, ReturnStep, ExecutedFrame
  <2>2. lv = calls[1] /\ calls # <<>> /\ Chained(mem, calls, sp)
    BY <1>1, <2>1, ExecutedFrame DEF Executed
  <2> QED  BY <1>4, <2>2 DEF Chained, Ireturn, Executing
<1>5. CASE LocalStep
  <2>1. CASE RefuseArguments \/ PrintResult \/ OutOfBounds \/ Terminated
    BY <2>1 DEF RefuseArguments, PrintResult, OutOfBounds, Terminated, vars
  <2>2. CASE \/ \E n, pushed, next : StackStep(n, pushed, next)
             \/ \E v, value, n, next : VarStep(v, value, n, next)
    BY <2>2 DEF StackStep, VarStep, Lands
  <2> QED  BY <1>5, <2>1, <2>2, LocalSteps
<1>6. CASE UNCHANGED framedVars
  BY <1>6 DEF framedVars, vars
<1> QED  BY <1>2, <1>3, <1>4, <1>5, <1>6 DEF FramedNext

\* The main loop of ijvm ends when pc is INITIAL_PC (ijvm.c:277): no branch, no
\* return of another method and no opcode at the end of the code gets there.
THEOREM OnlyMainReturnsToInitialPc ==
  FramedSpec /\ []ProgramsAreLawful => InitialPcMeansMainReturned
BY FramedInv, MainReturnsStep, PTL DEF FramedSpec, InitialPcMeansMainReturned

=============================================================================
