-------------------------------- MODULE IJVM --------------------------------
(***************************************************************************)
(* The IJVM interpreter, src/ijvm.c.                                       *)
(*                                                                         *)
(* A behaviour is one execution of `ijvm IMAGE ARGUMENTS': ijvm_new, then  *)
(* one action per executed opcode, then the printing of the result.        *)
(*                                                                         *)
(* An access outside the memory is undefined behaviour in C.  The model    *)
(* knows nothing of the program after one: it stops in "undefined".        *)
(***************************************************************************)
EXTENDS Image

-----------------------------------------------------------------------------
VARIABLES program,  \* the program being executed, chosen once
          mem,      \* method area, constant pool and stack
          sp, lv,   \* word addresses of the stack's top and of the link pointer
          pc,       \* byte address of the next opcode
          wide,     \* the previous opcode was WIDE
          input, output,
          status,   \* "start", "run", "exited", "returned" or "undefined"
          result    \* what ijvm_print_result prints

vars == <<program, mem, sp, lv, pc, wide, input, output, status, result>>

Init ==
  /\ program \in Programs
  /\ mem = [w \in Address |-> 0]
  /\ sp = 0 /\ lv = 0 /\ pc = INITIAL_PC
  /\ wide = FALSE
  /\ input = program.input
  /\ output = <<>>
  /\ status = "start"
  /\ result = 0

-----------------------------------------------------------------------------
(* What one opcode reads: its operands, and every word it touches. *)

cpp == CppOf(program)
Method(a) == ByteOf(mem, a)
UInt16(a) == UInt16Of(mem, a)

Opcode == Method(pc)
Variable == IF wide THEN UInt16(pc + 1) ELSE Method(pc + 1)
Index == UInt16(pc + 1)
\* Faulty: offsets count from the end of the instruction.
TargetFromNext == pc + 3 + Signed(UInt16(pc + 1), 65536)

Target == pc + Signed(UInt16(pc + 1), 65536)

\* The address after the opcode and its operands.
After ==
  CASE Opcode = OP.BIPUSH -> pc + 2
    [] Opcode \in {OP.ILOAD, OP.ISTORE} -> IF wide THEN pc + 3 ELSE pc + 2
    [] Opcode \in {OP.GOTO, OP.IFEQ, OP.IFLT, OP.IF_ICMPEQ, OP.IINC,
                  OP.INVOKEVIRTUAL, OP.LDC_W} -> pc + 3
    [] OTHER -> pc + 1

\* The words and the header bytes read and written by an invocation through
\* constant pool entry index, when top is the top of the stack.
Invocation(m, top, index) ==
  LET method == ToUWord(m[cpp + index])
      base == top + UInt16Of(m, method + 2) + 1
  IN  /\ cpp + index \in Address
      /\ method \in ByteAddress /\ method + 3 \in ByteAddress
      /\ {base, base + 1} \subseteq Address
      /\ base - UInt16Of(m, method) - UInt16Of(m, method + 2) \in Address

Operands ==
  CASE Opcode \in {OP.IADD, OP.IAND, OP.IOR, OP.ISUB, OP.IF_ICMPEQ, OP.SWAP} ->
         {sp - 1, sp}
    [] Opcode \in {OP.IFEQ, OP.IFLT, OP.POP} -> {sp}
    [] Opcode = OP.BIPUSH -> {sp + 1}
    [] Opcode = OP.DUP -> {sp, sp + 1}
    [] Opcode = OP.IINC -> {lv + Method(pc + 1)}
    [] Opcode = OP.ILOAD -> {lv + Variable, sp + 1}
    [] Opcode = OP.ISTORE -> {lv + Variable, sp}
    [] Opcode = OP.LDC_W -> {cpp + Index, sp + 1}
    [] Opcode = OP.INVOKEVIRTUAL /\ Index = GETCHAR -> {sp}
    [] Opcode = OP.INVOKEVIRTUAL /\ Index = PUTCHAR -> {sp - 1, sp}
    [] OTHER -> {}

\* Every access of the next opcode is inside the memory.
InBounds ==
  /\ pc \in ByteAddress
  /\ pc .. After - 1 \subseteq ByteAddress
  /\ Operands \subseteq Address
  /\ Opcode = OP.INVOKEVIRTUAL /\ Index < GETCHAR => Invocation(mem, sp, Index)
  /\ Opcode = OP.IRETURN => /\ {lv, sp} \subseteq Address
                            /\ {mem[lv], mem[lv] + 1} \subseteq Address

-----------------------------------------------------------------------------
(* ijvm_execute_opcode, one action for each case of its switch. *)

Executing(opcode) ==
  /\ status = "run"
  /\ pc # INITIAL_PC
  /\ InBounds
  /\ Opcode = opcode

\* Faulty: the wide flag survives the opcode it was meant for.
GotoKeepingWide(newPc, newSp, newMem) ==
  /\ pc' = ToUWord(newPc)
  /\ sp' = ToUWord(newSp)
  /\ mem' = newMem
  /\ UNCHANGED <<program, lv, wide, input, output, status, result>>

\* The end of an opcode that leaves the frame, the streams and the program be.
Goto(newPc, newSp, newMem) ==
  /\ pc' = ToUWord(newPc)
  /\ sp' = ToUWord(newSp)
  /\ mem' = newMem
  /\ wide' = FALSE
  /\ UNCHANGED <<program, lv, input, output, status, result>>

Pushed(value) == [mem EXCEPT ![sp + 1] = ToWord(value)]

Bipush ==
  /\ Executing(OP.BIPUSH)
  /\ Goto(After, sp + 1, Pushed(Signed(Method(pc + 1), 256)))

Dup ==
  /\ Executing(OP.DUP)
  /\ Goto(After, sp + 1, Pushed(mem[sp]))

GotoOp ==
  /\ Executing(OP.GOTO)
  /\ Goto(Target, sp, mem)

\* Faulty: the stack has words wider than int32, which do not wrap around.
BinaryUnwrapped(value) == Goto(After, sp - 1, [mem EXCEPT ![sp - 1] = value])

Binary(value) == Goto(After, sp - 1, [mem EXCEPT ![sp - 1] = ToWord(value)])

Iadd == Executing(OP.IADD) /\ Binary(mem[sp] + mem[sp - 1])
\* Faulty: the operands are subtracted the wrong way round.
IsubReversed == Executing(OP.ISUB) /\ Binary(mem[sp] - mem[sp - 1])
Isub == Executing(OP.ISUB) /\ Binary(mem[sp - 1] - mem[sp])
Iand == Executing(OP.IAND) /\ Binary(BitAnd(mem[sp], mem[sp - 1]))
Ior  == Executing(OP.IOR)  /\ Binary(BitOr(mem[sp], mem[sp - 1]))

Branch(taken, popped) ==
  Goto(IF taken THEN Target ELSE After, sp - popped, mem)

Ifeq == Executing(OP.IFEQ) /\ Branch(mem[sp] = 0, 1)
Iflt == Executing(OP.IFLT) /\ Branch(mem[sp] < 0, 1)
IfIcmpeq == Executing(OP.IF_ICMPEQ) /\ Branch(mem[sp] = mem[sp - 1], 2)

Iinc ==
  /\ Executing(OP.IINC)
  /\ Goto(After, sp,
          [mem EXCEPT ![lv + Method(pc + 1)] =
             ToWord(@ + Signed(Method(pc + 2), 256))])

Iload ==
  /\ Executing(OP.ILOAD)
  /\ Goto(After, sp + 1, Pushed(mem[lv + Variable]))

Istore ==
  /\ Executing(OP.ISTORE)
  /\ Goto(After, sp - 1, [mem EXCEPT ![lv + Variable] = mem[sp]])

LdcW ==
  /\ Executing(OP.LDC_W)
  /\ Goto(After, sp + 1, Pushed(mem[cpp + Index]))

\* Faulty: nop does not go on to the next opcode.
NopAgain == Executing(OP.NOP) /\ Goto(pc, sp, mem)
Nop == Executing(OP.NOP) /\ Goto(After, sp, mem)
Pop == Executing(OP.POP) /\ Goto(After, sp - 1, mem)

\* Faulty: the second word is stored after the first is overwritten.
SwapInPlace ==
  /\ Executing(OP.SWAP)
  /\ Goto(After, sp, [mem EXCEPT ![sp] = mem[sp - 1]])

Swap ==
  /\ Executing(OP.SWAP)
  /\ Goto(After, sp, [mem EXCEPT ![sp] = mem[sp - 1], ![sp - 1] = mem[sp]])

Wide ==
  /\ Executing(OP.WIDE)
  /\ pc' = ToUWord(After)
  /\ wide' = TRUE
  /\ UNCHANGED <<program, mem, sp, lv, input, output, status, result>>

\* A byte that is no opcode matches no case: it is skipped.
Unknown ==
  /\ \E opcode \in Byte \ {OP[name] : name \in DOMAIN OP} : Executing(opcode)
  /\ Goto(After, sp, mem)

\* Faulty: the object reference is counted twice.
LinkPointerTooLow(newSp, nargs, nlocals) == newSp - nargs - nlocals - 2

\* The link pointer takes the place of the object reference.
LinkPointer(newSp, nargs, nlocals) == newSp - nargs - nlocals - 1

\* ijvm_invoke_virtual for an index below 0x8000: the frame it makes on the
\* stack of m, of which top is the top, for a caller to be resumed at return.
Invoke(m, top, return, index) ==
  LET address == ToUWord(m[cpp + index])
      nargs == UInt16Of(m, address)
      nlocals == UInt16Of(m, address + 2)
      newSp == top + nlocals + 2
      newLv == LinkPointer(newSp, nargs, nlocals)
  IN  /\ mem' = [m EXCEPT ![newSp - 1] = ToWord(return),
                          ![newSp] = ToWord(lv),
                          ![newLv] = newSp - 1]
      /\ sp' = newSp
      /\ lv' = newLv
      /\ pc' = address + 4
      /\ wide' = FALSE

\* Faulty: every frame is made like that of main, by ijvm_new.
InvokeFromMain ==
  /\ Executing(OP.INVOKEVIRTUAL)
  /\ Index < GETCHAR
  /\ Invoke(mem, sp, INITIAL_PC, Index)
  /\ UNCHANGED <<program, input, output, status, result>>

InvokeVirtual ==
  /\ Executing(OP.INVOKEVIRTUAL)
  /\ Index < GETCHAR
  /\ Invoke(mem, sp, After, Index)
  /\ UNCHANGED <<program, input, output, status, result>>

\* ijvm_invoke_builtin: 0x8000 reads a character, 0x8001 writes one, and any
\* other index from 0x8000 on does nothing.
Getchar ==
  /\ Executing(OP.INVOKEVIRTUAL)
  /\ Index = GETCHAR
  /\ pc' = ToUWord(After)
  /\ IF input = <<>>
     THEN mem' = [mem EXCEPT ![sp] = EOF] /\ input' = input
     ELSE mem' = [mem EXCEPT ![sp] = Head(input)] /\ input' = Tail(input)
  /\ wide' = FALSE
  /\ UNCHANGED <<program, sp, lv, output, status, result>>

Putchar ==
  /\ Executing(OP.INVOKEVIRTUAL)
  /\ Index = PUTCHAR
  /\ pc' = ToUWord(After)
  /\ sp' = ToUWord(sp - 1)
  /\ mem' = [mem EXCEPT ![sp - 1] = Unsigned(mem[sp], 256)]
  /\ output' = Append(output, Unsigned(mem[sp], 256))
  /\ wide' = FALSE
  /\ UNCHANGED <<program, lv, input, status, result>>

UnknownBuiltin ==
  /\ Executing(OP.INVOKEVIRTUAL)
  /\ Index > PUTCHAR
  /\ Goto(After, sp, mem)

\* Faulty: the caller goes on with the variables of the callee.
IreturnKeepingLv ==
  /\ Executing(OP.IRETURN)
  /\ mem' = [mem EXCEPT ![lv] = mem[sp]]
  /\ sp' = lv
  /\ pc' = ToUWord(mem'[mem[lv]])
  /\ wide' = FALSE
  /\ UNCHANGED <<program, lv, input, output, status, result>>

Ireturn ==
  /\ Executing(OP.IRETURN)
  /\ LET link == mem[lv]
         returned == [mem EXCEPT ![lv] = mem[sp]]
     IN  /\ mem' = returned
         /\ sp' = lv
         /\ pc' = ToUWord(returned[link])
         /\ lv' = ToUWord(returned[link + 1])
  /\ wide' = FALSE
  /\ UNCHANGED <<program, input, output, status, result>>

-----------------------------------------------------------------------------
(* ijvm_new, the end of the main loop, and the accesses C does not define. *)

MainOffset == Loaded(program)[cpp + program.main]
CountMatches ==
  Len(program.args) = UInt16Of(Loaded(program), MainOffset) - 1
\* The image and the first frame fit in the memory.
Fits ==
  /\ InitialSp(program) \in Address
  /\ MainOffset \in ByteAddress /\ MainOffset + 3 \in ByteAddress
  /\ CountMatches => ArgumentsTop(program) \in Address
  /\ CountMatches /\ ArgumentsAreNumbers(program)
       => Invocation(WithArguments(program, Loaded(program)),
                     ArgumentsTop(program), program.main)

StartMain ==
  /\ status = "start"
  /\ Fits /\ CountMatches /\ ArgumentsAreNumbers(program)
  /\ Invoke(WithArguments(program, Loaded(program)), ArgumentsTop(program),
            INITIAL_PC, program.main)
  /\ status' = "run"
  /\ UNCHANGED <<program, input, output, result>>

\* "Incorrect number of arguments", "Invalid argument to main method".
RefuseArguments ==
  /\ status = "start"
  /\ Fits
  /\ ~CountMatches \/ ~ArgumentsAreNumbers(program)
  /\ status' = "exited"
  /\ UNCHANGED <<program, mem, sp, lv, pc, wide, input, output, result>>

\* ijvm_active is false: ijvm_print_result.
PrintResult ==
  /\ status = "run"
  /\ pc = INITIAL_PC
  /\ sp \in Address
  /\ status' = "returned"
  /\ result' = mem[sp]
  /\ UNCHANGED <<program, mem, sp, lv, pc, wide, input, output>>

OutOfBounds ==
  /\ \/ status = "start" /\ ~Fits
     \/ status = "run" /\ ~IF pc = INITIAL_PC THEN sp \in Address ELSE InBounds
  /\ status' = "undefined"
  /\ UNCHANGED <<program, mem, sp, lv, pc, wide, input, output, result>>

Terminated ==
  /\ status \in {"exited", "returned", "undefined"}
  /\ UNCHANGED vars

ExecuteOpcode ==
  \/ Bipush \/ Dup \/ GotoOp \/ Iadd \/ Iand \/ Ifeq \/ Iflt \/ IfIcmpeq
  \/ Iinc \/ Iload \/ InvokeVirtual \/ Getchar \/ Putchar \/ UnknownBuiltin
  \/ Ior \/ Ireturn \/ Istore \/ Isub \/ LdcW \/ Nop \/ Pop \/ Swap \/ Wide
  \/ Unknown

Next ==
  \/ StartMain \/ RefuseArguments
  \/ ExecuteOpcode
  \/ PrintResult \/ OutOfBounds
  \/ Terminated

\* The interpreter is one sequential loop: it runs whenever it can.
Spec == Init /\ [][Next]_vars /\ WF_vars(Next)
=============================================================================
