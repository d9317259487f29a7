----------------------------- MODULE CallMachine -----------------------------
(***************************************************************************)
(* What the IJVM promises a program: method calls over frames that are     *)
(* separate from each other and from the code.  There is no memory here,   *)
(* no stack pointer and no link pointer: a frame is the address of its     *)
(* next opcode, its variables 1, 2, ... and its operand stack, and code    *)
(* and constants are those of the image, for ever.                         *)
(*                                                                         *)
(* The first frame stands for ijvm_new: it calls main and gets its result. *)
(* The variables a method declares start with arbitrary values.  A program *)
(* that takes an operand from an empty stack, uses a variable it does not  *)
(* have or leaves its code has no next step here: nothing is promised.     *)
(***************************************************************************)
EXTENDS Sequences, SequencesExt, Words, Bytecode

CONSTANTS MemWords, Programs, NotANumber

VARIABLES program, frames, wide, input, output, status, result

vars == <<program, frames, wide, input, output, status, result>>

Init ==
  /\ program \in Programs
  /\ frames = <<[pc |-> INITIAL_PC, locals |-> <<>>, stack |-> <<>>]>>
  /\ wide = FALSE
  /\ input = program.input
  /\ output = <<>>
  /\ status = "start"
  /\ result = 0

-----------------------------------------------------------------------------
\* The words the frames take: two for the return address and the caller's
\* frame, one for the link in place of the object reference.
WordsOf(frame) == 3 + Len(frame.locals) + Len(frame.stack)
Used ==
  LET upto[n \in 0 .. Len(frames)] ==
        IF n = 0 THEN 0 ELSE upto[n - 1] + WordsOf(frames[n])
      image == (Len(program.method) + WordBytes - 1) \div WordBytes
                 + Len(program.cpool)
  IN  image + upto[Len(frames)] - 3      \* ijvm_new has no frame of its own

Code(a) == program.method[a + 1]
UInt16(a) == 256 * Code(a) + Code(a + 1)
Constant(index) == program.cpool[index + 1]

Callers == Front(frames)
Frame == Last(frames)
pc == Frame.pc
Operand(n) == Frame.stack[Len(Frame.stack) - n]      \* the top one is Operand(0)

Active == status = "run" /\ Len(frames) > 1
At(name) == Active /\ Code(pc) = OP[name]

\* The frame after popping n operands and pushing a sequence of words.
Popped(n) == SubSeq(Frame.stack, 1, Len(Frame.stack) - n)
Replace(n, pushed, next) ==
  /\ Len(Frame.stack) >= n
  /\ frames' = Append(Callers, [Frame EXCEPT !.pc = next,
                                             !.stack = Popped(n) \o pushed])
  /\ wide' = FALSE
  /\ UNCHANGED <<program, status, result>>

Local(n, pushed, next) == Replace(n, pushed, next) /\ UNCHANGED <<input, output>>

Var == IF wide THEN UInt16(pc + 1) ELSE Code(pc + 1)
AfterVar == IF wide THEN pc + 3 ELSE pc + 2
HasVar(v) == v \in 1 .. Len(Frame.locals)
Target == pc + Signed(UInt16(pc + 1), 65536)

Bipush == At("BIPUSH") /\ Local(0, <<Signed(Code(pc + 1), 256)>>, pc + 2)
Dup == At("DUP") /\ Local(1, <<Operand(0), Operand(0)>>, pc + 1)
Goto == At("GOTO") /\ Local(0, <<>>, Target)
Iadd == At("IADD") /\ Local(2, <<ToWord(Operand(1) + Operand(0))>>, pc + 1)
Isub == At("ISUB") /\ Local(2, <<ToWord(Operand(1) - Operand(0))>>, pc + 1)
Iand == At("IAND") /\ Local(2, <<BitAnd(Operand(1), Operand(0))>>, pc + 1)
Ior == At("IOR") /\ Local(2, <<BitOr(Operand(1), Operand(0))>>, pc + 1)
Ifeq == At("IFEQ") /\ Local(1, <<>>, IF Operand(0) = 0 THEN Target ELSE pc + 3)
Iflt == At("IFLT") /\ Local(1, <<>>, IF Operand(0) < 0 THEN Target ELSE pc + 3)
IfIcmpeq ==
  /\ At("IF_ICMPEQ")
  /\ Local(2, <<>>, IF Operand(0) = Operand(1) THEN Target ELSE pc + 3)
Iload ==
  /\ At("ILOAD")
  /\ HasVar(Var)
  /\ Local(0, <<Frame.locals[Var]>>, AfterVar)
LdcW == At("LDC_W") /\ Local(0, <<Constant(UInt16(pc + 1))>>, pc + 3)
Nop == At("NOP") /\ Local(0, <<>>, pc + 1)
Pop == At("POP") /\ Local(1, <<>>, pc + 1)
Swap == At("SWAP") /\ Local(2, <<Operand(0), Operand(1)>>, pc + 1)

SetVar(v, value, popped, next) ==
  /\ HasVar(v)
  /\ Len(Frame.stack) >= popped
  /\ frames' = Append(Callers, [Frame EXCEPT !.pc = next, !.stack = Popped(popped),
                                             !.locals[v] = value])
  /\ wide' = FALSE
  /\ UNCHANGED <<program, status, result, input, output>>

Istore == At("ISTORE") /\ SetVar(Var, Operand(0), 1, AfterVar)
Iinc ==
  LET v == Code(pc + 1)
  IN  At("IINC") /\ SetVar(v, ToWord(Frame.locals[v] + Signed(Code(pc + 2), 256)),
                           0, pc + 3)

Wide ==
  /\ At("WIDE")
  /\ frames' = Append(Callers, [Frame EXCEPT !.pc = pc + 1])
  /\ wide' = TRUE
  /\ UNCHANGED <<program, status, result, input, output>>

Unknown ==
  /\ Active
  /\ \A name \in DOMAIN OP : Code(pc) # OP[name]
  /\ Local(0, <<>>, pc + 1)

Getchar ==
  /\ At("INVOKEVIRTUAL") /\ UInt16(pc + 1) = GETCHAR
  /\ Replace(1, <<IF input = <<>> THEN EOF ELSE Head(input)>>, pc + 3)
  /\ input' = IF input = <<>> THEN <<>> ELSE Tail(input)
  /\ UNCHANGED output

Putchar ==
  /\ At("INVOKEVIRTUAL") /\ UInt16(pc + 1) = PUTCHAR
  /\ Replace(2, <<Operand(0) % 256>>, pc + 3)
  /\ output' = Append(output, Operand(0) % 256)
  /\ UNCHANGED input

UnknownBuiltin ==
  /\ At("INVOKEVIRTUAL") /\ UInt16(pc + 1) > PUTCHAR
  /\ Local(0, <<>>, pc + 3)

-----------------------------------------------------------------------------
\* The caller loses the object reference and the arguments; the callee has the
\* arguments as its first variables, and fresh ones after them.
Call(callers, caller, method, next) ==
  LET nargs == UInt16(method)
      kept == Len(caller.stack) - nargs
      callee == Last(frames')
  IN  /\ nargs >= 1 /\ kept >= 0
      /\ Len(frames') = Len(callers) + 2
      /\ Front(frames') =
           Append(callers, [caller EXCEPT !.pc = next,
                                          !.stack = SubSeq(@, 1, kept)])
      /\ callee.pc = method + 4
      /\ callee.stack = <<>>
      /\ Len(callee.locals) = nargs - 1 + UInt16(method + 2)
      /\ \A i \in 1 .. nargs - 1 : callee.locals[i] = caller.stack[kept + 1 + i]
      /\ \A i \in nargs .. Len(callee.locals) : callee.locals[i] \in Word
      /\ wide' = FALSE

Main == Constant(program.main)

StartMain ==
  /\ status = "start"
  /\ Len(program.args) = UInt16(Main) - 1
  /\ \A i \in 1 .. Len(program.args) : program.args[i] # NotANumber
  /\ Call(<<>>, [pc |-> INITIAL_PC, locals |-> <<>>,
                 stack |-> <<INITIAL_OBJ_REF>>
                             \o [i \in 1 .. Len(program.args) |->
                                   ToWord(program.args[i])]],
          Main, INITIAL_PC)
  /\ status' = "run"
  /\ UNCHANGED <<program, input, output, result>>

RefuseArguments ==
  /\ status = "start"
  /\ \/ Len(program.args) # UInt16(Main) - 1
     \/ \E i \in 1 .. Len(program.args) : program.args[i] = NotANumber
  /\ status' = "exited"
  /\ UNCHANGED <<program, frames, wide, input, output, result>>

InvokeVirtual ==
  /\ At("INVOKEVIRTUAL") /\ UInt16(pc + 1) < GETCHAR
  /\ Call(Callers, Frame, Constant(UInt16(pc + 1)), pc + 3)
  /\ UNCHANGED <<program, status, result, input, output>>

\* The frame is gone, and its top operand is the caller's; a method that has
\* none, as main of test/test-putchar.j, returns some word.
Ireturn ==
  /\ At("IRETURN")
  /\ LET value == Last(Last(frames').stack)
     IN  /\ frames' = Append(Front(Callers),
                             [Last(Callers) EXCEPT !.stack = Append(@, value)])
         /\ IF Frame.stack = <<>> THEN value \in Word ELSE value = Operand(0)
  /\ wide' = FALSE
  /\ UNCHANGED <<program, status, result, input, output>>

PrintResult ==
  /\ status = "run"
  /\ Len(frames) = 1
  /\ result' = Operand(0)
  /\ status' = "returned"
  /\ UNCHANGED <<program, frames, wide, input, output>>

\* Only an opcode that needs more words than there are ends in "undefined".
Needed ==
  CASE status = "start" -> 1 + Len(program.args) + UInt16(Main + 2) + 2
    [] At("INVOKEVIRTUAL") /\ UInt16(pc + 1) < GETCHAR ->
         UInt16(Constant(UInt16(pc + 1)) + 2) + 2
    [] At("BIPUSH") \/ At("DUP") \/ At("ILOAD") \/ At("LDC_W") -> 1
    [] OTHER -> 0

OutOfMemory ==
  /\ status = "start" \/ Active
  /\ Used + Needed > MemWords
  /\ status' = "undefined"
  /\ UNCHANGED <<program, frames, wide, input, output, result>>

\* The programs to which something is promised: the next instruction is in the
\* code, behind a header, with all its bytes; it takes operands, variables and
\* constants that there are, branches into the code, and calls methods, with as
\* many arguments as they have parameters, the object reference included.
Size ==
  CASE Code(pc) = OP.BIPUSH -> 2
    [] Code(pc) \in {OP.ILOAD, OP.ISTORE} -> IF wide THEN 3 ELSE 2
    [] Code(pc) \in {OP.GOTO, OP.IFEQ, OP.IFLT, OP.IF_ICMPEQ, OP.IINC,
                     OP.INVOKEVIRTUAL, OP.LDC_W} -> 3
    [] OTHER -> 1
Taken ==
  CASE Code(pc) \in {OP.IADD, OP.IAND, OP.IOR, OP.ISUB, OP.IF_ICMPEQ, OP.SWAP} -> 2
    [] Code(pc) \in {OP.IFEQ, OP.IFLT, OP.POP, OP.ISTORE, OP.DUP} -> 1
    [] Code(pc) = OP.INVOKEVIRTUAL /\ UInt16(pc + 1) = GETCHAR -> 1
    [] Code(pc) = OP.INVOKEVIRTUAL /\ UInt16(pc + 1) = PUTCHAR -> 2
    [] OTHER -> 0

FirstCode == 4              \* behind the header of the first method
IsMethod(a) == a \in 0 .. Len(program.method) - FirstCode /\ UInt16(a) >= 1
IsConstant(index) == index < Len(program.cpool)

Lawful ==
  /\ status = "start" => IsMethod(Main)
  /\ Active =>
       /\ pc \in FirstCode .. Len(program.method) - 1
       /\ pc + Size <= Len(program.method)
       /\ Len(Frame.stack) >= Taken
       /\ At("ILOAD") \/ At("ISTORE") => HasVar(Var)
       /\ At("IINC") => HasVar(Code(pc + 1))
       /\ At("LDC_W") => IsConstant(UInt16(pc + 1))
       /\ At("GOTO") \/ At("IFEQ") \/ At("IFLT") \/ At("IF_ICMPEQ")
            => Target \in FirstCode .. Len(program.method) - 1
       /\ At("INVOKEVIRTUAL") /\ UInt16(pc + 1) < GETCHAR
            => /\ IsConstant(UInt16(pc + 1))
               /\ IsMethod(Constant(UInt16(pc + 1)))
               /\ Len(Frame.stack) >= UInt16(Constant(UInt16(pc + 1)))

Next ==
  \/ StartMain \/ RefuseArguments \/ PrintResult \/ OutOfMemory
  \/ Bipush \/ Dup \/ Goto \/ Iadd \/ Iand \/ Ifeq \/ Iflt \/ IfIcmpeq \/ Iinc
  \/ Iload \/ InvokeVirtual \/ Getchar \/ Putchar \/ UnknownBuiltin \/ Ior
  \/ Ireturn \/ Istore \/ Isub \/ LdcW \/ Nop \/ Pop \/ Swap \/ Wide \/ Unknown

Spec == Init /\ [][Next]_vars
=============================================================================
