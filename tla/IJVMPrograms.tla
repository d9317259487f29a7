----------------------------- MODULE IJVMPrograms -----------------------------
(***************************************************************************)
(* Programs to execute: those of src/test, assembled, on chosen arguments  *)
(* and input, and every well-formed body of a few instructions.  `expect'  *)
(* has the result that a program is known to compute, if one is known.     *)
(***************************************************************************)
EXTENDS Sequences, Words, Bytecode

Header(nargs, nlocals) ==
  <<nargs \div 256, nargs % 256, nlocals \div 256, nlocals % 256>>

-----------------------------------------------------------------------------
\* test/test-main.j, with n an argument of main: fak(n), by repeated addition.
FakMain == Header(2, 0) \o
   <<OP.BIPUSH, 44, OP.ILOAD, 1, OP.INVOKEVIRTUAL, 0, 1, OP.IRETURN>>

Fak == Header(2, 1) \o
   <<OP.BIPUSH, 1, OP.ILOAD, 1, OP.IF_ICMPEQ, 0, 6, OP.GOTO, 0, 10,
     OP.BIPUSH, 1, OP.ISTORE, 2, OP.GOTO, 0, 22, OP.BIPUSH, 43, OP.ILOAD, 1,
     OP.BIPUSH, 43, OP.ILOAD, 1, OP.BIPUSH, 1, OP.ISUB,
     OP.INVOKEVIRTUAL, 0, 1, OP.INVOKEVIRTUAL, 0, 2, OP.ISTORE, 2,
     OP.ILOAD, 2, OP.IRETURN>>

Imul == Header(3, 1) \o
   <<OP.BIPUSH, 0, OP.ISTORE, 3, OP.ILOAD, 1, OP.IFEQ, 0, 20, OP.ILOAD, 1,
     OP.BIPUSH, 1, OP.ISUB, OP.ISTORE, 1, OP.ILOAD, 3, OP.ILOAD, 2, OP.IADD,
     OP.ISTORE, 3, OP.GOTO, 255, 237, OP.ILOAD, 3, OP.IRETURN>>

FakProgram(args, expect) ==
  [method |-> FakMain \o Fak \o Imul,
   cpool |-> <<0, Len(FakMain), Len(FakMain) + Len(Fak)>>,
   main |-> 0, args |-> args, input |-> <<>>, expect |-> {expect}]

\* test/test-min.j: the smaller of two numbers, by the sign of their difference.
MinMain == Header(3, 0) \o
   <<OP.BIPUSH, 88, OP.ILOAD, 1, OP.ILOAD, 2, OP.INVOKEVIRTUAL, 0, 1,
     OP.IRETURN>>

Minimum == Header(3, 1) \o
   <<OP.ILOAD, 1, OP.ILOAD, 2, OP.ISUB, OP.IFLT, 0, 10, OP.ILOAD, 2,
     OP.ISTORE, 3, OP.GOTO, 0, 7, OP.ILOAD, 1, OP.ISTORE, 3, OP.ILOAD, 3,
     OP.IRETURN>>

MinProgram(a, b) ==
  [method |-> Minimum \o MinMain, cpool |-> <<Len(Minimum), 0>>,
   main |-> 0, args |-> <<a, b>>, input |-> <<>>,
   expect |-> {IF ToWord(a - b) < 0 THEN ToWord(a) ELSE ToWord(b)}]

\* test/test-getchar.j: a character in upper case, if it is a letter.
GetcharProgram(characters, expect) ==
  [method |-> Header(1, 1) \o
     <<OP.LDC_W, 0, 1, OP.INVOKEVIRTUAL, 128, 0, OP.ISTORE, 1, OP.ILOAD, 1,
       OP.LDC_W, 0, 2, OP.ISUB, OP.IFLT, 0, 11, OP.ILOAD, 1, OP.LDC_W, 0, 3,
       OP.ISUB, OP.ISTORE, 1, OP.LDC_W, 0, 1, OP.ILOAD, 1,
       OP.INVOKEVIRTUAL, 128, 1, OP.IRETURN>>,
   cpool |-> <<0, 5, 96, 32>>,
   main |-> 0, args |-> <<>>, input |-> characters, expect |-> {expect}]

\* test/test-putchar.j: the characters from first on; main returns from an
\* empty operand stack, and the word above the link is the saved lv.
PutcharProgram(first) ==
  [method |-> Header(1, 1) \o
     <<OP.LDC_W, 0, 2, OP.ISTORE, 1, OP.LDC_W, 0, 3, OP.ILOAD, 1, OP.ISUB,
       OP.IFEQ, 0, 23, OP.LDC_W, 0, 1, OP.ILOAD, 1, OP.INVOKEVIRTUAL, 128, 1,
       OP.POP, OP.ILOAD, 1, OP.LDC_W, 0, 4, OP.IADD, OP.ISTORE, 1,
       OP.GOTO, 255, 230, OP.IRETURN>>,
   cpool |-> <<0, 5, first, 128, 1>>,
   main |-> 0, args |-> <<>>, input |-> <<>>, expect |-> {0}]

\* Variables above 255 behind wide, a wide before an opcode that has no wide
\* form, bytes that are no opcode, and a built-in method there is not.
WideProgram ==
  [method |-> Header(1, 257) \o
     <<OP.WIDE, OP.BIPUSH, 5, OP.ISTORE, 1, OP.WIDE, OP.ILOAD, 0, 1, OP.WIDE,
       OP.ISTORE, 1, 1, OP.BIPUSH, 7, OP.IINC, 1, 248, OP.ILOAD, 1, OP.WIDE,
       OP.ILOAD, 1, 1, OP.SWAP, OP.ISUB, OP.IOR, OP.LDC_W, 0, 1, OP.IAND, 255,
       OP.DUP, OP.NOP, OP.IADD, OP.INVOKEVIRTUAL, 128, 2, OP.IRETURN>>,
   cpool |-> <<0, -2>>,
   main |-> 0, args |-> <<>>, input |-> <<>>, expect |-> {28}]

\* main calls itself until the memory is full.
ForeverProgram ==
  [method |-> Header(1, 1) \o
     <<OP.BIPUSH, 44, OP.INVOKEVIRTUAL, 0, 0, OP.IRETURN>>,
   cpool |-> <<0>>, main |-> 0, args |-> <<>>, input |-> <<>>, expect |-> {}]

\* main has more variables than there is memory.
TooManyVariables ==
  [method |-> Header(1, 400) \o <<OP.BIPUSH, 1, OP.IRETURN>>,
   cpool |-> <<0>>, main |-> 0, args |-> <<>>, input |-> <<>>, expect |-> {}]

\* The constant pool alone is as large as the memory.
TooManyConstants(words) ==
  [method |-> Header(1, 0) \o <<OP.BIPUSH, 1, OP.IRETURN>>,
   cpool |-> [i \in 1 .. words |-> 0],
   main |-> 0, args |-> <<>>, input |-> <<>>, expect |-> {}]

-----------------------------------------------------------------------------
\* Instructions for a body: the bytes, the operands needed and those left.  The
\* constant pool has main, a method of one argument and one variable, and -3.
CoreMenu ==
  {[code |-> <<OP.BIPUSH, 200>>, needs |-> 0, leaves |-> 1],
   [code |-> <<OP.LDC_W, 0, 2>>, needs |-> 0, leaves |-> 1],
   [code |-> <<OP.ILOAD, 2>>, needs |-> 0, leaves |-> 1],
   [code |-> <<OP.WIDE, OP.ILOAD, 0, 1>>, needs |-> 0, leaves |-> 1],
   [code |-> <<OP.IINC, 2, 127>>, needs |-> 0, leaves |-> 0],
   [code |-> <<OP.DUP>>, needs |-> 1, leaves |-> 2],
   [code |-> <<OP.POP>>, needs |-> 1, leaves |-> 0],
   [code |-> <<OP.ISTORE, 2>>, needs |-> 1, leaves |-> 0],
   [code |-> <<OP.WIDE, OP.ISTORE, 0, 1>>, needs |-> 1, leaves |-> 0],
   [code |-> <<OP.IFEQ, 0, 3>>, needs |-> 1, leaves |-> 0],
   [code |-> <<OP.INVOKEVIRTUAL, 0, 1>>, needs |-> 2, leaves |-> 1],
   [code |-> <<OP.SWAP>>, needs |-> 2, leaves |-> 2],
   [code |-> <<OP.IFLT, 0, 3>>, needs |-> 1, leaves |-> 0],
   [code |-> <<OP.IF_ICMPEQ, 0, 3>>, needs |-> 2, leaves |-> 0],
   [code |-> <<OP.GOTO, 0, 3>>, needs |-> 0, leaves |-> 0],
   [code |-> <<OP.NOP>>, needs |-> 0, leaves |-> 0],
   [code |-> <<OP.ISUB>>, needs |-> 2, leaves |-> 1],
   [code |-> <<OP.IOR>>, needs |-> 2, leaves |-> 1]}

\* Instructions that only the interpreter of ijvm.c has: built-in methods, and
\* wide before an opcode that has no wide form.
InterpreterMenu ==
  CoreMenu \union
  {[code |-> <<OP.WIDE, OP.IINC, 1, 255>>, needs |-> 0, leaves |-> 0],
   [code |-> <<OP.WIDE, OP.GOTO, 0, 3>>, needs |-> 0, leaves |-> 0],
   [code |-> <<OP.INVOKEVIRTUAL, 128, 0>>, needs |-> 1, leaves |-> 1],
   [code |-> <<OP.INVOKEVIRTUAL, 128, 1>>, needs |-> 2, leaves |-> 1],
   [code |-> <<OP.INVOKEVIRTUAL, 128, 2>>, needs |-> 2, leaves |-> 2]}

\* The bodies of n instructions whose operands are always there, as records of
\* the bytes and of the operands at the end.
RECURSIVE Bodies(_, _)
Bodies(menu, n) ==
  IF n = 0 THEN {[code |-> <<>>, depth |-> 0]}
  ELSE {[code |-> b.code \o i.code, depth |-> b.depth - i.needs + i.leaves] :
          <<b, i>> \in {pair \in Bodies(menu, n - 1) \X menu :
                          pair[1].depth >= pair[2].needs}}

Callee == Header(2, 1) \o <<OP.ILOAD, 2, OP.ILOAD, 1, OP.ISUB, OP.IRETURN>>

BodyProgram(body) ==
  LET main == Header(2, 1) \o body.code \o <<OP.IRETURN>>
  IN  [method |-> main \o Callee, cpool |-> <<0, Len(main), -3>>,
       main |-> 0, args |-> <<5>>, input |-> <<7>>, expect |-> {}]

\* The programs whose main returns with at least so many operands.
BodyPrograms(menu, length, least) ==
  {BodyProgram(b) : b \in {b \in UNION {Bodies(menu, n) : n \in 0 .. length} :
                             b.depth >= least}}
=============================================================================
