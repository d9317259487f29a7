-------------------------------- MODULE MCMic1 --------------------------------
(***************************************************************************)
(* The Mic-1, with the control store that mic1-asm makes of test/ijvm.mal, *)
(* on programs that use the opcodes of that microprogram.                  *)
(***************************************************************************)
EXTENDS IJVMMal, IJVMPrograms, Mic1IJVM

\* Variables above 255 behind wide, and every opcode of two operands.
WideVariables ==
  [method |-> Header(1, 257) \o
     <<OP.BIPUSH, 5, OP.WIDE, OP.ISTORE, 1, 1, OP.BIPUSH, 7, OP.ISTORE, 1,
       OP.IINC, 1, 248, OP.WIDE, OP.ILOAD, 1, 1, OP.ILOAD, 1, OP.SWAP, OP.ISUB,
       OP.IOR, OP.BIPUSH, 85, OP.IAND, OP.IRETURN>>,
   cpool |-> <<0>>,
   main |-> 0, args |-> <<>>, input |-> <<>>, expect |-> {}]

SmallPrograms ==
  {FakProgram(<<1>>, 1), FakProgram(<<2>>, 2), FakProgram(<<NotANumber>>, 0),
   WideVariables, TooManyConstants(MemWords)}
  \union {MinProgram(a, b) : a \in {-1, 8388607}, b \in {0, 8388607, 16777221}}

CONSTANT BodyLength
AllBodies == BodyPrograms(CoreMenu, BodyLength, 1)

\* A main that returns without a result, as that of test/test-putchar.j.
VoidPrograms ==
  {[method |-> Header(1, 0) \o <<OP.IRETURN>>, cpool |-> <<0>>, main |-> 0,
    args |-> <<>>, input |-> <<>>, expect |-> {}]}

\* A microprogram that fetches while MAR is no address: MAR = -1;
\* PC = PC + 1, fetch; empty; halt.
FetchSource ==
  <<Do("MDR", "-1", {"MAR"}, {}, Fall), FetchNext(Fall), Empty,
    Do("halt", "random", {}, {}, Stop)>>
FetchStore ==
  [a \in 0 .. 511 |->
     IF a \notin 0 .. Len(FetchSource) - 1 THEN ZeroWord
     ELSE LET line == FetchSource[a + 1]
          IN  [b |-> line.b, alu |-> line.alu, sra1 |-> FALSE, sll8 |-> FALSE,
               c |-> line.c, mem |-> line.mem, jam |-> {}, next |-> a + 1]]
=============================================================================
