--------------------------- MODULE IJVMRefinement ---------------------------
(***************************************************************************)
(* The interpreter of src/ijvm.c implements CallMachine: the frames it     *)
(* keeps in one stack, chained by link pointers, are the frames of the     *)
(* call machine.  Also what the interpreter promises of its own memory.    *)
(*                                                                         *)
(* `calls' is a history variable: the link pointers of the methods being   *)
(* executed, that of main first.  No action depends on it.                 *)
(***************************************************************************)
EXTENDS IJVM

VARIABLE calls

framedVars == <<vars, calls>>

FramedInit == Init /\ calls = <<>>

\* Everything but calls and returns.
LocalStep ==
  \/ RefuseArguments \/ PrintResult \/ OutOfBounds \/ Terminated
  \/ Bipush \/ Dup \/ GotoOp \/ Iadd \/ Iand \/ Ifeq \/ Iflt \/ IfIcmpeq
  \/ Iinc \/ Iload \/ Getchar \/ Putchar \/ UnknownBuiltin \/ Ior \/ Istore
  \/ Isub \/ LdcW \/ Nop \/ Pop \/ Swap \/ Wide \/ Unknown

FramedNext ==
  \/ (StartMain \/ InvokeVirtual) /\ calls' = Append(calls, lv')
  \/ Ireturn /\ calls' = SubSeq(calls, 1, Len(calls) - 1)
  \/ LocalStep /\ UNCHANGED calls

FramedSpec ==
  FramedInit /\ [][FramedNext]_framedVars /\ WF_framedVars(FramedNext)

-----------------------------------------------------------------------------
\* The words of the stack from one address to another, if it is not below.
Slice(from, to) ==
  IF to < from THEN <<>> ELSE [i \in 1 .. to - from + 1 |-> mem[from + i - 1]]

\* Of the method called by n others: the address of its saved pc, after which the
\* caller's lv is saved, the top of its stack and its next opcode.  Method 0 is
\* ijvm_new, which calls main.
Depth == Len(calls)
LinkOf(n) == mem[calls[n]]
TopOf(n) == IF n = Depth THEN sp ELSE calls[n + 1] - 1
NextOf(n) == IF n = Depth THEN pc ELSE ToUWord(mem[LinkOf(n + 1)])

FrameOf(n) ==
  IF n = 0
  THEN [pc |-> NextOf(0), locals |-> <<>>,
        stack |-> Slice(InitialSp(program) + 1, TopOf(0))]
  ELSE [pc |-> NextOf(n), locals |-> Slice(calls[n] + 1, LinkOf(n) - 1),
        stack |-> Slice(LinkOf(n) + 2, TopOf(n))]

Frames == [i \in 1 .. Depth + 1 |-> FrameOf(i - 1)]

Abstract == INSTANCE CallMachine WITH frames <- Frames

\* The interpreter implements the call machine: calls, variables and operands
\* behave as if every frame had a store of its own, the code and the constants
\* never change, and only a frame too many for the memory goes out of bounds.
RefinesCallMachine == Abstract!Spec

\* The programs of the tests, and all short bodies, are among those to which the
\* call machine promises something.
ProgramsAreLawful == Abstract!Lawful

\* Every variable has a value of the C type it is declared with.
TypeOK ==
  /\ program \in Programs
  /\ mem \in [Address -> Word]
  /\ sp \in UWord /\ lv \in UWord /\ pc \in UWord
  /\ wide \in BOOLEAN
  /\ input \in Seq(Byte)
  /\ output \in Seq(Byte)
  /\ status \in {"start", "run", "exited", "returned", "undefined"}
  /\ result \in Word

\* No opcode writes to the method area or the constant pool, though they are
\* in one block of memory with the stack and no write is checked.
ImageIntact ==
  status \in {"run", "returned"}
    => \A w \in 0 .. InitialSp(program) : mem[w] = Loaded(program)[w]

\* Methods whose link pointers are in c keep separate frames in memory m, below
\* address top, above the image: the variables, the saved pc and lv of one, and
\* its operands end where the next begins.  The saved lv is the caller's, the
\* saved pc is INITIAL_PC in the frame of main only.
Chained(m, c, top) ==
  /\ c \in Seq(Address) /\ top \in Address
  /\ IF c = <<>> THEN top = InitialSp(program) + 1 ELSE c[1] = InitialSp(program) + 1
  /\ \A i \in DOMAIN c :
       /\ InitialSp(program) < c[i] /\ c[i] < m[c[i]] /\ m[c[i]] < top
       /\ i > 1 => m[m[c[i]] + 1] = c[i - 1]
       /\ ToUWord(m[m[c[i]]]) = INITIAL_PC <=> i = 1
  /\ \A i, j \in DOMAIN c : i < j => m[c[i]] + 1 < c[j]

\* However the arguments, variables and operands of methods overlap in the one
\* stack, the words that lead back to main stay what the calls made them: the
\* link pointers and the saved lvs name the frames of the callers, which do not
\* overlap, and INITIAL_PC is saved in the frame of main and in no other.  (That
\* variables, operands and the other saved pcs of the callers stay as they are
\* is part of RefinesCallMachine.)
FramesAreChained ==
  status \in {"run", "returned"}
    => /\ Chained(mem, calls, sp)
       /\ calls # <<>> => lv = calls[Depth]
       /\ pc = INITIAL_PC <=> calls = <<>>

\* "PC only becomes INITIAL_PC when an `ireturn' from (the initial invocation
\* of) main is executed" (ijvm.c:277): no branch, call or return of another
\* method gets there, so the interpreter does not stop early.
InitialPcMeansMainReturned ==
  [][status = "run" /\ pc # INITIAL_PC /\ pc' = INITIAL_PC
       => Opcode = OP.IRETURN /\ lv = InitialSp(program) + 1]_vars

\* An execution ends: with an error message, with a result or by exhausting
\* the memory (for programs that do not loop).
Ends == <>(status \in {"exited", "returned", "undefined"})

\* The result printed is the one the program is known to compute.
ResultExpected ==
  status = "returned" /\ program.expect # {} => result \in program.expect
=============================================================================
