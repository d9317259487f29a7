-------------------------------- MODULE Image --------------------------------
(***************************************************************************)
(* The memory that both simulators, ijvm and mic1, start from: one block   *)
(* with the method area, the constant pool and the stack of an IJVM        *)
(* program, in that order.  The method area is addressed by byte, the      *)
(* other two by word, and nothing checks that they stay apart.             *)
(***************************************************************************)
EXTENDS Sequences, Words, Bytecode

CONSTANTS MemWords,    \* words of memory: IJVM_MEMORY_SIZE / WordBytes
          Programs,    \* the images, arguments and inputs to execute
          NotANumber   \* an argument of the command line strtol refuses

Address == 0 .. MemWords - 1
ByteAddress == 0 .. MemWords * WordBytes - 1

ASSUME ConstantsAssumption ==
  /\ MemWords \in Nat \ {0}
  /\ MemWords * WordBytes < WordMod
  /\ NotANumber \notin Int

\* A program: the image (method area, constant pool, index of main), the words
\* of the command line after the image, and the characters of standard input.
ASSUME ProgramsAssumption ==
  \A p \in Programs :
    /\ p.method \in Seq(Byte)
    /\ p.cpool \in Seq(Word)
    /\ p.main \in 0 .. Len(p.cpool) - 1
    /\ p.args \in Seq(Int \union {NotANumber})
    /\ p.input \in Seq(Byte)

\* Word address of the constant pool, and of the stack when it is empty.
CppOf(p) == (Len(p.method) + WordBytes - 1) \div WordBytes
InitialSp(p) == CppOf(p) + Len(p.cpool) - 1

\* The byte at address a of a memory m (the lowest byte of a word comes first),
\* and the two bytes from a, the high one first.
ByteOf(m, a) == ByteIn(ToUWord(m[a \div WordBytes]), a % WordBytes)
UInt16Of(m, a) == 256 * ByteOf(m, a) + ByteOf(m, a + 1)

\* The memory with the image in it: method area, constant pool, zeroes.
MethodByte(p, a) == IF a < Len(p.method) THEN p.method[a + 1] ELSE 0

Loaded(p) ==
  [w \in Address |->
     IF w < CppOf(p)
     THEN LET byte(i) == MethodByte(p, WordBytes * w + i) IN FromBytes(byte)
     ELSE IF w <= InitialSp(p) THEN p.cpool[w - CppOf(p) + 1]
     ELSE 0]

\* Then, on the stack of m, what main is called on: the object reference and
\* the arguments, as C converts them from long to int32.
Arguments(p) == <<INITIAL_OBJ_REF>> \o p.args
ArgumentsTop(p) == InitialSp(p) + 1 + Len(p.args)
ArgumentsAreNumbers(p) == \A i \in DOMAIN p.args : p.args[i] # NotANumber
\* Faulty: a long is stored as it is.
WithLongArguments(p, m) ==
  [w \in Address |-> IF w \in InitialSp(p) + 1 .. ArgumentsTop(p)
                    THEN Arguments(p)[w - InitialSp(p)]
                    ELSE m[w]]

WithArguments(p, m) ==
  [w \in Address |-> IF w \in InitialSp(p) + 1 .. ArgumentsTop(p)
                    THEN ToWord(Arguments(p)[w - InitialSp(p)])
                    ELSE m[w]]
=============================================================================
