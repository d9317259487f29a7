------------------------------ MODULE Bytecode ------------------------------
(***************************************************************************)
(* The numbers that bytecode files and simulators share (ijvm-util.h).     *)
(***************************************************************************)
EXTENDS Integers

INITIAL_OBJ_REF == 42
INITIAL_PC == 1
EOF == -1

OP == [BIPUSH |-> 16, DUP |-> 89, GOTO |-> 167, IADD |-> 96, IAND |-> 126,
       IFEQ |-> 153, IFLT |-> 155, IF_ICMPEQ |-> 159, IINC |-> 132,
       ILOAD |-> 21, INVOKEVIRTUAL |-> 182, IOR |-> 128, IRETURN |-> 172,
       ISTORE |-> 54, ISUB |-> 100, LDC_W |-> 19, NOP |-> 0, POP |-> 87,
       SWAP |-> 95, WIDE |-> 196]

GETCHAR == 32768            \* the built-in methods' constant pool indices
PUTCHAR == 32769
=============================================================================
