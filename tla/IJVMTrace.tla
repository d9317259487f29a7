------------------------------ MODULE IJVMTrace ------------------------------
(***************************************************************************)
(* The trace that ijvm prints of an execution: every instruction with its  *)
(* arguments and bytes (ijvm_print_snapshot in src/ijvm-util.c), by the    *)
(* table of instructions.                                                  *)
(***************************************************************************)
EXTENDS IJVM, IJVMSpec

CONSTANT SpecFile           \* the file with the table of instructions

Templates == SpecParse(SpecFile)

\* Bytes of the operands of each kind.  A varnum-wide is one byte, behind the
\* prefix too: the code for two is switched off.
OperandSize(kind) == IF kind \in {"label", "method", "constant"} THEN 2 ELSE 1

\* Faulty: all bytes are unsigned.
ShownUnsigned(kind, a) ==
  CASE kind \in {"byte", "varnum", "varnum-wide"} -> Method(a)
    [] kind = "label" -> Signed(UInt16(a), 65536)
    [] kind \in {"method", "constant"} -> UInt16(a)

ShownOperand(kind, a) ==
  CASE kind = "byte" -> Signed(Method(a), 256)
    [] kind = "label" -> Signed(UInt16(a), 65536)
    [] kind \in {"method", "constant"} -> UInt16(a)
    [] kind \in {"varnum", "varnum-wide"} -> Method(a)

\* The mnemonic, the operands and the number of the bytes shown.
Snapshot(template) ==
  LET start[j \in 1 .. Len(template.operands) + 1] ==
        IF j = 1 THEN 1 ELSE start[j - 1] + OperandSize(template.operands[j - 1])
  IN  [mnemonic |-> template.mnemonic,
       operands |-> [j \in DOMAIN template.operands |->
                       ShownOperand(template.operands[j], pc + start[j])],
       bytes |-> start[Len(template.operands) + 1]]

-----------------------------------------------------------------------------
(* What a reader of the trace concludes from one line of it. *)

Falls(shown) == pc' = pc + shown.bytes
Jumps(shown) == pc' = ToUWord(pc + shown.operands[1])
Pushes(value) == sp' = sp + 1 /\ mem'[sp'] = value

MeansWhatItShows(shown) ==
  LET operand(j) == shown.operands[j]
  IN  CASE shown.mnemonic = "bipush" -> Pushes(operand(1)) /\ Falls(shown)
        [] shown.mnemonic = "ldc_w" -> Pushes(mem[cpp + operand(1)]) /\ Falls(shown)
        [] shown.mnemonic = "iload" -> Pushes(mem[lv + operand(1)]) /\ Falls(shown)
        [] shown.mnemonic = "istore" -> mem'[lv + operand(1)] = mem[sp] /\ Falls(shown)
        [] shown.mnemonic = "iinc" ->
             /\ mem'[lv + operand(1)] = ToWord(mem[lv + operand(1)] + operand(2))
             /\ Falls(shown)
        [] shown.mnemonic = "goto" -> Jumps(shown)
        [] shown.mnemonic = "ifeq" -> IF mem[sp] = 0 THEN Jumps(shown) ELSE Falls(shown)
        [] shown.mnemonic = "iflt" -> IF mem[sp] < 0 THEN Jumps(shown) ELSE Falls(shown)
        [] shown.mnemonic = "if_icmpeq" ->
             IF mem[sp] = mem[sp - 1] THEN Jumps(shown) ELSE Falls(shown)
        [] shown.mnemonic = "invokevirtual" ->
             IF operand(1) < GETCHAR THEN pc' = ToUWord(mem[cpp + operand(1)]) + 4
             ELSE Falls(shown)
        [] shown.mnemonic = "ireturn" -> pc' = ToUWord(mem[mem[lv]])
        [] OTHER -> Falls(shown)

\* An opcode that the table has not is shown as unknown, and skipped.
Executes == status = "run" /\ pc # INITIAL_PC /\ InBounds
ShownAsExecuted ==
  LET found == LookupByOpcode(Templates, Opcode)
  IN  IF found = {} THEN pc' = pc + 1
      ELSE \A template \in found : MeansWhatItShows(Snapshot(template))

\* The trace of an execution can be followed: the opcodes, kinds of operands and
\* their sizes in ijvm.spec, which the interpreter knows nothing of, are those
\* that it executes by; the operands shown are the ones used and the bytes shown
\* those consumed.  (Not so for a variable behind the prefix wide.)
TraceIsExecution ==
  [][Executes /\ status' = "run" /\ ~(wide /\ Opcode \in {OP.ILOAD, OP.ISTORE})
       => ShownAsExecuted]_vars

\* "In each step, the instruction, its arguments and the top 8 elements on the
\* stack are printed" (src/ijvm.c:398-400): behind the prefix wide too.
TraceShowsArguments == [][Executes /\ status' = "run" => ShownAsExecuted]_vars
=============================================================================
