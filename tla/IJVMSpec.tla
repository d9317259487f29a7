------------------------------ MODULE IJVMSpec ------------------------------
(***************************************************************************)
(* The table of instructions that ijvm-asm and the simulators read from a  *)
(* file, src/ijvm.spec by default: src/ijvm-spec.c.                        *)
(*                                                                         *)
(* A line of the file is the sequence of its tokens: a number, names,      *)
(* commas and the mark # of a comment.                                     *)
(***************************************************************************)
EXTENDS Integers, Sequences

Number(n) == [token |-> "number", number |-> n]
Name(s) == [token |-> "name", name |-> s]
Comma == [token |-> "comma"]
Hash == [token |-> "hash"]

OperandKinds == {"byte", "label", "method", "varnum", "varnum-wide", "constant"}

IsBlankLine(line) == line = <<>> \/ line[1] = Hash

\* Operands up to the end of the line, or to a # that stands where a comma may;
\* a line may end with a comma.  <<"error">> is the end of the program.
Error == <<"error">>
OperandsFrom(line) ==
  LET from[i \in 1 .. Len(line) + 2] ==
        IF i > Len(line) THEN <<>>
        ELSE IF line[i].token # "name" THEN Error
        ELSE IF line[i].name \notin OperandKinds THEN Error
        ELSE IF i = Len(line) \/ line[i + 1] = Hash THEN <<line[i].name>>
        ELSE IF line[i + 1] # Comma \/ from[i + 2] = Error THEN Error
        ELSE <<line[i].name>> \o from[i + 2]
  IN  from[3]

IsTemplate(line) ==
  /\ Len(line) >= 2
  /\ line[1].token = "number" /\ line[2].token = "name"
  /\ OperandsFrom(line) # Error
TemplateOf(line) ==
  [opcode |-> line[1].number, mnemonic |-> line[2].name, operands |-> OperandsFrom(line)]

\* ijvm_spec_parse: the templates of the lines, or Error.
SpecParse(file) ==
  LET written(line) == ~IsBlankLine(line)
      lines == SelectSeq(file, written)
  IN  IF \E i \in DOMAIN lines : ~IsTemplate(lines[i]) THEN Error
      ELSE [i \in DOMAIN lines |-> TemplateOf(lines[i])]

\* Of several templates the first one in the file is found.
LookupByOpcode(spec, opcode) ==
  LET found == {i \in DOMAIN spec : spec[i].opcode = opcode}
  IN  {spec[i] : i \in {i \in found : \A j \in found : i <= j}}
-----------------------------------------------------------------------------
\* src/ijvm.spec, one line after the other.
Insn(opcode, mnemonic) == <<Number(opcode), Name(mnemonic)>>
IjvmSpecFile ==
  <<Insn(16, "bipush") \o <<Name("byte")>>, Insn(89, "dup"),
    Insn(167, "goto") \o <<Name("label")>>, Insn(96, "iadd"), Insn(126, "iand"),
    Insn(153, "ifeq") \o <<Name("label")>>, Insn(155, "iflt") \o <<Name("label")>>,
    Insn(159, "if_icmpeq") \o <<Name("label")>>,
    Insn(132, "iinc") \o <<Name("varnum"), Comma, Name("byte")>>,
    Insn(21, "iload") \o <<Name("varnum-wide")>>,
    Insn(182, "invokevirtual") \o <<Name("method")>>, Insn(128, "ior"),
    Insn(172, "ireturn"), Insn(54, "istore") \o <<Name("varnum-wide")>>,
    Insn(100, "isub"), Insn(19, "ldc_w") \o <<Name("constant")>>, Insn(0, "nop"),
    Insn(87, "pop"), Insn(95, "swap"), Insn(196, "wide"), <<>>>>
=============================================================================
