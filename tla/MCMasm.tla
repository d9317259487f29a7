------------------------------- MODULE MCMasm -------------------------------
(***************************************************************************)
(* mic1-asm on test/ijvm.mal, on every expression and assignment, and on   *)
(* combinations of up to three instructions on a line.                     *)
(***************************************************************************)
EXTENDS Masm, IJVMMal

\* test/ijvm.mal: the lines of the model of the microprogram as instructions.
MalAssign(line) ==
  LET assigns(r) == r \in line.c
  IN  IF line.alu = "random" THEN <<>>
      ELSE <<InsnAssign(IF line.c = {} THEN <<"VIRTUAL">> ELSE SelectSeq(COnBus, assigns),
                        PrintedAlu(line.alu, line.b),
                        IF line.sll8 THEN "lshift8" ELSE "none", 8)>>
MalFlow(flow) ==
  CASE flow.true # NoName -> <<InsnIf(CHOOSE j \in flow.jam : TRUE, flow.true, flow.to)>>
    [] flow.to # NoName /\ flow.true = NoName -> <<InsnGoto(flow.to)>>
    [] flow.jam = {"MPC"} -> <<InsnIgoto(flow.base)>>
    [] OTHER -> <<>>
MalInsns(line) ==
  LET said == MalAssign(line) \o PrintedMemory(line) \o MalFlow(line.flow)
  IN  IF line.b = "halt" THEN <<InsnHalt>>
      ELSE IF said = <<>> THEN <<InsnEmpty>> ELSE said
IjvmMal ==
  [n \in DOMAIN Source |->
     [label |-> Source[n].label,
      absolute |-> IF Source[n].absolute = NoAddress THEN Nowhere ELSE Source[n].absolute,
      insns |-> MalInsns(Source[n])]]

-----------------------------------------------------------------------------
Line(label, absolute, insns) == [label |-> label, absolute |-> absolute, insns |-> insns]
Sets(reg, alu) == InsnAssign(<<reg>>, alu, "none", 0)

\* A line in front of the two targets of an `if', at addresses with most of
\* their bits set, or as the last line.
InFront(insns) ==
  <<Line("A", 0, insns), Line("T", 509, <<Sets("SP", AluReg("LV")), InsnGoto("A")>>),
    Line("F", Nowhere, <<InsnHalt>>)>>
AsLast(insns) ==
  <<Line("T", 383, <<InsnFetch, InsnGoto("A")>>), Line("F", Nowhere, <<InsnHalt>>),
    Line("A", Nowhere, insns), Line("B", Nowhere, <<>>)>>

\* Every expression of the grammar, and some of its constants.
Expressions ==
  LET regs == Readable
      some == {"MAR", "MBR", "TOS", "H"}
  IN  {AluReg(r) : r \in regs} \union {AluInv(r) : r \in regs} \union {AluNeg(r) : r \in regs}
        \union {AluAddR1(r, 1) : r \in regs} \union {AluSubR1(r, 1) : r \in regs}
        \union {AluAddRR(r, q) : r, q \in regs} \union {AluSubRR(r, q) : r, q \in regs}
        \union {AluAddRR1(r, q, 1) : r, q \in some} \union {AluAnd(r, q) : r, q \in some}
        \union {AluOr(r, q) : r, q \in some}
        \union {AluAddRR1("H", r, 1) : r \in regs} \union {AluAnd("H", r) : r \in regs}
        \union {AluOr(r, "H") : r \in regs}
        \union {AluConst(v) : v \in {-1, 0, 1, 2}} \union {AluAddR1("SP", 2)}

Shifts == {<<"rshift1", 1>>, <<"lshift8", 8>>, <<"lshift8", 4>>}
Targets == Readable \union {"VIRTUAL"}

Assignments ==
  {Sets("OPC", alu) : alu \in Expressions}
    \union {InsnAssign(<<"H">>, alu, s[1], s[2]) :
              alu \in {AluReg("TOS"), AluAddRR("H", "MBR"), AluConst(-1), AluNeg("SP")},
              s \in Shifts}
    \union {InsnAssign(<<r, q>>, AluReg("PC"), "none", 0) : r, q \in Targets}
    \union {InsnAssign(COnBus, AluReg("MBRU"), "none", 0)}

\* The instructions whose combinations on a line are assembled.
Menu ==
  {InsnRd, InsnWr, InsnFetch, InsnEmpty, InsnHalt, InsnGoto("F"), InsnGoto("B"),
   InsnIgoto(0), InsnIgoto(511), InsnIf("Z", "T", "F"), InsnIf("N", "T", "B"),
   Sets("VIRTUAL", AluAddRR("OPC", "H")), Sets("MDR", AluSubR1("TOS", 1))}

LineSources ==
  {InFront(<<a, InsnIf("Z", "T", "F")>>) : a \in Assignments}
    \union {InFront(insns) : insns \in [1 .. 2 -> Menu]}
    \union {InFront(<<x, y, z>>) : x \in Menu, y \in {InsnRd, InsnFetch, InsnGoto("F")}, z \in Menu}
    \union {AsLast(<<x>>) : x \in Menu} \union {AsLast(<<x, InsnFetch>>) : x \in Menu}
    \union {<<Line("A", Nowhere, <<>>)>>, <<Line("A", 512, <<InsnHalt>>)>>,
             <<Line("A", WordMod - 1, <<InsnRd>>), Line("B", WordMod + 511, <<InsnGoto("A")>>)>>}

AllSources == {IjvmMal} \union LineSources

\* The labels of these lines, and those of ijvm.mal.
AllLabels ==
  {"A", "B", "T", "F",
   "mic1_entry", "main", "nop", "dup", "pop", "swap", "bipush", "iload", "iload_cont",
   "istore", "istore_cont", "wide", "wide_iload", "wide_istore", "ldc_w", "iinc",
   "ijvm_goto", "goto_cont", "iflt", "ifeq", "if_icmpeq", "invokevirtual", "ireturn",
   "mic1_exit", "iadd", "isub", "iand", "ior"}

\* The microprogram, and the control store that the runs of the simulator have.
CONSTANTS Mal, ControlStore, Entry

\* mic1-asm assembles ijvm.mal without a warning, every opcode's microcode at the
\* opcode (which is where `goto (MBR)' goes), and mic1 loads from the image the
\* control store that the runs of the simulator have.
IjvmMalIsControlStore ==
  outcome # "running" /\ program = Mal =>
    /\ outcome = "emitted"
    /\ image.entry = Entry
    /\ [a \in MicroAddresses |-> MicroWordAt(a, {})] = ControlStore

-----------------------------------------------------------------------------
\* test/check-error.mic:62-63, and one line more.
MdrSources ==
  {<<Line("A", Nowhere, <<InsnAssign(<<"MAR", "SP">>, AluSubR1("SP", 1), "none", 0), InsnRd>>),
     Line(NoName, Nowhere, <<Sets("MDR", AluNeg("H"))>>),
     Line("B", absolute, <<x, InsnGoto("A")>>)>> : absolute \in 0 .. 9, x \in {InsnRd, InsnWr}}
=============================================================================
