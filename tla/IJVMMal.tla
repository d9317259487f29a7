------------------------------- MODULE IJVMMal -------------------------------
(***************************************************************************)
(* The microprogram that interprets IJVM, src/test/ijvm.mal, and the       *)
(* control store that mic1-asm makes of it (src/mic1-check.c).             *)
(*                                                                         *)
(* A line is what it puts on the B bus, what the ALU computes, the         *)
(* registers it assigns, the memory operations it starts and where it      *)
(* goes.  A label is that of the instructions it stands for.               *)
(***************************************************************************)
EXTENDS Integers, Sequences, FiniteSets, Bytecode

NoName == ""
NoAddress == -1

\* Where a line goes: the conditions it sets the top bit or the low byte of
\* the address by, the labels of the true and the other target, the address
\* it gives itself.
Flow(jam, true, to, base) == [jam |-> jam, true |-> true, to |-> to, base |-> base]
Fall == Flow({}, NoName, NoName, NoAddress)
Goto(label) == Flow({}, NoName, label, NoAddress)
GotoMbr(base) == Flow({"MPC"}, NoName, NoName, base)
IfElse(condition, true, false) == Flow({condition}, true, false, NoAddress)
Stop == Flow({}, NoName, NoName, 0)

Do(b, alu, c, memory, flow) ==
  [label |-> NoName, absolute |-> NoAddress, b |-> b, alu |-> alu,
   sll8 |-> FALSE, c |-> c, mem |-> memory, flow |-> flow]
Shift8(b, c) == [Do(b, "B", c, {}, Fall) EXCEPT !.sll8 = TRUE]
Empty == Do("MDR", "random", {}, {}, Fall)

At(label, absolute, line) == [line EXCEPT !.label = label, !.absolute = absolute]
Label(label, line) == At(label, NoAddress, line)
Opcode(label, opcode, line) == At(label, opcode, line)

\* What many lines do.
PopAddress(memory, flow) == Do("SP", "B-1", {"MAR", "SP"}, memory, flow)
PushAddress == Do("SP", "B+1", {"MAR", "SP"}, {}, Fall)
FetchNext(flow) == Do("PC", "B+1", {"PC"}, {"fetch"}, flow)
Index16 == <<FetchNext(Fall), Shift8("MBRU", {"H"}), Do("MBRU", "B or H", {"H"}, {}, Fall)>>
BeginningWith(label, opcode, lines) == <<At(label, opcode, Head(lines))>> \o Tail(lines)

-----------------------------------------------------------------------------
Dispatch ==
  <<Do("MDR", "random", {}, {}, Goto("mic1_entry")),
    Label("main", FetchNext(GotoMbr(0))),
    Opcode("nop", OP.NOP, Do("MDR", "random", {}, {}, Goto("main")))>>

\* Faulty: the result is not kept in TOS.
ArithmeticWithoutTos(label, opcode, alu) ==
  <<Opcode(label, opcode, PopAddress({"read"}, Fall)),
    Do("TOS", "B", {"H"}, {}, Fall),
    Do("MDR", alu, {"MDR"}, {"write"}, Goto("main"))>>

Arithmetic(label, opcode, alu) ==
  <<Opcode(label, opcode, PopAddress({"read"}, Fall)),
    Do("TOS", "B", {"H"}, {}, Fall),
    Do("MDR", alu, {"MDR", "TOS"}, {"write"}, Goto("main"))>>

StackOpcodes ==
  <<Opcode("dup", OP.DUP, PushAddress),
    Do("TOS", "B", {"MDR"}, {"write"}, Goto("main")),
    Opcode("pop", OP.POP, PopAddress({"read"}, Fall)),
    Empty,
    Do("MDR", "B", {"TOS"}, {}, Goto("main")),
    Opcode("swap", OP.SWAP, Do("SP", "B-1", {"MAR"}, {"read"}, Fall)),
    Do("SP", "B", {"MAR"}, {}, Fall),
    Do("MDR", "B", {"H"}, {"write"}, Fall),
    Do("TOS", "B", {"MDR"}, {}, Fall),
    Do("SP", "B-1", {"MAR"}, {"write"}, Fall),
    Do("MDR", "H", {"TOS"}, {}, Goto("main")),
    Opcode("bipush", OP.BIPUSH, PushAddress),
    FetchNext(Fall),
    Do("MBR", "B", {"MDR", "TOS"}, {"write"}, Goto("main"))>>

VariableOpcodes ==
  <<Opcode("iload", OP.ILOAD, Do("LV", "B", {"H"}, {}, Fall)),
    Do("MBRU", "B+H", {"MAR"}, {"read"}, Fall),
    Label("iload_cont", PushAddress),
    Do("PC", "B+1", {"PC"}, {"fetch", "write"}, Fall),
    Do("MDR", "B", {"TOS"}, {}, Goto("main")),
    Opcode("istore", OP.ISTORE, Do("LV", "B", {"H"}, {}, Fall)),
    Do("MBRU", "B+H", {"MAR"}, {}, Fall),
    Label("istore_cont", Do("TOS", "B", {"MDR"}, {"write"}, Fall)),
    PopAddress({"read"}, Fall),
    FetchNext(Fall),
    Do("MDR", "B", {"TOS"}, {}, Goto("main")),
    Opcode("wide", OP.WIDE, FetchNext(GotoMbr(256)))>>
  \o BeginningWith("wide_iload", 256 + OP.ILOAD, Index16)
  \o <<Do("LV", "B+H", {"MAR"}, {"read"}, Goto("iload_cont"))>>
  \o BeginningWith("wide_istore", 256 + OP.ISTORE, Index16)
  \o <<Do("LV", "B+H", {"MAR"}, {}, Goto("istore_cont"))>>
  \o BeginningWith("ldc_w", OP.LDC_W, Index16)
  \o <<Do("CPP", "B+H", {"MAR"}, {"read"}, Goto("iload_cont"))>>
  \o <<Opcode("iinc", OP.IINC, Do("LV", "B", {"H"}, {}, Fall)),
       Do("MBRU", "B+H", {"MAR"}, {"read"}, Fall),
       FetchNext(Fall),
       Do("MDR", "B", {"H"}, {}, Fall),
       FetchNext(Fall),
       Do("MBR", "B+H", {"MDR"}, {"write"}, Goto("main"))>>

\* Faulty: TOS keeps the word that was popped.
PoppedConditionWithoutTos(alu, condition) ==
  <<Do("TOS", "B", {"OPC"}, {}, Fall),
    Empty,
    Do("OPC", alu, {}, {}, IfElse(condition, "T", "F"))>>

\* "Z = OPC": a line with a condition assigns no register.
PoppedCondition(alu, condition) ==
  <<Do("TOS", "B", {"OPC"}, {}, Fall),
    Do("MDR", "B", {"TOS"}, {}, Fall),
    Do("OPC", alu, {}, {}, IfElse(condition, "T", "F"))>>

BranchOpcodes ==
  <<Opcode("ijvm_goto", OP.GOTO, Do("PC", "B-1", {"OPC"}, {}, Fall)),
    Label("goto_cont", FetchNext(Fall)),
    Shift8("MBR", {"H"}),
    Do("MBRU", "B or H", {"H"}, {}, Fall),
    Do("OPC", "B+H", {"PC"}, {"fetch"}, Fall),
    Do("MDR", "random", {}, {}, Goto("main"))>>
  \o <<Opcode("iflt", OP.IFLT, PopAddress({"read"}, Fall))>> \o PoppedCondition("B", "N")
  \o <<Opcode("ifeq", OP.IFEQ, PopAddress({"read"}, Fall))>> \o PoppedCondition("B", "Z")
  \o <<Opcode("if_icmpeq", OP.IF_ICMPEQ, PopAddress({"read"}, Fall)),
       PopAddress({}, Fall),
       Do("MDR", "B", {"H"}, {"read"}, Fall)>> \o PoppedCondition("B-H", "Z")
  \o <<Label("T", Do("PC", "B-1", {"OPC"}, {"fetch"}, Goto("goto_cont"))),
       Label("F", Do("PC", "B+1", {"PC"}, {}, Fall)),
       FetchNext(Fall),
       Do("MDR", "random", {}, {}, Goto("main"))>>

CallOpcodes ==
  BeginningWith("invokevirtual", OP.INVOKEVIRTUAL, Index16)
  \o <<Label("mic1_entry", Do("CPP", "B+H", {"MAR"}, {"read"}, Fall)),
       Do("PC", "B+1", {"OPC"}, {}, Fall),
       Do("MDR", "B", {"PC"}, {"fetch"}, Fall)>>
  \o Index16
  \o <<FetchNext(Fall),
       Do("SP", "B-H", {"TOS"}, {}, Fall),
       Do("TOS", "B+1", {"TOS", "MAR"}, {}, Fall)>>
  \o Index16
  \o <<Do("SP", "B+H+1", {"MDR"}, {"write"}, Fall),
       Do("MDR", "B", {"MAR", "SP"}, {}, Fall),
       Do("OPC", "B", {"MDR"}, {"write"}, Fall),
       PushAddress,
       Do("LV", "B", {"MDR"}, {"write"}, Fall),
       FetchNext(Fall),
       Do("TOS", "B", {"LV"}, {}, Goto("main"))>>
  \o <<Opcode("ireturn", OP.IRETURN, Do("LV", "B", {"MAR", "SP"}, {"read"}, Fall)),
       Empty,
       Do("MDR", "B", {"LV", "MAR"}, {"read"}, Fall),
       Do("LV", "B+1", {"MAR"}, {}, Fall),
       Do("MDR", "B", {"PC"}, {"read", "fetch"}, Fall),
       Do("SP", "B", {"MAR"}, {}, Fall),
       Do("MDR", "B", {"LV"}, {}, Fall),
       Do("TOS", "B", {"MDR"}, {"write"}, Fall),
       Do("PC", "B-1", {}, {}, IfElse("Z", "mic1_exit", "main")),
       Label("mic1_exit", Do("halt", "random", {}, {}, Stop))>>

Source ==
  Dispatch \o Arithmetic("iadd", OP.IADD, "B+H") \o Arithmetic("isub", OP.ISUB, "B-H")
    \o Arithmetic("iand", OP.IAND, "B and H") \o Arithmetic("ior", OP.IOR, "B or H")
    \o StackOpcodes \o VariableOpcodes \o BranchOpcodes \o CallOpcodes

-----------------------------------------------------------------------------
\* Where a layout has to put the lines: behind the absolute labels, the
\* targets of the two kinds of `if' 0x100 apart from the first free addresses
\* on, and the other lines in the first holes.
LineAt(label) == CHOOSE n \in DOMAIN Source : Source[n].label = label

Absolutes == {n \in DOMAIN Source : Source[n].absolute # NoAddress}
TakenByLabels == {Source[n].absolute : n \in Absolutes}
IfTargets == {LineAt("T"), LineAt("F"), LineAt("mic1_exit"), LineAt("main")}
TargetAddress(n) ==
  CASE n = LineAt("T") -> 257 [] n = LineAt("F") -> 1
    [] n = LineAt("mic1_exit") -> 258 [] n = LineAt("main") -> 2

Placement ==
  LET others == DOMAIN Source \ (Absolutes \union IfTargets)
      taken == TakenByLabels \union {TargetAddress(n) : n \in IfTargets}
      Hole(a) == a \notin taken
      holes == SelectSeq([i \in 1 .. 512 |-> i - 1], Hole)
  IN  [n \in DOMAIN Source |->
         IF n \in Absolutes THEN Source[n].absolute
         ELSE IF n \in IfTargets THEN TargetAddress(n)
         ELSE holes[Cardinality({m \in others : m <= n})]]

\* masm_check_insn: a line that says nothing goes to the line after it, and an
\* `if' to its second target, the top bit being added when the condition holds.
NextOf(n, placed) ==
  LET flow == Source[n].flow
  IN  CASE flow.to # NoName -> placed[LineAt(flow.to)]
        [] flow.base # NoAddress -> flow.base
        [] OTHER -> placed[n + 1]

WordOf(n, placed) ==
  LET line == Source[n]
  IN  [b |-> line.b, alu |-> line.alu, sra1 |-> FALSE, sll8 |-> line.sll8,
       c |-> line.c, mem |-> line.mem, jam |-> line.flow.jam,
       next |-> NextOf(n, placed)]

\* masm_emit: a word without a line is all zeroes.
ZeroWord == [b |-> "MDR", alu |-> "random", sra1 |-> FALSE, sll8 |-> FALSE,
             c |-> {}, mem |-> {}, jam |-> {}, next |-> 0]

Emitted(placed) ==
  [a \in 0 .. 511 |->
     IF \E n \in DOMAIN placed : placed[n] = a
     THEN WordOf(CHOOSE n \in DOMAIN placed : placed[n] = a, placed)
     ELSE ZeroWord]

ControlStoreOf == LET placed == Placement IN Emitted(placed)

\* masm_lines_entry: the first line with instructions.
EntryAddress == Placement[1]
=============================================================================
