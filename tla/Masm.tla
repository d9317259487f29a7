-------------------------------- MODULE Masm --------------------------------
(***************************************************************************)
(* The microassembler mic1-asm from the lines that its parser makes to the *)
(* control store that mic1 loads: the layout (MasmLayout), the check and   *)
(* encoding of every line (src/mic1-check.c), and the image file.          *)
(*                                                                         *)
(* A line is a record with a label (or NoLabel), the number written behind *)
(* an absolute label (or Nowhere) and a sequence of instructions; an       *)
(* instruction is one of the records that the constructors of              *)
(* src/mic1-cons.c make, with the ints that the lexer makes of numbers.    *)
(***************************************************************************)
EXTENDS MicroWord, SequencesExt

CONSTANTS Microprograms,  \* the microprograms to assemble
          Labels, NoLabel

VARIABLES program,        \* the microprogram, chosen once
          lines, store, address, pass, at, first, warnings,   \* of the layout
          words,          \* the word of every line that has been checked
          problems,       \* the warnings of the parser and of the check
          image,          \* the image file, when there is one
          outcome         \* "running", "emitted", "aborted" or "crashed"

layoutVars == <<lines, store, address, pass, at, first, warnings>>
masmVars == <<program, layoutVars, words, problems, image, outcome>>

-----------------------------------------------------------------------------
(* The constructors. *)

InsnRd == [kind |-> "rd"]
InsnWr == [kind |-> "wr"]
InsnFetch == [kind |-> "fetch"]
InsnEmpty == [kind |-> "empty"]
InsnHalt == [kind |-> "halt"]
InsnGoto(label) == [kind |-> "goto", label |-> label]
InsnIgoto(base) == [kind |-> "igoto", base |-> base]
InsnIf(cond, label1, label2) ==
  [kind |-> "if", cond |-> cond, label1 |-> label1, label2 |-> label2]

\* A chain of assignments is the sequence of its targets; "VIRTUAL" stands for
\* N and Z.  The shift is none, or "rshift1" or "lshift8" by the given amount.
InsnAssign(targets, alu, shift, amount) ==
  [kind |-> "assign", targets |-> targets, alu |-> alu, shift |-> shift, amount |-> amount]

\* The operand of `reg + 1' is in `one', that of a constant in `val'.
AluReg(reg) == [kind |-> "reg", reg |-> reg]
AluInv(reg) == [kind |-> "inv", reg |-> reg]
AluNeg(reg) == [kind |-> "neg", reg |-> reg]
AluAddR1(reg, one) == [kind |-> "add_r1", reg |-> reg, one |-> one]
AluSubR1(reg, one) == [kind |-> "sub_r1", reg |-> reg, one |-> one]
AluAddRR1(reg1, reg2, one) == [kind |-> "add_rr1", reg1 |-> reg1, reg2 |-> reg2, one |-> one]
AluAddRR(reg1, reg2) == [kind |-> "add_rr", reg1 |-> reg1, reg2 |-> reg2]
AluSubRR(reg1, reg2) == [kind |-> "sub_rr", reg1 |-> reg1, reg2 |-> reg2]
AluAnd(reg1, reg2) == [kind |-> "and", reg1 |-> reg1, reg2 |-> reg2]
AluOr(reg1, reg2) == [kind |-> "or", reg1 |-> reg1, reg2 |-> reg2]
AluConst(val) == [kind |-> "const", val |-> val]

\* What the grammar makes of them: every line that it accepts is one of these.
Readable == Registers \union {"MBR", "MBRU"}
AluExprs ==
  [kind : {"reg", "inv", "neg"}, reg : Readable]
    \union [kind : {"add_r1", "sub_r1"}, reg : Readable, one : Int]
    \union [kind : {"add_rr1"}, reg1 : Readable, reg2 : Readable, one : Int]
    \union [kind : {"add_rr", "sub_rr", "and", "or"}, reg1 : Readable, reg2 : Readable]
    \union [kind : {"const"}, val : Int]
Insns ==
  [kind : {"rd", "wr", "fetch", "empty", "halt"}]
    \union [kind : {"goto"}, label : Labels]
    \union [kind : {"igoto"}, base : Int]
    \union [kind : {"if"}, cond : {"Z", "N"}, label1 : Labels, label2 : Labels]
    \union [kind : {"assign"}, targets : Seq(Readable \union {"VIRTUAL"}), alu : AluExprs,
            shift : {"none", "rshift1", "lshift8"}, amount : Int]

\* The warnings that the actions of the grammar give.
IllegalConstant(alu) ==
  \/ alu.kind \in {"add_r1", "sub_r1", "add_rr1"} /\ alu.one # 1
  \/ alu.kind = "const" /\ alu.val \notin {-1, 0, 1}
IllegalShift(insn) ==
  \/ insn.shift = "rshift1" /\ insn.amount # 1
  \/ insn.shift = "lshift8" /\ insn.amount # 8
ParserWarns(insn) ==
  insn.kind = "assign" /\ (IllegalConstant(insn.alu) \/ IllegalShift(insn))
ParserWarnings(p) ==
  IF \E n \in DOMAIN p : \E i \in DOMAIN p[n].insns : ParserWarns(p[n].insns[i])
  THEN {"constant"} ELSE {}

-----------------------------------------------------------------------------
(* masm_check_insn: what the check of a line knows is the word so far, whether *)
(* it saw a goto and an assignment, and the kinds of warnings given.           *)

Nowhere == -WordMod

Add(c, kinds) == [c EXCEPT !.problems = @ \union kinds]
Put(c, bits, pos) == [c EXCEPT !.word = SetBits(@, bits, pos)]
If(condition, kind) == IF condition THEN {kind} ELSE {}

CheckMemory(c, op, other) ==
  Put(Add(c, If(op # other /\ GetBit(c.word, MemoryBit[other]), "rd and wr")
               \union If(GetBit(c.word, MemoryBit[op]), "duplicate")),
      {0}, MemoryBit[op])

\* Faulty: the goto is not remembered, and the line goes on to the next one too.
CheckJumpForgotten(c) == Add(c, If(c.goto, "gotos"))

\* The instructions that say where the line goes.
CheckJump(c) == Add([c EXCEPT !.goto = TRUE], If(c.goto, "gotos"))
PutAddress(c, a) == Put(c, BitsOf(a), ADDRESS_OFFSET)

CheckGoto(c, target) ==
  IF target = Nowhere THEN Add(CheckJump(c), {"undefined"})
  ELSE PutAddress(CheckJump(c), target)
CheckIgoto(c, base) == Put(PutAddress(CheckJump(c), base), {0}, JamBit["MPC"])

\* The layout has warned when the target is undefined.
CheckIf(c, insn, addressOf) ==
  LET target == addressOf[insn.label2]
      checked == IF target = Nowhere THEN CheckJump(c) ELSE PutAddress(CheckJump(c), target)
  IN  Put(checked, {0}, JamBit[insn.cond])

CheckAssignTarget(c, reg) ==
  CASE reg \in {"MBR", "MBRU"} -> Add(c, {"MBR"})
    [] reg = "VIRTUAL" -> c
    [] reg \in Registers ->
         IF GetBit(c.word, CBit(reg)) THEN Add(c, {"twice"}) ELSE Put(c, {0}, CBit(reg))

\* What computes an expression: the code of the ALU and the register on the B
\* bus, or the warning that nothing does.  Constants that the parser has warned
\* about set nothing.
Unused == "none"
Computed(alu, b) == [alu |-> alu, b |-> b, problem |-> Unused]
Refused(problem) == [alu |-> Unused, b |-> Unused, problem |-> problem]

\* Faulty: H is looked for in the first place only.
WithHFirst(alu, reg1, reg2) ==
  IF reg1 = "H" /\ reg2 # "H" THEN Computed(alu, reg2) ELSE Refused("operand")

WithH(alu, reg1, reg2) ==
  CASE reg1 = "H" /\ reg2 # "H" -> Computed(alu, reg2)
    [] reg1 # "H" /\ reg2 = "H" -> Computed(alu, reg1)
    [] OTHER -> Refused("operand")

OnHOrB(reg, onH, onB) == IF reg = "H" THEN Computed(onH, Unused) ELSE Computed(onB, reg)

Operation(alu) ==
  CASE alu.kind = "reg" -> OnHOrB(alu.reg, "H", "B")
    [] alu.kind = "inv" -> OnHOrB(alu.reg, "inv H", "inv B")
    [] alu.kind = "add_r1" -> OnHOrB(alu.reg, "H+1", "B+1")
    [] alu.kind = "add_rr" -> WithH("B+H", alu.reg1, alu.reg2)
    [] alu.kind = "add_rr1" -> WithH("B+H+1", alu.reg1, alu.reg2)
    [] alu.kind = "and" -> WithH("B and H", alu.reg1, alu.reg2)
    [] alu.kind = "or" -> WithH("B or H", alu.reg1, alu.reg2)
    [] alu.kind = "sub_rr" -> IF alu.reg1 # "H" /\ alu.reg2 = "H"
                              THEN Computed("B-H", alu.reg1) ELSE Refused("subtraction")
    [] alu.kind = "sub_r1" -> IF alu.reg # "H"
                              THEN Computed("B-1", alu.reg) ELSE Refused("subtraction")
    [] alu.kind = "neg" -> IF alu.reg = "H"
                           THEN Computed("-H", Unused) ELSE Refused("negation")
    [] alu.kind = "const" ->
         CASE alu.val = 0 -> Computed("0", Unused)
           [] alu.val = 1 -> Computed("1", Unused)
           [] alu.val = -1 -> Computed("-1", Unused)
           [] OTHER -> Computed(Unused, Unused)

\* masm_reg_b_bus: MAR has the index -1, which sets all the bits of an int.
BCode(reg) ==
  IF reg = "MAR" THEN -1 ELSE (CHOOSE i \in DOMAIN BOnBus : BOnBus[i] = reg) - 1

CheckAlu(c, alu) ==
  LET op == Operation(alu)
      coded == IF op.alu = Unused THEN c ELSE Put(c, AluCode(op.alu), ALU_OFFSET)
      fed == IF op.b = Unused THEN coded ELSE Put(coded, BitsOf(BCode(op.b)), B_BUS_OFFSET)
  IN  Add(fed, ({op.problem} \ {Unused}) \union If(op.b = "MAR", "MAR"))

CheckAssign(c, insn) ==
  LET assigned == CheckAlu(FoldLeft(CheckAssignTarget, c, insn.targets), insn.alu)
  IN  CASE insn.shift = "rshift1" -> Put(assigned, {0}, SRA1_BIT)
        [] insn.shift = "lshift8" -> Put(assigned, {0}, SLL8_BIT)
        [] insn.shift = "none" -> assigned

CheckInsn(c, insn, alone, addressOf) ==
  CASE insn.kind = "rd" -> CheckMemory(c, "read", "write")
    [] insn.kind = "wr" -> CheckMemory(c, "write", "read")
    [] insn.kind = "fetch" -> CheckMemory(c, "fetch", "fetch")
    [] insn.kind = "goto" -> CheckGoto(c, addressOf[insn.label])
    [] insn.kind = "igoto" -> CheckIgoto(c, insn.base)
    [] insn.kind = "if" -> CheckIf(c, insn, addressOf)
    [] insn.kind = "assign" ->
         CheckAssign(Add([c EXCEPT !.assign = TRUE], If(c.assign, "assignments")), insn)
    [] insn.kind = "empty" -> Add(c, If(~alone, "alone"))
    [] insn.kind = "halt" ->
         Put(Add([c EXCEPT !.goto = TRUE], If(~alone, "alone")),
             BitsOf(HaltCode), B_BUS_OFFSET)

\* The whole line, with the address of the next line that has instructions.  The
\* parser links the instructions of a line backwards: the last one comes first.
CheckedLine(insns, addressOf, following) ==
  LET start == [word |-> {}, goto |-> FALSE, assign |-> FALSE, problems |-> {}]
      step(insn, c) == CheckInsn(c, insn, Len(insns) = 1, addressOf)
      c == FoldRight(step, insns, start)
  IN  IF insns = <<>> \/ c.goto THEN c
      ELSE IF following = Nowhere THEN Add(c, {"last line"})
      ELSE PutAddress(c, following)

-----------------------------------------------------------------------------
(* main of mic1-asm. *)

\* masm_find_if: of several ifs on a line the layout sees the last one.
IfsOf(insns) == {i \in DOMAIN insns : insns[i].kind = "if"}
LayoutLine(line) ==
  LET ifs == IfsOf(line.insns)
  IN  [label |-> line.label, absolute |-> line.absolute, insns |-> line.insns # <<>>,
       label1 |-> IF ifs = {} THEN NoLabel ELSE line.insns[Max(ifs)].label1,
       label2 |-> IF ifs = {} THEN NoLabel ELSE line.insns[Max(ifs)].label2]
LayoutLines(p) == [n \in DOMAIN p |-> LayoutLine(p[n])]

LayoutLineSet ==
  {line \in [label : Labels \union {NoLabel}, absolute : Nat \union {Nowhere},
             insns : BOOLEAN, label1 : Labels \union {NoLabel},
             label2 : Labels \union {NoLabel}] :
     /\ line.label = NoLabel => line.absolute = Nowhere
     /\ line.label1 # NoLabel => line.insns}

\* The lines that the parser makes: only a label has a number behind it.  The
\* layout has what the lexer makes of that number, which can be negative.
SourceLines ==
  {line \in [label : Labels \union {NoLabel}, absolute : Nat \union {Nowhere}, insns : Seq(Insns)] :
     line.label = NoLabel => line.absolute = Nowhere}

ASSUME LabelAssumption == NoLabel \notin Labels
ASSUME MicroprogramsAssumption == Microprograms \subseteq Seq(SourceLines)

Layout == INSTANCE MasmLayout WITH
            Half <- 256, IntMod <- WordMod, Sources <- Seq(LayoutLineSet)

NoImage == <<>>

Init ==
  /\ program \in Microprograms
  /\ lines = LayoutLines(program)
  /\ Layout!Init
  /\ words = <<>>
  /\ problems = ParserWarnings(program)
  /\ image = NoImage
  /\ outcome = "running"

LayOut ==
  /\ pass \notin {"done", "crashed"}
  /\ Layout!Next
  /\ outcome' = IF pass' = "crashed" THEN "crashed" ELSE "running"
  /\ UNCHANGED <<program, words, problems, image>>

\* masm_check_line, from the first line to the last one.
AddressOf(label) ==
  LET line == Layout!Lookup(label)
  IN  IF line = Layout!None THEN Nowhere ELSE address[line]
Following(n) ==
  LET line == Layout!LineOf(n + 1)
  IN  IF line = Layout!None THEN Nowhere ELSE address[line]

Checking == pass = "done" /\ Len(words) < Len(program)
Check ==
  /\ Checking
  /\ LET n == Len(words) + 1
         c == CheckedLine(program[n].insns, [l \in Labels |-> AddressOf(l)], Following(n))
     IN  /\ words' = Append(words, c.word)
         /\ problems' = problems \union c.problems
  /\ UNCHANGED <<program, layoutVars, image, outcome>>

\* masm_lines_entry: the first line with instructions.
AllChecked == pass = "done" /\ Len(words) = Len(program) /\ outcome = "running"
EntryLine == Layout!LineOf(1)

NoEntry ==
  /\ AllChecked /\ EntryLine = Layout!None
  /\ outcome' = "aborted"
  /\ UNCHANGED <<program, layoutVars, words, problems, image>>

Abort ==
  /\ AllChecked /\ EntryLine # Layout!None
  /\ warnings \union problems # {}
  /\ outcome' = "aborted"
  /\ UNCHANGED <<program, layoutVars, words, problems, image>>

\* masm_emit: five bytes of each word; a word without a line is all zeroes.
EmittedWord(a) ==
  IF store[a] = Layout!None THEN {} ELSE words[store[a]] \intersect WordBits

Emit ==
  /\ AllChecked /\ EntryLine # Layout!None
  /\ warnings \union problems = {}
  /\ image' = ImageWrite(address[EntryLine], [a \in MicroAddresses |-> EmittedWord(a)])
  /\ outcome' = "emitted"
  /\ UNCHANGED <<program, layoutVars, words, problems>>

Finished == outcome # "running" /\ UNCHANGED masmVars

Next == LayOut \/ Check \/ NoEntry \/ Abort \/ Emit \/ Finished

Spec == Init /\ [][Next]_masmVars
-----------------------------------------------------------------------------
(* mic1_word_disassemble, as the instructions it prints; addresses are labels. *)

\* The expression printed for the codes of the ALU and the B bus; a code without
\* a meaning is printed as something that is no expression, a constant 2 here.
PrintedAlu(alu, b) ==
  CASE alu = "H" -> AluReg("H")
    [] alu = "B" -> AluReg(b)
    [] alu = "inv H" -> AluInv("H")
    [] alu = "inv B" -> AluInv(b)
    [] alu = "B+H" -> AluAddRR("H", b)
    [] alu = "B+H+1" -> AluAddRR1("H", b, 1)
    [] alu = "H+1" -> AluAddR1("H", 1)
    [] alu = "B+1" -> AluAddR1(b, 1)
    [] alu = "B-H" -> AluSubRR(b, "H")
    [] alu = "B-1" -> AluSubR1(b, 1)
    [] alu = "-H" -> AluNeg("H")
    [] alu = "B and H" -> AluAnd("H", b)
    [] alu = "B or H" -> AluOr("H", b)
    [] alu = "0" -> AluConst(0)
    [] alu = "1" -> AluConst(1)
    [] alu = "-1" -> AluConst(-1)
    [] alu = "random" -> AluConst(2)

\* An assignment is printed when the word loads a register or tests a condition.
PrintedAssign(w) ==
  LET loads(r) == r \in w.c
      targets == SelectSeq(COnBus, loads)
  IN  CASE w.c = {} /\ w.jam \intersect {"Z", "N"} = {} -> <<>>
        [] OTHER -> <<InsnAssign(IF w.c = {} THEN <<"VIRTUAL">> ELSE targets,
                                 PrintedAlu(w.alu, w.b),
                                 IF w.sra1 THEN "rshift1" ELSE IF w.sll8 THEN "lshift8" ELSE "none",
                                 IF w.sll8 THEN 8 ELSE 1)>>

PrintedMemory(w) ==
  (IF "write" \in w.mem THEN <<InsnWr>> ELSE <<>>)
    \o (IF "read" \in w.mem THEN <<InsnRd>> ELSE <<>>)
    \o (IF "fetch" \in w.mem THEN <<InsnFetch>> ELSE <<>>)

\* The true branch of an if: address | 0x100.
TrueBranch(a) == IF a < 256 THEN a + 256 ELSE a

\* Faulty: the targets are printed in the order of their addresses.
PrintedGotoSwapped(w) ==
  CASE "Z" \in w.jam -> InsnIf("Z", w.next, TrueBranch(w.next))
    [] "N" \in w.jam -> InsnIf("N", w.next, TrueBranch(w.next))
    [] w.jam = {"MPC"} -> InsnIgoto(w.next)
    [] w.jam = {} -> InsnGoto(w.next)

PrintedGoto(w) ==
  CASE "Z" \in w.jam -> InsnIf("Z", TrueBranch(w.next), w.next)
    [] w.jam \intersect {"Z", "N"} = {"N"} -> InsnIf("N", TrueBranch(w.next), w.next)
    [] w.jam = {"MPC"} -> InsnIgoto(w.next)
    [] w.jam = {} -> InsnGoto(w.next)

Disassembled(w) ==
  IF w.b = "halt" THEN <<InsnHalt>>
  ELSE PrintedAssign(w) \o PrintedMemory(w) \o <<PrintedGoto(w)>>

-----------------------------------------------------------------------------
(* What the assembler promises of the image that the simulator loads, when no *)
(* absolute label is negative: the line behind such a label is not in it.     *)

Assembled == outcome = "emitted" /\ Layout!InStore

\* What mic1 reads at an address of the image, whatever lies behind the image.
MicroWordAt(a, after) == Decoded(MemoryFrom(ImageLoad(image), a, after))

Placed(n) == program[n].insns # <<>>
Said(n) == ToSet(program[n].insns)
SaidKinds(n) == {insn.kind : insn \in Said(n)}
Saying(n, kind) == {insn \in Said(n) : insn.kind = kind}

\* The value of an expression in the source, f giving those of the registers.
Meaning(alu, f) ==
  CASE alu.kind = "reg" -> f[alu.reg]
    [] alu.kind = "inv" -> -f[alu.reg] - 1
    [] alu.kind = "neg" -> -f[alu.reg]
    [] alu.kind = "add_r1" -> f[alu.reg] + 1
    [] alu.kind = "sub_r1" -> f[alu.reg] - 1
    [] alu.kind = "add_rr" -> f[alu.reg1] + f[alu.reg2]
    [] alu.kind = "add_rr1" -> f[alu.reg1] + f[alu.reg2] + 1
    [] alu.kind = "sub_rr" -> f[alu.reg1] - f[alu.reg2]
    [] alu.kind = "and" -> BitAnd(f[alu.reg1], f[alu.reg2])
    [] alu.kind = "or" -> BitOr(f[alu.reg1], f[alu.reg2])
    [] alu.kind = "const" -> alu.val

\* Values that tell the registers, and what is computed from them, apart: all
\* different, or all the same but for one register or none.
Scattered ==
  LET names == COnBus \o <<"MBR", "MBRU">>
      Index(r) == CHOOSE i \in DOMAIN names : names[i] = r
  IN  {[r \in Readable |-> ToWord(k * Index(r) * Index(r) + 37 * Index(r))] : k \in {211, -1409}}
Uniform(q, x, y) == [r \in Readable |-> IF r = q THEN x ELSE y]
Uniforms ==
  {Uniform(q, 4, 0) : q \in Readable \union {Unused}}
    \union {Uniform(q, 0, -1) : q \in Readable \union {Unused}}
Valuations == Scattered \union Uniforms

AssignedValue(insn, f) ==
  LET value == ToWord(Meaning(insn.alu, f))
  IN  CASE insn.shift = "rshift1" -> value \div 2
        [] insn.shift = "lshift8" -> ToWord(value * 256)
        [] insn.shift = "none" -> value

Computes(w, insn) ==
  \A f \in Valuations :
    LET b == IF w.b \in Readable THEN f[w.b] ELSE 0
    IN  Shifted(w, AluResult(w, f["H"], b, 0)) = AssignedValue(insn, f)

Spelling == [read |-> "rd", write |-> "wr", fetch |-> "fetch"]

DoesWhatItSays(w, n) ==
  /\ w.mem = {m \in DOMAIN Spelling : Spelling[m] \in SaidKinds(n)}
  /\ w.c = (UNION {ToSet(insn.targets) : insn \in Saying(n, "assign")}) \ {"VIRTUAL"}
  /\ \A insn \in Saying(n, "assign") : Computes(w, insn)
  /\ w.b = "halt" <=> "halt" \in SaidKinds(n)
  /\ \A insn \in Saying(n, "goto") :
       w.jam = {} /\ store[w.next] = Layout!Lookup(insn.label)
  /\ \A insn \in Saying(n, "igoto") : w.jam = {"MPC"} /\ w.next = insn.base
  /\ \A insn \in Saying(n, "if") :
       /\ w.jam = {insn.cond}
       /\ store[w.next] = Layout!Lookup(insn.label2)
       /\ store[TrueBranch(w.next)] = Layout!Lookup(insn.label1)
  /\ SaidKinds(n) \intersect {"goto", "igoto", "if", "halt"} = {}
       => w.jam = {} /\ store[w.next] = Layout!LineOf(n + 1)

\* What mic1 reads at the address of a line is the word that the check made of
\* that line, cut to its five bytes, whatever was laid out and emitted around it.
WordReaches(n, after) ==
  MicroWordAt(address[n], after) = Decoded(words[n] \intersect WordBits)
WordsReachTheSimulator ==
  Assembled =>
    \A n \in DOMAIN program, after \in {{}, 0 .. 15} : Placed(n) => WordReaches(n, after)

\* Every line of a microprogram that is assembled does on the simulator what it
\* says: the value of its expression, and no other, goes to the registers that
\* it names, the memory operations are those it names, and it goes on at the
\* word of the line it names or falls through to.  No two instructions of a line
\* get into each other's bits, and nothing behind the word or the image shows.
EmittedMeansSource ==
  Assembled =>
    \A n \in DOMAIN program, after \in {{}, 0 .. 15} :
      Placed(n) => DoesWhatItSays(MicroWordAt(address[n], after), n)

\* An expression is refused only when the data path cannot compute it: there is
\* no choice of a register for the B bus and of an ALU function that would.
\* (Not so for two operands of one register: H or H is H, and is refused.)
Repeats(alu) == "reg1" \in DOMAIN alu /\ alu.reg1 = alu.reg2
DataPaths(insn) ==
  [b : ToSet(BOnBus), alu : Alu \ {"random"},
   sra1 : {insn.shift = "rshift1"}, sll8 : {insn.shift = "lshift8"}]

RefusesOnlyTheImpossible ==
  outcome = "aborted" /\ warnings = {}
    /\ problems \subseteq {"operand", "subtraction", "negation", "MAR"} /\ problems # {}
  => \E n \in DOMAIN program : \E insn \in Saying(n, "assign") :
       Repeats(insn.alu) \/ \A w \in DataPaths(insn) : ~Computes(w, insn)

\* What the trace of mic1 prints for a word of the image is the line that it was
\* made of: assembled again, it gives the same word.  (An assignment to N or Z
\* on a line that tests neither is not printed.)
Shown(w) == w.c # {} \/ w.jam \intersect {"Z", "N"} # {} \/ w.alu = "random"
DisassemblyReassembles ==
  Assembled =>
    \A n \in DOMAIN program :
      LET w == MicroWordAt(address[n], {})
          again == CheckedLine(Disassembled(w), [a \in MicroAddresses |-> a], Nowhere)
      IN  Placed(n) /\ Shown(w) =>
            again.problems = {} /\ again.word = words[n] \intersect WordBits

\* "can't assign to MDR following a rd" (test/check-error.mic:60): a line that
\* follows a line with rd does not assign to MDR, which the word that was read
\* is put into in that cycle.
MdrNotAssignedAfterRd ==
  outcome = "emitted" =>
    \A n \in DOMAIN program :
      /\ Placed(n) /\ "rd" \in SaidKinds(n)
      /\ SaidKinds(n) \intersect {"goto", "igoto", "if"} = {}
      => \A insn \in Saying(Layout!LineOf(n + 1), "assign") : "MDR" \notin ToSet(insn.targets)
=============================================================================
