# A TLA+ development of ijvm-tools

ijvm-tools are four programs for the machines of Tanenbaum's *Structured
Computer Organization*: an assembler (`ijvm-asm`) and an interpreter (`ijvm`)
for IJVM, a subset of Java bytecode; a microassembler (`mic1-asm`) and a
simulator (`mic1`) for the Mic-1, the microarchitecture that runs IJVM with the
microprogram `test/ijvm.mal`. All are sequential C programs that meet through
files: bytecode images, control store images, and the printed result.

What is hard here is not concurrency. It is that two machines are supposed to be
one and the same (`ijvm.c`, and `mic1.c` running `ijvm.mal`), that both keep
frames, code and constants in one unchecked block of memory, that memory
operations of the Mic-1 end a cycle after they start, and that the
microassembler has to fit lines into a store with constraints that pull on each
other. The development is about those.

## Inventory

| component (source) | state | operations | talks to |
|---|---|---|---|
| IJVM interpreter (`ijvm.c`) | memory block, `sp`, `lv`, `pc`, `wide` | `ijvm_new`, one case of `ijvm_execute_opcode` per opcode, built-in methods, `ijvm_print_result` | image file, stdin, stdout |
| Mic-1 simulator (`mic1.c`) | memory block, nine registers, `mbr`, `mpc`, `doing_rd`, `doing_fetch`, control store | `mic1_new`, `mic1_cycle`, `mic1_active` | control store image, IJVM image |
| microprogram (`test/ijvm.mal`) | none of its own; TOS caches the top of the stack, OPC and H are scratch | one sequence of lines per opcode | is data of `mic1-asm`, runs on `mic1` |
| microassembler, layout (`mic1-layout.c`) | list of labels, `mic_store`, address of every line, count of warnings | find labels; passes for absolute labels, targets of `if`, the rest | checking and emitting use its addresses |
| microassembler, checking and encoding (`mic1-check.c`, `mic1-asm.c`) | word of every line, count of warnings | `masm_check_insn`, `masm_check_alu`, `masm_emit`, `masm_lines_entry` | layout; writes the control store image |
| microassembler, front end (`mic1-lex.l`, `mic1-parse.y`, `mic1-cons.c`) | syntax tree | lexing, parsing, constructors | layout and checking |
| control words and images (`mic1-util.c`) | none | get and set bit fields, read, write, disassemble | `mic1`, `mic1-asm` |
| assembler (`ijvm-emit.c`, `ijvm-asm.c`) | constant pool, defines and labels of methods, addresses of instructions, byte stream | first pass (sizes, labels, constants), second pass (bytes), expressions | image file |
| assembler, front end (`ijvm-lex.l`, `ijvm-parse.y`, `ijvm-cons.c`) | syntax tree | lexing, parsing, constructors | `ijvm-emit.c`, `ijvm-spec.c` |
| instruction specification (`ijvm-spec.c`, `ijvm.spec`) | table of templates | read, look up | assembler, trace printing |
| images and trace printing (`ijvm-util.c`) | none | load and write an image; print stack and instruction | all |

Properties that make them correct, and the behaviours that are hard to test:

* **ijvm**: calls keep the frames apart, the chain of link pointers leads back
  to `main`, `wide` is gone after the next opcode, code and constants stay as
  loaded, the mark `INITIAL_PC` is met at the end and only there, arithmetic
  wraps. Hard: long sequences of legal opcodes; the limits of memory; methods
  that return with no operand.
* **mic1 with ijvm.mal**: does what `ijvm.c` does, opcode for opcode. Hard: the
  timing of `rd`, `wr` and `fetch`, the TOS cache on every path through
  the microcode, values of `random ()` on buses nobody drives.
* **mic1-asm, layout**: an emitted store has every line at its address, targets
  of `if` 0x100 apart, absolute labels where asked, and no line lies outside of it.
  Hard: targets placed already for another reason, a full store, labels that clash
  or share a line, numbers of labels that are no longer themselves as an `int`.
* **mic1-asm, words**: what is emitted does on the simulator what the source
  says; what is refused cannot be done; the disassembly is the source again.
  Hard: fields that are or-ed one after the other, the end of a line, the choice
  of operands for H and the B bus, bytes read behind a word.
* **instruction table and trace**: the table that assembler and trace go by fits
  the opcodes that the interpreter executes. Hard: sizes that stand twice,
  instructions whose size depends on the one before.
* **ijvm-asm**: addresses of pass one are those of pass two, operands fit the
  bits they get, constants and method addresses share a
  pool, invalid programs are refused and valid ones are not. Hard: operands at
  the edge of a byte or of an int, defines in circles, names defined twice.

`PROJECT.json` lists the hazards, each at its line with the properties that
cover it.

## The modules

| module | what it models |
|---|---|
| `Words` | C's fixed-width integers, `&` and `\|` (`types.h`) |
| `Bytecode` | opcodes and the constants of `ijvm-util.h` |
| `Image` | the block of memory both simulators start from: method area, constant pool, the object reference and `main`'s arguments |
| `IJVM` | `ijvm.c`: `StartMain` or `RefuseArguments` is `ijvm_new`, then one action for each case of `ijvm_execute_opcode`, then `PrintResult` |
| `CallMachine` | abstract specification of an IJVM: frames that are records, no memory and no pointers |
| `IJVMRefinement` | the refinement mapping from `IJVM` to `CallMachine`, and the properties of `IJVM` |
| `ImageProofs` | lemmas about the widths of `Words` and the loaded image of `Image` |
| `IJVMProofs` | theorems about `IJVM`: types, the chain of frames, the image, the end of the main loop |
| `IJVMRefinementProofs` | the theorem that `IJVM` implements `CallMachine` |
| `IJVMSpec` | `ijvm-spec.c` on the lines of `ijvm.spec`: the table of instructions |
| `IJVMTrace` | the instruction, operands and bytes that `ijvm_print_snapshot` shows, beside the step that `ijvm.c` takes |
| `DataPath` | the fields of a microinstruction, ALU and shifter: the part of `mic1.c` without state |
| `MicroWord` | `mic1-util.c`: a word as bits in bytes, writing and reading fields, the decoding in `mic1.c`, the image file |
| `Mic1` | `mic1.c`: `Load` is `mic1_new`, `Cycle` is `mic1_cycle`, `Halt` the end of the main loop |
| `IJVMMal` | the lines of `test/ijvm.mal`, and the control store that `mic1-asm` makes of them |
| `Mic1IJVM` | `mic1` running it, with the state at the last trace point, as an implementation of `IJVM` |
| `Mic1Proofs` | the types of `Mic1`, for every control store |
| `MasmLayout` | `mic1-layout.c`: one action for each way a step of a pass can go, and what the passes promise together |
| `MasmLayoutProofs` | theorems about `MasmLayout` |
| `Masm` | `mic1-asm` as a whole: the lines that the parser makes, the layout, `mic1-check.c`, the decision to emit, the image file; and the disassembler |
| `MasmProofs` | theorems about `MicroWord` and `Masm`: fields are read as they were put, `Masm` implements `MasmLayout`, and the word of every line gets to the simulator and does there what the line says |
| `JasmEmit` | `ijvm-emit.c`: one action for each way an operand, an instruction or a method is handled, in both passes |
| `JasmImage` | the image file of `ijvm-util.c`, and what the assembler promises: its image, loaded and read as a simulator reads it, is the program |
| `JasmEmitProofs` | theorems about `JasmEmit`: types and addresses |
| `JasmImageProofs` | theorems about `JasmImage`: expressions have their exact values, the image is the program, and what is refused is none |
| `IJVMPrograms` | inputs: the programs of `src/test`, and all well-formed bodies of n instructions |
| `MCIJVM`, `MCMic1`, `MCMasmLayout`, `MCMasm`, `MCJasm` | instances for TLC |

`Image` is extended by `IJVM` and by `Mic1`; `Mic1IJVM` extends `Mic1` and
instantiates `IJVM` for its refinement; `IJVMRefinement` instantiates
`CallMachine`. `DataPath` is extended by `Mic1`, which executes records of
fields, and by `MicroWord`, which makes them from bits. `Masm` extends
`MicroWord` and instantiates `MasmLayout`; `MCMasm` gives it the lines of
`IJVMMal` and compares what it emits with the control store that the runs of
`Mic1` have, so that assembler, microprogram, simulator and interpreter are
checked as one chain.

### State and actions against the code

**IJVM.** `mem` is `i->method`, `i->stack` and, from `cpp` on, `i->cpool` in one
(they are three pointers into one block); `sp`, `lv`, `pc`, `wide` are the fields
of `struct IJVM`. The pops and pushes of a case are folded into its action's one
assignment to `sp` and `mem`; they never leave a trace above `sp` that differs
from the C, so `mem` is word for word what the C has. `status` and `result`
stand for where `main` is. Accesses outside the memory are undefined behaviour:
`InBounds` says what an opcode touches, and the step is then `OutOfBounds` into
the status `"undefined"`, of which nothing is claimed. `InBounds` has one set for
the operands of each opcode rather than checks spread over push and pop. The
word that `ijvm_print_result` takes from the stack is such an access too.

**IJVMRefinement** adds the history variable `calls`, which no action reads: the
link pointers of the methods being executed, that of `main` first. A call
appends `lv'` and `ireturn` takes it away. With it the frames of `CallMachine`
are plain functions of the memory (`FrameOf`), where a walk along the link
pointers would be a recursion that no proof can use; that the walk and the
history agree is `FramesAreChained`. `CallMachine` has its own state only; the
constants and the code it reads are those of the program, not of a memory.

`Lawful` of `CallMachine` says of the instruction that comes next what a compiler
sees to: it is inside the method area, behind a header, with all its bytes; it has
the operands and variables it takes; a branch lands in the code; an index is in
the pool, and one that is called is that of a method with as many arguments as
there are. `ijvm.c` checks none of this. A program that stores to a variable it
does not have writes to the words its method is to return to, and one that jumps
to address 1 stops the interpreter: nothing is promised to either, and the
theorems about frames have `[]ProgramsAreLawful` as their hypothesis. It is a
condition on what the abstract machine is about to do, not on the memory of the
interpreter, and `ijvm_programs` checks it of each of its programs.

**Mic1.** `reg` has the nine `int32` registers, `mbr` is the union of `mbr` and
`mbru`. A control word is a record of its fields. `Cycle` is the whole of
`mic1_cycle` in the order of the C: B bus and ALU, end of the read and fetch
started before, C bus, write, start of read and fetch, next address. `random ()`
is any member of `RandomWords`.

**Mic1IJVM.** mic1 prints a line of trace when the word at `mpc` has the bit for
`goto (MBR)`, and at the end. `trace` keeps memory, SP, LV and PC at that
moment; that is the refinement mapping to `IJVM`. `goto (MBR OR 0x100)` is the
opcode after `wide`.

**MasmLayout.** The C recurs over a list that is linked backwards; the passes
are loops over line numbers here, one step per line. `warnings` is the set of
kinds of warnings; `mic1-asm` emits the store when it is empty (`Emittable`).
Names of labels are compared without case in the C and are values here. The two
null pointers the code can run into (`AbsoluteCrashes`) end in the pass `"crashed"`.

A source has the number that is written behind an absolute label, and
`LabelAddress` is what the lexer makes of it: `strtol` stops at the largest `long`,
which has two `int`s, and the `int` keeps the low half. Such an address can be
negative, and the passes test only that it is below the end of the store. A line is
then put in front of `mic_store` (`AbsoluteOutside`), and the other target of an
`if` may follow it there (`FalseLaidOutOutside`). What is in front of the store is
up to the linker, so whether the word is NULL is any value, unless a line of the
program was put there, and using it may crash (`AbsoluteCrashes`, `JumpCrashes`). An
executable of `gcc` has all of it: the words -1 to -3 are padding, a label there
is accepted and the line is lost; -4 is the list of labels, and the assembler crashes.
What is promised of an emitted store (`Clean`) is promised when no label is negative
(`InStore`); `LeavesOnlyByLabels` says that nothing else leaves the store.

**Masm.** The state is that of the layout, the words of the lines checked so
far, the kinds of warnings (`problems`), and the image. A step of the layout is
one of `MasmLayout`; `Check` is `masm_check_line` for one line, all its
instructions in the order in which the parser links them (the last one first);
`NoEntry`, `Abort` and `Emit` are the end of `main`. A number is the set of the
positions of its one bits, because the C puts fields together with `|=` and
nothing ever clears a bit: two instructions of a line that meet in a field give
the union here as there. Instructions are records with the fields of the C's
unions. What mic1 makes of a word (`Decoded`) reads each field with the same
`mic1_word_get_bits`, the bytes that it reads behind the word included.
`DisassemblyReassembles` runs the model of the assembler on the model of the
disassembler; the text in between is left out.

**IJVMTrace** adds no state: `Snapshot` is what is printed in a state, and
`MeansWhatItShows` what a reader concludes about the step. The table of
instructions is read from the lines of `ijvm.spec` (`SpecParse`), not from the
opcodes of the model.

**JasmEmit.** The loops over methods, instructions and operands are the counters
`m`, `n` and `k`; an operand is one step in each pass. The fields that the first
pass sets in the syntax tree (`pc`, `wide`, `u.value`, `u.label`) are `insn` for
the instruction at hand and `insns` for those before. The lists of defines and
labels are not kept in variables: the code looks names up only when the whole
method has been entered in them, and of two definitions keeps the first, so
`Define`, `Label` and `Directive` read them off the program. `Eval` is
`jasm_expr_eval`, with the mark `touch` as the set of defines being evaluated
(only the expression of a define can be met again), sums that wrap, and the
tests of sign bits that are to notice it; a program that is aborted has no value.
What the compiler may make of an overflow of `int` is taken to be wrapping.
A literal that an `unsigned long` does not hold ends the program in the lexer,
before the first pass (`TooLong`, of all expressions of the program).
`jasm_warning` changes nothing and is left out. A byte has `ByteMod` values, so
that TLC reaches the ends of bytes, 16 bits and ints in short programs.
`sizes` keeps the values that the variable `size` of `jasm_method_check` goes
through, so that a property can say where each operand should be; the code only
has the last of them. `Eval` meets the set of ints once more at the end, which
takes nothing away: every value it collects has been cut to an `int` before. It
makes the type of the values a fact for the prover, who cannot use induction
over expressions.

Definitions whose comment begins with *Faulty* are used by no specification.
They are the mutants of `PROJECT.json`: put in the place of the definition that
follows, each makes one of the properties fail.

## The runs

| run | question | bounds |
|---|---|---|
| `ijvm_programs` | Does `ijvm.c` implement `CallMachine` on lawful programs, keep its frames chained and its image intact, end, get the right results, and print a trace that can be followed? | 50 programs of `test/` and for the edges; all well-formed bodies of at most 3 of 23 instructions, with a call and built-in methods; 330 words of 3 bytes |
| `mic1_programs` | Does mic1 with `ijvm.mal` implement `ijvm.c` on real programs? | 11 programs; 330 words; two values of `random ()` |
| `mic1_bodies` | Does it on every short body? | all bodies of at most 3 of 18 instructions, returning a value; 40 words |
| `masm_layout` | Is every emitted layout right, and is a refused one hopeless? | store of 4 words; all microprograms of 3 lines with the labels, addresses and `if`s listed, of 4 lines that compete for pairs, and of 5 lines (or 4 and a blank one) that exhaust it; ints of 16 values, with numbers of labels that become -3, -1 and 2 |
| `masm_assembly` | Does what mic1-asm emits do what the source says, is what it refuses impossible, is the disassembly the source, and is `ijvm.mal` the control store of the mic1 runs? | the real 512 words; all 115 lines of `ijvm.mal`; every expression of the grammar, every pair of targets, every pair and many triples of 13 instructions on a line |
| `jasm_emit` | Is every image the program it was made from, and is a refused program invalid? | some 10400 programs: main with every body of 1 or 2 of 31 instructions, and of 3 of 5, under 9 lists of directives; other methods before, behind, twice; a dozen branches to one label; bytes of 3 bits |
| `masm_layout_two_labels`, `masm_mdr_after_rd`, `ijvm_trace_wide`, `mic1_void`, `mic1_fetch`, `jasm_literal` | six statements of the repository that the code does not keep | see below |

Why the bounds are enough. A word has three bytes because TLC computes in 32
bits; nothing in the code depends on the width but the wrap around and the
division of the block into words, and three bytes exercise both, odd sizes of
the method area included. Interactions between opcodes go through `wide`, the
stack, the TOS cache and the byte fetched last, all of which are set and used
within two or three instructions: bodies of three instructions put every
opcode's microcode behind every other's, twice (`mic1_bodies` leaves out `iadd`
and `iand`, whose microcode is that of `isub` and `ior` but for the function of
the ALU; `mic1_programs` has them). mic1 does not compare the number of
arguments with `main`'s, so programs started with a wrong number are in the
runs of `ijvm` only. Memory sizes are chosen so that
`ForeverProgram` recurs until it is full, `TooManyVariables` and
`TooManyConstants` do not fit, and others do. Four words are the smallest store
with two pairs: one pair can be given away wrongly while the other is there,
which is what a greedy placement can get wrong.

In `masm_assembly` the store has its real size, and a microprogram is in the
run for what is on one line: lines meet only through addresses, which are those
with most bits set (509, 383) so that a bit too many or too few shows. Values of
registers are 16 bits wide there. Two valuations in which all registers differ
tell any two functions of the ALU and any two registers apart; those in which all
are the same but one or none are the ones that `RefusedIsImpossible` names. `goto (MBR or n)` has the two ends of its range.

In `jasm_emit` a byte has 8 values, the offset of a branch goes from -32 to 31
and an int from -2048 to 2047: literals, defines, sums and branches are chosen
on both sides of each of these ends. With bytes of that size a method area of
a dozen instructions already has addresses that are constants too. The tests
for range and size in the code compare with ends of bytes and halves only, so a
narrower byte moves the ends and nothing else. `EvalIsExact` compares the
machinery of `jasm_expr_eval` with exact arithmetic on every operand and directive
of these programs. Literals are below the number of ints here (but for those that end
the program, in `TooLongPrograms`), and expressions are
trees: the two hypotheses (`LiteralsFit`, `FiniteTrees`) that the proof about all
expressions has. TLC evaluates `SpecAssumption` there, which says of the table of instructions what
is true of `ijvm.spec`: at most one operand of an instruction may be wide, and `wide`
itself has none.

`FailsOnlyWithoutLayout` deserves a word: it says that the greedy passes give up
only on microprograms that no assignment of addresses satisfies. TLC compares
with all assignments; `GivesUpOnlyWithoutLayout` proves it.

### Liveness and fairness

`IJVM` and `Mic1IJVM` have weak fairness of the next-state relation: each
program is one sequential loop that the operating system keeps running, and no
step waits for anything (`fgetc` at the end of the input returns). With it every
program of `ijvm_programs` ends, and `RefinesInterpreter` includes that the
Mic-1 makes progress when the interpreter does. `MasmLayout`, `Masm`, `JasmEmit` and
`CallMachine` state safety only; that the first three do not get stuck before
they are done is the check for deadlock.

### What the code does not keep

* `mic1_fetch`. The range check at the end of a fetch (`mic1.c:337`) compares
  MAR, not PC, with the size of memory. A microprogram that fetches while MAR
  holds no byte address gets 0 in MBR; a fetch outside the memory is unchecked.
* `mic1_void`. `ChangeLog` (1999-11-24) says that the two simulators print
  identical traces. When `main` returns with an empty operand stack, as in
  `test/test-putchar.j`, `ijvm` returns the saved LV in memory and `mic1` what
  is in TOS, the address of the frame. `mic1_bodies` therefore has only bodies
  that leave a result.
* `masm_layout_two_labels`. `ijvm.mal` says that an absolute label guarantees its
  address unless absolute labels collide. Of two absolute labels before one
  line, the first is passed over in silence. `AbsolutesHonoured` is what does hold.
* `masm_mdr_after_rd`. `test/check-error.mic` lists an assignment to MDR behind
  a line with `rd` among the errors. The check of a line no longer knows the
  line before (`prev_flags` is compiled out), and the microprogram is assembled.
* `ijvm_trace_wide`. The comment above `main` of `ijvm.c` says that the trace
  shows each instruction and its arguments. Behind `wide` it shows the upper byte
  of the number as the argument (the code for two bytes is under `if (0)`).
  `TraceIsExecution` is what holds of every other instruction.
* `jasm_literal`. A comment in `jasm_expr_eval` says that literals above 2^31 are
  refused. The lexer cuts the `unsigned long` of `strtoul` down to an `unsigned
  int` before, so that 2^32 + 1 is assembled as 1 where `long` has 64 bits.
  `Literal` is that conversion. Only from 2^64 on is there a message (`TooLong`).

Other limits are conditions of properties rather than findings, for no document
promises otherwise. Of the assembler: a branch further than 16 bits
wraps around (`BranchesLand` is about distances that fit), `.args` and
`.locals` are cut down to 16 bits (`HeaderAt` compares what is left), and a
pool of more than half the indices runs into those of the built-in methods
(`CallsReach` is about smaller ones). A `wide` that the programmer writes is not
taken into account when the instruction after it is assembled; `jasm_emit` has no
such programs. A method with `.args 0` is assembled, and its link pointer then
lies on its own saved pc; no run calls one. Of the microassembler: `goto (MBR or
n)` takes any n, and from 0x200 on its bits leave the field of the address
(`IgotosInStore` is a premise of `LinesDoWhatTheySay` for that reason). Of the
simulators: a truncated image file is not noticed, and the disassembly of a
long word does not fit into the 80 bytes of its buffer.

One limit is against the words of a message that the code gives elsewhere, "absolute labels
must be in the range 0-511" (`mic1-layout.c:89`), and has no run of its own, being of the kind of
`jasm_literal`: there is no message for a number that is outside of this range and no
longer is as an `int`. With a `long` of 64 bits `A = 0x100000005:` stands at 5, and the
line of `A = 0xffffffff:` is in the word in front of the store and not in the image.
The model has both (`LabelAddress`, `AbsoluteOutside`); `InStore` is the premise that
excludes the second.

## The proofs

### `ImageProofs` and `IJVMProofs`

They are about `ijvm.c` with any number of words of memory, words of 2 to 4 bytes
(`WordBytesAssumption`: the C has 4, an address of 16 bits has to fit) and any set
of programs with the types of image files (`ConstantsAssumption`,
`ProgramsAssumption`).

`FramedTypeCorrect` is `TypeOK`, with no condition on the programs: an unlawful
one too keeps every register and word in its C type until it leaves the memory. Its
proof failed at first, for the reason that the model was wrong: an unlawful program can
stop with its stack pointer outside the memory, and the word that
`ijvm_print_result` reads there is undefined as any other (`PrintResult` now needs
`sp` in the memory, and `OutOfBounds` has the other case).
The other theorems are about programs to which `CallMachine` promises something
(`[]ProgramsAreLawful`).

`FramesStayChained` is that the frames in the one stack stay apart and that the
link pointers and saved lvs lead back to `main`, `ImageStaysIntact` that
nothing writes to code and constants, `OnlyMainReturnsToInitialPc` that
`pc` gets the mark that ends the main loop when `main` returns and never otherwise. The three cannot be proved one
by one: a method stays in its frame only if the opcode is the one that was loaded,
and the image stays intact only if the method stays in its frame. The inductive
invariant `IInv` is their conjunction with `TypeOK` (and, before the start, no
frame). The steps fall into three kinds:

* an opcode writes to its own words only (`Own`): the variables of the last
  frame, and what is above the two words that it returns by. Own words
  of one frame belong to no other, the link pointers and saved words included
  (`ChainKept`), and are above the image;
* a call adds a link to the chain (`ChainPush`), at least two words above the
  last, because a lawful call has its arguments on the stack;
* a return takes the last link away (`ChainPop`): it writes its value to the
  word of the link pointer, which was the caller's object reference and is
  the caller's top operand now. That `pc` gets `INITIAL_PC` only here rests on the
  part of the chain that says whose saved `pc` it is, and on lawful branches landing
  behind the header, at 4 or above.

### `IJVMRefinementProofs`

`InterpreterIsCallMachine`: every lawful execution of the interpreter is one of
`CallMachine`, under the mapping `Frames`. The chain gives the places of all
frames (`FramePlaces`); what a step writes is outside of the places of the callers, so
their frames are the same before and after (`CallersStay`), and the places of the
last frame have what the abstract opcode puts there. Each case of
`ijvm_execute_opcode` is a lemma (`PushRefines`, `BinaryRefines`, ...,
`InvokeVirtualRefines`, `IreturnRefines`); `ijvm_new` is `StartMainRefines`: for the
abstract machine it is one more call.

`OutOfBoundsRefines` is the other half of the promise: the interpreter leaves its
memory only when the call machine is out of words. Frames lie without a
gap, so the sum of their sizes is the place of the stack pointer (`UsedIs`,
`Used = sp + 1`, by telescoping the sum along the chain); a lawful opcode that is
not in bounds therefore needs more words than there are (`OutOfBoundsNeeds`).

### `MasmLayoutProofs`

It proves, for every size of the store and of ints and every set of
microprograms (from `HalfAssumption`, `IntAssumption`, `NoLabelAssumption` and
`SourcesAssumption` only): `TypeOK`, `LeavesOnlyByLabels`, `EveryLinePlaced`,
`BranchesPaired`, `AbsolutesHonoured` and `FailsOnlyWithoutLayout` as invariants and
`NothingOverwritten` as a property of steps. The numbers behind labels are any
natural numbers. `OnlyNegativeLabelsLeave` goes through the four ways in which a pass
computes an address: `TypeOK` alone allows negative ones. For `EveryLinePlaced`,
`BranchesPaired` and `AbsolutesHonoured` the microprogram has to have no negative
label (`InStore`, part of `Clean`): with one they are false, for the line behind it
is not in the store.

`EveryLinePlaced` and its like speak of the end, and are not inductive. The
inductive invariant says what is true on the way, while no warning was given:

* store and addresses agree: a line that is laid out is in the word at its
  address, and a word that has a line is that line's address (without this a later
  placement could take a word away from a line that was counted as placed);
* what each pass has behind it: absolute labels above `at` are served, and later
  passes keep it; `if`s before `at` have both targets placed `Half` apart; lines
  before `at` in the last pass are laid out.

Each step then adds to the second kind and must not disturb the first: as long as
there is no warning, no placement hits an occupied word. `NothingOverwritten` is
about all steps, those behind a warning included, and says which two kinds of them
take a word from a line: an absolute label that clashes, which the code warns of and
then lets go on (`mic1-layout.c:78-85`), and a search in an exhausted store.

`FailsOnlyWithoutLayout` needs more, for it is about warnings: a second invariant,
`SolvedInv`, says how far the passes follow any layout `f` that the microprogram
has (TLC agrees, with all `f` for the microprograms of `masm_layout`).
Behind absolute labels `f` has no choice, so neither has the first pass, and a clash
would be one of `f`. In the second pass a line is where `f` has it or in a pair
with the partner that `f` has it with, since `f` gives a line one partner and one
side (`OnePartner`). So two targets that are laid out are right (`BothAreRight`), and
the word of a missing partner is free (`OtherIsFree`). The counting is in
`PairIsLeft` and `HoleIsLeft`: were all pairs taken, the lines in them, one from each
pair, would be in different pairs of `f` as well (`SamePair`), which leaves none there
for the two targets that are still missing; an injection of a finite interval into
itself leaves nothing out (`NothingLeftOut`, from the library's `FS_Injection`). That
`first` only moves forward costs nothing because every pair, or word, before it
is taken (`PairIsFirst`, `HoleIsFirst`).

### `JasmEmitProofs`

For all programs, all tables of instructions (`Templates` is what `ijvm.spec`
says) and all sizes of bytes, it proves `TypeOK` and `PassesAgree`. The
assumptions are the types of the inputs: expressions are trees over literals
and names, opcodes are bytes, kinds of operands are those of `ijvm-spec.c`, a
program has a method and a method an instruction, as the grammar has it. Any
number of operands and any nesting of expressions is covered.

`PassesAgree` relates the bytes emitted so far to addresses of the first pass. It
is not inductive: that the next instruction starts where this one ends is
something the first pass did. The inductive invariant `AssemblyInv` adds

* `Linked`: the checked instructions follow each other without a gap, from method
  to method, and `sizes` of each adds up exactly what `SizeOf` says that
  the second pass emits. Here a variable number that gets the prefix `wide` must
  count with two bytes in the first pass if, and only if, it is emitted with two
  in the second, and the prefix itself once;
* `Checking`: `pc` is behind what has been checked, and nothing has been emitted;
* `Emitting`: the second pass starts when every instruction has been checked.

`CheckedLinked` is the heart of the first pass (a checked instruction goes
behind the others), `EmitStep` that of the second (what is emitted is as long as
the first pass said). The second is where the two kinds of operands that
are looked up late matter: a label or a method that is not there ends the
program, and one that is there has two bytes whatever its value.

### `JasmImageProofs`

That both passes agree on addresses says nothing yet about what is at these
addresses. The theorems here are about that, again for all programs, tables of
instructions and sizes of bytes, from the assumptions of `JasmEmitProofs` and two
more: an instruction has at most one operand that may be wide and `wide` has none
(`SpecAssumption`), and the names of built-in methods fit into their half of the
indices (`BuiltinsAssumption`). There are finitely many names
(`NamesAssumption`). There are two more invariants:

* `MeaningInv`: what the first pass keeps of an operand is one of the values of its
  expression, in the range of its kind, or the index of one in the pool, or its
  name; an instruction is wide if and only if an operand needs it; every method has
  its address in the pool where its index says. The pool is shared and grows all
  through the pass; that what is kept still means the same is `MeaningStays`;
* `EmittedInv`: every header, opcode and operand the second pass is past is in
  the bytes, at the address of the first pass. `PassesAgree` gives the step, and
  bytes put behind leave it true (`PartsStay`).

The reader of the finished image knows none of these addresses. It sees the
prefix (`PrefixIs`: there if and only if an operand needs it), knows the sizes from
the table, and adds them up from one operand to the next (`OperandStart`).
`StartIs` says that it gets to where the operand was put, in `RecursiveSum` by the
least operand of which this would be false. Two bytes give back the lower half of
an int, with or without its sign (`HalfIs`, `SignedIs`). From this follow

* `BranchesAlwaysLand`, with no hypothesis;
* `OperandsAlwaysSurvive`, for programs without `wide` as an instruction of their
  own (`PrefixesLeftToAssembler`: of `wide` before a wide instruction the reader
  would take the second prefix for the opcode, a hazard of `ijvm.spec:20`);
* `CallsAlwaysReach`: the pool may give a constant the index of a method, but never
  a method's index anything but its address;
* `InvalidAlwaysRefused`: an invariant (`RefusedInv`) says that a program that has
  been aborted has one of the things wrong with it that are listed in `Wrong`,
  whichever pass noticed. One that was assembled has none of them
  (`NothingWrong`), and with exact values `Wrong` is the opposite of `Valid`.

The last three need that expressions have their exact values, which is a theorem of
its own, `ExpressionsAlwaysExact`. Its hypotheses are theirs too: expressions
are trees (`FiniteTrees`: parts have a smaller height, as what the parser builds
has) and literals fit into an unsigned int (`LiteralsFit`; what becomes of the others is the
finding of `jasm_literal`). `Eval` and `Exact` are recursive functions over different
things: the code marks what it is evaluating and stops where it meets a mark, the
reference replaces defines as often as there are names. The argument is

* both functions exist and satisfy their equations (`EvalSolved`, `ExactSolved`).
  A recursive definition in TLA+ is a CHOOSE, and this has to be proved:
  `RecursionDefines` does so for every function that looks at smaller arguments only,
  smaller by a first measure (names left, or depth) or then by height;
* the arithmetic of one operation, with its tests of signs after an overflow that has
  happened, is exact (`CombinedIs`, `NegatedIs`, `LiteralIs`, put together in
  `EvalResult`);
* what is computed with some names marked is exact at every depth that is enough for
  the other names (`EvalWithinExact`);
* what is exact at some depth is computed, as long as no marked name has a value at a
  smaller depth (`ExactWithinEval`). When a define is followed it is marked, and
  the induction goes on at the *least* depth at which its expression has a value:
  there the define is not needed again, so the mark never stops an evaluation that
  would have ended.

Inductions are over sets of expressions and depths (`ByParts`), whose least counterexample
`LeastOfTwo` finds. The premises
of `OperandsSurvive` and `CallsReach` came out of the proofs: an index has 16 bits, so a
pool with more entries loses constants without a message, and an address of a
method is put into the pool as an `int`. So did a slip in the reference itself:
two cases of `Exact` overlapped, for the negation of a literal, and which of them TLA+ takes is not
defined; the cases exclude each other now.

### `Mic1Proofs`

`TracedTypeCorrect` is `Mic1TypeOK` for every control store (one that
`mic1-asm` would refuse included), every image and size of memory and whatever
`random ()` returns: the registers keep their C types, and `mpc` stays in the
control store. It extends the lemmas about widths of `ImageProofs` to the ALU, the
shifter, the B bus and the two memory ports. The next address is the delicate
part: its low byte is or-ed with `MBR`, its top bit is set by the conditions, and the
sum of the two parts is an address of the 512 words only because or-ing two bytes
gives a byte. A fetch outside of the memory has no next state in the model
(`OutOfBounds` is the step then), as it has none that the C defines.

### `MasmProofs`

`mic1_word_get_bits` stops when offset + 8 >= pos + size, which compares a place
in the result with a place in the word. It is right all the same, for two
reasons that the proof brings out (`GetBitsIsField`): what it reads too much is
masked out, and it reads too little only for a field that begins in the
first byte and ends in a later one, which no field of `mic1-util.h` does. From this
follow, for all words and stores, that a field holds what was put into it and
keeps it when another is written (`PutIsGot`, `PutElsewhere`), and that nothing
behind a word shows (`DecodesOnlyTheWord`, `NothingBehindShows`). `ImageSurvives`
is the round trip through the image file.

For all microprograms (from `LabelAssumption`, and `MicroprogramsAssumption`: every
line is one that the grammar accepts, `SourceLines`, with any number behind its label): `ImplementsLayout` maps every step of `Masm` to one of
`MasmLayout` or to none, so that its theorems hold of the assembler;
`AssemblerPairsBranches` is one of them. `WordsReach` then says that mic1 decodes
at the address of each line of an image the word that the check made of it. Its
invariant is that the image was written from the final store (`EmittedInv`);
together with `EveryLinePlaced` and `TypeOK` of the layout that makes the word at
the line's address the line's own, and `ImageSurvives` and `NothingBehindShows`
carry it over to the simulator. `WordsReachTheSimulator` is the same for the two
contents of memory that TLC tries.

That the word *means* the line is `LinesDoWhatTheySay`: in every image of every
microprogram, on mic1, each line loads the registers and starts the memory
operations that it names, computes what it says (`AssignmentComputes`: for all
values of the registers), goes where its labels are, with both branches of an `if` in place, and to the next
line if it says nothing else. It has two premises. No absolute label is negative
(`Assembled`, as in `WordsReach`): the line behind one is not in the image. And
`IgotosInStore`, that the `goto (MBR or n)` of the microprogram have `n` in the
control store: `mic1-check.c:88` puts `n` into the word without a look at it, and for
a larger `n` the statement is false. The argument has four parts.

* *Fields.* `Powers`, `WeightedStep` and `NumberIsWeighted` make a number of the
  bits of a field, so that `AddressPlaces`, `AluPlaces` and `BusPlaces` read back
  each address, each of the 16 functions that the ALU has a code for, and each
  register on the B bus.
* *Expressions.* `ExpressionsAreComputed` goes through the cases of
  `masm_check_alu`, with H on either side of an operator: whatever it does not
  refuse has the value of the expression. The values are two's complement numbers
  of any width here, not those of the valuations that TLC tries.
* *Lines.* `CheckedLineDoesWhatItSays` is an induction over the instructions of a
  line, whose fold is a sum of steps that each put bits and only ever add
  warnings (`Advances`, composed with `AdvancesTwice`, instruction by instruction
  in `InsnAdvances`). A line without a warning is therefore the union of the bits
  of its instructions (`CheckedLineWord`); that at most one of them is an
  assignment and one a jump is what its warnings are for, and keeps them out of
  each other's fields (`LineFields`).
* *The assembler.* `CheckInv` is inductive: the words so far are those of the
  check, in the final layout, their warnings are known, and nothing is emitted
  with a warning; it needs no premise. The theorems about the layout, that every line has its place
  and every `if` its pair, then turn addresses into lines.

The other direction is `RefusesOnlyImpossible`: the check is not stricter than the
hardware. It rests on `RefusedIsImpossible`, which is about every refused expression,
every ALU function, every register on the B bus and every shift, and names the values
of the registers for which the result is wrong.

* *A register that the ALU does not see.* An expression of different registers feels each
  one that it names (`OperandsAreFelt`): its value changes when all others are 0 and
  the register goes from 0 to 4, or all are -1 and it goes to 0. When the register is
  neither H nor the one on the B bus, the ALU computes the same twice, and one result
  is wrong (`UnseenFails`). That takes care of MAR, which the B bus does not have, and
  of two registers without H.
* *Three expressions that name only what the ALU sees*: `-r` and `H - r` with r on the
  bus, and `H - 1`. None of the sixteen functions makes -4 of an H of 0 and a 4 on
  the bus, or 3 of an H of 4 and a 0 (`AluOfFourAndZero`).
* *The shifter* keeps apart what differs in more than the last bit (`ApartAfter`); that
  is why the values are 4 and not 1.
* *The assembler.* `RefusalsBlamed` is inductive: a warning about an expression is that
  of an assignment whose expression is refused. No other instruction, and no other
  check of an assignment, gives one (`Mild`, through the fold over the targets in
  `TargetsAreMild` and that over the line in `LineIsMild`).

The exception is real: `masm_check_alu` refuses `H = H or H` and `H = MDR and MDR`,
which are H and MDR, because it wants H and one other register.

The proof found that two arms of a `CASE` in `CheckedLine` overlapped, for a last line
that ends in a `goto`: TLC took the first, as the C does, but the module said that
either would do. It is an `IF` now. Such an ambiguity is what TLC cannot see.

### Only model-checked

Of `IJVM` that programs compute what they should (`ResultExpected`, which is about
programs with a known result) and end; of `Mic1` that it implements `IJVM`, and
`TosIsTopOfStack`;
of `Masm` that the disassembly of a word is its source
(`DisassemblyReassembles`), and that `ijvm.mal` is the control store of the mic1 runs
(`IjvmMalIsControlStore`, which is about one microprogram);
`TraceIsExecution`. Out of reach of the prover: liveness (`Ends`, and the fairness part of
`RefinesInterpreter`).

## What is not modelled

* The tokens and grammars of the two assemblers keep no state and are left
  out; what their actions decide (literals, the order of instructions, warnings
  about constants and shifts) is in `JasmEmit` and `Masm`. In the lexer of
  `ijvm-asm` `NUM` takes hexadecimal digits without `0x` and `strtoul` stops at
  the first one it does not know, so that `1f` is read as 1; tokens are numbers
  here.
* The text of image files and traces: numbers are written and read, not
  characters. Files that the assemblers did not write are not read. The
  options `-s`, `-b` and `-t` change what is printed, not what is executed.
* `mic1` without an IJVM image (`mic1_new` with NULL) starts from an empty
  memory; `test/gcd.mal` is for it. The cycle is the one that is modelled.
* The search of `ijvm_spec_init` for `ijvm.spec` in several places is input and
  output only; so are the usages and options of the four `main`s.
* Bytes in a word are in the order of a little-endian host, which the C takes
  from the machine; the code reads single bytes only from the method area and
  whole words only elsewhere, so that no program whose constant pool indices are
  in its pool can tell.

## Plan

1. *(done)* `IJVM` against `CallMachine`; `MasmLayout` with its proofs; `Mic1`
   with `ijvm.mal` against `IJVM`.
2. *(done)* `JasmEmit` with `JasmImage`, and `PassesAgree` for every program.
3. *(done)* `MicroWord` and `Masm`: from lines to the words that mic1 executes,
   with `ijvm.mal` as one of them; their proofs.
4. *(done)* `IJVMSpec` and `IJVMTrace`.
5. *(done)* Proofs: types, frames and image of `IJVM` and its refinement of
   `CallMachine`; types of `Mic1`; that images of `JasmEmit` mean their programs;
   that the layout gives up only when there is none; that words of `Masm` mean
   their lines.
   Left: that the Mic-1 with `ijvm.mal` implements `IJVM` (`TosIsTopOfStack` is
   the first part), and that a disassembly is assembled to the same word.
6. `Mic1` without an image on `test/gcd.mal`; assembling the sources of `test/`
   into the images of `IJVMPrograms`.
