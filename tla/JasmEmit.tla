------------------------------- MODULE JasmEmit -------------------------------
(***************************************************************************)
(* The two passes of the assembler over the methods of a program:          *)
(* src/ijvm-emit.c.                                                        *)
(*                                                                         *)
(* The first pass gives every method and instruction its address, decides  *)
(* which instructions get the prefix `wide', evaluates the operands and    *)
(* collects constants, and the addresses of methods, in the constant pool. *)
(* The second pass emits bytes, and only there are labels and methods      *)
(* looked up and .args and .locals evaluated.  An error ends the program   *)
(* with a message; definitions of a name that has one already are ignored. *)
(*                                                                         *)
(* Names are compared without case in the C and are values here.  ByteMod  *)
(* is 256 in the C programs; 16-bit halves and the four bytes of an int    *)
(* are counted in such bytes.                                              *)
(***************************************************************************)
EXTENDS Integers, Sequences

CONSTANTS ByteMod,    \* values of a byte
          Programs,   \* the programs to assemble: sequences of methods
          Names,      \* names of methods, labels and defines
          Exprs,      \* the expressions in them, with their subexpressions
          Templates,  \* ijvm.spec: opcode and kinds of operands by mnemonic
          Builtins,   \* the names of the built-in methods
          Wide,       \* IJVM_OPCODE_WIDE
          Main        \* "main"

HalfMod == ByteMod * ByteMod
IntMod == HalfMod * HalfMod
Int32 == -(IntMod \div 2) .. (IntMod \div 2 - 1)
BuiltinBase == HalfMod \div 2       \* 0x8000
HeaderSize == 4

ASSUME ByteModAssumption == ByteMod \in Nat /\ ByteMod > 1 /\ ByteMod % 2 = 0

ASSUME ExprsAssumption ==
  \A e \in Exprs :
    \/ e.kind = "integer" /\ e.integer \in Nat
    \/ e.kind = "symbol" /\ e.symbol \in Names
    \/ e.kind \in {"plus", "minus"} /\ e.left \in Exprs /\ e.right \in Exprs
    \/ e.kind = "neg" /\ e.neg \in Exprs

Kinds == {"byte", "varnum", "varnum-wide", "constant", "label", "method"}

ASSUME TemplatesAssumption ==
  /\ \A mnemonic \in DOMAIN Templates :
       /\ Templates[mnemonic].opcode \in 0 .. ByteMod - 1
       /\ Templates[mnemonic].operands \in Seq(Kinds)
  /\ Wide \in 0 .. ByteMod - 1

\* A table of names (ijvm_builtins) that the upper half of the indices has room for.
ASSUME BuiltinsAssumption == Builtins \in Seq(Names) /\ Len(Builtins) <= BuiltinBase

\* A directive is .args, .locals or .define; an instruction is generic or a label.
Directives ==
  [kind : {"args", "locals"}, expr : Exprs]
    \union [kind : {"define"}, symbol : Names, expr : Exprs]
Insns ==
  [kind : {"generic"}, mnemonic : DOMAIN Templates, operands : Seq(Exprs)]
    \union [kind : {"label"}, label : Names]

ASSUME ProgramsAssumption ==
  \A prog \in Programs :
    /\ DOMAIN prog = 1 .. Len(prog) /\ Len(prog) \in Nat \ {0}
    /\ \A i \in DOMAIN prog : /\ prog[i].name \in Names
                              /\ prog[i].dirs \in Seq(Directives)
                              /\ prog[i].insns \in Seq(Insns) \ {<<>>}

VARIABLES program,    \* the methods
          pass,       \* "check", "emit", "done", "aborted" or "crashed"
          m, n, k,    \* the method, its instruction, its operands handled so far
          pc,         \* the address in the first pass
          insn,       \* what is known of the instruction in the first pass
          insns,      \* ... and of all instructions before
          methods,    \* address, and index in the pool, of every method
          cpool,      \* the constant pool
          bytes       \* the method area

vars == <<program, pass, m, n, k, pc, insn, insns, methods, cpool, bytes>>

\* `sizes' has the values that the variable `size' of the C goes through: the
\* last one is its value, and the others are where the operands start.
Fresh == [wide |-> FALSE, sizes |-> <<0>>, values |-> <<>>]

-----------------------------------------------------------------------------
\* Of several definitions of a name the first one counts.
First(indices) == {i \in indices : \A j \in indices : i <= j}

Define(i, name) ==
  LET dirs == program[i].dirs
  IN  {dirs[d].expr : d \in First({d \in DOMAIN dirs : dirs[d].kind = "define"
                                                       /\ dirs[d].symbol = name})}

Directive(i, kind) ==
  LET dirs == program[i].dirs
  IN  {dirs[d].expr : d \in First({d \in DOMAIN dirs : dirs[d].kind = kind})}

LabelsNamed(i, name) ==
  {l \in DOMAIN program[i].insns : /\ program[i].insns[l].kind = "label"
                                  /\ program[i].insns[l].label = name}

\* Faulty: the last label of the name.
LastLabel(i, name) ==
  {l \in LabelsNamed(i, name) : \A l2 \in LabelsNamed(i, name) : l2 <= l}

Label(i, name) == First(LabelsNamed(i, name))

MethodNamed(name) == First({i \in DOMAIN program : program[i].name = name})

BuiltinNamed(name) == {i \in DOMAIN Builtins : Builtins[i] = name}

-----------------------------------------------------------------------------
\* A literal goes through strtoul into an unsigned int.
Literal(token) == token % IntMod

\* The expressions of a program, and an expression with those in it.
OperandsOf(item) ==
  IF item.kind = "generic" THEN {item.operands[j] : j \in DOMAIN item.operands} ELSE {}
WrittenIn(method) ==
  {method.dirs[d].expr : d \in DOMAIN method.dirs}
    \union UNION {OperandsOf(method.insns[i]) : i \in DOMAIN method.insns}
Written(prog) == UNION {WrittenIn(prog[i]) : i \in DOMAIN prog}

Nested[e \in Exprs] ==
  {e} \union (CASE e.kind \in {"plus", "minus"} -> Nested[e.left] \union Nested[e.right]
               [] e.kind = "neg" -> Nested[e.neg]
               [] OTHER -> {})

\* Faulty: errno is not looked at.
NeverTooLong(prog) == FALSE

\* The lexer ends the program at a literal that an unsigned long, of two ints,
\* does not hold, wherever it stands.
TooLong(prog) ==
  \E x \in Exprs :
    /\ x.kind = "integer" /\ x.integer >= IntMod * IntMod
    /\ \E e \in Written(prog) : x \in Nested[e]

ToInt(v) ==
  IF v % IntMod < IntMod \div 2 THEN v % IntMod ELSE (v % IntMod) - IntMod

SameSign(a, b) == (a < 0) = (b < 0)

\* Faulty: the test for sums serves for differences too.
OverflowsAsSum(kind, left, right, result) ==
  SameSign(left, right) /\ ~SameSign(left, result)

Overflows(kind, left, right, result) ==
  /\ SameSign(left, right) = (kind = "plus")
  /\ ~SameSign(left, result)

\* The sum or the difference of two ints, when it is one.
Combined(kind, left, right) ==
  LET result == ToInt(IF kind = "plus" THEN left + right ELSE left - right)
  IN  IF Overflows(kind, left, right, result) THEN {} ELSE {result}

\* The values of an expression in method i when the defines in touched are being
\* evaluated: no other expression that is touched can be met again.
EvalTouched(i) ==
  LET bounded(v, ok) == IF ok THEN {v} ELSE {}
      eval[p \in Exprs \X SUBSET Names] ==
        LET e == p[1]
            touched == p[2]
        IN  CASE e.kind = "integer" ->
                   bounded(Literal(e.integer), Literal(e.integer) \in Int32)
              [] e.kind = "symbol" ->
                   IF e.symbol \in touched THEN {}
                   ELSE UNION {eval[<<x, touched \union {e.symbol}>>] : x \in Define(i, e.symbol)}
              [] e.kind \in {"plus", "minus"} ->
                   UNION {Combined(e.kind, q[1], q[2]) :
                          q \in eval[<<e.left, touched>>] \X eval[<<e.right, touched>>]}
              [] e.kind = "neg" /\ e.neg.kind = "integer" ->
                   bounded(ToInt(-Literal(e.neg.integer)),
                           Literal(e.neg.integer) <= IntMod \div 2)
              [] OTHER ->
                   UNION {bounded(ToInt(-v), ToInt(-v) # -(IntMod \div 2)) :
                          v \in eval[<<e.neg, touched>>]}
  IN  eval

\* jasm_expr_eval: the value of an expression, an int, if it has one.
Eval(i) == [e \in Exprs |-> EvalTouched(i)[<<e, {}>>] \intersect Int32]

-----------------------------------------------------------------------------
Init ==
  /\ program \in Programs
  /\ pass = IF TooLong(program) THEN "aborted" ELSE "check"
  /\ m = 1 /\ n = 0 /\ k = 0
  /\ pc = 0 /\ insn = Fresh /\ insns = <<>> /\ methods = <<>>
  /\ cpool = <<>> /\ bytes = <<>>

Here == program[m].insns[n]
Template == Templates[Here.mnemonic]
Kind == Template.operands[k + 1]

\* jasm_abort
Abort ==
  /\ pass' = "aborted"
  /\ UNCHANGED <<program, m, n, k, pc, insn, insns, methods, cpool, bytes>>

\* The loops over methods and their instructions.
NextInsn(passAfter) ==
  \/ /\ n < Len(program[m].insns)
     /\ n' = n + 1
     /\ UNCHANGED <<m, pass>>
  \/ /\ n = Len(program[m].insns) /\ m < Len(program)
     /\ m' = m + 1 /\ n' = 0
     /\ UNCHANGED pass
  \/ /\ n = Len(program[m].insns) /\ m = Len(program)
     /\ pass' = passAfter /\ m' = 1 /\ n' = 0

-----------------------------------------------------------------------------
(***************************************************************************)
(* First pass: jasm_method_check.                                          *)
(***************************************************************************)
PoolWith(value) ==
  IF \E i \in DOMAIN cpool : cpool[i] = value THEN cpool ELSE Append(cpool, value)

\* The index that jasm_cpool_add returns, counted from 0; no value is there twice.
IndexOf(value) ==
  IF \E i \in DOMAIN cpool : cpool[i] = value
  THEN (CHOOSE i \in DOMAIN cpool : cpool[i] = value) - 1
  ELSE Len(cpool)

\* The directives are read by Define and Directive.
EnterMethod ==
  /\ pass = "check" /\ n = 0
  /\ methods' = Append(methods, [address |-> pc, index |-> IndexOf(pc)])
  /\ cpool' = PoolWith(pc)
  /\ pc' = pc + HeaderSize
  /\ insns' = Append(insns, <<>>)
  /\ n' = 1
  /\ UNCHANGED <<program, pass, m, k, insn, bytes>>

\* The instruction is done, with what is known of it.
Checked(known) ==
  insns' = [insns EXCEPT ![m] =
              Append(@, [pc |-> pc, wide |-> known.wide, sizes |-> known.sizes,
                         values |-> known.values])]

CheckLabel ==
  /\ pass = "check" /\ n > 0 /\ Here.kind = "label"
  /\ Checked(Fresh)
  /\ NextInsn("emit")
  /\ UNCHANGED <<program, k, pc, insn, methods, cpool, bytes>>

CheckingOperand(kind) ==
  /\ pass = "check" /\ n > 0 /\ Here.kind = "generic"
  /\ k < Len(Template.operands) /\ k < Len(Here.operands)
  /\ Kind = kind

Operand == Here.operands[k + 1]

\* op->u is set and the operand has its size.
Take(value, size, wide) ==
  /\ insn' = [wide |-> insn.wide \/ wide,
              sizes |-> Append(insn.sizes, insn.sizes[k + 1] + size),
              values |-> Append(insn.values, value)]
  /\ k' = k + 1
  /\ UNCHANGED <<program, pass, m, n, pc, insns, methods, bytes>>

SignedBytes == -(ByteMod \div 2) .. (ByteMod \div 2 - 1)
VarNums == 0 .. ByteMod - 1
WideVarNums == 0 .. HalfMod - 1

\* Faulty: the last number of one byte taken too far.
NeedsWideLate(varnum) == varnum > ByteMod

NeedsWide(varnum) == varnum > ByteMod - 1

\* An operand that has no value in the range of its kind.
CheckOutOfRange ==
  \E allowed \in {<<"byte", SignedBytes>>, <<"varnum", VarNums>>,
                  <<"varnum-wide", WideVarNums>>, <<"constant", Int32>>} :
    /\ CheckingOperand(allowed[1])
    /\ Eval(m)[Operand] \intersect allowed[2] = {}
    /\ Abort

CheckByte ==
  /\ CheckingOperand("byte")
  /\ \E value \in Eval(m)[Operand] \intersect SignedBytes : Take(value, 1, FALSE)
  /\ UNCHANGED cpool

CheckVarNum ==
  /\ CheckingOperand("varnum")
  /\ \E value \in Eval(m)[Operand] \intersect VarNums : Take(value, 1, FALSE)
  /\ UNCHANGED cpool

CheckWideVarNum ==
  /\ CheckingOperand("varnum-wide")
  /\ \E value \in Eval(m)[Operand] \intersect WideVarNums :
       Take(value, IF NeedsWide(value) THEN 2 ELSE 1, NeedsWide(value))
  /\ UNCHANGED cpool

CheckConstant ==
  /\ CheckingOperand("constant")
  /\ \E value \in Eval(m)[Operand] :
       /\ Take(IndexOf(value), 2, FALSE)
       /\ cpool' = PoolWith(value)

\* A label or a method is looked up in the second pass.
CheckName ==
  /\ \E kind \in {"label", "method"} : CheckingOperand(kind)
  /\ Operand.kind = "symbol"
  /\ Take(Operand.symbol, 2, FALSE)
  /\ UNCHANGED cpool

\* The message for an expression in its place prints u.value, which has not been
\* set and is no string: the program ends one way or the other.
CheckNoName ==
  /\ \E kind \in {"label", "method"} : CheckingOperand(kind)
  /\ Operand.kind # "symbol"
  /\ pass' \in {"aborted", "crashed"}
  /\ UNCHANGED <<program, m, n, k, pc, insn, insns, methods, cpool, bytes>>

\* Faulty: the prefix `wide' is not counted.
InsnSizeUnprefixed == 1 + insn.sizes[k + 1]

InsnSize == 1 + insn.sizes[k + 1] + (IF insn.wide THEN 1 ELSE 0)

OperandsChecked ==
  /\ pass = "check" /\ n > 0 /\ Here.kind = "generic"
  /\ k = Len(Template.operands) \/ k = Len(Here.operands)

EndInsn ==
  /\ OperandsChecked
  /\ Len(Template.operands) = Len(Here.operands)
  /\ Checked(insn)
  /\ pc' = pc + InsnSize
  /\ insn' = Fresh /\ k' = 0
  /\ NextInsn("emit")
  /\ UNCHANGED <<program, methods, cpool, bytes>>

WrongNumberOfOperands ==
  /\ OperandsChecked
  /\ Len(Template.operands) # Len(Here.operands)
  /\ Abort

-----------------------------------------------------------------------------
(***************************************************************************)
(* Second pass: jasm_emit.                                                 *)
(***************************************************************************)
\* Faulty: the upper byte is not cut down to a byte.
Int16Uncut(v) == <<v \div ByteMod, v % ByteMod>>

\* jasm_emit_int16: the lower half of an int, whatever is above.
Int16(v) == <<(v \div ByteMod) % ByteMod, v % ByteMod>>

DirectiveValue(kind, default) ==
  IF Directive(m, kind) = {} THEN {default}
  ELSE UNION {Eval(m)[e] : e \in Directive(m, kind)}

EmitHeader ==
  /\ pass = "emit" /\ n = 0
  /\ \E args \in DirectiveValue("args", 1), locals \in DirectiveValue("locals", 0) :
       bytes' = bytes \o Int16(args) \o Int16(locals)
  /\ n' = 1
  /\ UNCHANGED <<program, pass, m, k, pc, insn, insns, methods, cpool>>

NoHeader ==
  /\ pass = "emit" /\ n = 0
  /\ DirectiveValue("args", 1) = {} \/ DirectiveValue("locals", 0) = {}
  /\ Abort

\* k counts the opcode, with its prefix, as the first operand here.
EmittingOperand(kinds) ==
  /\ pass = "emit" /\ n > 0 /\ Here.kind = "generic"
  /\ k \in 1 .. Len(Template.operands)
  /\ Template.operands[k] \in kinds

Value == insns[m][n].values[k]

Emit(what) ==
  /\ bytes' = bytes \o what
  /\ k' = k + 1
  /\ UNCHANGED <<program, pass, m, n, pc, insn, insns, methods, cpool>>

EmitOpcode ==
  /\ pass = "emit" /\ n > 0 /\ Here.kind = "generic" /\ k = 0
  /\ Emit((IF insns[m][n].wide THEN <<Wide>> ELSE <<>>) \o <<Template.opcode>>)

EmitByte ==
  /\ EmittingOperand({"byte", "varnum"})
  /\ Emit(<<Value % ByteMod>>)

EmitWideVarNum ==
  /\ EmittingOperand({"varnum-wide"})
  /\ Emit(IF NeedsWide(Value) THEN Int16(Value) ELSE <<Value % ByteMod>>)

EmitConstant ==
  /\ EmittingOperand({"constant"})
  /\ Emit(Int16(Value))

EmitLabel ==
  /\ EmittingOperand({"label"})
  /\ \E l \in Label(m, Value) : Emit(Int16(insns[m][l].pc - insns[m][n].pc))

\* Faulty: methods of the program come before built-in ones.
MethodIndexOwnFirst(name) ==
  IF MethodNamed(name) # {} THEN {methods[i].index : i \in MethodNamed(name)}
  ELSE {BuiltinBase + i - 1 : i \in BuiltinNamed(name)}

\* jasm_builtin_lookup before jasm_method_lookup.
MethodIndex(name) ==
  IF BuiltinNamed(name) # {} THEN {BuiltinBase + i - 1 : i \in BuiltinNamed(name)}
  ELSE {methods[i].index : i \in MethodNamed(name)}

EmitMethod ==
  /\ EmittingOperand({"method"})
  /\ \E index \in MethodIndex(Value) : Emit(Int16(index))

NameUndefined ==
  /\ \/ EmittingOperand({"label"}) /\ Label(m, Value) = {}
     \/ EmittingOperand({"method"}) /\ MethodIndex(Value) = {}
  /\ Abort

\* The end of an instruction.  Behind the last one `main' is looked up for the image.
EmitNext ==
  /\ pass = "emit" /\ n > 0
  /\ Here.kind = "generic" => k = Len(Template.operands) + 1
  /\ k' = 0
  /\ NextInsn(IF MethodNamed(Main) = {} THEN "aborted" ELSE "done")
  /\ UNCHANGED <<program, pc, insn, insns, methods, cpool, bytes>>

-----------------------------------------------------------------------------
\* The image has the index of main in 16 bits.
MainIndex == {methods[i].index % HalfMod : i \in MethodNamed(Main)}

Finished == pass \in {"done", "aborted", "crashed"} /\ UNCHANGED vars

Next ==
  \/ EnterMethod \/ CheckLabel
  \/ CheckByte \/ CheckVarNum \/ CheckWideVarNum \/ CheckConstant
  \/ CheckName \/ CheckNoName \/ CheckOutOfRange
  \/ EndInsn \/ WrongNumberOfOperands
  \/ EmitHeader \/ NoHeader
  \/ EmitOpcode \/ EmitByte \/ EmitWideVarNum \/ EmitConstant
  \/ EmitLabel \/ EmitMethod \/ NameUndefined
  \/ EmitNext \/ Finished

Spec == Init /\ [][Next]_vars
=============================================================================
