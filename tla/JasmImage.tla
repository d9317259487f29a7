------------------------------ MODULE JasmImage ------------------------------
(***************************************************************************)
(* What the assembler promises: the image it writes, read the way the      *)
(* simulators read it, is the program that was assembled.                  *)
(*                                                                         *)
(* Meanings of expressions are stated here without the machinery of        *)
(* jasm_expr_eval: in exact arithmetic, a define replaced by its           *)
(* expression as often as there are names.                                 *)
(***************************************************************************)
EXTENDS JasmEmit, FiniteSets

\* What src/ijvm.spec has: an instruction has at most one operand that may be wide,
\* and `wide', which is an instruction there too, has none.
ASSUME SpecAssumption ==
  \A mnemonic \in DOMAIN Templates :
    LET kinds == Templates[mnemonic].operands
    IN  /\ \A q, r \in DOMAIN kinds :
             kinds[q] = "varnum-wide" /\ kinds[r] = "varnum-wide" => q = r
        /\ Templates[mnemonic].opcode = Wide => kinds = <<>>

\* Programs have finitely many names.
ASSUME NamesAssumption == IsFiniteSet(Names)

\* The value of an expression in method i when it and its parts are ints, with
\* defines replaced by their expressions at most depth times.
ExactWithin(i) ==
  LET exact[p \in Exprs \X (0 .. Cardinality(Names))] ==
        LET e == p[1]
            depth == p[2]
        IN  CASE e.kind = "integer" -> {e.integer} \intersect Int32
              [] e.kind = "symbol" ->
                   IF depth = 0 THEN {}
                   ELSE UNION {exact[<<x, depth - 1>>] : x \in Define(i, e.symbol)}
              [] e.kind = "neg" /\ e.neg.kind = "integer" ->
                   {-e.neg.integer} \intersect Int32
              [] e.kind = "neg" /\ e.neg.kind # "integer" ->
                   {-v : v \in exact[<<e.neg, depth>>]} \intersect Int32
              [] e.kind = "plus" ->
                   {q[1] + q[2] : q \in exact[<<e.left, depth>>] \X exact[<<e.right, depth>>]}
                     \intersect Int32
              [] OTHER ->
                   {q[1] - q[2] : q \in exact[<<e.left, depth>>] \X exact[<<e.right, depth>>]}
                     \intersect Int32
  IN  exact

\* The value of e in method i when no define needs itself: there are not more
\* defines than names.
Exact(i) == [e \in Exprs |-> ExactWithin(i)[<<e, Cardinality(Names)>>]]

Places == UNION {{i} \X DOMAIN program[i].insns : i \in DOMAIN program}
GenericPlaces == {p \in Places : program[p[1]].insns[p[2]].kind = "generic"}
TemplateAt(p) == Templates[program[p[1]].insns[p[2]].mnemonic]
OperandsAt(p) == program[p[1]].insns[p[2]].operands

-----------------------------------------------------------------------------
(* Writing the image file and loading it (src/ijvm-util.c): numbers in      *)
(* hexadecimal, a constant as an unsigned one that is read back into an int *)
(* of the same width.                                                       *)

ImageWrite == [method_area |-> [i \in DOMAIN bytes |-> bytes[i] % ByteMod],
               cpool |-> [i \in DOMAIN cpool |-> cpool[i] % IntMod]]

\* Faulty: a word of the file is kept as it is.
ImageLoadUnsigned(file) == [method_area |-> file.method_area, cpool |-> file.cpool]

ImageLoad(file) ==
  [method_area |-> file.method_area,
   cpool |-> [i \in DOMAIN file.cpool |-> ToInt(file.cpool[i])]]
LoadedImage == ImageLoad(ImageWrite)

(* Reading the method area, as ijvm.c does. *)

ByteAt(a) == LoadedImage.method_area[a + 1]
HalfAt(a) == ByteAt(a) * ByteMod + ByteAt(a + 1)
Signed(v, mod) == IF v < mod \div 2 THEN v ELSE v - mod

Start(p) == insns[p[1]][p[2]].pc
Prefix(p) == IF ByteAt(Start(p)) = Wide THEN 1 ELSE 0

\* Bytes of the k-th operand of the instruction at p, and where it is.
SizeAt(p, j) ==
  CASE TemplateAt(p).operands[j] \in {"byte", "varnum"} -> 1
    [] TemplateAt(p).operands[j] = "varnum-wide" -> 1 + Prefix(p)
    [] OTHER -> 2
OperandStart(p, j) ==
  LET start[i \in 1 .. j] ==
        IF i = 1 THEN Start(p) + Prefix(p) + 1 ELSE start[i - 1] + SizeAt(p, i - 1)
  IN  start[j]

Read(p, j) ==
  LET at == OperandStart(p, j)
      raw == IF SizeAt(p, j) = 1 THEN ByteAt(at) ELSE HalfAt(at)
  IN  CASE TemplateAt(p).operands[j] = "byte" -> Signed(raw, ByteMod)
        [] TemplateAt(p).operands[j] = "label" -> Start(p) + Signed(raw, HalfMod)
        [] TemplateAt(p).operands[j] = "constant" -> LoadedImage.cpool[raw + 1]
        [] OTHER -> raw

-----------------------------------------------------------------------------
TypeOK ==
  /\ pass \in {"check", "emit", "done", "aborted", "crashed"}
  /\ m \in 1 .. Len(program) /\ n \in 0 .. Len(program[m].insns) /\ k \in Nat
  /\ pc \in Nat
  /\ insn.wide \in BOOLEAN /\ insn.sizes \in Seq(Nat)
  /\ methods \in Seq([address : Nat, index : Nat])
  /\ cpool \in Seq(Int)
  /\ bytes \in Seq(0 .. ByteMod - 1)

\* The two passes agree: every method, instruction and operand is emitted at the
\* address that the first pass gave it, whatever has the prefix `wide' before
\* it, and the method area ends where the first pass ended.
PassesAgree ==
  /\ pass = "emit" /\ n = 0 => Len(bytes) = methods[m].address
  /\ pass = "emit" /\ n > 0 =>
       LET known == insns[m][n]
       IN  Len(bytes) = known.pc + (IF k = 0 THEN 0
                                    ELSE 1 + (IF known.wide THEN 1 ELSE 0)
                                           + known.sizes[k])
  /\ pass = "done" => Len(bytes) = pc

\* The expressions in method i that are evaluated: operands, .args and .locals.
OperandsIn(i) ==
  UNION {{OperandsAt(p)[j] : j \in DOMAIN OperandsAt(p)} : p \in {p \in GenericPlaces : p[1] = i}}
Evaluated(i) == OperandsIn(i) \union Directive(i, "args") \union Directive(i, "locals")

\* The machinery of jasm_expr_eval gives an expression its exact value: a literal
\* cut down to an unsigned int, sums and differences that wrap around and are
\* tested by their signs, defines that are met while they are being evaluated.
EvalIsExact ==
  pass \in {"done", "aborted", "crashed"} /\ ~TooLong(program) =>
    \A i \in DOMAIN program : \A e \in Evaluated(i) :
      Eval(i)[e] = Exact(i)[e] /\ \A v, w \in Eval(i)[e] : v = w

\* A simulator that gets to an instruction finds its opcode, and operands with
\* the values of their expressions: signed bytes, numbers of variables in one
\* byte or two, and constants through the pool they share with addresses.
OperandsSurvive ==
  pass = "done" /\ Len(cpool) <= HalfMod =>
    \A p \in GenericPlaces :
      /\ ByteAt(Start(p) + Prefix(p)) = TemplateAt(p).opcode
      /\ \A j \in DOMAIN TemplateAt(p).operands :
           TemplateAt(p).operands[j] \notin {"label", "method"} =>
             {Read(p, j)} = Exact(p[1])[OperandsAt(p)[j]]

\* A branch goes from the address of its opcode to what stands behind the first
\* label of the name in the method, when the distance has 16 bits.
BranchesLand ==
  pass = "done" =>
    \A p \in GenericPlaces : \A j \in DOMAIN TemplateAt(p).operands :
      TemplateAt(p).operands[j] = "label" =>
        \E q \in Places :
          /\ q[1] = p[1] /\ program[q[1]].insns[q[2]] =
                              [kind |-> "label", label |-> OperandsAt(p)[j].symbol]
          /\ \A l \in 1 .. q[2] - 1 : program[q[1]].insns[l] # program[q[1]].insns[q[2]]
          /\ Start(q) - Start(p) \in -(HalfMod \div 2) .. (HalfMod \div 2 - 1)
               => Read(p, j) = Start(q)

\* invokevirtual gets to the built-in method of the name, or through the constant
\* pool to the first method of the name, whose header is at that address: also
\* when constants have the value of the address.  The main index of the image
\* leads to main.  Promised as long as the pool leaves the upper half of
\* the indices to the built-in methods, and addresses are ints.
HeaderAt(a, i) ==
  LET value(kind, default) ==
        IF Directive(i, kind) = {} THEN {default}
        ELSE UNION {Exact(i)[e] : e \in Directive(i, kind)}
  IN  /\ {HalfAt(a)} = {v % HalfMod : v \in value("args", 1)}
      /\ {HalfAt(a + 2)} = {v % HalfMod : v \in value("locals", 0)}

Reaches(index, name) ==
  \E i \in DOMAIN program :
    /\ program[i].name = name /\ \A i2 \in 1 .. i - 1 : program[i2].name # name
    /\ LoadedImage.cpool[index + 1] = methods[i].address
    /\ HeaderAt(methods[i].address, i)

CallsReach ==
  pass = "done" /\ Len(cpool) <= BuiltinBase /\ Len(bytes) <= IntMod \div 2 =>
    /\ \E index \in MainIndex : Reaches(index, Main)
    /\ \A p \in GenericPlaces : \A j \in DOMAIN TemplateAt(p).operands :
      TemplateAt(p).operands[j] = "method" =>
        LET name == OperandsAt(p)[j].symbol
        IN  \/ /\ Read(p, j) >= BuiltinBase
               /\ Builtins[Read(p, j) - BuiltinBase + 1] = name
            \/ /\ \A b \in DOMAIN Builtins : Builtins[b] # name
               /\ Reaches(Read(p, j), name)

\* The assembler refuses what it cannot assemble and nothing else: operands with
\* a value in the range of their kind and in the right number, labels
\* and methods that exist, directives with a value, a main, and no literal,
\* also where nothing evaluates it, that is too long.
OperandValid(i, e, kind) ==
  CASE kind = "byte" -> Exact(i)[e] \intersect SignedBytes # {}
    [] kind = "varnum" -> Exact(i)[e] \intersect VarNums # {}
    [] kind = "varnum-wide" -> Exact(i)[e] \intersect WideVarNums # {}
    [] kind = "constant" -> Exact(i)[e] # {}
    [] kind = "label" -> e.kind = "symbol" /\ \E l \in DOMAIN program[i].insns :
                           program[i].insns[l] = [kind |-> "label", label |-> e.symbol]
    [] kind = "method" ->
         /\ e.kind = "symbol"
         /\ \/ \E l \in DOMAIN program : program[l].name = e.symbol
            \/ \E b \in DOMAIN Builtins : Builtins[b] = e.symbol

Valid ==
  /\ ~TooLong(program)
  /\ \E i \in DOMAIN program : program[i].name = Main
  /\ \A i \in DOMAIN program : \A kind \in {"args", "locals"} :
       \A e \in Directive(i, kind) : Exact(i)[e] # {}
  /\ \A p \in GenericPlaces :
       /\ Len(OperandsAt(p)) = Len(TemplateAt(p).operands)
       /\ \A j \in DOMAIN OperandsAt(p) :
            OperandValid(p[1], OperandsAt(p)[j], TemplateAt(p).operands[j])

RefusesTheInvalid ==
  /\ pass = "done" => Valid
  /\ pass \in {"aborted", "crashed"} => ~Valid

\* "the constant we actually allow in the program are [-2^31 ; 2^31-1] ... and
\* anything above 2^31 is an overflow" (src/ijvm-emit.c, jasm_expr_eval): a
\* program with a literal above has no image.
NoLiteralAbove ==
  pass = "done" =>
    \A p \in GenericPlaces : \A j \in DOMAIN OperandsAt(p) :
      OperandsAt(p)[j].kind = "integer" => OperandsAt(p)[j].integer <= IntMod \div 2
=============================================================================
