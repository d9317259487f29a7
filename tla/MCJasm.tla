------------------------------- MODULE MCJasm -------------------------------
(***************************************************************************)
(* The assembling of short programs with bytes of three bits: there are 8  *)
(* variables without `wide' and 64 with it, and ints go up to 2047.        *)
(***************************************************************************)
EXTENDS JasmImage

MCNames == {"main", "f", "putchar", "getchar", "g", "a", "b", "x", "y"}
MCTemplates ==
  [bipush |-> [opcode |-> 0, operands |-> <<"byte">>],
   goto |-> [opcode |-> 1, operands |-> <<"label">>],
   iinc |-> [opcode |-> 2, operands |-> <<"varnum", "byte">>],
   iload |-> [opcode |-> 3, operands |-> <<"varnum-wide">>],
   invokevirtual |-> [opcode |-> 4, operands |-> <<"method">>],
   ldc_w |-> [opcode |-> 5, operands |-> <<"constant">>],
   ireturn |-> [opcode |-> 6, operands |-> <<>>]]

MCBuiltins == <<"getchar", "putchar">>

Integer(v) == [kind |-> "integer", integer |-> v]
Symbol(s) == [kind |-> "symbol", symbol |-> s]
Plus(l, r) == [kind |-> "plus", left |-> l, right |-> r]
Minus(l, r) == [kind |-> "minus", left |-> l, right |-> r]
Neg(e) == [kind |-> "neg", neg |-> e]

a == Symbol("a")
b == Symbol("b")
MCExprs ==
  LET integers == {Integer(v) : v \in {0, 1, 2, 4, 7, 8, 63, 64, 2047, 2048, 2049, 4097, 16777216}}
      simple == integers \union {Symbol(s) : s \in MCNames}
  IN  simple \union {Neg(e) : e \in simple} \union {Neg(Neg(a))}
        \union {Plus(a, b), Plus(a, a), Plus(a, Integer(1)), Plus(a, Neg(Integer(16777216))),
                Minus(a, b), Minus(b, a), Minus(b, Integer(1)), Minus(a, Integer(64))}

Insn(mnemonic, operands) ==
  [kind |-> "generic", mnemonic |-> mnemonic, operands |-> operands]
LabelInsn(label) == [kind |-> "label", label |-> label]
Method(name, dirs, body) == [name |-> name, dirs |-> dirs, insns |-> body]
Def(symbol, expr) == [kind |-> "define", symbol |-> symbol, expr |-> expr]
Args(expr) == [kind |-> "args", expr |-> expr]
Locals(expr) == [kind |-> "locals", expr |-> expr]

\* Values at the edges of bytes and ints; chains and circles of defines; a
\* name defined twice and directives given twice.
DirectiveLists ==
  {<<>>,
   <<Def("a", Integer(4)), Def("b", Neg(Integer(4)))>>,
   <<Def("a", b), Def("b", Integer(7))>>,
   <<Def("a", Integer(8)), Def("b", Minus(a, b))>>,
   <<Def("a", b), Def("b", a)>>,
   <<Def("a", Integer(8)), Def("b", Minus(a, b)), Locals(b)>>,
   <<Def("a", Integer(63)), Def("a", Integer(1)), Def("b", Minus(a, Integer(64))),
     Args(a), Args(b), Locals(Integer(2047))>>,
   <<Args(a), Def("a", Neg(Integer(2048))), Def("b", Integer(1)), Locals(b)>>,
   <<Def("a", Integer(2047)), Def("b", Neg(Integer(2))), Args(Neg(a))>>}

\* Instructions that may assemble; with these the bodies are longer.
Sound ==
  {LabelInsn("x"), Insn("goto", <<Symbol("x")>>), Insn("iload", <<a>>),
   Insn("ldc_w", <<b>>), Insn("invokevirtual", <<Symbol("f")>>)}

Menu == Sound \union
  {LabelInsn("y"), Insn("goto", <<Symbol("y")>>), Insn("goto", <<Integer(1)>>),
   Insn("bipush", <<a>>), Insn("bipush", <<Minus(a, b)>>),
   Insn("bipush", <<Minus(b, a)>>), Insn("bipush", <<Integer(4)>>),
   Insn("iload", <<Integer(8)>>), Insn("iload", <<Integer(64)>>),
   Insn("iload", <<Plus(a, Integer(1))>>),
   Insn("iinc", <<a, b>>), Insn("iinc", <<Integer(7), Neg(Integer(4))>>),
   Insn("iinc", <<a>>), Insn("ireturn", <<a>>), Insn("ireturn", <<>>),
   Insn("ldc_w", <<Plus(a, b)>>), Insn("ldc_w", <<Plus(a, a)>>),
   Insn("ldc_w", <<Minus(b, Integer(1))>>), Insn("ldc_w", <<Neg(Neg(a))>>),
   Insn("ldc_w", <<Neg(Integer(2048))>>), Insn("ldc_w", <<Integer(2048)>>),
   Insn("ldc_w", <<Neg(Integer(2049))>>),
   Insn("invokevirtual", <<Symbol("main")>>), Insn("invokevirtual", <<Symbol("g")>>),
   Insn("invokevirtual", <<Symbol("putchar")>>),
   Insn("invokevirtual", <<Neg(Symbol("f"))>>)}

Bodies ==
  {<<i>> : i \in Menu} \union {<<i, j>> : i \in Menu, j \in Menu}
    \union [1 .. 3 -> Sound]

\* A method f behind main or before it, of a few kinds; twice; or none.
FBody == <<Insn("iload", <<Integer(63)>>), LabelInsn("y"), Insn("ldc_w", <<Integer(7)>>),
           Insn("goto", <<Symbol("y")>>)>>
F == Method("f", <<>>, FBody)
ShortPrograms ==
  LET main(dirs, body) == Method("main", dirs, body)
  IN  {<<main(dirs, body), F>> : dirs \in DirectiveLists, body \in Bodies}
        \union {<<F, main(dirs, body)>> :
                  dirs \in DirectiveLists, body \in [1 .. 2 -> Sound]}
        \union {<<F, Method("f", <<Args(Integer(2))>>, <<Insn("ireturn", <<>>)>>),
                  Method("putchar", <<>>, <<Insn("ireturn", <<>>)>>), main(<<>>, <<i>>)>> :
                  i \in Menu}
        \union {<<Method(name, <<>>, <<i>>)>> : name \in {"main", "g"}, i \in Menu}

\* Branches over a dozen wide instructions, forwards and backwards: distances at
\* the edge of 16 bits and beyond.
Long(length) == [i \in 1 .. length |-> Insn("goto", <<Symbol("x")>>)]
BranchPrograms ==
  {<<Method("main", <<>>, Long(before) \o <<LabelInsn("x")>> \o Long(after))>> :
     before \in {0, 9, 10, 11}, after \in {0, 9, 10, 11, 12}}

\* The least literal that is too long, evaluated or not, alone or in a sum.
TooLongPrograms ==
  {<<Method("main", dirs, <<i>>)>> :
     dirs \in {<<>>, <<Def("a", Integer(16777216))>>, <<Args(Integer(16777216))>>,
               <<Def("b", Integer(1)), Def("b", Neg(Integer(16777216)))>>},
     i \in {Insn("ireturn", <<>>), Insn("bipush", <<Integer(16777216)>>),
            Insn("ldc_w", <<Plus(a, Neg(Integer(16777216)))>>)}}

AllPrograms == ShortPrograms \union BranchPrograms \union TooLongPrograms

\* A literal that is small again when it is cut down to an unsigned int.
LiteralPrograms ==
  {<<Method("main", <<>>, <<Insn("bipush", <<Integer(v)>>), Insn("ireturn", <<>>)>>)>> :
     v \in {1, 2048, 2049, 4097}}
=============================================================================
