---------------------------- MODULE JasmEmitProofs ----------------------------
(***************************************************************************)
(* The two passes of the assembler agree on every address, for every       *)
(* program, every table of instructions and every size of a byte.          *)
(***************************************************************************)
EXTENDS JasmImage, SequenceTheorems, TLAPS

-----------------------------------------------------------------------------
(* The inductive invariant. *)

Item(i, j) == program[i].insns[j]
OperandKinds(i, j) == Templates[Item(i, j).mnemonic].operands

\* What the second pass emits for an operand.
SizeOf(kind, value) ==
  IF kind \in {"byte", "varnum"} \/ (kind = "varnum-wide" /\ ~NeedsWide(value))
  THEN 1 ELSE 2

Values == Int \union Names
Knowledge == [wide : BOOLEAN, sizes : Seq(Nat), values : Seq(Values)]
Records == [pc : Nat, wide : BOOLEAN, sizes : Seq(Nat), values : Seq(Values)]

\* Every variable has its type, here with what the passes keep about instructions.
Typed ==
  /\ TypeOK
  /\ program \in Programs
  /\ insn \in Knowledge
  /\ insns \in Seq(Seq(Records))

\* The first count operands of an instruction have been checked, and `sizes' adds
\* up what they take.
Known(i, j, known, count) ==
  /\ Len(known.values) = count /\ Len(known.sizes) = count + 1
  /\ known.sizes[1] = 0
  /\ Item(i, j).kind = "label" => count = 0
  /\ Item(i, j).kind = "generic" =>
       /\ count <= Len(OperandKinds(i, j))
       /\ \A q \in 1 .. count :
            /\ known.sizes[q + 1] =
                 known.sizes[q] + SizeOf(OperandKinds(i, j)[q], known.values[q])
            /\ OperandKinds(i, j)[q] \notin {"label", "method"} => known.values[q] \in Int

Count(i, j) == IF Item(i, j).kind = "label" THEN 0 ELSE Len(OperandKinds(i, j))

\* The address behind an instruction that has been checked.
Behind(i, j) ==
  insns[i][j].pc +
    (IF Item(i, j).kind = "label" THEN 0
     ELSE 1 + (IF insns[i][j].wide THEN 1 ELSE 0) + insns[i][j].sizes[Count(i, j) + 1])

LastOf(i) == Len(program[i].insns)

\* The instructions that have been checked follow each other without a gap, from
\* method to method.
Linked ==
  /\ Len(methods) = Len(insns) /\ Len(insns) <= Len(program)
  /\ insns # <<>> => methods[1].address = 0
  /\ \A i \in 1 .. Len(insns) :
       /\ Len(insns[i]) <= LastOf(i)
       /\ insns[i] # <<>> => insns[i][1].pc = methods[i].address + HeaderSize
       /\ \A j \in 1 .. Len(insns[i]) : Known(i, j, insns[i][j], Count(i, j))
       /\ \A j \in 1 .. Len(insns[i]) - 1 : insns[i][j + 1].pc = Behind(i, j)
       /\ i < Len(insns) => /\ Len(insns[i]) = LastOf(i)
                            /\ methods[i + 1].address = Behind(i, LastOf(i))

\* Where the first pass is: pc is behind everything that has been checked.
Checking ==
  pass = "check" =>
    /\ bytes = <<>>
    /\ k = 0 => insn = Fresh
    /\ n = 0 => /\ Len(insns) = m - 1 /\ k = 0
                /\ m = 1 => pc = 0
                /\ m > 1 => /\ Len(insns[m - 1]) = LastOf(m - 1)
                            /\ pc = Behind(m - 1, LastOf(m - 1))
    /\ n > 0 => /\ Len(insns) = m /\ Len(insns[m]) = n - 1
                /\ n = 1 => pc = methods[m].address + HeaderSize
                /\ n > 1 => pc = Behind(m, n - 1)
                /\ Known(m, n, insn, k)

\* In the second pass all has been checked.
Emitting ==
  pass \in {"emit", "done"} =>
    /\ Len(insns) = Len(program)
    /\ Len(insns[Len(program)]) = LastOf(Len(program))
    /\ pc = Behind(Len(program), LastOf(Len(program)))
    /\ n = 0 => k = 0
    /\ n > 0 /\ k > 0 => Item(m, n).kind = "generic" /\ k <= Count(m, n) + 1

AssemblyInv == Typed /\ Linked /\ Checking /\ Emitting /\ PassesAgree

-----------------------------------------------------------------------------
(* Types of the parts. *)

\* The lists of a method of the program have their types, and are not empty.
LEMMA ProgramType ==
  ASSUME program \in Programs
  PROVE  /\ Len(program) \in Nat \ {0}
         /\ \A i \in 1 .. Len(program) :
              /\ program[i].dirs \in Seq(Directives)
              /\ program[i].insns \in Seq(Insns)
              /\ LastOf(i) \in Nat \ {0}
              /\ \A j \in 1 .. LastOf(i) : Item(i, j) \in Insns
<1>1. /\ DOMAIN program = 1 .. Len(program) /\ Len(program) \in Nat \ {0}
      /\ \A i \in DOMAIN program : /\ program[i].dirs \in Seq(Directives)
                                  /\ program[i].insns \in Seq(Insns) \ {<<>>}
  BY ProgramsAssumption
<1>2. ASSUME NEW seq \in Seq(Insns), seq # <<>>
      PROVE  /\ Len(seq) \in Nat \ {0}
             /\ \A j \in 1 .. Len(seq) : seq[j] \in Insns
  BY <1>2
<1>3. ASSUME NEW i \in 1 .. Len(program)
      PROVE  /\ LastOf(i) \in Nat \ {0}
             /\ \A j \in 1 .. LastOf(i) : Item(i, j) \in Insns
  BY <1>1, <1>2 DEF LastOf, Item
<1> QED  BY <1>1, <1>3

\* An instruction of the program is a label or has its template in ijvm.spec.
LEMMA ItemType ==
  ASSUME program \in Programs,
         NEW i \in 1 .. Len(program), NEW j \in 1 .. LastOf(i)
  PROVE  /\ Item(i, j).kind \in {"label", "generic"}
         /\ Item(i, j).kind = "generic" =>
              /\ Item(i, j).mnemonic \in DOMAIN Templates
              /\ Item(i, j).operands \in Seq(Exprs)
              /\ Templates[Item(i, j).mnemonic].opcode \in 0 .. ByteMod - 1
              /\ OperandKinds(i, j) \in Seq(Kinds)
         /\ Count(i, j) \in Nat
<1>1. Item(i, j) \in Insns
  BY ProgramType
<1>2. CASE Item(i, j).kind = "label"
  BY <1>2 DEF Count
<1>3. CASE Item(i, j).kind # "label"
  <2>1. /\ Item(i, j).kind = "generic"
        /\ Item(i, j).mnemonic \in DOMAIN Templates
        /\ Item(i, j).operands \in Seq(Exprs)
    BY <1>1, <1>3 DEF Insns
  <2>2. /\ Templates[Item(i, j).mnemonic].opcode \in 0 .. ByteMod - 1
        /\ OperandKinds(i, j) \in Seq(Kinds)
    BY <2>1, TemplatesAssumption DEF OperandKinds
  <2> QED  BY <1>3, <2>1, <2>2 DEF Count
<1> QED  BY <1>2, <1>3

\* The values of expressions are ints.
LEMMA EvalType ==
  ASSUME NEW i, NEW e \in Exprs
  PROVE  Eval(i)[e] \subseteq Int
<1>1. Int32 \subseteq Int
  BY DEF Int32
<1> QED  BY <1>1 DEF Eval

\* Cut to a byte, an int is a byte.
LEMMA ByteType ==
  ASSUME NEW v \in Int
  PROVE  v % ByteMod \in 0 .. ByteMod - 1
BY ByteModAssumption

\* The lower half of an int is two bytes.
LEMMA Int16Type ==
  ASSUME NEW v \in Int
  PROVE  Int16(v) \in Seq(0 .. ByteMod - 1) /\ Len(Int16(v)) = 2
<1>1. v \div ByteMod \in Int
  BY ByteModAssumption
<1> QED  BY <1>1, ByteType DEF Int16

\* The constant pool stays a sequence of ints, and has indices.
LEMMA PoolType ==
  ASSUME cpool \in Seq(Int), NEW v \in Int
  PROVE  PoolWith(v) \in Seq(Int) /\ IndexOf(v) \in Nat
<1>1. PoolWith(v) \in Seq(Int)
  BY DEF PoolWith
<1>2. IndexOf(v) \in Nat
  <2>1. CASE \E i \in DOMAIN cpool : cpool[i] = v
    <3>1. (CHOOSE i \in DOMAIN cpool : cpool[i] = v) \in DOMAIN cpool
      BY <2>1
    <3> QED  BY <2>1, <3>1 DEF IndexOf
  <2>2. CASE ~ \E i \in DOMAIN cpool : cpool[i] = v
    BY <2>2 DEF IndexOf
  <2> QED  BY <2>1, <2>2
<1> QED  BY <1>1, <1>2

\* A label that is found is in the method.
LEMMA LabelType ==
  ASSUME program \in Programs, NEW i \in 1 .. Len(program), NEW name
  PROVE  Label(i, name) \subseteq 1 .. LastOf(i)
<1>1. DOMAIN program[i].insns = 1 .. LastOf(i)
  BY ProgramType DEF LastOf
<1> QED  BY <1>1 DEF Label, LabelsNamed, First

\* Indices of methods are ints.
LEMMA MethodIndexType ==
  ASSUME Typed, Len(methods) = Len(program), NEW name
  PROVE  MethodIndex(name) \subseteq Int
<1>1. DOMAIN program = 1 .. Len(program)
  BY ProgramsAssumption DEF Typed
<1>2. \A i \in MethodNamed(name) : methods[i].index \in Int
  <2>1. MethodNamed(name) \subseteq 1 .. Len(methods)
    BY <1>1 DEF MethodNamed, First
  <2>2. methods \in Seq([address : Nat, index : Nat])
    BY DEF Typed, TypeOK
  <2>3. ASSUME NEW i \in 1 .. Len(methods)
        PROVE  methods[i].index \in Nat
    <3>1. methods[i] \in [address : Nat, index : Nat]
      BY <2>2, ElementOfSeq
    <3> QED  BY <3>1
  <2> QED  BY <2>1, <2>3
<1>3. BuiltinBase \in Int /\ BuiltinNamed(name) \subseteq Int
  <2>1. BuiltinBase \in Int
    BY ByteModAssumption DEF BuiltinBase, HalfMod
  <2>2. DOMAIN Builtins \subseteq Int
    BY BuiltinsAssumption
  <2> QED  BY <2>1, <2>2 DEF BuiltinNamed
<1> QED  BY <1>2, <1>3 DEF MethodIndex

\* What stands in the header are ints.
LEMMA DirectiveValueType ==
  ASSUME Typed, NEW kind, NEW default \in Int
  PROVE  DirectiveValue(kind, default) \subseteq Int
<1>1. m \in 1 .. Len(program)
  BY DEF Typed, TypeOK
<1>2. program[m].dirs \in Seq(Directives)
  BY <1>1, ProgramType DEF Typed
<1>3. \A d \in DOMAIN program[m].dirs : program[m].dirs[d].expr \in Exprs
  BY <1>2 DEF Directives
<1>4. Directive(m, kind) \subseteq Exprs
  BY <1>3 DEF Directive, First
<1>5. \A e \in Directive(m, kind) : Eval(m)[e] \subseteq Int
  BY <1>4, EvalType
<1> QED  BY <1>5 DEF DirectiveValue

-----------------------------------------------------------------------------
(* The ways a step of either pass can go. *)

\* What is known of checked instructions depends on nothing else.
LEMMA LinkedStays ==
  ASSUME Linked, UNCHANGED <<program, insns, methods>>
  PROVE  /\ Linked'
         /\ \A i, j : Behind(i, j)' = Behind(i, j)
<1>1. \A i, j : Item(i, j)' = Item(i, j) /\ OperandKinds(i, j)' = OperandKinds(i, j)
  BY DEF Item, OperandKinds
<1>2. \A i, j : LastOf(i)' = LastOf(i) /\ Count(i, j)' = Count(i, j)
  BY <1>1 DEF LastOf, Count
<1>3. \A i, j : Behind(i, j)' = Behind(i, j)
  BY <1>1, <1>2 DEF Behind
<1>4. ASSUME NEW i, NEW j, NEW known, NEW count, Known(i, j, known, count)
      PROVE  Known(i, j, known, count)'
  BY <1>1, <1>4 DEF Known
<1>5. ASSUME NEW i \in 1 .. Len(insns), NEW j \in 1 .. Len(insns[i])
      PROVE  Known(i, j, insns[i][j], Count(i, j))'
  <2>1. Known(i, j, insns[i][j], Count(i, j))
    BY DEF Linked
  <2>2. insns'[i][j] = insns[i][j] /\ Count(i, j)' = Count(i, j)
    BY <1>2
  <2> QED  BY <1>1, <2>1, <2>2 DEF Known
<1>6. Linked'
  BY <1>2, <1>3, <1>5 DEF Linked
<1> QED  BY <1>3, <1>6

\* A step that changes nothing.
LEMMA StutterStep ==
  ASSUME AssemblyInv, UNCHANGED vars
  PROVE  AssemblyInv'
<1>1. UNCHANGED <<program, pass, m, n, k, pc, insn, insns, methods, cpool, bytes>>
  BY DEF vars
<1>2. Typed'
  BY <1>1 DEF AssemblyInv, Typed, TypeOK
<1>3. Linked' /\ \A i, j : Behind(i, j)' = Behind(i, j)
  BY <1>1, LinkedStays DEF AssemblyInv
<1>4. Known(m, n, insn, k) => Known(m, n, insn, k)'
  BY <1>1 DEF Known, Item, OperandKinds
<1>5. \A i, j : LastOf(i)' = LastOf(i) /\ Count(i, j)' = Count(i, j)
                /\ Item(i, j)' = Item(i, j)
  BY <1>1 DEF LastOf, Count, Item, OperandKinds
<1>6. Checking'
  BY <1>1, <1>3, <1>4, <1>5 DEF AssemblyInv, Checking
<1>7. Emitting'
  BY <1>1, <1>3, <1>5 DEF AssemblyInv, Emitting
<1>8. PassesAgree'
  BY <1>1 DEF AssemblyInv, PassesAgree
<1> QED  BY <1>2, <1>3, <1>6, <1>7, <1>8 DEF AssemblyInv

\* A step that ends the program with a message.
LEMMA AbortStep ==
  ASSUME AssemblyInv, pass' \in {"aborted", "crashed"},
         UNCHANGED <<program, m, n, k, pc, insn, insns, methods, cpool, bytes>>
  PROVE  AssemblyInv'
<1>1. Typed'
  BY DEF AssemblyInv, Typed, TypeOK, LastOf
<1>2. Linked'
  BY LinkedStays DEF AssemblyInv
<1>3. (Checking /\ Emitting /\ PassesAgree)'
  BY DEF Checking, Emitting, PassesAgree
<1> QED  BY <1>1, <1>2, <1>3 DEF AssemblyInv

\* A step that checks an operand, whatever its kind.
LEMMA TakeStep ==
  ASSUME AssemblyInv,
         pass = "check", n > 0, Item(m, n).kind = "generic",
         k < Len(OperandKinds(m, n)),
         NEW value \in Values, NEW size \in Nat, NEW wide \in BOOLEAN,
         size = SizeOf(OperandKinds(m, n)[k + 1], value),
         OperandKinds(m, n)[k + 1] \notin {"label", "method"} => value \in Int,
         Take(value, size, wide),
         cpool' \in Seq(Int)
  PROVE  AssemblyInv'
<1>1. /\ k \in Nat /\ n \in Nat /\ Known(m, n, insn, k)
      /\ insn.wide \in BOOLEAN /\ insn.sizes \in Seq(Nat) /\ insn.values \in Seq(Values)
  BY DEF AssemblyInv, Checking, Typed, TypeOK, Knowledge
<1>2. /\ Len(insn.values) = k /\ Len(insn.sizes) = k + 1 /\ insn.sizes[1] = 0
      /\ insn.sizes[k + 1] \in Nat
  BY <1>1 DEF Known
<1> DEFINE sizes == Append(insn.sizes, insn.sizes[k + 1] + size)
           values == Append(insn.values, value)
<1>3. /\ sizes \in Seq(Nat) /\ Len(sizes) = k + 2
      /\ \A q \in 1 .. k + 1 : sizes[q] = insn.sizes[q]
      /\ sizes[k + 2] = insn.sizes[k + 1] + size
  <2> DEFINE last == insn.sizes[k + 1] + size
  <2>1. last \in Nat
    BY <1>2
  <2> HIDE DEF last
  <2>2. /\ Append(insn.sizes, last) \in Seq(Nat)
        /\ Len(Append(insn.sizes, last)) = Len(insn.sizes) + 1
        /\ Append(insn.sizes, last)[Len(insn.sizes) + 1] = last
        /\ \A q \in 1 .. Len(insn.sizes) : Append(insn.sizes, last)[q] = insn.sizes[q]
    BY <1>1, <2>1, AppendProperties
  <2>3. k + 1 + 1 = k + 2 /\ sizes = Append(insn.sizes, last)
    BY <1>1 DEF last
  <2>4. last = insn.sizes[k + 1] + size
    BY DEF last
  <2> HIDE DEF sizes
  <2> QED  BY <1>2, <2>2, <2>3, <2>4
<1>4. /\ values \in Seq(Values) /\ Len(values) = k + 1
      /\ \A q \in 1 .. k : values[q] = insn.values[q]
      /\ values[k + 1] = value
  <2>1. insn.values \in Seq(Values) /\ value \in Values
    BY <1>1
  <2> HIDE DEF sizes
  <2> QED  BY <1>2, <2>1, AppendProperties
<1>5. /\ insn' = [wide |-> insn.wide \/ wide, sizes |-> sizes, values |-> values]
      /\ k' = k + 1
      /\ UNCHANGED <<program, pass, m, n, pc, insns, methods, bytes>>
  BY DEF Take
<1> HIDE DEF sizes, values
<1>6. Typed'
  <2>1. insn' \in Knowledge
    BY <1>1, <1>3, <1>4, <1>5 DEF Knowledge
  <2> QED  BY <1>1, <1>5, <2>1 DEF AssemblyInv, Typed, TypeOK, Knowledge
<1>7. Linked'
  BY <1>5, LinkedStays DEF AssemblyInv
<1>8. Known(m, n, insn, k)'
  <2>1. /\ insn'.values = values /\ insn'.sizes = sizes
        /\ Item(m, n)' = Item(m, n) /\ OperandKinds(m, n)' = OperandKinds(m, n)
    BY <1>5 DEF Item, OperandKinds
  <2>2. \A q \in 1 .. k + 1 :
          /\ sizes[q + 1] = sizes[q] + SizeOf(OperandKinds(m, n)[q], values[q])
          /\ OperandKinds(m, n)[q] \notin {"label", "method"} => values[q] \in Int
    <3>1. ASSUME NEW q \in 1 .. k
          PROVE  /\ sizes[q + 1] = sizes[q] + SizeOf(OperandKinds(m, n)[q], values[q])
                 /\ OperandKinds(m, n)[q] \notin {"label", "method"} => values[q] \in Int
      <4>1. /\ insn.sizes[q + 1] =
                 insn.sizes[q] + SizeOf(OperandKinds(m, n)[q], insn.values[q])
            /\ OperandKinds(m, n)[q] \notin {"label", "method"} => insn.values[q] \in Int
        BY <1>1 DEF Known
      <4>2. q \in 1 .. k + 1 /\ q + 1 \in 1 .. k + 1
        BY <1>1
      <4>3. sizes[q] = insn.sizes[q] /\ sizes[q + 1] = insn.sizes[q + 1]
        BY <1>3, <4>2
      <4> QED  BY <1>4, <4>1, <4>3
    <3>2. /\ sizes[k + 2] = sizes[k + 1] + SizeOf(OperandKinds(m, n)[k + 1], values[k + 1])
          /\ OperandKinds(m, n)[k + 1] \notin {"label", "method"} => values[k + 1] \in Int
      BY <1>1, <1>3, <1>4
    <3> SUFFICES ASSUME NEW q \in 1 .. k + 1
                 PROVE  /\ sizes[q + 1] =
                             sizes[q] + SizeOf(OperandKinds(m, n)[q], values[q])
                        /\ OperandKinds(m, n)[q] \notin {"label", "method"}
                             => values[q] \in Int
      OBVIOUS
    <3>3. CASE q \in 1 .. k
      BY <3>1, <3>3
    <3>4. CASE q = k + 1
      <4>1. q + 1 = k + 2
        BY <1>1, <3>4
      <4> QED  BY <3>2, <3>4, <4>1
    <3> QED  BY <1>1, <3>3, <3>4
  <2>3. k + 1 <= Len(OperandKinds(m, n))
    <3>1. m \in 1 .. Len(program) /\ n \in 1 .. LastOf(m) /\ program \in Programs
      BY <1>1 DEF AssemblyInv, Typed, TypeOK, LastOf
    <3>2. Len(OperandKinds(m, n)) \in Nat
      BY <3>1, ItemType
    <3> QED  BY <1>1, <3>2
  <2>4. sizes[1] = 0 /\ Len(values) = k + 1 /\ Len(sizes) = k + 1 + 1
    <3>1. 1 \in 1 .. k + 1 /\ k + 1 + 1 = k + 2
      BY <1>1
    <3> QED  BY <1>2, <1>3, <1>4, <3>1
  <2>5. k' = k + 1  BY <1>5
  <2> QED  BY <2>1, <2>2, <2>3, <2>4, <2>5 DEF Known
<1>9. Checking'
  <2>1. k' # 0 /\ n' # 0
    BY <1>1, <1>5
  <2>2. Behind(m, n - 1)' = Behind(m, n - 1)
    BY <1>5 DEF Behind, Item, Count, OperandKinds
  <2> QED  BY <1>5, <1>8, <2>1, <2>2 DEF AssemblyInv, Checking
<1>10. Emitting' /\ PassesAgree'
  BY <1>5 DEF Emitting, PassesAgree
<1> QED  BY <1>6, <1>7, <1>9, <1>10 DEF AssemblyInv

\* Nothing is known of an instruction at first.
LEMMA FreshKnown ==
  ASSUME program \in Programs,
         NEW i \in 1 .. Len(program), NEW j \in 1 .. LastOf(i)
  PROVE  Fresh \in Knowledge /\ Known(i, j, Fresh, 0)
<1>1. Fresh \in Knowledge
  BY DEF Fresh, Knowledge
<1>2. Item(i, j).kind = "generic" => Len(OperandKinds(i, j)) \in Nat
  BY ItemType
<1> QED  BY <1>1, <1>2 DEF Fresh, Known

\* Where the first pass is, when it is at an instruction.
LEMMA CheckingPlace ==
  ASSUME AssemblyInv, pass = "check", n > 0
  PROVE  /\ program \in Programs /\ Len(program) \in Nat
         /\ m \in 1 .. Len(program) /\ n \in 1 .. LastOf(m) /\ LastOf(m) \in Nat
         /\ pc \in Nat /\ k \in Nat /\ insn \in Knowledge /\ insns \in Seq(Seq(Records))
         /\ Len(insns) = m /\ Len(insns[m]) = n - 1 /\ insns[m] \in Seq(Records)
<1>1. /\ program \in Programs
      /\ m \in 1 .. Len(program) /\ n \in 0 .. LastOf(m)
      /\ pc \in Nat /\ k \in Nat /\ insn \in Knowledge /\ insns \in Seq(Seq(Records))
  BY DEF AssemblyInv, Typed, TypeOK, LastOf
<1>2. Len(program) \in Nat /\ LastOf(m) \in Nat
  BY <1>1, ProgramType
<1>3. Len(insns) = m /\ Len(insns[m]) = n - 1
  BY DEF AssemblyInv, Checking
<1>4. insns[m] \in Seq(Records)
  BY <1>1, <1>2, <1>3, ElementOfSeq
<1> QED  BY <1>1, <1>2, <1>3, <1>4

\* A checked instruction goes behind the others, and pc behind it.  M and N are the
\* place before the step, also in the state after it.
LEMMA CheckedLinked ==
  ASSUME AssemblyInv, pass = "check", n > 0, NEW M, NEW N, M = m, N = n,
         NEW known \in Knowledge, Known(m, n, known, Count(m, n)), Checked(known),
         pc' = pc + (IF Item(m, n).kind = "label" THEN 0
                     ELSE 1 + (IF known.wide THEN 1 ELSE 0) + known.sizes[Count(m, n) + 1]),
         UNCHANGED <<program, methods>>
  PROVE  /\ Linked' /\ insns' \in Seq(Seq(Records)) /\ pc' \in Nat
         /\ Len(insns') = M /\ Len(insns'[M]) = N
         /\ pc' = Behind(M, N)'
<1> DEFINE record == [pc |-> pc, wide |-> known.wide, sizes |-> known.sizes,
                      values |-> known.values]
           list == Append(insns[M], record)
<1>1. /\ program \in Programs /\ Len(program) \in Nat
      /\ M \in 1 .. Len(program) /\ N \in 1 .. LastOf(M) /\ LastOf(M) \in Nat
      /\ pc \in Nat /\ insns \in Seq(Seq(Records))
      /\ Len(insns) = M /\ Len(insns[M]) = N - 1 /\ insns[M] \in Seq(Records)
  BY CheckingPlace
<1>2. record \in Records
  BY <1>1 DEF Knowledge, Records
<1>3. /\ record.pc = pc /\ record.wide = known.wide
      /\ record.sizes = known.sizes /\ record.values = known.values
  OBVIOUS
<1>4. insns' = [insns EXCEPT ![M] = list]
  BY DEF Checked
<1> HIDE DEF record
<1>5. /\ list \in Seq(Records) /\ Len(list) = N
      /\ \A j \in 1 .. N - 1 : list[j] = insns[M][j]
      /\ list[N] = record
  BY <1>1, <1>2, AppendProperties
<1> HIDE DEF list
<1>6. /\ insns' \in Seq(Seq(Records)) /\ Len(insns') = M /\ insns'[M] = list
      /\ \A i \in 1 .. M - 1 : insns'[i] = insns[i]
  BY <1>1, <1>4, <1>5, ExceptSeq
<1>7. \A i, j : /\ Item(i, j)' = Item(i, j) /\ OperandKinds(i, j)' = OperandKinds(i, j)
                /\ LastOf(i)' = LastOf(i)
  BY DEF Item, OperandKinds, LastOf
<1>8. \A i, j : Count(i, j)' = Count(i, j)
  BY <1>7 DEF Count
<1>9. \A j : \A i \in 1 .. M : i < M \/ j \in 1 .. N - 1 =>
         /\ insns'[i][j] = insns[i][j]
         /\ Behind(i, j)' = Behind(i, j)
  <2> SUFFICES ASSUME NEW i \in 1 .. M, NEW j, i < M \/ j \in 1 .. N - 1
               PROVE  insns'[i][j] = insns[i][j] /\ Behind(i, j)' = Behind(i, j)
    OBVIOUS
  <2>1. insns'[i][j] = insns[i][j]
    <3>1. CASE i < M
      BY <1>1, <1>6, <3>1
    <3>2. CASE i = M
      BY <1>1, <1>5, <1>6, <3>2
    <3> QED  BY <1>1, <3>1, <3>2
  <2> QED  BY <1>7, <1>8, <2>1 DEF Behind
<1>10. \A j \in 1 .. N - 1 : insns'[M][j] = insns[M][j] /\ Behind(M, j)' = Behind(M, j)
  <2>1. M \in 1 .. M
    BY <1>1
  <2> QED  BY <1>9, <2>1
<1>11. Behind(M, N)' = pc'
  <2>1. insns'[M][N] = record
    BY <1>5, <1>6
  <2> QED  BY <1>1, <1>3, <1>7, <1>8, <2>1 DEF Behind
<1>12. pc' \in Nat
  <2>1. Item(M, N).kind # "label" => known.sizes[Count(M, N) + 1] \in Nat
    <3>1. Count(M, N) \in Nat /\ known.sizes \in Seq(Nat)
      <4>1. Count(M, N) \in Nat
        BY <1>1, ItemType
      <4>2. known.sizes \in Seq(Nat)
        BY DEF Knowledge
      <4> QED  BY <4>1, <4>2
    <3>2. Len(known.sizes) = Count(M, N) + 1
      BY DEF Known
    <3>3. Count(M, N) + 1 \in 1 .. Len(known.sizes)
      BY <3>1, <3>2
    <3> QED  BY <3>1, <3>3, ElementOfSeq
  <2>2. CASE Item(M, N).kind = "label"
    <3>1. pc' = pc + 0
      BY <2>2
    <3> QED  BY <1>1, <3>1
  <2>3. CASE Item(M, N).kind # "label"
    <3> DEFINE size == known.sizes[Count(M, N) + 1]
               prefix == IF known.wide THEN 1 ELSE 0
    <3>1. pc' = pc + (1 + prefix + size)
      BY <2>3
    <3>2. prefix \in Nat /\ size \in Nat
      BY <2>1, <2>3
    <3> HIDE DEF size, prefix
    <3> QED  BY <1>1, <3>1, <3>2
  <2> QED  BY <2>2, <2>3
<1>13. ASSUME NEW i \in 1 .. M, NEW j \in 1 .. Len(insns'[i])
       PROVE  Known(i, j, insns[i][j], Count(i, j))'
  <2>1. CASE i = M /\ j = N
    <3>1. insns'[M][N] = record
      BY <1>5, <1>6
    <3> QED  BY <1>3, <1>7, <1>8, <2>1, <3>1 DEF Known
  <2>2. CASE i < M \/ j \in 1 .. N - 1
    <3>1. j \in 1 .. Len(insns[i]) /\ i \in 1 .. Len(insns)
      <4>1. CASE i < M
        BY <1>1, <1>6, <4>1
      <4>2. CASE i = M
        BY <1>1, <1>5, <1>6, <2>2, <4>2
      <4> QED  BY <1>1, <4>1, <4>2
    <3>2. Known(i, j, insns[i][j], Count(i, j))
      BY <3>1 DEF AssemblyInv, Linked
    <3>3. insns'[i][j] = insns[i][j]
      BY <1>9, <2>2
    <3> QED  BY <1>7, <1>8, <3>2, <3>3 DEF Known
  <2> QED  BY <1>1, <1>5, <1>6, <2>1, <2>2
<1>14. ASSUME NEW i \in 1 .. M
       PROVE  /\ Len(insns'[i]) <= LastOf(i)
              /\ insns'[i] # <<>> => insns'[i][1].pc = methods[i].address + HeaderSize
              /\ \A j \in 1 .. Len(insns'[i]) - 1 : insns'[i][j + 1].pc = Behind(i, j)'
              /\ i < M => /\ Len(insns'[i]) = LastOf(i)
                          /\ methods[i + 1].address = Behind(i, LastOf(i))'
  <2>1. /\ Len(insns[i]) <= LastOf(i)
        /\ insns[i] # <<>> => insns[i][1].pc = methods[i].address + HeaderSize
        /\ \A j \in 1 .. Len(insns[i]) - 1 : insns[i][j + 1].pc = Behind(i, j)
        /\ i < M => /\ Len(insns[i]) = LastOf(i)
                    /\ methods[i + 1].address = Behind(i, LastOf(i))
    <3>1. i \in 1 .. Len(insns)
      BY <1>1
    <3> QED  BY <1>1, <3>1 DEF AssemblyInv, Linked
  <2>2. CASE i < M
    <3>1. insns'[i] = insns[i]
      BY <1>1, <1>6, <2>2
    <3>2. \A j : Behind(i, j)' = Behind(i, j)
      BY <1>9, <2>2
    <3>3. LastOf(i)' = LastOf(i)
      BY <1>7
    <3> QED  BY <2>1, <2>2, <3>1, <3>2, <3>3
  <2>3. CASE i = M
    <3>1. insns'[M][1].pc = methods[M].address + HeaderSize
      <4>1. CASE N = 1
        <5>1. pc = methods[M].address + HeaderSize
          BY <1>1, <4>1 DEF AssemblyInv, Checking
        <5> QED  BY <1>3, <1>5, <1>6, <4>1, <5>1
      <4>2. CASE N > 1
        <5>1. insns[M] # <<>> /\ insns'[M][1] = insns[M][1]
          <6>1. 1 \in 1 .. N - 1
            BY <1>1, <4>2
          <6>2. insns[M] # <<>>
            BY <1>1, <4>2
          <6> QED  BY <1>10, <6>1, <6>2
        <5> QED  BY <2>1, <2>3, <5>1
      <4> QED  BY <1>1, <4>1, <4>2
    <3>2. ASSUME NEW j \in 1 .. N - 1
          PROVE  insns'[M][j + 1].pc = Behind(M, j)'
      <4>1. Behind(M, j)' = Behind(M, j)
        BY <1>10
      <4>2. CASE j < N - 1
        <5>1. j \in 1 .. Len(insns[M]) - 1 /\ j + 1 \in 1 .. N - 1
          BY <1>1, <4>2
        <5>2. insns[M][j + 1].pc = Behind(M, j)
          BY <2>1, <2>3, <5>1
        <5>3. insns'[M][j + 1] = insns[M][j + 1]
          BY <1>10, <5>1
        <5> QED  BY <4>1, <5>2, <5>3
      <4>3. CASE j = N - 1
        <5>1. N > 1 /\ j + 1 = N
          BY <1>1, <4>3
        <5>2. pc = Behind(M, N - 1)
          BY <5>1 DEF AssemblyInv, Checking
        <5> QED  BY <1>3, <1>5, <1>6, <4>1, <4>3, <5>1, <5>2
      <4> QED  BY <1>1, <4>2, <4>3
    <3> QED  BY <1>1, <1>5, <1>6, <2>3, <3>1, <3>2
  <2> QED  BY <1>1, <2>2, <2>3
<1>15. Linked'
  <2>1. Len(methods') = Len(insns') /\ Len(insns') <= Len(program')
    BY <1>1, <1>6 DEF AssemblyInv, Linked
  <2>2. methods'[1].address = 0
    <3>1. insns # <<>>
      BY <1>1
    <3> QED  BY <3>1 DEF AssemblyInv, Linked
  <2> QED  BY <1>6, <1>7, <1>13, <1>14, <2>1, <2>2 DEF Linked
<1> QED  BY <1>5, <1>6, <1>11, <1>12, <1>15

\* A step that ends the check of an instruction, a label or a generic one.
LEMMA CheckedStep ==
  ASSUME AssemblyInv, pass = "check", n > 0,
         NEW known \in Knowledge, Known(m, n, known, Count(m, n)), Checked(known),
         pc' = pc + (IF Item(m, n).kind = "label" THEN 0
                     ELSE 1 + (IF known.wide THEN 1 ELSE 0) + known.sizes[Count(m, n) + 1]),
         insn' = Fresh, k' = 0, NextInsn("emit"),
         UNCHANGED <<program, methods, cpool, bytes>>
  PROVE  AssemblyInv'
<1>1. PICK M, N : M = m /\ N = n
  OBVIOUS
<1>2. /\ Linked' /\ insns' \in Seq(Seq(Records)) /\ pc' \in Nat
      /\ Len(insns') = M /\ Len(insns'[M]) = N
      /\ pc' = Behind(M, N)'
  BY <1>1, CheckedLinked
<1>3. /\ program \in Programs /\ Len(program) \in Nat
      /\ M \in 1 .. Len(program) /\ N \in 1 .. LastOf(M) /\ LastOf(M) \in Nat
  BY <1>1, CheckingPlace
<1>4. \A i, j : Item(i, j)' = Item(i, j) /\ OperandKinds(i, j)' = OperandKinds(i, j)
                /\ LastOf(i)' = LastOf(i)
  BY DEF Item, OperandKinds, LastOf
<1>5. /\ bytes = <<>> /\ methods \in Seq([address : Nat, index : Nat])
      /\ cpool \in Seq(Int) /\ Fresh \in Knowledge
  BY <1>3, FreshKnown DEF AssemblyInv, Checking, Typed, TypeOK
<1>6. ASSUME pass' \in {"check", "emit"},
             m' \in 1 .. Len(program), n' \in 0 .. LastOf(m')
      PROVE  Typed'
  <2>1. Fresh.wide \in BOOLEAN /\ Fresh.sizes \in Seq(Nat)
    BY <1>5 DEF Knowledge
  <2>2. bytes' \in Seq(0 .. ByteMod - 1)
    BY <1>5
  <2>3. TypeOK'
    BY <1>2, <1>5, <1>6, <2>1, <2>2 DEF TypeOK, LastOf
  <2> QED  BY <1>2, <1>3, <1>5, <2>3 DEF Typed
<1>7. CASE n < LastOf(m) /\ n' = n + 1 /\ UNCHANGED <<m, pass>>
  <2>1. /\ m' = M /\ n' = N + 1 /\ pass' = "check" /\ n' \in 1 .. LastOf(M)
    BY <1>1, <1>3, <1>7
  <2>2. Typed'
    BY <1>3, <1>6, <2>1
  <2>3. Known(M, N + 1, Fresh, 0)
    BY <1>3, <2>1, FreshKnown
  <2>4. Known(m, n, insn, k)'
    BY <1>4, <2>1, <2>3 DEF Known
  <2>5. Checking'
    BY <1>2, <1>3, <1>5, <2>1, <2>4 DEF Checking
  <2>6. Emitting' /\ PassesAgree'
    BY <2>1 DEF Emitting, PassesAgree
  <2> QED  BY <1>2, <2>2, <2>5, <2>6 DEF AssemblyInv
<1>8. CASE n = LastOf(m) /\ m < Len(program) /\ m' = m + 1 /\ n' = 0 /\ UNCHANGED pass
  <2>1. m' = M + 1 /\ n' = 0 /\ pass' = "check" /\ N = LastOf(M) /\ m' \in 1 .. Len(program)
    BY <1>1, <1>3, <1>8
  <2>2. Typed'
    <3>1. LastOf(m') \in Nat
      BY <1>3, <2>1, ProgramType
    <3> QED  BY <1>6, <2>1, <3>1
  <2>3. Checking'
    <3>1. m' - 1 = M /\ LastOf(M)' = N
      BY <1>3, <1>4, <2>1
    <3>2. /\ Len(insns'[m' - 1]) = LastOf(M)'
          /\ pc' = Behind(M, N)'
      BY <1>2, <3>1
    <3>3. m' > 1 => /\ Len(insns[m - 1])' = LastOf(m - 1)'
                    /\ pc' = Behind(m - 1, LastOf(m - 1))'
      BY <3>1, <3>2 DEF Behind, LastOf, Item, Count, OperandKinds
    <3> QED  BY <1>2, <1>3, <1>5, <2>1, <3>3 DEF Checking
  <2>4. Emitting' /\ PassesAgree'
    BY <2>1 DEF Emitting, PassesAgree
  <2> QED  BY <1>2, <2>2, <2>3, <2>4 DEF AssemblyInv
<1>9. CASE n = LastOf(m) /\ m = Len(program) /\ pass' = "emit" /\ m' = 1 /\ n' = 0
  <2>1. m' = 1 /\ n' = 0 /\ pass' = "emit" /\ N = LastOf(M) /\ M = Len(program)
    BY <1>1, <1>9
  <2>2. Typed'
    <3>1. 1 \in 1 .. Len(program)
      BY <1>3
    <3>2. LastOf(m') \in Nat
      BY <1>3, <2>1, <3>1, ProgramType
    <3> QED  BY <1>6, <2>1, <3>1, <3>2
  <2>3. Checking'
    BY <2>1 DEF Checking
  <2>4. Emitting'
    <3>1. Len(program') = M /\ LastOf(M)' = N
      BY <1>4, <2>1
    <3>2. pc' = Behind(Len(program), LastOf(Len(program)))'
      BY <1>2, <3>1 DEF Behind, LastOf, Item, Count, OperandKinds
    <3>3. Len(insns[Len(program)])' = LastOf(Len(program))'
      BY <1>2, <3>1 DEF LastOf
    <3> QED  BY <1>2, <2>1, <3>1, <3>2, <3>3 DEF Emitting
  <2>5. PassesAgree'
    <3>1. insns' # <<>>
      BY <1>2, <1>3
    <3>2. methods'[1].address = 0
      BY <1>2, <3>1 DEF Linked
    <3>3. Len(bytes') = 0
      BY <1>5
    <3> QED  BY <2>1, <3>2, <3>3 DEF PassesAgree
  <2> QED  BY <1>2, <2>2, <2>3, <2>4, <2>5 DEF AssemblyInv
<1> QED  BY <1>7, <1>8, <1>9 DEF NextInsn, LastOf

\* The address of a method is behind everything that has been checked.
LEMMA EnterMethodStep ==
  ASSUME AssemblyInv, EnterMethod
  PROVE  AssemblyInv'
<1> DEFINE entry == [address |-> pc, index |-> IndexOf(pc)]
<1>1. /\ pass = "check" /\ n = 0
      /\ methods' = Append(methods, entry)
      /\ cpool' = PoolWith(pc) /\ pc' = pc + HeaderSize
      /\ insns' = Append(insns, <<>>) /\ n' = 1
      /\ UNCHANGED <<program, pass, m, k, insn, bytes>>
  BY DEF EnterMethod
<1>2. PICK M : M = m
  OBVIOUS
<1>3. /\ program \in Programs /\ Len(program) \in Nat
      /\ M \in 1 .. Len(program) /\ LastOf(M) \in Nat \ {0}
      /\ pc \in Nat /\ insns \in Seq(Seq(Records)) /\ cpool \in Seq(Int)
      /\ methods \in Seq([address : Nat, index : Nat])
  <2>1. /\ program \in Programs /\ M \in 1 .. Len(program)
        /\ pc \in Nat /\ insns \in Seq(Seq(Records)) /\ cpool \in Seq(Int)
        /\ methods \in Seq([address : Nat, index : Nat])
    BY <1>2 DEF AssemblyInv, Typed, TypeOK
  <2> QED  BY <2>1, ProgramType
<1>4. /\ Len(insns) = M - 1 /\ Len(methods) = M - 1
      /\ k = 0 /\ insn = Fresh /\ bytes = <<>>
      /\ M = 1 => pc = 0
      /\ M > 1 => Len(insns[M - 1]) = LastOf(M - 1) /\ pc = Behind(M - 1, LastOf(M - 1))
  BY <1>1, <1>2 DEF AssemblyInv, Linked, Checking
<1>5. PoolWith(pc) \in Seq(Int) /\ entry \in [address : Nat, index : Nat] /\ entry.address = pc
  <2>1. PoolWith(pc) \in Seq(Int) /\ IndexOf(pc) \in Nat
    <3>1. cpool \in Seq(Int) /\ pc \in Int
      BY <1>3
    <3> QED  BY <3>1, PoolType
  <2> QED  BY <1>3, <2>1
<1> HIDE DEF entry
<1>6. /\ insns' \in Seq(Seq(Records)) /\ Len(insns') = M /\ insns'[M] = <<>>
      /\ \A i \in 1 .. M - 1 : insns'[i] = insns[i]
  <2>1. <<>> \in Seq(Records)
    OBVIOUS
  <2> QED  BY <1>1, <1>3, <1>4, <2>1, AppendProperties
<1>7. /\ methods' \in Seq([address : Nat, index : Nat]) /\ Len(methods') = M
      /\ methods'[M].address = pc
      /\ \A i \in 1 .. M - 1 : methods'[i] = methods[i]
  <2> DEFINE appended == Append(methods, entry)
  <2>1. /\ appended \in Seq([address : Nat, index : Nat]) /\ Len(appended) = Len(methods) + 1
        /\ appended[Len(methods) + 1] = entry
        /\ \A i \in 1 .. Len(methods) : appended[i] = methods[i]
    BY <1>3, <1>5, AppendProperties
  <2> HIDE DEF appended
  <2>2. methods' = appended /\ Len(methods) = M - 1 /\ Len(methods) + 1 = M
    BY <1>1, <1>3, <1>4 DEF appended
  <2> QED  BY <1>5, <2>1, <2>2
<1>8. \A i, j : /\ Item(i, j)' = Item(i, j) /\ OperandKinds(i, j)' = OperandKinds(i, j)
                /\ LastOf(i)' = LastOf(i)
  BY <1>1 DEF Item, OperandKinds, LastOf
<1>9. \A i, j : Count(i, j)' = Count(i, j)
  BY <1>8 DEF Count
<1>10. \A j : \A i \in 1 .. M - 1 : Behind(i, j)' = Behind(i, j)
  BY <1>6, <1>8, <1>9 DEF Behind
<1>11. Typed'
  <2>1. m' \in 1 .. Len(program) /\ n' \in 0 .. LastOf(M) /\ pc' \in Nat
    BY <1>1, <1>2, <1>3 DEF HeaderSize
  <2>2. TypeOK'
    BY <1>1, <1>2, <1>5, <1>7, <2>1 DEF AssemblyInv, Typed, TypeOK, LastOf
  <2> QED  BY <1>1, <1>6, <2>2 DEF AssemblyInv, Typed
<1>12. ASSUME NEW i \in 1 .. M
       PROVE  /\ Len(insns'[i]) <= LastOf(i)
              /\ insns'[i] # <<>> => insns'[i][1].pc = methods'[i].address + HeaderSize
              /\ \A j \in 1 .. Len(insns'[i]) : Known(i, j, insns[i][j], Count(i, j))'
              /\ \A j \in 1 .. Len(insns'[i]) - 1 : insns'[i][j + 1].pc = Behind(i, j)'
              /\ i < M => /\ Len(insns'[i]) = LastOf(i)
                          /\ methods'[i + 1].address = Behind(i, LastOf(i))'
  <2>1. CASE i = M
    BY <1>3, <1>6, <2>1
  <2>2. CASE i < M
    <3>1. i \in 1 .. Len(insns)
      BY <1>3, <1>4, <2>2
    <3>2. /\ Len(insns[i]) <= LastOf(i)
          /\ insns[i] # <<>> => insns[i][1].pc = methods[i].address + HeaderSize
          /\ \A j \in 1 .. Len(insns[i]) : Known(i, j, insns[i][j], Count(i, j))
          /\ \A j \in 1 .. Len(insns[i]) - 1 : insns[i][j + 1].pc = Behind(i, j)
          /\ i < Len(insns) => /\ Len(insns[i]) = LastOf(i)
                               /\ methods[i + 1].address = Behind(i, LastOf(i))
      BY <3>1 DEF AssemblyInv, Linked
    <3>3. insns'[i] = insns[i] /\ methods'[i] = methods[i]
      <4>1. i \in 1 .. M - 1
        BY <1>3, <2>2
      <4> QED  BY <1>6, <1>7, <4>1
    <3>4. \A j : Behind(i, j)' = Behind(i, j)
      BY <1>3, <1>10, <2>2
    <3>5. ASSUME NEW j \in 1 .. Len(insns'[i])
          PROVE  Known(i, j, insns[i][j], Count(i, j))'
      <4>1. Known(i, j, insns[i][j], Count(i, j))
        BY <3>2, <3>3
      <4> QED  BY <1>8, <1>9, <3>3, <4>1 DEF Known
    <3>6. Len(insns[i]) = LastOf(i) /\ methods'[i + 1].address = Behind(i, LastOf(i))
      <4>1. CASE i < M - 1
        <5>1. i + 1 \in 1 .. M - 1
          BY <1>3, <4>1
        <5> QED  BY <1>4, <1>7, <3>2, <4>1, <5>1
      <4>2. CASE i = M - 1
        <5>1. M > 1 /\ i + 1 = M
          BY <1>3, <4>2
        <5> QED  BY <1>4, <1>7, <4>2, <5>1
      <4> QED  BY <1>3, <2>2, <4>1, <4>2
    <3>7. LastOf(i)' = LastOf(i)
      BY <1>8
    <3> QED  BY <3>2, <3>3, <3>4, <3>5, <3>6, <3>7
  <2> QED  BY <1>3, <2>1, <2>2
<1>13. Linked'
  <2>1. Len(methods') = Len(insns') /\ Len(insns') <= Len(program')
    BY <1>1, <1>3, <1>6, <1>7
  <2>2. methods'[1].address = 0
    <3>1. CASE M = 1
      BY <1>4, <1>7, <3>1
    <3>2. CASE M > 1
      <4>1. insns # <<>> /\ 1 \in 1 .. M - 1
        BY <1>3, <1>4, <3>2
      <4> QED  BY <1>7, <4>1 DEF AssemblyInv, Linked
    <3> QED  BY <1>3, <3>1, <3>2
  <2> QED  BY <1>6, <1>8, <1>12, <2>1, <2>2 DEF Linked
<1>14. Checking'
  <2>1. Known(M, 1, Fresh, 0)
    BY <1>3, FreshKnown
  <2>2. Known(m, n, insn, k)'
    BY <1>1, <1>2, <1>4, <1>8, <2>1 DEF Known
  <2>3. pc' = methods'[m'].address + HeaderSize /\ Len(insns'[m']) = n' - 1 /\ m' = M
    BY <1>1, <1>2, <1>6, <1>7
  <2> QED  BY <1>1, <1>4, <1>6, <2>2, <2>3 DEF Checking
<1>15. Emitting' /\ PassesAgree'
  BY <1>1 DEF Emitting, PassesAgree
<1> QED  BY <1>11, <1>13, <1>14, <1>15 DEF AssemblyInv

\* In the second pass the addresses of all methods and instructions are known.
LEMMA EmittingPlace ==
  ASSUME AssemblyInv, pass = "emit"
  PROVE  /\ program \in Programs /\ Len(program) \in Nat
         /\ m \in 1 .. Len(program) /\ n \in 0 .. LastOf(m) /\ k \in Nat
         /\ bytes \in Seq(0 .. ByteMod - 1)
         /\ Len(insns) = Len(program) /\ Len(methods) = Len(program)
         /\ LastOf(m) \in Nat \ {0} /\ Len(insns[m]) = LastOf(m)
         /\ \A j \in 1 .. LastOf(m) : /\ insns[m][j] \in Records
                                      /\ Known(m, j, insns[m][j], Count(m, j))
<1>1. /\ program \in Programs
      /\ m \in 1 .. Len(program) /\ n \in 0 .. LastOf(m) /\ k \in Nat
      /\ insns \in Seq(Seq(Records)) /\ bytes \in Seq(0 .. ByteMod - 1)
  BY DEF AssemblyInv, Typed, TypeOK, LastOf
<1>2. Len(program) \in Nat /\ LastOf(m) \in Nat \ {0}
  BY <1>1, ProgramType
<1>3. /\ Len(insns) = Len(program) /\ Len(methods) = Len(program)
      /\ Len(insns[Len(program)]) = LastOf(Len(program))
  BY DEF AssemblyInv, Emitting, Linked
<1>4. Len(insns[m]) = LastOf(m)
  <2>1. CASE m = Len(program)
    BY <1>3, <2>1
  <2>2. CASE m < Len(program)
    BY <1>1, <1>2, <1>3, <2>2 DEF AssemblyInv, Linked
  <2> QED  BY <1>1, <1>2, <2>1, <2>2
<1>5. insns[m] \in Seq(Records)
  BY <1>1, <1>3, ElementOfSeq
<1>6. ASSUME NEW j \in 1 .. LastOf(m)
      PROVE  insns[m][j] \in Records /\ Known(m, j, insns[m][j], Count(m, j))
  <2>1. insns[m][j] \in Records
    BY <1>4, <1>5, ElementOfSeq
  <2>2. Known(m, j, insns[m][j], Count(m, j))
    BY <1>1, <1>3, <1>4 DEF AssemblyInv, Linked
  <2> QED  BY <2>1, <2>2
<1> QED  BY <1>1, <1>2, <1>3, <1>4, <1>6

\* A step that emits: what keeps its value keeps its place.
LEMMA EmittedStep ==
  ASSUME AssemblyInv, pass = "emit", n' \in 1 .. LastOf(m), k' \in Nat,
         k' > 0 => Item(m, n').kind = "generic" /\ k' <= Count(m, n') + 1,
         NEW what \in Seq(0 .. ByteMod - 1), bytes' = bytes \o what,
         Len(bytes') = insns[m][n'].pc +
           (IF k' = 0 THEN 0
            ELSE 1 + (IF insns[m][n'].wide THEN 1 ELSE 0) + insns[m][n'].sizes[k']),
         UNCHANGED <<program, pass, m, pc, insn, insns, methods, cpool>>
  PROVE  AssemblyInv'
<1>1. /\ bytes \in Seq(0 .. ByteMod - 1) /\ LastOf(m) \in Nat
  BY EmittingPlace
<1>2. bytes' \in Seq(0 .. ByteMod - 1)
  BY <1>1, ConcatProperties
<1>3. Typed'
  <2>1. n' \in 0 .. LastOf(m)
    BY <1>1
  <2> QED  BY <1>2, <2>1 DEF AssemblyInv, Typed, TypeOK, LastOf
<1>4. Linked' /\ \A i, j : Behind(i, j)' = Behind(i, j)
  BY LinkedStays DEF AssemblyInv
<1>5. \A i, j : /\ LastOf(i)' = LastOf(i) /\ Count(i, j)' = Count(i, j)
                /\ Item(i, j)' = Item(i, j)
  BY DEF LastOf, Count, Item, OperandKinds
<1>6. Checking'
  BY DEF Checking
<1>7. Emitting'
  <2>1. n' # 0
    BY <1>1
  <2>2. k' > 0 => Item(m, n)'.kind = "generic" /\ k' <= Count(m, n)' + 1
    BY DEF Count, Item, OperandKinds
  <2> QED  BY <1>4, <1>5, <2>1, <2>2 DEF AssemblyInv, Emitting
<1>8. PassesAgree'
  <2>1. n' # 0
    BY <1>1
  <2> QED  BY <2>1 DEF PassesAgree
<1> QED  BY <1>3, <1>4, <1>6, <1>7, <1>8 DEF AssemblyInv

\* The opcode, with its prefix, or an operand: as long as the first pass says.
LEMMA EmitStep ==
  ASSUME AssemblyInv, pass = "emit", n > 0, Item(m, n).kind = "generic",
         k <= Len(OperandKinds(m, n)),
         NEW what \in Seq(0 .. ByteMod - 1),
         Len(what) = IF k = 0 THEN 1 + (IF insns[m][n].wide THEN 1 ELSE 0)
                     ELSE SizeOf(OperandKinds(m, n)[k], insns[m][n].values[k]),
         Emit(what)
  PROVE  AssemblyInv'
<1>1. /\ n \in 1 .. LastOf(m) /\ k \in Nat /\ bytes \in Seq(0 .. ByteMod - 1)
      /\ insns[m][n] \in Records /\ Known(m, n, insns[m][n], Count(m, n))
      /\ program \in Programs /\ m \in 1 .. Len(program)
  <2>1. n \in 1 .. LastOf(m)
    BY EmittingPlace
  <2> QED  BY <2>1, EmittingPlace
<1>2. Count(m, n) = Len(OperandKinds(m, n)) /\ Count(m, n) \in Nat
  BY <1>1, ItemType DEF Count
<1>3. /\ bytes' = bytes \o what /\ k' = k + 1
      /\ UNCHANGED <<program, pass, m, n, pc, insn, insns, methods, cpool>>
  BY DEF Emit
<1>4. Len(bytes') = Len(bytes) + Len(what) /\ Len(bytes) \in Nat /\ Len(what) \in Nat
  <2>1. Len(bytes \o what) = Len(bytes) + Len(what)
    BY <1>1, ConcatProperties
  <2>2. Len(bytes) \in Nat /\ Len(what) \in Nat
    BY <1>1, LenProperties
  <2> QED  BY <1>3, <2>1, <2>2
<1> DEFINE known == insns[m][n]
           prefix == IF known.wide THEN 1 ELSE 0
<1>5. /\ known.pc \in Nat /\ prefix \in Nat
      /\ \A q \in 1 .. Count(m, n) + 1 : known.sizes[q] \in Nat
  <2>1. known.sizes \in Seq(Nat) /\ Len(known.sizes) = Count(m, n) + 1
    BY <1>1 DEF Records, Known
  <2> QED  BY <1>1, <1>2, <2>1, ElementOfSeq DEF Records
<1>6. /\ known.sizes[1] = 0
      /\ \A q \in 1 .. Count(m, n) :
           known.sizes[q + 1] =
             known.sizes[q] + SizeOf(OperandKinds(m, n)[q], known.values[q])
  BY <1>1 DEF Known
<1>7. Len(bytes) = known.pc + (IF k = 0 THEN 0 ELSE 1 + prefix + known.sizes[k])
  BY DEF AssemblyInv, PassesAgree
<1>8. Len(what) = IF k = 0 THEN 1 + prefix
                  ELSE SizeOf(OperandKinds(m, n)[k], known.values[k])
  OBVIOUS
<1> HIDE DEF known, prefix
<1>9. Len(bytes') = known.pc + (1 + prefix + known.sizes[k + 1])
  <2>1. CASE k = 0
    <3>1. Len(bytes') = known.pc + 0 + (1 + prefix) /\ known.sizes[k + 1] = 0
      BY <1>4, <1>6, <1>7, <1>8, <2>1
    <3> QED  BY <1>5, <3>1
  <2>2. CASE k > 0
    <3>1. k \in 1 .. Count(m, n)
      BY <1>1, <1>2, <2>2
    <3>2. /\ known.sizes[k] \in Nat
          /\ known.sizes[k + 1] =
               known.sizes[k] + SizeOf(OperandKinds(m, n)[k], known.values[k])
      BY <1>2, <1>5, <1>6, <3>1
    <3>3. Len(bytes') = known.pc + (1 + prefix + known.sizes[k]) + Len(what)
      BY <1>4, <1>7, <2>2
    <3>4. Len(what) = SizeOf(OperandKinds(m, n)[k], known.values[k])
      BY <1>8, <2>2
    <3>5. known.sizes[k + 1] = known.sizes[k] + Len(what)
      BY <3>2, <3>4
    <3>6. known.pc \in Nat /\ prefix \in Nat /\ Len(what) \in Nat
      BY <1>4, <1>5
    <3>7. known.pc + (1 + prefix + known.sizes[k]) + Len(what)
            = known.pc + (1 + prefix + (known.sizes[k] + Len(what)))
      BY <3>2, <3>6
    <3> QED  BY <3>3, <3>5, <3>7
  <2> QED  BY <1>1, <2>1, <2>2
<1>10. Len(bytes') = insns[m][n'].pc +
           (IF k' = 0 THEN 0
            ELSE 1 + (IF insns[m][n'].wide THEN 1 ELSE 0) + insns[m][n'].sizes[k'])
  BY <1>1, <1>3, <1>9 DEF known, prefix
<1>11. n' \in 1 .. LastOf(m) /\ k' \in Nat
  BY <1>1, <1>3
<1>12. Item(m, n').kind = "generic" /\ k' <= Count(m, n') + 1
  BY <1>1, <1>2, <1>3
<1> QED  BY <1>3, <1>10, <1>11, <1>12, EmittedStep

-----------------------------------------------------------------------------
(* The actions of the first pass. *)

\* An operand that is checked is an expression, and its value an int.
LEMMA OperandType ==
  ASSUME AssemblyInv, NEW kind, CheckingOperand(kind)
  PROVE  /\ pass = "check" /\ n > 0 /\ Item(m, n).kind = "generic"
         /\ k < Len(OperandKinds(m, n)) /\ OperandKinds(m, n)[k + 1] = kind
         /\ Operand \in Exprs /\ Eval(m)[Operand] \subseteq Int
         /\ cpool \in Seq(Int)
<1>1. /\ pass = "check" /\ n > 0 /\ Item(m, n).kind = "generic"
      /\ k < Len(OperandKinds(m, n)) /\ OperandKinds(m, n)[k + 1] = kind
      /\ k < Len(Item(m, n).operands)
  BY DEF CheckingOperand, Template, Kind, Here, Item, OperandKinds
<1>2. /\ program \in Programs /\ m \in 1 .. Len(program) /\ n \in 1 .. LastOf(m)
      /\ k \in Nat
  BY <1>1, CheckingPlace
<1>3. Item(m, n).operands \in Seq(Exprs)
  BY <1>1, <1>2, ItemType
<1>4. k + 1 \in 1 .. Len(Item(m, n).operands)
  BY <1>1, <1>2, <1>3, LenProperties
<1>5. Operand \in Exprs
  BY <1>3, <1>4, ElementOfSeq DEF Operand, Here, Item
<1>6. cpool \in Seq(Int)
  BY DEF AssemblyInv, Typed, TypeOK
<1> QED  BY <1>1, <1>5, <1>6, EvalType

\* An operand is checked, or refused, whatever its kind.
LEMMA OperandStep ==
  ASSUME AssemblyInv,
         CheckByte \/ CheckVarNum \/ CheckWideVarNum \/ CheckConstant \/ CheckName
  PROVE  AssemblyInv'
<1>1. CASE CheckByte
  <2>1. PICK value \in Eval(m)[Operand] \intersect SignedBytes :
          Take(value, 1, FALSE) /\ CheckingOperand("byte") /\ UNCHANGED cpool
    BY <1>1 DEF CheckByte
  <2>2. value \in Int /\ value \in Values /\ cpool' \in Seq(Int)
    BY <2>1, OperandType DEF Values
  <2> QED  BY <2>1, <2>2, OperandType, TakeStep DEF SizeOf
<1>2. CASE CheckVarNum
  <2>1. PICK value \in Eval(m)[Operand] \intersect VarNums :
          Take(value, 1, FALSE) /\ CheckingOperand("varnum") /\ UNCHANGED cpool
    BY <1>2 DEF CheckVarNum
  <2>2. value \in Int /\ value \in Values /\ cpool' \in Seq(Int)
    BY <2>1, OperandType DEF Values
  <2> QED  BY <2>1, <2>2, OperandType, TakeStep DEF SizeOf
<1>3. CASE CheckWideVarNum
  <2>1. PICK value \in Eval(m)[Operand] \intersect WideVarNums :
          /\ Take(value, IF NeedsWide(value) THEN 2 ELSE 1, NeedsWide(value))
          /\ CheckingOperand("varnum-wide") /\ UNCHANGED cpool
    BY <1>3 DEF CheckWideVarNum
  <2>2. value \in Int /\ value \in Values /\ cpool' \in Seq(Int)
    BY <2>1, OperandType DEF Values
  <2>3. /\ NeedsWide(value) \in BOOLEAN
        /\ (IF NeedsWide(value) THEN 2 ELSE 1) \in Nat
        /\ (IF NeedsWide(value) THEN 2 ELSE 1) = SizeOf("varnum-wide", value)
    BY DEF NeedsWide, SizeOf
  <2> QED  BY <2>1, <2>2, <2>3, OperandType, TakeStep
<1>4. CASE CheckConstant
  <2>1. PICK value \in Eval(m)[Operand] :
          /\ Take(IndexOf(value), 2, FALSE) /\ CheckingOperand("constant")
          /\ cpool' = PoolWith(value)
    BY <1>4 DEF CheckConstant
  <2>2. value \in Int /\ cpool \in Seq(Int)
    BY <2>1, OperandType
  <2>3. IndexOf(value) \in Int /\ IndexOf(value) \in Values /\ cpool' \in Seq(Int)
    BY <2>1, <2>2, PoolType DEF Values
  <2>4. 2 = SizeOf("constant", IndexOf(value))
    BY DEF SizeOf
  <2>5. /\ pass = "check" /\ n > 0 /\ Item(m, n).kind = "generic"
        /\ k < Len(OperandKinds(m, n)) /\ OperandKinds(m, n)[k + 1] = "constant"
    BY <2>1, OperandType
  <2> QED  BY <2>1, <2>3, <2>4, <2>5, TakeStep
<1>5. CASE CheckName
  <2>1. PICK kind \in {"label", "method"} : CheckingOperand(kind)
    BY <1>5 DEF CheckName
  <2>2. /\ Operand.kind = "symbol" /\ Take(Operand.symbol, 2, FALSE) /\ UNCHANGED cpool
    BY <1>5 DEF CheckName
  <2>3. Operand.symbol \in Values /\ cpool' \in Seq(Int)
    <3>1. Operand \in Exprs /\ cpool \in Seq(Int)
      BY <2>1, OperandType
    <3> QED  BY <2>2, <3>1, ExprsAssumption DEF Values
  <2> QED  BY <2>1, <2>2, <2>3, OperandType, TakeStep DEF SizeOf
<1> QED  BY <1>1, <1>2, <1>3, <1>4, <1>5

\* A label has no operands, so nothing is known of it.
LEMMA CheckLabelStep ==
  ASSUME AssemblyInv, CheckLabel
  PROVE  AssemblyInv'
<1>1. /\ pass = "check" /\ n > 0 /\ Item(m, n).kind = "label"
      /\ Checked(Fresh) /\ NextInsn("emit")
      /\ UNCHANGED <<program, k, pc, insn, methods, cpool, bytes>>
  BY DEF CheckLabel, Here, Item
<1>2. /\ program \in Programs /\ m \in 1 .. Len(program) /\ n \in 1 .. LastOf(m)
      /\ pc \in Nat
  BY <1>1, CheckingPlace
<1>3. k = 0 /\ insn = Fresh
  BY <1>1 DEF AssemblyInv, Checking, Known
<1>4. Fresh \in Knowledge /\ Known(m, n, Fresh, Count(m, n))
  BY <1>1, <1>2, FreshKnown DEF Count
<1>5. pc' = pc + (IF Item(m, n).kind = "label" THEN 0
                  ELSE 1 + (IF Fresh.wide THEN 1 ELSE 0) + Fresh.sizes[Count(m, n) + 1])
  BY <1>1, <1>2
<1>6. insn' = Fresh /\ k' = 0
  BY <1>1, <1>3
<1> QED  BY <1>1, <1>4, <1>5, <1>6, CheckedStep

\* All operands have been checked, and pc goes behind the last one.
LEMMA EndInsnStep ==
  ASSUME AssemblyInv, EndInsn
  PROVE  AssemblyInv'
<1>1. /\ pass = "check" /\ n > 0 /\ Item(m, n).kind = "generic"
      /\ k = Len(OperandKinds(m, n))
      /\ Checked(insn) /\ NextInsn("emit") /\ pc' = pc + InsnSize
      /\ insn' = Fresh /\ k' = 0
      /\ UNCHANGED <<program, methods, cpool, bytes>>
  BY DEF EndInsn, OperandsChecked, Template, Here, Item, OperandKinds
<1>2. k = Count(m, n)
  BY <1>1 DEF Count
<1>3. insn \in Knowledge /\ Known(m, n, insn, Count(m, n)) /\ k \in Nat
  BY <1>1, <1>2 DEF AssemblyInv, Typed, TypeOK, Checking
<1>4. insn.sizes[k + 1] \in Nat
  <2>1. insn.sizes \in Seq(Nat) /\ Len(insn.sizes) = k + 1
    BY <1>2, <1>3 DEF Knowledge, Known
  <2> QED  BY <1>3, <2>1, ElementOfSeq
<1>5. InsnSize = 1 + (IF insn.wide THEN 1 ELSE 0) + insn.sizes[Count(m, n) + 1]
  BY <1>2, <1>4 DEF InsnSize
<1> QED  BY <1>1, <1>3, <1>5, CheckedStep

-----------------------------------------------------------------------------
(* The actions of the second pass. *)

\* The header: the bytes before the first instruction of a method.
LEMMA EmitHeaderStep ==
  ASSUME AssemblyInv, EmitHeader
  PROVE  AssemblyInv'
<1>1. /\ pass = "emit" /\ n = 0 /\ n' = 1
      /\ UNCHANGED <<program, pass, m, k, pc, insn, insns, methods, cpool>>
  BY DEF EmitHeader
<1>2. PICK args \in DirectiveValue("args", 1), locals \in DirectiveValue("locals", 0) :
        bytes' = bytes \o Int16(args) \o Int16(locals)
  BY DEF EmitHeader
<1>3. args \in Int /\ locals \in Int
  BY DirectiveValueType DEF AssemblyInv
<1> DEFINE what == Int16(args) \o Int16(locals)
<1>4. /\ Int16(args) \in Seq(0 .. ByteMod - 1) /\ Len(Int16(args)) = 2
      /\ Int16(locals) \in Seq(0 .. ByteMod - 1) /\ Len(Int16(locals)) = 2
  BY <1>3, Int16Type
<1>5. what \in Seq(0 .. ByteMod - 1) /\ Len(what) = 4
  <2>1. what \in Seq(0 .. ByteMod - 1) /\ Len(what) = Len(Int16(args)) + Len(Int16(locals))
    BY <1>4, ConcatProperties
  <2> QED  BY <1>4, <2>1
<1>6. /\ bytes \in Seq(0 .. ByteMod - 1) /\ LastOf(m) \in Nat \ {0}
      /\ m \in 1 .. Len(program) /\ Len(insns) = Len(program)
      /\ Len(insns[m]) = LastOf(m)
  BY <1>1, EmittingPlace
<1>7. bytes' = bytes \o what
  <2>1. (bytes \o Int16(args)) \o Int16(locals) = bytes \o (Int16(args) \o Int16(locals))
    BY <1>4, <1>6, ConcatAssociative
  <2> QED  BY <1>2, <2>1
<1> HIDE DEF what
<1>8. Len(bytes') = methods[m].address + HeaderSize
  <2>1. Len(bytes) = methods[m].address
    BY <1>1 DEF AssemblyInv, PassesAgree
  <2>2. Len(bytes \o what) = Len(bytes) + Len(what)
    BY <1>5, <1>6, ConcatProperties
  <2> QED  BY <1>5, <1>7, <2>1, <2>2 DEF HeaderSize
<1>9. insns[m][1].pc = methods[m].address + HeaderSize
  <2>1. insns[m] # <<>>
    BY <1>6
  <2> QED  BY <1>6, <2>1 DEF AssemblyInv, Linked
<1>10. k = 0
  BY <1>1 DEF AssemblyInv, Emitting
<1>11. n' \in 1 .. LastOf(m) /\ k' \in Nat /\ ~(k' > 0)
  BY <1>1, <1>6, <1>10
<1>12. Len(bytes') = insns[m][n'].pc +
           (IF k' = 0 THEN 0
            ELSE 1 + (IF insns[m][n'].wide THEN 1 ELSE 0) + insns[m][n'].sizes[k'])
  <2>1. Len(bytes') = insns[m][n'].pc /\ k' = 0
    BY <1>1, <1>8, <1>9, <1>10
  <2>2. Len(bytes') \in Nat
    BY <1>5, <1>6, <1>7, ConcatProperties, LenProperties
  <2> QED  BY <2>1, <2>2
<1> QED  BY <1>1, <1>5, <1>7, <1>11, <1>12, EmittedStep

\* An operand that is emitted has been checked, and all but names are ints.
LEMMA ValueType ==
  ASSUME AssemblyInv, NEW kinds, EmittingOperand(kinds)
  PROVE  /\ pass = "emit" /\ n > 0 /\ Item(m, n).kind = "generic"
         /\ k <= Len(OperandKinds(m, n)) /\ k # 0
         /\ OperandKinds(m, n)[k] \in kinds
         /\ OperandKinds(m, n)[k] \notin {"label", "method"} => Value \in Int
<1>1. /\ pass = "emit" /\ n > 0 /\ Item(m, n).kind = "generic"
      /\ k \in 1 .. Len(OperandKinds(m, n))
      /\ OperandKinds(m, n)[k] \in kinds
  BY DEF EmittingOperand, Template, Here, Item, OperandKinds
<1>2. n \in 1 .. LastOf(m) /\ program \in Programs /\ m \in 1 .. Len(program)
  BY <1>1, EmittingPlace
<1>3. Known(m, n, insns[m][n], Count(m, n))
  BY <1>1, <1>2, EmittingPlace
<1>4. Count(m, n) = Len(OperandKinds(m, n)) /\ Count(m, n) \in Nat
  BY <1>1, <1>2, ItemType DEF Count
<1>5. OperandKinds(m, n)[k] \notin {"label", "method"} => Value \in Int
  BY <1>1, <1>3, <1>4 DEF Known, Value
<1> QED  BY <1>1, <1>4, <1>5

\* The opcode and its prefix.
LEMMA EmitOpcodeStep ==
  ASSUME AssemblyInv, EmitOpcode
  PROVE  AssemblyInv'
<1> DEFINE prefix == IF insns[m][n].wide THEN <<Wide>> ELSE <<>>
           opcode == <<Templates[Item(m, n).mnemonic].opcode>>
<1>1. /\ pass = "emit" /\ n > 0 /\ Item(m, n).kind = "generic" /\ k = 0
      /\ Emit(prefix \o opcode)
  BY DEF EmitOpcode, Here, Item, Template
<1>2. n \in 1 .. LastOf(m) /\ program \in Programs /\ m \in 1 .. Len(program)
  BY <1>1, EmittingPlace
<1>3. /\ Templates[Item(m, n).mnemonic].opcode \in 0 .. ByteMod - 1
      /\ Len(OperandKinds(m, n)) \in Nat
  BY <1>1, <1>2, ItemType
<1>4. /\ opcode \in Seq(0 .. ByteMod - 1) /\ Len(opcode) = 1
      /\ prefix \in Seq(0 .. ByteMod - 1)
      /\ Len(prefix) = IF insns[m][n].wide THEN 1 ELSE 0
  <2>1. opcode \in Seq(0 .. ByteMod - 1) /\ Len(opcode) = 1
    BY <1>3
  <2>2. CASE insns[m][n].wide
    <3>1. prefix = <<Wide>> /\ Wide \in 0 .. ByteMod - 1
      BY <2>2, TemplatesAssumption
    <3> QED  BY <2>1, <2>2, <3>1
  <2>3. CASE ~insns[m][n].wide
    <3>1. prefix = <<>>
      BY <2>3
    <3> QED  BY <2>1, <2>3, <3>1
  <2> QED  BY <2>2, <2>3
<1> HIDE DEF prefix, opcode
<1>5. prefix \o opcode \in Seq(0 .. ByteMod - 1)
      /\ Len(prefix \o opcode) = Len(prefix) + Len(opcode)
  BY <1>4, ConcatProperties
<1>6. Len(prefix \o opcode) = IF k = 0 THEN 1 + (IF insns[m][n].wide THEN 1 ELSE 0)
        ELSE SizeOf(OperandKinds(m, n)[k], insns[m][n].values[k])
  BY <1>1, <1>4, <1>5
<1>7. k <= Len(OperandKinds(m, n))
  BY <1>1, <1>3
<1> QED  BY <1>1, <1>5, <1>6, <1>7, EmitStep

\* The operands that have been evaluated.
LEMMA EmitValueStep ==
  ASSUME AssemblyInv, EmitByte \/ EmitWideVarNum \/ EmitConstant
  PROVE  AssemblyInv'
<1>1. CASE EmitByte
  <2>1. EmittingOperand({"byte", "varnum"}) /\ Emit(<<Value % ByteMod>>)
    BY <1>1 DEF EmitByte
  <2>2. Value \in Int
    BY <2>1, ValueType
  <2>3. <<Value % ByteMod>> \in Seq(0 .. ByteMod - 1) /\ Len(<<Value % ByteMod>>) = 1
    BY <2>2, ByteType
  <2>4. SizeOf(OperandKinds(m, n)[k], insns[m][n].values[k]) = 1 /\ k # 0
    BY <2>1, ValueType DEF SizeOf
  <2> QED  BY <2>1, <2>3, <2>4, ValueType, EmitStep
<1>2. CASE EmitWideVarNum
  <2> DEFINE what == IF NeedsWide(Value) THEN Int16(Value) ELSE <<Value % ByteMod>>
  <2>1. EmittingOperand({"varnum-wide"}) /\ Emit(what)
    BY <1>2 DEF EmitWideVarNum
  <2>2. Value \in Int /\ OperandKinds(m, n)[k] = "varnum-wide" /\ k # 0
    BY <2>1, ValueType
  <2>3. what \in Seq(0 .. ByteMod - 1) /\ Len(what) = IF NeedsWide(Value) THEN 2 ELSE 1
    <3>1. /\ Int16(Value) \in Seq(0 .. ByteMod - 1) /\ Len(Int16(Value)) = 2
          /\ Value % ByteMod \in 0 .. ByteMod - 1
      BY <2>2, ByteType, Int16Type
    <3>2. CASE NeedsWide(Value)
      BY <3>1, <3>2
    <3>3. CASE ~NeedsWide(Value)
      BY <3>1, <3>3
    <3> QED  BY <3>2, <3>3
  <2>4. SizeOf(OperandKinds(m, n)[k], insns[m][n].values[k]) =
          IF NeedsWide(Value) THEN 2 ELSE 1
    BY <2>2 DEF SizeOf, Value
  <2> HIDE DEF what
  <2> QED  BY <2>1, <2>2, <2>3, <2>4, ValueType, EmitStep
<1>3. CASE EmitConstant
  <2>1. EmittingOperand({"constant"}) /\ Emit(Int16(Value))
    BY <1>3 DEF EmitConstant
  <2>2. Value \in Int
    BY <2>1, ValueType
  <2>3. Int16(Value) \in Seq(0 .. ByteMod - 1) /\ Len(Int16(Value)) = 2
    BY <2>2, Int16Type
  <2>4. SizeOf(OperandKinds(m, n)[k], insns[m][n].values[k]) = 2 /\ k # 0
    BY <2>1, ValueType DEF SizeOf
  <2> QED  BY <2>1, <2>3, <2>4, ValueType, EmitStep
<1> QED  BY <1>1, <1>2, <1>3

\* The names that are looked up: a distance between addresses, an index.
LEMMA EmitNameStep ==
  ASSUME AssemblyInv, EmitLabel \/ EmitMethod
  PROVE  AssemblyInv'
<1>1. ASSUME NEW kind \in {"label", "method"}, EmittingOperand({kind}),
             NEW value \in Int, Emit(Int16(value))
      PROVE  AssemblyInv'
  <2>1. Int16(value) \in Seq(0 .. ByteMod - 1) /\ Len(Int16(value)) = 2
    BY Int16Type
  <2>2. SizeOf(OperandKinds(m, n)[k], insns[m][n].values[k]) = 2 /\ k # 0
    BY <1>1, ValueType DEF SizeOf
  <2> QED  BY <1>1, <2>1, <2>2, ValueType, EmitStep
<1>2. CASE EmitLabel
  <2>1. EmittingOperand({"label"})
    BY <1>2 DEF EmitLabel
  <2>2. PICK l \in Label(m, Value) : Emit(Int16(insns[m][l].pc - insns[m][n].pc))
    BY <1>2 DEF EmitLabel
  <2>3. pass = "emit" /\ n > 0
    BY <2>1, ValueType
  <2>4. l \in 1 .. LastOf(m) /\ n \in 1 .. LastOf(m)
    BY <2>3, EmittingPlace, LabelType
  <2>5. insns[m][l].pc \in Nat /\ insns[m][n].pc \in Nat
    BY <2>3, <2>4, EmittingPlace DEF Records
  <2>6. insns[m][l].pc - insns[m][n].pc \in Int
    BY <2>5
  <2> QED  BY <1>1, <2>1, <2>2, <2>6
<1>3. CASE EmitMethod
  <2>1. EmittingOperand({"method"})
    BY <1>3 DEF EmitMethod
  <2>2. PICK index \in MethodIndex(Value) : Emit(Int16(index))
    BY <1>3 DEF EmitMethod
  <2>3. Len(methods) = Len(program)
    BY <2>1, ValueType, EmittingPlace
  <2>4. index \in Int
    BY <2>3, MethodIndexType DEF AssemblyInv
  <2> QED  BY <1>1, <2>1, <2>2, <2>4
<1> QED  BY <1>2, <1>3

\* Behind an instruction stands the next one, the next method or the end.
LEMMA EmitNextStep ==
  ASSUME AssemblyInv, EmitNext
  PROVE  AssemblyInv'
<1>1. /\ pass = "emit" /\ n > 0 /\ k' = 0
      /\ Item(m, n).kind = "generic" => k = Len(OperandKinds(m, n)) + 1
      /\ UNCHANGED <<program, pc, insn, insns, methods, cpool, bytes>>
  BY DEF EmitNext, Here, Item, Template, OperandKinds
<1>2. PICK M, N : M = m /\ N = n
  OBVIOUS
<1>3. /\ program \in Programs /\ Len(program) \in Nat
      /\ M \in 1 .. Len(program) /\ N \in 1 .. LastOf(M) /\ LastOf(M) \in Nat
      /\ Len(insns) = Len(program) /\ Len(insns[M]) = LastOf(M)
  BY <1>1, <1>2, EmittingPlace
<1>4. Len(bytes) = Behind(M, N)
  <2>1. CASE Item(M, N).kind = "label"
    <3>1. k = 0
      BY <1>1, <1>2, <2>1, EmittingPlace DEF AssemblyInv, Emitting
    <3> QED  BY <1>1, <1>2, <2>1, <3>1 DEF AssemblyInv, PassesAgree, Behind
  <2>2. CASE Item(M, N).kind # "label"
    <3>1. Item(M, N).kind = "generic" /\ Count(M, N) \in Nat
      BY <1>3, <2>2, ItemType
    <3>2. k = Count(M, N) + 1 /\ k # 0
      BY <1>1, <1>2, <2>2, <3>1 DEF Count
    <3> QED  BY <1>1, <1>2, <2>2, <3>2 DEF AssemblyInv, PassesAgree, Behind
  <2> QED  BY <2>1, <2>2
<1>5. Linked' /\ \A i, j : Behind(i, j)' = Behind(i, j)
  BY <1>1, LinkedStays DEF AssemblyInv
<1>6. \A i : LastOf(i)' = LastOf(i)
  BY <1>1 DEF LastOf
<1>7. ASSUME pass' \in {"emit", "done", "aborted"},
             m' \in 1 .. Len(program), n' \in 0 .. LastOf(m')
      PROVE  Typed'
  BY <1>1, <1>7 DEF AssemblyInv, Typed, TypeOK, LastOf
<1>8. pass' \in {"emit", "done", "aborted"} => Checking' /\ Emitting'
  BY <1>1, <1>5, <1>6 DEF AssemblyInv, Checking, Emitting
<1>9. CASE n < LastOf(m) /\ n' = n + 1 /\ UNCHANGED <<m, pass>>
  <2>1. m' = M /\ n' = N + 1 /\ pass' = "emit" /\ n' \in 0 .. LastOf(M) /\ n' > 0
    BY <1>1, <1>2, <1>3, <1>9
  <2>2. insns[M][N + 1].pc = Behind(M, N)
    <3>1. M \in 1 .. Len(insns) /\ N \in 1 .. Len(insns[M]) - 1
      BY <1>2, <1>3, <1>9
    <3> QED  BY <3>1 DEF AssemblyInv, Linked
  <2>3. Behind(M, N) \in Nat
    <3>1. bytes \in Seq(0 .. ByteMod - 1)
      BY <1>1, EmittingPlace
    <3> QED  BY <1>4, <3>1
  <2>4. PassesAgree'
    BY <1>1, <1>4, <2>1, <2>2, <2>3 DEF PassesAgree
  <2> QED  BY <1>3, <1>5, <1>7, <1>8, <2>1, <2>4 DEF AssemblyInv
<1>10. CASE n = LastOf(m) /\ m < Len(program) /\ m' = m + 1 /\ n' = 0 /\ UNCHANGED pass
  <2>1. /\ m' = M + 1 /\ n' = 0 /\ pass' = "emit" /\ N = LastOf(M) /\ M < Len(program)
        /\ m' \in 1 .. Len(program)
    BY <1>1, <1>2, <1>3, <1>10
  <2>2. methods[M + 1].address = Behind(M, N)
    BY <1>3, <2>1 DEF AssemblyInv, Linked
  <2>3. PassesAgree'
    BY <1>1, <1>4, <2>1, <2>2 DEF PassesAgree
  <2>4. LastOf(m') \in Nat
    BY <1>3, <2>1, ProgramType
  <2> QED  BY <1>5, <1>7, <1>8, <2>1, <2>3, <2>4 DEF AssemblyInv
<1>11. CASE /\ n = LastOf(m) /\ m = Len(program) /\ pass' \in {"aborted", "done"}
            /\ m' = 1 /\ n' = 0
  <2>1. m' = 1 /\ n' = 0 /\ N = LastOf(M) /\ M = Len(program) /\ 1 \in 1 .. Len(program)
    BY <1>2, <1>3, <1>11
  <2>2. pc = Behind(M, N)
    BY <1>1, <2>1 DEF AssemblyInv, Emitting
  <2>3. PassesAgree'
    BY <1>1, <1>4, <1>11, <2>2 DEF PassesAgree
  <2>4. LastOf(m') \in Nat
    BY <1>3, <2>1, ProgramType
  <2> QED  BY <1>5, <1>7, <1>8, <1>11, <2>1, <2>3, <2>4 DEF AssemblyInv
<1>12. PICK ending \in {"aborted", "done"} : NextInsn(ending)
  BY DEF EmitNext
<1> QED  BY <1>9, <1>10, <1>11, <1>12 DEF NextInsn, LastOf

-----------------------------------------------------------------------------
(* The theorems. *)

\* Nothing has been checked or emitted at first.
LEMMA AssemblyInit == Init => AssemblyInv
<1> SUFFICES ASSUME Init PROVE AssemblyInv
  OBVIOUS
<1>1. Len(program) \in Nat \ {0} /\ LastOf(1) \in Nat
  <2>1. Len(program) \in Nat \ {0} /\ 1 \in 1 .. Len(program)
    BY ProgramsAssumption DEF Init
  <2> QED  BY <2>1, ProgramType DEF Init
<1>2. /\ program \in Programs
      /\ pass \in {"check", "aborted"} /\ m = 1 /\ n = 0 /\ k = 0
      /\ pc = 0 /\ insn = Fresh /\ insns = <<>> /\ methods = <<>>
      /\ cpool = <<>> /\ bytes = <<>>
  BY DEF Init
<1>3. Fresh \in Knowledge /\ Fresh.wide \in BOOLEAN /\ Fresh.sizes \in Seq(Nat)
  BY DEF Fresh, Knowledge
<1>4. TypeOK
  BY <1>1, <1>2, <1>3 DEF TypeOK, LastOf
<1>5. Typed
  BY <1>2, <1>3, <1>4 DEF Typed
<1>6. Linked /\ Checking /\ Emitting /\ PassesAgree
  BY <1>1, <1>2 DEF Linked, Checking, Emitting, PassesAgree
<1> QED  BY <1>5, <1>6 DEF AssemblyInv

\* Every step keeps the invariant.
LEMMA AssemblyNext == AssemblyInv /\ [Next]_vars => AssemblyInv'
<1> SUFFICES ASSUME AssemblyInv, [Next]_vars PROVE AssemblyInv'
  OBVIOUS
<1>1. CASE EnterMethod
  BY <1>1, EnterMethodStep
<1>2. CASE CheckLabel
  BY <1>2, CheckLabelStep
<1>3. CASE CheckByte \/ CheckVarNum \/ CheckWideVarNum \/ CheckConstant \/ CheckName
  BY <1>3, OperandStep
<1>4. CASE CheckOutOfRange \/ WrongNumberOfOperands \/ NoHeader \/ NameUndefined
  BY <1>4, AbortStep DEF CheckOutOfRange, WrongNumberOfOperands, NoHeader,
                         NameUndefined, Abort
<1>5. CASE CheckNoName
  BY <1>5, AbortStep DEF CheckNoName
<1>6. CASE EndInsn
  BY <1>6, EndInsnStep
<1>7. CASE EmitHeader
  BY <1>7, EmitHeaderStep
<1>8. CASE EmitOpcode
  BY <1>8, EmitOpcodeStep
<1>9. CASE EmitByte \/ EmitWideVarNum \/ EmitConstant
  BY <1>9, EmitValueStep
<1>10. CASE EmitLabel \/ EmitMethod
  BY <1>10, EmitNameStep
<1>11. CASE EmitNext
  BY <1>11, EmitNextStep
<1>12. CASE Finished \/ UNCHANGED vars
  BY <1>12, StutterStep DEF Finished
<1> QED  BY <1>1, <1>2, <1>3, <1>4, <1>5, <1>6, <1>7, <1>8, <1>9, <1>10, <1>11, <1>12
         DEF Next

\* The invariant holds in every state of every assembly.
THEOREM AssemblyAlways == Spec => []AssemblyInv
BY AssemblyInit, AssemblyNext, PTL DEF Spec

\* Whatever is assembled, every variable has its type: all that is emitted are
\* bytes, and no address or index is negative.
THEOREM TypesAlways == Spec => []TypeOK
<1>1. AssemblyInv => TypeOK
  BY DEF AssemblyInv, Typed
<1> QED  BY <1>1, AssemblyAlways, PTL

\* Whatever is assembled, the second pass emits every method, instruction and
\* operand at the address that the first pass gave it.
THEOREM PassesAgreeAlways == Spec => []PassesAgree
<1>1. AssemblyInv => PassesAgree
  BY DEF AssemblyInv
<1> QED  BY <1>1, AssemblyAlways, PTL
=============================================================================
