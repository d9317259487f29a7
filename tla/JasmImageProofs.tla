--------------------------- MODULE JasmImageProofs ---------------------------
(***************************************************************************)
(* Theorems about what the assembler promises, for every program, every    *)
(* table of instructions like src/ijvm.spec and every size of a byte: the  *)
(* image, read the way the simulators read it, is the program.             *)
(*                                                                         *)
(* The argument has three invariants.  AssemblyInv (JasmEmitProofs) says   *)
(* that the passes agree on addresses.  MeaningInv says that what the      *)
(* first pass keeps of an operand is what the operand means, and that the  *)
(* pool only grows.  EmittedInv says that every part the second pass is    *)
(* past is in the method area at the address that the first pass gave it.  *)
(* A reader of the finished image that counts bytes as simulators do then  *)
(* gets to these addresses, whatever has the prefix `wide'.                *)
(*                                                                         *)
(* What expressions are worth is a theorem of its own, EvalIsExact, about  *)
(* two recursive functions: by induction over the depth of defines and the *)
(* parts of expressions.                                                   *)
(***************************************************************************)
EXTENDS JasmEmitProofs, FiniteSetTheorems, WellFoundedInduction

-----------------------------------------------------------------------------
(* Numbers. *)

\* A set of natural numbers that is not empty has a least one.
LEMMA LeastNatural ==
  ASSUME NEW S \in SUBSET Nat, S # {}
  PROVE  \E x \in S : \A y \in S : x <= y
<1> DEFINE R == {ss \in Nat \X Nat : ss[1] < ss[2]}
<1>1. IsWellFoundedOn(R, Nat)
  BY NatLessThanWellFounded DEF OpToRel
<1> HIDE DEF R
<1>2. PICK x \in S : \A y \in S : ~(<<y, x>> \in R)
  BY <1>1, WFMin, Zenon
<1>3. \A y \in S : ~(y < x)
  BY <1>2 DEF R
<1> QED  BY <1>3

\* What is left of a number that is cut down is the only such number in range.
LEMMA RestIs ==
  ASSUME NEW b \in Nat, b > 0, NEW v \in Int, NEW q \in Int, NEW r \in 0 .. b - 1, v = b * q + r
  PROVE  v % b = r
<1>1. v % b \in 0 .. b - 1 /\ v = b * (v \div b) + (v % b) /\ v \div b \in Int
  OBVIOUS
<1>2. PICK q2, r2 : q2 = v \div b /\ r2 = v % b
  OBVIOUS
<1>3. b * (q - q2) = r2 - r /\ q2 \in Int /\ r2 \in 0 .. b - 1
  <2>1. b * q + r = b * q2 + r2 /\ q2 \in Int /\ r2 \in 0 .. b - 1
    BY <1>1, <1>2
  <2>2. b * (q - q2) = b * q - b * q2
    BY <2>1
  <2> QED  BY <2>1, <2>2
<1>4. CASE q - q2 >= 1
  <2>1. b * (q - q2) >= b
    BY <1>3, <1>4
  <2> QED  BY <1>3, <2>1
<1>5. CASE q - q2 <= -1
  <2>1. b * (q - q2) <= -b
    BY <1>3, <1>5
  <2> QED  BY <1>3, <2>1
<1>6. CASE q = q2
  BY <1>2, <1>3, <1>6
<1> QED  BY <1>3, <1>4, <1>5, <1>6

\* Two bytes, the upper one first, are the lower half of an int.
LEMMA HalfIs ==
  ASSUME NEW v \in Int
  PROVE  /\ ((v \div ByteMod) % ByteMod) * ByteMod + (v % ByteMod) = v % HalfMod
         /\ (v \div ByteMod) % ByteMod \in 0 .. ByteMod - 1 /\ v % ByteMod \in 0 .. ByteMod - 1
<1>1. ByteMod \in Nat /\ ByteMod > 1
  BY ByteModAssumption
<1>2. PICK b, u, l, q, h : /\ b = ByteMod /\ u = v \div b /\ l = v % b /\ q = u \div b /\ h = u % b
  OBVIOUS
<1>3. /\ u \in Int /\ l \in 0 .. b - 1 /\ v = b * u + l /\ q \in Int /\ h \in 0 .. b - 1 /\ u = b * q + h
  <2>1. b \in Nat /\ b > 0
    BY <1>1, <1>2
  <2>2. /\ u \in Int /\ l \in 0 .. b - 1 /\ v = b * u + l
    BY <1>2, <2>1
  <2>3. q \in Int /\ h \in 0 .. b - 1 /\ u = b * q + h
    BY <1>2, <2>1, <2>2
  <2> QED  BY <2>2, <2>3
<1>4. v = (b * b) * q + (h * b + l)
  <2>1. b \in Int /\ q \in Int /\ h \in Int /\ l \in Int
    BY <1>1, <1>2, <1>3
  <2>2. b * (b * q + h) = b * (b * q) + b * h /\ b * (b * q) = (b * b) * q /\ b * h = h * b
    BY <2>1
  <2>3. v = b * (b * q + h) + l /\ (b * b) * q \in Int /\ h * b \in Int
    BY <1>3, <2>1
  <2> QED  BY <2>1, <2>2, <2>3
<1>5. h * b + l \in 0 .. b * b - 1 /\ b * b \in Nat /\ b * b > 0
  <2>1. b \in Nat /\ b > 1 /\ h \in Nat /\ h <= b - 1 /\ l \in Nat /\ l <= b - 1
    BY <1>1, <1>2, <1>3
  <2>2. h * b <= (b - 1) * b /\ h * b \in Nat
    BY <2>1
  <2>3. (b - 1) * b = b * b - b /\ b * b \in Nat /\ b * b > 0
    BY <2>1
  <2> QED  BY <2>1, <2>2, <2>3
<1>6. v % (b * b) = h * b + l
  BY <1>3, <1>4, <1>5, RestIs
<1> QED  BY <1>2, <1>3, <1>6 DEF HalfMod

\* A number that has its place in the range of a signed byte, or half, comes back.
LEMMA SignedIs ==
  ASSUME NEW mod \in Nat, mod > 1, mod % 2 = 0, NEW v \in -(mod \div 2) .. (mod \div 2 - 1)
  PROVE  Signed(v % mod, mod) = v
<1>1. PICK half \in Nat : half = mod \div 2 /\ mod = 2 * half
  OBVIOUS
<1>2. v \in Int /\ -half <= v /\ v < half /\ half > 0
  BY <1>1
<1>3. CASE v >= 0
  <2>1. v = mod * 0 + v /\ v \in 0 .. mod - 1
    BY <1>1, <1>2, <1>3
  <2>2. v % mod = v
    BY <1>2, <2>1, RestIs
  <2> QED  BY <1>1, <1>2, <2>2 DEF Signed
<1>4. CASE v < 0
  <2>1. v = mod * (-1) + (v + mod) /\ v + mod \in 0 .. mod - 1
    BY <1>1, <1>2, <1>4
  <2>2. v % mod = v + mod
    BY <1>2, <2>1, RestIs
  <2> QED  BY <1>1, <1>2, <1>4, <2>2 DEF Signed
<1> QED  BY <1>2, <1>3, <1>4

\* A number in range is what is left of it.
LEMMA InRange ==
  ASSUME NEW mod \in Nat, mod > 0, NEW v \in 0 .. mod - 1
  PROVE  v % mod = v
<1>1. v = mod * 0 + v
  OBVIOUS
<1> QED  BY <1>1, RestIs

\* Halves and ints are even numbers of values, as bytes are.
LEMMA HalfType ==
  /\ HalfMod \in Nat /\ HalfMod > 1 /\ HalfMod % 2 = 0 /\ HalfMod >= ByteMod
  /\ IntMod \in Nat /\ IntMod > 1 /\ IntMod % 2 = 0 /\ IntMod >= HalfMod
<1>1. ASSUME NEW b \in Nat, b > 1, b % 2 = 0
      PROVE  b * b \in Nat /\ b * b > 1 /\ (b * b) % 2 = 0 /\ b * b >= b
  <2>1. PICK h \in Nat : b = 2 * h
    BY <1>1
  <2>2. b * b = 2 * (h * b) /\ h * b \in Nat
    BY <2>1
  <2>3. b * b \in Nat /\ b * b >= b
    BY <1>1
  <2> QED  BY <1>1, <2>2, <2>3
<1>2. HalfMod \in Nat /\ HalfMod > 1 /\ HalfMod % 2 = 0 /\ HalfMod >= ByteMod
  BY <1>1, ByteModAssumption DEF HalfMod
<1> QED  BY <1>1, <1>2 DEF IntMod

-----------------------------------------------------------------------------
(* Recursive functions. *)

\* Two measures, the second of which decides where the first does not.
Below(mu, nu, y, x) == mu[y] < mu[x] \/ (mu[y] = mu[x] /\ nu[y] < nu[x])

LEMMA LeastOfTwo ==
  ASSUME NEW D, NEW mu \in [D -> Nat], NEW nu \in [D -> Nat],
         NEW S \in SUBSET D, S # {}
  PROVE  \E x \in S : \A y \in S : ~Below(mu, nu, y, x)
<1>1. PICK a \in {mu[x] : x \in S} : \A b \in {mu[x] : x \in S} : a <= b
  <2>1. {mu[x] : x \in S} \in SUBSET Nat /\ {mu[x] : x \in S} # {}
    OBVIOUS
  <2> QED  BY <2>1, LeastNatural
<1> DEFINE T == {x \in S : mu[x] = a}
<1>2. PICK c \in {nu[x] : x \in T} : \A d \in {nu[x] : x \in T} : c <= d
  <2>1. {nu[x] : x \in T} \in SUBSET Nat /\ {nu[x] : x \in T} # {}
    BY <1>1
  <2> QED  BY <2>1, LeastNatural
<1>3. PICK x \in T : nu[x] = c
  BY <1>2
<1>4. ASSUME NEW y \in S, Below(mu, nu, y, x)
      PROVE  FALSE
  <2>1. a <= mu[y] /\ mu[x] = a /\ mu[y] \in Nat /\ nu[y] \in Nat /\ nu[x] \in Nat /\ a \in Nat
    BY <1>1
  <2>2. mu[y] = a /\ nu[y] < nu[x]
    BY <1>4, <2>1 DEF Below
  <2>3. nu[x] <= nu[y]
    BY <1>2, <1>3, <2>2
  <2> QED  BY <2>1, <2>2, <2>3
<1> QED  BY <1>4

\* G gives the value at x of a function f, of which it looks at arguments below x only.
Decreasing(D, mu, nu, V, G) ==
  /\ mu \in [D -> Nat] /\ nu \in [D -> Nat]
  /\ {} \in V /\ G \in [D \X [D -> V] -> V]
  /\ \A x \in D : \A f, g \in [D -> V] :
       (\A y \in D : Below(mu, nu, y, x) => f[y] = g[y]) => G[<<x, f>>] = G[<<x, g>>]

Solvable(D, V, G) == \E f \in [D -> V] : \A x \in D : f[x] = G[<<x, f>>]

\* A function that is defined by its values at smaller arguments exists.
LEMMA RecursionDefines ==
  ASSUME NEW D, NEW mu, NEW nu, NEW V, NEW G, Decreasing(D, mu, nu, V, G)
  PROVE  Solvable(D, V, G)
<1> PICK v0 \in V : v0 = {}
  BY DEF Decreasing
<1>0. /\ mu \in [D -> Nat] /\ nu \in [D -> Nat] /\ G \in [D \X [D -> V] -> V]
      /\ \A x \in D : \A f, g \in [D -> V] :
           (\A y \in D : Below(mu, nu, y, x) => f[y] = g[y]) => G[<<x, f>>] = G[<<x, g>>]
  BY DEF Decreasing
<1> USE <1>0
<1> DEFINE Closed(C) == C \in SUBSET D /\ \A x \in C, y \in D : Below(mu, nu, y, x) => y \in C
           Solves(C, f) == f \in [D -> V] /\ \A x \in C : f[x] = G[<<x, f>>]
           SolvedBy(x, f) == \E C \in SUBSET D : Closed(C) /\ Solves(C, f) /\ x \in C
           W == {x \in D : \E f \in [D -> V] : SolvedBy(x, f)}
           h == [x \in D |-> IF x \in W THEN CHOOSE v \in V : \E f \in [D -> V] :
                                               SolvedBy(x, f) /\ v = f[x]
                             ELSE v0]
<1>1. ASSUME NEW C, NEW E, Closed(C), Closed(E), NEW f, NEW g, Solves(C, f), Solves(E, g),
             NEW x \in C, x \in E
      PROVE  f[x] = g[x]
  <2> SUFFICES ASSUME f[x] # g[x] PROVE FALSE  OBVIOUS
  <2> DEFINE S == {z \in C : z \in E /\ f[z] # g[z]}
  <2>1. S \in SUBSET D /\ S # {}
    BY <1>1
  <2>2. PICK z \in S : \A y \in S : ~Below(mu, nu, y, z)
    BY <2>1, LeastOfTwo
  <2>3. \A y \in D : Below(mu, nu, y, z) => f[y] = g[y]
    BY <1>1, <2>2
  <2>4. G[<<z, f>>] = G[<<z, g>>]
    BY <1>1, <2>1, <2>3
  <2> QED  BY <1>1, <2>4
<1>2. ASSUME NEW x \in D, NEW f \in [D -> V], SolvedBy(x, f)
      PROVE  x \in W /\ h[x] = f[x]
  <2>1. x \in W
    BY <1>2
  <2>2. \A g \in [D -> V] : SolvedBy(x, g) => g[x] = f[x]
    <3> SUFFICES ASSUME NEW g \in [D -> V], SolvedBy(x, g) PROVE g[x] = f[x]  OBVIOUS
    <3>1. PICK C \in SUBSET D : Closed(C) /\ Solves(C, f) /\ x \in C
      BY <1>2
    <3>2. PICK E \in SUBSET D : Closed(E) /\ Solves(E, g) /\ x \in E
      OBVIOUS
    <3> HIDE DEF Closed, Solves
    <3> QED  BY <1>1, <3>1, <3>2
  <2> DEFINE Gives(v) == \E g \in [D -> V] : SolvedBy(x, g) /\ v = g[x]
  <2> HIDE DEF SolvedBy
  <2>3. f[x] \in V /\ Gives(f[x]) /\ \A v \in V : Gives(v) => v = f[x]
    BY <1>2, <2>2
  <2>4. h[x] = CHOOSE v \in V : Gives(v)
    BY <2>1
  <2> HIDE DEF Gives, h
  <2>5. h[x] = f[x]
    BY <2>3, <2>4
  <2> QED  BY <2>1, <2>5
<1>3. h \in [D -> V]
  <2> SUFFICES ASSUME NEW x \in D PROVE h[x] \in V
    OBVIOUS
  <2>1. CASE x \in W
    <3>1. PICK f \in [D -> V] : SolvedBy(x, f)
      BY <2>1
    <3> HIDE DEF SolvedBy, W, h
    <3> QED  BY <1>2, <3>1
  <2>2. CASE x \notin W
    <3> HIDE DEF W
    <3> QED  BY <2>2
  <2> QED  BY <2>1, <2>2
<1> HIDE DEF h
<1>4. Closed(W) /\ Solves(W, h)
  <2>1. ASSUME NEW x \in W
        PROVE  /\ \A y \in D : Below(mu, nu, y, x) => y \in W
               /\ h[x] = G[<<x, h>>]
    <3>1. PICK C \in SUBSET D, f \in [D -> V] : Closed(C) /\ Solves(C, f) /\ x \in C
      OBVIOUS
    <3>2. \A y \in C : SolvedBy(y, f)
      <4> HIDE DEF Closed, Solves
      <4> QED  BY <3>1
    <3>3. \A y \in C : y \in W /\ h[y] = f[y]
      <4> HIDE DEF SolvedBy, W
      <4> QED  BY <1>2, <3>2
    <3>4. \A y \in D : Below(mu, nu, y, x) => y \in C
      BY <3>1
    <3>5. G[<<x, h>>] = G[<<x, f>>]
      <4> HIDE DEF SolvedBy, W
      <4> QED  BY <1>3, <3>1, <3>3, <3>4
    <3>6. h[x] = f[x] /\ f[x] = G[<<x, f>>]
      <4> HIDE DEF SolvedBy, W
      <4> QED  BY <3>1, <3>3
    <3> QED  BY <3>3, <3>4, <3>5, <3>6
  <2>2. W \in SUBSET D
    OBVIOUS
  <2> HIDE DEF W
  <2> QED  BY <1>3, <2>1, <2>2
<1>5. W = D
  <2> SUFFICES ASSUME D \ W # {} PROVE FALSE
    OBVIOUS
  <2>1. PICK x \in D \ W : \A y \in D \ W : ~Below(mu, nu, y, x)
    <3>1. D \ W \in SUBSET D
      OBVIOUS
    <3> HIDE DEF W
    <3> QED  BY <3>1, LeastOfTwo
  <2> DEFINE C == W \union {x}
             more == [z \in D |-> IF z = x THEN G[<<x, h>>] ELSE h[z]]
  <2>w. W \in SUBSET D
    OBVIOUS
  <2>2. more \in [D -> V]
    BY <1>3, <2>1
  <2>3. \A y \in D : Below(mu, nu, y, x) => y \in W
    <3> HIDE DEF W
    <3> QED  BY <2>1
  <2>4. Closed(C)
    <3> HIDE DEF W
    <3> QED  BY <1>4, <2>1, <2>3, <2>w
  <2>5. \A z \in C : \A y \in D : Below(mu, nu, y, z) => more[y] = h[y]
    <3> HIDE DEF W
    <3> QED  BY <1>4, <2>1, <2>3
  <2>6. \A z \in C : G[<<z, more>>] = G[<<z, h>>]
    <3>1. C \in SUBSET D
      BY <2>w, <2>1
    <3> HIDE DEF C, more
    <3> QED  BY ZenonT(60), <1>3, <2>2, <2>5, <3>1
  <2>7. \A z \in C : more[z] = G[<<z, h>>]
    <3> HIDE DEF W
    <3> QED  BY <1>4, <2>1, <2>w
  <2>8. Solves(C, more)
    <3> HIDE DEF C, more
    <3> QED  BY <2>2, <2>6, <2>7
  <2>9. SolvedBy(x, more)
    <3>1. C \in SUBSET D /\ x \in C
      BY <2>w, <2>1
    <3> HIDE DEF Closed, Solves, C, more
    <3> QED  BY <2>4, <2>8, <3>1
  <2>10. x \in W
    <3> HIDE DEF SolvedBy, more
    <3> QED  BY <2>1, <2>2, <2>9
  <2> QED  BY <2>1, <2>10
<1> HIDE DEF W
<1> QED  BY <1>3, <1>4, <1>5 DEF Solvable

-----------------------------------------------------------------------------
(* Expressions. *)

\* An expression is a tree: its parts are less high than it is.
FiniteTrees ==
  \E height \in [Exprs -> Nat] :
    \A e \in Exprs :
      /\ e.kind \in {"plus", "minus"} =>
           height[e.left] < height[e] /\ height[e.right] < height[e]
      /\ e.kind = "neg" => height[e.neg] < height[e]

\* A literal has its value as an unsigned int.
LiteralsFit == \A e \in Exprs : e.kind = "integer" => e.integer < IntMod

\* The parts of an expression, whose values it is computed from at once.
Parts(e) ==
  (IF e.kind \in {"plus", "minus"} THEN {e.left, e.right} ELSE {})
    \union (IF e.kind = "neg" THEN {e.neg} ELSE {})

Depths == 0 .. Cardinality(Names)

\* The values of an expression when it is computed from the values in f.
EvalCase(i, e, touched, f) ==
  LET bounded(v, ok) == IF ok THEN {v} ELSE {}
  IN  CASE e.kind = "integer" ->
             bounded(Literal(e.integer), Literal(e.integer) \in Int32)
        [] e.kind = "symbol" ->
             IF e.symbol \in touched THEN {}
             ELSE UNION {f[<<x, touched \union {e.symbol}>>] : x \in Define(i, e.symbol)}
        [] e.kind \in {"plus", "minus"} ->
             UNION {Combined(e.kind, q[1], q[2]) :
                    q \in f[<<e.left, touched>>] \X f[<<e.right, touched>>]}
        [] e.kind = "neg" /\ e.neg.kind = "integer" ->
             bounded(ToInt(-Literal(e.neg.integer)),
                     Literal(e.neg.integer) <= IntMod \div 2)
        [] OTHER ->
             UNION {bounded(ToInt(-v), ToInt(-v) # -(IntMod \div 2)) :
                    v \in f[<<e.neg, touched>>]}

EvalSolves(i, f) == f = [p \in Exprs \X SUBSET Names |-> EvalCase(i, p[1], p[2], f)]

ExactCase(i, e, depth, f) ==
  CASE e.kind = "integer" -> {e.integer} \intersect Int32
    [] e.kind = "symbol" ->
         IF depth = 0 THEN {}
         ELSE UNION {f[<<x, depth - 1>>] : x \in Define(i, e.symbol)}
    [] e.kind = "neg" /\ e.neg.kind = "integer" ->
         {-e.neg.integer} \intersect Int32
    [] e.kind = "neg" /\ e.neg.kind # "integer" -> {-v : v \in f[<<e.neg, depth>>]} \intersect Int32
    [] e.kind = "plus" ->
         {q[1] + q[2] : q \in f[<<e.left, depth>>] \X f[<<e.right, depth>>]}
           \intersect Int32
    [] OTHER ->
         {q[1] - q[2] : q \in f[<<e.left, depth>>] \X f[<<e.right, depth>>]}
           \intersect Int32

ExactSolves(i, f) == f = [p \in Exprs \X Depths |-> ExactCase(i, p[1], p[2], f)]

\* Of several things the first one is found, and no other.
LEMMA FirstIs ==
  ASSUME NEW S \in SUBSET Nat
  PROVE  /\ S # {} => First(S) # {}
         /\ First(S) \subseteq S
         /\ \A x, y \in First(S) : x = y
         /\ \A x \in First(S) : \A y \in S : x <= y
<1>1. S # {} => First(S) # {}
  BY LeastNatural DEF First
<1>2. ASSUME NEW x \in First(S), NEW y \in First(S)
      PROVE  x = y
  <2>1. x \in Nat /\ y \in Nat /\ x <= y /\ y <= x
    BY DEF First
  <2> QED  BY <2>1
<1> QED  BY <1>1, <1>2 DEF First

\* A directive that is given counts once.
LEMMA DirectiveIs ==
  ASSUME program \in Programs, NEW i \in 1 .. Len(program), NEW kind
  PROVE  /\ Directive(i, kind) \subseteq Exprs
         /\ \A e, f \in Directive(i, kind) : e = f
<1> PICK dirs : dirs = program[i].dirs
  OBVIOUS
<1>1. dirs \in Seq(Directives)
  BY ProgramType
<1>2. PICK S : S = {d \in DOMAIN dirs : dirs[d].kind = kind}
  OBVIOUS
<1>3. S \in SUBSET Nat /\ S \subseteq DOMAIN dirs
  BY <1>1, <1>2
<1>4. Directive(i, kind) = {dirs[d].expr : d \in First(S)}
  BY <1>2 DEF Directive
<1>5. \A d \in DOMAIN dirs : dirs[d].expr \in Exprs
  BY <1>1 DEF Directives
<1>6. First(S) \subseteq S /\ \A x, y \in First(S) : x = y
  BY <1>3, FirstIs
<1>7. Directive(i, kind) \subseteq Exprs
  BY <1>3, <1>4, <1>5, <1>6
<1>8. ASSUME NEW e \in Directive(i, kind), NEW f \in Directive(i, kind)
      PROVE  e = f
  <2>1. PICK x \in First(S) : e = dirs[x].expr
    BY <1>4
  <2>2. PICK y \in First(S) : f = dirs[y].expr
    BY <1>4
  <2>3. x = y
    BY <1>6
  <2> QED  BY <2>1, <2>2, <2>3
<1> QED  BY <1>7, <1>8

\* A define is an expression, and of several of a name one counts.
LEMMA DefineIs ==
  ASSUME program \in Programs, NEW i \in DOMAIN program, NEW name
  PROVE  /\ Define(i, name) \subseteq Exprs
         /\ \A x, y \in Define(i, name) : x = y
<1> PICK dirs : dirs = program[i].dirs
  OBVIOUS
<1>1. dirs \in Seq(Directives)
  BY ProgramsAssumption
<1>2. PICK S : S = {d \in DOMAIN dirs : dirs[d].kind = "define" /\ dirs[d].symbol = name}
  OBVIOUS
<1>3. S \in SUBSET Nat /\ S \subseteq DOMAIN dirs
  BY <1>1, <1>2
<1>4. Define(i, name) = {dirs[d].expr : d \in First(S)}
  BY <1>2 DEF Define
<1>5. \A d \in DOMAIN dirs : dirs[d].expr \in Exprs
  BY <1>1 DEF Directives
<1>6. First(S) \subseteq S /\ \A x, y \in First(S) : x = y
  BY <1>3, FirstIs
<1>7. Define(i, name) \subseteq Exprs
  BY <1>3, <1>4, <1>5, <1>6
<1>8. ASSUME NEW e \in Define(i, name), NEW f \in Define(i, name)
      PROVE  e = f
  <2>1. PICK x \in First(S) : e = dirs[x].expr
    BY <1>4
  <2>2. PICK y \in First(S) : f = dirs[y].expr
    BY <1>4
  <2>3. x = y
    BY <1>6
  <2> QED  BY <2>1, <2>2, <2>3
<1> QED  BY <1>7, <1>8

\* The kinds of expressions, with their parts.
LEMMA ExprIs ==
  ASSUME NEW e \in Exprs
  PROVE  /\ e.kind \in {"integer", "symbol", "plus", "minus", "neg"}
         /\ e.kind = "integer" => e.integer \in Nat
         /\ e.kind = "symbol" => e.symbol \in Names
         /\ e.kind \in {"plus", "minus"} => e.left \in Exprs /\ e.right \in Exprs
         /\ e.kind = "neg" => e.neg \in Exprs
         /\ Parts(e) \subseteq Exprs
  BY ExprsAssumption DEF Parts

\* What holds of an expression when it holds of what it is computed from, holds
\* of every expression.  `good' has the expressions, and depths, that it holds of.
LEMMA ByParts ==
  ASSUME FiniteTrees, NEW last \in Nat, NEW good,
         \A e \in Exprs, d \in 0 .. last :
           /\ \A y \in Exprs, c \in 0 .. last : c < d => <<y, c>> \in good
           /\ \A y \in Parts(e) : <<y, d>> \in good
           => <<e, d>> \in good
  PROVE  \A e \in Exprs, d \in 0 .. last : <<e, d>> \in good
<1> DEFINE D == Exprs \X (0 .. last)
           Bad == {p \in D : p \notin good}
<1>1. PICK height \in [Exprs -> Nat] : \A e \in Exprs : \A y \in Parts(e) : height[y] < height[e]
  BY DEF FiniteTrees, Parts
<1>2. PICK mu \in [D -> Nat], nu \in [D -> Nat] :
        \A p \in D : mu[p] = p[2] /\ nu[p] = height[p[1]]
  <2>1. /\ [p \in D |-> p[2]] \in [D -> Nat]
        /\ [p \in D |-> height[p[1]]] \in [D -> Nat]
    OBVIOUS
  <2> QED  BY <2>1
<1>3. SUFFICES ASSUME Bad # {} PROVE FALSE
  BY Zenon
<1>4. PICK p \in Bad : \A q \in Bad : ~Below(mu, nu, q, p)
  <2>1. Bad \in SUBSET D
    OBVIOUS
  <2> HIDE DEF Bad, D
  <2> QED  BY <1>3, <2>1, LeastOfTwo
<1>5. PICK e \in Exprs, d \in 0 .. last : p = <<e, d>>
  OBVIOUS
<1>6. ASSUME NEW y \in Exprs, NEW c \in 0 .. last, c < d
      PROVE  <<y, c>> \in good
  BY <1>2, <1>4, <1>5, <1>6 DEF Below
<1>7. ASSUME NEW y \in Parts(e)
      PROVE  <<y, d>> \in good
  <2>1. y \in Exprs /\ height[y] < height[e]
    BY <1>1, ExprIs
  <2> QED  BY <1>2, <1>4, <1>5, <2>1 DEF Below
<1> QED  BY <1>5, <1>6, <1>7

-----------------------------------------------------------------------------
(* The values that jasm_expr_eval computes, and the exact ones, are the ones *)
(* that their equations say: every expression is computed from smaller ones. *)

LEMMA CardinalityType ==
  ASSUME NEW touched \in SUBSET Names
  PROVE  /\ Cardinality(Names) \in Nat /\ Cardinality(touched) \in Depths
         /\ \A name \in Names \ touched :
              /\ touched \union {name} \in SUBSET Names
              /\ Cardinality(touched \union {name}) = Cardinality(touched) + 1
              /\ Cardinality(touched) < Cardinality(Names)
<1>1. \A S \in SUBSET Names : /\ IsFiniteSet(S) /\ Cardinality(S) \in Nat
                              /\ Cardinality(S) <= Cardinality(Names)
  BY NamesAssumption, FS_Subset, FS_CardinalityType
<1>2. Cardinality(Names) \in Nat /\ Cardinality(touched) \in Depths
  BY <1>1 DEF Depths
<1>3. ASSUME NEW name \in Names \ touched
      PROVE  /\ touched \union {name} \in SUBSET Names
             /\ Cardinality(touched \union {name}) = Cardinality(touched) + 1
  BY <1>1, FS_AddElement
<1>4. ASSUME NEW name \in Names \ touched
      PROVE  Cardinality(touched) < Cardinality(Names)
  <2>1. PICK c, all : c = Cardinality(touched) /\ all = Cardinality(Names)
    OBVIOUS
  <2>2. Cardinality(touched \union {name}) <= all /\ all \in Nat /\ c \in Nat
    BY <1>1, <1>3, <2>1
  <2> QED  BY <1>3, <2>1, <2>2
<1> QED  BY <1>2, <1>3, <1>4

\* The exact value of e looks at its parts, and at everything at smaller depths.
LEMMA ExactLocal ==
  ASSUME program \in Programs, NEW i \in DOMAIN program, NEW e \in Exprs, NEW d \in Depths,
         NEW f, NEW g,
         \A x \in Exprs, c \in Depths : c < d => f[<<x, c>>] = g[<<x, c>>],
         \A y \in Parts(e) : f[<<y, d>>] = g[<<y, d>>]
  PROVE  ExactCase(i, e, d, f) = ExactCase(i, e, d, g)
<1>1. CASE e.kind = "integer"
  BY <1>1 DEF ExactCase
<1>2. CASE e.kind = "symbol"
  <2>1. CASE d = 0
    BY <1>2, <2>1 DEF ExactCase
  <2>2. CASE d # 0
    <3>1. d - 1 \in Depths /\ d - 1 < d
      BY <2>2, CardinalityType DEF Depths
    <3>2. \A x \in Define(i, e.symbol) : f[<<x, d - 1>>] = g[<<x, d - 1>>]
      BY <3>1, DefineIs
    <3> QED  BY SMTT(60), <1>2, <2>2, <3>2 DEF ExactCase
  <2> QED  BY <2>1, <2>2
<1>3. CASE e.kind = "neg"
  <2>1. f[<<e.neg, d>>] = g[<<e.neg, d>>]
    BY <1>3 DEF Parts
  <2> QED  BY <1>3, <2>1 DEF ExactCase
<1>4. CASE e.kind \in {"plus", "minus"}
  <2>1. f[<<e.left, d>>] = g[<<e.left, d>>] /\ f[<<e.right, d>>] = g[<<e.right, d>>]
    BY <1>4 DEF Parts
  <2> QED  BY <1>4, <2>1 DEF ExactCase
<1> QED  BY <1>1, <1>2, <1>3, <1>4, ExprIs

LEMMA ExactCaseType ==
  ASSUME program \in Programs, NEW i \in DOMAIN program, NEW e \in Exprs, NEW d \in Depths,
         NEW f, \A x \in Exprs, c \in Depths : c < d => f[<<x, c>>] \subseteq Int32
  PROVE  ExactCase(i, e, d, f) \subseteq Int32
<1>1. CASE e.kind = "symbol"
  <2>1. CASE d = 0
    BY <1>1, <2>1 DEF ExactCase
  <2>2. CASE d # 0
    <3>1. d - 1 \in Depths /\ d - 1 < d
      BY <2>2, CardinalityType DEF Depths
    <3>2. \A x \in Define(i, e.symbol) : f[<<x, d - 1>>] \subseteq Int32
      BY <3>1, DefineIs
    <3> QED  BY <1>1, <2>2, <3>2 DEF ExactCase
  <2> QED  BY <2>1, <2>2
<1>2. CASE e.kind # "symbol"
  BY <1>2 DEF ExactCase
<1> QED  BY <1>1, <1>2

\* ExactWithin(i) exists, and its values are ints.
LEMMA ExactSolved ==
  ASSUME FiniteTrees, program \in Programs, NEW i \in DOMAIN program
  PROVE  /\ ExactSolves(i, ExactWithin(i))
         /\ ExactWithin(i) \in [Exprs \X Depths -> SUBSET Int32]
<1> DEFINE D == Exprs \X Depths
           V == SUBSET Int32
           G == [p \in D \X [D -> V] |-> ExactCase(i, p[1][1], p[1][2], p[2])]
<1>1. PICK height \in [Exprs -> Nat] : \A e \in Exprs : \A y \in Parts(e) : height[y] < height[e]
  BY DEF FiniteTrees, Parts
<1>2. PICK mu \in [D -> Nat], nu \in [D -> Nat] :
        \A p \in D : mu[p] = p[2] /\ nu[p] = height[p[1]]
  <2>1. /\ [p \in D |-> p[2]] \in [D -> Nat]
        /\ [p \in D |-> height[p[1]]] \in [D -> Nat]
    BY CardinalityType DEF Depths
  <2> QED  BY <2>1
<1>3. G \in [D \X [D -> V] -> V]
  <2>1. ASSUME NEW x \in D, NEW f \in [D -> V] PROVE ExactCase(i, x[1], x[2], f) \in V
    <3>1. x[1] \in Exprs /\ x[2] \in Depths
      OBVIOUS
    <3> QED  BY <3>1, ExactCaseType
  <2> QED  BY <2>1
<1>4. ASSUME NEW x \in D, NEW f \in [D -> V], NEW g \in [D -> V],
             \A y \in D : Below(mu, nu, y, x) => f[y] = g[y]
      PROVE  G[<<x, f>>] = G[<<x, g>>]
  <2>1. PICK e \in Exprs, d \in Depths : x = <<e, d>>
    OBVIOUS
  <2>2. \A y \in Exprs, c \in Depths : c < d => f[<<y, c>>] = g[<<y, c>>]
    BY <1>2, <1>4, <2>1 DEF Below
  <2>3. \A y \in Parts(e) : f[<<y, d>>] = g[<<y, d>>]
    BY <1>1, <1>2, <1>4, <2>1, ExprIs DEF Below
  <2>4. ExactCase(i, e, d, f) = ExactCase(i, e, d, g)
    <3> HIDE DEF D, V, G
    <3> QED  BY <2>2, <2>3, ExactLocal
  <2> QED  BY <2>1, <2>4
<1>5. PICK f \in [D -> V] : \A x \in D : f[x] = G[<<x, f>>]
  <2>1. {} \in V
    OBVIOUS
  <2> HIDE DEF G, V, D
  <2>2. Decreasing(D, mu, nu, V, G)
    BY <1>3, <1>4, <2>1 DEF Decreasing
  <2>3. Solvable(D, V, G)
    BY Zenon, <2>2, RecursionDefines
  <2> QED  BY <2>3 DEF Solvable
<1>6. ExactSolves(i, f)
  <2>1. \A x \in D : f[x] = ExactCase(i, x[1], x[2], f)
    BY <1>5
  <2>2. f = [x \in D |-> f[x]]
    BY <1>5
  <2> QED  BY <2>1, <2>2 DEF ExactSolves
<1>7. ExactWithin(i) = CHOOSE h : ExactSolves(i, h)
  BY ZenonT(60) DEF ExactWithin, ExactSolves, ExactCase, Depths
<1>8. ExactSolves(i, ExactWithin(i))
  BY Zenon, <1>6, <1>7
<1>9. ExactWithin(i) \in [D -> V]
  <2> DEFINE h == ExactWithin(i)
  <2> HIDE DEF h
  <2>1. h = [p \in D |-> ExactCase(i, p[1], p[2], h)]
    BY <1>8 DEF ExactSolves, h
  <2> DEFINE good == {p \in D : h[p] \subseteq Int32}
  <2>2. ASSUME NEW e \in Exprs, NEW d \in Depths,
               \A y \in Exprs, c \in Depths : c < d => <<y, c>> \in good
        PROVE  <<e, d>> \in good
    <3>1. \A y \in Exprs, c \in Depths : c < d => h[<<y, c>>] \subseteq Int32
      BY Zenon, <2>2
    <3>2. ExactCase(i, e, d, h) \subseteq Int32
      <4> HIDE DEF D, V, good
      <4> QED  BY <3>1, ExactCaseType
    <3> QED  BY <2>1, <3>2
  <2>3. \A p \in D : h[p] \in V
    <3>1. \A e \in Exprs, d \in Depths : <<e, d>> \in good
      <4> HIDE DEF good
      <4> QED  BY Zenon, <2>2, CardinalityType, ByParts DEF Depths
    <3> QED  BY <3>1
  <2>4. h \in [D -> V]
    <3>1. DOMAIN h = D /\ h = [p \in D |-> h[p]]
      BY <2>1
    <3> HIDE DEF D, V
    <3> QED  BY <2>3, <3>1
  <2> QED  BY <2>4 DEF h
<1> QED  BY <1>8, <1>9

\* An int, and what is too large or too small for one, by its half of the circle.
LEMMA ToIntIs ==
  ASSUME NEW v \in Int
  PROVE  \E half \in Nat :
           /\ half > 0 /\ half = IntMod \div 2 /\ IntMod = 2 * half /\ Int32 = -half .. half - 1
           /\ ToInt(v) \in Int32
           /\ v \in Int32 => ToInt(v) = v
           /\ v >= half /\ v < IntMod + half => ToInt(v) = v - IntMod
           /\ v < -half /\ v >= -IntMod => ToInt(v) = v + IntMod
<1>1. PICK half \in Nat : half = IntMod \div 2 /\ IntMod = 2 * half /\ half > 0
  BY HalfType
<1>2. IntMod \in Nat /\ IntMod > 0
  BY <1>1
<1>3. PICK rest \in 0 .. IntMod - 1 : rest = v % IntMod
  BY <1>2
<1>4. ToInt(v) = IF rest < half THEN rest ELSE rest - IntMod
  BY <1>1, <1>3 DEF ToInt
<1>5. Int32 = -half .. half - 1
  BY <1>1 DEF Int32
<1>6. ToInt(v) \in Int32
  BY <1>1, <1>3, <1>4, <1>5
<1>7. ASSUME v \in 0 .. IntMod - 1 PROVE rest = v
  BY <1>2, <1>3, <1>7, InRange
<1>8. ASSUME v < 0, v >= -IntMod PROVE rest = v + IntMod
  <2>1. v = IntMod * (-1) + (v + IntMod) /\ v + IntMod \in 0 .. IntMod - 1
    BY <1>2, <1>8
  <2> QED  BY <1>2, <1>3, <2>1, RestIs
<1>9. ASSUME v >= IntMod, v < IntMod + half PROVE rest = v - IntMod
  <2>1. v = IntMod * 1 + (v - IntMod) /\ v - IntMod \in 0 .. IntMod - 1
    BY <1>1, <1>9
  <2> QED  BY <1>2, <1>3, <2>1, RestIs
<1>10. v \in Int32 => ToInt(v) = v
  BY <1>1, <1>4, <1>5, <1>7, <1>8
<1>11. v >= half /\ v < IntMod + half => ToInt(v) = v - IntMod
  BY <1>1, <1>4, <1>7, <1>9
<1>12. v < -half /\ v >= -IntMod => ToInt(v) = v + IntMod
  BY <1>1, <1>4, <1>8
<1> QED  BY <1>1, <1>5, <1>6, <1>10, <1>11, <1>12

\* The sum of two ints is tested by signs: it is there when it is an int.
LEMMA CombinedIs ==
  ASSUME NEW l \in Int32, NEW r \in Int32
  PROVE  /\ Combined("plus", l, r) = {l + r} \intersect Int32
         /\ Combined("minus", l, r) = {l - r} \intersect Int32
<1>1. ASSUME NEW kind \in {"plus", "minus"}, NEW v, v = IF kind = "plus" THEN l + r ELSE l - r
      PROVE  Combined(kind, l, r) = {v} \intersect Int32
  <2>1. v \in Int
    BY <1>1 DEF Int32
  <2>2. PICK half \in Nat :
          /\ half > 0 /\ IntMod = 2 * half /\ Int32 = -half .. half - 1
          /\ ToInt(v) \in Int32
          /\ v \in Int32 => ToInt(v) = v
          /\ v >= half /\ v < IntMod + half => ToInt(v) = v - IntMod
          /\ v < -half /\ v >= -IntMod => ToInt(v) = v + IntMod
    BY <2>1, ToIntIs
  <2>3. PICK result \in Int : result = ToInt(v)
    BY <2>2
  <2>4. Combined(kind, l, r) = IF Overflows(kind, l, r, result) THEN {} ELSE {result}
    BY <1>1, <2>3 DEF Combined
  <2>5. /\ l \in Int /\ r \in Int /\ -half <= l /\ l < half /\ -half <= r /\ r < half
        /\ v \in Int /\ v >= -IntMod /\ v < IntMod + half
    BY <1>1, <2>2
  <2>6. CASE v \in Int32
    <3>1. result = v
      BY <2>2, <2>3, <2>6
    <3>2. ~Overflows(kind, l, r, result)
      BY <1>1, <2>5, <3>1 DEF Overflows, SameSign
    <3> QED  BY <2>4, <2>6, <3>1, <3>2
  <2>7. CASE v >= half
    <3>1. result = v - IntMod /\ result < 0
      BY <1>1, <2>2, <2>3, <2>5, <2>7
    <3>2. l >= 0
      BY <1>1, <2>2, <2>5, <2>7
    <3>3. (r < 0) = (kind = "minus")
      BY <1>1, <2>2, <2>5, <2>7
    <3>4. Overflows(kind, l, r, result)
      BY <1>1, <2>2, <2>5, <3>1, <3>2, <3>3 DEF Overflows, SameSign
    <3>5. v \notin Int32
      BY <2>2, <2>5, <2>7
    <3> QED  BY <2>4, <3>4, <3>5
  <2>8. CASE v < -half
    <3>1. result = v + IntMod /\ result >= 0
      BY <1>1, <2>2, <2>3, <2>5, <2>8
    <3>2. l < 0
      BY <1>1, <2>2, <2>5, <2>8
    <3>3. (r < 0) = (kind = "plus")
      BY <1>1, <2>2, <2>5, <2>8
    <3>4. Overflows(kind, l, r, result)
      BY <1>1, <2>2, <2>5, <3>1, <3>2, <3>3 DEF Overflows, SameSign
    <3>5. v \notin Int32
      BY <2>2, <2>5, <2>8
    <3> QED  BY <2>4, <3>4, <3>5
  <2> QED  BY <2>2, <2>5, <2>6, <2>7, <2>8
<1> QED  BY <1>1

LEMMA NegatedIs ==
  ASSUME NEW v \in Int32
  PROVE  (IF ToInt(-v) # -(IntMod \div 2) THEN {ToInt(-v)} ELSE {}) = {-v} \intersect Int32
<1>1. -v \in Int
  BY DEF Int32
<1>2. PICK half \in Nat :
        /\ half > 0 /\ half = IntMod \div 2 /\ IntMod = 2 * half /\ Int32 = -half .. half - 1
        /\ -v \in Int32 => ToInt(-v) = -v
        /\ -v >= half /\ -v < IntMod + half => ToInt(-v) = (-v) - IntMod
  BY <1>1, ToIntIs
<1>3. v \in Int /\ -half <= v /\ v < half
  BY <1>2
<1>4. CASE v = -half
  <2>1. ToInt(-v) = -half /\ -v \notin Int32
    BY <1>2, <1>3, <1>4
  <2> QED  BY <1>2, <2>1
<1>5. CASE v # -half
  <2>1. -v \in Int32 /\ ToInt(-v) = -v /\ -v # -half
    BY <1>2, <1>3, <1>5
  <2> QED  BY <1>2, <2>1
<1> QED  BY <1>4, <1>5

\* The literal of the smallest int can be written with a minus only.
LEMMA LiteralIs ==
  ASSUME NEW token \in 0 .. IntMod - 1
  PROVE  /\ (IF Literal(token) \in Int32 THEN {Literal(token)} ELSE {}) = {token} \intersect Int32
         /\ (IF Literal(token) <= IntMod \div 2 THEN {ToInt(-Literal(token))} ELSE {})
              = {-token} \intersect Int32
<1>1. token \in Int /\ -token \in Int /\ IntMod \in Nat /\ IntMod > 0
  BY HalfType
<1>2. PICK half \in Nat :
        /\ half > 0 /\ half = IntMod \div 2 /\ IntMod = 2 * half /\ Int32 = -half .. half - 1
        /\ -token \in Int32 => ToInt(-token) = -token
  BY <1>1, ToIntIs
<1>3. Literal(token) = token
  BY <1>1, InRange DEF Literal
<1>4. token <= half <=> -token \in Int32
  BY <1>1, <1>2
<1>5. CASE token <= half
  BY <1>2, <1>3, <1>4, <1>5
<1>6. CASE ~(token <= half)
  <2>1. -token \notin Int32
    BY <1>4, <1>6
  <2>2. (IF Literal(token) <= IntMod \div 2 THEN {ToInt(-Literal(token))} ELSE {}) = {}
    BY <1>2, <1>3, <1>6
  <2> QED  BY <1>3, <2>1, <2>2
<1> QED  BY <1>5, <1>6

\* What is no symbol has its value from its parts, whose values f has at t.
Result(e, f, t) ==
  CASE e.kind = "integer" -> {e.integer} \intersect Int32
    [] e.kind = "neg" /\ e.neg.kind = "integer" -> {-e.neg.integer} \intersect Int32
    [] e.kind = "neg" /\ e.neg.kind # "integer" -> {-v : v \in f[<<e.neg, t>>]} \intersect Int32
    [] e.kind = "plus" -> {q[1] + q[2] : q \in f[<<e.left, t>>] \X f[<<e.right, t>>]} \intersect Int32
    [] OTHER -> {q[1] - q[2] : q \in f[<<e.left, t>>] \X f[<<e.right, t>>]} \intersect Int32

LEMMA ExactResult ==
  ASSUME NEW i, NEW e \in Exprs, e.kind # "symbol", NEW d, NEW f
  PROVE  ExactCase(i, e, d, f) = Result(e, f, d)
<1>1. CASE e.kind = "integer"
  BY <1>1 DEF ExactCase, Result
<1>2. CASE e.kind = "neg"
  BY <1>2 DEF ExactCase, Result
<1>3. CASE e.kind \in {"plus", "minus"}
  BY <1>3 DEF ExactCase, Result
<1> QED  BY <1>1, <1>2, <1>3, ExprIs

LEMMA EvalResult ==
  ASSUME LiteralsFit, NEW i, NEW e \in Exprs, e.kind # "symbol", NEW t, NEW f,
         \A y \in Parts(e) : f[<<y, t>>] \subseteq Int32
  PROVE  EvalCase(i, e, t, f) = Result(e, f, t)
<1>0. \A y \in Exprs : y.kind = "integer" => y.integer \in 0 .. IntMod - 1
  BY ExprIs, HalfType DEF LiteralsFit
<1>1. CASE e.kind = "integer"
  <2>1. EvalCase(i, e, t, f) = IF Literal(e.integer) \in Int32 THEN {Literal(e.integer)} ELSE {}
    BY <1>1 DEF EvalCase
  <2> QED  BY <1>0, <1>1, <2>1, LiteralIs DEF Result
<1>2. CASE e.kind = "neg" /\ e.neg.kind = "integer"
  <2>1. EvalCase(i, e, t, f) = IF Literal(e.neg.integer) <= IntMod \div 2
                               THEN {ToInt(-Literal(e.neg.integer))} ELSE {}
    BY <1>2 DEF EvalCase
  <2>2. e.neg.integer \in 0 .. IntMod - 1
    BY <1>0, <1>2, ExprIs
  <2>3. Result(e, f, t) = {-e.neg.integer} \intersect Int32
    BY <1>2 DEF Result
  <2> QED  BY <2>1, <2>2, <2>3, LiteralIs
<1>3. CASE e.kind = "neg" /\ e.neg.kind # "integer"
  <2>1. PICK S : S = f[<<e.neg, t>>] /\ S \subseteq Int32
    BY <1>3 DEF Parts
  <2>2. EvalCase(i, e, t, f)
          = UNION {IF ToInt(-v) # -(IntMod \div 2) THEN {ToInt(-v)} ELSE {} : v \in S}
    BY <1>3, <2>1 DEF EvalCase
  <2>3. EvalCase(i, e, t, f) = UNION {{-v} \intersect Int32 : v \in S}
    BY <2>1, <2>2, NegatedIs
  <2>4. Result(e, f, t) = {-v : v \in S} \intersect Int32
    BY <1>3, <2>1 DEF Result
  <2> QED  BY <2>3, <2>4
<1>4. CASE e.kind \in {"plus", "minus"}
  <2>1. PICK L, R : /\ L = f[<<e.left, t>>] /\ R = f[<<e.right, t>>]
                    /\ L \subseteq Int32 /\ R \subseteq Int32
    BY <1>4 DEF Parts
  <2>2. EvalCase(i, e, t, f) = UNION {Combined(e.kind, q[1], q[2]) : q \in L \X R}
    BY <1>4, <2>1 DEF EvalCase
  <2>3. CASE e.kind = "plus"
    <3>1. EvalCase(i, e, t, f) = UNION {{q[1] + q[2]} \intersect Int32 : q \in L \X R}
      BY <2>1, <2>2, <2>3, CombinedIs
    <3>2. Result(e, f, t) = {q[1] + q[2] : q \in L \X R} \intersect Int32
      BY <2>1, <2>3 DEF Result
    <3> QED  BY <3>1, <3>2
  <2>4. CASE e.kind = "minus"
    <3>1. EvalCase(i, e, t, f) = UNION {{q[1] - q[2]} \intersect Int32 : q \in L \X R}
      BY <2>1, <2>2, <2>4, CombinedIs
    <3>2. Result(e, f, t) = {q[1] - q[2] : q \in L \X R} \intersect Int32
      BY <2>1, <2>4 DEF Result
    <3> QED  BY <3>1, <3>2
  <2> QED  BY <1>4, <2>3, <2>4
<1> QED  BY <1>1, <1>2, <1>3, <1>4, ExprIs

LEMMA ResultGrows ==
  ASSUME NEW e \in Exprs, e.kind # "symbol", NEW f, NEW g, NEW t, NEW u,
         \A y \in Parts(e) : f[<<y, t>>] \subseteq g[<<y, u>>]
  PROVE  Result(e, f, t) \subseteq Result(e, g, u)
<1>1. CASE e.kind = "integer"
  BY <1>1 DEF Result
<1>2. CASE e.kind = "neg"
  <2>1. f[<<e.neg, t>>] \subseteq g[<<e.neg, u>>]
    BY <1>2 DEF Parts
  <2> QED  BY <1>2, <2>1 DEF Result
<1>3. CASE e.kind \in {"plus", "minus"}
  <2>1. f[<<e.left, t>>] \subseteq g[<<e.left, u>>] /\ f[<<e.right, t>>] \subseteq g[<<e.right, u>>]
    BY <1>3 DEF Parts
  <2> QED  BY <1>3, <2>1 DEF Result
<1> QED  BY <1>1, <1>2, <1>3, ExprIs

LEMMA ResultSingle ==
  ASSUME NEW e \in Exprs, e.kind # "symbol", NEW f, NEW t,
         \A y \in Parts(e) : \A v, w \in f[<<y, t>>] : v = w
  PROVE  \A v, w \in Result(e, f, t) : v = w
<1>1. CASE e.kind = "integer"
  BY <1>1 DEF Result
<1>2. CASE e.kind = "neg"
  <2>1. \A v, w \in f[<<e.neg, t>>] : v = w
    BY <1>2 DEF Parts
  <2> QED  BY <1>2, <2>1 DEF Result
<1>3. CASE e.kind \in {"plus", "minus"}
  <2>1. /\ \A v, w \in f[<<e.left, t>>] : v = w
        /\ \A v, w \in f[<<e.right, t>>] : v = w
    BY <1>3 DEF Parts
  <2> QED  BY <1>3, <2>1 DEF Result
<1> QED  BY <1>1, <1>2, <1>3, ExprIs

\* What jasm_expr_eval computes of e looks at its parts, and at defines with more
\* names touched.
LEMMA EvalLocal ==
  ASSUME program \in Programs, NEW i \in DOMAIN program, NEW e \in Exprs, NEW t,
         NEW f, NEW g,
         \A x \in Exprs : e.kind = "symbol" /\ e.symbol \notin t =>
           f[<<x, t \union {e.symbol}>>] = g[<<x, t \union {e.symbol}>>],
         \A y \in Parts(e) : f[<<y, t>>] = g[<<y, t>>]
  PROVE  EvalCase(i, e, t, f) = EvalCase(i, e, t, g)
<1>1. CASE e.kind = "integer"
  BY <1>1 DEF EvalCase
<1>2. CASE e.kind = "symbol"
  <2>1. CASE e.symbol \in t
    BY <1>2, <2>1 DEF EvalCase
  <2>2. CASE e.symbol \notin t
    <3>1. \A x \in Define(i, e.symbol) :
            f[<<x, t \union {e.symbol}>>] = g[<<x, t \union {e.symbol}>>]
      BY <1>2, <2>2, DefineIs
    <3>2. {f[<<x, t \union {e.symbol}>>] : x \in Define(i, e.symbol)}
            = {g[<<x, t \union {e.symbol}>>] : x \in Define(i, e.symbol)}
      BY <3>1
    <3>3. \A h : EvalCase(i, e, t, h)
                  = UNION {h[<<x, t \union {e.symbol}>>] : x \in Define(i, e.symbol)}
      BY <1>2, <2>2 DEF EvalCase
    <3> QED  BY <3>2, <3>3, Zenon
  <2> QED  BY <2>1, <2>2
<1>3. CASE e.kind = "neg"
  <2>1. f[<<e.neg, t>>] = g[<<e.neg, t>>]
    BY <1>3 DEF Parts
  <2> QED  BY <1>3, <2>1 DEF EvalCase
<1>4. CASE e.kind \in {"plus", "minus"}
  <2>1. f[<<e.left, t>>] = g[<<e.left, t>>] /\ f[<<e.right, t>>] = g[<<e.right, t>>]
    BY <1>4 DEF Parts
  <2> QED  BY <1>4, <2>1 DEF EvalCase
<1> QED  BY <1>1, <1>2, <1>3, <1>4, ExprIs

LEMMA EvalCaseType ==
  ASSUME LiteralsFit, program \in Programs, NEW i \in DOMAIN program, NEW e \in Exprs, NEW t,
         NEW f,
         \A x \in Exprs : e.kind = "symbol" /\ e.symbol \notin t =>
           f[<<x, t \union {e.symbol}>>] \subseteq Int32,
         \A y \in Parts(e) : f[<<y, t>>] \subseteq Int32
  PROVE  EvalCase(i, e, t, f) \subseteq Int32
<1>1. CASE e.kind = "symbol"
  <2>1. CASE e.symbol \in t
    BY <1>1, <2>1 DEF EvalCase
  <2>2. CASE e.symbol \notin t
    <3>1. \A x \in Define(i, e.symbol) : f[<<x, t \union {e.symbol}>>] \subseteq Int32
      BY <1>1, <2>2, DefineIs
    <3> QED  BY <1>1, <2>2, <3>1 DEF EvalCase
  <2> QED  BY <2>1, <2>2
<1>2. CASE e.kind # "symbol"
  <2>1. EvalCase(i, e, t, f) = Result(e, f, t)
    BY <1>2, EvalResult
  <2> QED  BY <2>1 DEF Result
<1> QED  BY <1>1, <1>2

\* EvalTouched(i) exists.
LEMMA EvalSolved ==
  ASSUME FiniteTrees, LiteralsFit, program \in Programs, NEW i \in DOMAIN program
  PROVE  EvalSolves(i, EvalTouched(i))
<1> DEFINE D == Exprs \X SUBSET Names
           V == SUBSET Int32
           G == [p \in D \X [D -> V] |-> EvalCase(i, p[1][1], p[1][2], p[2])]
<1>1. PICK height \in [Exprs -> Nat] : \A e \in Exprs : \A y \in Parts(e) : height[y] < height[e]
  BY DEF FiniteTrees, Parts
<1>2. PICK mu \in [D -> Nat], nu \in [D -> Nat] :
        \A p \in D : mu[p] = Cardinality(Names) - Cardinality(p[2]) /\ nu[p] = height[p[1]]
  <2>1. \A t \in SUBSET Names : Cardinality(Names) - Cardinality(t) \in Nat
    BY CardinalityType DEF Depths
  <2>2. /\ [p \in D |-> Cardinality(Names) - Cardinality(p[2])] \in [D -> Nat]
        /\ [p \in D |-> height[p[1]]] \in [D -> Nat]
    BY <2>1
  <2> QED  BY <2>2
<1>3. G \in [D \X [D -> V] -> V]
  <2>1. ASSUME NEW e \in Exprs, NEW t \in SUBSET Names, NEW f \in [D -> V]
        PROVE  EvalCase(i, e, t, f) \in V
    <3>1. \A y \in Parts(e) : f[<<y, t>>] \subseteq Int32
      BY ExprIs
    <3>2. \A x \in Exprs : e.kind = "symbol" => f[<<x, t \union {e.symbol}>>] \subseteq Int32
      BY ExprIs
    <3> QED  BY <3>1, <3>2, EvalCaseType
  <2> QED  BY <2>1
<1>4. ASSUME NEW x \in D, NEW f \in [D -> V], NEW g \in [D -> V],
             \A y \in D : Below(mu, nu, y, x) => f[y] = g[y]
      PROVE  G[<<x, f>>] = G[<<x, g>>]
  <2>1. PICK e \in Exprs, t \in SUBSET Names : x = <<e, t>>
    OBVIOUS
  <2>2. ASSUME NEW y \in Exprs, e.kind = "symbol", e.symbol \notin t
        PROVE  f[<<y, t \union {e.symbol}>>] = g[<<y, t \union {e.symbol}>>]
    <3>1. PICK u \in SUBSET Names : /\ u = t \union {e.symbol}
                                    /\ Cardinality(u) = Cardinality(t) + 1
      BY <2>2, ExprIs, CardinalityType
    <3>2. Cardinality(t) \in Int /\ Cardinality(Names) \in Int /\ Cardinality(u) \in Int
      BY CardinalityType DEF Depths
    <3>3. /\ mu[<<y, u>>] = Cardinality(Names) - Cardinality(u)
          /\ mu[x] = Cardinality(Names) - Cardinality(t)
      BY <1>2, <2>1
    <3>4. mu[<<y, u>>] < mu[x]
      BY <3>1, <3>2, <3>3
    <3> QED  BY <1>4, <3>1, <3>4 DEF Below
  <2>3. \A y \in Parts(e) : f[<<y, t>>] = g[<<y, t>>]
    BY <1>1, <1>2, <1>4, <2>1, ExprIs DEF Below
  <2>4. EvalCase(i, e, t, f) = EvalCase(i, e, t, g)
    <3> HIDE DEF D, V, G
    <3> QED  BY <2>2, <2>3, EvalLocal
  <2> QED  BY <2>1, <2>4
<1>5. PICK f \in [D -> V] : \A x \in D : f[x] = G[<<x, f>>]
  <2>1. {} \in V
    OBVIOUS
  <2> HIDE DEF G, V, D
  <2>2. Decreasing(D, mu, nu, V, G)
    BY <1>3, <1>4, <2>1 DEF Decreasing
  <2>3. Solvable(D, V, G)
    BY Zenon, <2>2, RecursionDefines
  <2> QED  BY <2>3 DEF Solvable
<1>6. EvalSolves(i, f)
  <2>1. \A x \in D : f[x] = EvalCase(i, x[1], x[2], f)
    BY <1>5
  <2>2. f = [x \in D |-> f[x]]
    BY <1>5
  <2> QED  BY <2>1, <2>2 DEF EvalSolves
<1>7. EvalTouched(i) = CHOOSE h : EvalSolves(i, h)
  BY ZenonT(60) DEF EvalTouched, EvalSolves, EvalCase
<1> QED  BY Zenon, <1>6, <1>7

-----------------------------------------------------------------------------
(* The values agree.  What is computed is exact, because no define is needed at *)
(* a depth that there are no names left for.  What is exact is computed: the    *)
(* define of a name is met first at the least depth that gives it a value, and  *)
(* there it does not need itself.                                               *)

\* The values that f has at t of the expressions in S.
ValuesOf(S, f, t) == UNION {f[<<x, t>>] : x \in S}

\* The equations.
LEMMA ExactIs ==
  ASSUME FiniteTrees, program \in Programs, NEW i \in DOMAIN program,
         NEW e \in Exprs, NEW d \in Depths
  PROVE  /\ ExactWithin(i)[<<e, d>>] \subseteq Int32
         /\ e.kind = "symbol" /\ d = 0 => ExactWithin(i)[<<e, d>>] = {}
         /\ e.kind = "symbol" /\ d # 0 =>
              ExactWithin(i)[<<e, d>>] = ValuesOf(Define(i, e.symbol), ExactWithin(i), d - 1)
         /\ e.kind # "symbol" => ExactWithin(i)[<<e, d>>] = Result(e, ExactWithin(i), d)
<1> PICK f : f = ExactWithin(i)
  OBVIOUS
<1>1. f = [p \in Exprs \X Depths |-> ExactCase(i, p[1], p[2], f)] /\ f[<<e, d>>] \subseteq Int32
  BY ExactSolved DEF ExactSolves
<1>2. f[<<e, d>>] = ExactCase(i, e, d, f)
  BY <1>1
<1>3. e.kind = "symbol" =>
        ExactCase(i, e, d, f) = IF d = 0 THEN {} ELSE ValuesOf(Define(i, e.symbol), f, d - 1)
  BY DEF ExactCase, ValuesOf
<1>4. e.kind # "symbol" => ExactCase(i, e, d, f) = Result(e, f, d)
  BY ExactResult
<1> QED  BY <1>1, <1>2, <1>3, <1>4

LEMMA EvalIs ==
  ASSUME FiniteTrees, LiteralsFit, program \in Programs, NEW i \in DOMAIN program,
         NEW e \in Exprs, NEW t \in SUBSET Names
  PROVE  /\ e.kind = "symbol" /\ e.symbol \in t => EvalTouched(i)[<<e, t>>] = {}
         /\ e.kind = "symbol" /\ e.symbol \notin t =>
              EvalTouched(i)[<<e, t>>]
                = ValuesOf(Define(i, e.symbol), EvalTouched(i), t \union {e.symbol})
         /\ e.kind # "symbol" /\ (\A y \in Parts(e) : EvalTouched(i)[<<y, t>>] \subseteq Int32) =>
              EvalTouched(i)[<<e, t>>] = Result(e, EvalTouched(i), t)
<1> PICK f : f = EvalTouched(i)
  OBVIOUS
<1>1. f = [p \in Exprs \X SUBSET Names |-> EvalCase(i, p[1], p[2], f)]
  BY EvalSolved DEF EvalSolves
<1>2. f[<<e, t>>] = EvalCase(i, e, t, f)
  BY <1>1
<1>3. e.kind = "symbol" =>
        EvalCase(i, e, t, f) = IF e.symbol \in t THEN {}
                               ELSE ValuesOf(Define(i, e.symbol), f, t \union {e.symbol})
  BY DEF EvalCase, ValuesOf
<1> QED  BY <1>2, <1>3, EvalResult

\* An expression has one value or none.
LEMMA ExactSingle ==
  ASSUME FiniteTrees, program \in Programs, NEW i \in DOMAIN program,
         NEW e \in Exprs, NEW d \in Depths
  PROVE  \A v, w \in ExactWithin(i)[<<e, d>>] : v = w
<1> PICK f : f = ExactWithin(i)
  OBVIOUS
<1> DEFINE good == {p \in Exprs \X Depths : \A v, w \in f[p] : v = w}
<1>1. ASSUME NEW x \in Exprs, NEW c \in Depths,
             \A y \in Exprs, b \in Depths : b < c => <<y, b>> \in good,
             \A y \in Parts(x) : <<y, c>> \in good
      PROVE  <<x, c>> \in good
  <2>1. CASE x.kind # "symbol"
    <3>1. \A y \in Parts(x) : \A v, w \in f[<<y, c>>] : v = w
      BY <1>1
    <3>2. f[<<x, c>>] = Result(x, f, c)
      BY <2>1, ExactIs
    <3>3. \A v, w \in Result(x, f, c) : v = w
      BY <2>1, <3>1, ResultSingle
    <3> QED  BY <3>2, <3>3
  <2>2. CASE x.kind = "symbol" /\ c # 0
    <3>1. PICK b \in Depths : b = c - 1 /\ b < c
      BY <2>2, CardinalityType DEF Depths
    <3>2. f[<<x, c>>] = ValuesOf(Define(i, x.symbol), f, b)
      BY <2>2, <3>1, ExactIs
    <3>3. /\ \A y \in Define(i, x.symbol) : \A v, w \in f[<<y, b>>] : v = w
          /\ \A y, z \in Define(i, x.symbol) : y = z
      BY <1>1, <3>1, DefineIs
    <3>4. ASSUME NEW v \in f[<<x, c>>], NEW w \in f[<<x, c>>]
          PROVE  v = w
      <4>1. PICK y \in Define(i, x.symbol) : v \in f[<<y, b>>]
        BY <3>2 DEF ValuesOf
      <4>2. PICK z \in Define(i, x.symbol) : w \in f[<<z, b>>]
        BY <3>2 DEF ValuesOf
      <4> QED  BY <3>3, <4>1, <4>2
    <3> QED  BY <3>4
  <2>3. CASE x.kind = "symbol" /\ c = 0
    BY <2>3, ExactIs
  <2> QED  BY <2>1, <2>2, <2>3
<1>2. <<e, d>> \in good
  <2> HIDE DEF good
  <2> QED  BY <1>1, CardinalityType, ByParts DEF Depths
<1> QED  BY <1>2

\* A value that is found is found at greater depths too.
LEMMA ExactDeeper ==
  ASSUME FiniteTrees, program \in Programs, NEW i \in DOMAIN program,
         NEW e \in Exprs, NEW d \in Depths, NEW c \in Depths, d <= c
  PROVE  ExactWithin(i)[<<e, d>>] \subseteq ExactWithin(i)[<<e, c>>]
<1> PICK f : f = ExactWithin(i)
  OBVIOUS
<1> DEFINE good == {p \in Exprs \X Depths : \A b \in Depths : p[2] <= b => f[p] \subseteq f[<<p[1], b>>]}
<1>1. ASSUME NEW x \in Exprs, NEW a \in Depths,
             \A y \in Exprs, b \in Depths : b < a => <<y, b>> \in good,
             \A y \in Parts(x) : <<y, a>> \in good
      PROVE  <<x, a>> \in good
  <2> SUFFICES ASSUME NEW b \in Depths, a <= b
               PROVE  f[<<x, a>>] \subseteq f[<<x, b>>]
    OBVIOUS
  <2>1. CASE x.kind # "symbol"
    <3>1. \A y \in Parts(x) : f[<<y, a>>] \subseteq f[<<y, b>>]
      BY <1>1
    <3>2. f[<<x, a>>] = Result(x, f, a) /\ f[<<x, b>>] = Result(x, f, b)
      BY <2>1, ExactIs
    <3>3. Result(x, f, a) \subseteq Result(x, f, b)
      BY <2>1, <3>1, ResultGrows
    <3> QED  BY <3>2, <3>3
  <2>2. CASE x.kind = "symbol" /\ a # 0
    <3>1. a - 1 \in Depths /\ a - 1 < a /\ b - 1 \in Depths /\ a - 1 <= b - 1 /\ b # 0
      BY <2>2, CardinalityType DEF Depths
    <3>2. /\ f[<<x, a>>] = ValuesOf(Define(i, x.symbol), f, a - 1)
          /\ f[<<x, b>>] = ValuesOf(Define(i, x.symbol), f, b - 1)
      BY <2>2, <3>1, ExactIs
    <3>3. \A y \in Define(i, x.symbol) : f[<<y, a - 1>>] \subseteq f[<<y, b - 1>>]
      BY <1>1, <3>1, DefineIs
    <3> QED  BY ZenonT(60), <3>2, <3>3 DEF ValuesOf
  <2>3. CASE x.kind = "symbol" /\ a = 0
    BY <2>3, ExactIs
  <2> QED  BY <2>1, <2>2, <2>3
<1>2. <<e, d>> \in good
  <2> HIDE DEF good
  <2> QED  BY <1>1, CardinalityType, ByParts DEF Depths
<1> QED  BY <1>2

\* What is computed when the names in t are touched is exact at every depth that is
\* enough for the other names.
LEMMA EvalWithinExact ==
  ASSUME FiniteTrees, LiteralsFit, program \in Programs, NEW i \in DOMAIN program,
         NEW e \in Exprs, NEW d \in Depths,
         NEW t \in SUBSET Names, Cardinality(Names) <= Cardinality(t) + d
  PROVE  EvalTouched(i)[<<e, t>>] \subseteq ExactWithin(i)[<<e, d>>]
<1> PICK f, g : f = EvalTouched(i) /\ g = ExactWithin(i)
  OBVIOUS
<1> DEFINE good == {p \in Exprs \X Depths :
                      \A u \in SUBSET Names : Cardinality(Names) <= Cardinality(u) + p[2] =>
                        f[<<p[1], u>>] \subseteq g[p]}
<1>1. ASSUME NEW x \in Exprs, NEW c \in Depths,
             \A y \in Exprs, b \in Depths : b < c => <<y, b>> \in good,
             \A y \in Parts(x) : <<y, c>> \in good
      PROVE  <<x, c>> \in good
  <2> SUFFICES ASSUME NEW u \in SUBSET Names, Cardinality(Names) <= Cardinality(u) + c
               PROVE  f[<<x, u>>] \subseteq g[<<x, c>>]
    OBVIOUS
  <2>1. CASE x.kind # "symbol"
    <3>1. \A y \in Parts(x) : f[<<y, u>>] \subseteq g[<<y, c>>]
      BY <1>1
    <3>2. \A y \in Parts(x) : g[<<y, c>>] \subseteq Int32
      BY ExactIs, ExprIs
    <3>3. f[<<x, u>>] = Result(x, f, u)
      BY <2>1, <3>1, <3>2, EvalIs
    <3>4. g[<<x, c>>] = Result(x, g, c)
      BY <2>1, ExactIs
    <3>5. Result(x, f, u) \subseteq Result(x, g, c)
      BY <2>1, <3>1, ResultGrows
    <3> QED  BY <3>3, <3>4, <3>5
  <2>2. CASE x.kind = "symbol" /\ x.symbol \in u
    BY <2>2, EvalIs
  <2>3. CASE x.kind = "symbol" /\ x.symbol \notin u
    <3>1. PICK more \in SUBSET Names : more = u \union {x.symbol}
      BY <2>3, ExprIs
    <3>2. PICK size, all, moreSize : /\ size = Cardinality(u) /\ all = Cardinality(Names)
                                     /\ moreSize = Cardinality(more)
      OBVIOUS
    <3>3. /\ moreSize = size + 1 /\ size < all
          /\ size \in Nat /\ all \in Nat /\ c \in 0 .. all
      BY <2>3, <3>1, <3>2, ExprIs, CardinalityType DEF Depths
    <3>4. c # 0 /\ c - 1 \in Depths /\ c - 1 < c /\ all <= moreSize + (c - 1)
      BY <3>2, <3>3 DEF Depths
    <3>5. \A y \in Define(i, x.symbol) : f[<<y, more>>] \subseteq g[<<y, c - 1>>]
      BY <1>1, <3>2, <3>4, DefineIs
    <3>6. f[<<x, u>>] = ValuesOf(Define(i, x.symbol), f, more)
      BY <2>3, <3>1, EvalIs
    <3>7. g[<<x, c>>] = ValuesOf(Define(i, x.symbol), g, c - 1)
      BY <2>3, <3>4, ExactIs
    <3> QED  BY ZenonT(60), <3>5, <3>6, <3>7 DEF ValuesOf
  <2> QED  BY <2>1, <2>2, <2>3
<1>2. <<e, d>> \in good
  <2> HIDE DEF good
  <2> QED  BY <1>1, CardinalityType, ByParts DEF Depths
<1> QED  BY <1>2

\* No define of a name in t has a value at a depth below d.
Blocked(i, t, d) ==
  \A name \in t : \A x \in Define(i, name) : \A c \in Depths : c < d => ExactWithin(i)[<<x, c>>] = {}

LEMMA ExactWithinEval ==
  ASSUME FiniteTrees, LiteralsFit, program \in Programs, NEW i \in DOMAIN program,
         NEW e \in Exprs, NEW d \in Depths, NEW t \in SUBSET Names, Blocked(i, t, d)
  PROVE  ExactWithin(i)[<<e, d>>] \subseteq EvalTouched(i)[<<e, t>>]
<1> PICK f, g : f = EvalTouched(i) /\ g = ExactWithin(i)
  OBVIOUS
<1> DEFINE good == {p \in Exprs \X Depths :
                      \A u \in SUBSET Names : Blocked(i, u, p[2]) => g[p] \subseteq f[<<p[1], u>>]}
<1>1. ASSUME NEW x \in Exprs, NEW c \in Depths,
             \A y \in Exprs, b \in Depths : b < c => <<y, b>> \in good,
             \A y \in Parts(x) : <<y, c>> \in good
      PROVE  <<x, c>> \in good
  <2> SUFFICES ASSUME NEW u \in SUBSET Names, Blocked(i, u, c)
               PROVE  g[<<x, c>>] \subseteq f[<<x, u>>]
    OBVIOUS
  <2>1. CASE x.kind # "symbol"
    <3>1. \A y \in Parts(x) : g[<<y, c>>] \subseteq f[<<y, u>>]
      BY <1>1
    <3>2. \A y \in Parts(x) : f[<<y, u>>] \subseteq Int32
      <4> SUFFICES ASSUME NEW y \in Parts(x) PROVE f[<<y, u>>] \subseteq Int32
        OBVIOUS
      <4>1. PICK all \in Depths : all = Cardinality(Names)
        BY CardinalityType DEF Depths
      <4>2. y \in Exprs /\ Cardinality(Names) <= Cardinality(u) + all
        BY <4>1, CardinalityType, ExprIs DEF Depths
      <4>3. f[<<y, u>>] \subseteq g[<<y, all>>]
        BY <4>2, EvalWithinExact
      <4>4. g[<<y, all>>] \subseteq Int32
        BY <4>2, ExactIs
      <4> QED  BY <4>3, <4>4
    <3>3. f[<<x, u>>] = Result(x, f, u)
      BY <2>1, <3>2, EvalIs
    <3>4. g[<<x, c>>] = Result(x, g, c)
      BY <2>1, ExactIs
    <3>5. Result(x, g, c) \subseteq Result(x, f, u)
      BY <2>1, <3>1, ResultGrows
    <3> QED  BY <3>3, <3>4, <3>5
  <2>2. CASE x.kind = "symbol" /\ c = 0
    BY <2>2, ExactIs
  <2>3. CASE x.kind = "symbol" /\ c # 0
    <3> SUFFICES ASSUME NEW v \in g[<<x, c>>]
                 PROVE  v \in f[<<x, u>>]
      OBVIOUS
    <3>1. c - 1 \in Depths /\ c - 1 < c
      BY <2>3, CardinalityType DEF Depths
    <3>2. PICK y \in Define(i, x.symbol) : v \in g[<<y, c - 1>>]
      BY <2>3, ExactIs DEF ValuesOf
    <3>3. y \in Exprs /\ \A z \in Define(i, x.symbol) : z = y
      BY <3>2, DefineIs
    <3>4. PICK b \in Depths : /\ g[<<y, b>>] # {}
                              /\ \A a \in Depths : g[<<y, a>>] # {} => b <= a
      <4>1. {a \in Depths : g[<<y, a>>] # {}} \in SUBSET Nat
        BY DEF Depths
      <4>2. {a \in Depths : g[<<y, a>>] # {}} # {}
        BY <3>1, <3>2
      <4> QED  BY <4>1, <4>2, LeastNatural
    <3>5. b <= c - 1 /\ b < c
      BY <3>1, <3>2, <3>4 DEF Depths
    <3>6. v \in g[<<y, b>>]
      <4>1. PICK w \in g[<<y, b>>] : TRUE
        BY <3>4
      <4>2. w \in g[<<y, c - 1>>]
        BY <3>1, <3>3, <3>5, <4>1, ExactDeeper
      <4>3. w = v
        BY <3>1, <3>2, <3>3, <4>2, ExactSingle
      <4> QED  BY <4>1, <4>3
    <3>7. x.symbol \notin u
      <4>1. g[<<y, c - 1>>] # {}
        BY <3>2
      <4> QED  BY <3>1, <3>2, <4>1 DEF Blocked
    <3>8. PICK more \in SUBSET Names : more = u \union {x.symbol}
      BY <2>3, ExprIs
    <3>9. Blocked(i, more, b)
      <4> SUFFICES ASSUME NEW name \in more, NEW z \in Define(i, name), NEW a \in Depths, a < b
                   PROVE  g[<<z, a>>] = {}
        BY Zenon DEF Blocked
      <4>1. a < c /\ ~(b <= a)
        BY <3>5, CardinalityType DEF Depths
      <4>2. CASE name \in u
        BY <4>1, <4>2 DEF Blocked
      <4>3. CASE name = x.symbol
        BY <3>3, <3>4, <4>1, <4>3
      <4> QED  BY <3>8, <4>2, <4>3
    <3>10. v \in f[<<y, more>>]
      BY <1>1, <3>3, <3>5, <3>6, <3>9
    <3>11. f[<<x, u>>] = ValuesOf(Define(i, x.symbol), f, more)
      BY <2>3, <3>7, <3>8, EvalIs
    <3> QED  BY <3>2, <3>10, <3>11 DEF ValuesOf
  <2> QED  BY <2>1, <2>2, <2>3
<1>2. <<e, d>> \in good
  <2> HIDE DEF good
  <2> QED  BY <1>1, CardinalityType, ByParts DEF Depths
<1> QED  BY <1>2

\* jasm_expr_eval gives every expression its exact value.
LEMMA ExprExact ==
  ASSUME FiniteTrees, LiteralsFit, program \in Programs, NEW i \in DOMAIN program, NEW e \in Exprs
  PROVE  Eval(i)[e] = Exact(i)[e] /\ \A v, w \in Eval(i)[e] : v = w
<1>1. PICK all \in Depths : all = Cardinality(Names)
  BY CardinalityType DEF Depths
<1>2. {} \in SUBSET Names /\ Cardinality(Names) <= Cardinality({}) + all /\ Blocked(i, {}, all)
  BY <1>1, FS_EmptySet, CardinalityType DEF Blocked
<1>3. EvalTouched(i)[<<e, {}>>] = ExactWithin(i)[<<e, all>>]
  BY <1>2, EvalWithinExact, ExactWithinEval
<1>4. ExactWithin(i)[<<e, all>>] \subseteq Int32 /\ \A v, w \in ExactWithin(i)[<<e, all>>] : v = w
  BY ExactIs, ExactSingle
<1> QED  BY <1>1, <1>3, <1>4 DEF Eval, Exact

\* The expressions that are evaluated are those of the program.
LEMMA EvaluatedType ==
  ASSUME program \in Programs, NEW i \in DOMAIN program
  PROVE  Evaluated(i) \subseteq Exprs
<1>1. i \in 1 .. Len(program)
  BY ProgramsAssumption
<1>2. Directive(i, "args") \subseteq Exprs /\ Directive(i, "locals") \subseteq Exprs
  BY <1>1, DirectiveIs
<1>3. ASSUME NEW p \in GenericPlaces
      PROVE  OperandsAt(p) \in Seq(Exprs)
  <2>1. p \in Places /\ program[p[1]].insns[p[2]].kind = "generic"
    BY DEF GenericPlaces
  <2>2. PICK h \in DOMAIN program : p \in {h} \X DOMAIN program[h].insns
    BY <2>1 DEF Places
  <2>3. p[1] = h /\ p[2] \in DOMAIN program[h].insns
    BY <2>2
  <2>4. program[h].insns \in Seq(Insns)
    BY ProgramsAssumption
  <2>5. program[h].insns[p[2]] \in Insns /\ program[h].insns[p[2]].kind = "generic"
    BY <2>1, <2>3, <2>4
  <2> QED  BY <2>3, <2>5 DEF OperandsAt, Insns
<1>4. \A p \in GenericPlaces : {OperandsAt(p)[j] : j \in DOMAIN OperandsAt(p)} \subseteq Exprs
  BY <1>3
<1>5. OperandsIn(i) \subseteq Exprs
  BY <1>4 DEF OperandsIn
<1> QED  BY <1>2, <1>5 DEF Evaluated

\* Literals that an int holds are not too long for an unsigned long.
LEMMA FittingLiterals ==
  ASSUME LiteralsFit
  PROVE  ~TooLong(program)
<1>1. IntMod \in Nat /\ IntMod > 0
  BY HalfType
<1>2. IntMod <= IntMod * IntMod
  BY <1>1
<1>3. ASSUME NEW x \in Exprs, x.kind = "integer"
      PROVE  ~(x.integer >= IntMod * IntMod)
  BY <1>1, <1>2, <1>3, ExprsAssumption DEF LiteralsFit
<1> QED  BY <1>3, Zenon DEF TooLong

\* jasm_expr_eval gives the expressions of every program their exact values.
THEOREM ExpressionsAlwaysExact ==
  ASSUME FiniteTrees, LiteralsFit
  PROVE  Spec => []EvalIsExact
<1>1. AssemblyInv => EvalIsExact
  <2> SUFFICES ASSUME program \in Programs PROVE EvalIsExact
    BY DEF AssemblyInv, Typed
  <2> QED  BY EvaluatedType, ExprExact DEF EvalIsExact
<1> QED  BY <1>1, AssemblyAlways, PTL

-----------------------------------------------------------------------------
(* What is known after the first pass. *)

\* The kinds of operands of an instruction, and their number.
KindsOf(item) == Templates[item.mnemonic].operands
CountOf(item) == IF item.kind = "label" THEN 0 ELSE Len(KindsOf(item))

\* The pool has the value at the index, counted from 0.
Pooled(index, value, pool) ==
  index \in Nat /\ index < Len(pool) /\ pool[index + 1] = value

\* The value kept of an operand is one of those of its expression, in the range of
\* its kind; or the index of one of them; or the name it is.
Valued(value, kind, expr, values, pool) ==
  /\ kind = "byte" => value \in values /\ value \in SignedBytes
  /\ kind = "varnum" => value \in values /\ value \in VarNums
  /\ kind = "varnum-wide" => value \in values /\ value \in WideVarNums
  /\ kind = "constant" => \E v \in values : Pooled(value, v, pool)
  /\ kind \in {"label", "method"} => expr.kind = "symbol" /\ value = expr.symbol

\* An instruction is wide if one of its operands needs it, and for no other reason.
WidthIs(item, known, count) ==
  known.wide <=> \E q \in 1 .. count : /\ KindsOf(item)[q] = "varnum-wide"
                                       /\ NeedsWide(known.values[q])

\* What is kept of the first count operands is what they mean.
Meant(item, values, pool, known, count) ==
  item.kind = "generic" =>
    /\ count <= Len(item.operands)
    /\ \A q \in 1 .. count : Valued(known.values[q], KindsOf(item)[q], item.operands[q],
                                    values[item.operands[q]], pool)
    /\ WidthIs(item, known, count)

Complete(item) == item.kind = "generic" => Len(item.operands) = Len(KindsOf(item))

\* The expressions of each method with their values.
Meanings == [i \in 1 .. Len(program) |-> Eval(i)]

\* Instructions that the first pass is past are kept as what they mean.
CheckedMeant ==
  \A i \in 1 .. Len(insns) : \A j \in 1 .. Len(insns[i]) :
    /\ Meant(program[i].insns[j], Meanings[i], cpool, insns[i][j], CountOf(program[i].insns[j]))
    /\ Complete(program[i].insns[j])

\* ... and the operands it has taken of the one it is at.
HereMeant ==
  pass = "check" /\ n > 0 => Meant(program[m].insns[n], Meanings[m], cpool, insn, k)

\* Every method has its address in the pool, where its index says.
MethodsPooled ==
  \A i \in 1 .. Len(methods) : Pooled(methods[i].index, methods[i].address, cpool)

MeaningInv == CheckedMeant /\ HereMeant /\ MethodsPooled

\* A pool that only grew.
Extends(pool, larger) ==
  /\ Len(pool) \in Nat /\ Len(larger) \in Nat /\ Len(pool) <= Len(larger)
  /\ \A c \in 1 .. Len(pool) : larger[c] = pool[c]

\* What an expression is worth depends on the program alone.
LEMMA EvalStays ==
  ASSUME UNCHANGED program
  PROVE  Meanings' = Meanings
<1>1. \A i : Eval(i)' = Eval(i)
  BY SMT DEF Eval, EvalTouched, Define
<1> QED  BY <1>1 DEF Meanings

\* A pool that stays has all it had.
LEMMA ExtendsItself ==
  ASSUME cpool \in Seq(Int), UNCHANGED cpool
  PROVE  Extends(cpool, cpool')
BY DEF Extends

\* The index that is returned is that of the value, in a pool that has all it had.
LEMMA PoolGrows ==
  ASSUME cpool \in Seq(Int), NEW v \in Int
  PROVE  Extends(cpool, PoolWith(v)) /\ Pooled(IndexOf(v), v, PoolWith(v))
<1>1. CASE \E c \in DOMAIN cpool : cpool[c] = v
  <2>1. PICK c : c = (CHOOSE x \in DOMAIN cpool : cpool[x] = v)
    OBVIOUS
  <2>2. c \in 1 .. Len(cpool) /\ cpool[c] = v
    BY <1>1, <2>1
  <2>3. PoolWith(v) = cpool /\ IndexOf(v) = c - 1
    BY <1>1, <2>1 DEF PoolWith, IndexOf
  <2> QED  BY <2>2, <2>3 DEF Extends, Pooled
<1>2. CASE ~ \E c \in DOMAIN cpool : cpool[c] = v
  <2>1. PoolWith(v) = Append(cpool, v) /\ IndexOf(v) = Len(cpool)
    BY <1>2 DEF PoolWith, IndexOf
  <2>2. /\ Len(Append(cpool, v)) = Len(cpool) + 1 /\ Len(cpool) \in Nat
        /\ Append(cpool, v)[Len(cpool) + 1] = v
        /\ \A c \in 1 .. Len(cpool) : Append(cpool, v)[c] = cpool[c]
    OBVIOUS
  <2> QED  BY <2>1, <2>2 DEF Extends, Pooled
<1> QED  BY <1>1, <1>2

\* What is in the pool stays at its index when the pool grows.
LEMMA PooledStays ==
  ASSUME NEW pool, NEW larger, Extends(pool, larger), NEW index, NEW v, Pooled(index, v, pool)
  PROVE  Pooled(index, v, larger)
BY DEF Extends, Pooled

\* So what is kept of an instruction still means the same.
LEMMA MeantStays ==
  ASSUME NEW pool, NEW larger, Extends(pool, larger),
         NEW item, NEW values, NEW known, NEW count, Meant(item, values, pool, known, count)
  PROVE  Meant(item, values, larger, known, count)
<1>1. ASSUME NEW value, NEW kind, NEW expr, NEW vs, Valued(value, kind, expr, vs, pool)
      PROVE  Valued(value, kind, expr, vs, larger)
  BY <1>1, PooledStays DEF Valued
<1> QED  BY Zenon, <1>1 DEF Meant

\* What is known of the instructions before stays.
LEMMA MeaningStays ==
  ASSUME MeaningInv, UNCHANGED <<program, insns, methods>>, Extends(cpool, cpool')
  PROVE  CheckedMeant' /\ MethodsPooled'
<1>1. Meanings' = Meanings
  BY EvalStays
<1>2. CheckedMeant'
  <2>1. ASSUME NEW i \in 1 .. Len(insns), NEW j \in 1 .. Len(insns[i])
        PROVE  /\ Meant(program[i].insns[j], Meanings[i], cpool', insns[i][j], CountOf(program[i].insns[j]))
               /\ Complete(program[i].insns[j])
    BY Zenon, MeantStays DEF MeaningInv, CheckedMeant
  <2> QED  BY Zenon, <1>1, <2>1 DEF CheckedMeant
<1>3. MethodsPooled'
  <2>1. ASSUME NEW i \in 1 .. Len(methods)
        PROVE  Pooled(methods[i].index, methods[i].address, cpool')
    BY Zenon, PooledStays DEF MeaningInv, MethodsPooled
  <2> QED  BY Zenon, <2>1 DEF MethodsPooled
<1> QED  BY <1>2, <1>3

\* A step that checks nothing.
LEMMA MeaningIdle ==
  ASSUME AssemblyInv, MeaningInv, UNCHANGED <<program, insns, methods, cpool>>,
         pass' = "check" => UNCHANGED <<pass, m, n, k, insn>>
  PROVE  MeaningInv'
<1>1. cpool \in Seq(Int)
  BY DEF AssemblyInv, Typed, TypeOK
<1>2. CheckedMeant' /\ MethodsPooled'
  BY <1>1, ExtendsItself, MeaningStays
<1>3. HereMeant'
  <2> SUFFICES ASSUME pass' = "check", n' > 0
               PROVE  Meant(program[m].insns[n], Meanings[m], cpool, insn, k)'
    BY DEF HereMeant
  <2>1. Meant(program[m].insns[n], Meanings[m], cpool, insn, k)
    BY DEF MeaningInv, HereMeant
  <2> QED  BY Zenon, <2>1, EvalStays
<1> QED  BY <1>2, <1>3 DEF MeaningInv

\* An operand is checked.
LEMMA TakeMeant ==
  ASSUME AssemblyInv, MeaningInv, NEW kind, CheckingOperand(kind),
         NEW value, NEW size, NEW wide \in BOOLEAN, Take(value, size, wide),
         cpool' \in Seq(Int), Extends(cpool, cpool'),
         Valued(value, kind, Operand, Eval(m)[Operand], cpool'),
         wide <=> kind = "varnum-wide" /\ NeedsWide(value)
  PROVE  MeaningInv'
<1>1. /\ pass = "check" /\ n > 0 /\ k \in Nat /\ m \in 1 .. Len(program)
      /\ UNCHANGED <<program, pass, m, n, insns, methods>> /\ k' = k + 1
      /\ insn' = [wide |-> insn.wide \/ wide,
                  sizes |-> Append(insn.sizes, insn.sizes[k + 1] + size),
                  values |-> Append(insn.values, value)]
  BY CheckingPlace DEF CheckingOperand, Take
<1>2. CheckedMeant' /\ MethodsPooled' /\ Meanings' = Meanings
  BY <1>1, MeaningStays, EvalStays
<1> PICK item : item = program[m].insns[n]
  OBVIOUS
<1>3. /\ k < Len(item.operands) /\ KindsOf(item)[k + 1] = kind
      /\ item.operands[k + 1] = Operand /\ item.kind = "generic"
      /\ Len(item.operands) \in Nat /\ k + 1 <= Len(item.operands)
  <2>1. k < Len(item.operands) /\ KindsOf(item)[k + 1] = kind
        /\ item.operands[k + 1] = Operand /\ item.kind = "generic"
    BY DEF CheckingOperand, Operand, Here, Kind, Template, KindsOf
  <2>2. item.operands \in Seq(Exprs)
    BY <1>1, <2>1, CheckingPlace, ItemType DEF Item
  <2> QED  BY SMTT(60), <1>1, <2>1, <2>2
<1>4. Meant(item, Meanings[m], cpool', insn, k)
  <2>1. Meant(item, Meanings[m], cpool, insn, k)
    BY <1>1 DEF MeaningInv, HereMeant
  <2> QED  BY Zenon, <2>1, MeantStays
<1>5. Meanings[m] = Eval(m)
  BY <1>1 DEF Meanings
<1>6. /\ insn'.wide = (insn.wide \/ wide) /\ insn'.values[k + 1] = value
      /\ \A q \in 1 .. k : insn'.values[q] = insn.values[q]
  <2>1. insn.values \in Seq(Values) /\ Len(insn.values) = k
    BY <1>1 DEF AssemblyInv, Checking, Typed, Knowledge, Known
  <2>2. insn'.values = Append(insn.values, value) /\ insn'.wide = (insn.wide \/ wide)
    BY <1>1
  <2>3. \A s \in Seq(Values) : /\ Append(s, value)[Len(s) + 1] = value
                               /\ \A q \in 1 .. Len(s) : Append(s, value)[q] = s[q]
    OBVIOUS
  <2> QED  BY Zenon, <2>1, <2>2, <2>3
<1>7. Meant(item, Meanings[m], cpool', insn', k + 1)
  <2>1. WidthIs(item, insn, k)
    BY Zenon, <1>3, <1>4 DEF Meant
  <2>2. WidthIs(item, insn', k + 1)
    <3>1. wide <=> KindsOf(item)[k + 1] = "varnum-wide" /\ NeedsWide(value)
      BY Zenon, <1>3
    <3>2. PICK more : more = insn'
      OBVIOUS
    <3>3. more.wide <=> insn.wide \/ wide
      BY Zenon, <1>6, <3>2
    <3>4. /\ \A q \in 1 .. k + 1 : q \in 1 .. k \/ q = k + 1
          /\ \A q \in 1 .. k : q \in 1 .. k + 1
          /\ k + 1 \in 1 .. k + 1
      BY <1>1
    <3>5. more.values[k + 1] = value /\ \A q \in 1 .. k : more.values[q] = insn.values[q]
      BY Zenon, <1>6, <3>2
    <3>6. WidthIs(item, more, k + 1)
      BY Zenon, <2>1, <3>1, <3>3, <3>4, <3>5 DEF WidthIs
    <3> QED  BY Zenon, <3>2, <3>6
  <2>3. ASSUME NEW q \in 1 .. k + 1
        PROVE  Valued(insn'.values[q], KindsOf(item)[q], item.operands[q],
                      Meanings[m][item.operands[q]], cpool')
    <3>1. CASE q = k + 1
      BY Zenon, <1>3, <1>5, <1>6, <3>1
    <3>2. CASE q # k + 1
      <4>1. q \in 1 .. k
        BY <1>1, <3>2
      <4> QED  BY Zenon, <1>3, <1>4, <1>6, <4>1 DEF Meant
    <3> QED  BY <3>1, <3>2
  <2> QED  BY Zenon, <1>3, <2>2, <2>3 DEF Meant
<1>8. HereMeant'
  BY Zenon, <1>1, <1>2, <1>7 DEF HereMeant
<1> QED  BY <1>2, <1>8 DEF MeaningInv

\* Every operand that is taken is kept as what it means.
LEMMA OperandMeant ==
  ASSUME AssemblyInv, MeaningInv,
         CheckByte \/ CheckVarNum \/ CheckWideVarNum \/ CheckConstant \/ CheckName
  PROVE  MeaningInv'
<1>1. cpool \in Seq(Int)
  BY DEF AssemblyInv, Typed, TypeOK
<1>2. CASE CheckByte
  <2>1. PICK value \in Eval(m)[Operand] \intersect SignedBytes :
          Take(value, 1, FALSE) /\ CheckingOperand("byte") /\ UNCHANGED cpool
    BY <1>2 DEF CheckByte
  <2>2. Valued(value, "byte", Operand, Eval(m)[Operand], cpool')
    BY <2>1 DEF Valued
  <2>3. FALSE <=> "byte" = "varnum-wide" /\ NeedsWide(value)
    OBVIOUS
  <2>4. cpool' \in Seq(Int) /\ Extends(cpool, cpool')
    BY <1>1, <2>1, ExtendsItself
  <2> QED  BY Zenon, <2>1, <2>2, <2>3, <2>4, TakeMeant
<1>3. CASE CheckVarNum
  <2>1. PICK value \in Eval(m)[Operand] \intersect VarNums :
          Take(value, 1, FALSE) /\ CheckingOperand("varnum") /\ UNCHANGED cpool
    BY <1>3 DEF CheckVarNum
  <2>2. Valued(value, "varnum", Operand, Eval(m)[Operand], cpool')
    BY <2>1 DEF Valued
  <2>3. FALSE <=> "varnum" = "varnum-wide" /\ NeedsWide(value)
    OBVIOUS
  <2>4. cpool' \in Seq(Int) /\ Extends(cpool, cpool')
    BY <1>1, <2>1, ExtendsItself
  <2> QED  BY Zenon, <2>1, <2>2, <2>3, <2>4, TakeMeant
<1>4. CASE CheckWideVarNum
  <2>1. PICK value \in Eval(m)[Operand] \intersect WideVarNums :
          /\ Take(value, IF NeedsWide(value) THEN 2 ELSE 1, NeedsWide(value))
          /\ CheckingOperand("varnum-wide") /\ UNCHANGED cpool
    BY <1>4 DEF CheckWideVarNum
  <2>2. Valued(value, "varnum-wide", Operand, Eval(m)[Operand], cpool')
    BY <2>1 DEF Valued
  <2>3. NeedsWide(value) \in BOOLEAN
    BY DEF NeedsWide
  <2> QED  BY <1>1, <2>1, <2>2, <2>3, ExtendsItself, TakeMeant
<1>5. CASE CheckConstant
  <2>1. PICK value \in Eval(m)[Operand] :
          /\ Take(IndexOf(value), 2, FALSE) /\ CheckingOperand("constant")
          /\ cpool' = PoolWith(value)
    BY <1>5 DEF CheckConstant
  <2>2. value \in Int
    BY <2>1, OperandType
  <2>3. /\ Extends(cpool, cpool') /\ Pooled(IndexOf(value), value, cpool') /\ cpool' \in Seq(Int)
    BY <1>1, <2>1, <2>2, PoolGrows, PoolType
  <2>4. Valued(IndexOf(value), "constant", Operand, Eval(m)[Operand], cpool')
    BY <2>1, <2>3 DEF Valued
  <2>5. FALSE <=> "constant" = "varnum-wide" /\ NeedsWide(IndexOf(value))
    OBVIOUS
  <2> QED  BY Zenon, <2>1, <2>3, <2>4, <2>5, TakeMeant
<1>6. CASE CheckName
  <2>1. PICK kind \in {"label", "method"} : CheckingOperand(kind)
    BY <1>6 DEF CheckName
  <2>2. /\ Operand.kind = "symbol" /\ Take(Operand.symbol, 2, FALSE) /\ UNCHANGED cpool
    BY <1>6 DEF CheckName
  <2>3. Valued(Operand.symbol, kind, Operand, Eval(m)[Operand], cpool')
    BY <2>1, <2>2 DEF Valued
  <2> QED  BY <1>1, <2>1, <2>2, <2>3, ExtendsItself, TakeMeant
<1> QED  BY <1>2, <1>3, <1>4, <1>5, <1>6

\* Before the first operand nothing is known.
LEMMA FreshMeant ==
  ASSUME NEW item, NEW values, NEW pool, item.kind = "generic" => item.operands \in Seq(Exprs)
  PROVE  Meant(item, values, pool, Fresh, 0)
<1>1. ~Fresh.wide /\ \A q \in 1 .. 0 : FALSE
  BY DEF Fresh
<1>2. item.kind = "generic" => 0 <= Len(item.operands)
  OBVIOUS
<1> QED  BY Zenon, <1>1, <1>2 DEF Meant, WidthIs

\* A method is entered with its address in the pool; nothing kept before changes.
LEMMA EnterMeant ==
  ASSUME AssemblyInv, MeaningInv, EnterMethod
  PROVE  MeaningInv'
<1>1. /\ pass = "check" /\ n = 0
      /\ methods' = Append(methods, [address |-> pc, index |-> IndexOf(pc)])
      /\ cpool' = PoolWith(pc) /\ insns' = Append(insns, <<>>) /\ n' = 1
      /\ UNCHANGED <<program, pass, m, k, insn>>
  BY DEF EnterMethod
<1>2. /\ program \in Programs /\ m \in 1 .. Len(program) /\ pc \in Nat
      /\ insns \in Seq(Seq(Records)) /\ cpool \in Seq(Int)
      /\ methods \in Seq([address : Nat, index : Nat])
  BY DEF AssemblyInv, Typed, TypeOK
<1>3. /\ Extends(cpool, cpool') /\ Pooled(IndexOf(pc), pc, cpool') /\ Meanings' = Meanings
  BY <1>1, <1>2, PoolGrows, EvalStays
<1>4. MethodsPooled'
  <2>1. ASSUME NEW i \in 1 .. Len(methods')
        PROVE  Pooled(methods'[i].index, methods'[i].address, cpool')
    <3>1. PICK entry : entry = [address |-> pc, index |-> IndexOf(pc)]
      OBVIOUS
    <3>2. entry.address = pc /\ entry.index = IndexOf(pc) /\ methods' = Append(methods, entry)
      BY <1>1, <3>1
    <3>3. \/ i \in 1 .. Len(methods) /\ methods'[i] = methods[i]
          \/ methods'[i] = entry
      BY <1>2, <3>2
    <3>4. CASE i \in 1 .. Len(methods) /\ methods'[i] = methods[i]
      <4>1. Pooled(methods[i].index, methods[i].address, cpool)
        BY <3>4 DEF MeaningInv, MethodsPooled
      <4> QED  BY Zenon, <1>3, <3>4, <4>1, PooledStays
    <3> QED  BY Zenon, <1>3, <3>2, <3>3, <3>4
  <2> QED  BY Zenon, <2>1 DEF MethodsPooled
<1>5. CheckedMeant'
  <2>1. ASSUME NEW i \in 1 .. Len(insns'), NEW j \in 1 .. Len(insns'[i])
        PROVE  /\ Meant(program[i].insns[j], Meanings[i], cpool', insns'[i][j], CountOf(program[i].insns[j]))
               /\ Complete(program[i].insns[j])
    <3>1. i \in 1 .. Len(insns) /\ insns'[i] = insns[i]
      <4>1. \/ i \in 1 .. Len(insns) /\ insns'[i] = insns[i]
            \/ insns'[i] = <<>>
        BY <1>1, <1>2
      <4> QED  BY <4>1
    <3>2. /\ Meant(program[i].insns[j], Meanings[i], cpool, insns[i][j], CountOf(program[i].insns[j]))
          /\ Complete(program[i].insns[j])
      BY Zenon, <3>1 DEF MeaningInv, CheckedMeant
    <3> QED  BY Zenon, <1>3, <3>1, <3>2, MeantStays
  <2> QED  BY Zenon, <1>1, <1>3, <2>1 DEF CheckedMeant
<1>6. HereMeant'
  <2>1. 1 \in 1 .. LastOf(m)
    BY <1>2, ProgramType
  <2>2. program[m].insns[1].kind = "generic" => program[m].insns[1].operands \in Seq(Exprs)
    BY <1>2, <2>1, ItemType DEF Item
  <2>3. k = 0 /\ insn = Fresh
    BY <1>1 DEF AssemblyInv, Checking
  <2>4. Meant(program[m].insns[1], Meanings[m], cpool', Fresh, 0)
    BY Zenon, <2>2, FreshMeant
  <2> QED  BY Zenon, <1>1, <1>3, <2>3, <2>4 DEF HereMeant
<1> QED  BY <1>4, <1>5, <1>6 DEF MeaningInv

\* What is kept of an instruction is what was known of it.
LEMMA KeptMeant ==
  ASSUME AssemblyInv, MeaningInv, pass = "check", n > 0, NEW known,
         Meant(program[m].insns[n], Meanings[m], cpool, known, CountOf(program[m].insns[n])),
         Complete(program[m].insns[n]), Checked(known), insn' = Fresh, k' = 0, NextInsn("emit"),
         UNCHANGED <<program, methods, cpool>>
  PROVE  MeaningInv'
<1>1. PICK record : record = [pc |-> pc, wide |-> known.wide, sizes |-> known.sizes,
                              values |-> known.values]
  OBVIOUS
<1>2. /\ program \in Programs /\ m \in 1 .. Len(program) /\ n \in 1 .. LastOf(m)
      /\ insns \in Seq(Seq(Records)) /\ Len(insns) = m /\ Len(insns[m]) = n - 1
      /\ insns[m] \in Seq(Records) /\ cpool \in Seq(Int)
  BY CheckingPlace DEF AssemblyInv, Typed, TypeOK
<1>3. insns' = [insns EXCEPT ![m] = Append(insns[m], record)] /\ Meanings' = Meanings
  BY <1>1, EvalStays DEF Checked
<1>4. MethodsPooled'
  BY Zenon DEF MeaningInv, MethodsPooled
<1>5. Meant(program[m].insns[n], Meanings[m], cpool, record, CountOf(program[m].insns[n]))
  <2>1. (record.wide <=> known.wide) /\ record.values = known.values
    BY <1>1
  <2> QED  BY Zenon, <2>1 DEF Meant, WidthIs
<1>6. ASSUME NEW i \in 1 .. Len(insns'), NEW j \in 1 .. Len(insns'[i])
      PROVE  \/ i \in 1 .. Len(insns) /\ j \in 1 .. Len(insns[i]) /\ insns'[i][j] = insns[i][j]
             \/ i = m /\ j = n /\ insns'[i][j] = record
  <2>1. i \in 1 .. Len(insns)
    BY <1>2, <1>3
  <2>2. CASE i = m
    <3>1. PICK list : list = Append(insns[m], record)
      OBVIOUS
    <3>2. \A s \in Seq(Records) : /\ Len(Append(s, record)) = Len(s) + 1
                                  /\ Append(s, record)[Len(s) + 1] = record
                                  /\ \A x \in 1 .. Len(s) : Append(s, record)[x] = s[x]
      OBVIOUS
    <3>3. /\ Len(list) = Len(insns[m]) + 1 /\ list[Len(insns[m]) + 1] = record
          /\ \A x \in 1 .. Len(insns[m]) : list[x] = insns[m][x]
      BY Zenon, <1>2, <3>1, <3>2
    <3>4. insns'[i] = list
      BY <1>2, <1>3, <2>2, <3>1
    <3>5. j \in 1 .. n /\ n \in Nat
      BY <1>2, <3>3, <3>4, ProgramType
    <3>6. j \in 1 .. Len(insns[m]) \/ j = Len(insns[m]) + 1
      BY <1>2, <3>5
    <3> QED  BY <1>2, <2>1, <2>2, <3>3, <3>4, <3>5, <3>6
  <2>3. CASE i # m
    <3>1. insns'[i] = insns[i]
      BY <1>2, <1>3, <2>1, <2>3
    <3> QED  BY <2>1, <3>1
  <2> QED  BY <2>2, <2>3
<1>7. CheckedMeant'
  <2>1. ASSUME NEW i \in 1 .. Len(insns'), NEW j \in 1 .. Len(insns'[i])
        PROVE  /\ Meant(program[i].insns[j], Meanings[i], cpool, insns'[i][j], CountOf(program[i].insns[j]))
               /\ Complete(program[i].insns[j])
    BY Zenon, <1>5, <1>6 DEF MeaningInv, CheckedMeant
  <2> QED  BY Zenon, <1>3, <2>1 DEF CheckedMeant
<1>8. HereMeant'
  <2> SUFFICES ASSUME pass' = "check", n' > 0
               PROVE  Meant(program[m].insns[n], Meanings[m], cpool, insn, k)'
    BY DEF HereMeant
  <2>1. m' = m /\ n' = n + 1 /\ n < LastOf(m)
    <3>1. CASE n < LastOf(m) /\ n' = n + 1 /\ UNCHANGED <<m, pass>>
      BY <3>1
    <3>2. n' # 0
      OBVIOUS
    <3> QED  BY <3>1, <3>2 DEF NextInsn, LastOf
  <2>2. n + 1 \in 1 .. LastOf(m)
    BY <1>2, <2>1, ProgramType
  <2>3. program[m].insns[n + 1].kind = "generic" => program[m].insns[n + 1].operands \in Seq(Exprs)
    BY <1>2, <2>2, ItemType DEF Item
  <2>4. Meant(program[m].insns[n + 1], Meanings[m], cpool, Fresh, 0)
    BY Zenon, <2>3, FreshMeant
  <2> QED  BY Zenon, <1>3, <2>1, <2>4
<1> QED  BY <1>4, <1>7, <1>8 DEF MeaningInv

\* A label has nothing to keep.
LEMMA CheckLabelMeant ==
  ASSUME AssemblyInv, MeaningInv, CheckLabel
  PROVE  MeaningInv'
<1>1. /\ pass = "check" /\ n > 0 /\ program[m].insns[n].kind = "label"
      /\ Checked(Fresh) /\ NextInsn("emit") /\ UNCHANGED <<program, k, insn, methods, cpool>>
  BY DEF CheckLabel, Here
<1>2. k = 0 /\ insn = Fresh
  BY <1>1 DEF AssemblyInv, Checking, Known, Item
<1>3. /\ Complete(program[m].insns[n])
      /\ Meant(program[m].insns[n], Meanings[m], cpool, Fresh, CountOf(program[m].insns[n]))
  BY <1>1 DEF Complete, Meant
<1> QED  BY <1>1, <1>2, <1>3, KeptMeant

\* What was found of the operands of an instruction is kept when it ends.
LEMMA EndInsnMeant ==
  ASSUME AssemblyInv, MeaningInv, EndInsn
  PROVE  MeaningInv'
<1> PICK item : item = program[m].insns[n]
  OBVIOUS
<1>1. /\ pass = "check" /\ n > 0 /\ item.kind = "generic"
      /\ Len(KindsOf(item)) = Len(item.operands)
      /\ (k = Len(KindsOf(item)) \/ k = Len(item.operands))
      /\ Checked(insn) /\ NextInsn("emit") /\ insn' = Fresh /\ k' = 0
      /\ UNCHANGED <<program, methods, cpool>>
  BY DEF EndInsn, OperandsChecked, Template, Here, KindsOf
<1>2. CountOf(item) = k /\ Complete(item)
  BY <1>1 DEF CountOf, Complete
<1>3. Meant(item, Meanings[m], cpool, insn, CountOf(item))
  BY <1>1, <1>2 DEF MeaningInv, HereMeant
<1> QED  BY <1>1, <1>2, <1>3, KeptMeant

\* Nothing is kept before the first pass.
LEMMA MeaningInit == Init => MeaningInv
BY DEF Init, MeaningInv, CheckedMeant, HereMeant, MethodsPooled

\* No step of either pass makes what is kept mean something else.
LEMMA MeaningNext == AssemblyInv /\ MeaningInv /\ [Next]_vars => MeaningInv'
<1> SUFFICES ASSUME AssemblyInv, MeaningInv, [Next]_vars PROVE MeaningInv'
  OBVIOUS
<1>1. CASE EnterMethod  BY <1>1, EnterMeant
<1>2. CASE CheckLabel  BY <1>2, CheckLabelMeant
<1>3. CASE CheckByte \/ CheckVarNum \/ CheckWideVarNum \/ CheckConstant \/ CheckName
  BY <1>3, OperandMeant
<1>4. CASE EndInsn  BY <1>4, EndInsnMeant
<1>5. CASE CheckOutOfRange \/ WrongNumberOfOperands \/ NoHeader \/ NameUndefined \/ CheckNoName
  <2>1. UNCHANGED <<program, insns, methods, cpool>> /\ pass' # "check"
    BY SMTT(60), <1>5 DEF CheckOutOfRange, WrongNumberOfOperands, NoHeader, NameUndefined,
                           CheckNoName, Abort
  <2> QED  BY <2>1, MeaningIdle
<1>6. CASE EmitHeader \/ EmitOpcode \/ EmitByte \/ EmitWideVarNum \/ EmitConstant
             \/ EmitLabel \/ EmitMethod
  <2>1. UNCHANGED <<program, insns, methods, cpool>> /\ pass' # "check"
    BY <1>6 DEF EmitHeader, EmitOpcode, EmitByte, EmitWideVarNum, EmitConstant, EmitLabel,
                EmitMethod, Emit, EmittingOperand
  <2> QED  BY <2>1, MeaningIdle
<1>7. CASE EmitNext
  <2>1. UNCHANGED <<program, insns, methods, cpool>> /\ pass' # "check"
    BY <1>7 DEF EmitNext, NextInsn
  <2> QED  BY <2>1, MeaningIdle
<1>8. CASE Finished \/ UNCHANGED vars
  <2>1. UNCHANGED <<program, insns, methods, cpool, pass, m, n, k, insn>>
    BY <1>8 DEF Finished, vars
  <2> QED  BY <2>1, MeaningIdle
<1> QED  BY <1>1, <1>2, <1>3, <1>4, <1>5, <1>6, <1>7, <1>8 DEF Next

-----------------------------------------------------------------------------
(* What the second pass has emitted. *)

\* The bytes have the sequence s at an address.
Holds(bs, at, s) ==
  /\ at \in Nat /\ Len(s) \in Nat /\ at + Len(s) <= Len(bs)
  /\ \A x \in 1 .. Len(s) : bs[at + x] = s[x]

\* The values of .args or .locals in method i.
HeaderValues(i, kind, default) ==
  IF Directive(i, kind) = {} THEN {default}
  ELSE UNION {Eval(i)[e] : e \in Directive(i, kind)}

\* The bytes s are the header of method i.
HeaderOf(s, i) ==
  \E args \in HeaderValues(i, "args", 1), locals \in HeaderValues(i, "locals", 0) :
    s = Int16(args) \o Int16(locals)

\* The opcode of instruction j in method i, with its prefix.
OpcodeOf(i, j) ==
  (IF insns[i][j].wide THEN <<Wide>> ELSE <<>>) \o <<Templates[Item(i, j).mnemonic].opcode>>

\* The bytes s are operand q of instruction j in method i.
OperandOf(s, i, j, q) ==
  LET kind == OperandKinds(i, j)[q]
      value == insns[i][j].values[q]
  IN  \/ kind \in {"byte", "varnum"} /\ s = <<value % ByteMod>>
      \/ kind = "varnum-wide" /\ s = IF NeedsWide(value) THEN Int16(value)
                                     ELSE <<value % ByteMod>>
      \/ kind = "constant" /\ s = Int16(value)
      \/ kind = "label" /\ \E l \in Label(i, value) : s = Int16(insns[i][l].pc - insns[i][j].pc)
      \/ kind = "method" /\ \E index \in MethodIndex(value) : s = Int16(index)

\* Where operand q is, according to the first pass.
PlaceOf(i, j, q) ==
  insns[i][j].pc + (1 + (IF insns[i][j].wide THEN 1 ELSE 0) + insns[i][j].sizes[q])

\* The parts of the method area: the header of a method, where j is 0; the opcode
\* of an instruction, where x is 1; and its operands.
Part(i, j, x) ==
  /\ i \in 1 .. Len(program) /\ j \in 0 .. LastOf(i) /\ x \in Nat /\ x > 0
  /\ j > 0 => Item(i, j).kind = "generic" /\ x <= Count(i, j) + 1

\* The second pass is past a part.
Past(i, j, x) == \/ pass = "done"
                 \/ i < m
                 \/ i = m /\ j < n
                 \/ i = m /\ j = n /\ x <= k

\* The parts are among the bytes, at the addresses of the first pass.
HeaderThere(i) == \E s : HeaderOf(s, i) /\ Holds(bytes, methods[i].address, s)
OpcodeThere(i, j) == Holds(bytes, insns[i][j].pc, OpcodeOf(i, j))
OperandThere(i, j, q) == \E s : OperandOf(s, i, j, q) /\ Holds(bytes, PlaceOf(i, j, q), s)

PartThere(i, j, x) ==
  /\ j = 0 => HeaderThere(i)
  /\ j > 0 /\ x = 1 => OpcodeThere(i, j)
  /\ j > 0 /\ x > 1 => OperandThere(i, j, x - 1)

\* Every part that the second pass is past is there.
EmittedInv ==
  pass \in {"emit", "done"} =>
    \A i, j, x : Part(i, j, x) /\ Past(i, j, x) => PartThere(i, j, x)

\* What is behind changes nothing.
LEMMA HoldsStill ==
  ASSUME NEW S, NEW bs \in Seq(S), NEW what \in Seq(S), NEW at, NEW s, Holds(bs, at, s)
  PROVE  Holds(bs \o what, at, s)
<1>1. Len(bs \o what) = Len(bs) + Len(what) /\ Len(bs) \in Nat /\ Len(what) \in Nat
  BY ConcatProperties, LenProperties
<1>2. ASSUME NEW x \in 1 .. Len(s)
      PROVE  (bs \o what)[at + x] = s[x]
  <2>1. at + x \in 1 .. Len(bs) /\ bs[at + x] = s[x]
    BY <1>1 DEF Holds
  <2>2. (bs \o what)[at + x] = bs[at + x]
    BY <2>1, ConcatProperties
  <2> QED  BY <2>1, <2>2
<1>3. at \in Nat /\ Len(s) \in Nat /\ at + Len(s) <= Len(bs \o what)
  BY <1>1 DEF Holds
<1> QED  BY <1>2, <1>3 DEF Holds

\* What is emitted is behind what has been emitted.
LEMMA HoldsNew ==
  ASSUME NEW S, NEW bs \in Seq(S), NEW what \in Seq(S)
  PROVE  Holds(bs \o what, Len(bs), what)
<1>1. Len(bs \o what) = Len(bs) + Len(what) /\ Len(bs) \in Nat /\ Len(what) \in Nat
  BY ConcatProperties, LenProperties
<1>2. ASSUME NEW x \in 1 .. Len(what)
      PROVE  (bs \o what)[Len(bs) + x] = what[x]
  <2>1. Len(bs) + x \in Len(bs) + 1 .. Len(bs) + Len(what) /\ (Len(bs) + x) - Len(bs) = x
    BY <1>1
  <2>2. (bs \o what)[Len(bs) + x] = what[(Len(bs) + x) - Len(bs)]
    BY <2>1, ConcatProperties
  <2> QED  BY <2>1, <2>2
<1> QED  BY <1>1, <1>2 DEF Holds

\* What has been emitted depends on nothing but the bytes and the first pass.
LEMMA PartsSame ==
  ASSUME UNCHANGED <<program, insns, methods>>
  PROVE  /\ \A i, s : HeaderOf(s, i)' <=> HeaderOf(s, i)
         /\ \A i, j : OpcodeOf(i, j)' = OpcodeOf(i, j)
         /\ \A i, j, q, s : OperandOf(s, i, j, q)' <=> OperandOf(s, i, j, q)
         /\ \A i, j, q : PlaceOf(i, j, q)' = PlaceOf(i, j, q)
         /\ \A i, j, x : Part(i, j, x)' <=> Part(i, j, x)
<1>1. \A i, j : /\ Item(i, j)' = Item(i, j) /\ OperandKinds(i, j)' = OperandKinds(i, j)
                /\ LastOf(i)' = LastOf(i) /\ Count(i, j)' = Count(i, j)
  BY DEF Item, OperandKinds, LastOf, Count
<1>2. /\ \A i, name : Label(i, name)' = Label(i, name)
      /\ \A name : MethodNamed(name)' = MethodNamed(name)
  BY DEF Label, LabelsNamed, MethodNamed, First
<1>3. \A name : MethodIndex(name)' = MethodIndex(name)
  BY <1>2 DEF MethodIndex
<1>4. \A i : Eval(i)' = Eval(i)
  BY SMT DEF Eval, EvalTouched, Define
<1>5. \A i, kind : Directive(i, kind)' = Directive(i, kind)
  BY DEF Directive
<1>6. \A i, kind, default : HeaderValues(i, kind, default)' = HeaderValues(i, kind, default)
  BY <1>4, <1>5 DEF HeaderValues
<1>7. \A i, s : HeaderOf(s, i)' <=> HeaderOf(s, i)
  BY Zenon, <1>6 DEF HeaderOf
<1>8. \A i, j, q, s : OperandOf(s, i, j, q)' <=> OperandOf(s, i, j, q)
  BY SMT, <1>1, <1>2, <1>3 DEF OperandOf
<1> QED  BY <1>1, <1>7, <1>8 DEF OpcodeOf, PlaceOf, Part

\* A part that is there stays there when bytes are put behind it.
LEMMA PartsStay ==
  ASSUME bytes \in Seq(0 .. ByteMod - 1), NEW what \in Seq(0 .. ByteMod - 1),
         bytes' = bytes \/ bytes' = bytes \o what, UNCHANGED <<program, insns, methods>>,
         NEW i, NEW j, NEW x, PartThere(i, j, x)
  PROVE  PartThere(i, j, x)'
<1>1. \A at, s : Holds(bytes, at, s) => Holds(bytes', at, s)
  BY Zenon, HoldsStill
<1>2. HeaderThere(i) => HeaderThere(i)'
  BY Zenon, <1>1, PartsSame DEF HeaderThere
<1>3. OpcodeThere(i, j) => OpcodeThere(i, j)'
  BY Zenon, <1>1, PartsSame DEF OpcodeThere
<1>4. \A q : OperandThere(i, j, q) => OperandThere(i, j, q)'
  BY Zenon, <1>1, PartsSame DEF OperandThere
<1> QED  BY Zenon, <1>2, <1>3, <1>4 DEF PartThere

\* A step of the second pass, when the parts it gets past are there.
LEMMA EmittedMore ==
  ASSUME AssemblyInv, EmittedInv, pass = "emit", NEW what \in Seq(0 .. ByteMod - 1),
         bytes' = bytes \/ bytes' = bytes \o what, UNCHANGED <<program, insns, methods>>,
         ASSUME NEW i, NEW j, NEW x, Part(i, j, x), Past(i, j, x)'
         PROVE  Past(i, j, x) \/ PartThere(i, j, x)'
  PROVE  EmittedInv'
<1>1. bytes \in Seq(0 .. ByteMod - 1)
  BY EmittingPlace
<1>2. ASSUME NEW i, NEW j, NEW x, Part(i, j, x)', Past(i, j, x)'
      PROVE  PartThere(i, j, x)'
  <2>1. Part(i, j, x)
    BY Zenon, <1>2, PartsSame
  <2>2. CASE Past(i, j, x)
    <3>1. PartThere(i, j, x)
      BY Zenon, <2>1, <2>2 DEF EmittedInv
    <3> QED  BY <1>1, <3>1, PartsStay
  <2> QED  BY Zenon, <1>2, <2>1, <2>2
<1> QED  BY Zenon, <1>2 DEF EmittedInv

\* The header is emitted where the first pass has the method.
LEMMA HeaderEmitted ==
  ASSUME AssemblyInv, EmittedInv, EmitHeader
  PROVE  EmittedInv'
<1>1. /\ pass = "emit" /\ n = 0 /\ n' = 1
      /\ UNCHANGED <<program, pass, m, k, pc, insn, insns, methods, cpool>>
  BY DEF EmitHeader
<1>2. PICK args \in DirectiveValue("args", 1), locals \in DirectiveValue("locals", 0) :
        bytes' = bytes \o Int16(args) \o Int16(locals)
  BY DEF EmitHeader
<1>3. args \in Int /\ locals \in Int
  BY DirectiveValueType DEF AssemblyInv
<1> DEFINE what == Int16(args) \o Int16(locals)
<1>4. /\ Int16(args) \in Seq(0 .. ByteMod - 1) /\ Int16(locals) \in Seq(0 .. ByteMod - 1)
      /\ what \in Seq(0 .. ByteMod - 1)
  BY <1>3, Int16Type, ConcatProperties
<1>5. /\ bytes \in Seq(0 .. ByteMod - 1) /\ m \in Nat /\ k = 0 /\ Len(bytes) = methods[m].address
  BY <1>1, EmittingPlace DEF AssemblyInv, Emitting, PassesAgree
<1>6. bytes' = bytes \o what
  <2>1. (bytes \o Int16(args)) \o Int16(locals) = bytes \o (Int16(args) \o Int16(locals))
    BY SMTT(60), <1>4, <1>5, ConcatAssociative
  <2> QED  BY <1>2, <2>1
<1>7. HeaderOf(what, m)
  BY <1>2 DEF HeaderOf, HeaderValues, DirectiveValue
<1> HIDE DEF what
<1>8. Holds(bytes', methods[m].address, what)
  BY <1>4, <1>5, <1>6, HoldsNew
<1>9. PICK M : M = m
  OBVIOUS
<1>10. HeaderThere(M)'
  <2>1. HeaderOf(what, M)'
    BY Zenon, <1>1, <1>7, <1>9, PartsSame
  <2>2. Holds(bytes', methods'[M].address, what)
    BY <1>1, <1>8, <1>9
  <2> QED  BY Zenon, <2>1, <2>2 DEF HeaderThere
<1>11. ASSUME NEW i, NEW j, NEW x, Part(i, j, x), Past(i, j, x)'
       PROVE  Past(i, j, x) \/ PartThere(i, j, x)'
  <2>1. Past(i, j, x) \/ (i = M /\ j = 0)
    BY <1>1, <1>5, <1>9, <1>11 DEF Past, Part
  <2>2. j = 0 => ~(j > 0)
    OBVIOUS
  <2> QED  BY Zenon, <1>10, <2>1, <2>2 DEF PartThere
<1> QED  BY Zenon, <1>1, <1>4, <1>6, <1>11, EmittedMore

\* The next part of an instruction is emitted.
LEMMA PartEmitted ==
  ASSUME AssemblyInv, EmittedInv, pass = "emit", n > 0,
         NEW what \in Seq(0 .. ByteMod - 1), Emit(what),
         NEW M, NEW N, NEW K, M = m, N = n, K = k, PartThere(M, N, K + 1)'
  PROVE  EmittedInv'
<1>1. /\ bytes' = bytes \o what /\ k' = k + 1
      /\ UNCHANGED <<program, pass, m, n, insns, methods>>
  BY DEF Emit
<1>2. k \in Nat
  BY EmittingPlace
<1>3. ASSUME NEW i, NEW j, NEW x, Part(i, j, x), Past(i, j, x)'
      PROVE  Past(i, j, x) \/ PartThere(i, j, x)'
  <2>1. Past(i, j, x) \/ (i = M /\ j = N /\ x = K + 1)
    BY <1>1, <1>2, <1>3 DEF Past, Part
  <2> QED  BY Zenon, <2>1
<1> QED  BY Zenon, <1>1, <1>3, EmittedMore

\* The opcode is emitted, behind its prefix, where the first pass put the instruction.
LEMMA OpcodeEmitted ==
  ASSUME AssemblyInv, EmittedInv, EmitOpcode
  PROVE  EmittedInv'
<1>1. /\ pass = "emit" /\ n > 0 /\ k = 0 /\ Item(m, n).kind = "generic"
      /\ Emit(OpcodeOf(m, n))
  BY DEF EmitOpcode, OpcodeOf, Item, Here, Template
<1>2. OpcodeOf(m, n) \in Seq(0 .. ByteMod - 1)
  <2>1. n \in 1 .. LastOf(m) /\ program \in Programs /\ m \in 1 .. Len(program)
    BY <1>1, EmittingPlace
  <2>2. Templates[Item(m, n).mnemonic].opcode \in 0 .. ByteMod - 1
    BY <1>1, <2>1, ItemType
  <2>3. Wide \in 0 .. ByteMod - 1
    BY TemplatesAssumption
  <2>4. /\ <<Wide>> \in Seq(0 .. ByteMod - 1) /\ <<>> \in Seq(0 .. ByteMod - 1)
        /\ <<Templates[Item(m, n).mnemonic].opcode>> \in Seq(0 .. ByteMod - 1)
    BY <2>2, <2>3
  <2> QED  BY <2>4, ConcatProperties DEF OpcodeOf
<1>3. /\ bytes' = bytes \o OpcodeOf(m, n)
      /\ UNCHANGED <<program, pass, m, n, insns, methods>>
  BY <1>1 DEF Emit
<1>4. bytes \in Seq(0 .. ByteMod - 1) /\ n \in Nat
  BY <1>1, EmittingPlace
<1>5. Len(bytes) = insns[m][n].pc
  <2>1. n \in 1 .. LastOf(m)
    BY <1>1, EmittingPlace
  <2>2. insns[m][n].pc \in Nat
    BY <1>1, <2>1, EmittingPlace DEF Records
  <2> QED  BY <1>1, <2>2 DEF AssemblyInv, PassesAgree
<1>6. Holds(bytes', insns[m][n].pc, OpcodeOf(m, n))
  BY <1>2, <1>3, <1>4, <1>5, HoldsNew
<1>7. PICK M, N, K : M = m /\ N = n /\ K = k
  OBVIOUS
<1>8. OpcodeThere(M, N)'
  <2>1. OpcodeOf(M, N)' = OpcodeOf(M, N)
    BY Zenon, <1>3, PartsSame
  <2> QED  BY <1>3, <1>6, <1>7, <2>1 DEF OpcodeThere
<1>9. PartThere(M, N, K + 1)'
  <2>1. K + 1 = 1 /\ N # 0 /\ ~(K + 1 > 1)
    BY <1>1, <1>7
  <2> QED  BY Zenon, <1>8, <2>1 DEF PartThere
<1> QED  BY Zenon, <1>1, <1>2, <1>7, <1>9, PartEmitted

\* An operand is emitted where the first pass has it.
LEMMA OperandEmitted ==
  ASSUME AssemblyInv, EmittedInv, NEW kinds, EmittingOperand(kinds),
         NEW what \in Seq(0 .. ByteMod - 1), Emit(what), OperandOf(what, m, n, k)
  PROVE  EmittedInv'
<1>1. /\ pass = "emit" /\ n > 0 /\ k # 0 /\ k \in Nat /\ bytes \in Seq(0 .. ByteMod - 1)
  BY ValueType, EmittingPlace
<1>2. /\ bytes' = bytes \o what /\ UNCHANGED <<program, pass, m, n, insns, methods>>
  BY DEF Emit
<1>3. Len(bytes) = PlaceOf(m, n, k)
  BY <1>1 DEF AssemblyInv, PassesAgree, PlaceOf
<1>4. Holds(bytes', PlaceOf(m, n, k), what)
  BY <1>1, <1>2, <1>3, HoldsNew
<1>5. PICK M, N, K : M = m /\ N = n /\ K = k
  OBVIOUS
<1>6. OperandThere(M, N, K)'
  <2>1. OperandOf(what, M, N, K)' /\ PlaceOf(M, N, K)' = PlaceOf(M, N, K)
    BY Zenon, <1>2, <1>5, PartsSame
  <2>2. Holds(bytes', PlaceOf(M, N, K), what)
    BY Zenon, <1>4, <1>5
  <2> QED  BY Zenon, <2>1, <2>2 DEF OperandThere
<1>7. PartThere(M, N, K + 1)'
  <2>1. (K + 1) - 1 = K /\ K + 1 # 1 /\ N # 0
    BY <1>1, <1>5
  <2> QED  BY Zenon, <1>6, <2>1 DEF PartThere
<1> QED  BY Zenon, <1>1, <1>5, <1>7, PartEmitted

\* Every operand is emitted where the first pass put it.
LEMMA OperandsEmitted ==
  ASSUME AssemblyInv, EmittedInv,
         EmitByte \/ EmitWideVarNum \/ EmitConstant \/ EmitLabel \/ EmitMethod
  PROVE  EmittedInv'
<1> PICK kind : kind = OperandKinds(m, n)[k]
  OBVIOUS
<1>1. CASE EmitByte
  <2>1. EmittingOperand({"byte", "varnum"}) /\ Emit(<<Value % ByteMod>>)
    BY <1>1 DEF EmitByte
  <2>2. kind \in {"byte", "varnum"} /\ Value \in Int
    BY <2>1, ValueType
  <2>3. <<Value % ByteMod>> \in Seq(0 .. ByteMod - 1)
    BY <2>2, ByteType
  <2>4. OperandOf(<<Value % ByteMod>>, m, n, k)
    BY <2>2 DEF OperandOf, Value
  <2> QED  BY Zenon, <2>1, <2>3, <2>4, OperandEmitted
<1>2. CASE EmitWideVarNum
  <2> DEFINE what == IF NeedsWide(Value) THEN Int16(Value) ELSE <<Value % ByteMod>>
  <2>1. EmittingOperand({"varnum-wide"}) /\ Emit(what)
    BY <1>2 DEF EmitWideVarNum
  <2>2. kind = "varnum-wide" /\ Value \in Int
    BY <2>1, ValueType
  <2>3. what \in Seq(0 .. ByteMod - 1)
    <3>1. Int16(Value) \in Seq(0 .. ByteMod - 1) /\ Value % ByteMod \in 0 .. ByteMod - 1
      BY <2>2, ByteType, Int16Type
    <3>2. <<Value % ByteMod>> \in Seq(0 .. ByteMod - 1)
      BY <3>1
    <3> QED  BY <3>1, <3>2
  <2>4. OperandOf(what, m, n, k)
    BY <2>2 DEF OperandOf, Value
  <2> HIDE DEF what
  <2> QED  BY Zenon, <2>1, <2>3, <2>4, OperandEmitted
<1>3. CASE EmitConstant
  <2>1. EmittingOperand({"constant"}) /\ Emit(Int16(Value))
    BY <1>3 DEF EmitConstant
  <2>2. kind = "constant" /\ Value \in Int
    BY <2>1, ValueType
  <2>3. Int16(Value) \in Seq(0 .. ByteMod - 1)
    BY <2>2, Int16Type
  <2>4. OperandOf(Int16(Value), m, n, k)
    BY <2>2 DEF OperandOf, Value
  <2> QED  BY Zenon, <2>1, <2>3, <2>4, OperandEmitted
<1>4. CASE EmitLabel
  <2>1. EmittingOperand({"label"})
    BY <1>4 DEF EmitLabel
  <2>2. PICK l \in Label(m, Value) : Emit(Int16(insns[m][l].pc - insns[m][n].pc))
    BY <1>4 DEF EmitLabel
  <2>3. pass = "emit" /\ n > 0 /\ kind = "label"
    BY <2>1, ValueType
  <2>4. l \in 1 .. LastOf(m) /\ n \in 1 .. LastOf(m)
    BY <2>3, EmittingPlace, LabelType
  <2>5. insns[m][l].pc \in Nat /\ insns[m][n].pc \in Nat
    BY <2>3, <2>4, EmittingPlace DEF Records
  <2>6. Int16(insns[m][l].pc - insns[m][n].pc) \in Seq(0 .. ByteMod - 1)
    BY <2>5, Int16Type
  <2>7. OperandOf(Int16(insns[m][l].pc - insns[m][n].pc), m, n, k)
    BY Zenon, <2>2, <2>3 DEF OperandOf, Value
  <2> QED  BY Zenon, <2>1, <2>2, <2>6, <2>7, OperandEmitted
<1>5. CASE EmitMethod
  <2>1. EmittingOperand({"method"})
    BY <1>5 DEF EmitMethod
  <2>2. PICK index \in MethodIndex(Value) : Emit(Int16(index))
    BY <1>5 DEF EmitMethod
  <2>3. Len(methods) = Len(program) /\ kind = "method"
    BY <2>1, ValueType, EmittingPlace
  <2>4. Int16(index) \in Seq(0 .. ByteMod - 1)
    BY <2>3, MethodIndexType, Int16Type DEF AssemblyInv
  <2>5. OperandOf(Int16(index), m, n, k)
    BY Zenon, <2>2, <2>3 DEF OperandOf, Value
  <2> QED  BY Zenon, <2>1, <2>2, <2>4, <2>5, OperandEmitted
<1> QED  BY <1>1, <1>2, <1>3, <1>4, <1>5

\* An instruction that is left has all its parts.
LEMMA NextEmitted ==
  ASSUME AssemblyInv, EmittedInv, EmitNext
  PROVE  EmittedInv'
<1>1. /\ pass = "emit" /\ n > 0 /\ k' = 0
      /\ Item(m, n).kind = "generic" => k = Len(OperandKinds(m, n)) + 1
      /\ UNCHANGED <<program, insns, methods, bytes>>
  BY DEF EmitNext, Here, Item, Template, OperandKinds
<1>2. /\ m \in 1 .. Len(program) /\ n \in 1 .. LastOf(m) /\ Len(program) \in Nat
      /\ program \in Programs /\ LastOf(m) \in Nat
  BY <1>1, EmittingPlace
<1>3. PICK M, N, K : M = m /\ N = n /\ K = k
  OBVIOUS
<1>4. \/ m' = M /\ n' = N + 1 /\ pass' # "done"
      \/ m' = M + 1 /\ n' = 0 /\ pass' # "done" /\ N = LastOf(M)
      \/ M = Len(program) /\ N = LastOf(M)
  BY <1>1, <1>3 DEF EmitNext, NextInsn, LastOf
<1>5. ASSUME NEW i, NEW j, NEW x, Part(i, j, x), Past(i, j, x)'
      PROVE  Past(i, j, x)
  <2>1. i \in 1 .. Len(program) /\ j \in 0 .. LastOf(i) /\ x \in Nat /\ x > 0
    BY <1>5 DEF Part
  <2>2. i < M \/ (i = M /\ j <= N)
    BY <1>1, <1>2, <1>3, <1>4, <1>5, <2>1 DEF Past
  <2>3. CASE i < M \/ (i = M /\ j < N)
    BY <1>3, <2>3 DEF Past
  <2>4. CASE i = M /\ j = N
    <3>1. j > 0
      BY <1>1, <1>3, <2>4
    <3>2. Item(m, n).kind = "generic" /\ x <= Len(OperandKinds(m, n)) + 1
      BY <1>3, <1>5, <2>4, <3>1 DEF Part, Count
    <3> QED  BY <1>1, <1>3, <2>4, <3>2 DEF Past
  <2> QED  BY <1>2, <1>3, <2>1, <2>2, <2>3, <2>4
<1>6. <<>> \in Seq(0 .. ByteMod - 1)
  OBVIOUS
<1> QED  BY Zenon, <1>1, <1>5, <1>6, EmittedMore

\* When the second pass starts nothing has been emitted, and before nothing is said.
LEMMA EmittedNot ==
  ASSUME AssemblyInv, ~(pass' \in {"emit", "done"}) \/ (pass' = "emit" /\ m' = 1 /\ n' = 0 /\ k' = 0)
  PROVE  EmittedInv'
<1>1. ASSUME NEW i, NEW j, NEW x, Part(i, j, x)', Past(i, j, x)', pass' = "emit",
             m' = 1, n' = 0, k' = 0
      PROVE  FALSE
  <2>1. /\ i \in Nat /\ i >= 1 /\ j \in Nat /\ x \in Nat /\ x > 0
    BY <1>1 DEF Part
  <2> QED  BY <1>1, <2>1 DEF Past
<1> QED  BY Zenon, <1>1 DEF EmittedInv

\* The first pass emits nothing.
LEMMA EmittedInit == Init => EmittedInv
BY DEF Init, EmittedInv

\* No step of either pass loses or overlooks a part.
LEMMA EmittedNext == AssemblyInv /\ EmittedInv /\ [Next]_vars => EmittedInv'
<1> SUFFICES ASSUME AssemblyInv, EmittedInv, [Next]_vars PROVE EmittedInv'
  OBVIOUS
<1>1. CASE EmitHeader  BY <1>1, HeaderEmitted
<1>2. CASE EmitOpcode  BY <1>2, OpcodeEmitted
<1>3. CASE EmitByte \/ EmitWideVarNum \/ EmitConstant \/ EmitLabel \/ EmitMethod
  BY <1>3, OperandsEmitted
<1>4. CASE EmitNext  BY <1>4, NextEmitted
<1>5. CASE EnterMethod \/ CheckByte \/ CheckVarNum \/ CheckWideVarNum \/ CheckConstant \/ CheckName
  <2>1. pass' = "check"
    BY <1>5 DEF EnterMethod, CheckByte, CheckVarNum, CheckWideVarNum, CheckConstant,
                CheckName, CheckingOperand, Take
  <2> QED  BY <2>1, EmittedNot
<1>6. CASE CheckOutOfRange \/ WrongNumberOfOperands \/ NoHeader \/ NameUndefined \/ CheckNoName
  <2>1. pass' \in {"aborted", "crashed"}
    BY <1>6 DEF CheckOutOfRange, WrongNumberOfOperands, NoHeader, NameUndefined,
                           CheckNoName, Abort
  <2> QED  BY <2>1, EmittedNot
<1>7. CASE CheckLabel \/ EndInsn
  <2>1. pass = "check" /\ n > 0 /\ NextInsn("emit")
    BY <1>7 DEF CheckLabel, EndInsn, OperandsChecked
  <2>2. k' = 0
    <3>1. CASE CheckLabel
      <4>1. Item(m, n).kind = "label" /\ k' = k
        BY <3>1 DEF CheckLabel, Here, Item
      <4> QED  BY <2>1, <4>1 DEF AssemblyInv, Checking, Known
    <3>2. CASE EndInsn
      BY <3>2 DEF EndInsn
    <3> QED  BY <1>7, <3>1, <3>2
  <2>3. pass' = "check" \/ (pass' = "emit" /\ m' = 1 /\ n' = 0)
    BY <2>1 DEF NextInsn
  <2> QED  BY <2>2, <2>3, EmittedNot
<1>8. CASE Finished \/ UNCHANGED vars
  <2>1. UNCHANGED <<program, pass, m, n, k, insns, methods, bytes>>
    BY <1>8 DEF Finished, vars
  <2>2. CASE pass \in {"emit", "done"}
    <3>1. ASSUME NEW i, NEW j, NEW x, Part(i, j, x)', Past(i, j, x)'
          PROVE  PartThere(i, j, x)'
      <4>1. Part(i, j, x) /\ Past(i, j, x)
        BY <2>1, <3>1, PartsSame DEF Past
      <4>2. PartThere(i, j, x)
        BY Zenon, <2>2, <4>1 DEF EmittedInv
      <4>3. bytes \in Seq(0 .. ByteMod - 1) /\ <<>> \in Seq(0 .. ByteMod - 1)
        BY DEF AssemblyInv, Typed, TypeOK
      <4> QED  BY Zenon, <2>1, <4>2, <4>3, PartsStay
    <3> QED  BY Zenon, <3>1 DEF EmittedInv
  <2>3. CASE ~(pass \in {"emit", "done"})
    BY <2>1, <2>3 DEF EmittedInv
  <2> QED  BY <2>2, <2>3
<1> QED  BY <1>1, <1>2, <1>3, <1>4, <1>5, <1>6, <1>7, <1>8 DEF Next

-----------------------------------------------------------------------------
(* Reading the image that has been assembled. *)

\* What is known of a program that has been assembled.
DoneInv == AssemblyInv /\ MeaningInv /\ EmittedInv /\ pass = "done"

\* In the end every instruction has its address, what is known of it is what it
\* means, and all its parts have been emitted.
LEMMA DonePlace ==
  ASSUME DoneInv, NEW i \in 1 .. Len(program)
  PROVE  /\ program \in Programs /\ Len(insns) = Len(program) /\ Len(methods) = Len(program)
         /\ bytes \in Seq(0 .. ByteMod - 1)
         /\ HeaderThere(i)
         /\ LastOf(i) \in Nat /\ Len(insns[i]) = LastOf(i)
         /\ \A j \in 1 .. LastOf(i) :
              /\ insns[i][j] \in Records /\ Known(i, j, insns[i][j], Count(i, j))
              /\ Meant(Item(i, j), Eval(i), cpool, insns[i][j], Count(i, j))
              /\ Complete(Item(i, j))
              /\ Item(i, j).kind = "generic" =>
                   /\ OpcodeThere(i, j)
                   /\ \A q \in 1 .. Count(i, j) : OperandThere(i, j, q)
<1>1. /\ program \in Programs /\ insns \in Seq(Seq(Records)) /\ bytes \in Seq(0 .. ByteMod - 1)
      /\ Len(insns) = Len(program) /\ Len(methods) = Len(program)
      /\ Len(insns[Len(program)]) = LastOf(Len(program))
  BY DEF DoneInv, AssemblyInv, Typed, TypeOK, Emitting, Linked
<1>2. Len(program) \in Nat /\ LastOf(i) \in Nat
  BY <1>1, ProgramType
<1>3. Len(insns[i]) = LastOf(i) /\ insns[i] \in Seq(Records)
  <2>1. CASE i = Len(program)
    BY <1>1, <1>2, <2>1
  <2>2. CASE i < Len(program)
    BY <1>1, <1>2, <2>2 DEF DoneInv, AssemblyInv, Linked
  <2> QED  BY <1>2, <2>1, <2>2
<1>4. \A j, x : Part(i, j, x) => PartThere(i, j, x)
  BY Zenon DEF DoneInv, EmittedInv, Past
<1>5. HeaderThere(i)
  <2>1. Part(i, 0, 1)
    BY <1>2 DEF Part
  <2> QED  BY <1>4, <2>1 DEF PartThere
<1>6. ASSUME NEW j \in 1 .. LastOf(i)
      PROVE  /\ insns[i][j] \in Records /\ Known(i, j, insns[i][j], Count(i, j))
             /\ Meant(Item(i, j), Eval(i), cpool, insns[i][j], Count(i, j))
             /\ Complete(Item(i, j))
             /\ Item(i, j).kind = "generic" =>
                   /\ OpcodeThere(i, j)
                   /\ \A q \in 1 .. Count(i, j) : OperandThere(i, j, q)
  <2>1. insns[i][j] \in Records
    BY <1>3, ElementOfSeq
  <2>2. Known(i, j, insns[i][j], Count(i, j))
    BY <1>1, <1>3 DEF DoneInv, AssemblyInv, Linked
  <2>3. CountOf(program[i].insns[j]) = Count(i, j) /\ Meanings[i] = Eval(i)
    BY DEF CountOf, Count, KindsOf, OperandKinds, Item, Meanings
  <2>4. i \in 1 .. Len(insns) /\ j \in 1 .. Len(insns[i])
    BY <1>1, <1>3
  <2>5. Meant(Item(i, j), Eval(i), cpool, insns[i][j], Count(i, j)) /\ Complete(Item(i, j))
    BY Zenon, <2>3, <2>4 DEF DoneInv, MeaningInv, CheckedMeant, Item
  <2>6. ASSUME Item(i, j).kind = "generic"
        PROVE  /\ OpcodeThere(i, j)
               /\ \A q \in 1 .. Count(i, j) : OperandThere(i, j, q)
    <3>1. Count(i, j) \in Nat
      BY <1>1, ItemType
    <3>2. \A x \in 1 .. Count(i, j) + 1 : PartThere(i, j, x)
      BY <1>2, <1>4, <2>6, <3>1 DEF Part
    <3>3. OpcodeThere(i, j)
      BY <3>1, <3>2 DEF PartThere
    <3>4. ASSUME NEW q \in 1 .. Count(i, j)
          PROVE  OperandThere(i, j, q)
      <4>1. q + 1 \in 1 .. Count(i, j) + 1 /\ q + 1 > 1 /\ (q + 1) - 1 = q /\ j > 0
        BY <3>1
      <4> QED  BY <3>2, <4>1 DEF PartThere
    <3> QED  BY <3>3, <3>4
  <2> QED  BY <2>1, <2>2, <2>5, <2>6
<1> QED  BY <1>1, <1>2, <1>3, <1>5, <1>6

\* The bytes are loaded as they were written.
LEMMA ByteRead ==
  ASSUME bytes \in Seq(0 .. ByteMod - 1), NEW at, NEW s, Holds(bytes, at, s), NEW x \in 1 .. Len(s)
  PROVE  ByteAt(at + x - 1) = s[x]
<1>1. at + x \in 1 .. Len(bytes) /\ (at + x - 1) + 1 = at + x /\ bytes[at + x] = s[x]
  BY DEF Holds
<1>2. bytes[at + x] \in 0 .. ByteMod - 1
  BY <1>1, ElementOfSeq
<1>3. bytes[at + x] % ByteMod = bytes[at + x]
  <2>1. ByteMod \in Nat /\ ByteMod > 0
    BY ByteModAssumption
  <2> QED  BY Zenon, <1>2, <2>1, InRange
<1>4. ByteAt(at + x - 1) = bytes[at + x] % ByteMod
  BY <1>1 DEF ByteAt, LoadedImage, ImageLoad, ImageWrite
<1> QED  BY <1>1, <1>3, <1>4

\* Two bytes are loaded as the lower half of the int they were written from.
LEMMA HalfRead ==
  ASSUME bytes \in Seq(0 .. ByteMod - 1), NEW at, NEW v \in Int, Holds(bytes, at, Int16(v))
  PROVE  HalfAt(at) = v % HalfMod
<1>1. /\ Len(Int16(v)) = 2 /\ Int16(v)[1] = (v \div ByteMod) % ByteMod
      /\ Int16(v)[2] = v % ByteMod /\ at \in Nat
  BY Int16Type DEF Int16, Holds
<1>2. at + 1 - 1 = at /\ at + 2 - 1 = at + 1 /\ 1 \in 1 .. 2 /\ 2 \in 1 .. 2
  BY <1>1
<1>3. ByteAt(at) = (v \div ByteMod) % ByteMod /\ ByteAt(at + 1) = v % ByteMod
  BY <1>1, <1>2, ByteRead
<1> QED  BY <1>3, HalfIs DEF HalfAt

\* What is at the place of an instruction, and its kinds of operands.
LEMMA PlaceType ==
  ASSUME program \in Programs, NEW p \in GenericPlaces
  PROVE  /\ p[1] \in 1 .. Len(program) /\ p[2] \in 1 .. LastOf(p[1])
         /\ Item(p[1], p[2]).kind = "generic" /\ Count(p[1], p[2]) \in Nat
         /\ Count(p[1], p[2]) = Len(OperandKinds(p[1], p[2]))
         /\ DOMAIN TemplateAt(p).operands = 1 .. Count(p[1], p[2])
         /\ TemplateAt(p).operands = OperandKinds(p[1], p[2])
         /\ TemplateAt(p).opcode \in 0 .. ByteMod - 1
         /\ OperandKinds(p[1], p[2]) \in Seq(Kinds)
         /\ OperandsAt(p) = Item(p[1], p[2]).operands /\ OperandsAt(p) \in Seq(Exprs)
<1>1. p \in Places /\ Item(p[1], p[2]).kind = "generic"
  BY DEF GenericPlaces, Item
<1>2. PICK i \in DOMAIN program : p \in {i} \X DOMAIN program[i].insns
  BY <1>1 DEF Places
<1>3. p[1] = i /\ p[2] \in DOMAIN program[i].insns
  BY <1>2
<1>4. DOMAIN program = 1 .. Len(program) /\ DOMAIN program[i].insns = 1 .. LastOf(i)
  BY <1>2, ProgramsAssumption, ProgramType DEF LastOf
<1>5. p[1] \in 1 .. Len(program) /\ p[2] \in 1 .. LastOf(p[1])
  BY <1>2, <1>3, <1>4
<1>6. /\ Count(p[1], p[2]) \in Nat /\ OperandKinds(p[1], p[2]) \in Seq(Kinds)
      /\ Templates[Item(p[1], p[2]).mnemonic].opcode \in 0 .. ByteMod - 1
      /\ Item(p[1], p[2]).operands \in Seq(Exprs)
  BY <1>1, <1>5, ItemType
<1>7. /\ Count(p[1], p[2]) = Len(OperandKinds(p[1], p[2]))
      /\ TemplateAt(p).operands = OperandKinds(p[1], p[2])
      /\ TemplateAt(p).opcode = Templates[Item(p[1], p[2]).mnemonic].opcode
      /\ OperandsAt(p) = Item(p[1], p[2]).operands
  BY <1>1 DEF Count, OperandKinds, TemplateAt, OperandsAt, Item
<1>8. DOMAIN OperandKinds(p[1], p[2]) = 1 .. Count(p[1], p[2])
  BY <1>6, <1>7
<1> QED  BY <1>1, <1>5, <1>6, <1>7, <1>8

\* A simulator finds the opcode behind the prefix, which is there when an operand
\* needs it.
LEMMA PrefixIs ==
  ASSUME DoneInv, NEW p \in GenericPlaces, TemplateAt(p).opcode # Wide
  PROVE  /\ Prefix(p) = IF insns[p[1]][p[2]].wide THEN 1 ELSE 0
         /\ ByteAt(Start(p) + Prefix(p)) = TemplateAt(p).opcode
<1> PICK i, j : i = p[1] /\ j = p[2]
  OBVIOUS
<1>1. program \in Programs
  BY DEF DoneInv, AssemblyInv, Typed
<1>2. /\ i \in 1 .. Len(program) /\ j \in 1 .. LastOf(i) /\ Item(i, j).kind = "generic"
  BY <1>1, PlaceType
<1>3. /\ bytes \in Seq(0 .. ByteMod - 1) /\ insns[i][j] \in Records
      /\ Holds(bytes, insns[i][j].pc, OpcodeOf(i, j))
  BY <1>2, DonePlace DEF OpcodeThere
<1>4. Start(p) = insns[i][j].pc /\ Start(p) \in Nat /\ insns[i][j].wide \in BOOLEAN
  BY <1>3 DEF Start, Records
<1>5. PICK opcode : opcode = TemplateAt(p).opcode /\ opcode # Wide
  OBVIOUS
<1>6. CASE insns[i][j].wide
  <2>1. OpcodeOf(i, j) = <<Wide>> \o <<opcode>>
    BY Zenon, <1>5, <1>6 DEF OpcodeOf, TemplateAt, Item
  <2>2. /\ Len(<<Wide>> \o <<opcode>>) = 2 /\ (<<Wide>> \o <<opcode>>)[1] = Wide
        /\ (<<Wide>> \o <<opcode>>)[2] = opcode
    OBVIOUS
  <2>3. Start(p) + 1 - 1 = Start(p) /\ Start(p) + 2 - 1 = Start(p) + 1 /\ 1 \in 1 .. 2 /\ 2 \in 1 .. 2
    BY <1>4
  <2>4. ByteAt(Start(p)) = Wide /\ ByteAt(Start(p) + 1) = opcode
    <3>1. PICK s, at : s = <<Wide>> \o <<opcode>> /\ at = Start(p)
      OBVIOUS
    <3>2. Holds(bytes, at, s) /\ Len(s) = 2 /\ s[1] = Wide /\ s[2] = opcode
      BY Zenon, <1>3, <1>4, <2>1, <2>2, <3>1
    <3>3. ByteAt(at + 1 - 1) = s[1] /\ ByteAt(at + 2 - 1) = s[2]
      BY ZenonT(60), <1>3, <2>3, <3>2, ByteRead
    <3> QED  BY Zenon, <2>3, <3>1, <3>2, <3>3
  <2> QED  BY Zenon, <1>5, <1>6, <2>4 DEF Prefix
<1>7. CASE ~insns[i][j].wide
  <2>1. OpcodeOf(i, j) = <<>> \o <<opcode>>
    BY <1>5, <1>7 DEF OpcodeOf, TemplateAt, Item
  <2>2. Len(<<>> \o <<opcode>>) = 1 /\ (<<>> \o <<opcode>>)[1] = opcode
    OBVIOUS
  <2>3. Start(p) + 1 - 1 = Start(p) /\ Start(p) + 0 = Start(p) /\ 1 \in 1 .. 1
    BY <1>4
  <2>4. ByteAt(Start(p)) = opcode
    <3>1. Holds(bytes, Start(p), <<>> \o <<opcode>>)
      BY <1>3, <1>4, <2>1
    <3> QED  BY <1>3, <2>2, <2>3, <3>1, ByteRead
  <2> QED  BY <1>4, <1>5, <1>7, <2>3, <2>4 DEF Prefix
<1> QED  BY <1>4, <1>6, <1>7

\* An instruction with operands is not `wide'.
LEMMA NotWide ==
  ASSUME program \in Programs, NEW p \in GenericPlaces, NEW q \in 1 .. Count(p[1], p[2])
  PROVE  TemplateAt(p).opcode # Wide
<1>1. /\ p[1] \in 1 .. Len(program) /\ p[2] \in 1 .. LastOf(p[1])
      /\ Item(p[1], p[2]).kind = "generic"
      /\ TemplateAt(p).operands = OperandKinds(p[1], p[2])
      /\ DOMAIN TemplateAt(p).operands = 1 .. Count(p[1], p[2])
  BY Zenon, PlaceType
<1>2. /\ Item(p[1], p[2]).mnemonic \in DOMAIN Templates
      /\ TemplateAt(p) = Templates[Item(p[1], p[2]).mnemonic]
  BY Zenon, <1>1, ItemType DEF TemplateAt, Item
<1>3. TemplateAt(p).operands # <<>>
  <2>1. q \in DOMAIN TemplateAt(p).operands
    BY <1>1
  <2>2. DOMAIN <<>> = {}
    OBVIOUS
  <2> QED  BY Zenon, <2>1, <2>2
<1> QED  BY <1>2, <1>3, SpecAssumption

\* An operand is read with the size it was emitted with.
LEMMA SizeIs ==
  ASSUME DoneInv, NEW p \in GenericPlaces,
         NEW q \in 1 .. Count(p[1], p[2])
  PROVE  SizeAt(p, q) = SizeOf(OperandKinds(p[1], p[2])[q], insns[p[1]][p[2]].values[q])
<1> PICK i, j : i = p[1] /\ j = p[2]
  OBVIOUS
<1> DEFINE kinds == OperandKinds(i, j)
           known == insns[i][j]
<1>1. program \in Programs
  BY DEF DoneInv, AssemblyInv, Typed
<1>2. /\ i \in 1 .. Len(program) /\ j \in 1 .. LastOf(i) /\ Item(i, j).kind = "generic"
      /\ DOMAIN kinds = 1 .. Count(i, j) /\ TemplateAt(p).operands = kinds
      /\ Count(i, j) \in Nat /\ kinds \in Seq(Kinds) /\ OperandsAt(p) = Item(i, j).operands
  BY <1>1, PlaceType
<1>3. /\ known \in Records
      /\ Meant(Item(i, j), Eval(i), cpool, known, Count(i, j))
  BY <1>2, DonePlace
<1>4. known.wide <=> \E r \in 1 .. Count(i, j) : kinds[r] = "varnum-wide" /\ NeedsWide(known.values[r])
  BY Zenon, <1>2, <1>3 DEF Meant, WidthIs, KindsOf, OperandKinds
<1>5. kinds[q] = "varnum-wide" => (known.wide <=> NeedsWide(known.values[q]))
  <2>1. Item(i, j).mnemonic \in DOMAIN Templates
    BY <1>1, <1>2, ItemType
  <2>2. \A r \in 1 .. Count(i, j) : kinds[q] = "varnum-wide" /\ kinds[r] = "varnum-wide" => q = r
    BY <1>2, <2>1, SpecAssumption DEF OperandKinds
  <2> QED  BY Zenon, <1>4, <2>2
<1>6. Prefix(p) = IF known.wide THEN 1 ELSE 0
  BY <1>1, NotWide, PrefixIs
<1>7. kinds[q] \in Kinds
  BY <1>2
<1>8. SizeAt(p, q) = IF kinds[q] \in {"byte", "varnum"} THEN 1
                     ELSE IF kinds[q] = "varnum-wide" THEN 1 + Prefix(p) ELSE 2
  BY <1>2, <1>7 DEF SizeAt, Kinds
<1>9. SizeOf(kinds[q], known.values[q]) =
        IF kinds[q] \in {"byte", "varnum"} \/ (kinds[q] = "varnum-wide" /\ ~NeedsWide(known.values[q]))
        THEN 1 ELSE 2
  BY DEF SizeOf
<1> HIDE DEF kinds, known
<1>10. CASE kinds[q] = "varnum-wide"
  <2>1. CASE known.wide
    <3>1. NeedsWide(known.values[q])
      BY Zenon, <1>5, <1>10, <2>1
    <3> QED  BY <1>6, <1>8, <1>9, <1>10, <2>1, <3>1 DEF kinds, known
  <2>2. CASE ~known.wide
    <3>1. ~NeedsWide(known.values[q])
      BY Zenon, <1>5, <1>10, <2>2
    <3> QED  BY <1>6, <1>8, <1>9, <1>10, <2>2, <3>1 DEF kinds, known
  <2> QED  BY <2>1, <2>2
<1>11. CASE kinds[q] # "varnum-wide"
  BY <1>8, <1>9, <1>11 DEF kinds, known
<1> QED  BY <1>10, <1>11

Follow(place, j, first, size) ==
  /\ j \in Nat \ {0} /\ place[1] = first
  /\ \A q \in 1 .. j : q + 1 <= j => place[q + 1] = place[q] + size[q]

Sums(f, j, first, size) ==
  f = [i \in 1 .. j |-> IF i = 1 THEN first ELSE f[i - 1] + size[i - 1]]

\* A sum that is defined by recursion exists when there is a function like it, and
\* is that function.
LEMMA RecursiveSum ==
  ASSUME NEW j, NEW first, NEW size, NEW place, Follow(place, j, first, size)
  PROVE  /\ \E f : Sums(f, j, first, size)
         /\ \A f : Sums(f, j, first, size) => f[j] = place[j]
<1> USE DEF Follow
<1>1. ASSUME NEW i \in 1 .. j, i # 1
      PROVE  i - 1 \in 1 .. j /\ place[i] = place[i - 1] + size[i - 1]
  <2>1. PICK h : h = i - 1
    OBVIOUS
  <2>2. h \in 1 .. j /\ h + 1 = i /\ h + 1 <= j
    BY <1>1, <2>1
  <2>3. place[h + 1] = place[h] + size[h]
    BY <2>2
  <2> QED  BY <2>1, <2>2, <2>3
<1>2. \E f : f = [i \in 1 .. j |-> IF i = 1 THEN first ELSE f[i - 1] + size[i - 1]]
  <2> DEFINE f == [i \in 1 .. j |-> place[i]]
  <2>1. ASSUME NEW i \in 1 .. j
        PROVE  f[i] = IF i = 1 THEN first ELSE f[i - 1] + size[i - 1]
    <3>1. CASE i = 1
      BY <3>1
    <3>2. CASE i # 1
      BY <1>1, <3>2
    <3> QED  BY <3>1, <3>2
  <2>2. f = [i \in 1 .. j |-> IF i = 1 THEN first ELSE f[i - 1] + size[i - 1]]
    <3>1. f = [i \in 1 .. j |-> f[i]]
      OBVIOUS
    <3> HIDE DEF f
    <3> QED  BY <2>1, <3>1
  <2> HIDE DEF f
  <2> QED  BY <2>2
<1>3. ASSUME NEW f, f = [i \in 1 .. j |-> IF i = 1 THEN first ELSE f[i - 1] + size[i - 1]]
      PROVE  f[j] = place[j]
  <2>1. \A i \in 1 .. j : f[i] = IF i = 1 THEN first ELSE f[i - 1] + size[i - 1]
    BY <1>3
  <2> DEFINE Wrong == {i \in 1 .. j : f[i] # place[i]}
  <2>2. ASSUME Wrong # {} PROVE FALSE
    <3>1. Wrong \in SUBSET Nat
      OBVIOUS
    <3> HIDE DEF Wrong
    <3>2. PICK i \in Wrong : \A y \in Wrong : i <= y
      BY <2>2, <3>1, LeastNatural
    <3>3. i \in 1 .. j /\ f[i] # place[i]
      BY <3>2 DEF Wrong
    <3>4. CASE i = 1
      BY <2>1, <3>3, <3>4
    <3>5. CASE i # 1
      <4>1. i - 1 \in 1 .. j /\ ~(i <= i - 1) /\ place[i] = place[i - 1] + size[i - 1]
        BY <1>1, <3>3, <3>5
      <4>2. f[i - 1] = place[i - 1]
        BY <3>2, <4>1 DEF Wrong
      <4>3. f[i] = f[i - 1] + size[i - 1]
        BY <2>1, <3>3, <3>5
      <4> QED  BY <3>3, <4>1, <4>2, <4>3
    <3> QED  BY <3>4, <3>5
  <2> QED  BY <2>2
<1> QED  BY <1>2, <1>3 DEF Sums

\* The operands follow each other behind the opcode.
LEMMA PlacesFollow ==
  ASSUME DoneInv, NEW p \in GenericPlaces,
         NEW q \in 1 .. Count(p[1], p[2])
  PROVE  /\ PlaceOf(p[1], p[2], 1) = Start(p) + Prefix(p) + 1
         /\ PlaceOf(p[1], p[2], q) \in Nat
         /\ q + 1 <= Count(p[1], p[2]) =>
              PlaceOf(p[1], p[2], q + 1) = PlaceOf(p[1], p[2], q) + SizeAt(p, q)
<1> PICK i, j, count, known : i = p[1] /\ j = p[2] /\ count = Count(i, j) /\ known = insns[i][j]
  OBVIOUS
<1>1. program \in Programs /\ count \in Nat /\ q \in 1 .. count
  BY PlaceType DEF DoneInv, AssemblyInv, Typed
<1>2. i \in 1 .. Len(program) /\ j \in 1 .. LastOf(i)
  BY <1>1, PlaceType
<1>3. known \in Records /\ Known(i, j, known, count) /\ Item(i, j).kind = "generic"
  BY <1>1, <1>2, DonePlace, PlaceType
<1>4. PICK prefix \in {0, 1} : prefix = Prefix(p) /\ prefix = IF known.wide THEN 1 ELSE 0
  BY <1>1, NotWide, PrefixIs
<1>5. known.pc = Start(p) /\ known.pc \in Nat
  BY <1>3 DEF Start, Records
<1>6. /\ known.sizes[1] = 0
      /\ \A r \in 1 .. count + 1 : known.sizes[r] \in Nat
      /\ known.sizes[q + 1] = known.sizes[q] + SizeOf(OperandKinds(i, j)[q], known.values[q])
  <2>1. known.sizes \in Seq(Nat) /\ Len(known.sizes) = count + 1
    BY <1>3 DEF Records, Known
  <2>2. \A r \in 1 .. count + 1 : known.sizes[r] \in Nat
    BY <2>1, ElementOfSeq
  <2> QED  BY <1>1, <1>3, <2>2 DEF Known
<1>7. \A r : PlaceOf(i, j, r) = known.pc + (1 + prefix + known.sizes[r])
  BY <1>4 DEF PlaceOf
<1>8. PlaceOf(i, j, 1) = Start(p) + Prefix(p) + 1
  BY <1>4, <1>5, <1>6, <1>7
<1>9. SizeAt(p, q) = SizeOf(OperandKinds(i, j)[q], known.values[q])
  BY SizeIs
<1>10. q \in 1 .. count + 1
  BY <1>1
<1>11. /\ known.sizes[q] \in Nat /\ SizeAt(p, q) \in Nat
       /\ known.sizes[q + 1] = known.sizes[q] + SizeAt(p, q)
  BY <1>6, <1>9, <1>10 DEF SizeOf
<1>12. /\ PlaceOf(i, j, q) \in Nat
       /\ PlaceOf(i, j, q + 1) = PlaceOf(i, j, q) + SizeAt(p, q)
  BY <1>4, <1>5, <1>7, <1>11
<1> QED  BY <1>8, <1>12

\* Operands are looked for where they were emitted.
LEMMA StartIs ==
  ASSUME DoneInv, NEW p \in GenericPlaces,
         NEW j \in 1 .. Count(p[1], p[2])
  PROVE  OperandStart(p, j) = PlaceOf(p[1], p[2], j)
<1>0. PICK count, first, place, size :
      /\ count = Count(p[1], p[2]) /\ first = Start(p) + Prefix(p) + 1
      /\ place = [q \in 1 .. count |-> PlaceOf(p[1], p[2], q)]
      /\ size = [q \in 1 .. count |-> SizeAt(p, q)]
  OBVIOUS
<1>1. count \in Nat /\ j \in 1 .. count /\ j \in Nat \ {0} /\ 1 \in 1 .. count
  BY <1>0, PlaceType DEF DoneInv, AssemblyInv, Typed
<1>2. place[1] = first /\ place[j] = PlaceOf(p[1], p[2], j)
  BY <1>0, <1>1, PlacesFollow
<1>3. ASSUME NEW q \in 1 .. j, q + 1 <= j
      PROVE  place[q + 1] = place[q] + size[q]
  <2>1. q \in 1 .. count /\ q + 1 \in 1 .. count /\ q + 1 <= Count(p[1], p[2])
    BY <1>0, <1>1, <1>3
  <2> QED  BY <1>0, <2>1, PlacesFollow
<1>4. /\ \E f : Sums(f, j, first, size)
      /\ \A f : Sums(f, j, first, size) => f[j] = place[j]
  <2>1. Follow(place, j, first, size)
    BY <1>1, <1>2, <1>3 DEF Follow
  <2> QED  BY <2>1, RecursiveSum
<1>5. ASSUME NEW f
      PROVE  [i \in 1 .. j |-> IF i = 1 THEN first ELSE f[i - 1] + size[i - 1]]
               = [i \in 1 .. j |-> IF i = 1 THEN Start(p) + Prefix(p) + 1
                                  ELSE f[i - 1] + SizeAt(p, i - 1)]
  <2>1. \A i \in 1 .. j : i # 1 => i - 1 \in 1 .. count
    BY <1>1
  <2>2. \A i \in 1 .. j : i # 1 => size[i - 1] = SizeAt(p, i - 1)
    BY <1>0, <2>1
  <2> QED  BY <1>0, <2>2
<1>6. \E f : f = [i \in 1 .. j |-> IF i = 1 THEN Start(p) + Prefix(p) + 1
                                       ELSE f[i - 1] + SizeAt(p, i - 1)]
  <2>1. PICK f : Sums(f, j, first, size)
    BY <1>4
  <2>2. f = [i \in 1 .. j |-> IF i = 1 THEN Start(p) + Prefix(p) + 1
                             ELSE f[i - 1] + SizeAt(p, i - 1)]
    BY Zenon, <1>5, <2>1 DEF Sums
  <2> QED  BY Zenon, <2>2
<1>7. \A f : f = [i \in 1 .. j |-> IF i = 1 THEN Start(p) + Prefix(p) + 1
                                       ELSE f[i - 1] + SizeAt(p, i - 1)]
              => f[j] = place[j]
  BY Zenon, <1>4, <1>5 DEF Sums
<1> DEFINE start[i \in 1 .. j] ==
        IF i = 1 THEN Start(p) + Prefix(p) + 1 ELSE start[i - 1] + SizeAt(p, i - 1)
<1>8. start = [i \in 1 .. j |-> IF i = 1 THEN Start(p) + Prefix(p) + 1
                               ELSE start[i - 1] + SizeAt(p, i - 1)]
  BY <1>6
<1>9. OperandStart(p, j) = start[j]
  BY DEF OperandStart
<1> HIDE DEF start
<1>10. start[j] = place[j]
  BY Zenon, <1>7, <1>8
<1> QED  BY <1>2, <1>9, <1>10

\* An operand is where it is looked for.
LEMMA OperandHeld ==
  ASSUME DoneInv, NEW p \in GenericPlaces, NEW j \in 1 .. Count(p[1], p[2])
  PROVE  /\ bytes \in Seq(0 .. ByteMod - 1)
         /\ \E s : OperandOf(s, p[1], p[2], j) /\ Holds(bytes, OperandStart(p, j), s)
<1>1. program \in Programs
  BY DEF DoneInv, AssemblyInv, Typed
<1>2. /\ p[1] \in 1 .. Len(program) /\ p[2] \in 1 .. LastOf(p[1])
      /\ Item(p[1], p[2]).kind = "generic"
  BY <1>1, PlaceType
<1>3. OperandThere(p[1], p[2], j) /\ bytes \in Seq(0 .. ByteMod - 1)
  BY <1>2, DonePlace
<1> QED  BY Zenon, <1>3, StartIs DEF OperandThere

\* What the first pass kept of an operand, and what its expression is.
LEMMA OperandKept ==
  ASSUME DoneInv, NEW p \in GenericPlaces, NEW j \in 1 .. Count(p[1], p[2])
  PROVE  /\ Len(OperandsAt(p)) = Count(p[1], p[2]) /\ OperandsAt(p)[j] \in Exprs
         /\ Valued(insns[p[1]][p[2]].values[j], TemplateAt(p).operands[j], OperandsAt(p)[j],
                   Eval(p[1])[OperandsAt(p)[j]], cpool)
<1> PICK a, b : a = p[1] /\ b = p[2]
  OBVIOUS
<1>1. program \in Programs
  BY DEF DoneInv, AssemblyInv, Typed
<1>2. /\ a \in 1 .. Len(program) /\ b \in 1 .. LastOf(a)
      /\ Item(a, b).kind = "generic" /\ Count(a, b) = Len(OperandKinds(a, b))
      /\ TemplateAt(p).operands = OperandKinds(a, b) /\ Count(a, b) \in Nat
      /\ OperandsAt(p) = Item(a, b).operands /\ OperandsAt(p) \in Seq(Exprs)
  BY <1>1, PlaceType
<1>3. Meant(Item(a, b), Eval(a), cpool, insns[a][b], Count(a, b)) /\ Complete(Item(a, b))
  BY <1>2, DonePlace
<1>4. KindsOf(Item(a, b)) = OperandKinds(a, b)
  BY DEF KindsOf, OperandKinds
<1>5. Len(OperandsAt(p)) = Count(a, b)
  BY <1>2, <1>3, <1>4 DEF Complete
<1>6. OperandsAt(p)[j] \in Exprs
  BY <1>2, <1>5, ElementOfSeq
<1>7. Valued(insns[a][b].values[j], TemplateAt(p).operands[j], OperandsAt(p)[j],
             Eval(a)[OperandsAt(p)[j]], cpool)
  BY Zenon, <1>2, <1>3, <1>4 DEF Meant
<1> QED  BY <1>5, <1>6, <1>7

\* Two bytes of an operand are read as they were written.
LEMMA HalfOperand ==
  ASSUME DoneInv, NEW p \in GenericPlaces, NEW j \in 1 .. Count(p[1], p[2]),
         NEW v \in Int, Holds(bytes, OperandStart(p, j), Int16(v))
  PROVE  HalfAt(OperandStart(p, j)) = v % HalfMod
<1>1. bytes \in Seq(0 .. ByteMod - 1)
  BY DEF DoneInv, AssemblyInv, Typed, TypeOK
<1> QED  BY Zenon, <1>1, HalfRead

\* A label that is read back leads to the first label of its name in the method.
LEMMA BranchLands ==
  ASSUME DoneInv, NEW p \in GenericPlaces, NEW j \in 1 .. Count(p[1], p[2]),
         TemplateAt(p).operands[j] = "label"
  PROVE  \E q \in Places :
           /\ q[1] = p[1] /\ program[q[1]].insns[q[2]] =
                               [kind |-> "label", label |-> OperandsAt(p)[j].symbol]
           /\ \A l \in 1 .. q[2] - 1 : program[q[1]].insns[l] # program[q[1]].insns[q[2]]
           /\ Start(q) - Start(p) \in -(HalfMod \div 2) .. (HalfMod \div 2 - 1)
                => Read(p, j) = Start(q)
<1>0. PICK a, b, name : a = p[1] /\ b = p[2] /\ name = OperandsAt(p)[j].symbol
  OBVIOUS
<1>1. program \in Programs
  BY DEF DoneInv, AssemblyInv, Typed
<1>2. /\ a \in 1 .. Len(program) /\ b \in 1 .. LastOf(a)
      /\ TemplateAt(p).operands = OperandKinds(a, b)
  BY <1>0, <1>1, PlaceType
<1>3. insns[a][b].values[j] = name
  BY <1>0, OperandKept DEF Valued
<1>4. PICK l \in Label(a, name) :
        Holds(bytes, OperandStart(p, j), Int16(insns[a][l].pc - insns[a][b].pc))
  <2>1. PICK s : OperandOf(s, a, b, j) /\ Holds(bytes, OperandStart(p, j), s)
    BY <1>0, OperandHeld
  <2>2. OperandKinds(a, b)[j] = "label"
    BY <1>2
  <2>3. \E l \in Label(a, name) : s = Int16(insns[a][l].pc - insns[a][b].pc)
    BY <1>3, <2>1, <2>2 DEF OperandOf
  <2> QED  BY Zenon, <2>1, <2>3
<1>5. l \in 1 .. LastOf(a)
  BY <1>1, <1>2, LabelType
<1>6. insns[a][b].pc \in Nat /\ insns[a][l].pc \in Nat
  BY <1>2, <1>5, DonePlace DEF Records
<1>7. PICK q : q = <<a, l>>
  OBVIOUS
<1>8. /\ q \in Places /\ q[1] = a /\ q[2] = l
      /\ Start(q) = insns[a][l].pc /\ Start(p) = insns[a][b].pc
  <2>1. DOMAIN program = 1 .. Len(program) /\ DOMAIN program[a].insns = 1 .. LastOf(a)
    BY <1>1, <1>2, ProgramsAssumption, ProgramType DEF LastOf
  <2>2. q[1] = a /\ q[2] = l /\ q \in {a} \X DOMAIN program[a].insns
    BY <1>5, <1>7, <2>1
  <2>3. q \in Places
    BY Zenon, <1>2, <2>1, <2>2 DEF Places
  <2> QED  BY <1>0, <2>2, <2>3 DEF Start
<1>9. program[a].insns[l] = [kind |-> "label", label |-> name]
  <2>1. program[a].insns[l].kind = "label" /\ program[a].insns[l].label = name
    BY <1>4 DEF Label, First, LabelsNamed
  <2>2. Item(a, l) \in Insns
    BY <1>1, <1>2, <1>5, ProgramType
  <2>3. program[a].insns[l] \in [kind : {"label"}, label : Names]
    BY <2>1, <2>2 DEF Item, Insns
  <2> QED  BY <2>1, <2>3
<1>10. ASSUME NEW l2 \in 1 .. l - 1, program[a].insns[l2] = program[a].insns[l]
       PROVE  FALSE
  <2>1. l2 \in DOMAIN program[a].insns /\ l2 < l
    BY <1>1, <1>2, <1>5, ProgramType DEF LastOf
  <2>2. l2 \in LabelsNamed(a, name)
    BY <1>9, <1>10, <2>1 DEF LabelsNamed
  <2>3. l <= l2
    BY <1>4, <2>2 DEF Label, First
  <2> QED  BY <1>5, <2>1, <2>3
<1>11. ASSUME Start(q) - Start(p) \in -(HalfMod \div 2) .. (HalfMod \div 2 - 1)
       PROVE  Read(p, j) = Start(q)
  <2>1. PICK v : v = insns[a][l].pc - insns[a][b].pc
    OBVIOUS
  <2>2. v \in Int /\ v \in -(HalfMod \div 2) .. (HalfMod \div 2 - 1) /\ Start(p) + v = Start(q)
    BY <1>6, <1>8, <1>11, <2>1
  <2>3. HalfAt(OperandStart(p, j)) = v % HalfMod
    BY Zenon, <1>4, <2>1, <2>2, HalfOperand
  <2>4. Signed(v % HalfMod, HalfMod) = v
    BY Zenon, <2>2, HalfType, SignedIs
  <2>5. SizeAt(p, j) = 2
    BY DEF SizeAt
  <2>6. Read(p, j) = Start(p) + Signed(HalfAt(OperandStart(p, j)), HalfMod)
    BY <2>5 DEF Read
  <2> QED  BY <2>2, <2>3, <2>4, <2>6
<1> QED  BY Zenon, <1>0, <1>7, <1>8, <1>9, <1>10, <1>11

-----------------------------------------------------------------------------
(* The theorems. *)

\* The three parts of the invariant: addresses, meanings, bytes.
LEMMA ImageAlways == Spec => [](AssemblyInv /\ MeaningInv /\ EmittedInv)
BY AssemblyInit, AssemblyNext, MeaningInit, MeaningNext, EmittedInit, EmittedNext, PTL DEF Spec

\* Whatever is assembled, a branch goes to what stands behind the first label of
\* its name in the method, when the distance has 16 bits.
THEOREM BranchesAlwaysLand == Spec => []BranchesLand
<1>1. AssemblyInv /\ MeaningInv /\ EmittedInv => BranchesLand
  <2> SUFFICES ASSUME AssemblyInv, MeaningInv, EmittedInv, pass = "done",
                      NEW p \in GenericPlaces, NEW j \in DOMAIN TemplateAt(p).operands,
                      TemplateAt(p).operands[j] = "label"
               PROVE  \E q \in Places :
                        /\ q[1] = p[1] /\ program[q[1]].insns[q[2]] =
                                            [kind |-> "label", label |-> OperandsAt(p)[j].symbol]
                        /\ \A l \in 1 .. q[2] - 1 :
                             program[q[1]].insns[l] # program[q[1]].insns[q[2]]
                        /\ Start(q) - Start(p) \in -(HalfMod \div 2) .. (HalfMod \div 2 - 1)
                             => Read(p, j) = Start(q)
    BY DEF BranchesLand
  <2>1. DoneInv /\ program \in Programs
    BY DEF DoneInv, AssemblyInv, Typed
  <2>2. j \in 1 .. Count(p[1], p[2])
    BY <2>1, PlaceType
  <2> QED  BY Zenon, <2>1, <2>2, BranchLands
<1> QED  BY <1>1, ImageAlways, PTL

\* The values of expressions are ints of the machine.
LEMMA EvalInts ==
  ASSUME NEW i, NEW e \in Exprs, NEW v \in Eval(i)[e]
  PROVE  v \in Int32 /\ v \in Int
<1>1. v \in Int32
  BY DEF Eval
<1> QED  BY <1>1 DEF Int32

\* A constant is loaded as it was put into the pool.
LEMMA ConstantRead ==
  ASSUME NEW c \in DOMAIN cpool, cpool[c] \in Int32
  PROVE  LoadedImage.cpool[c] = cpool[c]
<1> PICK v : v = cpool[c]
  OBVIOUS
<1>1. IntMod \in Nat /\ IntMod > 1 /\ IntMod % 2 = 0 /\ IntMod > 0
  BY HalfType
<1>2. v \in -(IntMod \div 2) .. (IntMod \div 2 - 1) /\ v \in Int
  BY <1>1 DEF Int32
<1>3. Signed(v % IntMod, IntMod) = v
  BY Zenon, <1>1, <1>2, SignedIs
<1>4. (v % IntMod) % IntMod = v % IntMod
  <2>1. v % IntMod \in 0 .. IntMod - 1
    BY <1>1, <1>2
  <2> QED  BY Zenon, <1>1, <2>1, InRange
<1>5. LoadedImage.cpool[c] = ToInt(v % IntMod)
  BY DEF LoadedImage, ImageLoad, ImageWrite
<1> QED  BY <1>3, <1>4, <1>5 DEF ToInt, Signed

\* One byte of an operand is read as it was written.
LEMMA ByteOperand ==
  ASSUME DoneInv, NEW p \in GenericPlaces, NEW j \in 1 .. Count(p[1], p[2]),
         NEW v, Holds(bytes, OperandStart(p, j), <<v>>)
  PROVE  ByteAt(OperandStart(p, j)) = v
<1>1. bytes \in Seq(0 .. ByteMod - 1)
  BY DEF DoneInv, AssemblyInv, Typed, TypeOK
<1>2. PICK s, at : s = <<v>> /\ at = OperandStart(p, j)
  OBVIOUS
<1>3. Len(s) = 1 /\ s[1] = v /\ 1 \in 1 .. Len(s)
  BY <1>2
<1>4. Holds(bytes, at, s)
  BY Zenon, <1>2
<1>5. at + 1 - 1 = at
  BY <1>4 DEF Holds
<1>6. ByteAt(at + 1 - 1) = s[1]
  BY Zenon, <1>1, <1>3, <1>4, ByteRead
<1> QED  BY Zenon, <1>2, <1>3, <1>5, <1>6

\* An operand that stands for a number is read as one of the values of its
\* expression.
LEMMA ReadIs ==
  ASSUME DoneInv, NEW p \in GenericPlaces, NEW j \in 1 .. Count(p[1], p[2]),
         TemplateAt(p).operands[j] \notin {"label", "method"}, Len(cpool) <= HalfMod
  PROVE  /\ OperandsAt(p)[j] \in Exprs
         /\ Read(p, j) \in Eval(p[1])[OperandsAt(p)[j]]
<1>0. PICK a, b, kind, e, value, at :
        /\ a = p[1] /\ b = p[2] /\ kind = TemplateAt(p).operands[j] /\ e = OperandsAt(p)[j]
        /\ value = insns[a][b].values[j] /\ at = OperandStart(p, j)
  OBVIOUS
<1>1. program \in Programs
  BY DEF DoneInv, AssemblyInv, Typed
<1>2. /\ a \in 1 .. Len(program) /\ b \in 1 .. LastOf(a)
      /\ TemplateAt(p).operands = OperandKinds(a, b)
      /\ OperandKinds(a, b) \in Seq(Kinds)
      /\ Count(a, b) = Len(OperandKinds(a, b)) /\ j \in 1 .. Count(a, b)
  BY <1>0, <1>1, PlaceType
<1>3. kind \in Kinds /\ kind = OperandKinds(a, b)[j]
  BY <1>0, <1>2
<1>4. e \in Exprs /\ Valued(value, kind, e, Eval(a)[e], cpool)
  BY Zenon, <1>0, OperandKept
<1>5. PICK s : OperandOf(s, a, b, j) /\ Holds(bytes, at, s)
  BY <1>0, OperandHeld
<1>6. Read(p, j) \in Eval(a)[e]
  <2>1. CASE kind = "byte"
    <3>1. value \in Eval(a)[e] /\ value \in SignedBytes
      BY <1>4, <2>1 DEF Valued
    <3>2. s = <<value % ByteMod>>
      BY <1>0, <1>3, <1>5, <2>1 DEF OperandOf
    <3>3. ByteAt(at) = value % ByteMod
      BY Zenon, <1>0, <1>5, <3>2, ByteOperand
    <3>4. Signed(value % ByteMod, ByteMod) = value
      BY <3>1, ByteModAssumption, SignedIs DEF SignedBytes
    <3>5. SizeAt(p, j) = 1
      BY <1>0, <2>1 DEF SizeAt
    <3>6. Read(p, j) = Signed(ByteAt(at), ByteMod)
      BY <1>0, <2>1, <3>5 DEF Read
    <3> QED  BY <3>1, <3>3, <3>4, <3>6
  <2>2. CASE kind = "varnum"
    <3>1. value \in Eval(a)[e] /\ value \in 0 .. ByteMod - 1
      BY <1>4, <2>2 DEF Valued, VarNums
    <3>2. s = <<value % ByteMod>>
      BY <1>0, <1>3, <1>5, <2>2 DEF OperandOf
    <3>3. ByteAt(at) = value % ByteMod
      BY Zenon, <1>0, <1>5, <3>2, ByteOperand
    <3>4. value % ByteMod = value
      BY <3>1, ByteModAssumption, InRange
    <3>5. SizeAt(p, j) = 1
      BY <1>0, <2>2 DEF SizeAt
    <3>6. Read(p, j) = ByteAt(at)
      BY <1>0, <2>2, <3>5 DEF Read
    <3> QED  BY <3>1, <3>3, <3>4, <3>6
  <2>3. CASE kind = "varnum-wide"
    <3>1. value \in Eval(a)[e] /\ value \in 0 .. HalfMod - 1
      BY <1>4, <2>3 DEF Valued, WideVarNums
    <3>2. SizeAt(p, j) = SizeOf(kind, value) /\ SizeAt(p, j) = IF NeedsWide(value) THEN 2 ELSE 1
      BY <1>0, <1>3, <2>3, SizeIs DEF SizeOf
    <3>3. CASE NeedsWide(value)
      <4>1. s = Int16(value)
        BY <1>0, <1>3, <1>5, <2>3, <3>3 DEF OperandOf
      <4>2. value \in Int
        BY <3>1
      <4>3. HalfAt(at) = value % HalfMod
        BY Zenon, <1>0, <1>5, <4>1, <4>2, HalfOperand
      <4>4. value % HalfMod = value
        BY SMTT(60), <3>1, HalfType, InRange
      <4>5. Read(p, j) = HalfAt(at)
        BY <1>0, <2>3, <3>2, <3>3 DEF Read
      <4> QED  BY <3>1, <4>3, <4>4, <4>5
    <3>4. CASE ~NeedsWide(value)
      <4>1. s = <<value % ByteMod>>
        BY <1>0, <1>3, <1>5, <2>3, <3>4 DEF OperandOf
      <4>2. ByteAt(at) = value % ByteMod
        BY Zenon, <1>0, <1>5, <4>1, ByteOperand
      <4>3. value \in 0 .. ByteMod - 1
        BY <3>1, <3>4, ByteModAssumption DEF NeedsWide
      <4>4. value % ByteMod = value
        BY <4>3, ByteModAssumption, InRange
      <4>5. Read(p, j) = ByteAt(at)
        BY <1>0, <2>3, <3>2, <3>4 DEF Read
      <4> QED  BY <3>1, <4>2, <4>4, <4>5
    <3> QED  BY <3>3, <3>4
  <2>4. CASE kind = "constant"
    <3>1. PICK v \in Eval(a)[e] : Pooled(value, v, cpool)
      BY <1>4, <2>4 DEF Valued
    <3>2. v \in Int32
      BY <1>4, EvalInts
    <3>3. cpool \in Seq(Int)
      BY DEF DoneInv, AssemblyInv, Typed, TypeOK
    <3>4. value \in Nat /\ value + 1 \in DOMAIN cpool /\ cpool[value + 1] = v /\ value < HalfMod
      <4>1. value \in Nat /\ value < Len(cpool) /\ cpool[value + 1] = v
        BY <3>1 DEF Pooled
      <4> QED  BY <3>3, <4>1, HalfType
    <3>5. s = Int16(value)
      BY SMTT(60), <1>0, <1>3, <1>5, <2>4 DEF OperandOf
    <3>6. HalfAt(at) = value % HalfMod
      BY <1>0, <1>5, <3>4, <3>5, HalfOperand
    <3>7. value % HalfMod = value
      BY <3>4, HalfType, InRange
    <3>8. SizeAt(p, j) = 2
      BY <1>0, <2>4 DEF SizeAt
    <3>9. Read(p, j) = LoadedImage.cpool[HalfAt(at) + 1]
      BY <1>0, <2>4, <3>8 DEF Read
    <3>10. LoadedImage.cpool[value + 1] = v
      BY <3>2, <3>4, ConstantRead
    <3> QED  BY <3>1, <3>6, <3>7, <3>9, <3>10
  <2> QED  BY <1>0, <1>3, <2>1, <2>2, <2>3, <2>4 DEF Kinds
<1> QED  BY <1>0, <1>4, <1>6

\* Operands and directives are evaluated.
LEMMA OperandEvaluated ==
  ASSUME NEW p \in GenericPlaces, NEW j \in DOMAIN OperandsAt(p)
  PROVE  OperandsAt(p)[j] \in Evaluated(p[1])
<1>1. PICK e : e = OperandsAt(p)[j]
  OBVIOUS
<1>2. PICK set : set = {OperandsAt(p)[h] : h \in DOMAIN OperandsAt(p)}
  OBVIOUS
<1>3. e \in set
  BY <1>1, <1>2
<1>4. p \in {x \in GenericPlaces : x[1] = p[1]}
  OBVIOUS
<1>5. set \in {{OperandsAt(x)[h] : h \in DOMAIN OperandsAt(x)} :
                x \in {x \in GenericPlaces : x[1] = p[1]}}
  BY Zenon, <1>2, <1>4
<1>6. e \in OperandsIn(p[1])
  BY Zenon, <1>3, <1>5 DEF OperandsIn
<1> QED  BY <1>1, <1>6 DEF Evaluated

\* The programs do not use the mnemonic `wide', but leave prefixes to the assembler.
PrefixesLeftToAssembler ==
  \A prog \in Programs : \A i \in DOMAIN prog : \A j \in DOMAIN prog[i].insns :
    prog[i].insns[j].kind = "generic" => Templates[prog[i].insns[j].mnemonic].opcode # Wide

\* Whatever is assembled of such programs, a simulator finds the opcode of every
\* instruction, and operands with the values of their expressions.
THEOREM OperandsAlwaysSurvive ==
  ASSUME PrefixesLeftToAssembler, FiniteTrees, LiteralsFit
  PROVE  Spec => []OperandsSurvive
<1>1. AssemblyInv /\ MeaningInv /\ EmittedInv /\ EvalIsExact => OperandsSurvive
  <2> SUFFICES ASSUME AssemblyInv, MeaningInv, EmittedInv, EvalIsExact, pass = "done",
                      Len(cpool) <= HalfMod, NEW p \in GenericPlaces
               PROVE  /\ ByteAt(Start(p) + Prefix(p)) = TemplateAt(p).opcode
                      /\ \A j \in DOMAIN TemplateAt(p).operands :
                           TemplateAt(p).operands[j] \notin {"label", "method"} =>
                             {Read(p, j)} = Exact(p[1])[OperandsAt(p)[j]]
    BY DEF OperandsSurvive
  <2>1. DoneInv /\ program \in Programs
    BY DEF DoneInv, AssemblyInv, Typed
  <2>2. /\ p[1] \in DOMAIN program /\ p[2] \in DOMAIN program[p[1]].insns
        /\ program[p[1]].insns[p[2]].kind = "generic"
        /\ DOMAIN TemplateAt(p).operands = 1 .. Count(p[1], p[2])
    BY <2>1, PlaceType, ProgramsAssumption, ProgramType DEF LastOf, Item
  <2>3. TemplateAt(p).opcode # Wide
    BY <2>1, <2>2 DEF PrefixesLeftToAssembler, TemplateAt
  <2>4. ByteAt(Start(p) + Prefix(p)) = TemplateAt(p).opcode
    BY <2>1, <2>3, PrefixIs
  <2>5. ASSUME NEW j \in 1 .. Count(p[1], p[2]),
               TemplateAt(p).operands[j] \notin {"label", "method"}
        PROVE  {Read(p, j)} = Exact(p[1])[OperandsAt(p)[j]]
    <3>1. PICK e : e = OperandsAt(p)[j]
      OBVIOUS
    <3>2. Read(p, j) \in Eval(p[1])[e]
      BY <2>1, <2>5, <3>1, ReadIs
    <3>3. e \in Evaluated(p[1])
      <4>1. j \in DOMAIN OperandsAt(p)
        BY <2>1, OperandKept, PlaceType
      <4> QED  BY <3>1, <4>1, OperandEvaluated
    <3>4. ~TooLong(program)
      BY FittingLiterals
    <3>5. Eval(p[1])[e] = Exact(p[1])[e] /\ \A v, w \in Eval(p[1])[e] : v = w
      BY <2>2, <3>3, <3>4 DEF EvalIsExact
    <3> QED  BY <3>1, <3>2, <3>5
  <2> QED  BY <2>2, <2>4, <2>5
<1> QED  BY <1>1, ImageAlways, ExpressionsAlwaysExact, PTL

-----------------------------------------------------------------------------
(* Names that are looked up. *)

\* What is found of a method's name.
LEMMA MethodNamedIs ==
  ASSUME program \in Programs, NEW name
  PROVE  /\ MethodNamed(name) \subseteq 1 .. Len(program)
         /\ MethodNamed(name) = {} => \A i \in DOMAIN program : program[i].name # name
         /\ \A i \in MethodNamed(name) : /\ program[i].name = name
                                        /\ \A i2 \in 1 .. i - 1 : program[i2].name # name
<1> PICK S : S = {i \in DOMAIN program : program[i].name = name}
  OBVIOUS
<1>1. DOMAIN program = 1 .. Len(program) /\ Len(program) \in Nat
  BY ProgramsAssumption
<1>2. S \in SUBSET Nat /\ MethodNamed(name) = First(S)
  BY <1>1 DEF MethodNamed
<1>3. /\ S # {} => First(S) # {}
      /\ First(S) \subseteq S
      /\ \A x \in First(S) : \A y \in S : x <= y
  BY Zenon, <1>2, FirstIs
<1>4. ASSUME NEW i \in MethodNamed(name)
      PROVE  program[i].name = name /\ \A i2 \in 1 .. i - 1 : program[i2].name # name
  <2>1. i \in S /\ \A y \in S : i <= y
    BY <1>2, <1>3
  <2>2. i \in 1 .. Len(program)
    BY <1>1, <2>1
  <2>3. ASSUME NEW i2 \in 1 .. i - 1, program[i2].name = name PROVE FALSE
    <3>1. i2 \in DOMAIN program /\ ~(i <= i2)
      BY <1>1, <2>2
    <3> QED  BY <2>1, <2>3, <3>1
  <2> QED  BY <2>1, <2>3
<1> QED  BY <1>1, <1>2, <1>3, <1>4

\* A sequence is there when both its parts are.
LEMMA HoldsParts ==
  ASSUME NEW bs, NEW at, NEW S, NEW s \in Seq(S), NEW t \in Seq(S), Holds(bs, at, s \o t),
         Len(bs) \in Nat
  PROVE  Holds(bs, at, s) /\ Holds(bs, at + Len(s), t)
<1>1. PICK u : u = s \o t
  OBVIOUS
<1>2. /\ Len(u) = Len(s) + Len(t) /\ Len(s) \in Nat /\ Len(t) \in Nat
      /\ \A x \in 1 .. Len(s) : u[x] = s[x]
      /\ \A x \in 1 .. Len(t) : u[Len(s) + x] = t[x]
  <2>1. Len(u) = Len(s) + Len(t) /\ Len(s) \in Nat /\ Len(t) \in Nat
    BY <1>1, ConcatProperties, LenProperties
  <2>2. \A x \in 1 .. Len(s) : u[x] = s[x]
    BY <1>1, ConcatProperties
  <2>3. ASSUME NEW x \in 1 .. Len(t)
        PROVE  u[Len(s) + x] = t[x]
    <3>1. Len(s) + x \in Len(s) + 1 .. Len(s) + Len(t) /\ (Len(s) + x) - Len(s) = x
      BY <2>1
    <3>2. u[Len(s) + x] = t[(Len(s) + x) - Len(s)]
      BY <1>1, <3>1, ConcatProperties
    <3> QED  BY <3>1, <3>2
  <2> QED  BY <2>1, <2>2, <2>3
<1>3. /\ at \in Nat /\ at + Len(u) <= Len(bs)
      /\ \A x \in 1 .. Len(u) : bs[at + x] = u[x]
  BY <1>1 DEF Holds
<1>4. Holds(bs, at, s)
  <2>1. ASSUME NEW x \in 1 .. Len(s) PROVE bs[at + x] = s[x]
    <3>1. x \in 1 .. Len(u)
      BY <1>2
    <3> QED  BY <1>2, <1>3, <3>1
  <2> QED  BY <1>2, <1>3, <2>1 DEF Holds
<1>5. Holds(bs, at + Len(s), t)
  <2>1. ASSUME NEW x \in 1 .. Len(t) PROVE bs[(at + Len(s)) + x] = t[x]
    <3>1. PICK y : y = Len(s) + x
      OBVIOUS
    <3>2. y \in 1 .. Len(u) /\ at + y = (at + Len(s)) + x
      BY <1>2, <1>3, <3>1
    <3>3. bs[at + y] = u[y] /\ u[y] = t[x]
      BY <1>2, <1>3, <3>1, <3>2
    <3> QED  BY <3>2, <3>3
  <2> QED  BY <1>2, <1>3, <2>1 DEF Holds
<1> QED  BY <1>4, <1>5

\* An image has a method main.
MainThere == pass = "done" => MethodNamed(Main) # {}

\* No image is finished without main.
LEMMA MainNext == MainThere /\ [Next]_vars => MainThere'
<1> SUFFICES ASSUME MainThere, [Next]_vars, pass' = "done" PROVE MethodNamed(Main)' # {}
  BY DEF MainThere
<1>1. program' = program
  BY Zenon DEF Next, vars, EnterMethod, CheckLabel, CheckByte, CheckVarNum, CheckWideVarNum,
         CheckConstant, CheckName, CheckNoName, CheckOutOfRange, Take, Abort, EndInsn,
         WrongNumberOfOperands, EmitHeader, NoHeader, EmitOpcode, EmitByte, EmitWideVarNum,
         EmitConstant, EmitLabel, EmitMethod, Emit, NameUndefined, EmitNext, Finished
<1>2. MethodNamed(Main)' = MethodNamed(Main)
  BY <1>1 DEF MethodNamed
<1>3. CASE EmitNext
  BY <1>2, <1>3 DEF EmitNext, NextInsn
<1>4. CASE ~EmitNext
  <2>1. pass = "done"
    BY Zenon, <1>4 DEF Next, vars, EnterMethod, CheckLabel, CheckByte, CheckVarNum, CheckWideVarNum,
         CheckConstant, CheckName, CheckNoName, CheckOutOfRange, Take, Abort, EndInsn, NextInsn,
         WrongNumberOfOperands, EmitHeader, NoHeader, EmitOpcode, EmitByte, EmitWideVarNum,
         EmitConstant, EmitLabel, EmitMethod, Emit, EmittingOperand, OperandsChecked,
         CheckingOperand, NameUndefined, Finished
  <2> QED  BY Zenon, <1>2, <2>1 DEF MainThere
<1> QED  BY <1>3, <1>4

\* What a directive of the header is worth in exact arithmetic.
ExactValues(i, kind, default) ==
  IF Directive(i, kind) = {} THEN {default}
  ELSE UNION {Exact(i)[e] : e \in Directive(i, kind)}

\* What a directive of the header is worth, when expressions have their values.
LEMMA HeaderValue ==
  ASSUME DoneInv, EvalIsExact, ~TooLong(program), NEW i \in 1 .. Len(program), NEW kind \in {"args", "locals"},
         NEW default \in Int, NEW value \in HeaderValues(i, kind, default)
  PROVE  /\ value \in Int
         /\ {value % HalfMod} = {v % HalfMod : v \in ExactValues(i, kind, default)}
<1>1. program \in Programs /\ i \in DOMAIN program
  BY ProgramsAssumption DEF DoneInv, AssemblyInv, Typed
<1>2. CASE Directive(i, kind) = {}
  BY <1>2 DEF HeaderValues, ExactValues
<1>3. CASE Directive(i, kind) # {}
  <2>1. PICK e \in Directive(i, kind) : value \in Eval(i)[e]
    BY <1>3 DEF HeaderValues
  <2>2. Directive(i, kind) = {e} /\ e \in Exprs
    BY <1>1, DirectiveIs
  <2>3. e \in Evaluated(i)
    <3>1. e \in Directive(i, "args") \/ e \in Directive(i, "locals")
      OBVIOUS
    <3> QED  BY <3>1 DEF Evaluated
  <2>4. Eval(i)[e] = Exact(i)[e] /\ \A v, w \in Eval(i)[e] : v = w
    BY <1>1, <2>3 DEF DoneInv, EvalIsExact
  <2>5. Exact(i)[e] = {value}
    BY <2>1, <2>4
  <2>6. UNION {Exact(i)[f] : f \in Directive(i, kind)} = {value}
    BY <2>2, <2>5
  <2>7. value \in Int
    BY <2>1, <2>2, EvalInts
  <2> QED  BY <1>3, <2>6, <2>7 DEF ExactValues
<1> QED  BY <1>2, <1>3

\* A method has its header at its address.
LEMMA HeaderIs ==
  ASSUME DoneInv, EvalIsExact, ~TooLong(program), NEW i \in 1 .. Len(program)
  PROVE  /\ HeaderAt(methods[i].address, i)
         /\ methods[i].address \in Nat /\ methods[i].address < Len(bytes)
<1> PICK at : at = methods[i].address
  OBVIOUS
<1>1. bytes \in Seq(0 .. ByteMod - 1) /\ HeaderThere(i) /\ Len(bytes) \in Nat
  BY DonePlace
<1>2. PICK args \in HeaderValues(i, "args", 1), locals \in HeaderValues(i, "locals", 0) :
        Holds(bytes, at, Int16(args) \o Int16(locals))
  BY <1>1 DEF HeaderThere, HeaderOf
<1>3. /\ args \in Int /\ locals \in Int
      /\ {args % HalfMod} = {v % HalfMod : v \in ExactValues(i, "args", 1)}
      /\ {locals % HalfMod} = {v % HalfMod : v \in ExactValues(i, "locals", 0)}
  <2>1. "args" \in {"args", "locals"} /\ "locals" \in {"args", "locals"} /\ 0 \in Int /\ 1 \in Int
    OBVIOUS
  <2> QED  BY Zenon, <1>2, <2>1, HeaderValue
<1>4. /\ Int16(args) \in Seq(0 .. ByteMod - 1) /\ Len(Int16(args)) = 2
      /\ Int16(locals) \in Seq(0 .. ByteMod - 1)
  BY <1>3, Int16Type
<1>5. Holds(bytes, at, Int16(args)) /\ Holds(bytes, at + 2, Int16(locals))
  <2>1. Holds(bytes, at, Int16(args)) /\ Holds(bytes, at + Len(Int16(args)), Int16(locals))
    BY Zenon, <1>1, <1>2, <1>4, HoldsParts
  <2> QED  BY Zenon, <1>4, <2>1
<1>6. HalfAt(at) = args % HalfMod /\ HalfAt(at + 2) = locals % HalfMod
  BY Zenon, <1>1, <1>3, <1>5, HalfRead
<1>7. HeaderAt(at, i)
  BY Zenon, <1>3, <1>6 DEF HeaderAt, ExactValues
<1>8. at \in Nat /\ at + 2 <= Len(bytes)
  BY <1>4, <1>5 DEF Holds
<1> QED  BY <1>1, <1>7, <1>8

\* The index of a method leads to its header.
LEMMA MethodReached ==
  ASSUME DoneInv, EvalIsExact, ~TooLong(program), Len(bytes) <= IntMod \div 2, NEW name, NEW i \in MethodNamed(name)
  PROVE  /\ methods[i].index \in Nat /\ methods[i].index < Len(cpool)
         /\ Reaches(methods[i].index, name)
<1>1. program \in Programs /\ cpool \in Seq(Int) /\ bytes \in Seq(0 .. ByteMod - 1)
  BY DEF DoneInv, AssemblyInv, Typed, TypeOK
<1>2. i \in 1 .. Len(program) /\ i \in DOMAIN program
  BY <1>1, MethodNamedIs, ProgramsAssumption
<1>3. Pooled(methods[i].index, methods[i].address, cpool)
  BY <1>2, DonePlace DEF DoneInv, MeaningInv, MethodsPooled
<1>4. /\ methods[i].index \in Nat /\ methods[i].index < Len(cpool)
      /\ methods[i].index + 1 \in DOMAIN cpool
      /\ cpool[methods[i].index + 1] = methods[i].address
  BY <1>1, <1>3 DEF Pooled
<1>5. /\ HeaderAt(methods[i].address, i)
      /\ methods[i].address \in Nat /\ methods[i].address < Len(bytes)
  BY <1>2, HeaderIs
<1>6. methods[i].address \in Int32
  BY <1>1, <1>5, HalfType DEF Int32
<1>7. LoadedImage.cpool[methods[i].index + 1] = methods[i].address
  BY <1>4, <1>6, ConstantRead
<1>8. program[i].name = name /\ \A i2 \in 1 .. i - 1 : program[i2].name # name
  BY <1>1, MethodNamedIs
<1>9. Reaches(methods[i].index, name)
  BY <1>2, <1>5, <1>7, <1>8 DEF Reaches
<1> QED  BY <1>4, <1>9

\* An index that is read back leads to the method of the name.
LEMMA CallReaches ==
  ASSUME DoneInv, EvalIsExact, ~TooLong(program), Len(cpool) <= BuiltinBase, Len(bytes) <= IntMod \div 2,
         NEW p \in GenericPlaces, NEW j \in 1 .. Count(p[1], p[2]),
         TemplateAt(p).operands[j] = "method", NEW name, name = OperandsAt(p)[j].symbol
  PROVE  \/ /\ Read(p, j) >= BuiltinBase
            /\ Builtins[Read(p, j) - BuiltinBase + 1] = name
         \/ /\ \A b \in DOMAIN Builtins : Builtins[b] # name
            /\ Reaches(Read(p, j), name)
<1>0. PICK a, b, at : a = p[1] /\ b = p[2] /\ at = OperandStart(p, j)
  OBVIOUS
<1>1. program \in Programs
  BY DEF DoneInv, AssemblyInv, Typed
<1>2. OperandKinds(a, b)[j] = "method"
  BY <1>0, <1>1, PlaceType
<1>3. insns[a][b].values[j] = name
  BY <1>0, OperandKept DEF Valued
<1>4. PICK index \in MethodIndex(name) : Holds(bytes, at, Int16(index))
  <2>1. PICK s : OperandOf(s, a, b, j) /\ Holds(bytes, at, s)
    BY <1>0, OperandHeld
  <2>2. \E index \in MethodIndex(name) : s = Int16(index)
    BY <1>2, <1>3, <2>1 DEF OperandOf
  <2> QED  BY Zenon, <2>1, <2>2
<1>5. ASSUME index \in 0 .. HalfMod - 1
      PROVE  Read(p, j) = index
  <2>1. index \in Int
    BY <1>5, HalfType
  <2>2. HalfAt(at) = index % HalfMod
    BY Zenon, <1>0, <1>4, <2>1, HalfOperand
  <2>3. index % HalfMod = index
    BY <1>5, HalfType, InRange
  <2>4. SizeAt(p, j) = 2
    BY DEF SizeAt
  <2>5. Read(p, j) = HalfAt(at)
    BY <1>0, <2>4 DEF Read
  <2> QED  BY <2>2, <2>3, <2>5
<1>6. PICK half \in Nat : BuiltinBase = half /\ HalfMod = 2 * half
  BY HalfType DEF BuiltinBase
<1>7. CASE BuiltinNamed(name) # {}
  <2>1. PICK c \in BuiltinNamed(name) : index = BuiltinBase + c - 1
    BY <1>4, <1>7 DEF MethodIndex
  <2>2. c \in DOMAIN Builtins /\ Builtins[c] = name
    BY DEF BuiltinNamed
  <2>3. c \in 1 .. Len(Builtins) /\ Len(Builtins) \in Nat /\ Len(Builtins) <= half
    BY <1>6, <2>2, BuiltinsAssumption
  <2>4. index \in 0 .. HalfMod - 1 /\ index >= BuiltinBase /\ index - BuiltinBase + 1 = c
    BY <1>6, <2>1, <2>3
  <2> QED  BY <1>5, <2>2, <2>4
<1>8. CASE BuiltinNamed(name) = {}
  <2>1. PICK i \in MethodNamed(name) : index = methods[i].index
    BY <1>4, <1>8 DEF MethodIndex
  <2>2. index \in Nat /\ index < Len(cpool) /\ Reaches(index, name)
    BY <2>1, MethodReached
  <2>3. index \in 0 .. HalfMod - 1
    <3>1. Len(cpool) \in Nat
      BY DEF DoneInv, AssemblyInv, Typed, TypeOK
    <3> QED  BY <1>6, <2>2, <3>1
  <2>4. \A c \in DOMAIN Builtins : Builtins[c] # name
    BY <1>8 DEF BuiltinNamed
  <2> QED  BY <1>5, <2>2, <2>3, <2>4
<1> QED  BY <1>7, <1>8

\* Whatever is assembled, invokevirtual gets to the built-in method of the name or
\* to the header of the first method of the name, and the main index to main.
THEOREM CallsAlwaysReach ==
  ASSUME FiniteTrees, LiteralsFit
  PROVE  Spec => []CallsReach
<1>1. Init => MainThere
  BY DEF Init, MainThere
<1>2. AssemblyInv /\ MeaningInv /\ EmittedInv /\ EvalIsExact /\ MainThere => CallsReach
  <2> SUFFICES ASSUME AssemblyInv, MeaningInv, EmittedInv, EvalIsExact, MainThere, pass = "done",
                      Len(cpool) <= BuiltinBase, Len(bytes) <= IntMod \div 2
               PROVE  /\ \E index \in MainIndex : Reaches(index, Main)
                      /\ \A p \in GenericPlaces : \A j \in DOMAIN TemplateAt(p).operands :
                           TemplateAt(p).operands[j] = "method" =>
                             LET name == OperandsAt(p)[j].symbol
                             IN  \/ /\ Read(p, j) >= BuiltinBase
                                    /\ Builtins[Read(p, j) - BuiltinBase + 1] = name
                                 \/ /\ \A b \in DOMAIN Builtins : Builtins[b] # name
                                    /\ Reaches(Read(p, j), name)
    BY DEF CallsReach
  <2>0. ~TooLong(program)
    BY FittingLiterals
  <2>1. DoneInv /\ program \in Programs /\ cpool \in Seq(Int)
    BY DEF DoneInv, AssemblyInv, Typed, TypeOK
  <2>2. \E index \in MainIndex : Reaches(index, Main)
    <3>1. PICK i \in MethodNamed(Main) : TRUE
      BY DEF MainThere
    <3>2. PICK index : index = methods[i].index
      OBVIOUS
    <3>3. index \in Nat /\ index < Len(cpool) /\ Reaches(index, Main)
      BY <2>0, <2>1, <3>2, MethodReached
    <3>4. index \in 0 .. HalfMod - 1
      <4>1. BuiltinBase <= HalfMod /\ Len(cpool) \in Nat /\ BuiltinBase \in Nat /\ HalfMod \in Nat
        BY <2>1, HalfType DEF BuiltinBase
      <4> QED  BY <3>3, <4>1
    <3>5. index % HalfMod = index
      BY <3>4, HalfType, InRange
    <3>6. index \in MainIndex
      BY <3>2, <3>5 DEF MainIndex
    <3> QED  BY <3>3, <3>6
  <2>3. ASSUME NEW p \in GenericPlaces, NEW j \in DOMAIN TemplateAt(p).operands,
               TemplateAt(p).operands[j] = "method"
        PROVE  \/ /\ Read(p, j) >= BuiltinBase
                  /\ Builtins[Read(p, j) - BuiltinBase + 1] = OperandsAt(p)[j].symbol
               \/ /\ \A b \in DOMAIN Builtins : Builtins[b] # OperandsAt(p)[j].symbol
                  /\ Reaches(Read(p, j), OperandsAt(p)[j].symbol)
    <3>1. j \in 1 .. Count(p[1], p[2])
      BY <2>1, PlaceType
    <3> QED  BY Zenon, <2>0, <2>1, <2>3, <3>1, CallReaches
  <2> QED  BY Zenon, <2>2, <2>3
<1> QED  BY <1>1, <1>2, MainNext, ImageAlways, ExpressionsAlwaysExact, PTL DEF Spec

-----------------------------------------------------------------------------
(* What is refused. *)

\* The assembler has a reason to refuse the operand.
BadOperand(i, e, kind) ==
  \/ kind = "byte" /\ Eval(i)[e] \intersect SignedBytes = {}
  \/ kind = "varnum" /\ Eval(i)[e] \intersect VarNums = {}
  \/ kind = "varnum-wide" /\ Eval(i)[e] \intersect WideVarNums = {}
  \/ kind = "constant" /\ Eval(i)[e] = {}
  \/ kind = "label" /\ (e.kind # "symbol" \/ Label(i, e.symbol) = {})
  \/ kind = "method" /\ (e.kind # "symbol" \/ (BuiltinNamed(e.symbol) = {} /\ MethodNamed(e.symbol) = {}))

\* What can be wrong with a program.
NoMain == MethodNamed(Main) = {}
NoValue == \E i \in DOMAIN program : \E kind \in {"args", "locals"} :
             \E e \in Directive(i, kind) : Eval(i)[e] = {}
WrongNumber == \E p \in GenericPlaces : Len(OperandsAt(p)) # Len(TemplateAt(p).operands)
WrongOperand == \E p \in GenericPlaces : \E j \in DOMAIN OperandsAt(p) :
                  BadOperand(p[1], OperandsAt(p)[j], TemplateAt(p).operands[j])

\* Something is wrong with the program.
Wrong == NoMain \/ NoValue \/ WrongNumber \/ WrongOperand

\* A program that has been refused has something wrong.
RefusedInv == pass \in {"aborted", "crashed"} => Wrong

\* What is wrong with a program stays wrong.
LEMMA WrongStays ==
  ASSUME UNCHANGED program, Wrong
  PROVE  Wrong'
<1>1. \A i : Eval(i)' = Eval(i)
  BY SMT DEF Eval, EvalTouched, Define
<1>2. /\ \A i, name : Label(i, name)' = Label(i, name)
      /\ \A name : MethodNamed(name)' = MethodNamed(name)
      /\ \A i, kind : Directive(i, kind)' = Directive(i, kind)
  BY DEF Label, LabelsNamed, MethodNamed, Directive, First
<1>3. /\ GenericPlaces' = GenericPlaces
      /\ \A p : OperandsAt(p)' = OperandsAt(p) /\ TemplateAt(p)' = TemplateAt(p)
  BY DEF GenericPlaces, Places, OperandsAt, TemplateAt
<1>4. \A i, e, kind : BadOperand(i, e, kind)' <=> BadOperand(i, e, kind)
  BY <1>1, <1>2 DEF BadOperand, BuiltinNamed
<1>5. NoMain => NoMain'
  BY <1>2 DEF NoMain
<1>6. NoValue => NoValue'
  BY Zenon, <1>1, <1>2 DEF NoValue
<1>7. WrongNumber => WrongNumber'
  BY Zenon, <1>3 DEF WrongNumber
<1>8. WrongOperand => WrongOperand'
  BY Zenon, <1>3, <1>4 DEF WrongOperand
<1> QED  BY <1>5, <1>6, <1>7, <1>8 DEF Wrong

\* The instruction that is being handled has its place.
LEMMA HerePlace ==
  ASSUME AssemblyInv, n > 0, Here.kind = "generic", NEW p, p = <<m, n>>
  PROVE  /\ p \in GenericPlaces /\ p[1] = m /\ p[2] = n
         /\ OperandsAt(p) = Here.operands /\ TemplateAt(p) = Template
         /\ OperandsAt(p) \in Seq(Exprs)
<1>1. /\ program \in Programs /\ m \in 1 .. Len(program) /\ n \in 1 .. LastOf(m)
  BY DEF AssemblyInv, Typed, TypeOK, LastOf
<1>2. DOMAIN program = 1 .. Len(program) /\ DOMAIN program[m].insns = 1 .. LastOf(m)
  BY <1>1, ProgramsAssumption, ProgramType DEF LastOf
<1>3. p[1] = m /\ p[2] = n /\ p \in {m} \X DOMAIN program[m].insns
  BY <1>1, <1>2
<1>4. p \in Places
  BY Zenon, <1>1, <1>2, <1>3 DEF Places
<1>5. p \in GenericPlaces
  BY <1>3, <1>4 DEF GenericPlaces, Here
<1>6. OperandsAt(p) = Here.operands /\ TemplateAt(p) = Template
  BY <1>3 DEF OperandsAt, TemplateAt, Here, Template
<1> QED  BY <1>1, <1>3, <1>5, <1>6, PlaceType

\* An operand that is refused in the first pass is wrong.
LEMMA CheckRefuses ==
  ASSUME AssemblyInv, CheckOutOfRange \/ WrongNumberOfOperands \/ CheckNoName
  PROVE  Wrong
<1> PICK p : p = <<m, n>>
  OBVIOUS
<1>1. ASSUME NEW kind, CheckingOperand(kind), BadOperand(m, Operand, kind)
      PROVE  WrongOperand
  <2>1. n > 0 /\ Here.kind = "generic" /\ k < Len(Here.operands) /\ Kind = kind
    BY <1>1 DEF CheckingOperand
  <2>2. /\ p \in GenericPlaces /\ p[1] = m /\ OperandsAt(p) = Here.operands
        /\ TemplateAt(p) = Template /\ OperandsAt(p) \in Seq(Exprs)
    BY <2>1, HerePlace
  <2>3. k \in Nat
    BY DEF AssemblyInv, Typed, TypeOK
  <2>4. k + 1 \in DOMAIN OperandsAt(p)
    BY <2>1, <2>2, <2>3
  <2>5. OperandsAt(p)[k + 1] = Operand /\ TemplateAt(p).operands[k + 1] = kind
    BY <2>1, <2>2 DEF Operand, Kind
  <2> QED  BY Zenon, <1>1, <2>2, <2>4, <2>5 DEF WrongOperand
<1>2. CASE CheckOutOfRange
  <2>1. CASE CheckingOperand("byte") /\ Eval(m)[Operand] \intersect SignedBytes = {}
    BY <1>1, <2>1 DEF BadOperand, Wrong
  <2>2. CASE CheckingOperand("varnum") /\ Eval(m)[Operand] \intersect VarNums = {}
    BY <1>1, <2>2 DEF BadOperand, Wrong
  <2>3. CASE CheckingOperand("varnum-wide") /\ Eval(m)[Operand] \intersect WideVarNums = {}
    BY <1>1, <2>3 DEF BadOperand, Wrong
  <2>4. CASE CheckingOperand("constant") /\ Eval(m)[Operand] \intersect Int32 = {}
    <3>1. Operand \in Exprs
      <4>1. n > 0 /\ Here.kind = "generic" /\ k < Len(Here.operands)
        BY <2>4 DEF CheckingOperand
      <4>2. Here.operands \in Seq(Exprs) /\ k \in Nat
        BY <4>1, HerePlace DEF AssemblyInv, Typed, TypeOK
      <4> QED  BY <4>1, <4>2 DEF Operand
    <3>2. Eval(m)[Operand] = {}
      BY <2>4, <3>1, EvalInts
    <3> QED  BY <1>1, <2>4, <3>2 DEF BadOperand, Wrong
  <2> QED  BY <1>2, <2>1, <2>2, <2>3, <2>4 DEF CheckOutOfRange
<1>3. CASE CheckNoName
  <2>1. PICK kind \in {"label", "method"} : CheckingOperand(kind)
    BY <1>3 DEF CheckNoName
  <2>2. Operand.kind # "symbol"
    BY <1>3 DEF CheckNoName
  <2> QED  BY <1>1, <2>1, <2>2 DEF BadOperand, Wrong
<1>4. CASE WrongNumberOfOperands
  <2>1. /\ n > 0 /\ Here.kind = "generic"
        /\ Len(Template.operands) # Len(Here.operands)
    BY <1>4 DEF WrongNumberOfOperands, OperandsChecked
  <2>2. p \in GenericPlaces /\ OperandsAt(p) = Here.operands /\ TemplateAt(p) = Template
    BY <2>1, HerePlace
  <2> QED  BY <2>1, <2>2 DEF WrongNumber, Wrong
<1> QED  BY <1>2, <1>3, <1>4

\* A header without a value is wrong.
LEMMA HeaderRefuses ==
  ASSUME AssemblyInv, NoHeader
  PROVE  Wrong
<1>1. program \in Programs /\ m \in DOMAIN program
  BY ProgramsAssumption DEF AssemblyInv, Typed, TypeOK
<1>2. PICK kind \in {"args", "locals"} : \E default : DirectiveValue(kind, default) = {}
  BY DEF NoHeader
<1>3. Directive(m, kind) # {} /\ UNION {Eval(m)[e] : e \in Directive(m, kind)} = {}
  BY <1>2 DEF DirectiveValue
<1>4. PICK e \in Directive(m, kind) : TRUE
  BY <1>3
<1>5. Eval(m)[e] = {}
  BY <1>3
<1> QED  BY <1>1, <1>5 DEF NoValue, Wrong

\* A name that is not found is wrong.
LEMMA NameRefuses ==
  ASSUME AssemblyInv, MeaningInv, NameUndefined
  PROVE  Wrong
<1>0. PICK p, name : p = <<m, n>> /\ name = Value
  OBVIOUS
<1>1. PICK kind \in {"label", "method"} :
        /\ EmittingOperand({kind})
        /\ kind = "label" => Label(m, name) = {}
        /\ kind = "method" => MethodIndex(name) = {}
  BY <1>0 DEF NameUndefined
<1>2. /\ pass = "emit" /\ n > 0 /\ Here.kind = "generic" /\ k \in 1 .. Len(Template.operands)
      /\ Template.operands[k] = kind
  BY <1>1 DEF EmittingOperand
<1>3. /\ p \in GenericPlaces /\ p[1] = m /\ OperandsAt(p) = Here.operands
      /\ TemplateAt(p) = Template /\ OperandsAt(p) \in Seq(Exprs)
  BY <1>0, <1>2, HerePlace
<1>4. /\ m \in 1 .. Len(insns) /\ n \in 1 .. Len(insns[m])
  BY <1>2, EmittingPlace
<1>5. /\ Meant(Here, Meanings[m], cpool, insns[m][n], CountOf(Here)) /\ Complete(Here)
  BY Zenon, <1>4 DEF MeaningInv, CheckedMeant, Here
<1>6. CountOf(Here) = Len(Template.operands) /\ KindsOf(Here) = Template.operands
  BY <1>2 DEF CountOf, KindsOf, Template
<1>7. k \in 1 .. CountOf(Here) /\ KindsOf(Here)[k] = kind
  BY <1>2, <1>6
<1>8. Valued(name, kind, Here.operands[k], Meanings[m][Here.operands[k]], cpool)
  BY Zenon, <1>0, <1>2, <1>5, <1>7 DEF Meant, Value
<1>9. Here.operands[k].kind = "symbol" /\ Here.operands[k].symbol = name
  BY <1>8 DEF Valued
<1>10. k \in DOMAIN OperandsAt(p)
  BY <1>2, <1>3, <1>5, <1>6 DEF Complete
<1>11. MethodIndex(name) = {} => BuiltinNamed(name) = {} /\ MethodNamed(name) = {}
  BY DEF MethodIndex
<1>12. BadOperand(m, Here.operands[k], kind)
  BY <1>1, <1>9, <1>11 DEF BadOperand
<1> QED  BY Zenon, <1>2, <1>3, <1>10, <1>12 DEF WrongOperand, Wrong

\* No step refuses a program that has nothing wrong.
LEMMA RefusedNext ==
  AssemblyInv /\ MeaningInv /\ RefusedInv /\ [Next]_vars => RefusedInv'
<1> SUFFICES ASSUME AssemblyInv, MeaningInv, RefusedInv, [Next]_vars,
                    pass' \in {"aborted", "crashed"}
             PROVE  Wrong'
  BY Zenon DEF RefusedInv
<1>1. UNCHANGED program
  BY Zenon DEF Next, vars, EnterMethod, CheckLabel, CheckByte, CheckVarNum, CheckWideVarNum,
         CheckConstant, CheckName, CheckNoName, CheckOutOfRange, Take, Abort, EndInsn,
         WrongNumberOfOperands, EmitHeader, NoHeader, EmitOpcode, EmitByte, EmitWideVarNum,
         EmitConstant, EmitLabel, EmitMethod, Emit, NameUndefined, EmitNext, Finished
<1>2. CASE CheckOutOfRange \/ WrongNumberOfOperands \/ CheckNoName
  BY <1>1, <1>2, CheckRefuses, WrongStays
<1>3. CASE NoHeader  BY <1>1, <1>3, HeaderRefuses, WrongStays
<1>4. CASE NameUndefined  BY <1>1, <1>4, NameRefuses, WrongStays
<1>5. CASE EmitNext
  <2>1. MethodNamed(Main) = {}
    BY <1>5 DEF EmitNext, NextInsn
  <2> QED  BY <1>1, <2>1, WrongStays DEF NoMain, Wrong
<1>6. CASE EnterMethod \/ CheckLabel \/ CheckByte \/ CheckVarNum \/ CheckWideVarNum
             \/ CheckConstant \/ CheckName \/ EndInsn
  <2>1. pass' # "aborted" /\ pass' # "crashed"
    BY SMTT(60), <1>6 DEF EnterMethod, CheckLabel, CheckByte, CheckVarNum, CheckWideVarNum, CheckConstant,
                CheckName, Take, EndInsn, NextInsn, OperandsChecked, CheckingOperand
  <2> QED  BY <2>1
<1>7. CASE EmitHeader \/ EmitOpcode \/ EmitByte \/ EmitWideVarNum \/ EmitConstant
             \/ EmitLabel \/ EmitMethod
  <2>1. pass' # "aborted" /\ pass' # "crashed"
    BY <1>7 DEF EmitHeader, EmitOpcode, EmitByte, EmitWideVarNum, EmitConstant, EmitLabel,
                EmitMethod, Emit, EmittingOperand
  <2> QED  BY <2>1
<1>8. CASE Finished \/ UNCHANGED vars
  <2>1. UNCHANGED pass
    BY <1>8 DEF Finished, vars
  <2> QED  BY <1>1, <2>1, WrongStays DEF RefusedInv
<1> QED  BY <1>2, <1>3, <1>4, <1>5, <1>6, <1>7, <1>8 DEF Next

\* An operand is valid, when its expression has its value, or is bad.
LEMMA ValidOrBad ==
  ASSUME program \in Programs, NEW i \in DOMAIN program, NEW e \in Exprs, NEW kind \in Kinds,
         Eval(i)[e] = Exact(i)[e]
  PROVE  OperandValid(i, e, kind) <=> ~BadOperand(i, e, kind)
<1>1. CASE kind \in {"byte", "varnum", "varnum-wide", "constant"}
  BY <1>1 DEF OperandValid, BadOperand
<1>2. CASE kind = "label"
  <2>1. PICK S : S = LabelsNamed(i, e.symbol)
    OBVIOUS
  <2>2. S \in SUBSET Nat /\ Label(i, e.symbol) = First(S)
    BY <2>1, ProgramType, ProgramsAssumption DEF LabelsNamed, Label
  <2>3. S = {} <=> Label(i, e.symbol) = {}
    BY ZenonT(60), <2>2, FirstIs
  <2>4. ASSUME NEW l \in DOMAIN program[i].insns
        PROVE  l \in S <=> program[i].insns[l] = [kind |-> "label", label |-> e.symbol]
    <3>1. program[i].insns[l] \in Insns
      BY ProgramsAssumption
    <3>2. program[i].insns[l].kind = "label" => program[i].insns[l] \in [kind : {"label"}, label : Names]
      BY <3>1 DEF Insns
    <3> QED  BY <2>1, <3>2 DEF LabelsNamed
  <2>5. S \subseteq DOMAIN program[i].insns
    BY <2>1 DEF LabelsNamed
  <2>6. (\E l \in DOMAIN program[i].insns :
           program[i].insns[l] = [kind |-> "label", label |-> e.symbol]) <=> Label(i, e.symbol) # {}
    BY Zenon, <2>3, <2>4, <2>5
  <2> QED  BY <1>2, <2>6 DEF OperandValid, BadOperand
<1>3. CASE kind = "method"
  <2>1. MethodNamed(e.symbol) = {} => \A l \in DOMAIN program : program[l].name # e.symbol
    BY MethodNamedIs
  <2>2. \A l \in MethodNamed(e.symbol) : l \in DOMAIN program /\ program[l].name = e.symbol
    BY MethodNamedIs, ProgramsAssumption
  <2>3. (\E l \in DOMAIN program : program[l].name = e.symbol) <=> MethodNamed(e.symbol) # {}
    BY Zenon, <2>1, <2>2
  <2>4. (\E b \in DOMAIN Builtins : Builtins[b] = e.symbol) <=> BuiltinNamed(e.symbol) # {}
    BY DEF BuiltinNamed
  <2> QED  BY <1>3, <2>3, <2>4 DEF OperandValid, BadOperand
<1> QED  BY <1>1, <1>2, <1>3 DEF Kinds

\* With the values that expressions have, a program that has nothing wrong is valid.
LEMMA ValidOrWrong ==
  ASSUME program \in Programs, EvalIsExact, pass \in {"done", "aborted", "crashed"},
         ~TooLong(program)
  PROVE  Valid <=> ~Wrong
<1>1. ASSUME NEW i \in DOMAIN program, NEW e \in Evaluated(i)
      PROVE  Eval(i)[e] = Exact(i)[e]
  BY DEF EvalIsExact
<1>2. (\E i \in DOMAIN program : program[i].name = Main) <=> ~NoMain
  <2>1. MethodNamed(Main) = {} => \A l \in DOMAIN program : program[l].name # Main
    BY MethodNamedIs
  <2>2. \A l \in MethodNamed(Main) : l \in DOMAIN program /\ program[l].name = Main
    BY MethodNamedIs, ProgramsAssumption
  <2> QED  BY Zenon, <2>1, <2>2 DEF NoMain
<1>3. (\A i \in DOMAIN program : \A kind \in {"args", "locals"} :
         \A e \in Directive(i, kind) : Exact(i)[e] # {}) <=> ~NoValue
  <2>1. ASSUME NEW i \in DOMAIN program, NEW kind \in {"args", "locals"},
               NEW e \in Directive(i, kind)
        PROVE  Eval(i)[e] = Exact(i)[e]
    <3>1. e \in Evaluated(i)
      BY DEF Evaluated
    <3> QED  BY <1>1, <3>1
  <2> QED  BY Zenon, <2>1 DEF NoValue
<1>4. (\A p \in GenericPlaces : Len(OperandsAt(p)) = Len(TemplateAt(p).operands))
         <=> ~WrongNumber
  BY Zenon DEF WrongNumber
<1>5. ASSUME ~WrongNumber, NEW p \in GenericPlaces, NEW j \in DOMAIN OperandsAt(p)
      PROVE  OperandValid(p[1], OperandsAt(p)[j], TemplateAt(p).operands[j])
               <=> ~BadOperand(p[1], OperandsAt(p)[j], TemplateAt(p).operands[j])
  <2>1. Len(OperandsAt(p)) = Len(TemplateAt(p).operands)
    BY <1>4, <1>5
  <2>2. /\ p[1] \in DOMAIN program /\ OperandsAt(p) \in Seq(Exprs)
        /\ TemplateAt(p).operands \in Seq(Kinds)
    BY PlaceType, ProgramsAssumption
  <2>3. OperandsAt(p)[j] \in Exprs /\ TemplateAt(p).operands[j] \in Kinds
    BY <2>1, <2>2
  <2>4. Eval(p[1])[OperandsAt(p)[j]] = Exact(p[1])[OperandsAt(p)[j]]
    BY <1>1, <2>2, OperandEvaluated
  <2> QED  BY Zenon, <2>2, <2>3, <2>4, ValidOrBad
<1>6. ~WrongNumber => ((\A p \in GenericPlaces : \A j \in DOMAIN OperandsAt(p) :
                          OperandValid(p[1], OperandsAt(p)[j], TemplateAt(p).operands[j]))
                        <=> ~WrongOperand)
  BY Zenon, <1>5 DEF WrongOperand
<1>7. ~TooLong(program)
  OBVIOUS
<1> QED  BY Zenon, <1>2, <1>3, <1>4, <1>6, <1>7 DEF Valid, Wrong

\* In what has been assembled nothing is wrong.
LEMMA NothingWrong ==
  ASSUME DoneInv, MainThere
  PROVE  ~Wrong
<1>1. program \in Programs
  BY DEF DoneInv, AssemblyInv, Typed
<1>2. ~NoMain
  BY DEF NoMain, MainThere, DoneInv
<1>3. ~NoValue
  <2> SUFFICES ASSUME NEW i \in DOMAIN program, NEW kind \in {"args", "locals"},
                      NEW e \in Directive(i, kind), Eval(i)[e] = {}
               PROVE  FALSE
    BY DEF NoValue
  <2>1. i \in 1 .. Len(program)
    BY <1>1, ProgramsAssumption
  <2>2. HeaderThere(i)
    BY <2>1, DonePlace
  <2>3. \E args \in HeaderValues(i, "args", 1), locals \in HeaderValues(i, "locals", 0) : TRUE
    BY <2>2 DEF HeaderThere, HeaderOf
  <2>4. \E default : HeaderValues(i, kind, default) # {}
    BY <2>3
  <2>5. PICK f \in Directive(i, kind) : Eval(i)[f] # {}
    BY <2>4 DEF HeaderValues
  <2>6. e = f
    BY <1>1, <2>1, DirectiveIs
  <2> QED  BY <2>5, <2>6
<1>4. ASSUME NEW p \in GenericPlaces
      PROVE  Len(OperandsAt(p)) = Len(TemplateAt(p).operands)
  <2>1. /\ p[1] \in 1 .. Len(program) /\ p[2] \in 1 .. LastOf(p[1])
        /\ Item(p[1], p[2]).kind = "generic"
        /\ TemplateAt(p).operands = OperandKinds(p[1], p[2])
        /\ OperandsAt(p) = Item(p[1], p[2]).operands
    BY <1>1, PlaceType
  <2>2. Complete(Item(p[1], p[2]))
    BY <2>1, DonePlace
  <2> QED  BY <2>1, <2>2 DEF Complete, KindsOf, OperandKinds
<1>5. ASSUME NEW p \in GenericPlaces, NEW j \in DOMAIN OperandsAt(p)
      PROVE  ~BadOperand(p[1], OperandsAt(p)[j], TemplateAt(p).operands[j])
  <2>0. PICK i, e, kind, value :
          /\ i = p[1] /\ e = OperandsAt(p)[j] /\ kind = TemplateAt(p).operands[j]
          /\ value = insns[p[1]][p[2]].values[j]
    OBVIOUS
  <2>1. /\ OperandsAt(p) \in Seq(Exprs) /\ Count(i, p[2]) \in Nat
        /\ Count(i, p[2]) = Len(TemplateAt(p).operands)
    BY <1>1, <2>0, PlaceType
  <2>2. j \in 1 .. Count(p[1], p[2])
    BY <1>4, <2>0, <2>1
  <2>3. Valued(value, kind, e, Eval(i)[e], cpool) /\ e \in Exprs
    BY Zenon, <2>0, <2>2, OperandKept
  <2>4. kind \in {"byte", "varnum", "varnum-wide", "constant"} => ~BadOperand(i, e, kind)
    BY <2>3 DEF Valued, BadOperand
  <2>5. PICK s : OperandOf(s, i, p[2], j)
    BY <2>0, <2>2, OperandHeld
  <2>6. OperandKinds(i, p[2])[j] = kind
    BY <1>1, <2>0, PlaceType
  <2>7. kind = "label" => ~BadOperand(i, e, kind)
    BY <2>0, <2>3, <2>5, <2>6 DEF OperandOf, Valued, BadOperand
  <2>8. kind = "method" => ~BadOperand(i, e, kind)
    <3>1. kind = "method" => e.kind = "symbol" /\ MethodIndex(e.symbol) # {}
      BY <2>0, <2>3, <2>5, <2>6 DEF OperandOf, Valued
    <3>2. BuiltinNamed(e.symbol) = {} /\ MethodNamed(e.symbol) = {} => MethodIndex(e.symbol) = {}
      BY DEF MethodIndex
    <3> QED  BY <3>1, <3>2 DEF BadOperand
  <2> QED  BY <2>0, <2>4, <2>7, <2>8 DEF BadOperand
<1>6. ~WrongNumber
  BY <1>4 DEF WrongNumber
<1>7. ~WrongOperand
  BY Zenon, <1>5 DEF WrongOperand
<1> QED  BY <1>2, <1>3, <1>6, <1>7 DEF Wrong

\* Whatever is refused, by whichever pass, is no program of the language, and
\* whatever is assembled is one.
THEOREM InvalidAlwaysRefused ==
  ASSUME FiniteTrees, LiteralsFit
  PROVE  Spec => []RefusesTheInvalid
<1>0. ~TooLong(program)
  BY FittingLiterals
<1>1. Init => MainThere /\ RefusedInv
  BY <1>0 DEF Init, MainThere, RefusedInv
<1>2. AssemblyInv /\ MeaningInv /\ EmittedInv /\ EvalIsExact /\ MainThere /\ RefusedInv
        => RefusesTheInvalid
  <2> SUFFICES ASSUME AssemblyInv, MeaningInv, EmittedInv, EvalIsExact, MainThere, RefusedInv
               PROVE  RefusesTheInvalid
    OBVIOUS
  <2>1. program \in Programs
    BY DEF AssemblyInv, Typed
  <2>2. CASE pass = "done"
    <3>1. ~Wrong
      BY <2>2, NothingWrong DEF DoneInv
    <3>2. Valid
      BY <1>0, <2>1, <2>2, <3>1, ValidOrWrong
    <3> QED  BY <2>2, <3>2 DEF RefusesTheInvalid
  <2>3. CASE pass \in {"aborted", "crashed"}
    <3>1. Wrong
      BY <2>3 DEF RefusedInv
    <3>2. ~Valid
      BY <1>0, <2>1, <2>3, <3>1, ValidOrWrong
    <3> QED  BY <2>3, <3>2 DEF RefusesTheInvalid
  <2> QED  BY <2>2, <2>3 DEF RefusesTheInvalid
<1> QED  BY <1>1, <1>2, MainNext, RefusedNext, ImageAlways, ExpressionsAlwaysExact,
             PTL DEF Spec
=============================================================================
