------------------------------ MODULE MasmLayout ------------------------------
(***************************************************************************)
(* Where the microassembler puts the lines of a microprogram in the        *)
(* control store: src/mic1-layout.c.                                       *)
(*                                                                         *)
(* Three passes over the lines: lines behind absolute labels go to the     *)
(* address of the label, the two targets of every `if' go to addresses     *)
(* that differ by Half (the hardware selects one by setting the top bit),  *)
(* and the other lines fill the holes.  A problem is a warning, the passes *)
(* go on, and mic1-asm emits the store when there were none.               *)
(*                                                                         *)
(* The address of an absolute label is a number that the lexer has cut to  *)
(* an int, and it can be negative: the first pass then uses a word in      *)
(* front of the store, which is other data of the assembler.               *)
(*                                                                         *)
(* The C program links the lines backwards and recurs to the first one;    *)
(* here a line is its number and a pass is a loop, one step for each line. *)
(***************************************************************************)
EXTENDS Integers, Sequences

CONSTANTS Half,       \* half the control store: 0x100 words
          Sources,    \* the microprograms to lay out: sequences of lines
          IntMod,     \* the values of an int: 2^32
          Labels,     \* names of labels
          NoLabel     \* no label before a line, or no `if' in it

Addresses == 0 .. 2 * Half - 1
Nowhere == -IntMod    \* no absolute address; not laid out
None == 0             \* NULL: no line

ASSUME HalfAssumption == Half \in Nat \ {0}
ASSUME IntAssumption == IntMod \in Nat /\ IntMod % 2 = 0 /\ IntMod \div 2 >= 2 * Half
ASSUME NoLabelAssumption == NoLabel \notin Labels

\* A line: its label, the number written behind the label, whether there are
\* instructions in it, and the labels of its `if' when there is one.
Lines == [label : Labels \union {NoLabel}, absolute : Nat \union {Nowhere},
          insns : BOOLEAN,
          label1 : Labels \union {NoLabel}, label2 : Labels \union {NoLabel}]

ASSUME SourcesAssumption ==
  \A source \in Sources :
    /\ source \in Seq(Lines)
    /\ \A n \in DOMAIN source :
         /\ source[n].label = NoLabel => source[n].absolute = Nowhere
         /\ source[n].label1 # NoLabel => source[n].insns

VARIABLES lines,      \* the microprogram
          store,      \* mic_store: the line at every address
          address,    \* the address of every line that is laid out
          pass,       \* "absolutes", "jumps", "rest", "done" or "crashed"
          at,         \* the line the pass is at
          first,      \* where the pass looks for a free address
          warnings    \* the kinds of warnings given

vars == <<lines, store, address, pass, at, first, warnings>>

-----------------------------------------------------------------------------
\* masm_find_labels: a label stands for the first line from its own on that has
\* instructions; there may be none.
LineOf(n) ==
  IF \E m \in n .. Len(lines) : lines[m].insns
  THEN CHOOSE m \in n .. Len(lines) :
         lines[m].insns /\ \A k \in n .. m - 1 : ~lines[k].insns
  ELSE None

\* masm_lookup_label: of two labels of one name the last one defined is found.
Defines(n, name) == n \in DOMAIN lines /\ lines[n].label = name
Lookup(name) ==
  IF \E n \in DOMAIN lines : Defines(n, name)
  THEN LineOf(CHOOSE n \in DOMAIN lines :
                Defines(n, name) /\ \A m \in n + 1 .. Len(lines) : ~Defines(m, name))
  ELSE None

LaidOut(line) == address[line] # Nowhere

\* What the lexer makes of a number: strtol stops at the largest long, of two
\* ints, and an int keeps the low half of it.
LongMax == (IntMod \div 2 - 1) * IntMod + (IntMod - 1)
Strtol(number) == IF number > LongMax THEN LongMax ELSE number
ToInt(v) == IF v % IntMod < IntMod \div 2 THEN v % IntMod ELSE (v % IntMod) - IntMod

IsAbsolute(n) == lines[n].absolute # Nowhere
LabelAddress(n) == ToInt(Strtol(lines[n].absolute))

\* The words in front of the store that an int can be the index of, and whether
\* one of them is taken: it is when a line was put there, and may be otherwise.
Outside == -(IntMod \div 2) .. -1
MayBeTaken(a) == IF \E line \in DOMAIN lines : address[line] = a THEN {TRUE} ELSE BOOLEAN

\* Faulty: the last address is left out.
FreeButLast(from, to) == {a \in from .. to - 1 : store[a] = None}

Free(from, to) == {a \in from .. to : store[a] = None}

\* Faulty: the upper word of a pair is not looked at; the first pair is left out.
FreePairsBelow(from) == {a \in from .. Half - 1 : store[a] = None}
FreePairsAfter(from) ==
  {a \in from + 1 .. Half - 1 : store[a] = None /\ store[a + Half] = None}

FreePairs(from) == {a \in from .. Half - 1 : store[a] = None /\ store[a + Half] = None}
Least(S) == CHOOSE a \in S : \A b \in S : a <= b

-----------------------------------------------------------------------------
Init ==
  /\ lines \in Sources
  /\ store = [a \in Addresses |-> None]
  /\ address = [n \in DOMAIN lines |-> Nowhere]
  /\ pass = "absolutes"
  /\ at = Len(lines)
  /\ first = 0
  /\ warnings = {}

\* One pass goes through the lines from the last one, the others from the first.
Step == at' = (IF pass = "absolutes" THEN at - 1 ELSE at + 1) /\ pass' = pass

Place(line, a) ==
  /\ store' = [store EXCEPT ![a] = line]
  /\ address' = [address EXCEPT ![line] = a]
PlaceNothing == UNCHANGED <<store, address>>

Warn(kinds) == warnings' = warnings \union kinds

\* Outside the store only the map of the lines tells where a line is.
PlaceOutside(line, a) == store' = store /\ address' = [address EXCEPT ![line] = a]

\* masm_layout_absolutes.  The warning of a clash names the label of the line
\* that has the address already, which crashes when that line has none of its
\* own; so does a label with no line after it.
AtLabel(n) == pass = "absolutes" /\ at = n /\ n > 0

\* Faulty: a clash goes unnoticed.
NeverClashes(n) == FALSE

Clashes(n) == store[LabelAddress(n)] # None
Crashes(n) ==
  \/ LabelAddress(n) \in Addresses /\ Clashes(n)
       /\ lines[store[LabelAddress(n)]].label = NoLabel
  \/ LineOf(n) = None

NotAbsolute ==
  /\ AtLabel(at) /\ ~IsAbsolute(at)
  /\ PlaceNothing /\ Warn({})
  /\ Step /\ UNCHANGED <<lines, first>>

AbsoluteOutOfRange ==
  /\ AtLabel(at) /\ IsAbsolute(at)
  /\ LabelAddress(at) >= 2 * Half
  /\ PlaceNothing /\ Warn({"range"})
  /\ Step /\ UNCHANGED <<lines, first>>

Absolute ==
  /\ AtLabel(at) /\ IsAbsolute(at)
  /\ LabelAddress(at) \in Addresses
  /\ ~Crashes(at)
  /\ IF LaidOut(LineOf(at)) THEN PlaceNothing ELSE Place(LineOf(at), LabelAddress(at))
  /\ Warn(IF Clashes(at) THEN {"clash"} ELSE {})
  /\ Step /\ UNCHANGED <<lines, first>>

\* A negative address is less than 512 as well: the line goes in front of the
\* store, unseen when the word there happens to be NULL.
AbsoluteOutside ==
  /\ AtLabel(at) /\ IsAbsolute(at)
  /\ LabelAddress(at) < 0
  /\ LineOf(at) # None
  /\ IF LaidOut(LineOf(at)) THEN PlaceNothing ELSE PlaceOutside(LineOf(at), LabelAddress(at))
  /\ \E taken \in MayBeTaken(LabelAddress(at)) : Warn(IF taken THEN {"clash"} ELSE {})
  /\ Step /\ UNCHANGED <<lines, first>>

\* Far in front of the store there is no memory, and close to it there are data
\* that the assembler does not get along without; both are a crash here.
AbsoluteCrashes ==
  /\ AtLabel(at) /\ IsAbsolute(at)
  /\ LabelAddress(at) < 2 * Half
  /\ LabelAddress(at) < 0 \/ Crashes(at)
  /\ pass' = "crashed"
  /\ UNCHANGED <<lines, store, address, at, first, warnings>>

\* masm_layout_jumps: target1 is the target of the true branch.
AtIf == pass = "jumps" /\ at <= Len(lines) /\ lines[at].label1 # NoLabel

\* Faulty: one label of the `if' is looked up twice.
FalseTarget == Lookup(lines[at].label2)

Target1 == Lookup(lines[at].label1)
Target2 == Lookup(lines[at].label2)
Targets == Target1 # None /\ Target2 # None

NoIf ==
  /\ pass = "jumps" /\ at <= Len(lines) /\ lines[at].label1 = NoLabel
  /\ PlaceNothing /\ Warn({})
  /\ Step /\ UNCHANGED <<lines, first>>

UndefinedTarget ==
  /\ AtIf /\ ~Targets
  /\ PlaceNothing /\ Warn({"undefined"})
  /\ Step /\ UNCHANGED <<lines, first>>

\* Faulty: the targets are expected the other way round.
BothLaidOutReversed ==
  /\ AtIf /\ Targets
  /\ LaidOut(Target1) /\ LaidOut(Target2)
  /\ Warn(IF address[Target2] = address[Target1] + Half THEN {} ELSE {"targets"})
  /\ PlaceNothing
  /\ Step /\ UNCHANGED <<lines, first>>

BothLaidOut ==
  /\ AtIf /\ Targets
  /\ LaidOut(Target1) /\ LaidOut(Target2)
  /\ Warn(IF address[Target1] = address[Target2] + Half THEN {} ELSE {"targets"})
  /\ PlaceNothing
  /\ Step /\ UNCHANGED <<lines, first>>

\* Faulty: the other address is not looked at before it is used.
TrueLaidOutUnchecked ==
  /\ AtIf /\ Targets
  /\ LaidOut(Target1) /\ ~LaidOut(Target2)
  /\ LET a == address[Target1] - Half
     IN  IF a < 0 THEN PlaceNothing /\ Warn({"low"}) ELSE Place(Target2, a) /\ Warn({})
  /\ Step /\ UNCHANGED <<lines, first>>

\* Faulty: the lower half of the store is not told from the upper one.
TrueLaidOutBelow ==
  /\ AtIf /\ Targets
  /\ LaidOut(Target1) /\ ~LaidOut(Target2)
  /\ LET a == address[Target1] - Half
     IN  IF a < 0 THEN PlaceOutside(Target2, a) /\ Warn({})
         ELSE IF store[a] # None THEN PlaceNothing /\ Warn({"occupied"})
         ELSE Place(Target2, a) /\ Warn({})
  /\ Step /\ UNCHANGED <<lines, first>>

TrueLaidOut ==
  /\ AtIf /\ Targets
  /\ LaidOut(Target1) /\ ~LaidOut(Target2)
  /\ LET a == address[Target1] - Half
     IN  IF a < 0 THEN PlaceNothing /\ Warn({"low"})
         ELSE IF store[a] # None THEN PlaceNothing /\ Warn({"occupied"})
         ELSE Place(Target2, a) /\ Warn({})
  /\ Step /\ UNCHANGED <<lines, first>>

\* Faulty: the other address is not looked at before it is used.
FalseLaidOutUnchecked ==
  /\ AtIf /\ Targets
  /\ ~LaidOut(Target1) /\ LaidOut(Target2)
  /\ LET a == address[Target2] + Half
     IN  IF a >= 2 * Half THEN PlaceNothing /\ Warn({"high"})
         ELSE Place(Target1, a) /\ Warn({})
  /\ Step /\ UNCHANGED <<lines, first>>

FalseLaidOut ==
  /\ AtIf /\ Targets
  /\ ~LaidOut(Target1) /\ LaidOut(Target2)
  /\ address[Target2] + Half >= 0
  /\ LET a == address[Target2] + Half
     IN  IF a >= 2 * Half THEN PlaceNothing /\ Warn({"high"})
         ELSE IF store[a] # None THEN PlaceNothing /\ Warn({"occupied"})
         ELSE Place(Target1, a) /\ Warn({})
  /\ Step /\ UNCHANGED <<lines, first>>

\* The target of the false branch can be in front of the store, and then the word
\* for the other one can be too.
OtherOutside ==
  /\ AtIf /\ Targets
  /\ ~LaidOut(Target1) /\ LaidOut(Target2)
  /\ address[Target2] + Half < 0

FalseLaidOutOutside ==
  /\ OtherOutside
  /\ LET a == address[Target2] + Half
     IN  \E taken \in MayBeTaken(a) :
           IF taken THEN PlaceNothing /\ Warn({"occupied"})
           ELSE PlaceOutside(Target1, a) /\ Warn({})
  /\ Step /\ UNCHANGED <<lines, first>>

JumpCrashes ==
  /\ OtherOutside
  /\ pass' = "crashed"
  /\ UNCHANGED <<lines, store, address, at, first, warnings>>

\* Faulty: the loop's last address is used when there is no pair.
PairOrHalf == IF FreePairs(first) = {} THEN Half ELSE Least(FreePairs(first))

\* masm_find_address_pair returns 0, after a warning, when there is no pair.
Pair == IF FreePairs(first) = {} THEN 0 ELSE Least(FreePairs(first))

NoneLaidOut ==
  /\ AtIf /\ Targets
  /\ ~LaidOut(Target1) /\ ~LaidOut(Target2)
  /\ store' = [store EXCEPT ![Pair + Half] = Target1, ![Pair] = Target2]
  /\ address' = [address EXCEPT ![Target1] = Pair + Half, ![Target2] = Pair]
  /\ first' = Pair + 1
  /\ Warn(IF FreePairs(first) = {} THEN {"exhausted"} ELSE {})
  /\ Step /\ UNCHANGED lines

\* Faulty: the next address is used without a look at the store.
NextHole == IF first >= 2 * Half THEN 0 ELSE first

\* masm_layout_rest, and masm_find_address.
Hole == LET free == Free(first, 2 * Half - 1)
        IN  IF free = {} THEN 0 ELSE Least(free)
AtRest == pass = "rest" /\ at <= Len(lines)

Rest ==
  /\ AtRest /\ lines[at].insns /\ ~LaidOut(at)
  /\ Place(at, Hole)
  /\ first' = Hole + 1
  /\ Warn(IF Free(first, 2 * Half - 1) = {} THEN {"exhausted"} ELSE {})
  /\ Step /\ UNCHANGED lines

NothingLeft ==
  /\ AtRest /\ (lines[at].insns => LaidOut(at))
  /\ PlaceNothing /\ Warn({})
  /\ Step /\ UNCHANGED <<lines, first>>

\* masm_layout_line: one pass after the other.
NextPass ==
  /\ \/ pass = "absolutes" /\ at = 0 /\ pass' = "jumps"
     \/ pass = "jumps" /\ at = Len(lines) + 1 /\ pass' = "rest"
     \/ pass = "rest" /\ at = Len(lines) + 1 /\ pass' = "done"
  /\ at' = 1
  /\ first' = 0
  /\ UNCHANGED <<lines, store, address, warnings>>

Finished == pass \in {"done", "crashed"} /\ UNCHANGED vars

Next ==
  \/ NotAbsolute \/ AbsoluteOutOfRange \/ Absolute \/ AbsoluteOutside \/ AbsoluteCrashes
  \/ NoIf \/ UndefinedTarget \/ BothLaidOut \/ TrueLaidOut \/ FalseLaidOut
  \/ FalseLaidOutOutside \/ JumpCrashes \/ NoneLaidOut
  \/ Rest \/ NothingLeft
  \/ NextPass \/ Finished

Spec == Init /\ [][Next]_vars
-----------------------------------------------------------------------------
(* What the three passes promise together. *)

Kinds == {"range", "clash", "undefined", "targets", "low", "high", "occupied",
          "exhausted"}

TypeOK ==
  /\ lines \in Seq(Lines)
  /\ store \in [Addresses -> DOMAIN lines \union {None}]
  /\ address \in [DOMAIN lines -> Addresses \union Outside \union {Nowhere}]
  /\ pass \in {"absolutes", "jumps", "rest", "done", "crashed"}
  /\ at \in (IF pass = "absolutes" THEN 0 .. Len(lines) ELSE 1 .. Len(lines) + 1)
  /\ first \in 0 .. 2 * Half
  /\ warnings \subseteq Kinds

Emittable == pass = "done" /\ warnings = {}

\* The microprograms of which the following is promised: no absolute label is
\* negative when it has become an int.
InStore == \A n \in DOMAIN lines : IsAbsolute(n) => LabelAddress(n) >= 0
Clean == Emittable /\ InStore

\* A line is put outside the store only when there is a label with a negative
\* address: no other label, target of an `if' or search for a free word, of
\* the exhausted store too, leads out of the store.
LeavesOnlyByLabels ==
  (\E line \in DOMAIN lines : LaidOut(line) /\ address[line] \notin Addresses)
    => \E n \in DOMAIN lines : IsAbsolute(n) /\ LabelAddress(n) < 0

\* In a store that is emitted every line with instructions is in the word at
\* its address, whatever was placed after it, for a goto or a fall-through.
EveryLinePlaced ==
  Clean => \A n \in DOMAIN lines :
             lines[n].insns => LaidOut(n) /\ store[address[n]] = n

\* In a store that is emitted the two targets of every `if' are Half apart, the
\* false one below, where the hardware looks for them: also when they were
\* placed for another `if', or behind absolute labels.
BranchesPaired ==
  Clean => \A n \in DOMAIN lines :
             lines[n].label1 # NoLabel =>
               LET line1 == Lookup(lines[n].label1)
                   line2 == Lookup(lines[n].label2)
               IN  /\ line2 # None /\ LaidOut(line2)
                   /\ address[line2] < Half
                   /\ store[address[line2]] = line2
                   /\ store[address[line2] + Half] = line1

\* In a store that is emitted the line behind an absolute label is at the
\* address asked for, when no other absolute label stands for that line.
Alone(n) == \A m \in DOMAIN lines \ {n} : IsAbsolute(m) => LineOf(m) # LineOf(n)
AbsolutesHonoured ==
  Clean => \A n \in DOMAIN lines :
             IsAbsolute(n) /\ Alone(n) => store[LabelAddress(n)] = LineOf(n)

\* The greedy passes give up only on microprograms that no layout satisfies:
\* the order in which targets are placed never costs a layout.  (Not promised
\* for two absolute labels of one line, nor for an `if' whose targets are one.)
Layout(f) ==
  /\ \A n, m \in DOMAIN f : n # m => f[n] # f[m]
  /\ \A n \in DOMAIN lines :
       IsAbsolute(n) => LabelAddress(n) \in Addresses /\ f[LineOf(n)] = LabelAddress(n)
  /\ \A n \in DOMAIN lines :
       lines[n].label1 # NoLabel =>
         f[Lookup(lines[n].label1)] = f[Lookup(lines[n].label2)] + Half

FailsOnlyWithoutLayout ==
  /\ pass = "done"
  /\ warnings # {}
  /\ warnings \intersect {"undefined", "range"} = {}
  /\ \A n \in DOMAIN lines :
       /\ IsAbsolute(n) => Alone(n)
       /\ lines[n].label1 # NoLabel =>
            Lookup(lines[n].label1) # Lookup(lines[n].label2)
  => ~\E f \in [{n \in DOMAIN lines : lines[n].insns} -> Addresses] : Layout(f)

\* A word of the store that has a line keeps it, but for two kinds of steps, and
\* each gives its warning: an absolute label takes the word of another one in
\* the first pass, and when the store is exhausted a later pass takes a word at
\* its beginning.
NothingOverwritten ==
  [][\A a \in Addresses :
       store[a] # None /\ store'[a] # store[a]
         => (IF pass = "absolutes" THEN "clash" ELSE "exhausted") \in warnings']_vars

\* "The microcode following this is guaranteed to be placed at address 0x2A,
\* provided it does not collide with other absolute labels." (test/ijvm.mal)
AbsolutesGuaranteed ==
  Clean => \A n \in DOMAIN lines :
             IsAbsolute(n) => store[LabelAddress(n)] = LineOf(n)
=============================================================================
