--------------------------- MODULE MasmLayoutProofs ---------------------------
(***************************************************************************)
(* The layout keeps its promises for every microprogram and every size of  *)
(* the control store.                                                      *)
(***************************************************************************)
EXTENDS MasmLayout, FiniteSetTheorems, TLAPS

-----------------------------------------------------------------------------
(* The inductive invariant. *)

\* Without negative labels every line goes into the store.
NothingOutside ==
  InStore => \A line \in DOMAIN lines : LaidOut(line) => address[line] \in Addresses

TypeInv == TypeOK /\ lines \in Sources /\ NothingOutside

\* As long as there was no warning, a laid out line is at its address and an
\* address in use belongs to a line that is laid out.
Consistent ==
  warnings = {} /\ InStore =>
    /\ \A n \in DOMAIN lines : LaidOut(n) => store[address[n]] = n
    /\ \A a \in Addresses : store[a] # None => LaidOut(store[a])

\* The first pass lays out no line but for an absolute label it has passed.
OnlyAbsolutes ==
  warnings = {} /\ InStore /\ pass = "absolutes" =>
    \A line \in DOMAIN lines :
      LaidOut(line) => \E n \in DOMAIN lines :
                         n > at /\ IsAbsolute(n) /\ LineOf(n) = line

\* What each pass has done for the lines it has passed.
AbsolutesDone ==
  warnings = {} /\ InStore /\ pass # "crashed" =>
    \A n \in DOMAIN lines :
      IsAbsolute(n) /\ Alone(n) /\ (pass = "absolutes" => n > at)
        => /\ LabelAddress(n) \in Addresses
           /\ LineOf(n) # None
           /\ store[LabelAddress(n)] = LineOf(n)

Paired(n) ==
  LET line1 == Lookup(lines[n].label1)
      line2 == Lookup(lines[n].label2)
  IN  /\ line1 # None
      /\ line2 # None /\ LaidOut(line2)
      /\ address[line2] < Half
      /\ store[address[line2]] = line2
      /\ store[address[line2] + Half] = line1

PairsDone ==
  warnings = {} /\ InStore /\ pass \in {"jumps", "rest", "done"} =>
    \A n \in DOMAIN lines :
      lines[n].label1 # NoLabel /\ (pass = "jumps" => n < at) => Paired(n)

RestDone ==
  warnings = {} /\ InStore /\ pass \in {"rest", "done"} =>
    \A n \in DOMAIN lines :
      lines[n].insns /\ (pass = "rest" => n < at) => LaidOut(n)

LayoutInv ==
  /\ TypeInv
  /\ Consistent
  /\ OnlyAbsolutes
  /\ AbsolutesDone
  /\ PairsDone
  /\ RestDone

-----------------------------------------------------------------------------
(* Least elements, and the operators that choose them. *)

\* A set of natural numbers that is not empty has a least one.
LEMMA LeastExists ==
  ASSUME NEW S \in SUBSET Nat, S # {}
  PROVE  \E x \in S : \A y \in S : x <= y
<1> DEFINE R == {ss \in Nat \X Nat : ss[1] < ss[2]}
<1>1. IsWellFoundedOn(R, Nat)
  BY NatLessThanWellFounded DEF OpToRel
<1> HIDE DEF R
<1>2. PICK x \in S : \A y \in S : ~(<<y, x>> \in R)
  BY <1>1, WFMin, Zenon
<1>3. \A y \in S : ~(y < x)
  BY <1>2 DEF R
<1> QED  BY <1>3

\* Least returns it.
LEMMA LeastIsLeast ==
  ASSUME NEW S \in SUBSET Nat, S # {}
  PROVE  Least(S) \in S
BY LeastExists DEF Least

\* And a bounded one has a greatest.
LEMMA GreatestExists ==
  ASSUME NEW N \in Nat, NEW S \in SUBSET (1 .. N), S # {}
  PROVE  \E x \in S : \A y \in S : y <= x
<1> DEFINE T == {k \in Nat : N - k \in S}
<1>1. T \in SUBSET Nat /\ T # {}
  <2>1. PICK y \in S : TRUE  OBVIOUS
  <2>2. N - y \in Nat /\ N - (N - y) = y  BY <2>1
  <2> QED  BY <2>1, <2>2
<1>2. PICK k \in T : \A j \in T : k <= j
  BY <1>1, LeastExists
<1>3. \A y \in S : N - y \in T
  OBVIOUS
<1>4. ASSUME NEW y \in S PROVE y <= N - k
  <2>1. y \in 1 .. N /\ k \in Nat /\ N - y \in T  BY <1>3
  <2>2. k <= N - y  BY <1>2, <2>1
  <2> HIDE DEF T
  <2> QED  BY <2>1, <2>2
<1> QED  BY <1>2, <1>4

\* A label stands for a line with instructions, or for none.
LEMMA LineOfType ==
  ASSUME lines \in Seq(Lines), NEW n \in DOMAIN lines
  PROVE  LineOf(n) = None \/ (LineOf(n) \in DOMAIN lines /\ lines[LineOf(n)].insns)
<1> DEFINE S == {m \in n .. Len(lines) : lines[m].insns}
<1>1. CASE S = {}
  BY <1>1 DEF LineOf
<1>2. CASE S # {}
  <2>1. S \in SUBSET Nat  OBVIOUS
  <2>2. PICK m \in S : \A k \in S : m <= k
    BY <1>2, <2>1, LeastExists
  <2>3. m \in n .. Len(lines) /\ lines[m].insns /\ \A k \in n .. m - 1 : ~lines[k].insns
    BY <2>2
  <2>4. LineOf(n) \in n .. Len(lines) /\ lines[LineOf(n)].insns
    BY <2>3 DEF LineOf
  <2> QED  BY <2>4
<1> QED  BY <1>1, <1>2

LEMMA LookupType ==
  ASSUME lines \in Seq(Lines), NEW name
  PROVE  Lookup(name) = None
           \/ (Lookup(name) \in DOMAIN lines /\ lines[Lookup(name)].insns)
<1> DEFINE S == {m \in DOMAIN lines : lines[m].label = name}
<1>1. CASE S = {}
  BY <1>1 DEF Lookup, Defines
<1>2. CASE S # {}
  <2>1. S \in SUBSET (1 .. Len(lines)) /\ Len(lines) \in Nat  OBVIOUS
  <2>2. PICK m \in S : \A k \in S : k <= m
    BY <1>2, <2>1, GreatestExists
  <2> DEFINE d == CHOOSE n \in DOMAIN lines :
                    Defines(n, name) /\ \A k \in n + 1 .. Len(lines) : ~Defines(k, name)
  <2>3. m \in DOMAIN lines /\ Defines(m, name)
          /\ \A k \in m + 1 .. Len(lines) : ~Defines(k, name)
    BY <2>2 DEF Defines
  <2>4. d \in DOMAIN lines
    BY <2>3
  <2>5. Lookup(name) = LineOf(d)
    BY <2>3 DEF Lookup
  <2> QED  BY <2>4, <2>5, LineOfType
<1> QED  BY <1>1, <1>2

\* The address found for a pair is in the lower half of the store; it and its
\* partner are free when there was a free pair.
LEMMA PairFound ==
  ASSUME TypeOK
  PROVE  /\ Pair \in 0 .. Half - 1
         /\ FreePairs(first) # {} => store[Pair] = None /\ store[Pair + Half] = None
<1>1. CASE FreePairs(first) = {}
  BY <1>1, HalfAssumption DEF Pair
<1>2. CASE FreePairs(first) # {}
  <2>1. FreePairs(first) \in SUBSET Nat
    BY HalfAssumption DEF FreePairs, TypeOK
  <2>2. Pair \in FreePairs(first)
    BY <1>2, <2>1, LeastIsLeast DEF Pair
  <2> QED  BY <2>2, HalfAssumption DEF FreePairs, TypeOK
<1> QED  BY <1>1, <1>2

LEMMA HoleFound ==
  ASSUME TypeOK
  PROVE  /\ Hole \in Addresses
         /\ Free(first, 2 * Half - 1) # {} => store[Hole] = None
<1>1. CASE Free(first, 2 * Half - 1) = {}
  BY <1>1, HalfAssumption DEF Hole, Addresses
<1>2. CASE Free(first, 2 * Half - 1) # {}
  <2>1. Free(first, 2 * Half - 1) \in SUBSET Nat
    BY HalfAssumption DEF Free, TypeOK
  <2>2. Hole \in Free(first, 2 * Half - 1)
    BY <1>2, <2>1, LeastIsLeast DEF Hole
  <2> QED  BY <2>2, HalfAssumption DEF Free, TypeOK, Addresses
<1> QED  BY <1>1, <1>2
-----------------------------------------------------------------------------
(* Types. *)

\* Nowhere is no address, and no int either.
LEMMA NowhereFacts ==
  /\ Nowhere \in Int /\ Nowhere < 0
  /\ Nowhere \notin Addresses /\ Nowhere \notin Outside
  /\ \A a \in Outside : a \in Int /\ a < 0
BY HalfAssumption, IntAssumption DEF Nowhere, Addresses, Outside

\* The conversions of the lexer give an int.
LEMMA LabelAddressType ==
  ASSUME lines \in Seq(Lines), NEW n \in DOMAIN lines, IsAbsolute(n)
  PROVE  LabelAddress(n) \in Int /\ LabelAddress(n) \in Outside \union Nat
<1>1. lines[n].absolute \in Nat
  <2>1. PICK line \in Lines : line = lines[n]
    OBVIOUS
  <2>2. line.absolute \in Nat \union {Nowhere}
    BY DEF Lines
  <2> QED  BY <2>1, <2>2 DEF IsAbsolute
<1>2. LongMax \in Nat
  <2>1. IntMod \in Nat /\ IntMod \div 2 - 1 \in Nat /\ IntMod - 1 \in Nat
    BY HalfAssumption, IntAssumption
  <2> QED  BY <2>1 DEF LongMax
<1>3. PICK v \in Nat : v = Strtol(lines[n].absolute)
  BY <1>1, <1>2 DEF Strtol
<1>4. v % IntMod \in 0 .. IntMod - 1
  BY <1>3, HalfAssumption, IntAssumption
<1>5. LabelAddress(n) = ToInt(v)
  BY <1>3 DEF LabelAddress
<1> QED  BY <1>4, <1>5, HalfAssumption, IntAssumption DEF ToInt, Outside

LEMMA InitType == Init => TypeInv
<1> SUFFICES ASSUME Init PROVE TypeInv  OBVIOUS
<1>1. lines \in Sources /\ lines \in Seq(Lines)
  BY SourcesAssumption DEF Init
<1>2. Len(lines) \in Nat
  BY <1>1
<1> QED  BY <1>1, <1>2, HalfAssumption
         DEF Init, TypeInv, TypeOK, NothingOutside, LaidOut, Addresses

\* Laying out a line at an address keeps the types of the two maps.
LEMMA PlaceType ==
  ASSUME TypeOK, NEW line \in DOMAIN lines, NEW a \in Addresses, Place(line, a),
         lines' = lines
  PROVE  /\ store' \in [Addresses -> DOMAIN lines' \union {None}]
         /\ address' \in [DOMAIN lines' -> Addresses \union Outside \union {Nowhere}]
BY DEF Place, TypeOK

LEMMA PlaceOutsideType ==
  ASSUME TypeOK, NEW line \in DOMAIN lines, NEW a \in Outside, PlaceOutside(line, a),
         lines' = lines
  PROVE  /\ store' \in [Addresses -> DOMAIN lines' \union {None}]
         /\ address' \in [DOMAIN lines' -> Addresses \union Outside \union {Nowhere}]
BY DEF PlaceOutside, TypeOK

\* What the lines are does not change.
LEMMA SameLines ==
  ASSUME lines' = lines
  PROVE  /\ \A n : LineOf(n)' = LineOf(n)
         /\ \A name : Lookup(name)' = Lookup(name)
         /\ \A n : IsAbsolute(n)' = IsAbsolute(n)
         /\ \A n : LabelAddress(n)' = LabelAddress(n)
         /\ \A n : Alone(n)' = Alone(n)
         /\ InStore' = InStore
<1>1. \A n : LineOf(n)' = LineOf(n)
  BY DEF LineOf
<1>2. \A name : Lookup(name)' = Lookup(name)
  BY DEF Lookup, LineOf, Defines
<1>3. \A n : IsAbsolute(n)' = IsAbsolute(n)
  BY DEF IsAbsolute
<1>4. \A n : LabelAddress(n)' = LabelAddress(n)
  BY DEF LabelAddress
<1>5. \A n : Alone(n)' = Alone(n)
  BY DEF Alone, LineOf, IsAbsolute
<1>6. InStore' = InStore
  BY DEF InStore, IsAbsolute, LabelAddress
<1> QED  BY <1>1, <1>2, <1>3, <1>4, <1>5, <1>6

LEMMA InStoreStays ==
  ASSUME [Next]_vars
  PROVE  lines' = lines /\ InStore' = InStore
<1>1. lines' = lines
  BY DEF Next, NotAbsolute, AbsoluteOutOfRange, Absolute, AbsoluteOutside,
     AbsoluteCrashes, NoIf, UndefinedTarget, BothLaidOut, TrueLaidOut, FalseLaidOut,
     FalseLaidOutOutside, JumpCrashes, NoneLaidOut, Rest, NothingLeft, NextPass,
     Finished, vars
<1> QED  BY <1>1, SameLines

LEMMA StepTypes ==
  ASSUME TypeInv, [Next]_vars
  PROVE  TypeOK' /\ lines' \in Sources
<1> USE DEF TypeInv
<1>0. lines \in Seq(Lines) /\ Len(lines) \in Nat /\ DOMAIN lines = 1 .. Len(lines)
  BY DEF TypeOK
<1>1. CASE NotAbsolute
  BY <1>1 DEF TypeOK, Kinds, NotAbsolute, AtLabel, Step, Warn, PlaceNothing
<1>2. CASE AbsoluteOutOfRange
  BY <1>2 DEF TypeOK, Kinds, AbsoluteOutOfRange, AtLabel, Step, Warn, PlaceNothing
<1>3. CASE Absolute
  <2>0. at \in DOMAIN lines
    BY <1>0, <1>3 DEF Absolute, AtLabel, TypeOK
  <2>1. LineOf(at) \in DOMAIN lines
    BY <1>0, <1>3, <2>0, LineOfType DEF Absolute, Crashes
  <2>2. /\ store' \in [Addresses -> DOMAIN lines' \union {None}]
        /\ address' \in [DOMAIN lines' -> Addresses \union Outside \union {Nowhere}]
    BY <1>3, <2>1, PlaceType DEF Absolute, PlaceNothing, TypeOK
  <2> QED  BY <1>3, <2>2 DEF TypeOK, Kinds, Absolute, AtLabel, Step, Warn
<1>4. CASE AbsoluteCrashes
  BY <1>0, <1>4 DEF TypeOK, Kinds, AbsoluteCrashes, AtLabel
<1>5. CASE NoIf
  BY <1>5 DEF TypeOK, Kinds, NoIf, Step, Warn, PlaceNothing
<1>6. CASE UndefinedTarget
  BY <1>6 DEF TypeOK, Kinds, UndefinedTarget, AtIf, Step, Warn, PlaceNothing
<1>7. CASE BothLaidOut
  BY <1>7 DEF TypeOK, Kinds, BothLaidOut, AtIf, Step, Warn, PlaceNothing
<1>8. ASSUME AtIf, Targets
      PROVE  Target1 \in DOMAIN lines /\ Target2 \in DOMAIN lines
  BY <1>0, <1>8, LookupType DEF Targets, Target1, Target2
<1>9. CASE TrueLaidOut
  <2> DEFINE a == address[Target1] - Half
  <2>1. Target1 \in DOMAIN lines /\ Target2 \in DOMAIN lines
    BY <1>8, <1>9 DEF TrueLaidOut
  <2>2. a >= 0 => a \in Addresses
    BY <1>9, <2>1, NowhereFacts, HalfAssumption DEF TrueLaidOut, LaidOut, TypeOK, Addresses
  <2>3. /\ store' \in [Addresses -> DOMAIN lines' \union {None}]
        /\ address' \in [DOMAIN lines' -> Addresses \union Outside \union {Nowhere}]
    <3>1. CASE PlaceNothing
      BY <1>9, <3>1 DEF TrueLaidOut, PlaceNothing, TypeOK
    <3>2. CASE a >= 0 /\ Place(Target2, a)
      BY <1>9, <2>1, <2>2, <3>2, PlaceType DEF TrueLaidOut
    <3>3. address[Target1] \in Int
      BY NowhereFacts, <2>1, HalfAssumption DEF TypeOK, Kinds, Addresses
    <3> QED  BY <1>9, <3>1, <3>2, <3>3, HalfAssumption DEF TrueLaidOut
  <2>4. warnings' \subseteq Kinds
    BY <1>9 DEF TypeOK, Kinds, TrueLaidOut, Warn
  <2>5. at' = at + 1 /\ pass' = pass /\ at \in 1 .. Len(lines) /\ lines' = lines
        /\ first' = first
    BY <1>0, <1>9 DEF TypeOK, TrueLaidOut, AtIf, Step
  <2> QED
    BY <2>3, <2>4, <2>5, <1>9 DEF TypeOK, TrueLaidOut, AtIf
<1>10. CASE FalseLaidOut
  <2> DEFINE a == address[Target2] + Half
  <2>1. Target1 \in DOMAIN lines /\ Target2 \in DOMAIN lines
    BY <1>8, <1>10 DEF FalseLaidOut
  <2>2. ~(a >= 2 * Half) => a \in Addresses
    BY <1>10, <2>1, NowhereFacts, HalfAssumption DEF FalseLaidOut, LaidOut, TypeOK, Addresses
  <2>3. /\ store' \in [Addresses -> DOMAIN lines' \union {None}]
        /\ address' \in [DOMAIN lines' -> Addresses \union Outside \union {Nowhere}]
    <3>1. CASE PlaceNothing
      BY <1>10, <3>1 DEF FalseLaidOut, PlaceNothing, TypeOK
    <3>2. CASE ~(a >= 2 * Half) /\ Place(Target1, a)
      BY <1>10, <2>1, <2>2, <3>2, PlaceType DEF FalseLaidOut
    <3> QED  BY <1>10, <3>1, <3>2 DEF FalseLaidOut
  <2>4. warnings' \subseteq Kinds
    BY <1>10 DEF TypeOK, Kinds, FalseLaidOut, Warn
  <2>5. at' = at + 1 /\ pass' = pass /\ at \in 1 .. Len(lines) /\ lines' = lines
        /\ first' = first
    BY <1>0, <1>10 DEF TypeOK, FalseLaidOut, AtIf, Step
  <2> QED
    BY <2>3, <2>4, <2>5, <1>10 DEF TypeOK, FalseLaidOut, AtIf
<1>11. CASE NoneLaidOut
  <2>1. Target1 \in DOMAIN lines /\ Target2 \in DOMAIN lines
    BY <1>8, <1>11 DEF NoneLaidOut
  <2>2. Pair \in 0 .. Half - 1 /\ Pair \in Addresses /\ Pair + Half \in Addresses
    BY PairFound, HalfAssumption DEF Addresses
  <2>3. /\ store' \in [Addresses -> DOMAIN lines' \union {None}]
        /\ address' \in [DOMAIN lines' -> Addresses \union Outside \union {Nowhere}]
    BY <1>11, <2>1, <2>2 DEF NoneLaidOut, TypeOK
  <2>4. first' \in 0 .. 2 * Half
    BY <1>11, <2>2, HalfAssumption DEF NoneLaidOut
  <2> QED
    BY <1>11, <2>3, <2>4 DEF TypeOK, Kinds, NoneLaidOut, AtIf, Step, Warn
<1>12. CASE Rest
  <2>1. at \in DOMAIN lines
    BY <1>0, <1>12 DEF Rest, AtRest, LaidOut, TypeOK
  <2>2. Hole \in Addresses /\ Hole + 1 \in 0 .. 2 * Half
    BY HoleFound, HalfAssumption DEF Addresses
  <2>3. /\ store' \in [Addresses -> DOMAIN lines' \union {None}]
        /\ address' \in [DOMAIN lines' -> Addresses \union Outside \union {Nowhere}]
    BY <1>12, <2>1, <2>2, PlaceType DEF Rest
  <2> QED
    BY <1>12, <2>2, <2>3 DEF TypeOK, Kinds, Rest, AtRest, Step, Warn
<1>13. CASE NothingLeft
  BY <1>13 DEF TypeOK, Kinds, NothingLeft, AtRest, Step, Warn, PlaceNothing
<1>14. CASE NextPass
  BY <1>0, <1>14, HalfAssumption DEF TypeOK, Kinds, NextPass
<1>15. CASE UNCHANGED vars
  BY <1>15 DEF TypeOK, Kinds, vars
<1>16. CASE AbsoluteOutside
  <2>1. at \in DOMAIN lines
    BY <1>0, <1>16 DEF AbsoluteOutside, AtLabel, TypeOK
  <2>2. LineOf(at) \in DOMAIN lines
    BY <1>0, <1>16, <2>1, LineOfType DEF AbsoluteOutside
  <2>3. LabelAddress(at) \in Outside
    BY <1>0, <1>16, <2>1, LabelAddressType DEF AbsoluteOutside
  <2>4. /\ store' \in [Addresses -> DOMAIN lines' \union {None}]
        /\ address' \in [DOMAIN lines' -> Addresses \union Outside \union {Nowhere}]
    BY <1>16, <2>2, <2>3, PlaceOutsideType DEF AbsoluteOutside, PlaceNothing, TypeOK
  <2> QED  BY <1>16, <2>4 DEF TypeOK, Kinds, AbsoluteOutside, AtLabel, Step, Warn
<1>17. CASE FalseLaidOutOutside
  <2> DEFINE a == address[Target2] + Half
  <2>1. Target1 \in DOMAIN lines /\ Target2 \in DOMAIN lines
    BY <1>8, <1>17 DEF FalseLaidOutOutside, OtherOutside
  <2>2. a \in Outside
    BY <1>17, <2>1, HalfAssumption, IntAssumption
    DEF FalseLaidOutOutside, OtherOutside, LaidOut, TypeOK, Addresses, Outside
  <2>3. /\ store' \in [Addresses -> DOMAIN lines' \union {None}]
        /\ address' \in [DOMAIN lines' -> Addresses \union Outside \union {Nowhere}]
    BY <1>17, <2>1, <2>2, PlaceOutsideType DEF FalseLaidOutOutside, PlaceNothing, TypeOK
  <2>4. warnings' \subseteq Kinds
    BY <1>17 DEF TypeOK, Kinds, FalseLaidOutOutside, Warn
  <2>5. at' = at + 1 /\ pass' = pass /\ at \in 1 .. Len(lines) /\ lines' = lines
        /\ first' = first
    BY <1>0, <1>17 DEF TypeOK, FalseLaidOutOutside, OtherOutside, AtIf, Step
  <2> QED
    BY <2>3, <2>4, <2>5, <1>17 DEF TypeOK, FalseLaidOutOutside, OtherOutside, AtIf
<1>18. CASE JumpCrashes
  BY <1>0, <1>18 DEF TypeOK, Kinds, JumpCrashes, OtherOutside, AtIf
<1> QED
  BY <1>1, <1>2, <1>3, <1>4, <1>5, <1>6, <1>7, <1>9, <1>10, <1>11, <1>12, <1>13,
     <1>14, <1>15, <1>16, <1>17, <1>18 DEF Next, Finished

\* Without a negative label the steps outside the store are impossible.
LEMMA StaysInside ==
  ASSUME TypeInv, InStore
  PROVE  ~AbsoluteOutside /\ ~OtherOutside
<1>0. /\ TypeOK /\ lines \in Seq(Lines) /\ Len(lines) \in Nat
      /\ DOMAIN lines = 1 .. Len(lines)
  BY DEF TypeInv, TypeOK
<1>1. ~AbsoluteOutside
  <2> SUFFICES ASSUME AbsoluteOutside PROVE FALSE  OBVIOUS
  <2>1. at \in DOMAIN lines /\ IsAbsolute(at) /\ LabelAddress(at) < 0
    BY <1>0 DEF AbsoluteOutside, AtLabel, TypeOK
  <2> QED  BY <1>0, <2>1, LabelAddressType DEF InStore
<1>2. ~OtherOutside
  <2> SUFFICES ASSUME OtherOutside PROVE FALSE  OBVIOUS
  <2>1. Target2 \in DOMAIN lines
    BY <1>0, LookupType DEF OtherOutside, Targets, Target2
  <2>2. address[Target2] \in Addresses
    BY <2>1 DEF OtherOutside, TypeInv, NothingOutside
  <2> QED  BY <2>2, HalfAssumption DEF OtherOutside, Addresses
<1> QED  BY <1>1, <1>2

LEMMA PlaceInside ==
  ASSUME TypeInv, InStore, NEW line \in DOMAIN lines, NEW a \in Addresses, Place(line, a),
         lines' = lines
  PROVE  NothingOutside'
BY DEF Place, TypeInv, TypeOK, NothingOutside, LaidOut

LEMMA StepNothingOutside ==
  ASSUME TypeInv, [Next]_vars
  PROVE  NothingOutside'
<1> SUFFICES ASSUME InStore PROVE NothingOutside'
  BY InStoreStays DEF NothingOutside
<1>0. /\ TypeOK /\ lines \in Seq(Lines) /\ Len(lines) \in Nat
      /\ DOMAIN lines = 1 .. Len(lines) /\ lines' = lines
  <2>1. TypeOK /\ lines \in Seq(Lines)
    BY DEF TypeInv, TypeOK
  <2>2. Len(lines) \in Nat /\ DOMAIN lines = 1 .. Len(lines)
    BY <2>1
  <2>3. lines' = lines
    BY InStoreStays
  <2> QED  BY <2>1, <2>2, <2>3
<1>1. CASE address' = address
  BY <1>0, <1>1 DEF TypeInv, NothingOutside, LaidOut
<1>a. ASSUME AtIf, Targets
      PROVE  Target1 \in DOMAIN lines /\ Target2 \in DOMAIN lines
  BY <1>0, <1>a, LookupType DEF Targets, Target1, Target2
<1>2. CASE Absolute
  <2>1. at \in DOMAIN lines
    BY <1>0, <1>2 DEF Absolute, AtLabel, TypeOK
  <2>2. LineOf(at) \in DOMAIN lines
    BY <1>0, <1>2, <2>1, LineOfType DEF Absolute, Crashes
  <2> QED  BY <1>0, <1>1, <1>2, <2>2, PlaceInside DEF Absolute, PlaceNothing
<1>3. CASE TrueLaidOut
  <2> DEFINE a == address[Target1] - Half
  <2>1. Target1 \in DOMAIN lines /\ Target2 \in DOMAIN lines
    BY <1>a, <1>3 DEF TrueLaidOut
  <2>2. ~(a < 0) => a \in Addresses
    BY <1>3, <2>1, HalfAssumption DEF TrueLaidOut, TypeInv, NothingOutside, Addresses
  <2> QED  BY <1>0, <1>1, <1>3, <2>1, <2>2, PlaceInside DEF TrueLaidOut, PlaceNothing
<1>4. CASE FalseLaidOut
  <2> DEFINE a == address[Target2] + Half
  <2>1. Target1 \in DOMAIN lines /\ Target2 \in DOMAIN lines
    BY <1>a, <1>4 DEF FalseLaidOut
  <2>2. ~(a >= 2 * Half) => a \in Addresses
    BY <1>4, <2>1, HalfAssumption DEF FalseLaidOut, TypeInv, NothingOutside, Addresses
  <2> QED  BY <1>0, <1>1, <1>4, <2>1, <2>2, PlaceInside DEF FalseLaidOut, PlaceNothing
<1>5. CASE NoneLaidOut
  <2>1. Target1 \in DOMAIN lines /\ Target2 \in DOMAIN lines
    BY <1>a, <1>5 DEF NoneLaidOut
  <2>2. Pair \in Addresses /\ Pair + Half \in Addresses
    BY <1>0, PairFound, HalfAssumption DEF Addresses
  <2> QED
    BY <1>0, <1>5, <2>1, <2>2 DEF NoneLaidOut, TypeInv, TypeOK, NothingOutside, LaidOut
<1>6. CASE Rest
  <2>1. at \in DOMAIN lines /\ Hole \in Addresses
    BY <1>0, <1>6, HoleFound DEF Rest, AtRest, TypeOK
  <2> QED  BY <1>0, <1>6, <2>1, PlaceInside DEF Rest
<1>7. CASE AbsoluteOutside \/ FalseLaidOutOutside
  BY <1>7, StaysInside DEF FalseLaidOutOutside
<1> QED
  BY <1>1, <1>2, <1>3, <1>4, <1>5, <1>6, <1>7 DEF Next, NotAbsolute, AbsoluteOutOfRange,
     AbsoluteCrashes, NoIf, UndefinedTarget, BothLaidOut, JumpCrashes, NothingLeft,
     NextPass, Finished, PlaceNothing, vars

LEMMA StepType ==
  ASSUME TypeInv, [Next]_vars
  PROVE  TypeInv'
BY StepTypes, StepNothingOutside DEF TypeInv
-----------------------------------------------------------------------------
(* A step that gives no warning keeps what is placed. *)

Keeps ==
  /\ lines' = lines
  /\ warnings = {}
  /\ \A a \in Addresses : store[a] # None => store'[a] = store[a]
  /\ \A n \in DOMAIN lines : LaidOut(n) => address'[n] = address[n]

\* And a new line is at its address, if anything is new.
Adds(line, a) ==
  /\ line \in DOMAIN lines /\ ~LaidOut(line)
  /\ a \in Addresses /\ store[a] = None
  /\ Place(line, a)

AddsPair(line1, line2, a) ==
  /\ line1 \in DOMAIN lines /\ ~LaidOut(line1)
  /\ line2 \in DOMAIN lines /\ ~LaidOut(line2)
  /\ a \in 0 .. Half - 1 /\ store[a] = None /\ store[a + Half] = None
  /\ store' = [store EXCEPT ![a + Half] = line1, ![a] = line2]
  /\ address' = [address EXCEPT ![line1] = a + Half, ![line2] = a]

LEMMA AddsKeeps ==
  ASSUME TypeOK, lines' = lines, warnings = {}, NEW line, NEW a, Adds(line, a)
  PROVE  Keeps
BY DEF Adds, Place, Keeps, TypeOK, LaidOut

LEMMA AddsPairKeeps ==
  ASSUME TypeOK, lines' = lines, warnings = {}, NEW line1, NEW line2, NEW a,
         AddsPair(line1, line2, a)
  PROVE  Keeps
<1>1. a \in Addresses /\ a + Half \in Addresses
  BY HalfAssumption DEF AddsPair, Addresses
<1> QED  BY <1>1 DEF AddsPair, Keeps, TypeOK, LaidOut

\* What a step without a warning can do to the two maps.
LEMMA QuietStep ==
  ASSUME TypeInv, [Next]_vars, InStore, warnings' = {}
  PROVE  /\ lines' = lines
         /\ warnings = {}
         /\ \/ PlaceNothing
            \/ pass = "absolutes" /\ pass' = pass /\ at' = at - 1 /\ IsAbsolute(at)
                 /\ Adds(LineOf(at), LabelAddress(at))
            \/ pass = "jumps" /\ pass' = pass /\ \E line, a : Adds(line, a)
            \/ pass = "jumps" /\ pass' = pass
                 /\ \E line1, line2, a : AddsPair(line1, line2, a)
            \/ pass = "rest" /\ pass' = pass /\ \E a : Adds(at, a)
<1> USE DEF TypeInv
<1>0. lines \in Seq(Lines) /\ Len(lines) \in Nat /\ DOMAIN lines = 1 .. Len(lines)
  BY DEF TypeOK
<1>a. ASSUME AtIf, Targets
      PROVE  Target1 \in DOMAIN lines /\ Target2 \in DOMAIN lines
  BY <1>0, <1>a, LookupType DEF Targets, Target1, Target2
<1>1. CASE NotAbsolute
  BY <1>1 DEF NotAbsolute, Warn
<1>2. CASE AbsoluteOutOfRange
  BY <1>2 DEF AbsoluteOutOfRange, Warn
<1>3. CASE Absolute
  <2>1. at \in DOMAIN lines
    BY <1>0, <1>3 DEF Absolute, AtLabel, TypeOK
  <2>2. LineOf(at) \in DOMAIN lines
    BY <1>0, <1>3, <2>1, LineOfType DEF Absolute, Crashes
  <2>3. ~Clashes(at) /\ warnings = {}
    BY <1>3 DEF Absolute, Warn
  <2> QED
    BY <1>3, <2>2, <2>3 DEF Absolute, AtLabel, Step, Adds, Clashes
<1>4. CASE AbsoluteCrashes
  BY <1>4 DEF AbsoluteCrashes, PlaceNothing
<1>5. CASE NoIf
  BY <1>5 DEF NoIf, Warn
<1>6. CASE UndefinedTarget
  BY <1>6 DEF UndefinedTarget, Warn
<1>7. CASE BothLaidOut
  BY <1>7 DEF BothLaidOut, Warn
<1>8. CASE TrueLaidOut
  <2> DEFINE a == address[Target1] - Half
  <2>1. Target1 \in DOMAIN lines /\ Target2 \in DOMAIN lines
    BY <1>a, <1>8 DEF TrueLaidOut
  <2>2. address[Target1] \in Addresses
    BY <1>8, <2>1 DEF TrueLaidOut, NothingOutside
  <2>3. warnings = {} /\ a >= 0 /\ store[a] = None /\ Place(Target2, a)
    BY <1>8, <2>2, HalfAssumption DEF TrueLaidOut, Warn, Addresses
  <2>4. a \in Addresses
    BY <2>2, <2>3, HalfAssumption DEF Addresses
  <2>5. Adds(Target2, a)
    BY <1>8, <2>1, <2>3, <2>4 DEF Adds, TrueLaidOut
  <2> QED  BY <1>8, <2>3, <2>5 DEF TrueLaidOut, AtIf, Step
<1>9. CASE FalseLaidOut
  <2> DEFINE a == address[Target2] + Half
  <2>1. Target1 \in DOMAIN lines /\ Target2 \in DOMAIN lines
    BY <1>a, <1>9 DEF FalseLaidOut
  <2>2. address[Target2] \in Addresses
    BY <1>9, <2>1 DEF FalseLaidOut, NothingOutside
  <2>3. warnings = {} /\ ~(a >= 2 * Half) /\ store[a] = None /\ Place(Target1, a)
    BY <1>9, <2>2, HalfAssumption DEF FalseLaidOut, Warn, Addresses
  <2>4. a \in Addresses
    BY <2>2, <2>3, HalfAssumption DEF Addresses
  <2>5. Adds(Target1, a)
    BY <1>9, <2>1, <2>3, <2>4 DEF Adds, FalseLaidOut
  <2> QED  BY <1>9, <2>3, <2>5 DEF FalseLaidOut, AtIf, Step
<1>10. CASE NoneLaidOut
  <2>1. Target1 \in DOMAIN lines /\ Target2 \in DOMAIN lines
    BY <1>a, <1>10 DEF NoneLaidOut
  <2>2. warnings = {} /\ FreePairs(first) # {}
    BY <1>10 DEF NoneLaidOut, Warn
  <2>3. AddsPair(Target1, Target2, Pair)
    BY <1>10, <2>1, <2>2, PairFound DEF AddsPair, NoneLaidOut
  <2> QED  BY <1>10, <2>2, <2>3 DEF NoneLaidOut, AtIf, Step
<1>11. CASE Rest
  <2>1. at \in DOMAIN lines
    BY <1>0, <1>11 DEF Rest, AtRest, TypeOK
  <2>2. warnings = {} /\ Free(first, 2 * Half - 1) # {}
    BY <1>11 DEF Rest, Warn
  <2>3. Adds(at, Hole)
    BY <1>11, <2>1, <2>2, HoleFound DEF Adds, Rest
  <2> QED  BY <1>11, <2>2, <2>3 DEF Rest, AtRest, Step
<1>12. CASE NothingLeft
  BY <1>12 DEF NothingLeft, Warn
<1>13. CASE NextPass
  BY <1>13 DEF NextPass, PlaceNothing
<1>14. CASE UNCHANGED vars
  BY <1>14 DEF vars, PlaceNothing
<1>15. ~AbsoluteOutside /\ ~FalseLaidOutOutside /\ ~JumpCrashes
  BY StaysInside DEF FalseLaidOutOutside, JumpCrashes
<1> QED
  BY <1>1, <1>2, <1>3, <1>4, <1>5, <1>6, <1>7, <1>8, <1>9, <1>10, <1>11, <1>12,
     <1>13, <1>14, <1>15 DEF Next, Finished

LEMMA QuietKeeps ==
  ASSUME TypeInv, [Next]_vars, InStore, warnings' = {}
  PROVE  Keeps
<1>1. CASE PlaceNothing
  BY <1>1, QuietStep DEF PlaceNothing, Keeps
<1>2. CASE \E line, a : Adds(line, a)
  BY <1>2, QuietStep, AddsKeeps DEF TypeInv
<1>3. CASE \E line1, line2, a : AddsPair(line1, line2, a)
  BY <1>3, QuietStep, AddsPairKeeps DEF TypeInv
<1> QED  BY <1>1, <1>2, <1>3, QuietStep
-----------------------------------------------------------------------------
(* What each pass does for the line it is at. *)

LEMMA QuietAbsolutes ==
  ASSUME TypeInv, [Next]_vars, InStore, warnings' = {}, pass' = "absolutes"
  PROVE  /\ pass = "absolutes"
         /\ \/ at' = at /\ PlaceNothing
            \/ /\ at \in DOMAIN lines /\ at' = at - 1
               /\ \/ ~IsAbsolute(at) /\ PlaceNothing
                  \/ /\ IsAbsolute(at) /\ LabelAddress(at) \in Addresses
                     /\ LineOf(at) \in DOMAIN lines
                     /\ \/ LaidOut(LineOf(at)) /\ PlaceNothing
                        \/ Adds(LineOf(at), LabelAddress(at))
<1> USE DEF TypeInv
<1>0. lines \in Seq(Lines) /\ Len(lines) \in Nat /\ DOMAIN lines = 1 .. Len(lines)
  BY DEF TypeOK
<1>1. CASE NotAbsolute
  BY <1>0, <1>1 DEF NotAbsolute, AtLabel, Step, TypeOK
<1>2. CASE AbsoluteOutOfRange
  BY <1>2 DEF AbsoluteOutOfRange, Warn
<1>3. CASE Absolute
  <2>1. at \in DOMAIN lines
    BY <1>0, <1>3 DEF Absolute, AtLabel, TypeOK
  <2>2. LineOf(at) \in DOMAIN lines
    BY <1>0, <1>3, <2>1, LineOfType DEF Absolute, Crashes
  <2>3. ~Clashes(at)
    BY <1>3 DEF Absolute, Warn
  <2> QED
    BY <1>3, <2>1, <2>2, <2>3 DEF Absolute, AtLabel, Step, Adds, Clashes
<1>4. CASE NextPass
  BY <1>4 DEF NextPass
<1>5. CASE UNCHANGED vars
  BY <1>5 DEF vars, PlaceNothing
<1>6. ~AbsoluteOutside /\ ~OtherOutside
  BY StaysInside
<1> QED
  BY <1>1, <1>2, <1>3, <1>4, <1>5, <1>6 DEF Next, Finished, AbsoluteCrashes, NoIf,
     UndefinedTarget, BothLaidOut, TrueLaidOut, FalseLaidOut, FalseLaidOutOutside, JumpCrashes, OtherOutside, NoneLaidOut, AtIf,
     Rest, NothingLeft, AtRest, Step

LEMMA QuietJumps ==
  ASSUME TypeInv, Consistent, [Next]_vars, InStore, warnings' = {}, pass' = "jumps"
  PROVE  \/ pass = "absolutes" /\ at' = 1
         \/ /\ pass = "jumps"
            /\ \/ at' = at
               \/ \E n \in DOMAIN lines :
                    /\ n = at /\ at' = n + 1
                    /\ lines[n].label1 # NoLabel => Paired(n)'
<1> USE DEF TypeInv
<1>0. lines \in Seq(Lines) /\ Len(lines) \in Nat /\ DOMAIN lines = 1 .. Len(lines)
  BY DEF TypeOK
<1>n. PICK n : n = at
  OBVIOUS
<1>b. lines' = lines /\ warnings = {}
  BY QuietStep
<1>a. ASSUME AtIf, Targets
      PROVE  /\ n \in DOMAIN lines
             /\ Target1 \in DOMAIN lines /\ Target2 \in DOMAIN lines
             /\ Target1 = Lookup(lines[n].label1)' /\ Target2 = Lookup(lines[n].label2)'
  BY <1>0, <1>a, <1>b, <1>n, LookupType, SameLines DEF Targets, Target1, Target2, AtIf, TypeOK
<1>1. CASE NoIf
  BY <1>0, <1>n, <1>1 DEF NoIf, Step, TypeOK
<1>2. CASE UndefinedTarget
  BY <1>2 DEF UndefinedTarget, Warn
<1>3. CASE BothLaidOut
  <2>1. /\ n \in DOMAIN lines
        /\ Target1 \in DOMAIN lines /\ Target2 \in DOMAIN lines
        /\ Target1 = Lookup(lines[n].label1)' /\ Target2 = Lookup(lines[n].label2)'
    BY <1>a, <1>3 DEF BothLaidOut
  <2>2. /\ address[Target1] \in Addresses /\ address[Target2] \in Addresses
        /\ store[address[Target1]] = Target1 /\ store[address[Target2]] = Target2
    BY <1>3, <1>b, <2>1 DEF BothLaidOut, Consistent, NothingOutside
  <2>3. address[Target1] = address[Target2] + Half
    BY <1>3 DEF BothLaidOut, Warn
  <2>4. Paired(n)'
    BY NowhereFacts, <1>0, <1>3, <1>b, <2>1, <2>2, <2>3, HalfAssumption
    DEF Paired, BothLaidOut, PlaceNothing, LaidOut, Addresses, None, Step
  <2> QED  BY <1>3, <1>n, <2>1, <2>4 DEF BothLaidOut, AtIf, Step
<1>4. CASE TrueLaidOut
  <2> DEFINE a == address[Target1] - Half
  <2>1. /\ n \in DOMAIN lines
        /\ Target1 \in DOMAIN lines /\ Target2 \in DOMAIN lines
        /\ Target1 = Lookup(lines[n].label1)' /\ Target2 = Lookup(lines[n].label2)'
    BY <1>a, <1>4 DEF TrueLaidOut
  <2>2. address[Target1] \in Addresses /\ store[address[Target1]] = Target1
    BY <1>4, <1>b, <2>1 DEF TrueLaidOut, Consistent, NothingOutside
  <2>3. a >= 0 /\ store[a] = None /\ Place(Target2, a)
    BY <1>4, <2>2, HalfAssumption DEF TrueLaidOut, Warn, Addresses
  <2>4. a \in 0 .. Half - 1 /\ a \in Addresses /\ a + Half = address[Target1]
    BY <2>2, <2>3, HalfAssumption DEF Addresses
  <2>5. /\ address'[Target2] = a /\ store'[a] = Target2
        /\ store'[a + Half] = Target1
    BY <1>0, <2>1, <2>2, <2>3, <2>4 DEF Place, TypeOK, None
  <2>6. Paired(n)'
    BY NowhereFacts, <1>0, <1>b, <2>1, <2>4, <2>5, HalfAssumption
    DEF Paired, LaidOut, None
  <2> QED  BY <1>4, <1>n, <2>1, <2>6 DEF TrueLaidOut, AtIf, Step
<1>5. CASE FalseLaidOut
  <2> DEFINE a == address[Target2] + Half
  <2>1. /\ n \in DOMAIN lines
        /\ Target1 \in DOMAIN lines /\ Target2 \in DOMAIN lines
        /\ Target1 = Lookup(lines[n].label1)' /\ Target2 = Lookup(lines[n].label2)'
    BY <1>a, <1>5 DEF FalseLaidOut
  <2>2. address[Target2] \in Addresses /\ store[address[Target2]] = Target2
    BY <1>5, <1>b, <2>1 DEF FalseLaidOut, Consistent, NothingOutside
  <2>3. ~(a >= 2 * Half) /\ store[a] = None /\ Place(Target1, a)
    BY <1>5, <2>2, HalfAssumption DEF FalseLaidOut, Warn, Addresses
  <2>4. address[Target2] \in 0 .. Half - 1 /\ a \in Addresses
    BY <2>2, <2>3, HalfAssumption DEF Addresses
  <2>5. /\ address'[Target2] = address[Target2]
        /\ store'[address[Target2]] = Target2
        /\ store'[address[Target2] + Half] = Target1
    <3>1. Target1 # Target2 /\ address[Target2] # a
      BY <1>0, <1>5, <2>1, <2>2, <2>3 DEF FalseLaidOut, None
    <3> QED  BY <2>1, <2>2, <2>3, <2>4, <3>1 DEF Place, TypeOK
  <2>6. Paired(n)'
    BY NowhereFacts, <1>0, <1>b, <2>1, <2>4, <2>5, HalfAssumption
    DEF Paired, LaidOut, None
  <2> QED  BY <1>5, <1>n, <2>1, <2>6 DEF FalseLaidOut, AtIf, Step
<1>6. CASE NoneLaidOut
  <2>1. /\ n \in DOMAIN lines
        /\ Target1 \in DOMAIN lines /\ Target2 \in DOMAIN lines
        /\ Target1 = Lookup(lines[n].label1)' /\ Target2 = Lookup(lines[n].label2)'
    BY <1>a, <1>6 DEF NoneLaidOut
  <2>2. Pair \in 0 .. Half - 1 /\ Pair \in Addresses /\ Pair + Half \in Addresses
    BY PairFound, HalfAssumption DEF Addresses
  <2>3. /\ address'[Target2] = Pair /\ store'[Pair] = Target2
        /\ store'[Pair + Half] = Target1
    BY <1>6, <2>1, <2>2, HalfAssumption DEF NoneLaidOut, TypeOK
  <2>4. Paired(n)'
    BY NowhereFacts, <1>0, <1>b, <2>1, <2>2, <2>3, HalfAssumption
    DEF Paired, LaidOut, None
  <2> QED  BY <1>6, <1>n, <2>1, <2>4 DEF NoneLaidOut, AtIf, Step
<1>7. CASE NextPass
  BY <1>7 DEF NextPass
<1>8. CASE UNCHANGED vars
  BY <1>8 DEF vars
<1>9. ~OtherOutside
  BY StaysInside
<1> QED
  BY <1>1, <1>2, <1>3, <1>4, <1>5, <1>6, <1>7, <1>8, <1>9 DEF Next, Finished,
     NotAbsolute, AbsoluteOutOfRange, Absolute, AbsoluteOutside, AbsoluteCrashes, AtLabel,
     FalseLaidOutOutside, JumpCrashes,
     Rest, NothingLeft, AtRest, Step

LEMMA QuietRest ==
  ASSUME TypeInv, [Next]_vars, InStore, warnings' = {}, pass' = "rest"
  PROVE  \/ pass = "jumps" /\ at = Len(lines) + 1 /\ at' = 1
         \/ /\ pass = "rest"
            /\ \/ at' = at
               \/ \E n \in DOMAIN lines :
                    /\ n = at /\ at' = n + 1
                    /\ lines[n].insns => LaidOut(n)'
<1> USE DEF TypeInv
<1>0. lines \in Seq(Lines) /\ Len(lines) \in Nat /\ DOMAIN lines = 1 .. Len(lines)
  BY DEF TypeOK
<1>n. PICK n : n = at
  OBVIOUS
<1>1. CASE Rest
  <2>1. n \in DOMAIN lines
    BY <1>0, <1>n, <1>1 DEF Rest, AtRest, TypeOK
  <2>2. Hole \in Addresses
    BY HoleFound
  <2>3. address'[n] = Hole
    BY <1>1, <1>n, <2>1 DEF Rest, Place, TypeOK
  <2>4. LaidOut(n)'
    BY NowhereFacts, <2>2, <2>3, HalfAssumption DEF LaidOut, Addresses
  <2> QED  BY <1>1, <1>n, <2>1, <2>4 DEF Rest, AtRest, Step
<1>2. CASE NothingLeft
  <2>1. n \in DOMAIN lines
    BY <1>0, <1>n, <1>2 DEF NothingLeft, AtRest, TypeOK
  <2> QED  BY <1>2, <1>n, <2>1 DEF NothingLeft, AtRest, Step, LaidOut, PlaceNothing
<1>3. CASE NextPass
  BY <1>3 DEF NextPass
<1>4. CASE UNCHANGED vars
  BY <1>4 DEF vars
<1> QED
  BY <1>1, <1>2, <1>3, <1>4 DEF Next, Finished,
     NotAbsolute, AbsoluteOutOfRange, Absolute, AbsoluteOutside, AbsoluteCrashes, AtLabel, NoIf,
     UndefinedTarget, BothLaidOut, TrueLaidOut, FalseLaidOut, FalseLaidOutOutside, JumpCrashes, OtherOutside, NoneLaidOut, AtIf, Step
-----------------------------------------------------------------------------
(* The invariant, conjunct by conjunct. *)

LEMMA StepConsistent ==
  ASSUME TypeInv, Consistent, [Next]_vars
  PROVE  Consistent'
<1> SUFFICES ASSUME InStore, warnings' = {}
             PROVE  /\ \A n \in DOMAIN lines' : LaidOut(n)' => store'[address'[n]] = n
                    /\ \A a \in Addresses : store'[a] # None => LaidOut(store[a])'
  BY InStoreStays DEF Consistent
<1>0. TypeOK /\ lines \in Seq(Lines) /\ Len(lines) \in Nat /\ DOMAIN lines = 1 .. Len(lines)
  BY DEF TypeInv, TypeOK
<1>1. lines' = lines /\ warnings = {}
  BY QuietStep
<1>2. /\ \A n \in DOMAIN lines : LaidOut(n) => store[address[n]] = n
      /\ \A a \in Addresses : store[a] # None => LaidOut(store[a])
  BY <1>1 DEF Consistent
<1>3. CASE PlaceNothing
  BY <1>1, <1>2, <1>3 DEF PlaceNothing, LaidOut
<1>4. ASSUME NEW line, NEW b, Adds(line, b)
      PROVE  /\ \A n \in DOMAIN lines' : LaidOut(n)' => store'[address'[n]] = n
             /\ \A a \in Addresses : store'[a] # None => LaidOut(store[a])'
  BY NowhereFacts, <1>0, <1>1, <1>2, <1>4, HalfAssumption
  DEF Adds, Place, LaidOut, TypeOK, Addresses, None
<1>5. ASSUME NEW line1, NEW line2, NEW b, AddsPair(line1, line2, b)
      PROVE  /\ \A n \in DOMAIN lines' : LaidOut(n)' => store'[address'[n]] = n
             /\ \A a \in Addresses : store'[a] # None => LaidOut(store[a])'
  <2>1. b \in Addresses /\ b + Half \in Addresses /\ b # b + Half
    BY <1>5, HalfAssumption DEF AddsPair, Addresses
  <2>2. \A n \in DOMAIN lines :
          address'[n] = IF n = line2 THEN b ELSE IF n = line1 THEN b + Half
                        ELSE address[n]
    BY <1>0, <1>5 DEF AddsPair, TypeOK
  <2>3. \A a \in Addresses :
          store'[a] = IF a = b THEN line2 ELSE IF a = b + Half THEN line1
                      ELSE store[a]
    BY <1>0, <1>5, <2>1 DEF AddsPair, TypeOK
  <2>4. line1 \in DOMAIN lines /\ line2 \in DOMAIN lines
        /\ store[b] = None /\ store[b + Half] = None
    BY <1>5 DEF AddsPair
  <2>5. ASSUME NEW n \in DOMAIN lines, LaidOut(n)'
        PROVE  store'[address'[n]] = n
    <3>1. CASE n \in {line1, line2}
      BY <2>1, <2>2, <2>3, <2>4, <3>1
    <3>2. CASE n \notin {line1, line2}
      <4>1. address'[n] = address[n] /\ LaidOut(n)
        BY <2>2, <2>5, <3>2 DEF LaidOut
      <4>2. address[n] \in Addresses /\ store[address[n]] = n
        BY <1>2, <4>1 DEF TypeInv, NothingOutside
      <4> QED  BY <1>0, <2>3, <2>4, <4>1, <4>2 DEF None
    <3> QED  BY <3>1, <3>2
  <2>6. ASSUME NEW a \in Addresses, store'[a] # None
        PROVE  LaidOut(store[a])'
    <3>1. CASE a \in {b, b + Half}
      BY NowhereFacts, <2>1, <2>2, <2>3, <2>4, <3>1 DEF LaidOut, Addresses
    <3>2. CASE a \notin {b, b + Half}
      <4>1. store'[a] = store[a] /\ LaidOut(store[a]) /\ store[a] \in DOMAIN lines
        BY <1>0, <1>2, <2>3, <2>6, <3>2 DEF TypeOK
      <4> QED  BY NowhereFacts, <2>1, <2>2, <4>1 DEF LaidOut, Addresses
    <3> QED  BY <3>1, <3>2
  <2> QED  BY <1>1, <2>5, <2>6
<1> QED  BY <1>3, <1>4, <1>5, QuietStep

LEMMA StepOnlyAbsolutes ==
  ASSUME TypeInv, OnlyAbsolutes, [Next]_vars
  PROVE  OnlyAbsolutes'
<1> SUFFICES ASSUME InStore, warnings' = {}, pass' = "absolutes",
                    NEW line \in DOMAIN lines', LaidOut(line)'
             PROVE  \E n \in DOMAIN lines' :
                      n > at' /\ IsAbsolute(n)' /\ LineOf(n)' = line
  BY InStoreStays DEF OnlyAbsolutes
<1>0. TypeOK /\ DOMAIN lines = 1 .. Len(lines) /\ Len(lines) \in Nat /\ at \in Int
  BY HalfAssumption, QuietAbsolutes DEF TypeInv, TypeOK
<1>1. lines' = lines /\ warnings = {} /\ pass = "absolutes" /\ at' <= at
      /\ at' \in Int
  BY <1>0, QuietStep, QuietAbsolutes
<1>2. CASE LaidOut(line)
  <2>1. PICK n \in DOMAIN lines : n > at /\ IsAbsolute(n) /\ LineOf(n) = line
    BY <1>1, <1>2 DEF OnlyAbsolutes
  <2>2. n > at' /\ IsAbsolute(n)' /\ LineOf(n)' = line
    BY <1>0, <1>1, <2>1, SameLines
  <2> QED  BY <1>1, <2>2
<1>3. CASE ~LaidOut(line)
  <2>1. /\ at \in DOMAIN lines /\ at' = at - 1
        /\ IsAbsolute(at) /\ LineOf(at) = line
    <3>1. ~PlaceNothing
      BY <1>3 DEF PlaceNothing, LaidOut
    <3>2. /\ at \in DOMAIN lines /\ at' = at - 1 /\ IsAbsolute(at)
          /\ LineOf(at) \in DOMAIN lines /\ Adds(LineOf(at), LabelAddress(at))
      BY <3>1, QuietAbsolutes
    <3>3. \A n \in DOMAIN lines \ {LineOf(at)} : address'[n] = address[n]
      BY <1>0, <3>2 DEF Adds, Place, TypeOK
    <3> QED  BY <1>1, <1>3, <3>2, <3>3 DEF LaidOut
  <2>2. PICK n \in DOMAIN lines : n = at
    BY <2>1
  <2>3. n > at' /\ IsAbsolute(n)' /\ LineOf(n)' = line
    BY <1>0, <1>1, <2>1, <2>2, SameLines
  <2> QED  BY <1>1, <2>3
<1> QED  BY <1>2, <1>3

LEMMA StepAbsolutesDone ==
  ASSUME TypeInv, OnlyAbsolutes, Consistent, AbsolutesDone, [Next]_vars
  PROVE  AbsolutesDone'
<1> SUFFICES ASSUME InStore, warnings' = {}, pass' # "crashed",
                    NEW n \in DOMAIN lines', IsAbsolute(n)', Alone(n)',
                    pass' = "absolutes" => n > at'
             PROVE  /\ LabelAddress(n)' \in Addresses
                    /\ LineOf(n)' # None
                    /\ store'[LabelAddress(n)'] = LineOf(n)'
  BY InStoreStays DEF AbsolutesDone
<1>0. TypeOK /\ DOMAIN lines = 1 .. Len(lines) /\ Len(lines) \in Nat
  BY DEF TypeInv, TypeOK
<1>1. Keeps /\ lines' = lines /\ warnings = {} /\ n \in DOMAIN lines
      /\ IsAbsolute(n) /\ Alone(n) /\ LineOf(n)' = LineOf(n)
      /\ LabelAddress(n)' = LabelAddress(n)
  BY QuietKeeps, SameLines DEF Keeps
<1>2. CASE pass # "crashed" /\ (pass = "absolutes" => n > at)
  <2>1. /\ LabelAddress(n) \in Addresses /\ LineOf(n) # None
        /\ store[LabelAddress(n)] = LineOf(n)
    BY <1>1, <1>2 DEF AbsolutesDone
  <2> QED  BY <1>1, <2>1 DEF Keeps
<1>3. CASE pass = "absolutes" /\ ~(n > at)
  <2>1. CASE pass' = "absolutes"
    <3>1. at = n /\ at \in DOMAIN lines /\ at' = at - 1
      BY <1>0, <1>1, <1>3, <2>1, QuietAbsolutes
    <3>2. /\ LabelAddress(n) \in Addresses /\ LineOf(n) \in DOMAIN lines
          /\ LaidOut(LineOf(n)) \/ Adds(LineOf(n), LabelAddress(n))
      BY <1>0, <1>1, <2>1, <3>1, QuietAbsolutes
    <3>3. ~LaidOut(LineOf(n))
      <4> SUFFICES ASSUME LaidOut(LineOf(n)) PROVE FALSE  OBVIOUS
      <4>1. PICK m \in DOMAIN lines : m > at /\ IsAbsolute(m) /\ LineOf(m) = LineOf(n)
        BY <1>1, <1>3, <3>2 DEF OnlyAbsolutes
      <4>2. m # n
        BY <1>0, <3>1, <4>1
      <4> QED  BY <1>1, <4>1, <4>2 DEF Alone
    <3>4. store'[LabelAddress(n)] = LineOf(n)
      BY <1>0, <3>2, <3>3 DEF Adds, Place, TypeOK
    <3> QED  BY <1>0, <1>1, <3>2, <3>4 DEF None
  <2>2. CASE pass' # "absolutes"
    <3>1. at = 0
      BY <1>3, <2>2 DEF Next, NotAbsolute, AbsoluteOutOfRange, Absolute, AbsoluteOutside,
         AbsoluteCrashes, NoIf, UndefinedTarget, BothLaidOut, TrueLaidOut,
         FalseLaidOut, FalseLaidOutOutside, JumpCrashes, OtherOutside, NoneLaidOut, AtIf, Rest, NothingLeft, AtRest, NextPass,
         Finished, Step, vars
    <3> QED  BY <1>0, <1>1, <1>3, <3>1
  <2> QED  BY <2>1, <2>2
<1>4. pass # "crashed"
  BY DEF Next, NotAbsolute, AbsoluteOutOfRange, Absolute, AbsoluteOutside, AtLabel,
     AbsoluteCrashes, NoIf, UndefinedTarget, BothLaidOut, TrueLaidOut,
     FalseLaidOut, FalseLaidOutOutside, JumpCrashes, OtherOutside, NoneLaidOut, AtIf, Rest, NothingLeft, AtRest, NextPass,
     Finished, vars
<1> QED  BY <1>2, <1>3, <1>4

LEMMA StepPairsDone ==
  ASSUME TypeInv, Consistent, PairsDone, [Next]_vars
  PROVE  PairsDone'
<1> SUFFICES ASSUME InStore, warnings' = {}, pass' \in {"jumps", "rest", "done"},
                    NEW n \in DOMAIN lines', lines'[n].label1 # NoLabel,
                    pass' = "jumps" => n < at'
             PROVE  Paired(n)'
  BY InStoreStays DEF PairsDone
<1>0. TypeOK /\ lines \in Seq(Lines) /\ DOMAIN lines = 1 .. Len(lines) /\ Len(lines) \in Nat
  BY DEF TypeInv, TypeOK
<1>1. Keeps /\ lines' = lines /\ warnings = {} /\ n \in DOMAIN lines
      /\ lines[n].label1 # NoLabel
  BY QuietKeeps DEF Keeps
<1>2. ASSUME Paired(n)
      PROVE  Paired(n)'
  <2> DEFINE l1 == Lookup(lines[n].label1)
             l2 == Lookup(lines[n].label2)
  <2>1. Lookup(lines[n].label1)' = l1 /\ Lookup(lines[n].label2)' = l2
    BY <1>1, SameLines
  <2>2. l1 \in DOMAIN lines /\ l2 \in DOMAIN lines
    BY <1>0, <1>2, LookupType DEF Paired
  <2>3. /\ address[l2] \in Addresses /\ address[l2] + Half \in Addresses
        /\ address[l2] < Half
        /\ store[address[l2]] = l2 /\ store[address[l2] + Half] = l1
    BY <1>0, <1>2, <2>2, HalfAssumption DEF Paired, TypeInv, NothingOutside, Addresses
  <2>4. /\ address'[l2] = address[l2]
        /\ store'[address[l2]] = l2 /\ store'[address[l2] + Half] = l1
    BY <1>0, <1>1, <1>2, <2>2, <2>3 DEF Keeps, Paired, None
  <2> QED  BY NowhereFacts, <1>0, <1>1, <2>1, <2>2, <2>3, <2>4, HalfAssumption
           DEF Paired, LaidOut, Addresses, None
<1>3. CASE pass' = "jumps"
  <2>1. CASE pass = "absolutes" /\ at' = 1
    BY <1>0, <1>1, <1>3, <2>1
  <2>2. CASE pass = "jumps" /\ at' = at
    BY <1>1, <1>2, <1>3, <2>2 DEF PairsDone
  <2>3. ASSUME pass = "jumps", NEW m \in DOMAIN lines, m = at, at' = m + 1,
               lines[m].label1 # NoLabel => Paired(m)'
        PROVE  Paired(n)'
    <3>1. CASE n = m
      BY <1>1, <2>3, <3>1
    <3>2. CASE n # m
      <4>1. n < at  BY <1>0, <1>1, <1>3, <2>3, <3>2
      <4> QED  BY <1>1, <1>2, <2>3, <4>1 DEF PairsDone
    <3> QED  BY <3>1, <3>2
  <2> QED  BY <1>3, <2>1, <2>2, <2>3, QuietJumps
<1>4. CASE pass' # "jumps"
  <2>1. pass \in {"rest", "done"} \/ (pass = "jumps" /\ at = Len(lines) + 1)
    BY <1>4 DEF Next, NotAbsolute, AbsoluteOutOfRange, Absolute, AbsoluteOutside, AtLabel,
       AbsoluteCrashes, NoIf, UndefinedTarget, BothLaidOut, TrueLaidOut,
       FalseLaidOut, FalseLaidOutOutside, JumpCrashes, OtherOutside, NoneLaidOut, AtIf, Rest, NothingLeft, AtRest, NextPass,
       Finished, Step, vars
  <2>2. Paired(n)
    BY <1>0, <1>1, <2>1 DEF PairsDone
  <2> QED  BY <1>2, <2>2
<1> QED  BY <1>3, <1>4

LEMMA StepRestDone ==
  ASSUME TypeInv, RestDone, [Next]_vars
  PROVE  RestDone'
<1> SUFFICES ASSUME InStore, warnings' = {}, pass' \in {"rest", "done"},
                    NEW n \in DOMAIN lines', lines'[n].insns,
                    pass' = "rest" => n < at'
             PROVE  LaidOut(n)'
  BY InStoreStays DEF RestDone
<1>0. TypeOK /\ DOMAIN lines = 1 .. Len(lines) /\ Len(lines) \in Nat
  BY DEF TypeInv, TypeOK
<1>1. Keeps /\ lines' = lines /\ warnings = {} /\ n \in DOMAIN lines /\ lines[n].insns
  BY QuietKeeps DEF Keeps
<1>2. ASSUME LaidOut(n)
      PROVE  LaidOut(n)'
  BY <1>1, <1>2 DEF Keeps, LaidOut
<1>3. CASE pass' = "rest"
  <2>1. CASE pass = "jumps" /\ at' = 1
    BY <1>0, <1>1, <1>3, <2>1
  <2>2. CASE pass = "rest" /\ at' = at
    BY <1>1, <1>2, <1>3, <2>2 DEF RestDone
  <2>3. ASSUME pass = "rest", NEW m \in DOMAIN lines, m = at, at' = m + 1,
               lines[m].insns => LaidOut(m)'
        PROVE  LaidOut(n)'
    <3>1. CASE n = m
      BY <1>1, <2>3, <3>1
    <3>2. CASE n # m
      <4>1. n < at  BY <1>0, <1>1, <1>3, <2>3, <3>2
      <4> QED  BY <1>1, <1>2, <2>3, <4>1 DEF RestDone
    <3> QED  BY <3>1, <3>2
  <2> QED  BY <1>3, <2>1, <2>2, <2>3, QuietRest
<1>4. CASE pass' = "done"
  <2>1. pass = "done" \/ (pass = "rest" /\ at = Len(lines) + 1)
    BY <1>4 DEF Next, NotAbsolute, AbsoluteOutOfRange, Absolute, AbsoluteOutside, AtLabel,
       AbsoluteCrashes, NoIf, UndefinedTarget, BothLaidOut, TrueLaidOut,
       FalseLaidOut, FalseLaidOutOutside, JumpCrashes, OtherOutside, NoneLaidOut, AtIf, Rest, NothingLeft, AtRest, NextPass,
       Finished, Step, vars
  <2>2. LaidOut(n)
    BY <1>0, <1>1, <2>1 DEF RestDone
  <2> QED  BY <1>2, <2>2
<1> QED  BY <1>3, <1>4
-----------------------------------------------------------------------------
(* The theorems. *)

\* The invariant is inductive.
THEOREM LayoutInvariant == Spec => []LayoutInv
<1>1. Init => LayoutInv
  <2> SUFFICES ASSUME Init PROVE LayoutInv  OBVIOUS
  <2>1. TypeInv
    BY InitType
  <2>2. Len(lines) \in Nat /\ DOMAIN lines = 1 .. Len(lines)
    BY <2>1 DEF TypeInv, TypeOK
  <2>3. /\ pass = "absolutes" /\ at = Len(lines)
        /\ \A n \in DOMAIN lines : ~LaidOut(n)
        /\ \A a \in Addresses : store[a] = None
    BY DEF Init, LaidOut
  <2> QED
    BY <2>1, <2>2, <2>3
    DEF LayoutInv, Consistent, OnlyAbsolutes, AbsolutesDone, PairsDone, RestDone
<1>2. LayoutInv /\ [Next]_vars => LayoutInv'
  BY StepType, StepConsistent, StepOnlyAbsolutes, StepAbsolutesDone, StepPairsDone,
     StepRestDone DEF LayoutInv
<1> QED  BY <1>1, <1>2, PTL DEF Spec

\* Every variable stays in its type, whatever numbers are written behind labels:
\* the store has lines of the microprogram in its words and nothing else, and a
\* line is in one of its words, or in front of it where a negative int leads.
THEOREM TypeCorrect == Spec => []TypeOK
<1>1. LayoutInv => TypeOK
  BY DEF LayoutInv, TypeInv
<1> QED  BY <1>1, LayoutInvariant, PTL

\* No pass leaves the store but for an absolute label whose number has become a
\* negative int (mic1-lex.l:59, mic1-layout.c:77): not for the targets of an
\* `if', and not when the store is exhausted.
THEOREM OnlyNegativeLabelsLeave == Spec => []LeavesOnlyByLabels
<1>1. LayoutInv => LeavesOnlyByLabels
  <2> SUFFICES ASSUME TypeInv, ~\E n \in DOMAIN lines : IsAbsolute(n) /\ LabelAddress(n) < 0
               PROVE  \A line \in DOMAIN lines : LaidOut(line) => address[line] \in Addresses
    BY DEF LayoutInv, LeavesOnlyByLabels
  <2>1. lines \in Seq(Lines)
    BY DEF TypeInv, TypeOK
  <2>2. InStore
    BY <2>1, LabelAddressType DEF InStore
  <2> QED  BY <2>2 DEF TypeInv, NothingOutside
<1> QED  BY <1>1, LayoutInvariant, PTL

\* In a store that is emitted every line with instructions is in its word
\* (mic1-layout.c), however many lines, labels and branches there are.
THEOREM LinesArePlaced == Spec => []EveryLinePlaced
<1>1. LayoutInv => EveryLinePlaced
  BY DEF LayoutInv, Consistent, RestDone, EveryLinePlaced, Clean, Emittable
<1> QED  BY <1>1, LayoutInvariant, PTL

\* In a store that is emitted the two targets of every `if' are in the two words
\* among which the hardware chooses.
THEOREM BranchesArePaired == Spec => []BranchesPaired
<1>1. LayoutInv => BranchesPaired
  BY DEF LayoutInv, PairsDone, Paired, BranchesPaired, Clean, Emittable
<1> QED  BY <1>1, LayoutInvariant, PTL

\* In a store that is emitted a line with one absolute label is where it says.
THEOREM AbsolutesAreHonoured == Spec => []AbsolutesHonoured
<1>1. LayoutInv => AbsolutesHonoured
  BY DEF LayoutInv, AbsolutesDone, AbsolutesHonoured, Clean, Emittable
<1> QED  BY <1>1, LayoutInvariant, PTL

\* The steps that write to the store look at the word first, or warn.
LEMMA WordsAreKept ==
  ASSUME TypeInv, [Next]_vars, NEW a \in Addresses, store[a] # None, store'[a] # store[a]
  PROVE  (IF pass = "absolutes" THEN "clash" ELSE "exhausted") \in warnings'
<1>0. TypeOK
  BY DEF TypeInv
<1>1. CASE store' = store
  BY <1>1
<1>2. CASE Absolute
  BY <1>0, <1>2 DEF Absolute, AtLabel, Place, PlaceNothing, Clashes, Warn, TypeOK
<1>3. CASE TrueLaidOut
  BY <1>0, <1>3 DEF TrueLaidOut, Place, PlaceNothing, TypeOK
<1>4. CASE FalseLaidOut
  BY <1>0, <1>4 DEF FalseLaidOut, Place, PlaceNothing, TypeOK
<1>5. CASE NoneLaidOut
  BY <1>0, <1>5, PairFound DEF NoneLaidOut, AtIf, Warn, TypeOK
<1>6. CASE Rest
  BY <1>0, <1>6, HoleFound DEF Rest, AtRest, Place, Warn, TypeOK
<1> QED
  BY <1>1, <1>2, <1>3, <1>4, <1>5, <1>6 DEF Next, NotAbsolute, AbsoluteOutOfRange,
     AbsoluteOutside, AbsoluteCrashes, NoIf, UndefinedTarget, BothLaidOut,
     FalseLaidOutOutside, JumpCrashes, NothingLeft, NextPass, Finished, PlaceOutside,
     PlaceNothing, vars

\* No step takes the word of a line for another line, but for an absolute label
\* with a warning of the clash, and when the store is exhausted with a warning of
\* that (mic1-layout.c:74-85 and 106-130).
THEOREM NothingIsOverwritten == Spec => NothingOverwritten
<1>1. LayoutInv /\ [Next]_vars
        => [\A a \in Addresses :
              store[a] # None /\ store'[a] # store[a]
                => (IF pass = "absolutes" THEN "clash" ELSE "exhausted") \in warnings']_vars
  BY WordsAreKept DEF LayoutInv
<1> QED  BY <1>1, LayoutInvariant, PTL DEF Spec, NothingOverwritten
-----------------------------------------------------------------------------
(***************************************************************************)
(* Why the passes give up only when there is no layout: on a microprogram  *)
(* that has one, f, they follow f.  The absolute labels force what the     *)
(* first pass does.  In the second pass a line is where f has it, or it    *)
(* was placed with its partner in a free pair, and then no other line can  *)
(* be that partner; so the partners of a pair that f uses are in one pair, *)
(* and as long as two targets are missing a pair is left.  In the third    *)
(* pass a word is left as long as a line is missing.                       *)
(***************************************************************************)

Layouts == [{n \in DOMAIN lines : lines[n].insns} -> Addresses]

Solvable ==
  /\ pass # "crashed"
  /\ warnings \intersect {"undefined", "range"} = {}
  /\ \A n \in DOMAIN lines :
       /\ IsAbsolute(n) => Alone(n)
       /\ lines[n].label1 # NoLabel =>
            Lookup(lines[n].label1) # Lookup(lines[n].label2)

\* The targets of an `if'.
AreTargets(line1, line2) ==
  /\ line1 \in DOMAIN lines /\ lines[line1].insns
  /\ line2 \in DOMAIN lines /\ lines[line2].insns
  /\ \E n \in DOMAIN lines : /\ lines[n].label1 # NoLabel
                             /\ Lookup(lines[n].label1) = line1
                             /\ Lookup(lines[n].label2) = line2

PairedBy(line1, line2) ==
  /\ AreTargets(line1, line2)
  /\ LaidOut(line1) /\ LaidOut(line2)
  /\ address[line1] = address[line2] + Half

InPair(line) == \E other \in DOMAIN lines :
                  PairedBy(line, other) \/ PairedBy(other, line)

\* A line in the store has instructions, and its word is at its address.
Exact ==
  /\ \A line \in DOMAIN lines : LaidOut(line) => lines[line].insns
  /\ \A a \in Addresses : store[a] # None => address[store[a]] = a

FollowsInJumps(f) ==
  \A line \in DOMAIN lines : LaidOut(line) => f[line] = address[line] \/ InPair(line)

Follows(f) ==
  /\ warnings = {}
  /\ Exact
  /\ pass = "absolutes" =>
       \A line \in DOMAIN lines : LaidOut(line) => f[line] = address[line]
  /\ pass = "jumps" =>
       /\ FollowsInJumps(f)
       /\ first <= Half
       /\ \A a \in 0 .. first - 1 : store[a] # None \/ store[a + Half] # None
  /\ pass = "rest" => \A a \in 0 .. first - 1 : store[a] # None

SolvedInv == Solvable => \A f \in Layouts : Layout(f) => Follows(f)
-----------------------------------------------------------------------------
(* On what a layout and the passes agree. *)

\* A microprogram with a layout has no negative labels.
LEMMA LayoutInStore ==
  ASSUME NEW f, Layout(f)
  PROVE  InStore
BY HalfAssumption DEF Layout, InStore, Addresses

\* An injection of a finite interval into itself leaves nothing out.
LEMMA NothingLeftOut ==
  ASSUME NEW N \in Nat, NEW g \in [0 .. N - 1 -> 0 .. N - 1],
         \A a, b \in 0 .. N - 1 : g[a] = g[b] => a = b,
         NEW c \in 0 .. N - 1
  PROVE  \E a \in 0 .. N - 1 : g[a] = c
<1>1. IsFiniteSet(0 .. N - 1)
  BY FS_Interval
<1>2. g \in Injection(0 .. N - 1, 0 .. N - 1)
  BY DEF Injection, IsInjective
<1>3. g \in Surjection(0 .. N - 1, 0 .. N - 1)
  BY <1>1, <1>2, FS_Injection
<1> QED  BY <1>3 DEF Surjection

\* A layout has the targets of an `if' in the two words of a pair, so that no
\* line is the target of two ifs with another partner.
LEMMA LayoutOfTargets ==
  ASSUME NEW f \in Layouts, Layout(f), NEW line1, NEW line2, AreTargets(line1, line2)
  PROVE  /\ f[line1] \in Addresses /\ f[line2] \in Addresses
         /\ f[line1] = f[line2] + Half
         /\ f[line2] \in 0 .. Half - 1
<1>1. f[line1] \in Addresses /\ f[line2] \in Addresses
  BY DEF AreTargets, Layouts
<1>2. f[line1] = f[line2] + Half
  BY DEF AreTargets, Layout
<1> QED  BY <1>1, <1>2, HalfAssumption DEF Addresses

LEMMA LayoutInjective ==
  ASSUME NEW f \in Layouts, Layout(f), NEW x \in DOMAIN lines, NEW y \in DOMAIN lines,
         lines[x].insns, lines[y].insns, f[x] = f[y]
  PROVE  x = y
BY DEF Layouts, Layout

LEMMA OnePartner ==
  ASSUME NEW f \in Layouts, Layout(f), NEW line1, NEW line2, AreTargets(line1, line2),
         NEW other1, NEW other2, AreTargets(other1, other2)
  PROVE  /\ line1 = other1 <=> line2 = other2
         /\ line1 # other2
         /\ line2 # other1
<1>1. /\ f[line1] = f[line2] + Half /\ f[line2] \in 0 .. Half - 1
      /\ f[other1] = f[other2] + Half /\ f[other2] \in 0 .. Half - 1
  BY LayoutOfTargets
<1>2. /\ line1 \in DOMAIN lines /\ lines[line1].insns
      /\ line2 \in DOMAIN lines /\ lines[line2].insns
      /\ other1 \in DOMAIN lines /\ lines[other1].insns
      /\ other2 \in DOMAIN lines /\ lines[other2].insns
  BY DEF AreTargets
<1>3. line1 = other1 => f[line2] = f[other2]
  BY <1>1, HalfAssumption
<1>4. line2 = other2 => f[line1] = f[other1]
  BY <1>1
<1>5. f[line1] # f[other2] /\ f[line2] # f[other1]
  BY <1>1, HalfAssumption
<1> QED  BY <1>2, <1>3, <1>4, <1>5, LayoutInjective

\* A target that is laid out while its partner is not is where f has it.
LEMMA NotYetInPair ==
  ASSUME NEW f \in Layouts, Layout(f), NEW line1, NEW line2, AreTargets(line1, line2),
         ~LaidOut(line1) \/ ~LaidOut(line2)
  PROVE  ~InPair(line1) /\ ~InPair(line2)
<1>1. ASSUME NEW other1, NEW other2, PairedBy(other1, other2)
      PROVE  line1 \notin {other1, other2} /\ line2 \notin {other1, other2}
  <2>1. AreTargets(other1, other2) /\ LaidOut(other1) /\ LaidOut(other2)
    BY <1>1 DEF PairedBy
  <2> QED  BY <2>1, OnePartner
<1> QED  BY <1>1 DEF InPair

\* A new line in the store keeps it exact.
LEMMA AddsExact ==
  ASSUME TypeOK, Exact, lines' = lines, NEW line, NEW a, Adds(line, a), lines[line].insns
  PROVE  Exact'
<1>1. line \in DOMAIN lines /\ a \in Addresses /\ address[line] = Nowhere
  BY DEF Adds, LaidOut
<1>2. \A n \in DOMAIN lines : address'[n] = IF n = line THEN a ELSE address[n]
  BY DEF Adds, Place, TypeOK
<1>3. \A b \in Addresses : store'[b] = IF b = a THEN line ELSE store[b]
  BY DEF Adds, Place, TypeOK
<1>4. ASSUME NEW b \in Addresses, store'[b] # None
      PROVE  address'[store'[b]] = b
  <2>1. CASE b = a
    BY <1>1, <1>2, <1>3, <2>1
  <2>2. CASE b # a
    <3>1. store'[b] = store[b] /\ store[b] \in DOMAIN lines /\ address[store[b]] = b
      BY <1>3, <1>4, <2>2 DEF Exact, TypeOK
    <3>2. store[b] # line
      BY NowhereFacts, <1>1, <3>1 DEF Addresses
    <3> QED  BY <1>2, <3>1, <3>2
  <2> QED  BY <2>1, <2>2
<1>5. ASSUME NEW n \in DOMAIN lines, address'[n] # Nowhere
      PROVE  lines[n].insns
  BY <1>2, <1>5 DEF Exact, LaidOut
<1> QED  BY <1>4, <1>5 DEF Exact, LaidOut

LEMMA AddsPairExact ==
  ASSUME TypeOK, Exact, lines' = lines, NEW line1, NEW line2, line1 # line2,
         NEW a, AddsPair(line1, line2, a), lines[line1].insns, lines[line2].insns
  PROVE  Exact'
<1>1. /\ line1 \in DOMAIN lines /\ address[line1] = Nowhere
      /\ line2 \in DOMAIN lines /\ address[line2] = Nowhere
      /\ a \in Addresses /\ a + Half \in Addresses /\ a # a + Half
  BY HalfAssumption DEF AddsPair, LaidOut, Addresses
<1>2. \A n \in DOMAIN lines :
        address'[n] = IF n = line2 THEN a ELSE IF n = line1 THEN a + Half ELSE address[n]
  BY <1>1 DEF AddsPair, TypeOK
<1>3. \A b \in Addresses :
        store'[b] = IF b = a THEN line2 ELSE IF b = a + Half THEN line1 ELSE store[b]
  BY <1>1 DEF AddsPair, TypeOK
<1>4. ASSUME NEW b \in Addresses, store'[b] # None
      PROVE  address'[store'[b]] = b
  <2>1. CASE b \in {a, a + Half}
    BY <1>1, <1>2, <1>3, <2>1
  <2>2. CASE b \notin {a, a + Half}
    <3>1. store'[b] = store[b] /\ store[b] \in DOMAIN lines /\ address[store[b]] = b
      BY <1>3, <1>4, <2>2 DEF Exact, TypeOK
    <3>2. store[b] \notin {line1, line2}
      BY NowhereFacts, <1>1, <3>1 DEF Addresses
    <3> QED  BY <1>2, <3>1, <3>2
  <2> QED  BY <2>1, <2>2
<1>5. ASSUME NEW n \in DOMAIN lines, address'[n] # Nowhere
      PROVE  lines[n].insns
  BY <1>2, <1>5 DEF Exact, LaidOut
<1> QED  BY <1>4, <1>5 DEF Exact, LaidOut

\* Pairs stay pairs.
LEMMA PairsKept ==
  ASSUME Keeps, NEW line \in DOMAIN lines, InPair(line)
  PROVE  InPair(line)'
<1>1. lines' = lines /\ \A name : Lookup(name)' = Lookup(name)
  BY SameLines DEF Keeps
<1>2. ASSUME NEW line1, NEW line2, PairedBy(line1, line2)
      PROVE  PairedBy(line1, line2)'
  <2>1. AreTargets(line1, line2)'
    BY <1>1, <1>2 DEF PairedBy, AreTargets
  <2>2. address'[line1] = address[line1] /\ address'[line2] = address[line2]
    BY <1>2 DEF PairedBy, AreTargets, Keeps
  <2> QED  BY <1>2, <2>1, <2>2 DEF PairedBy, LaidOut
<1> QED  BY <1>1, <1>2 DEF InPair
-----------------------------------------------------------------------------
(* The first pass. *)

LEMMA AbsoluteFollows ==
  ASSUME TypeInv, OnlyAbsolutes, Consistent, Solvable,
         NEW f \in Layouts, Layout(f), Follows(f), Absolute
  PROVE  Follows(f)'
<1> DEFINE line == LineOf(at)
           a == LabelAddress(at)
<1>0. /\ TypeOK /\ lines \in Seq(Lines) /\ Len(lines) \in Nat
      /\ DOMAIN lines = 1 .. Len(lines)
  BY DEF TypeInv, TypeOK
<1>1. /\ at \in DOMAIN lines /\ IsAbsolute(at) /\ a \in Addresses
      /\ pass = "absolutes" /\ ~Crashes(at)
  BY <1>0 DEF Absolute, AtLabel, TypeOK
<1>2. line \in DOMAIN lines /\ lines[line].insns
  BY <1>0, <1>1, LineOfType DEF Crashes
<1>3. f[line] = a
  BY <1>1 DEF Layout
<1>4. /\ warnings = {} /\ Exact
      /\ \A n \in DOMAIN lines : LaidOut(n) => f[n] = address[n]
  BY <1>1 DEF Follows
<1>5. ~LaidOut(line)
  <2> SUFFICES ASSUME LaidOut(line) PROVE FALSE  OBVIOUS
  <2>1. PICK n \in DOMAIN lines : n > at /\ IsAbsolute(n) /\ LineOf(n) = line
    BY <1>1, <1>2, <1>4, LayoutInStore DEF OnlyAbsolutes
  <2>2. n # at
    BY <1>0, <1>1, <2>1
  <2>3. Alone(at)
    BY <1>1 DEF Solvable
  <2> QED  BY <2>1, <2>2, <2>3 DEF Alone
<1>6. ~Clashes(at)
  <2> SUFFICES ASSUME store[a] # None PROVE FALSE  BY DEF Clashes
  <2>1. store[a] \in DOMAIN lines /\ address[store[a]] = a
    BY <1>0, <1>1, <1>4 DEF Exact, TypeOK
  <2>2. LaidOut(store[a])
    BY NowhereFacts, <1>1, <2>1, HalfAssumption DEF LaidOut, Addresses
  <2>3. lines[store[a]].insns /\ f[store[a]] = a
    BY <1>4, <2>1, <2>2 DEF Exact
  <2>4. store[a] = line
    BY <1>2, <1>3, <2>1, <2>3, LayoutInjective
  <2> QED  BY <1>5, <2>2, <2>4
<1>7. /\ Adds(line, a) /\ warnings' = {} /\ pass' = "absolutes" /\ lines' = lines
      /\ first' = first
  BY <1>1, <1>2, <1>4, <1>5, <1>6 DEF Absolute, Adds, Clashes, Warn, Step
<1>8. Exact'
  BY <1>0, <1>2, <1>4, <1>7, AddsExact
<1>9. ASSUME NEW n \in DOMAIN lines, LaidOut(n)'
      PROVE  f[n] = address'[n]
  <2>1. address'[n] = IF n = line THEN a ELSE address[n]
    BY <1>0, <1>7 DEF Adds, Place, TypeOK
  <2> QED  BY <1>3, <1>4, <1>9, <2>1 DEF LaidOut
<1> QED  BY <1>7, <1>8, <1>9 DEF Follows
-----------------------------------------------------------------------------
(* The second pass. *)

LEMMA AtTargets ==
  ASSUME TypeInv, Solvable, AtIf, Targets
  PROVE  /\ AreTargets(Target1, Target2)
         /\ Target1 # Target2
<1>1. /\ TypeOK /\ lines \in Seq(Lines) /\ Len(lines) \in Nat
      /\ DOMAIN lines = 1 .. Len(lines)
  BY DEF TypeInv, TypeOK
<1>2. at \in DOMAIN lines /\ lines[at].label1 # NoLabel
  BY <1>1 DEF AtIf, TypeOK
<1>3. /\ Target1 \in DOMAIN lines /\ lines[Target1].insns
      /\ Target2 \in DOMAIN lines /\ lines[Target2].insns
  BY <1>1, LookupType DEF Targets, Target1, Target2
<1> QED  BY <1>2, <1>3 DEF AreTargets, Target1, Target2, Solvable

\* Two targets that are laid out are in the words of a pair.
LEMMA BothAreRight ==
  ASSUME TypeOK, NEW f \in Layouts, Layout(f), FollowsInJumps(f),
         NEW line1, NEW line2, AreTargets(line1, line2), LaidOut(line1), LaidOut(line2)
  PROVE  address[line1] = address[line2] + Half
<1>1. f[line1] = f[line2] + Half
  BY LayoutOfTargets
<1>2. line1 \in DOMAIN lines /\ line2 \in DOMAIN lines
  BY DEF AreTargets
<1>3. ASSUME InPair(line1) \/ InPair(line2)
      PROVE  address[line1] = address[line2] + Half
  <2>1. PICK other1, other2 : /\ PairedBy(other1, other2)
                              /\ line1 \in {other1, other2} \/ line2 \in {other1, other2}
    BY <1>3 DEF InPair
  <2>2. line1 = other1 /\ line2 = other2
    BY <2>1, OnePartner DEF PairedBy
  <2> QED  BY <2>1, <2>2 DEF PairedBy
<1> QED  BY <1>1, <1>2, <1>3 DEF FollowsInJumps

\* The word of a target is free while its partner only is laid out.
LEMMA OtherIsFree ==
  ASSUME TypeOK, NothingOutside, Consistent, warnings = {}, Exact,
         NEW f \in Layouts, Layout(f), FollowsInJumps(f),
         NEW line1, NEW line2, AreTargets(line1, line2)
  PROVE  /\ LaidOut(line1) /\ ~LaidOut(line2) =>
              f[line1] = address[line1] /\ store[f[line2]] = None
         /\ LaidOut(line2) /\ ~LaidOut(line1) =>
              f[line2] = address[line2] /\ store[f[line1]] = None
<1>1. /\ line1 \in DOMAIN lines /\ lines[line1].insns
      /\ line2 \in DOMAIN lines /\ lines[line2].insns
  BY DEF AreTargets
<1>2. /\ f[line1] \in Addresses /\ f[line2] \in 0 .. Half - 1 /\ f[line2] \in Addresses
      /\ f[line1] = f[line2] + Half
  BY LayoutOfTargets
\* What is in the word of a line that is not laid out is there with its partner.
<1>3. ASSUME NEW line \in DOMAIN lines, lines[line].insns, ~LaidOut(line),
             f[line] \in Addresses, store[f[line]] # None
      PROVE  \E x, y : /\ PairedBy(x, y)
                       /\ address[x] = f[line] \/ address[y] = f[line]
  <2> DEFINE x == store[f[line]]
  <2>1. x \in DOMAIN lines /\ address[x] = f[line]
    BY <1>3 DEF Exact, TypeOK
  <2>2. LaidOut(x) /\ lines[x].insns
    BY NowhereFacts, <1>3, <2>1, HalfAssumption DEF LaidOut, Addresses, Exact
  <2>3. x # line
    BY <1>3, <2>2
  <2>4. f[x] # f[line]
    BY <1>3, <2>1, <2>2, <2>3, LayoutInjective
  <2>5. InPair(x)
    BY <2>1, <2>2, <2>4 DEF FollowsInJumps
  <2> QED  BY <2>1, <2>5 DEF InPair
<1>4. ASSUME NEW x, NEW y, PairedBy(x, y)
      PROVE  /\ address[x] \in Addresses /\ address[y] \in Addresses
             /\ address[x] = address[y] + Half
             /\ store[address[x]] = x /\ store[address[y]] = y
  BY <1>4, LayoutInStore DEF PairedBy, AreTargets, NothingOutside, Consistent
\* So that partner is the one of the line.
<1>5. ASSUME NEW x, NEW y, PairedBy(x, y), address[x] = f[line1] \/ address[y] = f[line1]
      PROVE  address[y] = f[line2]
  BY <1>2, <1>4, <1>5, HalfAssumption DEF Addresses
<1>6. ASSUME NEW x, NEW y, PairedBy(x, y), address[x] = f[line2] \/ address[y] = f[line2]
      PROVE  address[x] = f[line1]
  BY <1>2, <1>4, <1>6, HalfAssumption DEF Addresses
<1>7. ASSUME LaidOut(line1), ~LaidOut(line2)
      PROVE  f[line1] = address[line1] /\ store[f[line2]] = None
  <2>1. ~InPair(line1)
    BY <1>7, NotYetInPair
  <2>2. f[line1] = address[line1] /\ store[address[line1]] = line1
    BY <1>1, <1>7, <2>1, LayoutInStore DEF FollowsInJumps, Consistent
  <2>3. ASSUME store[f[line2]] # None
        PROVE  FALSE
    <3>1. PICK x, y : PairedBy(x, y) /\ (address[x] = f[line2] \/ address[y] = f[line2])
      BY <1>1, <1>2, <1>3, <1>7, <2>3
    <3>2. x = line1
      BY <1>4, <1>6, <2>2, <3>1
    <3> QED  BY <2>1, <3>1, <3>2 DEF InPair, PairedBy, AreTargets
  <2> QED  BY <2>2, <2>3
<1>8. ASSUME LaidOut(line2), ~LaidOut(line1)
      PROVE  f[line2] = address[line2] /\ store[f[line1]] = None
  <2>1. ~InPair(line2)
    BY <1>8, NotYetInPair
  <2>2. f[line2] = address[line2] /\ store[address[line2]] = line2
    BY <1>1, <1>8, <2>1, LayoutInStore DEF FollowsInJumps, Consistent
  <2>3. ASSUME store[f[line1]] # None
        PROVE  FALSE
    <3>1. PICK x, y : PairedBy(x, y) /\ (address[x] = f[line1] \/ address[y] = f[line1])
      BY <1>1, <1>2, <1>3, <1>8, <2>3
    <3>2. y = line2
      BY <1>4, <1>5, <2>2, <3>1
    <3> QED  BY <2>1, <3>1, <3>2 DEF InPair, PairedBy, AreTargets
  <2> QED  BY <2>2, <2>3
<1> QED  BY <1>7, <1>8

\* Two lines that f has in one pair of words are in one.
Low(a) == IF a < Half THEN a ELSE a - Half

LEMMA SamePair ==
  ASSUME NothingOutside, NEW f \in Layouts, Layout(f), FollowsInJumps(f),
         NEW x \in DOMAIN lines, LaidOut(x), lines[x].insns,
         NEW y \in DOMAIN lines, LaidOut(y), lines[y].insns,
         Low(f[x]) = Low(f[y])
  PROVE  Low(address[x]) = Low(address[y])
<1>1. CASE ~InPair(x) /\ ~InPair(y)
  BY <1>1 DEF FollowsInJumps
<1>2. CASE InPair(x) \/ InPair(y)
  <2>1. PICK u, v : PairedBy(u, v) /\ (x \in {u, v} \/ y \in {u, v})
    BY <1>2 DEF InPair
  <2>2. /\ f[u] = f[v] + Half /\ f[v] \in 0 .. Half - 1
        /\ u \in DOMAIN lines /\ lines[u].insns
        /\ v \in DOMAIN lines /\ lines[v].insns
    BY <2>1, LayoutOfTargets DEF PairedBy, AreTargets
  <2>3. Low(f[x]) = f[v] /\ Low(f[y]) = f[v]
    BY <2>1, <2>2, HalfAssumption DEF Low
  <2>4. f[x] \in Addresses /\ f[y] \in Addresses
    BY DEF Layouts
  <2>5. f[x] \in {f[u], f[v]} /\ f[y] \in {f[u], f[v]}
    BY <2>2, <2>3, <2>4, HalfAssumption DEF Low, Addresses
  <2>6. x \in {u, v} /\ y \in {u, v}
    BY <2>2, <2>5, LayoutInjective
  <2>7. /\ address[u] \in Addresses /\ address[v] \in Addresses
        /\ address[u] = address[v] + Half
    BY <2>1, <2>2, LayoutInStore DEF PairedBy, NothingOutside
  <2>8. Low(address[u]) = Low(address[v])
    BY <2>7, HalfAssumption DEF Low, Addresses
  <2> QED  BY <2>6, <2>8
<1> QED  BY <1>1, <1>2

\* While there are targets to lay out there is a free pair: were all taken, the
\* lines in them would have, one for each, the pairs that f has them in, and
\* none would be left for the two targets.
LEMMA PairIsLeft ==
  ASSUME TypeOK, NothingOutside, Exact, NEW f \in Layouts, Layout(f), FollowsInJumps(f),
         \A a \in 0 .. first - 1 : store[a] # None \/ store[a + Half] # None,
         NEW line1, NEW line2, AreTargets(line1, line2),
         ~LaidOut(line1), ~LaidOut(line2)
  PROVE  FreePairs(first) # {}
<1> SUFFICES ASSUME FreePairs(first) = {} PROVE FALSE  OBVIOUS
<1> DEFINE Taker(a) == IF store[a] # None THEN store[a] ELSE store[a + Half]
           g == [a \in 0 .. Half - 1 |-> Low(f[Taker(a)])]
<1>0. Half \in Nat \ {0} /\ first \in Nat
  BY HalfAssumption DEF TypeOK
<1>1. ASSUME NEW a \in 0 .. Half - 1
      PROVE  store[a] # None \/ store[a + Half] # None
  <2>1. a \notin FreePairs(first)
    OBVIOUS
  <2>2. a \in 0 .. first - 1 \/ a \in first .. Half - 1
    BY <1>0
  <2> QED  BY <2>1, <2>2 DEF FreePairs
<1>2. ASSUME NEW a \in 0 .. Half - 1
      PROVE  /\ Taker(a) \in DOMAIN lines /\ LaidOut(Taker(a))
             /\ lines[Taker(a)].insns
             /\ Low(address[Taker(a)]) = a
             /\ f[Taker(a)] \in Addresses
  <2>1. a \in Addresses /\ a + Half \in Addresses
    BY <1>0 DEF Addresses
  <2>2. PICK b \in {a, a + Half} : store[b] # None /\ Taker(a) = store[b]
    BY <1>1
  <2>3. store[b] \in DOMAIN lines /\ address[store[b]] = b /\ b \in Addresses
    BY <2>1, <2>2 DEF Exact, TypeOK
  <2>4. LaidOut(store[b])
    BY NowhereFacts, <1>0, <2>3 DEF LaidOut, Addresses
  <2>5. lines[store[b]].insns /\ f[store[b]] \in Addresses
    BY <2>3, <2>4 DEF Exact, Layouts
  <2>6. Low(b) = a
    BY <1>0, <2>2 DEF Low
  <2> QED  BY <2>2, <2>3, <2>4, <2>5, <2>6
<1> HIDE DEF Taker
<1>3. g \in [0 .. Half - 1 -> 0 .. Half - 1]
  <2>1. \A v \in Addresses : Low(v) \in 0 .. Half - 1
    BY <1>0 DEF Low, Addresses
  <2> QED  BY <1>2, <2>1
<1>4. \A a, b \in 0 .. Half - 1 : g[a] = g[b] => a = b
  <2> SUFFICES ASSUME NEW a \in 0 .. Half - 1, NEW b \in 0 .. Half - 1, g[a] = g[b]
               PROVE  a = b
    OBVIOUS
  <2>1. Low(f[Taker(a)]) = Low(f[Taker(b)])
    OBVIOUS
  <2>2. Low(address[Taker(a)]) = Low(address[Taker(b)])
    BY <1>2, <2>1, SamePair
  <2> QED  BY <1>2, <2>2
<1>5. /\ f[line1] = f[line2] + Half /\ f[line2] \in 0 .. Half - 1
      /\ line1 \in DOMAIN lines /\ lines[line1].insns
      /\ line2 \in DOMAIN lines /\ lines[line2].insns
  BY LayoutOfTargets DEF AreTargets
<1>6. PICK a \in 0 .. Half - 1 : g[a] = f[line2]
  <2>1. Half \in Nat
    BY <1>0
  <2> HIDE DEF g
  <2> QED  BY ZenonT(60), <1>3, <1>4, <1>5, <2>1, NothingLeftOut
<1>7. Low(f[Taker(a)]) = f[line2]
  BY <1>6
<1>8. f[Taker(a)] = f[line1] \/ f[Taker(a)] = f[line2]
  BY <1>0, <1>2, <1>5, <1>7 DEF Low, Addresses
<1>9. Taker(a) = line1 \/ Taker(a) = line2
  BY <1>2, <1>5, <1>8, LayoutInjective
<1> QED  BY <1>2, <1>9

LEMMA LeastIsBelow ==
  ASSUME NEW S \in SUBSET Nat, NEW x \in S
  PROVE  Least(S) <= x
BY LeastExists DEF Least

\* Every pair before the one found is taken, and in the third pass every word.
LEMMA PairIsFirst ==
  ASSUME TypeOK, FreePairs(first) # {},
         \A a \in 0 .. first - 1 : store[a] # None \/ store[a + Half] # None
  PROVE  \A a \in 0 .. Pair - 1 : store[a] # None \/ store[a + Half] # None
<1>1. FreePairs(first) \in SUBSET Nat /\ first \in Nat
  BY HalfAssumption DEF FreePairs, TypeOK
<1>2. Pair \in 0 .. Half - 1
  BY PairFound
<1>3. \A a \in FreePairs(first) : Pair <= a
  BY <1>1, LeastIsBelow DEF Pair
<1> QED  BY <1>1, <1>2, <1>3, HalfAssumption DEF FreePairs

LEMMA HoleIsFirst ==
  ASSUME TypeOK, Free(first, 2 * Half - 1) # {},
         \A a \in 0 .. first - 1 : store[a] # None
  PROVE  \A a \in 0 .. Hole - 1 : store[a] # None
<1>1. Free(first, 2 * Half - 1) \in SUBSET Nat /\ first \in Nat
  BY HalfAssumption DEF Free, TypeOK
<1>2. Hole \in 0 .. 2 * Half - 1
  BY HoleFound DEF Addresses
<1>3. \A a \in Free(first, 2 * Half - 1) : Hole <= a
  BY <1>1, LeastIsBelow DEF Hole
<1> QED  BY <1>1, <1>2, <1>3, HalfAssumption DEF Free

\* What a layout has goes on to be followed when a line is added.
LEMMA AddsFollows ==
  ASSUME TypeOK, lines' = lines, warnings = {}, NEW f, FollowsInJumps(f),
         NEW line, NEW a, Adds(line, a), f[line] = a
  PROVE  FollowsInJumps(f)'
<1>1. Keeps
  BY AddsKeeps
<1>2. \A n \in DOMAIN lines : address'[n] = IF n = line THEN a ELSE address[n]
  BY DEF Adds, Place, TypeOK
<1>3. ASSUME NEW n \in DOMAIN lines, LaidOut(n)'
      PROVE  f[n] = address'[n] \/ InPair(n)'
  <2>1. CASE n = line
    BY <1>2, <2>1
  <2>2. CASE n # line
    <3>1. address'[n] = address[n] /\ LaidOut(n)
      BY <1>2, <1>3, <2>2 DEF LaidOut
    <3> QED  BY <1>1, <3>1, PairsKept DEF FollowsInJumps
  <2> QED  BY <2>1, <2>2
<1> QED  BY <1>3 DEF FollowsInJumps

LEMMA AddsPairFollows ==
  ASSUME TypeOK, lines' = lines, warnings = {}, NEW f, FollowsInJumps(f),
         NEW line1, NEW line2, NEW a, AddsPair(line1, line2, a),
         line1 # line2, AreTargets(line1, line2)
  PROVE  FollowsInJumps(f)'
<1>1. Keeps
  BY AddsPairKeeps
<1>2. /\ line1 \in DOMAIN lines /\ line2 \in DOMAIN lines
      /\ a \in 0 .. Half - 1 /\ a + Half # Nowhere /\ a # Nowhere
  BY NowhereFacts, HalfAssumption DEF AddsPair
<1>3. \A n \in DOMAIN lines :
        address'[n] = IF n = line2 THEN a ELSE IF n = line1 THEN a + Half ELSE address[n]
  BY DEF AddsPair, TypeOK
<1>4. PairedBy(line1, line2)'
  <2>1. AreTargets(line1, line2)'
    BY SameLines DEF AreTargets
  <2>2. address'[line1] = a + Half /\ address'[line2] = a
    BY <1>2, <1>3
  <2> QED  BY <1>2, <2>1, <2>2 DEF PairedBy, LaidOut
<1>5. ASSUME NEW n \in DOMAIN lines, LaidOut(n)'
      PROVE  f[n] = address'[n] \/ InPair(n)'
  <2>1. CASE n \in {line1, line2}
    BY <1>2, <1>4, <2>1 DEF InPair
  <2>2. CASE n \notin {line1, line2}
    <3>1. address'[n] = address[n] /\ LaidOut(n)
      BY <1>3, <1>5, <2>2 DEF LaidOut
    <3> QED  BY <1>1, <3>1, PairsKept DEF FollowsInJumps
  <2> QED  BY <2>1, <2>2
<1> QED  BY <1>5 DEF FollowsInJumps

\* The steps of the second pass at an `if' whose targets are there.
LEMMA BothLaidOutFollows ==
  ASSUME TypeInv, Solvable, NEW f \in Layouts, Layout(f), Follows(f), BothLaidOut
  PROVE  Follows(f)'
<1>1. AtIf /\ Targets /\ pass = "jumps" /\ LaidOut(Target1) /\ LaidOut(Target2)
  BY DEF BothLaidOut, AtIf
<1>2. FollowsInJumps(f) /\ warnings = {} /\ Exact /\ first <= Half
      /\ \A a \in 0 .. first - 1 : store[a] # None \/ store[a + Half] # None
  BY <1>1 DEF Follows
<1>3. address[Target1] = address[Target2] + Half
  BY <1>1, <1>2, AtTargets, BothAreRight DEF TypeInv
<1>4. warnings' = {} /\ pass' = "jumps"
      /\ UNCHANGED <<lines, store, address, first>>
  BY <1>1, <1>2, <1>3 DEF BothLaidOut, Warn, Step, PlaceNothing
<1>5. Exact' /\ FollowsInJumps(f)'
  <2>1. \A name : Lookup(name)' = Lookup(name)
    BY <1>4, SameLines
  <2> QED  BY <1>2, <1>4, <2>1
           DEF Exact, FollowsInJumps, LaidOut, InPair, PairedBy, AreTargets
<1> QED  BY <1>2, <1>4, <1>5 DEF Follows

LEMMA OneLaidOutFollows ==
  ASSUME TypeInv, Consistent, Solvable, NEW f \in Layouts, Layout(f), Follows(f),
         TrueLaidOut \/ FalseLaidOut
  PROVE  Follows(f)'
<1>0. TypeOK /\ NothingOutside
  BY DEF TypeInv
<1>1. AtIf /\ Targets /\ pass = "jumps"
  BY DEF TrueLaidOut, FalseLaidOut, AtIf
<1>2. FollowsInJumps(f) /\ warnings = {} /\ Exact /\ first <= Half
      /\ \A a \in 0 .. first - 1 : store[a] # None \/ store[a + Half] # None
  BY <1>1 DEF Follows
<1>3. AreTargets(Target1, Target2)
  BY <1>1, AtTargets
<1>4. /\ f[Target1] = f[Target2] + Half /\ f[Target2] \in 0 .. Half - 1
      /\ Target1 \in DOMAIN lines /\ lines[Target1].insns
      /\ Target2 \in DOMAIN lines /\ lines[Target2].insns
  BY <1>3, LayoutOfTargets DEF AreTargets
<1>5. /\ LaidOut(Target1) /\ ~LaidOut(Target2) =>
           f[Target1] = address[Target1] /\ store[f[Target2]] = None
      /\ LaidOut(Target2) /\ ~LaidOut(Target1) =>
           f[Target2] = address[Target2] /\ store[f[Target1]] = None
  BY <1>0, <1>2, <1>3, OtherIsFree
<1>6. pass' = "jumps" /\ lines' = lines /\ first' = first
  BY <1>1 DEF TrueLaidOut, FalseLaidOut, Step
<1>7. PICK line \in DOMAIN lines :
        lines[line].insns /\ Adds(line, f[line]) /\ warnings' = {}
  <2>1. CASE TrueLaidOut
    <3>1. /\ address[Target1] - Half = f[Target2] /\ ~(f[Target2] < 0)
          /\ store[f[Target2]] = None /\ f[Target2] \in Addresses
      BY <1>4, <1>5, <2>1, HalfAssumption DEF TrueLaidOut, Addresses
    <3>2. Adds(Target2, f[Target2]) /\ warnings' = {}
      BY <1>2, <1>4, <2>1, <3>1 DEF TrueLaidOut, Adds, Warn
    <3> QED  BY <1>4, <3>2
  <2>2. CASE FalseLaidOut
    <3>1. /\ address[Target2] + Half = f[Target1] /\ ~(f[Target1] >= 2 * Half)
          /\ store[f[Target1]] = None /\ f[Target1] \in Addresses
      BY <1>4, <1>5, <2>2, HalfAssumption DEF FalseLaidOut, Addresses
    <3>2. Adds(Target1, f[Target1]) /\ warnings' = {}
      BY <1>2, <1>4, <2>2, <3>1 DEF FalseLaidOut, Adds, Warn
    <3> QED  BY <1>4, <3>2
  <2> QED  BY <2>1, <2>2
<1>8. Exact' /\ FollowsInJumps(f)' /\ Keeps
  BY <1>0, <1>2, <1>6, <1>7, AddsExact, AddsFollows, AddsKeeps
<1>9. \A a \in 0 .. first - 1 : store'[a] # None \/ store'[a + Half] # None
  <2>1. \A a \in 0 .. first - 1 : a \in Addresses /\ a + Half \in Addresses
    BY <1>0, <1>2, HalfAssumption DEF Addresses, TypeOK
  <2> QED  BY <1>2, <1>8, <2>1 DEF Keeps
<1> QED  BY <1>2, <1>6, <1>7, <1>8, <1>9 DEF Follows

LEMMA NoneLaidOutFollows ==
  ASSUME TypeInv, Solvable, NEW f \in Layouts, Layout(f), Follows(f), NoneLaidOut
  PROVE  Follows(f)'
<1>0. TypeOK /\ NothingOutside
  BY DEF TypeInv
<1>1. AtIf /\ Targets /\ pass = "jumps" /\ ~LaidOut(Target1) /\ ~LaidOut(Target2)
  BY DEF NoneLaidOut, AtIf
<1>2. FollowsInJumps(f) /\ warnings = {} /\ Exact
      /\ \A a \in 0 .. first - 1 : store[a] # None \/ store[a + Half] # None
  BY <1>1 DEF Follows
<1>3. AreTargets(Target1, Target2) /\ Target1 # Target2
  BY <1>1, AtTargets
<1>4. FreePairs(first) # {}
  BY <1>0, <1>1, <1>2, <1>3, PairIsLeft
<1>5. /\ Pair \in 0 .. Half - 1 /\ store[Pair] = None /\ store[Pair + Half] = None
      /\ \A a \in 0 .. Pair - 1 : store[a] # None \/ store[a + Half] # None
  BY <1>0, <1>2, <1>4, PairFound, PairIsFirst
<1>6. /\ Target1 \in DOMAIN lines /\ lines[Target1].insns
      /\ Target2 \in DOMAIN lines /\ lines[Target2].insns
  BY <1>3 DEF AreTargets
<1>7. /\ AddsPair(Target1, Target2, Pair)
      /\ warnings' = {} /\ pass' = "jumps" /\ lines' = lines /\ first' = Pair + 1
  BY <1>1, <1>2, <1>4, <1>5, <1>6 DEF NoneLaidOut, AddsPair, Warn, Step
<1>8. Exact' /\ FollowsInJumps(f)' /\ Keeps
  BY <1>0, <1>2, <1>3, <1>6, <1>7, AddsPairExact, AddsPairFollows, AddsPairKeeps
<1>9. ASSUME NEW a \in 0 .. Pair
      PROVE  store'[a] # None \/ store'[a + Half] # None
  <2>1. a \in Addresses /\ a + Half \in Addresses /\ Pair \in Addresses /\ a # Pair + Half
    BY <1>5, HalfAssumption DEF Addresses
  <2>2. CASE a = Pair
    <3>1. store'[a] = Target2
      BY <1>0, <1>7, <2>1, <2>2 DEF AddsPair, TypeOK
    <3> QED  BY <1>0, <1>6, <3>1 DEF TypeOK, None
  <2>3. CASE a # Pair
    <3>1. a \in 0 .. Pair - 1
      BY <1>5, <2>3
    <3> QED  BY <1>5, <1>8, <2>1, <3>1 DEF Keeps
  <2> QED  BY <2>2, <2>3
<1>10. first' <= Half /\ \A a \in 0 .. first' - 1 : a \in 0 .. Pair
  BY <1>5, <1>7, HalfAssumption
<1> QED  BY <1>7, <1>8, <1>9, <1>10 DEF Follows
-----------------------------------------------------------------------------
(* The third pass. *)

\* While there is a line to place there is a hole: the lines that fill a store
\* have all its words in f, so that there is no word for one more.
LEMMA HoleIsLeft ==
  ASSUME TypeOK, Exact, NEW f \in Layouts, Layout(f),
         \A a \in 0 .. first - 1 : store[a] # None,
         NEW line \in DOMAIN lines, lines[line].insns, ~LaidOut(line)
  PROVE  Free(first, 2 * Half - 1) # {}
<1> SUFFICES ASSUME Free(first, 2 * Half - 1) = {} PROVE FALSE  OBVIOUS
<1> DEFINE N == 2 * Half
           g == [a \in 0 .. N - 1 |-> f[store[a]]]
<1>0. Half \in Nat \ {0} /\ N \in Nat /\ first \in Nat /\ Addresses = 0 .. N - 1
  BY HalfAssumption DEF TypeOK, Addresses
<1>1. ASSUME NEW a \in 0 .. N - 1
      PROVE  store[a] # None
  <2>1. a \notin Free(first, N - 1)
    OBVIOUS
  <2>2. a \in 0 .. first - 1 \/ a \in first .. N - 1
    BY <1>0
  <2> QED  BY <2>1, <2>2 DEF Free
<1>2. ASSUME NEW a \in 0 .. N - 1
      PROVE  /\ store[a] \in DOMAIN lines /\ LaidOut(store[a])
             /\ lines[store[a]].insns /\ address[store[a]] = a
             /\ f[store[a]] \in 0 .. N - 1
  <2>1. store[a] \in DOMAIN lines /\ address[store[a]] = a
    BY <1>0, <1>1 DEF Exact, TypeOK
  <2>2. LaidOut(store[a])
    BY NowhereFacts, <1>0, <2>1 DEF LaidOut
  <2>3. lines[store[a]].insns
    BY <2>1, <2>2 DEF Exact
  <2> QED  BY <1>0, <2>1, <2>2, <2>3 DEF Layouts
<1>3. g \in [0 .. N - 1 -> 0 .. N - 1]
  BY <1>2
<1>4. \A a, b \in 0 .. N - 1 : g[a] = g[b] => a = b
  <2> SUFFICES ASSUME NEW a \in 0 .. N - 1, NEW b \in 0 .. N - 1, g[a] = g[b]
               PROVE  a = b
    OBVIOUS
  <2>1. f[store[a]] = f[store[b]]
    OBVIOUS
  <2>2. store[a] = store[b]
    BY <1>2, <2>1, LayoutInjective
  <2> QED  BY <1>2, <2>2
<1>5. f[line] \in 0 .. N - 1
  BY <1>0 DEF Layouts
<1>6. PICK a \in 0 .. N - 1 : g[a] = f[line]
  <2> HIDE DEF g
  <2>1. N \in Nat
    BY <1>0
  <2> HIDE DEF N
  <2> QED  BY ZenonT(60), <1>3, <1>4, <1>5, <2>1, NothingLeftOut
<1>7. f[store[a]] = f[line]
  BY <1>6
<1>8. store[a] = line
  BY <1>2, <1>7, LayoutInjective
<1> QED  BY <1>2, <1>8

LEMMA RestFollows ==
  ASSUME TypeInv, NEW f \in Layouts, Layout(f), Follows(f), Rest
  PROVE  Follows(f)'
<1>0. /\ TypeOK /\ lines \in Seq(Lines) /\ Len(lines) \in Nat
      /\ DOMAIN lines = 1 .. Len(lines)
  BY DEF TypeInv, TypeOK
<1>1. pass = "rest" /\ at \in DOMAIN lines /\ lines[at].insns /\ ~LaidOut(at)
  BY <1>0 DEF Rest, AtRest, TypeOK
<1>2. warnings = {} /\ Exact /\ \A a \in 0 .. first - 1 : store[a] # None
  BY <1>1 DEF Follows
<1>3. Free(first, 2 * Half - 1) # {}
  BY <1>0, <1>1, <1>2, HoleIsLeft
<1>4. /\ Hole \in Addresses /\ store[Hole] = None
      /\ \A a \in 0 .. Hole - 1 : store[a] # None
  BY <1>0, <1>2, <1>3, HoleFound, HoleIsFirst
<1>5. /\ Adds(at, Hole) /\ warnings' = {} /\ pass' = "rest" /\ lines' = lines
      /\ first' = Hole + 1
  BY <1>1, <1>2, <1>3, <1>4 DEF Rest, Adds, Warn, Step
<1>6. Exact' /\ Keeps
  BY <1>0, <1>1, <1>2, <1>5, AddsExact, AddsKeeps
<1>7. ASSUME NEW a \in 0 .. Hole
      PROVE  store'[a] # None
  <2>1. a \in Addresses
    BY <1>4, HalfAssumption DEF Addresses
  <2>2. CASE a = Hole
    <3>1. store'[a] = at
      BY <1>0, <1>5, <2>1, <2>2 DEF Adds, Place, TypeOK
    <3> QED  BY <1>0, <1>1, <3>1 DEF None
  <2>3. CASE a # Hole
    <3>1. a \in 0 .. Hole - 1
      BY <1>4, <2>3, HalfAssumption DEF Addresses
    <3> QED  BY <1>4, <1>6, <2>1, <3>1 DEF Keeps
  <2> QED  BY <2>2, <2>3
<1>8. \A a \in 0 .. first' - 1 : a \in 0 .. Hole
  BY <1>4, <1>5, HalfAssumption DEF Addresses
<1> QED  BY <1>5, <1>6, <1>7, <1>8 DEF Follows
-----------------------------------------------------------------------------
(* All passes. *)

LEMMA SameLayouts ==
  ASSUME lines' = lines
  PROVE  Layouts' = Layouts /\ \A f : Layout(f)' = Layout(f)
<1>1. \A f : Layout(f)' = Layout(f)
  BY SameLines DEF Layout
<1> QED  BY <1>1 DEF Layouts, Addresses

LEMMA StaysSolvable ==
  ASSUME [Next]_vars, Solvable'
  PROVE  lines' = lines /\ Solvable
<1>1. lines' = lines /\ warnings \subseteq warnings'
      /\ (pass = "crashed" => pass' = "crashed")
  BY DEF Next, NotAbsolute, AbsoluteOutOfRange, Absolute, AbsoluteOutside, AtLabel,
     AbsoluteCrashes, NoIf, UndefinedTarget, BothLaidOut, TrueLaidOut,
     FalseLaidOut, FalseLaidOutOutside, JumpCrashes, OtherOutside, NoneLaidOut, AtIf, Rest, NothingLeft, AtRest, NextPass,
     Finished, Warn, vars
<1>2. warnings \intersect {"undefined", "range"} = {}
  BY <1>1 DEF Solvable
<1>3. \A n \in DOMAIN lines :
        /\ IsAbsolute(n) => Alone(n)
        /\ lines[n].label1 # NoLabel =>
             Lookup(lines[n].label1) # Lookup(lines[n].label2)
  BY <1>1, SameLines DEF Solvable
<1> QED  BY <1>1, <1>2, <1>3 DEF Solvable

\* A step that places nothing and warns of nothing follows on.
LEMMA NothingNewFollows ==
  ASSUME NEW f, Follows(f), UNCHANGED <<lines, store, address, warnings>>,
         \/ UNCHANGED <<pass, first>>
         \/ pass = "absolutes" /\ pass' = "jumps" /\ first' = 0
         \/ pass = "jumps" /\ pass' = "rest" /\ first' = 0
         \/ pass' \in {"done", "crashed"}
  PROVE  Follows(f)'
<1>1. warnings' = {} /\ Exact'
  BY DEF Follows, Exact, LaidOut
<1>2. FollowsInJumps(f) => FollowsInJumps(f)'
  BY SameLines DEF FollowsInJumps, LaidOut, InPair, PairedBy, AreTargets
<1>3. (\A line \in DOMAIN lines : LaidOut(line) => f[line] = address[line])
        => FollowsInJumps(f)
  BY DEF FollowsInJumps
<1>4. 0 <= Half /\ \A a : a \notin 0 .. 0 - 1
  BY HalfAssumption
<1>5. CASE UNCHANGED <<pass, first>>
  BY <1>1, <1>2, <1>5 DEF Follows, LaidOut
<1>6. CASE pass = "absolutes" /\ pass' = "jumps" /\ first' = 0
  BY <1>1, <1>2, <1>3, <1>4, <1>6 DEF Follows
<1>7. CASE pass = "jumps" /\ pass' = "rest" /\ first' = 0
  BY <1>1, <1>4, <1>7 DEF Follows
<1>8. CASE pass' \in {"done", "crashed"}
  BY <1>1, <1>8 DEF Follows
<1> QED  BY <1>5, <1>6, <1>7, <1>8

LEMMA StepSolved ==
  ASSUME LayoutInv, SolvedInv, [Next]_vars
  PROVE  SolvedInv'
<1> SUFFICES ASSUME Solvable', NEW f \in Layouts', Layout(f)'
             PROVE  Follows(f)'
  BY DEF SolvedInv
<1>1. lines' = lines /\ Solvable
  BY StaysSolvable
<1>2. f \in Layouts /\ Layout(f)
  BY <1>1, SameLayouts
<1>3. Follows(f) /\ TypeInv /\ Consistent /\ OnlyAbsolutes
  BY <1>1, <1>2 DEF SolvedInv, LayoutInv
<1>4. CASE NotAbsolute \/ NoIf \/ NothingLeft
  <2>1. UNCHANGED <<lines, store, address, warnings, pass, first>>
    BY <1>4 DEF NotAbsolute, NoIf, NothingLeft, PlaceNothing, Warn, Step
  <2> QED  BY <1>3, <2>1, NothingNewFollows
<1>5. CASE AbsoluteOutOfRange \/ UndefinedTarget
  BY <1>5 DEF AbsoluteOutOfRange, UndefinedTarget, Warn, Solvable
<1>6. CASE AbsoluteCrashes
  BY <1>6 DEF AbsoluteCrashes, Solvable
<1>7. CASE Absolute
  BY <1>1, <1>2, <1>3, <1>7, AbsoluteFollows
<1>8. CASE BothLaidOut
  BY <1>1, <1>2, <1>3, <1>8, BothLaidOutFollows
<1>9. CASE TrueLaidOut \/ FalseLaidOut
  BY <1>1, <1>2, <1>3, <1>9, OneLaidOutFollows
<1>10. CASE NoneLaidOut
  BY <1>1, <1>2, <1>3, <1>10, NoneLaidOutFollows
<1>11. CASE Rest
  BY <1>2, <1>3, <1>11, RestFollows
<1>12. CASE NextPass
  BY <1>3, <1>12, NothingNewFollows DEF NextPass
<1>13. CASE UNCHANGED vars
  BY <1>3, <1>13, NothingNewFollows DEF vars
<1>14. ~AbsoluteOutside /\ ~FalseLaidOutOutside /\ ~JumpCrashes
  BY <1>2, <1>3, LayoutInStore, StaysInside DEF FalseLaidOutOutside, JumpCrashes
<1> QED
  BY <1>4, <1>5, <1>6, <1>7, <1>8, <1>9, <1>10, <1>11, <1>12, <1>13, <1>14 DEF Next, Finished

\* The greedy passes give up only on a microprogram that no layout satisfies,
\* whatever its labels and branches and however large the store is
\* (mic1-layout.c): the order in which they place the lines costs no layout.
THEOREM GivesUpOnlyWithoutLayout == Spec => []FailsOnlyWithoutLayout
<1>1. Init => SolvedInv
  <2> SUFFICES ASSUME Init, NEW f \in Layouts PROVE Follows(f)
    BY DEF SolvedInv
  <2>1. /\ pass = "absolutes" /\ warnings = {}
        /\ \A n \in DOMAIN lines : ~LaidOut(n)
        /\ \A a \in Addresses : store[a] = None
    BY DEF Init, LaidOut
  <2> QED  BY <2>1 DEF Follows, Exact
<1>2. LayoutInv /\ LayoutInv' /\ SolvedInv /\ [Next]_vars => SolvedInv'
  BY StepSolved
<1>3. SolvedInv => FailsOnlyWithoutLayout
  BY DEF SolvedInv, Solvable, Follows, Layouts, FailsOnlyWithoutLayout
<1> QED  BY <1>1, <1>2, <1>3, LayoutInvariant, PTL DEF Spec
=============================================================================
