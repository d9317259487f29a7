------------------------ MODULE IJVMRefinementProofs ------------------------
(***************************************************************************)
(* The interpreter of src/ijvm.c is the call machine of CallMachine, for   *)
(* every size of memory and every lawful program.                          *)
(*                                                                         *)
(* The frames are read out of the one stack along the link pointers in     *)
(* `calls'.  A step of an opcode writes to one place of one frame, which   *)
(* the chain of frames keeps apart from the others: the words of the       *)
(* others are the same words before and after, and those of the one are    *)
(* what the opcode of the call machine says.                               *)
(***************************************************************************)
EXTENDS IJVMProofs, WellFoundedInduction

-----------------------------------------------------------------------------
(* Frames as places of a memory. *)

\* The words of memory m from one address to another, if it is not below.
WordsOfMemory(m, from, to) ==
  IF to < from THEN <<>> ELSE [i \in 1 .. to - from + 1 |-> m[from + i - 1]]

\* Method n of those whose link pointers are in c, when memory is m, the image
\* ends at floor and the frame at top, and next is the method's next opcode.
FrameIn(floor, m, c, n, top, next) ==
  IF n = 0
  THEN [pc |-> next, locals |-> <<>>, stack |-> WordsOfMemory(m, floor + 1, top)]
  ELSE [pc |-> next, locals |-> WordsOfMemory(m, c[n] + 1, m[c[n]] - 1),
        stack |-> WordsOfMemory(m, m[c[n]] + 2, top)]

\* A method that has called another: c[i] is the other's link pointer.
CallerIn(floor, m, c, i) ==
  FrameIn(floor, m, c, i - 1, c[i] - 1, ToUWord(m[m[c[i]]]))

\* The words of a place.
LEMMA MemoryWords ==
  ASSUME NEW m, NEW from \in Int, NEW to \in Int, from <= to + 1
  PROVE  /\ WordsOfMemory(m, from, to) = [i \in 1 .. to - from + 1 |-> m[from + i - 1]]
         /\ Len(WordsOfMemory(m, from, to)) = to - from + 1
         /\ DOMAIN WordsOfMemory(m, from, to) = 1 .. to - from + 1
         /\ \A i \in 1 .. to - from + 1 : WordsOfMemory(m, from, to)[i] = m[from + i - 1]
         /\ WordsOfMemory(m, from, to) = <<>> <=> to < from
<1>1. CASE to < from
  <2>1. WordsOfMemory(m, from, to) = <<>> /\ to - from + 1 = 0 /\ 1 .. to - from + 1 = {}
    BY <1>1 DEF WordsOfMemory
  <2>2. [i \in 1 .. to - from + 1 |-> m[from + i - 1]] = <<>>
    BY <2>1
  <2> QED  BY <1>1, <2>1, <2>2
<1>2. CASE ~(to < from)
  <2>1. WordsOfMemory(m, from, to) = [i \in 1 .. to - from + 1 |-> m[from + i - 1]]
        /\ to - from + 1 \in Nat /\ to - from + 1 # 0
    BY <1>2 DEF WordsOfMemory
  <2>2. Len(WordsOfMemory(m, from, to)) = to - from + 1
    BY <2>1
  <2> QED  BY <1>2, <2>1, <2>2
<1> QED  BY <1>1, <1>2

\* Two memories with the same words in a place.
LEMMA SamePlace ==
  ASSUME NEW m, NEW n, NEW from \in Int, NEW to \in Int, \A w \in from .. to : n[w] = m[w]
  PROVE  WordsOfMemory(n, from, to) = WordsOfMemory(m, from, to)
<1>1. CASE to < from
  BY <1>1 DEF WordsOfMemory
<1>2. CASE ~(to < from)
  <2>1. \A i \in 1 .. to - from + 1 : n[from + i - 1] = m[from + i - 1]
    OBVIOUS
  <2> QED  BY <1>2, <2>1 DEF WordsOfMemory
<1> QED  BY <1>1, <1>2

\* The first words of a place, and others after them.
LEMMA PlacePrefix ==
  ASSUME NEW m \in [Address -> Word], NEW from \in Int, NEW to \in Int, NEW k \in Nat,
         from <= to + 1, k <= to - from + 1, \A w \in from .. to : w \in Address
  PROVE  /\ WordsOfMemory(m, from, to) \in Seq(Word)
         /\ SubSeq(WordsOfMemory(m, from, to), 1, k) = WordsOfMemory(m, from, from + k - 1)
<1> DEFINE s == WordsOfMemory(m, from, to)
           t == WordsOfMemory(m, from, from + k - 1)
<1>1. /\ s = [i \in 1 .. to - from + 1 |-> m[from + i - 1]]
      /\ Len(s) = to - from + 1 /\ DOMAIN s = 1 .. to - from + 1
      /\ \A i \in 1 .. to - from + 1 : s[i] = m[from + i - 1]
  BY MemoryWords
<1>2. (from + k - 1) - from + 1 = k /\ from <= (from + k - 1) + 1 /\ from + k - 1 \in Int
  OBVIOUS
<1>3. t = [i \in 1 .. k |-> m[from + i - 1]]
  BY <1>2, MemoryWords
<1>4. s \in Seq(Word)
  <2>1. \A i \in 1 .. to - from + 1 : m[from + i - 1] \in Word
    OBVIOUS
  <2>2. to - from + 1 \in Nat
    OBVIOUS
  <2> QED  BY <1>1, <2>1, <2>2
<1> HIDE DEF s, t
<1>5. \A q \in Nat : q <= Len(s) => SubSeq(s, 1, q) \in Seq(Word) /\ Len(SubSeq(s, 1, q)) = q
         /\ DOMAIN SubSeq(s, 1, q) = 1 .. q /\ \A i \in 1 .. q : SubSeq(s, 1, q)[i] = s[i]
  BY <1>4, Prefix
<1>6. /\ SubSeq(s, 1, k) \in Seq(Word) /\ DOMAIN SubSeq(s, 1, k) = 1 .. k
      /\ \A i \in 1 .. k : SubSeq(s, 1, k)[i] = m[from + i - 1]
  BY SMTT(60), <1>1, <1>5
<1>7. SubSeq(s, 1, k) = t
  BY <1>3, <1>6
<1> QED  BY <1>4, <1>7 DEF s, t

\* The concatenation of two sequences of words, position by position.
LEMMA ConcatIs ==
  ASSUME NEW p \in Seq(Word), NEW s \in Seq(Word), NEW l, l = Len(p)
  PROVE  /\ p \o s \in Seq(Word) /\ Len(p \o s) = l + Len(s)
         /\ \A i \in 1 .. l + Len(s) : (p \o s)[i] = IF i <= l THEN p[i] ELSE s[i - l]
<1>1. p \o s \in Seq(Word) /\ Len(p \o s) = Len(p) + Len(s) /\ Len(p) \in Nat /\ Len(s) \in Nat
  OBVIOUS
<1>2. ASSUME NEW i \in 1 .. Len(p) + Len(s)
      PROVE  (p \o s)[i] = IF i <= Len(p) THEN p[i] ELSE s[i - Len(p)]
  OBVIOUS
<1> QED  BY <1>1, <1>2

\* A place and the words written above it are one place.
LEMMA PlaceConcat ==
  ASSUME NEW m \in [Address -> Word], NEW n \in [Address -> Word],
         NEW from \in Int, NEW to \in Int, from <= to + 1, NEW s \in Seq(Word),
         \A w \in from .. to : w \in Address /\ n[w] = m[w],
         \A k \in 1 .. Len(s) : n[to + k] = s[k]
  PROVE  WordsOfMemory(m, from, to) \o s = WordsOfMemory(n, from, to + Len(s))
<1> DEFINE p == WordsOfMemory(m, from, to)
           q == WordsOfMemory(n, from, to + Len(s))
           l == to - from + 1
<1>1. l \in Nat /\ Len(s) \in Nat
  OBVIOUS
<1>2. p \in Seq(Word) /\ Len(p) = l /\ \A i \in 1 .. l : p[i] = m[from + i - 1]
  BY <1>1, PlacePrefix, MemoryWords
<1>3. /\ to + Len(s) \in Int /\ (to + Len(s)) - from + 1 = l + Len(s)
      /\ from <= (to + Len(s)) + 1
  BY <1>1
<1>4. q = [i \in 1 .. l + Len(s) |-> n[from + i - 1]]
  <2>1. \A e \in Int : from <= e + 1
          => WordsOfMemory(n, from, e) = [i \in 1 .. e - from + 1 |-> n[from + i - 1]]
    BY MemoryWords
  <2>2. q = [i \in 1 .. (to + Len(s)) - from + 1 |-> n[from + i - 1]]
    BY <1>3, <2>1
  <2> QED  BY <1>3, <2>2
<1>5. p \o s \in Seq(Word) /\ Len(p \o s) = l + Len(s)
      /\ \A i \in 1 .. l + Len(s) : (p \o s)[i] = IF i <= l THEN p[i] ELSE s[i - l]
  <2> HIDE DEF p, l
  <2> QED  BY <1>2, ConcatIs
<1>6. ASSUME NEW i \in 1 .. l + Len(s) PROVE (p \o s)[i] = n[from + i - 1]
  <2>1. CASE i <= l
    <3>1. (p \o s)[i] = m[from + i - 1] /\ from + i - 1 \in from .. to
      BY <1>1, <1>2, <1>5, <2>1
    <3> QED  BY <3>1
  <2>2. CASE ~(i <= l)
    <3>1. (p \o s)[i] = s[i - l] /\ i - l \in 1 .. Len(s) /\ to + (i - l) = from + i - 1
      BY <1>1, <1>5, <2>2
    <3> QED  BY <3>1
  <2> QED  BY <2>1, <2>2
<1>7. DOMAIN (p \o s) = 1 .. l + Len(s)
  BY <1>5
<1> HIDE DEF p, q, l
<1>8. p \o s = q
  <2>1. \A f \in Seq(Word) : f = [i \in DOMAIN f |-> f[i]]
    OBVIOUS
  <2> QED  BY <1>4, <1>5, <1>6, <1>7, <2>1
<1> QED  BY <1>8 DEF p, q

-----------------------------------------------------------------------------
(* The frames that the interpreter keeps, before and after a step. *)

\* They are the places of the methods in `calls'.
LEMMA FramesAre ==
  ASSUME calls \in Seq(Address), calls' \in Seq(Address)
  PROVE  /\ DOMAIN Frames = 1 .. Len(calls) + 1 /\ Len(Frames) = Len(calls) + 1
         /\ \A i \in 1 .. Len(calls) :
               Frames[i] = CallerIn(InitialSp(program), mem, calls, i)
         /\ Frames[Len(calls) + 1] = FrameIn(InitialSp(program), mem, calls, Len(calls), sp, pc)
         /\ DOMAIN Frames' = 1 .. Len(calls') + 1 /\ Len(Frames') = Len(calls') + 1
         /\ \A i \in 1 .. Len(calls') :
               Frames'[i] = CallerIn(InitialSp(program'), mem', calls', i)
         /\ Frames'[Len(calls') + 1]
              = FrameIn(InitialSp(program'), mem', calls', Len(calls'), sp', pc')
<1>1. /\ Len(calls) \in Nat /\ Len(calls') \in Nat
      /\ \A i \in 1 .. Len(calls) : i - 1 \in Nat /\ i - 1 # Len(calls) /\ (i - 1) + 1 = i
      /\ \A i \in 1 .. Len(calls') : i - 1 \in Nat /\ i - 1 # Len(calls') /\ (i - 1) + 1 = i
      /\ (Len(calls) + 1) - 1 = Len(calls) /\ (Len(calls') + 1) - 1 = Len(calls')
  OBVIOUS
<1>2. /\ Frames = [i \in 1 .. Len(calls) + 1 |-> FrameOf(i - 1)]
      /\ Frames' = [i \in 1 .. Len(calls') + 1 |-> FrameOf(i - 1)']
  BY DEF Frames, Depth
<1>3. /\ DOMAIN Frames = 1 .. Len(calls) + 1 /\ Len(Frames) = Len(calls) + 1
      /\ \A i \in 1 .. Len(calls) + 1 : Frames[i] = FrameOf(i - 1)
      /\ DOMAIN Frames' = 1 .. Len(calls') + 1 /\ Len(Frames') = Len(calls') + 1
      /\ \A i \in 1 .. Len(calls') + 1 : Frames'[i] = FrameOf(i - 1)'
  BY <1>1, <1>2
<1>4. ASSUME NEW n
      PROVE  /\ FrameOf(n) =
                  FrameIn(InitialSp(program), mem, calls, n,
                          IF n = Len(calls) THEN sp ELSE calls[n + 1] - 1,
                          IF n = Len(calls) THEN pc ELSE ToUWord(mem[mem[calls[n + 1]]]))
             /\ FrameOf(n)' =
                  FrameIn(InitialSp(program'), mem', calls', n,
                          IF n = Len(calls') THEN sp' ELSE calls'[n + 1] - 1,
                          IF n = Len(calls') THEN pc' ELSE ToUWord(mem'[mem'[calls'[n + 1]]]))
  BY Zenon DEF FrameOf, FrameIn, NextOf, TopOf, LinkOf, Depth, Slice, WordsOfMemory
<1>5. ASSUME NEW i \in 1 .. Len(calls)
      PROVE  Frames[i] = CallerIn(InitialSp(program), mem, calls, i)
  <2>1. Frames[i] = FrameOf(i - 1)
    BY <1>1, <1>3
  <2>2. FrameOf(i - 1) = FrameIn(InitialSp(program), mem, calls, i - 1, calls[i] - 1,
                                 ToUWord(mem[mem[calls[i]]]))
    BY Zenon, <1>1, <1>4
  <2> QED  BY <2>1, <2>2 DEF CallerIn
<1>6. ASSUME NEW i \in 1 .. Len(calls')
      PROVE  Frames'[i] = CallerIn(InitialSp(program'), mem', calls', i)
  <2>1. Frames'[i] = FrameOf(i - 1)'
    BY <1>1, <1>3
  <2>2. FrameOf(i - 1)' = FrameIn(InitialSp(program'), mem', calls', i - 1, calls'[i] - 1,
                                 ToUWord(mem'[mem'[calls'[i]]]))
    BY Zenon, <1>1, <1>4
  <2> QED  BY <2>1, <2>2 DEF CallerIn
<1>7. Frames[Len(calls) + 1] = FrameIn(InitialSp(program), mem, calls, Len(calls), sp, pc)
  BY <1>1, <1>3, <1>4
<1>8. Frames'[Len(calls') + 1]
        = FrameIn(InitialSp(program'), mem', calls', Len(calls'), sp', pc')
  BY <1>1, <1>3, <1>4
<1> QED  BY <1>3, <1>5, <1>6, <1>7, <1>8

\* A step that writes above the frame of the k-th method, or to its words but
\* the two that link it to its caller, changes no frame below it.
LEMMA CallersStay ==
  ASSUME program \in Programs, NEW m \in [Address -> Word], NEW n \in [Address -> Word],
         NEW c, NEW top, Chained(m, c, top), NEW k \in DOMAIN c, NEW d,
         \A j \in 1 .. k : d[j] = c[j],
         \A w \in Address : w <= c[k] \/ w = m[c[k]] => n[w] = m[w],
         NEW i \in 1 .. k
  PROVE  CallerIn(InitialSp(program), n, d, i) = CallerIn(InitialSp(program), m, c, i)
<1> DEFINE floor == InitialSp(program)
<1>1. /\ k \in Int /\ i \in Int /\ 1 <= i /\ i <= k /\ k <= Len(c) /\ i \in DOMAIN c
      /\ floor \in Nat /\ Len(c) \in Nat
  BY ChainFacts
<1>2. /\ c[k] \in Int /\ c[i] \in Int /\ c[i] \in Address /\ m[c[i]] \in Address
      /\ m[c[i]] \in Int /\ floor < c[i] /\ c[i] < m[c[i]]
  BY <1>1, ChainFacts
<1>3. c[i] <= c[k] /\ (i # k => m[c[i]] + 1 < c[k])
  <2>1. CASE i = k
    BY <1>2, <2>1
  <2>2. CASE i # k
    <3>1. m[c[i]] + 1 < c[k]
      BY <1>1, <2>2 DEF Chained
    <3> QED  BY <1>2, <3>1
  <2> QED  BY <2>1, <2>2
<1>4. n[c[i]] = m[c[i]] /\ n[m[c[i]]] = m[m[c[i]]] /\ d[i] = c[i]
  <2>1. m[c[i]] <= c[k] \/ m[c[i]] = m[c[k]]
    BY <1>2, <1>3
  <2> QED  BY <1>1, <1>2, <1>3, <2>1
<1>5. ASSUME NEW a \in Int, floor < a
      PROVE  WordsOfMemory(n, a, c[i] - 1) = WordsOfMemory(m, a, c[i] - 1)
  <2>1. ASSUME NEW w \in a .. c[i] - 1 PROVE n[w] = m[w]
    <3>1. w \in Int /\ 0 <= w /\ w <= c[i] /\ w <= c[k]
      BY <1>1, <1>2, <1>3, <1>5
    <3>2. w \in Address
      BY <1>2, <3>1, AddressBounds
    <3> QED  BY <3>1, <3>2
  <2>2. c[i] - 1 \in Int
    BY <1>2
  <2> QED  BY <2>1, <2>2, SamePlace
<1>6. CASE i = 1
  <2>1. i - 1 = 0 /\ floor + 1 \in Int /\ floor < floor + 1
    BY <1>1, <1>6
  <2> QED  BY <1>4, <1>5, <2>1 DEF CallerIn, FrameIn
<1>7. CASE i # 1
  <2> DEFINE h == i - 1
  <2>1. h \in Int /\ h \in DOMAIN c /\ h # 0 /\ h < i /\ h \in 1 .. k /\ h # k
    BY <1>1, <1>7
  <2>2. /\ c[h] \in Int /\ c[h] \in Address /\ m[c[h]] \in Int /\ m[c[h]] \in Address
        /\ floor < c[h] /\ c[h] < m[c[h]]
    BY <2>1, ChainFacts
  <2>3. m[c[h]] + 1 < c[i] /\ m[c[h]] + 1 < c[k]
    BY <1>1, <2>1 DEF Chained
  <2>4. c[h] <= c[k]
    BY <1>2, <2>2, <2>3
  <2>5. d[h] = c[h] /\ n[c[h]] = m[c[h]]
    BY <2>1, <2>2, <2>4
  <2>6. WordsOfMemory(n, c[h] + 1, m[c[h]] - 1) = WordsOfMemory(m, c[h] + 1, m[c[h]] - 1)
    <3>1. ASSUME NEW w \in c[h] + 1 .. m[c[h]] - 1 PROVE n[w] = m[w]
      <4>1. w \in Int /\ 0 <= w /\ w <= m[c[h]] /\ w <= c[k]
        BY SMTT(60), <1>1, <1>2, <2>2, <2>3
      <4>2. w \in Address
        BY <2>2, <4>1, AddressBounds
      <4> QED  BY <4>1, <4>2
    <3>2. c[h] + 1 \in Int /\ m[c[h]] - 1 \in Int
      BY <2>2
    <3> QED  BY <3>1, <3>2, SamePlace
  <2>7. WordsOfMemory(n, m[c[h]] + 2, c[i] - 1) = WordsOfMemory(m, m[c[h]] + 2, c[i] - 1)
    <3>1. m[c[h]] + 2 \in Int /\ floor < m[c[h]] + 2
      BY <1>1, <2>2
    <3> QED  BY <1>5, <3>1
  <2> HIDE DEF h
  <2>8. FrameIn(floor, n, d, h, c[i] - 1, ToUWord(m[m[c[i]]]))
          = FrameIn(floor, m, c, h, c[i] - 1, ToUWord(m[m[c[i]]]))
    BY Zenon, <2>1, <2>5, <2>6, <2>7 DEF FrameIn
  <2> QED  BY Zenon, <1>4, <2>8 DEF CallerIn, h
<1> QED  BY <1>6, <1>7

-----------------------------------------------------------------------------
(* Opcodes that stay in their frame. *)

\* The callers are the first frames.
LEMMA CallersAre ==
  ASSUME Executed
  PROVE  /\ Abstract!Callers = [i \in 1 .. Depth |-> Frames[i]]
         /\ Len(Abstract!Callers) = Depth /\ Abstract!Callers \in Seq({Frames[i] : i \in 1 .. Depth})
         /\ Abstract!Frame = Frames[Depth + 1]
<1>1. /\ Depth \in Nat /\ Depth >= 1 /\ Len(Frames) = Depth + 1
      /\ Abstract!Frame = FrameOf(Depth)
      /\ Frames = [i \in 1 .. Depth + 1 |-> FrameOf(i - 1)]
  BY ExecutedFrame, AbstractFrame DEF Frames
<1> DEFINE S == {Frames[i] : i \in 1 .. Depth + 1}
           f == Frames
<1>2. f \in Seq(S) /\ Len(f) = Depth + 1
  <2>1. \A n \in Nat : [i \in 1 .. n |-> Frames[i]] \in Seq({Frames[i] : i \in 1 .. n})
    OBVIOUS
  <2>2. Depth + 1 \in Nat
    BY <1>1
  <2>3. f = [i \in 1 .. Depth + 1 |-> Frames[i]]
    BY <1>1
  <2> QED  BY <1>1, <2>1, <2>2, <2>3
<1>3. Abstract!Callers = SubSeq(f, 1, Len(f) - 1)
  BY Zenon DEF Abstract!Callers, Abstract!Front
<1> HIDE DEF f, S
<1>4. /\ SubSeq(f, 1, Depth) \in Seq(S) /\ Len(SubSeq(f, 1, Depth)) = Depth
      /\ DOMAIN SubSeq(f, 1, Depth) = 1 .. Depth
      /\ \A i \in 1 .. Depth : SubSeq(f, 1, Depth)[i] = f[i]
  <2>1. \A q \in Nat : q <= Len(f) =>
            /\ SubSeq(f, 1, q) \in Seq(S) /\ Len(SubSeq(f, 1, q)) = q
            /\ DOMAIN SubSeq(f, 1, q) = 1 .. q
            /\ \A i \in 1 .. q : SubSeq(f, 1, q)[i] = f[i]
    BY <1>2, Prefix
  <2>2. Depth \in Nat /\ Depth <= Len(f)
    BY <1>1, <1>2
  <2> QED  BY Zenon, <2>1, <2>2
<1>5. Len(f) - 1 = Depth
  BY <1>1, <1>2
<1>6. SubSeq(f, 1, Depth) = [i \in 1 .. Depth |-> f[i]]
  <2>1. \A e \in Seq(S) : e = [i \in DOMAIN e |-> e[i]]
    OBVIOUS
  <2> QED  BY <1>4, <2>1
<1>7. Abstract!Callers = [i \in 1 .. Depth |-> Frames[i]]
  BY <1>3, <1>5, <1>6 DEF f
<1>8. Abstract!Frame = Frames[Depth + 1]
  <2>1. \A n \in Nat : [i \in 1 .. n + 1 |-> FrameOf(i - 1)][n + 1] = FrameOf(n)
    OBVIOUS
  <2> QED  BY Zenon, <1>1, <2>1
<1>9. /\ Len(Abstract!Callers) = Depth
      /\ Abstract!Callers \in Seq({Frames[i] : i \in 1 .. Depth})
  <2>1. \A n \in Nat : /\ [i \in 1 .. n |-> Frames[i]] \in Seq({Frames[i] : i \in 1 .. n})
                       /\ Len([i \in 1 .. n |-> Frames[i]]) = n
    OBVIOUS
  <2> QED  BY <1>1, <1>7, <2>1
<1> QED  BY <1>7, <1>8, <1>9

\* A sequence that agrees with another but for its last element.
LEMMA AppendIs ==
  ASSUME NEW S, NEW s \in Seq(S), NEW f, f = [i \in DOMAIN f |-> f[i]],
         DOMAIN f = 1 .. Len(s) + 1, \A i \in 1 .. Len(s) : f[i] = s[i]
  PROVE  f = Append(s, f[Len(s) + 1])
<1> DEFINE e == f[Len(s) + 1]
           T == S \cup {e}
           t == Append(s, e)
<1>1. s \in Seq(T) /\ e \in T /\ Len(s) \in Nat
  OBVIOUS
<1> HIDE DEF e, T
<1>2. t \in Seq(T) /\ Len(t) = Len(s) + 1 /\ t[Len(s) + 1] = e
      /\ \A i \in 1 .. Len(s) : t[i] = s[i]
  BY <1>1
<1>3. \A g \in Seq(T) : g = [i \in 1 .. Len(g) |-> g[i]]
  OBVIOUS
<1>4. \A i \in 1 .. Len(s) + 1 : f[i] = t[i]
  <2>1. \A i \in 1 .. Len(s) + 1 : i = Len(s) + 1 \/ i \in 1 .. Len(s)
    BY <1>1
  <2> QED  BY <1>2, <2>1 DEF e
<1> HIDE DEF t
<1>5. f = t
  BY <1>2, <1>3, <1>4
<1> QED  BY <1>5 DEF t, e

\* An opcode that writes above the two words that link its frame to the
\* caller's, or to its variables, changes only the last frame.
LEMMA LastFrameChanges ==
  ASSUME Executed, UNCHANGED <<calls, program>>, mem' \in [Address -> Word],
         \A w \in Address : w <= lv \/ w = Link => mem'[w] = mem[w]
  PROVE  /\ Frames' = Append(Abstract!Callers,
                             [pc |-> pc', locals |-> WordsOfMemory(mem', lv + 1, Link - 1),
                              stack |-> WordsOfMemory(mem', Link + 2, sp')])
         /\ Abstract!Frame = [pc |-> pc, locals |-> WordsOfMemory(mem, lv + 1, Link - 1),
                              stack |-> WordsOfMemory(mem, Link + 2, sp)]
<1>1. /\ program \in Programs /\ mem \in [Address -> Word] /\ Chained(mem, calls, sp)
      /\ calls \in Seq(Address) /\ Depth \in Nat /\ Depth >= 1 /\ Depth \in DOMAIN calls
      /\ lv = calls[Depth] /\ lv \in Address /\ Depth = Len(calls) /\ Depth # 0
      /\ Link \in Address /\ lv \in Int
  BY ExecutedFrame DEF Depth
<1>2. mem'[lv] = mem[lv] /\ Link = mem[lv]
  BY <1>1 DEF Link
<1> DEFINE top == [pc |-> pc', locals |-> WordsOfMemory(mem', lv + 1, Link - 1),
                   stack |-> WordsOfMemory(mem', Link + 2, sp')]
<1>3. /\ DOMAIN Frames' = 1 .. Depth + 1
      /\ \A i \in 1 .. Depth : Frames'[i] = CallerIn(InitialSp(program), mem', calls, i)
      /\ \A i \in 1 .. Depth : Frames[i] = CallerIn(InitialSp(program), mem, calls, i)
      /\ Frames'[Depth + 1] = FrameIn(InitialSp(program), mem', calls, Depth, sp', pc')
      /\ Frames[Depth + 1] = FrameIn(InitialSp(program), mem, calls, Depth, sp, pc)
  <2>1. calls' = calls /\ program' = program
    OBVIOUS
  <2> QED  BY Zenon, <1>1, <2>1, FramesAre
<1>4. \A i \in 1 .. Depth :
        CallerIn(InitialSp(program), mem', calls, i) = CallerIn(InitialSp(program), mem, calls, i)
  <2>1. \A w \in Address : w <= calls[Depth] \/ w = mem[calls[Depth]] => mem'[w] = mem[w]
    BY <1>1, <1>2
  <2>2. \A j \in 1 .. Depth : calls[j] = calls[j]
    OBVIOUS
  <2>3. /\ program \in Programs /\ mem \in [Address -> Word] /\ mem' \in [Address -> Word]
        /\ Chained(mem, calls, sp) /\ Depth \in DOMAIN calls
    BY <1>1
  <2> QED  BY <2>1, <2>2, <2>3, CallersStay
<1>5. Frames'[Depth + 1] = top
  BY Zenon, <1>1, <1>2, <1>3 DEF FrameIn
<1>6. Frames[Depth + 1] = [pc |-> pc, locals |-> WordsOfMemory(mem, lv + 1, Link - 1),
                           stack |-> WordsOfMemory(mem, Link + 2, sp)]
  BY Zenon, <1>1, <1>2, <1>3 DEF FrameIn
<1> HIDE DEF top
<1>7. /\ Abstract!Callers \in Seq({Frames[i] : i \in 1 .. Depth}) /\ Len(Abstract!Callers) = Depth
      /\ \A i \in 1 .. Depth : Abstract!Callers[i] = Frames[i]
  BY CallersAre
<1>8. Frames' = [i \in DOMAIN Frames' |-> Frames'[i]]
  <2>1. Frames' = [i \in 1 .. Depth' + 1 |-> FrameOf(i - 1)']
    BY DEF Frames
  <2> QED  BY <2>1
<1>9. \A i \in 1 .. Len(Abstract!Callers) : Frames'[i] = Abstract!Callers[i]
  BY <1>3, <1>4, <1>7
<1>10. Frames' = Append(Abstract!Callers, top)
  BY <1>3, <1>5, <1>7, <1>8, <1>9, AppendIs
<1> QED  BY <1>6, <1>10, CallersAre DEF top

\* The places of a frame are in the memory.
LEMMA FramePlaces ==
  ASSUME Executed
  PROVE  /\ mem \in [Address -> Word] /\ lv \in Int /\ Link \in Int /\ sp \in Int
         /\ 0 <= lv /\ lv < Link /\ Link < sp
         /\ \A w \in Int : 0 <= w /\ w <= sp => w \in Address
         /\ \A w \in Address : w \in Int /\ 0 <= w
         /\ \A w \in lv + 1 .. Link - 1 : w \in Address
         /\ \A w \in Link + 2 .. sp : w \in Address
<1>1. /\ mem \in [Address -> Word] /\ lv \in Int /\ Link \in Int /\ sp \in Int /\ sp \in Address
      /\ lv \in Address /\ lv < Link /\ Link < sp
  BY ExecutedFrame
<1>2. \A w \in Address : w \in Int /\ 0 <= w
  BY AddressBounds
<1>3. \A w \in Int : 0 <= w /\ w <= sp => w \in Address
  BY <1>1, AddressBounds
<1>4. 0 <= lv
  BY <1>1, <1>2
<1> QED  BY <1>1, <1>2, <1>3, <1>4

\* The frame of the call machine when operands are taken off its stack.
LEMMA PoppedIs ==
  ASSUME Executed, NEW n \in Nat, Link + 1 + n <= sp,
         Abstract!Frame.stack = WordsOfMemory(mem, Link + 2, sp)
  PROVE  /\ Len(Abstract!Frame.stack) >= n
         /\ Abstract!Popped(n) = WordsOfMemory(mem, Link + 2, sp - n)
<1> DEFINE before == WordsOfMemory(mem, Link + 2, sp)
           from == Link + 2
           k == Len(before) - n
<1>1. /\ mem \in [Address -> Word] /\ Link \in Int /\ sp \in Int /\ from \in Int
      /\ from <= sp + 1 /\ \A w \in from .. sp : w \in Address
  BY FramePlaces
<1>2. Len(before) = sp - from + 1
  BY <1>1, MemoryWords
<1>3. sp - from + 1 = sp - Link - 1 /\ k = sp - Link - 1 - n
  BY <1>1, <1>2
<1>4. k \in Nat /\ k <= sp - from + 1 /\ from + k - 1 = sp - n /\ Len(before) >= n
  BY <1>1, <1>2, <1>3
<1>5. Abstract!Popped(n) = SubSeq(before, 1, k)
  BY DEF Abstract!Popped
<1> HIDE DEF k, from
<1>6. SubSeq(WordsOfMemory(mem, from, sp), 1, k) = WordsOfMemory(mem, from, from + k - 1)
  BY <1>1, <1>4, PlacePrefix
<1> QED  BY <1>4, <1>5, <1>6 DEF from

\* A frame with another next opcode and other operands, and maybe a variable set.
Resumed(frame, q, t) == [frame EXCEPT !.pc = q, !.stack = t]

\* The same, with a variable that has a new value.
ResumedWith(frame, q, t, v, x) == [frame EXCEPT !.pc = q, !.stack = t, !.locals[v] = x]

\* What such a frame is.
LEMMA ResumedIs ==
  ASSUME NEW p, NEW l, NEW s, NEW q, NEW t,
         NEW frame, frame = [pc |-> p, locals |-> l, stack |-> s]
  PROVE  Resumed(frame, q, t) = [pc |-> q, locals |-> l, stack |-> t]
<1>1. PICK g : g = [frame EXCEPT !.pc = q]
  OBVIOUS
<1>2. Resumed(frame, q, t) = [g EXCEPT !.stack = t]
  BY <1>1 DEF Resumed
<1>3. g = [pc |-> q, locals |-> l, stack |-> s]
  BY <1>1
<1>4. [g EXCEPT !.stack = t] = [pc |-> q, locals |-> l, stack |-> t]
  BY <1>3
<1> QED  BY Zenon, <1>2, <1>4

\* What it is with a variable set.
LEMMA ResumedWithIs ==
  ASSUME NEW p, NEW l, NEW s, NEW q, NEW t, NEW v, NEW x,
         NEW frame, frame = [pc |-> p, locals |-> l, stack |-> s]
  PROVE  ResumedWith(frame, q, t, v, x)
           = [pc |-> q, locals |-> [l EXCEPT ![v] = x], stack |-> t]
<1>1. PICK g : g = Resumed(frame, q, t)
  OBVIOUS
<1>2. ResumedWith(frame, q, t, v, x) = [g EXCEPT !.locals[v] = x]
  BY <1>1 DEF Resumed, ResumedWith
<1>3. g = [pc |-> q, locals |-> l, stack |-> t]
  BY <1>1, ResumedIs
<1>4. [g EXCEPT !.locals[v] = x] = [pc |-> q, locals |-> [l EXCEPT ![v] = x], stack |-> t]
  BY <1>3
<1> QED  BY Zenon, <1>2, <1>4

\* Operands taken and pushed: those of the call machine.
LEMMA StackStepFrames ==
  ASSUME Executed, NEW n, NEW pushed, NEW next, StackStep(n, pushed, next), UNCHANGED calls
  PROVE  /\ Len(Abstract!Frame.stack) >= n
         /\ Frames' = Append(Abstract!Callers,
                        Resumed(Abstract!Frame, next, Abstract!Popped(n) \o pushed))
<1>1. /\ n \in Nat /\ Link + 1 + n <= sp /\ pushed \in Seq(Word) /\ Len(pushed) \in Nat
      /\ sp' = sp - n + Len(pushed) /\ mem' \in [Address -> Word]
      /\ \A w \in Address : w <= sp - n => mem'[w] = mem[w]
      /\ \A k \in 1 .. Len(pushed) : mem'[sp - n + k] = pushed[k]
      /\ pc' = next /\ UNCHANGED <<program, lv>>
  BY DEF StackStep
<1>2. /\ mem \in [Address -> Word] /\ lv \in Int /\ Link \in Int /\ sp \in Int
      /\ 0 <= lv /\ lv < Link /\ Link < sp
      /\ \A w \in Address : w \in Int /\ 0 <= w
      /\ \A w \in lv + 1 .. Link - 1 : w \in Address
      /\ \A w \in Link + 2 .. sp : w \in Address
  BY FramePlaces
<1>3. \A w \in Address : w <= lv \/ w = Link => mem'[w] = mem[w]
  BY <1>1, <1>2
<1> DEFINE before == WordsOfMemory(mem, Link + 2, sp)
           locals == WordsOfMemory(mem, lv + 1, Link - 1)
<1>4. /\ Frames' = Append(Abstract!Callers,
                          [pc |-> pc', locals |-> WordsOfMemory(mem', lv + 1, Link - 1),
                           stack |-> WordsOfMemory(mem', Link + 2, sp')])
      /\ Abstract!Frame = [pc |-> pc, locals |-> locals, stack |-> before]
  BY <1>1, <1>3, LastFrameChanges
<1>5. WordsOfMemory(mem', lv + 1, Link - 1) = locals
  <2>1. \A w \in lv + 1 .. Link - 1 : mem'[w] = mem[w]
    <3> SUFFICES ASSUME NEW w \in lv + 1 .. Link - 1 PROVE mem'[w] = mem[w]
      OBVIOUS
    <3>1. w \in Address /\ w <= sp - n
      BY <1>1, <1>2
    <3> QED  BY <1>1, <3>1
  <2>2. lv + 1 \in Int /\ Link - 1 \in Int
    BY <1>2
  <2> QED  BY <2>1, <2>2, SamePlace
<1>6. Len(before) >= n /\ Abstract!Popped(n) = WordsOfMemory(mem, Link + 2, sp - n)
  BY <1>1, <1>4, PoppedIs
<1>8. WordsOfMemory(mem, Link + 2, sp - n) \o pushed = WordsOfMemory(mem', Link + 2, sp')
  <2>1. Link + 2 \in Int /\ sp - n \in Int /\ Link + 2 <= sp - n + 1
    BY <1>1, <1>2
  <2>2. \A w \in Link + 2 .. sp - n : w \in Address /\ mem'[w] = mem[w]
    <3> SUFFICES ASSUME NEW w \in Link + 2 .. sp - n PROVE w \in Address /\ mem'[w] = mem[w]
      OBVIOUS
    <3>1. w \in Address /\ w <= sp - n
      BY <1>1, <1>2
    <3> QED  BY <1>1, <3>1
  <2>3. WordsOfMemory(mem, Link + 2, sp - n) \o pushed
          = WordsOfMemory(mem', Link + 2, sp - n + Len(pushed))
    <3> DEFINE to == sp - n
    <3>1. /\ mem \in [Address -> Word] /\ mem' \in [Address -> Word] /\ Link + 2 \in Int
          /\ to \in Int /\ Link + 2 <= to + 1 /\ pushed \in Seq(Word)
          /\ \A w \in Link + 2 .. to : w \in Address /\ mem'[w] = mem[w]
          /\ \A k \in 1 .. Len(pushed) : mem'[to + k] = pushed[k]
      BY <1>1, <1>2, <2>1, <2>2
    <3> HIDE DEF to
    <3>2. WordsOfMemory(mem, Link + 2, to) \o pushed
            = WordsOfMemory(mem', Link + 2, to + Len(pushed))
      BY ZenonT(60), <3>1, PlaceConcat
    <3> QED  BY <3>2 DEF to
  <2> QED  BY <1>1, <2>3
<1> HIDE DEF before, locals
<1>9. Resumed(Abstract!Frame, next, Abstract!Popped(n) \o pushed)
         = [pc |-> pc', locals |-> locals, stack |-> WordsOfMemory(mem', Link + 2, sp')]
  <2>1. PICK f, t : f = Abstract!Frame /\ t = Abstract!Popped(n) \o pushed
    OBVIOUS
  <2>2. f = [pc |-> pc, locals |-> locals, stack |-> before]
    BY <1>4, <2>1
  <2>3. Resumed(f, next, t) = [pc |-> next, locals |-> locals, stack |-> t]
    BY <2>2, ResumedIs
  <2>4. t = WordsOfMemory(mem', Link + 2, sp') /\ next = pc'
    BY <1>1, <1>6, <1>8, <2>1
  <2> QED  BY Zenon, <2>1, <2>3, <2>4
<1> QED  BY Zenon, <1>4, <1>5, <1>6, <1>9

\* A variable set: that of the call machine.
LEMMA VarStepFrames ==
  ASSUME Executed, NEW v, NEW value, NEW n, NEW next, VarStep(v, value, n, next), UNCHANGED calls
  PROVE  /\ Abstract!HasVar(v) /\ Len(Abstract!Frame.stack) >= n
         /\ Frames' = Append(Abstract!Callers,
                        ResumedWith(Abstract!Frame, next, Abstract!Popped(n), v, value))
<1>1. /\ n \in Nat /\ Link + 1 + n <= sp /\ v \in Int /\ 1 <= v /\ lv + v < Link /\ value \in Word
      /\ sp' = sp - n /\ mem' = [mem EXCEPT ![lv + v] = value]
      /\ pc' = next /\ UNCHANGED <<program, lv>>
  BY DEF VarStep
<1>2. /\ mem \in [Address -> Word] /\ lv \in Int /\ Link \in Int /\ sp \in Int
      /\ 0 <= lv /\ lv < Link /\ Link < sp
      /\ \A w \in Int : 0 <= w /\ w <= sp => w \in Address
      /\ \A w \in Address : w \in Int /\ 0 <= w
      /\ \A w \in lv + 1 .. Link - 1 : w \in Address
      /\ \A w \in Link + 2 .. sp : w \in Address
  BY FramePlaces
<1>3. /\ lv + v \in Address /\ mem' \in [Address -> Word] /\ mem'[lv + v] = value
      /\ \A w \in Address : w # lv + v => mem'[w] = mem[w]
  BY <1>1, <1>2
<1>4. \A w \in Address : w <= lv \/ w = Link => mem'[w] = mem[w]
  BY <1>1, <1>2, <1>3
<1> DEFINE before == WordsOfMemory(mem, Link + 2, sp)
           locals == WordsOfMemory(mem, lv + 1, Link - 1)
           after == WordsOfMemory(mem', lv + 1, Link - 1)
<1>5. /\ Frames' = Append(Abstract!Callers, [pc |-> pc', locals |-> after,
                                             stack |-> WordsOfMemory(mem', Link + 2, sp')])
      /\ Abstract!Frame = [pc |-> pc, locals |-> locals, stack |-> before]
  BY <1>1, <1>3, <1>4, LastFrameChanges
<1>6. Len(before) >= n /\ Abstract!Popped(n) = WordsOfMemory(mem, Link + 2, sp - n)
  BY <1>1, <1>5, PoppedIs
<1>8. WordsOfMemory(mem, Link + 2, sp - n) = WordsOfMemory(mem', Link + 2, sp')
  <2>1. Link + 2 \in Int /\ sp - n \in Int
    BY <1>1, <1>2
  <2>2. \A w \in Link + 2 .. sp - n : mem'[w] = mem[w]
    <3> SUFFICES ASSUME NEW w \in Link + 2 .. sp - n PROVE mem'[w] = mem[w]
      OBVIOUS
    <3>1. w \in Address /\ w # lv + v
      BY <1>1, <1>2
    <3> QED  BY <1>3, <3>1
  <2>3. WordsOfMemory(mem', Link + 2, sp - n) = WordsOfMemory(mem, Link + 2, sp - n)
    BY <2>1, <2>2, SamePlace
  <2>4. sp' = sp - n
    BY <1>1
  <2> QED  BY Zenon, <2>3, <2>4
<1>9. /\ locals = [i \in 1 .. Link - lv - 1 |-> mem[lv + i]]
      /\ after = [i \in 1 .. Link - lv - 1 |-> mem'[lv + i]] /\ Len(locals) = Link - lv - 1
  <2>1. /\ lv + 1 \in Int /\ Link - 1 \in Int /\ lv + 1 <= (Link - 1) + 1
        /\ (Link - 1) - (lv + 1) + 1 = Link - lv - 1
        /\ \A i \in 1 .. Link - lv - 1 : (lv + 1) + i - 1 = lv + i
    BY <1>2
  <2>2. /\ locals = [i \in 1 .. (Link - 1) - (lv + 1) + 1 |-> mem[(lv + 1) + i - 1]]
        /\ after = [i \in 1 .. (Link - 1) - (lv + 1) + 1 |-> mem'[(lv + 1) + i - 1]]
        /\ Len(locals) = (Link - 1) - (lv + 1) + 1
    BY ZenonT(60), <2>1, MemoryWords
  <2> QED  BY <2>1, <2>2
<1>10. after = [locals EXCEPT ![v] = value]
  <2>1. ASSUME NEW i \in 1 .. Link - lv - 1
        PROVE  mem'[lv + i] = IF i = v THEN value ELSE mem[lv + i]
    <3>1. lv + i \in Address /\ (lv + i = lv + v <=> i = v)
      BY <1>1, <1>2
    <3> QED  BY <1>3, <3>1
  <2> HIDE DEF locals, after
  <2> QED  BY <1>9, <2>1
<1> HIDE DEF before, locals, after
<1>12. ResumedWith(Abstract!Frame, next, Abstract!Popped(n), v, value)
         = [pc |-> pc', locals |-> after, stack |-> WordsOfMemory(mem', Link + 2, sp')]
  <2>1. PICK f, t : f = Abstract!Frame /\ t = Abstract!Popped(n)
    OBVIOUS
  <2>2. f = [pc |-> pc, locals |-> locals, stack |-> before]
    BY <1>5, <2>1
  <2>3. ResumedWith(f, next, t, v, value)
          = [pc |-> next, locals |-> [locals EXCEPT ![v] = value], stack |-> t]
    BY <2>2, ResumedWithIs
  <2>4. t = WordsOfMemory(mem', Link + 2, sp') /\ next = pc'
    BY <1>1, <1>6, <1>8, <2>1
  <2> QED  BY Zenon, <1>10, <2>1, <2>3, <2>4
<1>13. Abstract!HasVar(v)
  <2>1. v \in 1 .. Len(locals)
    BY <1>1, <1>2, <1>9
  <2> QED  BY <1>5, <2>1 DEF Abstract!HasVar
<1> QED  BY Zenon, <1>5, <1>6, <1>12, <1>13

-----------------------------------------------------------------------------
(* An opcode of the interpreter is that of the call machine. *)

\* Operands of the call machine are the words on top of the stack.
LEMMA OperandsAre ==
  ASSUME Executed
  PROVE  /\ Link + 2 <= sp => Abstract!Operand(0) = mem[sp]
         /\ Link + 3 <= sp => Abstract!Operand(1) = mem[sp - 1]
<1>1. /\ Len(Abstract!Frame.stack) = sp - Link - 1
      /\ \A i \in 1 .. sp - Link - 1 : Abstract!Frame.stack[i] = mem[Link + 1 + i]
      /\ Link \in Int /\ sp \in Int
  BY AbstractFrame, ExecutedFrame
<1>2. ASSUME Link + 2 <= sp PROVE Abstract!Operand(0) = mem[sp]
  <2>1. /\ (sp - Link - 1) - 0 \in 1 .. sp - Link - 1
        /\ Link + 1 + ((sp - Link - 1) - 0) = sp
    BY <1>1, <1>2
  <2>2. Abstract!Operand(0) = Abstract!Frame.stack[(sp - Link - 1) - 0]
    BY <1>1 DEF Abstract!Operand
  <2> QED  BY <1>1, <2>1, <2>2
<1>3. ASSUME Link + 3 <= sp PROVE Abstract!Operand(1) = mem[sp - 1]
  <2>1. /\ (sp - Link - 1) - 1 \in 1 .. sp - Link - 1
        /\ Link + 1 + ((sp - Link - 1) - 1) = sp - 1
    BY <1>1, <1>3
  <2>2. Abstract!Operand(1) = Abstract!Frame.stack[(sp - Link - 1) - 1]
    BY <1>1 DEF Abstract!Operand
  <2> QED  BY <1>1, <2>1, <2>2
<1> QED  BY <1>2, <1>3

\* Both machines are at the same opcode.
LEMMA SameOpcode ==
  ASSUME Executed, ProgramsAreLawful
  PROVE  /\ Abstract!Active /\ Abstract!pc = pc /\ Abstract!Code(pc) = Opcode
         /\ \A name : Abstract!At(name) <=> Opcode = OP[name]
<1>1. Abstract!Active /\ Abstract!pc = pc /\ Abstract!Code(pc) = Opcode
  BY AbstractFrame, LawfulFetch
<1> QED  BY Zenon, <1>1, SameWords DEF Abstract!At

\* A step of the interpreter within a frame is one of the call machine.
LEMMA AbstractReplace ==
  ASSUME Executed, NEW n, NEW pushed, NEW next, StackStep(n, pushed, next), UNCHANGED calls
  PROVE  wide' = FALSE
           => /\ Abstract!Replace(n, pushed, next)
              /\ UNCHANGED <<input, output>> => Abstract!Local(n, pushed, next)
<1>1. /\ Len(Abstract!Frame.stack) >= n
      /\ Frames' = Append(Abstract!Callers,
                        Resumed(Abstract!Frame, next, Abstract!Popped(n) \o pushed))
  BY StackStepFrames
<1>2. UNCHANGED <<program, status, result>>
  BY DEF StackStep
<1> QED
  BY Zenon, <1>1, <1>2 DEF Abstract!Replace, Abstract!Local, Resumed

\* So is one that sets a variable.
LEMMA AbstractSetVar ==
  ASSUME Executed, NEW v, NEW value, NEW n, NEW next, VarStep(v, value, n, next), UNCHANGED calls
  PROVE  wide' = FALSE /\ UNCHANGED <<input, output>>
           => Abstract!SetVar(v, value, n, next)
<1>1. /\ Abstract!HasVar(v) /\ Len(Abstract!Frame.stack) >= n
      /\ Frames' = Append(Abstract!Callers,
                        ResumedWith(Abstract!Frame, next, Abstract!Popped(n), v, value))
  BY VarStepFrames
<1>2. UNCHANGED <<program, status, result>>
  BY DEF VarStep
<1> QED
  BY Zenon, <1>1, <1>2 DEF Abstract!SetVar, ResumedWith

\* What else the opcodes of a frame leave as it was.
LEMMA GotoLeaves ==
  ASSUME NEW newPc, NEW newSp, NEW newMem, Goto(newPc, newSp, newMem)
  PROVE  wide' = FALSE /\ UNCHANGED <<input, output>>
BY Zenon DEF Goto

\* Values pushed.
LEMMA PushRefines ==
  ASSUME Executed, ProgramsAreLawful, UNCHANGED calls
  PROVE  /\ Bipush => Abstract!Bipush
         /\ Dup => Abstract!Dup
         /\ LdcW => Abstract!LdcW
         /\ Iload => Abstract!Iload
<1>1. /\ Abstract!pc = pc /\ Abstract!Code(pc) = Opcode
      /\ \A name : Abstract!At(name) <=> Opcode = OP[name]
  BY SameOpcode
<1>2. ASSUME Bipush PROVE Abstract!Bipush
  <2>1. Opcode = OP.BIPUSH /\ After = pc + 2 /\ wide' = FALSE /\ UNCHANGED <<input, output>>
    BY ZenonT(60), <1>2, GotoLeaves, OpcodeAfter DEF Bipush, Executing
  <2>2. Method(pc + 1) = Abstract!Code(pc + 1)
    <3>1. pc \in Nat /\ After = pc + 2
      BY Zenon, <2>1, ExecutedFrame
    <3>2. pc + 1 \in Int /\ pc <= pc + 1 /\ pc + 1 < After
      BY <3>1
    <3> QED  BY Zenon, <3>2, LawfulFetch
  <2>3. StackStep(0, <<Signed(Method(pc + 1), 256)>>, After)
    BY <1>2, PushOpcodes
  <2>4. Abstract!Local(0, <<Signed(Method(pc + 1), 256)>>, After)
    BY Zenon, <2>1, <2>3, AbstractReplace
  <2> QED  BY Zenon, <1>1, <2>1, <2>2, <2>4, SameWords DEF Abstract!Bipush
<1>3. ASSUME Dup PROVE Abstract!Dup
  <2>1. Opcode = OP.DUP /\ wide' = FALSE /\ UNCHANGED <<input, output>>
    BY Zenon, <1>3, GotoLeaves DEF Dup, Executing
  <2>2. After = pc + 1
    BY <2>1, OpcodeAfter, OpcodeValues
  <2>3. Abstract!Operand(0) = mem[sp]
    BY <2>1, LawfulOperands, OperandsAre
  <2>4. Abstract!Local(1, <<mem[sp], mem[sp]>>, After)
    BY Zenon, <1>3, <2>1, DupOpcode, AbstractReplace
  <2> QED  BY Zenon, <1>1, <2>1, <2>2, <2>3, <2>4 DEF Abstract!Dup
<1>4. ASSUME LdcW PROVE Abstract!LdcW
  <2>1. Opcode = OP.LDC_W /\ wide' = FALSE /\ UNCHANGED <<input, output>>
    BY Zenon, <1>4, GotoLeaves DEF LdcW, Executing
  <2>2. After = pc + 3
    BY <2>1, OpcodeAfter
  <2>3. /\ Index = Abstract!UInt16(pc + 1) /\ Index \in Nat /\ Index < Len(program.cpool)
    BY <2>1, <2>2, LawfulOperands
  <2>4. mem[cpp + Index] = Abstract!Constant(Index)
    BY <2>3, ExecutedImage
  <2>5. Abstract!Local(0, <<mem[cpp + Index]>>, After)
    BY Zenon, <1>4, <2>1, PushOpcodes, AbstractReplace
  <2> QED  BY Zenon, <1>1, <2>1, <2>2, <2>3, <2>4, <2>5 DEF Abstract!LdcW
<1>5. ASSUME Iload PROVE Abstract!Iload
  <2>1. Opcode = OP.ILOAD /\ wide' = FALSE /\ UNCHANGED <<input, output>>
    BY Zenon, <1>5, GotoLeaves DEF Iload, Executing
  <2>2. /\ Variable = Abstract!Var /\ After = Abstract!AfterVar
        /\ Variable \in Int /\ 1 <= Variable /\ lv + Variable < Link
    BY <2>1, LawfulOperands
  <2>3. /\ Len(Abstract!Frame.locals) = Link - lv - 1 /\ Link \in Int /\ lv \in Int
        /\ \A i \in 1 .. Link - lv - 1 : Abstract!Frame.locals[i] = mem[lv + i]
    BY AbstractFrame, ExecutedFrame
  <2>4. Variable \in 1 .. Link - lv - 1
    BY <2>2, <2>3
  <2>5. Abstract!HasVar(Variable)
    BY <2>3, <2>4 DEF Abstract!HasVar
  <2>6. Abstract!Frame.locals[Variable] = mem[lv + Variable]
    BY Zenon, <2>3, <2>4
  <2>7. Abstract!Local(0, <<mem[lv + Variable]>>, After)
    BY Zenon, <1>5, <2>1, PushOpcodes, AbstractReplace
  <2> QED  BY Zenon, <1>1, <2>1, <2>2, <2>5, <2>6, <2>7 DEF Abstract!Iload
<1> QED  BY <1>2, <1>3, <1>4, <1>5

\* Values computed from two operands.
LEMMA BinaryRefines ==
  ASSUME Executed, ProgramsAreLawful, UNCHANGED calls
  PROVE  /\ Iadd => Abstract!Iadd
         /\ Isub => Abstract!Isub
         /\ Iand => Abstract!Iand
         /\ Ior => Abstract!Ior
         /\ Swap => Abstract!Swap
<1>1. /\ Abstract!pc = pc /\ Abstract!Code(pc) = Opcode
      /\ \A name : Abstract!At(name) <=> Opcode = OP[name]
  BY SameOpcode
<1>2. ASSUME Opcode \in {OP.IADD, OP.ISUB, OP.IAND, OP.IOR, OP.SWAP}
      PROVE  /\ After = pc + 1
             /\ Abstract!Operand(0) = mem[sp] /\ Abstract!Operand(1) = mem[sp - 1]
             /\ mem[sp] \in Int /\ mem[sp - 1] \in Int
  <2>1. After = pc + 1
    BY <1>2, OpcodeAfter, OpcodeValues
  <2>2. Link + 3 <= sp /\ Link \in Int /\ sp \in Int
    BY <1>2, LawfulOperands, ExecutedFrame
  <2>3. mem[sp] \in Int /\ mem[sp - 1] \in Int
    BY <2>2, Operand
  <2> QED  BY <2>1, <2>2, <2>3, OperandsAre
<1>3. ASSUME Iadd PROVE Abstract!Iadd
  <2>1. Opcode = OP.IADD /\ wide' = FALSE /\ UNCHANGED <<input, output>>
    BY Zenon, <1>3, GotoLeaves DEF Iadd, Binary, Executing
  <2>2. mem[sp] + mem[sp - 1] = mem[sp - 1] + mem[sp]
    BY <1>2, <2>1
  <2>3. Abstract!Local(2, <<ToWord(mem[sp] + mem[sp - 1])>>, After)
    BY Zenon, <1>3, <2>1, BinaryOpcodes, AbstractReplace
  <2> QED  BY Zenon, <1>1, <1>2, <2>1, <2>2, <2>3, SameWords DEF Abstract!Iadd
<1>4. ASSUME Isub PROVE Abstract!Isub
  <2>1. Opcode = OP.ISUB /\ wide' = FALSE /\ UNCHANGED <<input, output>>
    BY Zenon, <1>4, GotoLeaves DEF Isub, Binary, Executing
  <2>3. Abstract!Local(2, <<ToWord(mem[sp - 1] - mem[sp])>>, After)
    BY Zenon, <1>4, <2>1, BinaryOpcodes, AbstractReplace
  <2> QED  BY Zenon, <1>1, <1>2, <2>1, <2>3, SameWords DEF Abstract!Isub
<1>5. ASSUME Iand PROVE Abstract!Iand
  <2>1. Opcode = OP.IAND /\ wide' = FALSE /\ UNCHANGED <<input, output>>
    BY Zenon, <1>5, GotoLeaves DEF Iand, Binary, Executing
  <2>2. ToWord(BitAnd(mem[sp], mem[sp - 1])) = BitAnd(mem[sp - 1], mem[sp])
    BY Zenon, <1>2, <2>1, BitAndType, BitsCommute, ToWordOfWord
  <2>3. Abstract!Local(2, <<ToWord(BitAnd(mem[sp], mem[sp - 1]))>>, After)
    BY Zenon, <1>5, <2>1, BinaryOpcodes, AbstractReplace
  <2> QED  BY Zenon, <1>1, <1>2, <2>1, <2>2, <2>3, SameWords DEF Abstract!Iand
<1>6. ASSUME Ior PROVE Abstract!Ior
  <2>1. Opcode = OP.IOR /\ wide' = FALSE /\ UNCHANGED <<input, output>>
    BY Zenon, <1>6, GotoLeaves DEF Ior, Binary, Executing
  <2>2. ToWord(BitOr(mem[sp], mem[sp - 1])) = BitOr(mem[sp - 1], mem[sp])
    BY Zenon, <1>2, <2>1, BitOrType, BitsCommute, ToWordOfWord
  <2>3. Abstract!Local(2, <<ToWord(BitOr(mem[sp], mem[sp - 1]))>>, After)
    BY Zenon, <1>6, <2>1, BinaryOpcodes, AbstractReplace
  <2> QED  BY Zenon, <1>1, <1>2, <2>1, <2>2, <2>3, SameWords DEF Abstract!Ior
<1>7. ASSUME Swap PROVE Abstract!Swap
  <2>1. Opcode = OP.SWAP /\ wide' = FALSE /\ UNCHANGED <<input, output>>
    BY Zenon, <1>7, GotoLeaves DEF Swap, Executing
  <2>3. Abstract!Local(2, <<mem[sp], mem[sp - 1]>>, After)
    BY Zenon, <1>7, <2>1, SwapOpcode, AbstractReplace
  <2> QED  BY Zenon, <1>1, <1>2, <2>1, <2>3 DEF Abstract!Swap
<1> QED  BY <1>3, <1>4, <1>5, <1>6, <1>7

\* Branches.
LEMMA BranchRefines ==
  ASSUME Executed, ProgramsAreLawful, UNCHANGED calls
  PROVE  /\ GotoOp => Abstract!Goto
         /\ Ifeq => Abstract!Ifeq
         /\ Iflt => Abstract!Iflt
         /\ IfIcmpeq => Abstract!IfIcmpeq
<1>1. /\ Abstract!pc = pc /\ Abstract!Code(pc) = Opcode
      /\ \A name : Abstract!At(name) <=> Opcode = OP[name]
  BY SameOpcode
<1>2. ASSUME Opcode \in {OP.GOTO, OP.IFEQ, OP.IFLT, OP.IF_ICMPEQ}
      PROVE  After = pc + 3 /\ Target = Abstract!Target
  <2>1. After = pc + 3
    BY <1>2, OpcodeAfter
  <2> QED  BY <2>1, LawfulOperands
<1>3. ASSUME GotoOp PROVE Abstract!Goto
  <2>1. Opcode = OP.GOTO /\ wide' = FALSE /\ UNCHANGED <<input, output>>
    BY Zenon, <1>3, GotoLeaves DEF GotoOp, Executing
  <2>2. Abstract!Local(0, <<>>, Target)
    BY Zenon, <1>3, <2>1, BranchOpcodes, AbstractReplace
  <2> QED  BY Zenon, <1>1, <1>2, <2>1, <2>2 DEF Abstract!Goto
<1>4. ASSUME Ifeq PROVE Abstract!Ifeq
  <2>1. Opcode = OP.IFEQ /\ wide' = FALSE /\ UNCHANGED <<input, output>>
    BY Zenon, <1>4, GotoLeaves DEF Ifeq, Branch, Executing
  <2>2. Abstract!Operand(0) = mem[sp]
    BY <2>1, LawfulOperands, OperandsAre
  <2>3. Abstract!Local(1, <<>>, IF mem[sp] = 0 THEN Target ELSE After)
    BY Zenon, <1>4, <2>1, BranchOpcodes, AbstractReplace
  <2> QED  BY Zenon, <1>1, <1>2, <2>1, <2>2, <2>3 DEF Abstract!Ifeq
<1>5. ASSUME Iflt PROVE Abstract!Iflt
  <2>1. Opcode = OP.IFLT /\ wide' = FALSE /\ UNCHANGED <<input, output>>
    BY Zenon, <1>5, GotoLeaves DEF Iflt, Branch, Executing
  <2>2. Abstract!Operand(0) = mem[sp]
    BY <2>1, LawfulOperands, OperandsAre
  <2>3. Abstract!Local(1, <<>>, IF mem[sp] < 0 THEN Target ELSE After)
    BY Zenon, <1>5, <2>1, BranchOpcodes, AbstractReplace
  <2> QED  BY Zenon, <1>1, <1>2, <2>1, <2>2, <2>3 DEF Abstract!Iflt
<1>6. ASSUME IfIcmpeq PROVE Abstract!IfIcmpeq
  <2>1. Opcode = OP.IF_ICMPEQ /\ wide' = FALSE /\ UNCHANGED <<input, output>>
    BY Zenon, <1>6, GotoLeaves DEF IfIcmpeq, Branch, Executing
  <2>2. Abstract!Operand(0) = mem[sp] /\ Abstract!Operand(1) = mem[sp - 1]
    <3>1. Link + 3 <= sp /\ Link \in Int /\ sp \in Int
      BY <2>1, LawfulOperands, ExecutedFrame
    <3> QED  BY <3>1, OperandsAre
  <2>3. Abstract!Local(2, <<>>, IF mem[sp] = mem[sp - 1] THEN Target ELSE After)
    BY Zenon, <1>6, <2>1, BranchOpcodes, AbstractReplace
  <2> QED  BY Zenon, <1>1, <1>2, <2>1, <2>2, <2>3 DEF Abstract!IfIcmpeq
<1> QED  BY <1>3, <1>4, <1>5, <1>6

\* Opcodes that compute nothing, and the bytes that are none.
LEMMA MoveRefines ==
  ASSUME Executed, ProgramsAreLawful, UNCHANGED calls
  PROVE  /\ Nop => Abstract!Nop
         /\ Pop => Abstract!Pop
         /\ Unknown => Abstract!Unknown
         /\ UnknownBuiltin => Abstract!UnknownBuiltin
<1>1. /\ Abstract!pc = pc /\ Abstract!Code(pc) = Opcode /\ Abstract!Active
      /\ \A name : Abstract!At(name) <=> Opcode = OP[name]
  BY SameOpcode
<1>2. ASSUME Nop PROVE Abstract!Nop
  <2>1. Opcode = OP.NOP /\ wide' = FALSE /\ UNCHANGED <<input, output>>
    BY Zenon, <1>2, GotoLeaves DEF Nop, Executing
  <2>2. After = pc + 1
    BY <2>1, OpcodeAfter, OpcodeValues
  <2>3. Abstract!Local(0, <<>>, After)
    BY Zenon, <1>2, <2>1, MoveOpcodes, AbstractReplace
  <2> QED  BY Zenon, <1>1, <2>1, <2>2, <2>3 DEF Abstract!Nop
<1>3. ASSUME Pop PROVE Abstract!Pop
  <2>1. Opcode = OP.POP /\ wide' = FALSE /\ UNCHANGED <<input, output>>
    BY Zenon, <1>3, GotoLeaves DEF Pop, Executing
  <2>2. After = pc + 1
    BY <2>1, OpcodeAfter, OpcodeValues
  <2>3. Abstract!Local(1, <<>>, After)
    BY Zenon, <1>3, <2>1, MoveOpcodes, AbstractReplace
  <2> QED  BY Zenon, <1>1, <2>1, <2>2, <2>3 DEF Abstract!Pop
<1>4. ASSUME Unknown PROVE Abstract!Unknown
  <2>1. /\ Opcode \notin {OP[name] : name \in DOMAIN OP}
        /\ wide' = FALSE /\ UNCHANGED <<input, output>>
    BY Zenon, <1>4, GotoLeaves DEF Unknown, Executing
  <2>2. \A name \in DOMAIN OP : Opcode # OP[name]
    BY Zenon, <2>1
  <2>3. After = pc + 1
    <3>1. {"BIPUSH", "ILOAD", "ISTORE", "GOTO", "IFEQ", "IFLT", "IF_ICMPEQ", "IINC",
           "INVOKEVIRTUAL", "LDC_W"} \subseteq DOMAIN OP
      BY DEF OP
    <3>2. Opcode \notin {OP.BIPUSH, OP.ILOAD, OP.ISTORE, OP.GOTO, OP.IFEQ, OP.IFLT, OP.IF_ICMPEQ,
                        OP.IINC, OP.INVOKEVIRTUAL, OP.LDC_W}
      BY Zenon, <2>2, <3>1
    <3> QED  BY <3>2, OpcodeAfter
  <2>4. Abstract!Local(0, <<>>, After)
    BY Zenon, <1>4, <2>1, MoveOpcodes, AbstractReplace
  <2> QED  BY Zenon, <1>1, <2>2, <2>3, <2>4, SameWords DEF Abstract!Unknown
<1>5. ASSUME UnknownBuiltin PROVE Abstract!UnknownBuiltin
  <2>1. /\ Opcode = OP.INVOKEVIRTUAL /\ Index > PUTCHAR
        /\ wide' = FALSE /\ UNCHANGED <<input, output>>
    BY Zenon, <1>5, GotoLeaves DEF UnknownBuiltin, Executing
  <2>2. After = pc + 3
    BY <2>1, OpcodeAfter
  <2>3. Index = Abstract!UInt16(pc + 1)
    BY <2>2, LawfulOperands
  <2>4. Abstract!Local(0, <<>>, After)
    BY Zenon, <1>5, <2>1, MoveOpcodes, AbstractReplace
  <2> QED  BY Zenon, <1>1, <2>1, <2>2, <2>3, <2>4, SameWords DEF Abstract!UnknownBuiltin
<1> QED  BY <1>2, <1>3, <1>4, <1>5

\* WIDE changes nothing in its frame but the next opcode.
LEMMA WideRefines ==
  ASSUME Executed, ProgramsAreLawful, UNCHANGED calls, Wide
  PROVE  Abstract!Wide
<1>1. /\ Abstract!pc = pc /\ Abstract!Code(pc) = Opcode
      /\ \A name : Abstract!At(name) <=> Opcode = OP[name]
  BY SameOpcode
<1>2. /\ Opcode = OP.WIDE /\ pc' = ToUWord(After) /\ wide' = TRUE
      /\ UNCHANGED <<program, mem, sp, lv, input, output, status, result>>
  BY Zenon DEF Wide, Executing
<1>3. After = pc + 1 /\ pc' = pc + 1
  <2>1. After = pc + 1
    BY <1>2, OpcodeAfter, OpcodeValues
  <2>2. ToUWord(After) = After
    BY LawfulFetch
  <2> QED  BY <1>2, <2>1, <2>2
<1> DEFINE locals == WordsOfMemory(mem, lv + 1, Link - 1)
           stack == WordsOfMemory(mem, Link + 2, sp)
<1>4. /\ Frames' = Append(Abstract!Callers, [pc |-> pc', locals |-> locals, stack |-> stack])
      /\ Abstract!Frame = [pc |-> pc, locals |-> locals, stack |-> stack]
  <2>1. mem' \in [Address -> Word] /\ \A w \in Address : w <= lv \/ w = Link => mem'[w] = mem[w]
    BY <1>2, ExecutedFrame
  <2>2. UNCHANGED <<calls, program>> /\ mem' = mem /\ sp' = sp
    BY <1>2
  <2> QED  BY <2>1, <2>2, LastFrameChanges
<1> HIDE DEF locals, stack
<1>5. [Abstract!Frame EXCEPT !.pc = pc + 1] = [pc |-> pc', locals |-> locals, stack |-> stack]
  BY <1>3, <1>4
<1> QED  BY Zenon, <1>1, <1>2, <1>4, <1>5 DEF Abstract!Wide

\* A variable set.
LEMMA VariableRefines ==
  ASSUME Executed, ProgramsAreLawful, UNCHANGED calls
  PROVE  /\ Istore => Abstract!Istore
         /\ Iinc => Abstract!Iinc
<1>1. /\ Abstract!pc = pc /\ Abstract!Code(pc) = Opcode
      /\ \A name : Abstract!At(name) <=> Opcode = OP[name]
  BY SameOpcode
<1>2. ASSUME Istore PROVE Abstract!Istore
  <2>1. Opcode = OP.ISTORE /\ wide' = FALSE /\ UNCHANGED <<input, output>>
    BY Zenon, <1>2, GotoLeaves DEF Istore, Executing
  <2>2. Variable = Abstract!Var /\ After = Abstract!AfterVar
    BY <2>1, LawfulOperands
  <2>3. Abstract!Operand(0) = mem[sp]
    BY <2>1, LawfulOperands, OperandsAre
  <2>4. Abstract!SetVar(Variable, mem[sp], 1, After)
    BY Zenon, <1>2, <2>1, VariableOpcodes, AbstractSetVar
  <2> QED  BY Zenon, <1>1, <2>1, <2>2, <2>3, <2>4 DEF Abstract!Istore
<1>3. ASSUME Iinc PROVE Abstract!Iinc
  <2> DEFINE v == Method(pc + 1)
  <2>1. Opcode = OP.IINC /\ wide' = FALSE /\ UNCHANGED <<input, output>>
    BY ZenonT(60), <1>3, GotoLeaves DEF Iinc, Executing
  <2>2. After = pc + 3
    BY <2>1, OpcodeAfter
  <2>3. v = Abstract!Code(pc + 1) /\ Method(pc + 2) = Abstract!Code(pc + 2)
    <3>1. \A a \in Int : pc <= a /\ a < After => Method(a) = Abstract!Code(a)
      BY LawfulFetch
    <3>2. pc + 1 \in Int /\ pc <= pc + 1 /\ pc + 1 < After
          /\ pc + 2 \in Int /\ pc <= pc + 2 /\ pc + 2 < After
      BY SMTT(60), <2>2, ExecutedFrame
    <3> QED  BY Zenon, <3>1, <3>2
  <2>4. /\ Len(Abstract!Frame.locals) = Link - lv - 1 /\ Link \in Int /\ lv \in Int
        /\ \A i \in 1 .. Link - lv - 1 : Abstract!Frame.locals[i] = mem[lv + i]
    BY AbstractFrame, ExecutedFrame
  <2>5. v \in 1 .. Link - lv - 1
    BY <2>1, <2>4, LawfulOperands
  <2>6. Abstract!Frame.locals[v] = mem[lv + v]
    BY Zenon, <2>4, <2>5
  <2>7. Abstract!SetVar(v, ToWord(mem[lv + v] + Signed(Method(pc + 2), 256)), 0, After)
    BY Zenon, <1>3, <2>1, VariableOpcodes, AbstractSetVar
  <2> HIDE DEF v
  <2> QED  BY ZenonT(60), <1>1, <2>1, <2>2, <2>3, <2>6, <2>7, SameWords DEF Abstract!Iinc
<1> QED  BY <1>2, <1>3

\* A character read, and one written.
LEMMA BuiltinRefines ==
  ASSUME Executed, ProgramsAreLawful, UNCHANGED calls
  PROVE  /\ Getchar => Abstract!Getchar
         /\ Putchar => Abstract!Putchar
<1>1. /\ Abstract!pc = pc /\ Abstract!Code(pc) = Opcode
      /\ \A name : Abstract!At(name) <=> Opcode = OP[name]
  BY SameOpcode
<1>2. ASSUME Opcode = OP.INVOKEVIRTUAL
      PROVE  After = pc + 3 /\ Index = Abstract!UInt16(pc + 1)
  <2>1. After = pc + 3
    BY <1>2, OpcodeAfter
  <2> QED  BY <2>1, LawfulOperands
<1>3. ASSUME Getchar PROVE Abstract!Getchar
  <2> DEFINE char == IF input = <<>> THEN EOF ELSE Head(input)
  <2>1. /\ Opcode = OP.INVOKEVIRTUAL /\ Index = GETCHAR /\ wide' = FALSE /\ UNCHANGED output
        /\ input' = IF input = <<>> THEN <<>> ELSE Tail(input)
    BY Zenon, <1>3 DEF Getchar, Executing
  <2>2. StackStep(1, <<char>>, After)
    BY Zenon, <1>3, BuiltinOpcodes
  <2>3. Abstract!Replace(1, <<char>>, After)
    BY Zenon, <2>1, <2>2, AbstractReplace
  <2> QED  BY Zenon, <1>1, <1>2, <2>1, <2>3, SameWords DEF Abstract!Getchar
<1>4. ASSUME Putchar PROVE Abstract!Putchar
  <2>1. /\ Opcode = OP.INVOKEVIRTUAL /\ Index = PUTCHAR /\ wide' = FALSE /\ UNCHANGED input
        /\ output' = Append(output, Unsigned(mem[sp], 256))
    BY Zenon, <1>4 DEF Putchar, Executing
  <2>2. Abstract!Operand(0) = mem[sp]
    <3>1. Link + 3 <= sp /\ Link \in Int /\ sp \in Int
      BY <2>1, LawfulOperands, ExecutedFrame
    <3> QED  BY <3>1, OperandsAre
  <2>3. Abstract!Replace(2, <<Unsigned(mem[sp], 256)>>, After)
    BY Zenon, <1>4, <2>1, BuiltinOpcodes, AbstractReplace
  <2> QED  BY Zenon, <1>1, <1>2, <2>1, <2>2, <2>3, SameWords DEF Abstract!Putchar, Unsigned
<1> QED  BY <1>3, <1>4

-----------------------------------------------------------------------------
(* Calls and returns are those of the call machine. *)

\* A sequence without its last element.
LEMMA FrontIs ==
  ASSUME NEW n \in Nat, NEW f, DOMAIN f = 1 .. n + 1, f = [i \in DOMAIN f |-> f[i]]
  PROVE  /\ Len(f) = n + 1
         /\ SubSeq(f, 1, Len(f) - 1) = [i \in 1 .. n |-> f[i]]
<1> DEFINE S == {f[i] : i \in 1 .. n + 1}
<1>1. f \in Seq(S) /\ Len(f) = n + 1
  <2>1. \A k \in Nat : /\ [i \in 1 .. k |-> f[i]] \in Seq({f[i] : i \in 1 .. k})
                       /\ Len([i \in 1 .. k |-> f[i]]) = k
    OBVIOUS
  <2>2. n + 1 \in Nat /\ f = [i \in 1 .. n + 1 |-> f[i]]
    OBVIOUS
  <2> QED  BY Zenon, <2>1, <2>2
<1> HIDE DEF S
<1>2. /\ SubSeq(f, 1, n) \in Seq(S) /\ DOMAIN SubSeq(f, 1, n) = 1 .. n
      /\ \A i \in 1 .. n : SubSeq(f, 1, n)[i] = f[i]
  <2>1. \A q \in Nat : q <= Len(f) =>
            /\ SubSeq(f, 1, q) \in Seq(S)
            /\ DOMAIN SubSeq(f, 1, q) = 1 .. q
            /\ \A i \in 1 .. q : SubSeq(f, 1, q)[i] = f[i]
    BY <1>1, Prefix
  <2>2. n <= Len(f)
    BY <1>1
  <2> QED  BY Zenon, <2>1, <2>2
<1>3. SubSeq(f, 1, n) = [i \in 1 .. n |-> f[i]]
  <2>1. \A e \in Seq(S) : e = [i \in DOMAIN e |-> e[i]]
    OBVIOUS
  <2> QED  BY <1>2, <2>1
<1>4. Len(f) - 1 = n
  BY <1>1
<1> QED  BY <1>1, <1>3, <1>4

\* A frame left for a call, and one made by it.
Left(frame, next, kept) == [frame EXCEPT !.pc = next, !.stack = SubSeq(@, 1, kept)]

\* What makes a call of two more frames.
LEMMA CallIs ==
  ASSUME NEW S, NEW callers \in Seq(S), NEW caller, NEW method, NEW next,
         NEW nargs \in Nat, NEW locals, NEW given \in Nat, nargs = Abstract!UInt16(method),
         1 <= nargs, given = Len(caller.stack), nargs <= given,
         Frames' = [i \in DOMAIN Frames' |-> Frames'[i]],
         DOMAIN Frames' = 1 .. Len(callers) + 2,
         \A i \in 1 .. Len(callers) : Frames'[i] = callers[i],
         Frames'[Len(callers) + 1] = Left(caller, next, given - nargs),
         Frames'[Len(callers) + 2] = [pc |-> method + 4, locals |-> locals, stack |-> <<>>],
         Len(locals) = nargs - 1 + Abstract!UInt16(method + 2),
         \A i \in 1 .. nargs - 1 : locals[i] = caller.stack[given - nargs + 1 + i],
         \A i \in nargs .. Len(locals) : locals[i] \in Word
  PROVE  wide' = FALSE => Abstract!Call(callers, caller, method, next)
<1> DEFINE f == Frames'
           n == Len(callers) + 1
<1>1. n \in Nat /\ n + 1 = Len(callers) + 2
  OBVIOUS
<1>2. /\ f = [i \in DOMAIN f |-> f[i]] /\ DOMAIN f = 1 .. n + 1
  BY <1>1
<1>3. /\ \A i \in 1 .. Len(callers) : f[i] = callers[i]
      /\ f[n] = Left(caller, next, given - nargs)
      /\ f[n + 1] = [pc |-> method + 4, locals |-> locals, stack |-> <<>>]
  BY <1>1
<1> HIDE DEF f
<1>4. /\ Len(f) = n + 1 /\ SubSeq(f, 1, Len(f) - 1) = [i \in 1 .. n |-> f[i]]
  BY <1>1, <1>2, FrontIs
<1>5. SubSeq(f, 1, Len(f) - 1) = Append(callers, Left(caller, next, given - nargs))
  <2> DEFINE g == [i \in 1 .. n |-> f[i]]
  <2>1. /\ DOMAIN g = 1 .. Len(callers) + 1 /\ g = [i \in DOMAIN g |-> g[i]]
        /\ \A i \in 1 .. Len(callers) : g[i] = callers[i]
        /\ g[Len(callers) + 1] = Left(caller, next, given - nargs)
    BY <1>1, <1>3
  <2> HIDE DEF g
  <2>2. g = Append(callers, g[Len(callers) + 1])
    BY <2>1, AppendIs
  <2>3. SubSeq(f, 1, Len(f) - 1) = g
    BY <1>4 DEF g
  <2> QED  BY <2>1, <2>2, <2>3
<1>6. Abstract!Front(f) = Append(callers, Left(caller, next, given - nargs))
  BY Zenon, <1>5 DEF Abstract!Front
<1> DEFINE callee == [pc |-> method + 4, locals |-> locals, stack |-> <<>>]
<1>7. Abstract!Last(f) = callee
  <2>1. f[Len(f)] = callee
    BY <1>3, <1>4
  <2> QED  BY Zenon, <2>1 DEF Abstract!Last
<1>8. callee.pc = method + 4 /\ callee.locals = locals /\ callee.stack = <<>>
  OBVIOUS
<1>9. given - nargs >= 0 /\ Len(f) = Len(callers) + 2 /\ nargs >= 1
  BY <1>1, <1>4
<1> HIDE DEF callee, n
<1> QED
  BY Zenon, <1>6, <1>7, <1>8, <1>9, SameWords DEF Abstract!Call, Left, f

\* What it is then.
Leaves(frame, p, l, s, q, k) ==
  frame = [pc |-> p, locals |-> l, stack |-> s]
    /\ Left(frame, q, k) = [pc |-> q, locals |-> l, stack |-> SubSeq(s, 1, k)]

\* A frame that a call leaves.
LEMMA LeftIs ==
  ASSUME NEW p, NEW l, NEW s, NEW q, NEW k, NEW frame, frame = [pc |-> p, locals |-> l, stack |-> s]
  PROVE  Leaves(frame, p, l, s, q, k)
<1>1. PICK g, t : g = [frame EXCEPT !.pc = q] /\ t = SubSeq(s, 1, k)
  OBVIOUS
<1>2. Left(frame, q, k) = [g EXCEPT !.stack = SubSeq(@, 1, k)]
  BY <1>1 DEF Left
<1>3. g = [pc |-> q, locals |-> l, stack |-> s]
  BY <1>1
<1>4. g.stack = s
  BY <1>3
<1>5. [g EXCEPT !.stack = SubSeq(@, 1, k)] = [g EXCEPT !.stack = t]
  BY Zenon, <1>1, <1>4
<1>6. [g EXCEPT !.stack = t] = [pc |-> q, locals |-> l, stack |-> t]
  BY <1>3
<1> QED  BY Zenon, <1>1, <1>2, <1>5, <1>6 DEF Leaves

\* A frame made by a call: its first variables are the words that were on top of
\* the stack, its stack is empty, and below it nothing is written.
Made(m, n, top, link, nargs, nlocals) ==
  /\ \A w \in Address : w < link => n[w] = m[w]
  /\ WordsOfMemory(n, (top - 1) + 2, top) = <<>>
  /\ Len(WordsOfMemory(n, link + 1, (top - 1) - 1)) = nargs - 1 + nlocals
  /\ \A i \in 1 .. nargs - 1 + nlocals : WordsOfMemory(n, link + 1, (top - 1) - 1)[i] \in Word
  /\ \A i \in 1 .. nargs - 1 : WordsOfMemory(n, link + 1, (top - 1) - 1)[i] = m[link + i]

\* Such a frame is made by the three words that a call writes.
LEMMA CalleePlaces ==
  ASSUME NEW m \in [Address -> Word], NEW n \in [Address -> Word],
         NEW s \in Int, NEW top \in Address, NEW link \in Address, NEW nargs \in Nat, NEW nlocals \in Nat,
         1 <= nargs, top = s + nlocals + 2, link = s + 1 - nargs,
         \A w \in Address : w # link /\ w # top - 1 /\ w # top => n[w] = m[w]
  PROVE  Made(m, n, top, link, nargs, nlocals)
<1>1. /\ link \in Int /\ top \in Int /\ 0 <= link /\ 0 <= top
      /\ \A w \in Address : w \in Int
      /\ \A w \in Int : 0 <= w /\ w <= top => w \in Address
  BY AddressBounds
<1>2. \A w \in Address : w <= s /\ w # link => n[w] = m[w]
  <2> SUFFICES ASSUME NEW w \in Address, w <= s, w # link PROVE n[w] = m[w]
    OBVIOUS
  <2>1. w # top - 1 /\ w # top
    BY <1>1
  <2> QED  BY <2>1
<1>3. \A w \in Address : w < link => n[w] = m[w]
  BY <1>1, <1>2
<1>4. WordsOfMemory(n, (top - 1) + 2, top) = <<>>
  <2>1. top < (top - 1) + 2
    BY <1>1
  <2> QED  BY <2>1 DEF WordsOfMemory
<1> DEFINE from == link + 1
           to == (top - 1) - 1
           size == nargs - 1 + nlocals
<1>5. /\ from \in Int /\ to \in Int /\ from <= to + 1 /\ to - from + 1 = size
      /\ \A i \in 1 .. size : from + i - 1 = link + i
  BY <1>1
<1>6. ASSUME NEW i \in 1 .. size PROVE link + i \in Address
  <2>1. link + i \in Int /\ 0 <= link + i /\ link + i <= top
    BY <1>1
  <2> QED  BY <1>1, <2>1
<1>7. ASSUME NEW i \in 1 .. nargs - 1
      PROVE  i \in 1 .. size /\ link + i <= s /\ link + i # link
  BY <1>1
<1> HIDE DEF from, to, size
<1>8. /\ Len(WordsOfMemory(n, from, to)) = size
      /\ \A i \in 1 .. size : WordsOfMemory(n, from, to)[i] = n[link + i]
  <2>1. /\ Len(WordsOfMemory(n, from, to)) = to - from + 1
        /\ \A i \in 1 .. to - from + 1 : WordsOfMemory(n, from, to)[i] = n[from + i - 1]
    BY <1>5, MemoryWords
  <2> QED  BY Zenon, <1>5, <2>1
<1>9. \A i \in 1 .. size : n[link + i] \in Word
  BY <1>6
<1>10. \A i \in 1 .. nargs - 1 : n[link + i] = m[link + i] /\ i \in 1 .. size
  BY Zenon, <1>2, <1>6, <1>7
<1>11. /\ \A i \in 1 .. size : WordsOfMemory(n, from, to)[i] \in Word
       /\ \A i \in 1 .. nargs - 1 : WordsOfMemory(n, from, to)[i] = m[link + i]
  BY Zenon, <1>8, <1>9, <1>10
<1> QED  BY Zenon, <1>3, <1>4, <1>8, <1>11 DEF Made, from, to, size

\* The caller's frame, below that of the method called.
Kept(m, n, base, saved, link) ==
  /\ n[base] = m[base] /\ n[saved] = m[saved]
  /\ WordsOfMemory(n, base + 1, saved - 1) = WordsOfMemory(m, base + 1, saved - 1)
  /\ WordsOfMemory(n, saved + 2, link - 1) = WordsOfMemory(m, saved + 2, link - 1)

\* A call leaves it as it was, but for the arguments.
LEMMA CallerPlaces ==
  ASSUME NEW m, NEW n, NEW base \in Int, NEW saved \in Int, NEW link \in Address,
         0 <= base, base < saved, saved + 2 <= link,
         \A w \in Address : w < link => n[w] = m[w]
  PROVE  Kept(m, n, base, saved, link)
<1>1. link \in Int /\ \A w \in Int : 0 <= w /\ w < link => w \in Address
  BY AddressBounds
<1>2. \A w \in Int : 0 <= w /\ w < link => n[w] = m[w]
  BY <1>1
<1>3. n[base] = m[base] /\ n[saved] = m[saved]
  BY <1>1, <1>2
<1>4. /\ base + 1 \in Int /\ saved - 1 \in Int /\ \A w \in base + 1 .. saved - 1 : n[w] = m[w]
      /\ saved + 2 \in Int /\ link - 1 \in Int /\ \A w \in saved + 2 .. link - 1 : n[w] = m[w]
  BY <1>1, <1>2
<1> QED  BY <1>3, <1>4, SamePlace DEF Kept

\* A call as the history variable sees it.
CallsPushed == calls' = Append(calls, lv')

\* The frame on top, by its places in the memory.
LEMMA FrameIs ==
  ASSUME Executed
  PROVE  Abstract!Frame = [pc |-> pc, locals |-> WordsOfMemory(mem, lv + 1, Link - 1),
                           stack |-> WordsOfMemory(mem, Link + 2, sp)]
<1>1. Abstract!Frame = FrameOf(Depth)
      /\ FrameOf(Depth) = [pc |-> pc, locals |-> Slice(lv + 1, Link - 1), stack |-> Slice(Link + 2, sp)]
  BY AbstractFrame
<1> QED  BY Zenon, <1>1 DEF Slice, WordsOfMemory

\* The frames after a call.
LEMMA CallFrames ==
  ASSUME Executed, program' = program, CallsPushed,
         mem' \in [Address -> Word], lv' \in Address, Link + 2 <= lv',
         \A w \in Address : w < lv' => mem'[w] = mem[w]
  PROVE  /\ DOMAIN Frames' = 1 .. Depth + 2 /\ Frames' = [i \in DOMAIN Frames' |-> Frames'[i]]
         /\ \A i \in 1 .. Depth : Frames'[i] = Abstract!Callers[i]
         /\ Frames'[Depth + 1] = [pc |-> ToUWord(mem'[mem'[lv']]),
                                  locals |-> WordsOfMemory(mem, lv + 1, Link - 1),
                                  stack |-> WordsOfMemory(mem, Link + 2, lv' - 1)]
         /\ Frames'[Depth + 2] = [pc |-> pc', locals |-> WordsOfMemory(mem', lv' + 1, mem'[lv'] - 1),
                                  stack |-> WordsOfMemory(mem', mem'[lv'] + 2, sp')]
<1>0. PICK n, link : n = mem' /\ link = lv'
  OBVIOUS
<1>1. /\ program \in Programs /\ mem \in [Address -> Word] /\ Chained(mem, calls, sp)
      /\ calls \in Seq(Address) /\ Depth = Len(calls) /\ Depth \in Nat /\ Depth >= 1
      /\ Depth \in DOMAIN calls /\ lv \in Int /\ lv = calls[Depth] /\ Link = mem[lv] /\ Link \in Int
      /\ 0 <= lv /\ lv < Link /\ n \in [Address -> Word] /\ link \in Address /\ Link + 2 <= link
      /\ \A w \in Address : w < link => n[w] = mem[w]
  BY <1>0, ExecutedFrame, FramePlaces DEF Depth, Executed, Link
<1> DEFINE floor == InitialSp(program)
           d == Append(calls, link)
<1>2. /\ d \in Seq(Address) /\ Len(d) = Depth + 1 /\ d[Depth + 1] = link
      /\ \A i \in 1 .. Depth : d[i] = calls[i]
  BY <1>1
<1>3. calls' = d
  BY Zenon, <1>0 DEF CallsPushed
<1> HIDE DEF d
<1>4. Depth \in 1 .. Depth /\ Depth # 0 /\ Depth + 1 # 0 /\ (Depth + 1) - 1 = Depth
      /\ (Depth + 1) + 1 = Depth + 2 /\ Depth + 1 \in 1 .. Depth + 1
      /\ \A i \in 1 .. Depth : i \in 1 .. Depth + 1
  BY <1>1
<1>5. /\ DOMAIN Frames' = 1 .. Depth + 2
      /\ \A i \in 1 .. Depth : Frames[i] = CallerIn(floor, mem, calls, i)
      /\ \A i \in 1 .. Depth + 1 : Frames'[i] = CallerIn(floor, n, d, i)
      /\ Frames'[Depth + 2] = FrameIn(floor, n, d, Depth + 1, sp', pc')
  BY Zenon, <1>0, <1>1, <1>2, <1>3, <1>4, FramesAre
<1>6. /\ n[lv] = mem[lv] /\ n[Link] = mem[Link]
      /\ WordsOfMemory(n, lv + 1, Link - 1) = WordsOfMemory(mem, lv + 1, Link - 1)
      /\ WordsOfMemory(n, Link + 2, link - 1) = WordsOfMemory(mem, Link + 2, link - 1)
  <2>1. /\ lv \in Int /\ Link \in Int /\ link \in Address /\ 0 <= lv /\ lv < Link /\ Link + 2 <= link
        /\ \A w \in Address : w < link => n[w] = mem[w]
    BY Zenon, <1>1
  <2>2. Kept(mem, n, lv, Link, link)
    BY <2>1, CallerPlaces
  <2> QED  BY Zenon, <2>2 DEF Kept
<1>7. \A i \in 1 .. Depth : CallerIn(floor, n, d, i) = CallerIn(floor, mem, calls, i)
  <2>1. \A w \in Address : w <= calls[Depth] \/ w = mem[calls[Depth]] => n[w] = mem[w]
    <3> SUFFICES ASSUME NEW w \in Address, w <= lv \/ w = Link PROVE n[w] = mem[w]
      BY <1>1
    <3>1. w \in Int /\ link \in Int
      BY <1>1, AddressBounds
    <3>2. w < link
      BY <1>1, <3>1
    <3> QED  BY <1>1, <3>2
  <2>2. /\ program \in Programs /\ mem \in [Address -> Word] /\ n \in [Address -> Word]
        /\ Chained(mem, calls, sp) /\ Depth \in DOMAIN calls
        /\ \A j \in 1 .. Depth : d[j] = calls[j]
    BY Zenon, <1>1, <1>2
  <2> QED  BY <2>1, <2>2, CallersStay
<1>8. \A i \in 1 .. Depth : Frames'[i] = Abstract!Callers[i]
  <2>1. \A i \in 1 .. Depth : Abstract!Callers[i] = Frames[i]
    BY CallersAre
  <2> SUFFICES ASSUME NEW i \in 1 .. Depth PROVE Frames'[i] = Abstract!Callers[i]
    OBVIOUS
  <2>2. i \in 1 .. Depth + 1
    BY <1>4
  <2> QED  BY Zenon, <1>5, <1>7, <2>1, <2>2
<1>9. Frames'[Depth + 1] = [pc |-> ToUWord(n[n[link]]),
                            locals |-> WordsOfMemory(mem, lv + 1, Link - 1),
                            stack |-> WordsOfMemory(mem, Link + 2, link - 1)]
  <2>1. Frames'[Depth + 1] = FrameIn(floor, n, d, Depth, link - 1, ToUWord(n[n[link]]))
    BY Zenon, <1>2, <1>4, <1>5 DEF CallerIn
  <2>2. d[Depth] = lv /\ n[lv] = Link
    BY Zenon, <1>1, <1>2, <1>4, <1>6
  <2> QED  BY Zenon, <1>4, <1>6, <2>1, <2>2 DEF FrameIn
<1>10. Frames'[Depth + 2] = [pc |-> pc', locals |-> WordsOfMemory(n, link + 1, n[link] - 1),
                             stack |-> WordsOfMemory(n, n[link] + 2, sp')]
  BY Zenon, <1>2, <1>4, <1>5 DEF FrameIn
<1>11. Frames' = [i \in DOMAIN Frames' |-> Frames'[i]]
  <2>1. Frames' = [i \in 1 .. Depth' + 1 |-> FrameOf(i - 1)']
    BY Zenon DEF Frames
  <2> QED  BY <2>1
<1> QED  BY Zenon, <1>0, <1>5, <1>8, <1>9, <1>10, <1>11

\* A call: the caller keeps what is below its arguments.
LEMMA InvokeVirtualRefines ==
  ASSUME Executed, ProgramsAreLawful, InvokeVirtual, CallsPushed
  PROVE  Abstract!InvokeVirtual
<1>1. PICK method, nargs, nlocals, top, link, n, given :
        /\ method = Abstract!Constant(Index) /\ nargs = Abstract!UInt16(method)
        /\ nlocals = Abstract!UInt16(method + 2)
        /\ top = sp' /\ link = lv' /\ n = mem' /\ given = sp - Link - 1
  OBVIOUS
<1>2. /\ mem \in [Address -> Word] /\ Depth \in Nat
      /\ Link \in Int /\ sp \in Int /\ Link < sp
  BY ExecutedFrame
<1>3. /\ method \in Nat /\ nargs \in Nat /\ nlocals \in Nat /\ 1 <= nargs
      /\ Link + 1 + nargs <= sp
      /\ top = sp + nlocals + 2 /\ top \in Address
      /\ link = sp + 1 - nargs /\ link \in Address /\ link < top - 1
      /\ pc' = method + 4 /\ n \in [Address -> Word]
      /\ n[link] = top - 1 /\ ToUWord(n[top - 1]) = After
      /\ \A w \in Address : w # link /\ w # top - 1 /\ w # top => n[w] = mem[w]
      /\ program' = program
  BY Zenon, <1>1, CallStep
<1>4. wide' = FALSE
  BY Zenon, <1>1, CallStep
<1>5. /\ \A w \in Address : w < link => n[w] = mem[w]
      /\ WordsOfMemory(n, (top - 1) + 2, top) = <<>>
      /\ Len(WordsOfMemory(n, link + 1, (top - 1) - 1)) = nargs - 1 + nlocals
      /\ \A i \in 1 .. nargs - 1 + nlocals : WordsOfMemory(n, link + 1, (top - 1) - 1)[i] \in Word
      /\ \A i \in 1 .. nargs - 1 : WordsOfMemory(n, link + 1, (top - 1) - 1)[i] = mem[link + i]
  <2>1. /\ mem \in [Address -> Word] /\ n \in [Address -> Word] /\ sp \in Int /\ top \in Address
        /\ link \in Address /\ nargs \in Nat /\ nlocals \in Nat
        /\ 1 <= nargs /\ top = sp + nlocals + 2 /\ link = sp + 1 - nargs
        /\ \A w \in Address : w # link /\ w # top - 1 /\ w # top => n[w] = mem[w]
    BY Zenon, <1>2, <1>3
  <2>2. Made(mem, n, top, link, nargs, nlocals)
    BY <2>1, CalleePlaces
  <2> QED  BY Zenon, <2>2 DEF Made
<1>6. /\ given \in Nat /\ nargs <= given /\ given - nargs \in Nat /\ Link + 2 <= link
      /\ link - 1 = sp - nargs
      /\ \A i \in 1 .. nargs - 1 : /\ given - nargs + 1 + i \in 1 .. given
                                   /\ Link + 1 + (given - nargs + 1 + i) = link + i
      /\ \A i \in nargs .. nargs - 1 + nlocals : i \in 1 .. nargs - 1 + nlocals
  BY <1>1, <1>2, <1>3
<1>7. PICK locals, before, after :
        /\ locals = WordsOfMemory(mem, lv + 1, Link - 1) /\ before = WordsOfMemory(mem, Link + 2, sp)
        /\ after = WordsOfMemory(n, link + 1, (top - 1) - 1)
  OBVIOUS
<1>8. Abstract!Frame = [pc |-> pc, locals |-> locals, stack |-> before]
  BY Zenon, <1>7, FrameIs
<1>9. Abstract!Frame.stack = before
  BY <1>8
<1>10. /\ Len(before) = given /\ \A i \in 1 .. given : before[i] = mem[Link + 1 + i]
       /\ SubSeq(before, 1, given - nargs) = WordsOfMemory(mem, Link + 2, link - 1)
  <2>1. /\ Len(before) = given /\ \A i \in 1 .. given : before[i] = mem[Link + 1 + i]
    BY Zenon, <1>1, <1>9, AbstractFrame
  <2>2. Abstract!Popped(nargs) = WordsOfMemory(mem, Link + 2, sp - nargs)
    BY Zenon, <1>3, <1>7, <1>9, PoppedIs
  <2>3. Abstract!Popped(nargs) = SubSeq(before, 1, given - nargs)
    BY Zenon, <1>9, <2>1 DEF Abstract!Popped
  <2> QED  BY Zenon, <1>6, <2>1, <2>2, <2>3
<1>11. /\ DOMAIN Frames' = 1 .. Depth + 2 /\ Frames' = [i \in DOMAIN Frames' |-> Frames'[i]]
       /\ \A i \in 1 .. Depth : Frames'[i] = Abstract!Callers[i]
       /\ Frames'[Depth + 1] = [pc |-> ToUWord(n[n[link]]),
                                locals |-> WordsOfMemory(mem, lv + 1, Link - 1),
                                stack |-> WordsOfMemory(mem, Link + 2, link - 1)]
       /\ Frames'[Depth + 2] = [pc |-> pc', locals |-> WordsOfMemory(n, link + 1, n[link] - 1),
                                stack |-> WordsOfMemory(n, n[link] + 2, sp')]
  BY Zenon, <1>1, <1>3, <1>5, <1>6, CallFrames
<1>12. Frames'[Depth + 1] = Left(Abstract!Frame, After, given - nargs)
  <2> PICK frame, next, kept : frame = Abstract!Frame /\ next = After /\ kept = given - nargs
    OBVIOUS
  <2>1. frame = [pc |-> pc, locals |-> locals, stack |-> before]
    BY <1>8
  <2>2. Leaves(frame, pc, locals, before, next, kept)
    BY <2>1, LeftIs
  <2> QED  BY Zenon, <1>3, <1>7, <1>10, <1>11, <2>2 DEF Leaves
<1>13. Frames'[Depth + 2] = [pc |-> method + 4, locals |-> after, stack |-> <<>>]
  BY Zenon, <1>1, <1>3, <1>5, <1>7, <1>11
<1>14. /\ Len(after) = nargs - 1 + nlocals
       /\ \A i \in 1 .. nargs - 1 : after[i] = before[given - nargs + 1 + i]
       /\ \A i \in nargs .. nargs - 1 + nlocals : after[i] \in Word
  BY ZenonT(60), <1>5, <1>6, <1>7, <1>10
<1>15. /\ Abstract!Callers \in Seq({Frames[i] : i \in 1 .. Depth}) /\ Len(Abstract!Callers) = Depth
  BY CallersAre
<1>16. Abstract!Call(Abstract!Callers, Abstract!Frame, method, After)
  <2>1. PICK callers, caller, S : /\ callers = Abstract!Callers /\ caller = Abstract!Frame
                                  /\ S = {Frames[i] : i \in 1 .. Depth}
    OBVIOUS
  <2>2. callers \in Seq(S) /\ Len(callers) = Depth
    BY Zenon, <1>15, <2>1
  <2>3. /\ nargs \in Nat /\ given \in Nat /\ nargs = Abstract!UInt16(method) /\ 1 <= nargs
        /\ given = Len(caller.stack) /\ nargs <= given
        /\ Frames' = [i \in DOMAIN Frames' |-> Frames'[i]]
        /\ DOMAIN Frames' = 1 .. Len(callers) + 2
        /\ \A i \in 1 .. Len(callers) : Frames'[i] = callers[i]
        /\ Frames'[Len(callers) + 1] = Left(caller, After, given - nargs)
        /\ Frames'[Len(callers) + 2] = [pc |-> method + 4, locals |-> after, stack |-> <<>>]
        /\ Len(after) = nargs - 1 + Abstract!UInt16(method + 2)
        /\ \A i \in 1 .. nargs - 1 : after[i] = caller.stack[given - nargs + 1 + i]
        /\ \A i \in nargs .. Len(after) : after[i] \in Word
    BY Zenon, <1>1, <1>3, <1>6, <1>9, <1>10, <1>11, <1>12, <1>13, <1>14, <2>1, <2>2
  <2>4. wide' = FALSE => Abstract!Call(callers, caller, method, After)
    BY Zenon, <2>2, <2>3, CallIs
  <2> QED  BY Zenon, <1>4, <2>1, <2>4
<1>18. /\ Abstract!pc = pc /\ \A name : Abstract!At(name) <=> Opcode = OP[name]
  BY SameOpcode
<1>19. Opcode = OP.INVOKEVIRTUAL /\ Index < GETCHAR /\ UNCHANGED <<program, input, output, status, result>>
  BY Zenon DEF InvokeVirtual, Executing
<1>20. After = pc + 3 /\ Index = Abstract!UInt16(pc + 1)
  <2>1. After = pc + 3
    BY <1>19, OpcodeAfter
  <2> QED  BY <2>1, LawfulOperands
<1> QED
  BY Zenon, <1>1, <1>16, <1>18, <1>19, <1>20, SameWords DEF Abstract!InvokeVirtual

\* A frame given the value of a call.
Given(frame, value) == [frame EXCEPT !.stack = Append(@, value)]

\* What such a frame is.
IsGiven(frame, p, l, s, value) == Given(frame, value) = [pc |-> p, locals |-> l, stack |-> Append(s, value)]

\* The value is the last word of its operand stack.
LEMMA GivenIs ==
  ASSUME NEW p, NEW l, NEW s, NEW value, NEW frame, frame = [pc |-> p, locals |-> l, stack |-> s]
  PROVE  IsGiven(frame, p, l, s, value)
<1>1. PICK t : t = Append(s, value)
  OBVIOUS
<1>2. frame.stack = s
  OBVIOUS
<1>3. Given(frame, value) = [frame EXCEPT !.stack = t]
  BY Zenon, <1>1, <1>2 DEF Given
<1>4. [frame EXCEPT !.stack = t] = [pc |-> p, locals |-> l, stack |-> t]
  OBVIOUS
<1> QED  BY Zenon, <1>1, <1>3, <1>4 DEF IsGiven

\* One more word in a place.
LEMMA PlaceAppend ==
  ASSUME NEW m \in [Address -> Word], NEW n \in [Address -> Word],
         NEW from \in Int, NEW to \in Int, from <= to + 1, NEW x \in Word, n[to + 1] = x,
         \A w \in from .. to : w \in Address /\ n[w] = m[w]
  PROVE  WordsOfMemory(n, from, to + 1) = Append(WordsOfMemory(m, from, to), x)
<1> DEFINE s == <<x>>
<1>1. s \in Seq(Word) /\ Len(s) = 1 /\ s[1] = x /\ 0 \in Nat /\ 0 <= to - from + 1
  OBVIOUS
<1>2. \A k \in 1 .. Len(s) : n[to + k] = s[k]
  BY <1>1
<1> HIDE DEF s
<1>3. WordsOfMemory(m, from, to) \o s = WordsOfMemory(n, from, to + Len(s))
  BY <1>1, <1>2, PlaceConcat
<1>4. WordsOfMemory(m, from, to) \in Seq(Word)
  BY <1>1, PlacePrefix
<1>5. \A t \in Seq(Word) : t \o <<x>> = Append(t, x)
  OBVIOUS
<1>6. WordsOfMemory(m, from, to) \o s = Append(WordsOfMemory(m, from, to), x)
  BY Zenon, <1>4, <1>5 DEF s
<1> QED  BY Zenon, <1>1, <1>3, <1>6

\* A value on top of the operand stack of a frame.
OnTop(frame, value) == frame.stack[Len(frame.stack)] = value

\* The frame returned to: where the object reference was there is the value now.
LEMMA ReturnedTo ==
  ASSUME program \in Programs, NEW m \in [Address -> Word], NEW n \in [Address -> Word],
         NEW c, NEW top, Chained(m, c, top), NEW k, k = Len(c), k \in DOMAIN c, NEW x \in Word,
         n[c[k]] = x, \A w \in Address : w # c[k] => n[w] = m[w],
         NEW d, \A j \in 1 .. k - 1 : d[j] = c[j]
  PROVE  /\ FrameIn(InitialSp(program), n, d, k - 1, c[k], ToUWord(m[m[c[k]]]))
              = Given(CallerIn(InitialSp(program), m, c, k), x)
         /\ OnTop(FrameIn(InitialSp(program), n, d, k - 1, c[k], ToUWord(m[m[c[k]]])), x)
<1>1. PICK floor, link, next, h : /\ floor = InitialSp(program) /\ link = c[k]
                                  /\ next = ToUWord(m[m[c[k]]]) /\ h = k - 1
  OBVIOUS
<1>2. /\ floor \in Nat /\ link \in Int /\ link \in Address /\ floor < link /\ n[link] = x
      /\ k \in Int /\ 1 <= k /\ k <= Len(c) /\ h \in Int /\ (k # 1 => h \in DOMAIN c /\ h < k /\ h # 0)
      /\ (k = 1 => h = 0) /\ \A w \in Address : w \in Int /\ (w # link => n[w] = m[w])
      /\ \A w \in Int : 0 <= w /\ w <= link => w \in Address
  <2>1. /\ floor \in Nat /\ link \in Int /\ link \in Address /\ floor < link /\ k \in Int
        /\ 1 <= k /\ k <= Len(c) /\ DOMAIN c = 1 .. Len(c) /\ Len(c) \in Nat
    BY Zenon, <1>1, ChainFacts
  <2>2. \A w \in Int : 0 <= w /\ w <= link => w \in Address
    BY <2>1, AddressBounds
  <2>3. \A w \in Address : w \in Int
    BY AddressBounds
  <2> QED  BY <1>1, <2>1, <2>2, <2>3
<1>3. ASSUME NEW from \in Int, floor < from, from <= link
      PROVE  /\ WordsOfMemory(n, from, link) = Append(WordsOfMemory(m, from, link - 1), x)
             /\ WordsOfMemory(n, from, link)[Len(WordsOfMemory(n, from, link))] = x
  <2>1. PICK below : below = link - 1
    OBVIOUS
  <2>2. \A w \in from .. below : w \in Address /\ n[w] = m[w]
    <3> SUFFICES ASSUME NEW w \in from .. below PROVE w \in Address /\ n[w] = m[w]
      OBVIOUS
    <3>1. w \in Int /\ 0 <= w /\ w <= link /\ w # link
      BY <1>2, <1>3, <2>1
    <3> QED  BY <1>2, <3>1
  <2>3. below \in Int /\ from <= below + 1 /\ n[below + 1] = x /\ below + 1 = link
    BY <1>2, <1>3, <2>1
  <2>4. WordsOfMemory(n, from, below + 1) = Append(WordsOfMemory(m, from, below), x)
    BY <2>2, <2>3, PlaceAppend
  <2>5. /\ Len(WordsOfMemory(n, from, link)) = link - from + 1 /\ link - from + 1 \in 1 .. link - from + 1
        /\ \A i \in 1 .. link - from + 1 : WordsOfMemory(n, from, link)[i] = n[from + i - 1]
        /\ from + (link - from + 1) - 1 = link
    <3>1. link \in Int /\ from <= link + 1 /\ link - from + 1 \in 1 .. link - from + 1
          /\ from + (link - from + 1) - 1 = link
      BY <1>2, <1>3
    <3> QED  BY <3>1, MemoryWords
  <2> QED  BY ZenonT(60), <1>2, <2>1, <2>3, <2>4, <2>5
<1>4. CASE k = 1
  <2>1. h = 0 /\ floor + 1 \in Int /\ floor < floor + 1 /\ floor + 1 <= link
    BY <1>2, <1>4
  <2>2. CallerIn(floor, m, c, k)
          = [pc |-> next, locals |-> <<>>, stack |-> WordsOfMemory(m, floor + 1, link - 1)]
    BY Zenon, <1>1, <2>1 DEF CallerIn, FrameIn
  <2>3. Given(CallerIn(floor, m, c, k), x)
          = [pc |-> next, locals |-> <<>>, stack |-> Append(WordsOfMemory(m, floor + 1, link - 1), x)]
    <3>1. PICK frame, l, t : /\ frame = CallerIn(floor, m, c, k) /\ l = <<>>
                             /\ t = WordsOfMemory(m, floor + 1, link - 1)
      OBVIOUS
    <3>2. IsGiven(frame, next, l, t, x)
      BY <2>2, <3>1, GivenIs
    <3> QED  BY Zenon, <3>1, <3>2 DEF IsGiven
  <2>4. WordsOfMemory(n, floor + 1, link) = Append(WordsOfMemory(m, floor + 1, link - 1), x)
    BY <1>3, <2>1
  <2>5. WordsOfMemory(n, floor + 1, link)[Len(WordsOfMemory(n, floor + 1, link))] = x
    BY <1>3, <2>1
  <2>6. FrameIn(floor, n, d, h, link, next)
          = [pc |-> next, locals |-> <<>>, stack |-> WordsOfMemory(n, floor + 1, link)]
    BY Zenon, <2>1 DEF FrameIn
  <2>7. FrameIn(floor, n, d, h, link, next).stack = WordsOfMemory(n, floor + 1, link)
    BY <2>6
  <2>8. OnTop(FrameIn(floor, n, d, h, link, next), x)
    BY Zenon, <2>5, <2>7 DEF OnTop
  <2> QED  BY Zenon, <1>1, <2>3, <2>4, <2>6, <2>8
<1>5. CASE k # 1
  <2>1. PICK base, saved : base = c[h] /\ saved = m[c[h]]
    OBVIOUS
  <2>2. h \in DOMAIN c /\ h < k /\ h # 0 /\ k \in DOMAIN c /\ h \in 1 .. k - 1
    BY <1>2, <1>5
  <2>3. /\ base \in Int /\ base \in Address /\ saved \in Int /\ saved \in Address
        /\ floor < base /\ base < saved
    BY ZenonT(60), <1>1, <2>1, <2>2, ChainFacts
  <2>4. saved + 1 < link
    BY Zenon, <1>1, <2>1, <2>2 DEF Chained
  <2>5. d[h] = base /\ n[base] = saved
    <3>1. base # link
      BY <1>2, <2>3, <2>4
    <3> QED  BY Zenon, <1>2, <2>1, <2>2, <2>3, <3>1
  <2>6. WordsOfMemory(n, base + 1, saved - 1) = WordsOfMemory(m, base + 1, saved - 1)
    <3>1. base + 1 \in Int /\ saved - 1 \in Int
      BY <2>3
    <3>2. \A w \in base + 1 .. saved - 1 : n[w] = m[w]
      <4> SUFFICES ASSUME NEW w \in base + 1 .. saved - 1 PROVE n[w] = m[w]
        OBVIOUS
      <4>1. w \in Int /\ 0 <= w /\ w <= link /\ w # link
        BY <1>2, <2>3, <2>4
      <4> QED  BY <1>2, <4>1
    <3> QED  BY <3>1, <3>2, SamePlace
  <2>7. saved + 2 \in Int /\ floor < saved + 2 /\ saved + 2 <= link
    BY <1>2, <2>3, <2>4
  <2>8. CallerIn(floor, m, c, k)
          = [pc |-> next, locals |-> WordsOfMemory(m, base + 1, saved - 1),
             stack |-> WordsOfMemory(m, saved + 2, link - 1)]
    BY Zenon, <1>1, <2>1, <2>2 DEF CallerIn, FrameIn
  <2>9. Given(CallerIn(floor, m, c, k), x)
          = [pc |-> next, locals |-> WordsOfMemory(m, base + 1, saved - 1),
             stack |-> Append(WordsOfMemory(m, saved + 2, link - 1), x)]
    <3>1. PICK frame, l, t : /\ frame = CallerIn(floor, m, c, k)
                             /\ l = WordsOfMemory(m, base + 1, saved - 1)
                             /\ t = WordsOfMemory(m, saved + 2, link - 1)
      OBVIOUS
    <3>2. IsGiven(frame, next, l, t, x)
      BY <2>8, <3>1, GivenIs
    <3> QED  BY Zenon, <3>1, <3>2 DEF IsGiven
  <2>10. WordsOfMemory(n, saved + 2, link) = Append(WordsOfMemory(m, saved + 2, link - 1), x)
    BY <1>3, <2>7
  <2>11. FrameIn(floor, n, d, h, link, next)
           = [pc |-> next, locals |-> WordsOfMemory(n, base + 1, saved - 1),
              stack |-> WordsOfMemory(n, saved + 2, link)]
    BY Zenon, <2>2, <2>5 DEF FrameIn
  <2>12. WordsOfMemory(n, saved + 2, link)[Len(WordsOfMemory(n, saved + 2, link))] = x
    BY <1>3, <2>7
  <2>13. FrameIn(floor, n, d, h, link, next).stack = WordsOfMemory(n, saved + 2, link)
    BY <2>11
  <2>14. OnTop(FrameIn(floor, n, d, h, link, next), x)
    BY Zenon, <2>12, <2>13 DEF OnTop
  <2> QED  BY Zenon, <1>1, <2>6, <2>9, <2>10, <2>11, <2>14
<1> QED  BY <1>4, <1>5

\* What a return does to the history variable.
CallsPopped == calls' = SubSeq(calls, 1, Len(calls) - 1)

\* The frames before and after a return.
LEMMA ReturnFrames ==
  ASSUME Executed, Ireturn, CallsPopped
  PROVE  /\ Frames' = Append(Abstract!Front(Abstract!Callers),
                             Given(Abstract!Last(Abstract!Callers), mem[sp]))
         /\ OnTop(Abstract!Last(Frames'), mem[sp])
<1>1. PICK n, x, k : n = mem' /\ x = mem[sp] /\ k = Depth
  OBVIOUS
<1>2. PICK h : h = k - 1
  OBVIOUS
<1>3. PICK d : d = calls'
  OBVIOUS
<1> DEFINE floor == InitialSp(program)
<1>4. /\ program \in Programs /\ mem \in [Address -> Word] /\ Chained(mem, calls, sp)
      /\ calls \in Seq(Address) /\ k = Len(calls) /\ k \in Nat /\ k >= 1
      /\ k \in DOMAIN calls /\ lv = calls[k] /\ Link = mem[calls[k]]
      /\ h \in Nat /\ h + 1 = k
  BY <1>1, <1>2, ExecutedFrame DEF Depth, Link
<1>5. /\ sp' = calls[k] /\ n \in [Address -> Word] /\ n[calls[k]] = x /\ x \in Word
      /\ \A w \in Address : w # calls[k] => n[w] = mem[w]
      /\ pc' = ToUWord(mem[mem[calls[k]]]) /\ program' = program
  <2>1. /\ sp' = lv /\ mem' = [mem EXCEPT ![lv] = mem[sp]] /\ mem' \in [Address -> Word]
        /\ mem'[lv] = mem[sp] /\ mem[sp] \in Word
        /\ pc' = ToUWord(mem[Link]) /\ program' = program
    BY ReturnStep
  <2>2. \A w \in Address : w # lv => mem'[w] = mem[w]
    BY <1>4, <2>1
  <2> QED  BY Zenon, <1>1, <1>4, <2>1, <2>2
<1>6. d \in Seq(Address) /\ Len(d) = h /\ \A i \in 1 .. h : d[i] = calls[i]
  <2>1. \A q \in Nat : q <= Len(calls) =>
          /\ SubSeq(calls, 1, q) \in Seq(Address) /\ Len(SubSeq(calls, 1, q)) = q
          /\ \A i \in 1 .. q : SubSeq(calls, 1, q)[i] = calls[i]
    BY <1>4, Prefix
  <2>2. h <= Len(calls) /\ Len(calls) - 1 = h
    BY <1>4
  <2> QED  BY Zenon, <1>3, <1>4, <2>1, <2>2 DEF CallsPopped
<1>7. /\ DOMAIN Frames' = 1 .. k
      /\ \A i \in 1 .. k : Frames[i] = CallerIn(floor, mem, calls, i)
      /\ \A i \in 1 .. h : Frames'[i] = CallerIn(floor, n, d, i)
      /\ Frames'[k] = FrameIn(floor, n, d, h, calls[k], ToUWord(mem[mem[calls[k]]]))
      /\ Len(Frames') = k
  BY Zenon, <1>1, <1>3, <1>4, <1>5, <1>6, FramesAre
<1>8. \A i \in 1 .. h : CallerIn(floor, n, d, i) = CallerIn(floor, mem, calls, i)
  <2> SUFFICES ASSUME NEW i \in 1 .. h
               PROVE CallerIn(floor, n, d, i) = CallerIn(floor, mem, calls, i)
    OBVIOUS
  <2>1. h \in DOMAIN calls /\ h < k
    BY <1>4
  <2>2. \A w \in Address : w <= calls[h] \/ w = mem[calls[h]] => n[w] = mem[w]
    <3>1. /\ calls[h] \in Int /\ mem[calls[h]] \in Int /\ calls[h] < mem[calls[h]]
          /\ mem[calls[h]] + 1 < calls[k] /\ calls[k] \in Int
      <4>1. mem[calls[h]] + 1 < calls[k]
        BY <1>4, <2>1 DEF Chained
      <4> QED  BY <1>4, <2>1, <4>1, ChainFacts
    <3> SUFFICES ASSUME NEW w \in Address, w <= calls[h] \/ w = mem[calls[h]] PROVE n[w] = mem[w]
      OBVIOUS
    <3>2. w \in Int
      BY AddressBounds
    <3>3. w # calls[k]
      BY <3>1, <3>2
    <3> QED  BY <1>5, <3>3
  <2>3. /\ program \in Programs /\ mem \in [Address -> Word] /\ n \in [Address -> Word]
        /\ Chained(mem, calls, sp) /\ \A j \in 1 .. h : d[j] = calls[j]
    BY Zenon, <1>4, <1>5, <1>6
  <2> QED  BY <2>1, <2>2, <2>3, CallersStay
<1>9. Frames'[k] = Given(Frames[k], x) /\ OnTop(Frames'[k], x)
  <2>1. /\ program \in Programs /\ mem \in [Address -> Word] /\ n \in [Address -> Word]
        /\ Chained(mem, calls, sp) /\ k = Len(calls) /\ k \in DOMAIN calls /\ x \in Word
        /\ n[calls[k]] = x /\ \A w \in Address : w # calls[k] => n[w] = mem[w]
        /\ \A j \in 1 .. k - 1 : d[j] = calls[j]
    BY Zenon, <1>2, <1>4, <1>5, <1>6
  <2>2. /\ FrameIn(floor, n, d, k - 1, calls[k], ToUWord(mem[mem[calls[k]]]))
            = Given(CallerIn(floor, mem, calls, k), x)
        /\ OnTop(FrameIn(floor, n, d, k - 1, calls[k], ToUWord(mem[mem[calls[k]]])), x)
    BY <2>1, ReturnedTo
  <2>3. k \in 1 .. k
    BY <1>4
  <2> QED  BY Zenon, <1>2, <1>7, <2>2, <2>3
<1>10. PICK callers, S : callers = Abstract!Callers /\ S = {Frames[i] : i \in 1 .. k}
  OBVIOUS
<1>11. /\ callers = [i \in 1 .. k |-> Frames[i]] /\ Len(callers) = k
       /\ DOMAIN callers = 1 .. h + 1 /\ callers = [i \in DOMAIN callers |-> callers[i]]
       /\ callers[k] = Frames[k]
       /\ \A i \in 1 .. h : callers[i] = Frames[i] /\ callers[i] \in S
  <2>1. callers = [i \in 1 .. k |-> Frames[i]] /\ Len(callers) = k
    BY Zenon, <1>1, <1>10, CallersAre
  <2>2. k \in 1 .. k /\ \A i \in 1 .. h : i \in 1 .. k
    BY <1>4
  <2> QED  BY <1>4, <1>10, <2>1, <2>2
<1>12. PICK front : front = Abstract!Front(callers)
  OBVIOUS
<1>13. front = [i \in 1 .. h |-> callers[i]]
  <2>1. SubSeq(callers, 1, Len(callers) - 1) = [i \in 1 .. h |-> callers[i]]
    BY <1>4, <1>11, FrontIs
  <2> QED  BY Zenon, <1>12, <2>1 DEF Abstract!Front
<1>14. front \in Seq(S) /\ Len(front) = h /\ \A i \in 1 .. h : front[i] = Frames'[i]
  <2>1. h \in Nat /\ \A i \in 1 .. h : callers[i] \in S
    BY <1>4, <1>11
  <2>2. front \in Seq(S) /\ Len(front) = h
    BY <1>13, <2>1
  <2>3. \A i \in 1 .. h : front[i] = Frames'[i]
    <3> SUFFICES ASSUME NEW i \in 1 .. h PROVE front[i] = Frames'[i]
      OBVIOUS
    <3>1. i \in 1 .. k
      BY <1>4
    <3>2. front[i] = callers[i]
      BY <1>13
    <3> QED  BY ZenonT(60), <1>7, <1>8, <1>11, <3>1, <3>2
  <2> QED  BY <2>2, <2>3
<1>15. Frames' = [i \in DOMAIN Frames' |-> Frames'[i]]
  <2>1. Frames' = [i \in 1 .. Depth' + 1 |-> FrameOf(i - 1)']
    BY Zenon DEF Frames
  <2> QED  BY <2>1
<1>16. Frames' = Append(front, Frames'[Len(front) + 1])
  <2>1. DOMAIN Frames' = 1 .. Len(front) + 1 /\ \A i \in 1 .. Len(front) : Frames'[i] = front[i]
    BY Zenon, <1>4, <1>7, <1>14
  <2> QED  BY <1>14, <1>15, <2>1, AppendIs
<1>17. Abstract!Last(callers) = Frames[k] /\ Abstract!Last(Frames') = Frames'[k]
  BY Zenon, <1>7, <1>11 DEF Abstract!Last
<1> QED  BY Zenon, <1>1, <1>4, <1>9, <1>10, <1>12, <1>14, <1>16, <1>17

\* A return: the frame goes, and its caller has the value of the call.
LEMMA IreturnRefines ==
  ASSUME Executed, ProgramsAreLawful, Ireturn, CallsPopped
  PROVE  Abstract!Ireturn
<1>1. /\ Abstract!pc = pc /\ \A name : Abstract!At(name) <=> Opcode = OP[name]
  BY SameOpcode
<1>2. Opcode = OP.IRETURN
  BY Zenon DEF Ireturn, Executing
<1>3. /\ wide' = FALSE /\ mem[sp] \in Word
      /\ UNCHANGED <<program, input, output, status, result>>
  BY ReturnStep
<1>4. PICK value : value = Abstract!Last(Abstract!Last(Frames').stack)
  OBVIOUS
<1>5. /\ Frames' = Append(Abstract!Front(Abstract!Callers),
                          Given(Abstract!Last(Abstract!Callers), mem[sp]))
      /\ value = mem[sp]
  BY Zenon, <1>4, ReturnFrames DEF OnTop, Abstract!Last
<1>6. Abstract!Frame.stack # <<>> => value = Abstract!Operand(0)
  <2>1. /\ Abstract!Frame.stack = WordsOfMemory(mem, Link + 2, sp)
        /\ Link \in Int /\ sp \in Int /\ Link < sp
    BY FrameIs, FramePlaces
  <2>2. Link + 2 \in Int /\ Link + 2 <= sp + 1 /\ (~(sp < Link + 2) => Link + 2 <= sp)
    BY <2>1
  <2>3. WordsOfMemory(mem, Link + 2, sp) = <<>> <=> sp < Link + 2
    BY <2>1, <2>2, MemoryWords
  <2> QED  BY Zenon, <1>5, <2>1, <2>2, <2>3, OperandsAre
<1>7. /\ Frames' = Append(Abstract!Front(Abstract!Callers),
                          [Abstract!Last(Abstract!Callers) EXCEPT !.stack = Append(@, value)])
      /\ IF Abstract!Frame.stack = <<>> THEN value \in Abstract!Word ELSE value = Abstract!Operand(0)
  BY Zenon, <1>3, <1>5, <1>6, SameWords DEF Given
<1> QED
  BY Zenon, <1>1, <1>2, <1>3, <1>4, <1>7, SameWords DEF Abstract!Ireturn

-----------------------------------------------------------------------------
(* Before main and after it. *)

\* The words above the object reference are the arguments.
LEMMA ArgumentsAre ==
  ASSUME NEW p \in Programs, NEW m, NEW i \in 1 .. Len(p.args),
         InitialSp(p) + 1 + i \in Address
  PROVE  WithArguments(p, m)[InitialSp(p) + 1 + i] = ToWord(p.args[i])
<1>1. /\ InitialSp(p) \in Nat /\ ArgumentsTop(p) = InitialSp(p) + 1 + Len(p.args)
      /\ p.args \in Seq(Int \union {NotANumber})
  BY ProgramParts
<1> PICK w, floor : w = InitialSp(p) + 1 + i /\ floor = InitialSp(p)
  OBVIOUS
<1>2. /\ w \in floor + 1 .. ArgumentsTop(p) /\ w \in Address /\ w - floor = 1 + i
  BY <1>1
<1>3. Arguments(p)[1 + i] = p.args[i]
  <2>1. \A s \in Seq(Int \union {NotANumber}) : \A x : \A k \in 1 .. Len(s) : (<<x>> \o s)[1 + k] = s[k]
    OBVIOUS
  <2> QED  BY Zenon, <1>1, <2>1 DEF Arguments
<1> QED  BY Zenon, <1>2, <1>3 DEF WithArguments

\* What ijvm_new calls main on.
Stack(args) == <<INITIAL_OBJ_REF>> \o [i \in 1 .. Len(args) |-> ToWord(args[i])]

\* The object reference, below the arguments as words.
LEMMA StackIs ==
  ASSUME NEW args, Len(args) \in Nat
  PROVE  /\ Len(Stack(args)) = Len(args) + 1
         /\ \A i \in 1 .. Len(args) : Stack(args)[1 + i] = ToWord(args[i])
         /\ SubSeq(Stack(args), 1, 0) = <<>>
<1>1. PICK n, s, S : /\ n = Len(args) /\ s = [i \in 1 .. n |-> ToWord(args[i])]
                     /\ S = {ToWord(args[i]) : i \in 1 .. n} \cup {INITIAL_OBJ_REF}
  OBVIOUS
<1>2. n \in Nat /\ s \in Seq(S) /\ Len(s) = n /\ (\A i \in 1 .. n : s[i] = ToWord(args[i]))
      /\ INITIAL_OBJ_REF \in S
  BY <1>1
<1>3. \A x \in S : /\ <<x>> \o s \in Seq(S) /\ Len(<<x>> \o s) = n + 1
                   /\ \A i \in 1 .. n : (<<x>> \o s)[1 + i] = s[i]
  BY <1>2
<1>4. \A t \in Seq(S) : SubSeq(t, 1, 0) = <<>>
  OBVIOUS
<1> QED  BY Zenon, <1>1, <1>2, <1>3, <1>4 DEF Stack

\* The call of main.
LEMMA StartMainRefines ==
  ASSUME TypeOK, ProgramsAreLawful, StartMain, calls = <<>>, CallsPushed
  PROVE  Abstract!StartMain
<1>1. PICK m, method, nlocals, nargs, floor, n, link, top, given, s :
        /\ given = Len(program.args) /\ s = ArgumentsTop(program)
        /\ m = WithArguments(program, Loaded(program)) /\ method = Abstract!Constant(program.main)
        /\ nlocals = Abstract!UInt16(method + 2) /\ nargs = Abstract!UInt16(method)
        /\ floor = InitialSp(program) /\ n = mem' /\ link = lv' /\ top = sp'
  OBVIOUS
<1>2. /\ program \in Programs /\ m \in [Address -> Word] /\ floor \in Nat
      /\ method \in Nat /\ nlocals \in Nat /\ nargs = given + 1
      /\ top = s + nlocals + 2 /\ top \in Address
      /\ link = floor + 1 /\ link \in Address
      /\ pc' = method + 4 /\ wide' = FALSE
      /\ n \in [Address -> Word] /\ n[link] = top - 1 /\ ToUWord(n[top - 1]) = INITIAL_PC
      /\ \A w \in Address : w # link /\ w # top - 1 /\ w # top => n[w] = m[w]
      /\ status' = "run" /\ UNCHANGED <<program, input, output, result>>
  BY Zenon, <1>1, StartStep
<1>3. given \in Nat /\ s = floor + 1 + given /\ top \in Int
  <2>1. /\ ArgumentsTop(program) = InitialSp(program) + 1 + Len(program.args)
        /\ program.args \in Seq(Int \union {NotANumber})
    BY <1>2, ProgramParts
  <2>2. \A t \in Seq(Int \union {NotANumber}) : Len(t) \in Nat
    OBVIOUS
  <2>3. given \in Nat
    BY Zenon, <1>1, <2>1, <2>2
  <2>4. s = floor + 1 + given
    BY Zenon, <1>1, <2>1
  <2>5. top \in Int
    BY <1>2, AddressBounds
  <2> QED  BY <2>3, <2>4, <2>5
<1>4. /\ nargs \in Nat /\ 1 <= nargs /\ nargs - 1 = given /\ nargs - nargs = 0
      /\ s \in Int /\ s < top /\ link = s + 1 - nargs
      /\ link - 1 = floor /\ floor < floor + 1
      /\ \A i \in 1 .. nargs - 1 : nargs - nargs + 1 + i = 1 + i
      /\ \A i \in nargs .. nargs - 1 + nlocals : i \in 1 .. nargs - 1 + nlocals
  <2>1. /\ floor \in Nat /\ nlocals \in Nat /\ nargs = given + 1 /\ top = s + nlocals + 2
        /\ link = floor + 1
    BY Zenon, <1>2
  <2> QED  BY <1>3, <2>1
<1>5. Made(m, n, top, link, nargs, nlocals)
  BY ZenonT(60), <1>2, <1>3, <1>4, CalleePlaces
<1>6. PICK d : d = <<link>>
  OBVIOUS
<1>7. d \in Seq(Address) /\ Len(d) = 1 /\ d[1] = link /\ calls' = d /\ calls \in Seq(Address)
      /\ Len(calls) = 0 /\ 1 \in 1 .. 1 /\ 1 + 1 = 2 /\ 1 - 1 = 0 /\ 1 # 0
  <2>1. \A x : Append(<<>>, x) = <<x>>
    OBVIOUS
  <2>2. calls' = Append(calls, lv')
    BY Zenon DEF CallsPushed
  <2>3. calls' = d
    BY Zenon, <1>1, <1>6, <2>1, <2>2
  <2>4. calls \in Seq(Address) /\ Len(calls) = 0
    OBVIOUS
  <2>5. d \in Seq(Address) /\ Len(d) = 1 /\ d[1] = link
    BY <1>2, <1>6
  <2> QED  BY <2>3, <2>4, <2>5
<1>8. /\ DOMAIN Frames' = 1 .. 2
      /\ Frames'[1] = CallerIn(floor, n, d, 1)
      /\ Frames'[2] = FrameIn(floor, n, d, 1, top, pc')
  BY ZenonT(60), <1>1, <1>2, <1>7, FramesAre
<1>9. WordsOfMemory(n, floor + 1, link - 1) = <<>>
  BY Zenon, <1>4 DEF WordsOfMemory
<1>10. Frames'[1] = [pc |-> INITIAL_PC, locals |-> <<>>, stack |-> <<>>]
  BY Zenon, <1>2, <1>7, <1>8, <1>9 DEF CallerIn, FrameIn
<1>11. PICK locals : locals = WordsOfMemory(n, link + 1, (top - 1) - 1)
  OBVIOUS
<1>12. Frames'[2] = [pc |-> method + 4, locals |-> locals, stack |-> <<>>]
  <2>1. Frames'[2] = [pc |-> pc', locals |-> WordsOfMemory(n, d[1] + 1, n[d[1]] - 1),
                      stack |-> WordsOfMemory(n, n[d[1]] + 2, top)]
    BY Zenon, <1>7, <1>8 DEF FrameIn
  <2>2. WordsOfMemory(n, (top - 1) + 2, top) = <<>>
    BY Zenon, <1>5 DEF Made
  <2>3. d[1] = link /\ n[link] = top - 1 /\ pc' = method + 4
    BY Zenon, <1>2, <1>7
  <2>4. Frames'[2] = [pc |-> pc', locals |-> WordsOfMemory(n, link + 1, (top - 1) - 1),
                      stack |-> WordsOfMemory(n, (top - 1) + 2, top)]
    BY Zenon, <2>1, <2>3
  <2> QED  BY Zenon, <1>11, <2>2, <2>3, <2>4
<1>13. PICK caller : caller = [pc |-> INITIAL_PC, locals |-> <<>>, stack |-> Stack(program.args)]
  OBVIOUS
<1>14. caller.stack = Stack(program.args)
  BY Zenon, <1>13
<1>15. /\ Len(caller.stack) = nargs /\ \A i \in 1 .. nargs - 1 : caller.stack[1 + i] = ToWord(program.args[i])
       /\ SubSeq(Stack(program.args), 1, 0) = <<>>
  <2>1. /\ Len(Stack(program.args)) = given + 1
        /\ \A i \in 1 .. given : Stack(program.args)[1 + i] = ToWord(program.args[i])
        /\ SubSeq(Stack(program.args), 1, 0) = <<>>
    BY <1>1, <1>3, StackIs
  <2> QED  BY Zenon, <1>2, <1>4, <1>14, <2>1
<1>16. Frames'[1] = Left(caller, INITIAL_PC, nargs - nargs)
  <2>1. PICK p, l, t : p = INITIAL_PC /\ l = <<>> /\ t = Stack(program.args)
    OBVIOUS
  <2>2. caller = [pc |-> p, locals |-> l, stack |-> t]
    BY <1>13, <2>1
  <2>3. PICK z : z = nargs - nargs
    OBVIOUS
  <2>4. Leaves(caller, p, l, t, p, z)
    BY <2>2, LeftIs
  <2>5. Left(caller, p, z) = [pc |-> p, locals |-> l, stack |-> SubSeq(t, 1, z)]
    BY Zenon, <2>4 DEF Leaves
  <2> QED  BY Zenon, <1>4, <1>10, <1>15, <2>1, <2>3, <2>5
<1>17. \A i \in 1 .. nargs - 1 : m[link + i] = ToWord(program.args[i])
  <2> SUFFICES ASSUME NEW i \in 1 .. nargs - 1 PROVE m[link + i] = ToWord(program.args[i])
    OBVIOUS
  <2>1. i \in 1 .. Len(program.args)
    BY Zenon, <1>1, <1>4
  <2>2. link + i \in Int /\ 0 <= link + i /\ link + i <= top /\ link + i = floor + 1 + i
    <3>1. floor \in Nat /\ link = floor + 1 /\ nargs - 1 = given /\ s < top /\ s \in Int
      BY <1>2, <1>4
    <3> QED  BY <1>3, <3>1
  <2>3. InitialSp(program) + 1 + i \in Address
    <3>1. link + i \in Address
      BY <1>2, <2>2, AddressBounds
    <3> QED  BY Zenon, <1>1, <2>2, <3>1
  <2>4. program \in Programs /\ m = WithArguments(program, Loaded(program))
        /\ floor = InitialSp(program)
    BY Zenon, <1>1, <1>2
  <2>5. WithArguments(program, Loaded(program))[InitialSp(program) + 1 + i] = ToWord(program.args[i])
    BY Zenon, <2>1, <2>3, <2>4, ArgumentsAre
  <2> QED  BY Zenon, <2>2, <2>4, <2>5
<1>18. /\ Len(locals) = nargs - 1 + nlocals
       /\ \A i \in 1 .. nargs - 1 : locals[i] = ToWord(program.args[i])
       /\ \A i \in nargs .. nargs - 1 + nlocals : locals[i] \in Word
  BY Zenon, <1>4, <1>5, <1>11, <1>17 DEF Made
<1>19. Frames' = [i \in DOMAIN Frames' |-> Frames'[i]]
  <2>1. Frames' = [i \in 1 .. Depth' + 1 |-> FrameOf(i - 1)']
    BY Zenon DEF Frames
  <2> QED  BY <2>1
<1>20. wide' = FALSE => Abstract!Call(<<>>, caller, method, INITIAL_PC)
  <2>1. PICK callers, S : callers = <<>> /\ S = {}
    OBVIOUS
  <2>2. callers \in Seq(S) /\ Len(callers) = 0
    BY <2>1
  <2>3. /\ nargs \in Nat /\ nargs = Abstract!UInt16(method) /\ 1 <= nargs
        /\ nargs = Len(caller.stack) /\ nargs <= nargs
        /\ Frames' = [i \in DOMAIN Frames' |-> Frames'[i]]
        /\ DOMAIN Frames' = 1 .. Len(callers) + 2
        /\ \A i \in 1 .. Len(callers) : Frames'[i] = callers[i]
        /\ Frames'[Len(callers) + 1] = Left(caller, INITIAL_PC, nargs - nargs)
        /\ Frames'[Len(callers) + 2] = [pc |-> method + 4, locals |-> locals, stack |-> <<>>]
        /\ Len(locals) = nargs - 1 + Abstract!UInt16(method + 2)
        /\ \A i \in 1 .. nargs - 1 : locals[i] = caller.stack[nargs - nargs + 1 + i]
        /\ \A i \in nargs .. Len(locals) : locals[i] \in Word
    <3>1. 0 + 2 = 2 /\ 0 + 1 = 1 /\ nargs <= nargs /\ \A i \in 1 .. 0 : FALSE
      BY <1>4
    <3> QED  BY Zenon, <1>1, <1>4, <1>8, <1>12, <1>15, <1>16, <1>18, <1>19, <2>2, <3>1
  <2> HIDE <1>12, <1>13
  <2>4. wide' = FALSE => Abstract!Call(callers, caller, method, INITIAL_PC)
    BY Zenon, <2>2, <2>3, CallIs
  <2> QED  BY Zenon, <2>1, <2>4
<1>21. /\ status = "start" /\ Len(program.args) = Abstract!UInt16(method) - 1
       /\ \A i \in 1 .. Len(program.args) : program.args[i] # NotANumber
  <2>1. status = "start" /\ ArgumentsAreNumbers(program)
    BY Zenon DEF StartMain
  <2>2. DOMAIN program.args = 1 .. Len(program.args)
    BY <1>2, ProgramParts
  <2> QED  BY Zenon, <1>1, <1>4, <2>1, <2>2 DEF ArgumentsAreNumbers
<1>22. caller = [pc |-> Abstract!INITIAL_PC, locals |-> <<>>,
                 stack |-> <<Abstract!INITIAL_OBJ_REF>>
                             \o [i \in 1 .. Len(program.args) |-> Abstract!ToWord(program.args[i])]]
  <2>1. [i \in 1 .. Len(program.args) |-> Abstract!ToWord(program.args[i])]
          = [i \in 1 .. Len(program.args) |-> ToWord(program.args[i])]
    BY SameWords
  <2> QED  BY Zenon, <1>13, <2>1, SameWords DEF Stack
<1> QED
  BY Zenon, <1>1, <1>2, <1>20, <1>21, <1>22, SameWords DEF Abstract!StartMain, Abstract!Main

-----------------------------------------------------------------------------
(* The words that the frames take. *)

\* A set of natural numbers that is not empty has a least one.
LEMMA LeastNatural ==
  ASSUME NEW S \in SUBSET Nat, S # {}
  PROVE  \E x \in S : \A y \in S : x <= y
<1> DEFINE R == {ss \in Nat \X Nat : ss[1] < ss[2]}
<1>1. IsWellFoundedOn(R, Nat)
  BY NatLessThanWellFounded DEF OpToRel
<1> HIDE DEF R
<1>2. PICK x \in S : \A y \in S : ~(<<y, x>> \in R)
  BY <1>1, WFMin, Zenon
<1>3. \A y \in S : ~(y < x)
  BY <1>2 DEF R
<1> QED  BY <1>3

\* The sum of the words of frames is the one that a function has which grows by
\* the words of one frame after the other.
LEMMA WordsAddUp ==
  ASSUME NEW g \in [0 .. Len(Frames) -> Int], Len(Frames) \in Nat, g[0] = 0,
         \A n \in 1 .. Len(Frames) :
            Abstract!WordsOf(Frames[n]) \in Int /\ g[n] = g[n - 1] + Abstract!WordsOf(Frames[n])
  PROVE  Abstract!Used = CppOf(program) + Len(program.cpool) + g[Len(Frames)] - 3
<1> DEFINE upto[n \in 0 .. Len(Frames)] ==
             IF n = 0 THEN 0 ELSE upto[n - 1] + Abstract!WordsOf(Frames[n])
<1>1. Abstract!Used = CppOf(program) + Len(program.cpool) + upto[Len(Frames)] - 3
  BY Zenon DEF Abstract!Used, CppOf
<1> DEFINE Sums(u) == u = [n \in 0 .. Len(Frames) |->
                             IF n = 0 THEN 0 ELSE u[n - 1] + Abstract!WordsOf(Frames[n])]
<1>2. Sums(g)
  <2>1. \A n \in 0 .. Len(Frames) :
          g[n] = IF n = 0 THEN 0 ELSE g[n - 1] + Abstract!WordsOf(Frames[n])
    <3>1. \A n \in 0 .. Len(Frames) : n = 0 \/ n \in 1 .. Len(Frames)
      OBVIOUS
    <3> QED  BY <3>1
  <2> QED  BY <2>1
<1>3. upto = CHOOSE u : Sums(u)
  BY Zenon
<1> HIDE DEF upto
<1>4. Sums(upto)
  <2> HIDE DEF Sums
  <2> QED  BY <1>2, <1>3
<1>5. \A n \in 0 .. Len(Frames) :
        upto[n] = IF n = 0 THEN 0 ELSE upto[n - 1] + Abstract!WordsOf(Frames[n])
  BY <1>4
<1> HIDE DEF Sums
<1>6. \A n \in 0 .. Len(Frames) : upto[n] = g[n]
  <2> DEFINE S == {n \in 0 .. Len(Frames) : upto[n] # g[n]}
  <2> SUFFICES ASSUME S # {} PROVE FALSE
    OBVIOUS
  <2>1. S \in SUBSET Nat
    OBVIOUS
  <2>2. PICK x \in S : \A y \in S : x <= y
    BY <2>1, LeastNatural
  <2>3. x \in 0 .. Len(Frames) /\ upto[x] # g[x]
    OBVIOUS
  <2>4. x # 0
    BY <1>5, <2>3
  <2>5. x - 1 \in 0 .. Len(Frames) /\ x \in 1 .. Len(Frames) /\ ~(x <= x - 1)
    BY <2>3, <2>4
  <2>6. upto[x - 1] = g[x - 1]
    BY <2>2, <2>5
  <2> HIDE DEF S
  <2> QED  BY <1>5, <2>3, <2>4, <2>5, <2>6
<1>7. Len(Frames) \in 0 .. Len(Frames)
  OBVIOUS
<1> QED  BY Zenon, <1>1, <1>6, <1>7

\* A frame takes the words from its link pointer to its top.
LEMMA FrameSize ==
  ASSUME NEW floor, NEW m, NEW c, NEW n, n # 0, NEW base \in Int, NEW saved \in Int, NEW top \in Int,
         NEW next, base = c[n], saved = m[base], base < saved, saved < top
  PROVE  Abstract!WordsOf(FrameIn(floor, m, c, n, top, next)) = (top + 1) - base
<1>1. PICK frame, l, s : /\ frame = FrameIn(floor, m, c, n, top, next)
                         /\ l = WordsOfMemory(m, base + 1, saved - 1)
                         /\ s = WordsOfMemory(m, saved + 2, top)
  OBVIOUS
<1>2. frame = [pc |-> next, locals |-> l, stack |-> s]
  BY Zenon, <1>1 DEF FrameIn
<1>3. frame.locals = l /\ frame.stack = s
  BY <1>2
<1>4. Len(l) = saved - base - 1
  <2>1. PICK from, to : from = base + 1 /\ to = saved - 1
    OBVIOUS
  <2>2. from \in Int /\ to \in Int /\ from <= to + 1 /\ to - from + 1 = saved - base - 1
    BY <2>1
  <2>3. Len(WordsOfMemory(m, from, to)) = to - from + 1
    BY <2>2, MemoryWords
  <2> QED  BY Zenon, <1>1, <2>1, <2>2, <2>3
<1>5. Len(s) = top - saved - 1
  <2>1. PICK from : from = saved + 2
    OBVIOUS
  <2>2. from \in Int /\ from <= top + 1 /\ top - from + 1 = top - saved - 1
    BY <2>1
  <2>3. Len(WordsOfMemory(m, from, top)) = top - from + 1
    BY <2>2, MemoryWords
  <2> QED  BY Zenon, <1>1, <2>1, <2>2, <2>3
<1>6. Abstract!WordsOf(frame) = 3 + Len(l) + Len(s)
  BY Zenon, <1>3 DEF Abstract!WordsOf
<1>7. 3 + (saved - base - 1) + (top - saved - 1) = (top + 1) - base
  OBVIOUS
<1> QED  BY Zenon, <1>1, <1>4, <1>5, <1>6, <1>7

\* The image and the frames take the words up to the top of the stack.
LEMMA UsedIs ==
  ASSUME Executed
  PROVE  Abstract!Used = sp + 1
<1>1. PICK floor, k : floor = InitialSp(program) /\ k = Depth
  OBVIOUS
<1>2. /\ program \in Programs /\ mem \in [Address -> Word] /\ Chained(mem, calls, sp)
      /\ calls \in Seq(Address) /\ k = Len(calls) /\ k \in Nat /\ k >= 1 /\ k \in DOMAIN calls
      /\ lv = calls[k] /\ Link = mem[lv] /\ lv \in Int /\ Link \in Int /\ sp \in Int
      /\ lv < Link /\ Link < sp /\ floor \in Nat /\ DOMAIN calls = 1 .. k
  BY <1>1, ExecutedFrame DEF Depth, Link
<1>3. calls[1] = floor + 1
  <2>1. calls # <<>>
    BY DEF Executed
  <2> QED  BY Zenon, <1>1, <1>2, <2>1 DEF Chained
<1>4. \A i \in 1 .. k : calls[i] \in Int /\ mem[calls[i]] \in Int /\ calls[i] < mem[calls[i]]
  BY <1>2, ChainFacts
<1>5. \A i, j \in 1 .. k : i < j => mem[calls[i]] + 1 < calls[j]
  BY Zenon, <1>2 DEF Chained
<1>6. /\ Len(Frames) = k + 1
      /\ \A i \in 1 .. k : Frames[i] = CallerIn(floor, mem, calls, i)
      /\ Frames[k + 1] = FrameIn(floor, mem, calls, k, sp, pc)
  <2>1. Len(Frames) = k + 1
    BY Zenon, <1>1, AbstractFrame
  <2>2. /\ \A i \in 1 .. k : i - 1 # Depth /\ (i - 1) + 1 = i /\ i \in 1 .. Depth + 1
        /\ (k + 1) - 1 = Depth /\ k + 1 \in 1 .. Depth + 1
    BY <1>1, <1>2
  <2>3. \A i \in 1 .. Depth + 1 : Frames[i] = FrameOf(i - 1)
    BY DEF Frames
  <2>4. \A n : FrameOf(n) =
                 FrameIn(floor, mem, calls, n,
                         IF n = Depth THEN sp ELSE calls[n + 1] - 1,
                         IF n = Depth THEN pc ELSE ToUWord(mem[mem[calls[n + 1]]]))
    BY Zenon, <1>1 DEF FrameOf, FrameIn, NextOf, TopOf, LinkOf, Depth, Slice, WordsOfMemory
  <2>5. ASSUME NEW i \in 1 .. k PROVE Frames[i] = CallerIn(floor, mem, calls, i)
    BY Zenon, <2>2, <2>3, <2>4 DEF CallerIn
  <2>6. Frames[k + 1] = FrameIn(floor, mem, calls, k, sp, pc)
    BY Zenon, <1>1, <2>2, <2>3, <2>4
  <2> QED  BY <2>1, <2>5, <2>6
<1> DEFINE edge(n) == IF n = k + 1 THEN sp + 1 ELSE calls[n]
           g == [n \in 0 .. k + 1 |-> IF n = 0 THEN 0 ELSE 2 + edge(n) - floor]
<1>7. ASSUME NEW n \in 1 .. k + 1, n # 1
      PROVE  Abstract!WordsOf(Frames[n]) = edge(n) - calls[n - 1]
  <2>1. PICK h, base, saved : h = n - 1 /\ base = calls[h] /\ saved = mem[base]
    OBVIOUS
  <2>2. /\ h \in 1 .. k /\ h # 0 /\ h + 1 = n /\ base \in Int /\ saved \in Int /\ base < saved
        /\ (n # k + 1 => n \in 1 .. k /\ h < n)
    BY <1>2, <1>4, <1>7, <2>1
  <2>3. CASE n = k + 1
    <3>1. h = k /\ base = lv /\ saved = Link
      BY <1>2, <2>1, <2>3
    <3>2. Abstract!WordsOf(FrameIn(floor, mem, calls, h, sp, pc)) = (sp + 1) - base
      BY SMTT(60), <1>2, <2>1, <2>2, <3>1, FrameSize
    <3>3. edge(n) = sp + 1
      BY <2>3
    <3>4. Abstract!WordsOf(Frames[n]) = (sp + 1) - calls[n - 1]
      BY <1>6, <2>1, <2>3, <3>1, <3>2
    <3> QED  BY Zenon, <3>3, <3>4
  <2>4. CASE n # k + 1
    <3>1. PICK top, next : top = calls[n] - 1 /\ next = ToUWord(mem[mem[calls[n]]])
      OBVIOUS
    <3>2. /\ calls[n] \in Int /\ saved + 1 < calls[n]
      BY <1>4, <1>5, <2>1, <2>2, <2>4
    <3>3. top \in Int /\ saved < top /\ top + 1 = calls[n]
      BY <2>2, <3>1, <3>2
    <3>4. Abstract!WordsOf(FrameIn(floor, mem, calls, h, top, next)) = (top + 1) - base
      BY <2>1, <2>2, <3>3, FrameSize
    <3>5. Frames[n] = FrameIn(floor, mem, calls, h, top, next)
      BY Zenon, <1>6, <2>1, <2>2, <2>4, <3>1 DEF CallerIn
    <3>6. edge(n) = calls[n]
      BY <2>4
    <3>7. calls[n - 1] = base
      BY Zenon, <2>1
    <3>8. Abstract!WordsOf(Frames[n]) = (top + 1) - base
      BY Zenon, <3>4, <3>5
    <3>9. Abstract!WordsOf(Frames[n]) = calls[n] - calls[n - 1]
      BY Zenon, <3>3, <3>7, <3>8
    <3> QED  BY Zenon, <3>6, <3>9
  <2> QED  BY <2>3, <2>4
<1>8. Abstract!WordsOf(Frames[1]) = 3
  <2>1. 1 \in 1 .. k /\ 1 - 1 = 0 /\ (floor + 1) - 1 < floor + 1
    BY <1>2
  <2>2. WordsOfMemory(mem, floor + 1, (floor + 1) - 1) = <<>>
    BY Zenon, <2>1 DEF WordsOfMemory
  <2>3. PICK next : next = ToUWord(mem[mem[calls[1]]])
    OBVIOUS
  <2>4. Frames[1] = [pc |-> next, locals |-> <<>>, stack |-> <<>>]
    BY Zenon, <1>3, <1>6, <2>1, <2>2, <2>3 DEF CallerIn, FrameIn
  <2>5. Len(Frames[1].locals) = 0 /\ Len(Frames[1].stack) = 0
    BY <2>4
  <2> QED  BY <2>5 DEF Abstract!WordsOf
<1>9. \A n \in 1 .. k + 1 : edge(n) \in Int
  BY <1>2, <1>4
<1>10. g \in [0 .. k + 1 -> Int] /\ g[0] = 0 /\ g[k + 1] = 3 + sp - floor
  BY <1>2, <1>9
<1>11. \A n \in 1 .. k + 1 : Abstract!WordsOf(Frames[n]) \in Int
                            /\ g[n] = g[n - 1] + Abstract!WordsOf(Frames[n])
  <2> SUFFICES ASSUME NEW n \in 1 .. k + 1
               PROVE  Abstract!WordsOf(Frames[n]) \in Int
                        /\ g[n] = g[n - 1] + Abstract!WordsOf(Frames[n])
    OBVIOUS
  <2>1. n \in 0 .. k + 1 /\ n - 1 \in 0 .. k + 1 /\ n # 0 /\ (n # 1 => n - 1 # 0 /\ n - 1 \in 1 .. k /\ n - 1 # k + 1)
    BY <1>2
  <2>2. CASE n = 1
    <3>1. edge(1) = floor + 1 /\ g[1] = 2 + edge(1) - floor /\ g[1 - 1] = 0
      BY <1>2, <1>3, <1>10, <2>1, <2>2
    <3> QED  BY <1>2, <1>8, <2>2, <3>1
  <2>3. CASE n # 1
    <3>1. g[n] = 2 + edge(n) - floor /\ g[n - 1] = 2 + calls[n - 1] - floor
      BY <2>1, <2>3
    <3>2. edge(n) \in Int /\ calls[n - 1] \in Int
      BY <1>4, <1>9, <2>1, <2>3
    <3>3. Abstract!WordsOf(Frames[n]) = edge(n) - calls[n - 1]
      BY <1>7, <2>3
    <3>4. PICK a, b, u, v, w : /\ a = edge(n) /\ b = calls[n - 1] /\ u = g[n] /\ v = g[n - 1]
                               /\ w = Abstract!WordsOf(Frames[n])
      OBVIOUS
    <3>5. a \in Int /\ b \in Int /\ floor \in Nat /\ u = 2 + a - floor /\ v = 2 + b - floor /\ w = a - b
      BY Zenon, <1>2, <3>1, <3>2, <3>3, <3>4
    <3>6. w \in Int /\ u = v + w
      BY <3>5
    <3> QED  BY Zenon, <3>4, <3>6
  <2> QED  BY <2>2, <2>3
<1> HIDE DEF g
<1>12. Abstract!Used = CppOf(program) + Len(program.cpool) + g[Len(Frames)] - 3
  <2>1. Len(Frames) \in Nat
    BY <1>2, <1>6
  <2>2. g \in [0 .. Len(Frames) -> Int]
    BY <1>6, <1>10
  <2>3. \A n \in 1 .. Len(Frames) : Abstract!WordsOf(Frames[n]) \in Int
                                     /\ g[n] = g[n - 1] + Abstract!WordsOf(Frames[n])
    BY Zenon, <1>6, <1>11
  <2> QED  BY <1>10, <2>1, <2>2, <2>3, WordsAddUp
<1>13. CppOf(program) \in Nat /\ Len(program.cpool) \in Nat /\ floor = CppOf(program) + Len(program.cpool) - 1
  <2>1. /\ CppOf(program) \in Nat /\ InitialSp(program) = CppOf(program) + Len(program.cpool) - 1
        /\ program.cpool \in Seq(Word)
    BY <1>2, ProgramParts
  <2>2. \A s \in Seq(Word) : Len(s) \in Nat
    OBVIOUS
  <2> QED  BY Zenon, <1>1, <2>1, <2>2
<1> QED
  <2>1. PICK used, a, b, last : used = Abstract!Used /\ a = CppOf(program) /\ b = Len(program.cpool)
                              /\ last = g[k + 1]
    OBVIOUS
  <2>2. used = a + b + last - 3 /\ last = 3 + sp - floor /\ a \in Nat /\ b \in Nat /\ floor = a + b - 1
    BY Zenon, <1>6, <1>10, <1>12, <1>13, <2>1
  <2>3. used = sp + 1
    BY <1>2, <2>2
  <2> QED  BY Zenon, <2>1, <2>3

-----------------------------------------------------------------------------
(* Leaving the memory: the frames have become too many, or too large. *)

\* The opcodes that push a word without taking one.
Pushes == {OP.BIPUSH, OP.DUP, OP.ILOAD, OP.LDC_W}

\* What the call machine says that an opcode needs.
LEMMA NeededIs ==
  ASSUME Executed, ProgramsAreLawful
  PROVE  /\ Opcode \in Pushes => Abstract!Needed = 1
         /\ Opcode = OP.INVOKEVIRTUAL /\ Index < GETCHAR
              => Abstract!Needed = Abstract!UInt16(Abstract!Constant(Index) + 2) + 2
<1>1. PICK op, index, call, bipush, dup, iload, ldcw :
        /\ op = Opcode /\ index = Abstract!UInt16(pc + 1) /\ call = OP.INVOKEVIRTUAL
        /\ bipush = OP.BIPUSH /\ dup = OP.DUP /\ iload = OP.ILOAD /\ ldcw = OP.LDC_W
  OBVIOUS
<1>2. /\ status # "start" /\ Abstract!pc = pc
      /\ \A name : Abstract!At(name) <=> Opcode = OP[name]
  BY SameOpcode DEF Executed
<1>3. op = call => index = Index
  <2>1. Opcode = OP.INVOKEVIRTUAL => After = pc + 3
    BY OpcodeAfter
  <2> QED  BY Zenon, <1>1, <2>1, LawfulOperands
<1>4. /\ Abstract!At("INVOKEVIRTUAL") <=> op = call
      /\ Abstract!At("BIPUSH") <=> op = bipush
      /\ Abstract!At("DUP") <=> op = dup
      /\ Abstract!At("ILOAD") <=> op = iload
      /\ Abstract!At("LDC_W") <=> op = ldcw
  BY Zenon, <1>1, <1>2
<1>5. Abstract!Needed =
        CASE status = "start" -> 1 + Len(program.args) + Abstract!UInt16(Abstract!Main + 2) + 2
          [] op = call /\ index < GETCHAR -> Abstract!UInt16(Abstract!Constant(index) + 2) + 2
          [] op = bipush \/ op = dup \/ op = iload \/ op = ldcw -> 1
          [] OTHER -> 0
  BY Zenon, <1>1, <1>2, <1>4, SameWords DEF Abstract!Needed
<1>6. call \notin {bipush, dup, iload, ldcw}
  BY <1>1, OpcodeValues
<1>7. op \in {bipush, dup, iload, ldcw} => Abstract!Needed = 1
  BY <1>2, <1>5, <1>6
<1>8. op = call /\ index < GETCHAR => Abstract!Needed = Abstract!UInt16(Abstract!Constant(index) + 2) + 2
  <2>1. PICK words : words = Abstract!UInt16(Abstract!Constant(index) + 2) + 2
    OBVIOUS
  <2>2. op = call /\ index < GETCHAR => Abstract!Needed = words
    BY <1>2, <1>5, <1>6, <2>1
  <2> QED  BY Zenon, <2>1, <2>2
<1>9. Opcode \in Pushes => op \in {bipush, dup, iload, ldcw}
  BY <1>1 DEF Pushes
<1> QED  BY Zenon, <1>1, <1>3, <1>7, <1>8, <1>9

\* A call needs no more than its frame.
LEMMA CallInBounds ==
  ASSUME Executed, ProgramsAreLawful, Opcode = OP.INVOKEVIRTUAL, Index < GETCHAR,
         sp + Abstract!UInt16(Abstract!Constant(Index) + 2) + 2 \in Address
  PROVE  Invocation(mem, sp, Index)
<1>1. PICK method, nargs, nlocals, index :
        /\ method = Abstract!Constant(Index) /\ nargs = Abstract!UInt16(method)
        /\ nlocals = Abstract!UInt16(method + 2) /\ index = Index
  OBVIOUS
<1>2. /\ index < Len(program.cpool) /\ mem[cpp + index] = method
      /\ method \in Nat /\ method + 4 <= Len(program.method) /\ ToUWord(method) = method
      /\ UInt16Of(mem, method) = nargs /\ UInt16Of(mem, method + 2) = nlocals
      /\ nargs \in Nat /\ nlocals \in Nat /\ 1 <= nargs /\ nargs <= sp - Link - 1
  BY Zenon, <1>1, LawfulCall
<1>3. /\ sp \in Int /\ Link \in Int /\ 0 <= Link /\ Link < sp
      /\ sp + nlocals + 2 \in Address
  <2>1. /\ sp \in Int /\ Link \in Int /\ 0 <= Link /\ Link < sp
    BY FramePlaces
  <2>2. sp + nlocals + 2 \in Address
    BY Zenon, <1>1
  <2> QED  BY <2>1, <2>2
<1>4. cpp + index \in Address /\ method \in ByteAddress /\ method + 3 \in ByteAddress
  <2>1. index \in Nat
    <3>1. After = pc + 3
      BY OpcodeAfter
    <3> QED  BY <1>1, <3>1, LawfulOperands
  <2>2. /\ method \in Nat /\ method < Len(program.method) /\ method + 3 \in Nat
        /\ method + 3 < Len(program.method)
    <3>1. Len(program.method) \in Nat
      BY LawfulFetch
    <3> QED  BY <1>2, <3>1
  <2> QED  BY <1>2, <2>1, <2>2, ExecutedImage
<1>5. {sp + nlocals + 1, sp + nlocals + 1 + 1} \subseteq Address
      /\ (sp + nlocals + 1) - nargs - nlocals \in Address
  <2>1. /\ sp + nlocals + 1 \in Int /\ 0 <= sp + nlocals + 1 /\ sp + nlocals + 1 <= sp + nlocals + 2
        /\ sp + nlocals + 1 + 1 = sp + nlocals + 2
        /\ (sp + nlocals + 1) - nargs - nlocals \in Int
        /\ 0 <= (sp + nlocals + 1) - nargs - nlocals
        /\ (sp + nlocals + 1) - nargs - nlocals <= sp + nlocals + 2
    BY <1>2, <1>3
  <2> QED  BY <1>3, <2>1, AddressBounds
<1>6. Invocation(mem, sp, index)
  BY Zenon, <1>2, <1>4, <1>5 DEF Invocation
<1> QED  BY Zenon, <1>1, <1>6

\* Nor do the other opcodes need more than one word.
LEMMA OperandsInBounds ==
  ASSUME Executed, ProgramsAreLawful, Opcode \in Pushes => sp + 1 \in Address
  PROVE  Operands \subseteq Address
<1>1. /\ lv \in Int /\ Link \in Int /\ sp \in Int /\ 0 <= lv /\ lv < Link /\ Link < sp
      /\ \A w \in Int : 0 <= w /\ w <= sp => w \in Address
  BY FramePlaces
<1>2. sp \in Address /\ sp - 1 \in Address
  BY <1>1
<1>3. CASE Opcode \in {OP.IADD, OP.IAND, OP.IOR, OP.ISUB, OP.IF_ICMPEQ, OP.SWAP}
  BY <1>2, <1>3, OpcodeOperands
<1>4. CASE Opcode \in {OP.IFEQ, OP.IFLT, OP.POP}
  BY <1>2, <1>4, OpcodeOperands
<1>5. CASE Opcode \in {OP.BIPUSH, OP.DUP}
  <2>1. sp + 1 \in Address
    BY Zenon, <1>5 DEF Pushes
  <2> QED  BY <1>2, <1>5, <2>1, OpcodeOperands
<1>6. CASE Opcode = OP.IINC
  <2>1. lv + Method(pc + 1) \in Address
    <3>1. Method(pc + 1) \in Int /\ 1 <= Method(pc + 1) /\ lv + Method(pc + 1) < Link
      BY <1>6, LawfulOperands
    <3> QED  BY <1>1, <3>1
  <2> QED  BY <1>6, <2>1, OpcodeOperands
<1>7. CASE Opcode \in {OP.ILOAD, OP.ISTORE}
  <2>1. lv + Variable \in Address
    <3>1. Variable \in Int /\ 1 <= Variable /\ lv + Variable < Link
      BY <1>7, LawfulOperands
    <3> QED  BY <1>1, <3>1
  <2>2. Opcode = OP.ILOAD => sp + 1 \in Address
    BY Zenon DEF Pushes
  <2>3. \/ Operands = {lv + Variable, sp + 1} /\ Opcode = OP.ILOAD
        \/ Operands = {lv + Variable, sp}
    BY Zenon, <1>7, OpcodeOperands
  <2> QED  BY <1>2, <2>1, <2>2, <2>3
<1>8. CASE Opcode = OP.LDC_W
  <2>1. After = pc + 3
    BY <1>8, OpcodeAfter
  <2>2. Index \in Nat /\ Index < Len(program.cpool)
    BY <1>8, <2>1, LawfulOperands
  <2>3. cpp + Index \in Address
    BY <2>2, ExecutedImage
  <2>4. sp + 1 \in Address
    BY Zenon, <1>8 DEF Pushes
  <2> QED  BY <1>8, <2>3, <2>4, OpcodeOperands
<1>9. CASE Opcode = OP.INVOKEVIRTUAL
  BY <1>2, <1>9, OpcodeOperands
<1>10. CASE Opcode \notin {OP.IADD, OP.IAND, OP.IOR, OP.ISUB, OP.IF_ICMPEQ, OP.SWAP, OP.IFEQ,
                           OP.IFLT, OP.POP, OP.BIPUSH, OP.DUP, OP.IINC, OP.ILOAD, OP.ISTORE,
                           OP.LDC_W, OP.INVOKEVIRTUAL}
  BY <1>10, OpcodeOperands
<1>11. \/ Opcode \in {OP.IADD, OP.IAND, OP.IOR, OP.ISUB, OP.IF_ICMPEQ, OP.SWAP}
       \/ Opcode \in {OP.IFEQ, OP.IFLT, OP.POP}
       \/ Opcode \in {OP.BIPUSH, OP.DUP} \/ Opcode = OP.IINC \/ Opcode \in {OP.ILOAD, OP.ISTORE}
       \/ Opcode = OP.LDC_W \/ Opcode = OP.INVOKEVIRTUAL
       \/ Opcode \notin {OP.IADD, OP.IAND, OP.IOR, OP.ISUB, OP.IF_ICMPEQ, OP.SWAP, OP.IFEQ,
                         OP.IFLT, OP.POP, OP.BIPUSH, OP.DUP, OP.IINC, OP.ILOAD, OP.ISTORE,
                         OP.LDC_W, OP.INVOKEVIRTUAL}
  OBVIOUS
<1> QED  BY Zenon, <1>3, <1>4, <1>5, <1>6, <1>7, <1>8, <1>9, <1>10, <1>11

\* So an access outside the memory is that of an opcode that needs more words
\* than there are.
LEMMA OutOfBoundsNeeds ==
  ASSUME Executed, ProgramsAreLawful, ~InBounds
  PROVE  Abstract!Used + Abstract!Needed > MemWords
<1>1. /\ sp \in Int /\ 0 <= sp /\ MemWords \in Nat /\ Abstract!Used = sp + 1
  BY FramePlaces, UsedIs, AddressesAreWords
<1>2. \A w \in Int : 0 <= w /\ w \notin Address => w >= MemWords
  BY <1>1 DEF Address
<1>3. pc \in ByteAddress /\ pc .. After - 1 \subseteq ByteAddress
  <2>1. /\ After \in Int /\ pc < After /\ pc \in Int
        /\ \A a \in Int : pc <= a /\ a < After => a \in ByteAddress
    BY LawfulFetch, ExecutedFrame
  <2> QED  BY <2>1
<1>4. /\ {lv, sp} \subseteq Address /\ {mem[lv], mem[lv] + 1} \subseteq Address
  BY ExecutedFrame DEF Link
<1>5. CASE Opcode \in Pushes /\ sp + 1 \notin Address
  <2>1. Abstract!Needed = 1
    BY Zenon, <1>5, NeededIs
  <2>2. sp + 1 >= MemWords
    BY <1>1, <1>2, <1>5
  <2> QED  BY <1>1, <2>1, <2>2
<1>6. CASE /\ Opcode = OP.INVOKEVIRTUAL /\ Index < GETCHAR
           /\ sp + Abstract!UInt16(Abstract!Constant(Index) + 2) + 2 \notin Address
  <2>1. PICK nlocals : nlocals = Abstract!UInt16(Abstract!Constant(Index) + 2)
    OBVIOUS
  <2>2. nlocals \in Nat
    BY <1>6, <2>1, LawfulCall
  <2>3. sp + nlocals + 2 \notin Address /\ Abstract!Needed = nlocals + 2
    BY Zenon, <1>6, <2>1, NeededIs
  <2>4. sp + nlocals + 2 >= MemWords
    BY <1>1, <1>2, <2>2, <2>3
  <2> QED  BY <1>1, <2>2, <2>3, <2>4
<1> QED
  BY Zenon, <1>3, <1>4, <1>5, <1>6, OperandsInBounds, CallInBounds DEF InBounds

-----------------------------------------------------------------------------
(* ijvm_new, which fails or is all there is. *)

\* Before main is called and after it has returned there is one frame.
LEMMA EmptyFrames ==
  ASSUME calls = <<>>
  PROVE  /\ Len(Frames) = 1 /\ DOMAIN Frames = 1 .. 1 /\ Frames = [i \in 1 .. 1 |-> Frames[1]]
         /\ Frames[1] = [pc |-> pc, locals |-> <<>>,
                         stack |-> WordsOfMemory(mem, InitialSp(program) + 1, sp)]
<1>1. Depth = 0 /\ Depth + 1 = 1 /\ 1 - 1 = 0 /\ 1 \in 1 .. 1
  BY DEF Depth
<1>2. Frames = [i \in 1 .. 1 |-> FrameOf(i - 1)]
  BY Zenon, <1>1 DEF Frames
<1>3. Len(Frames) = 1 /\ DOMAIN Frames = 1 .. 1 /\ Frames[1] = FrameOf(0)
  BY <1>1, <1>2
<1>4. Frames = [i \in 1 .. 1 |-> Frames[1]]
  <2>1. \A i \in 1 .. 1 : i = 1
    OBVIOUS
  <2> QED  BY <1>2, <1>3, <2>1
<1>5. FrameOf(0) = [pc |-> pc, locals |-> <<>>,
                    stack |-> WordsOfMemory(mem, InitialSp(program) + 1, sp)]
  BY Zenon, <1>1 DEF FrameOf, NextOf, TopOf, Slice, WordsOfMemory
<1> QED  BY Zenon, <1>3, <1>4, <1>5

\* At the start its operand stack is empty.
LEMMA StartFrames ==
  ASSUME program \in Programs, calls = <<>>, sp = 0
  PROVE  /\ Frames[1] = [pc |-> pc, locals |-> <<>>, stack |-> <<>>]
         /\ Frames = <<[pc |-> pc, locals |-> <<>>, stack |-> <<>>]>>
         /\ Abstract!Used = InitialSp(program) + 1
<1>1. PICK floor, frame : /\ floor = InitialSp(program)
                          /\ frame = [pc |-> pc, locals |-> <<>>, stack |-> <<>>]
  OBVIOUS
<1>2. floor \in Nat
  BY <1>1, ProgramParts
<1>3. WordsOfMemory(mem, floor + 1, sp) = <<>>
  <2>1. sp < floor + 1
    BY <1>2
  <2> QED  BY Zenon, <2>1 DEF WordsOfMemory
<1>4. Len(Frames) = 1 /\ Frames = [i \in 1 .. 1 |-> Frames[1]] /\ Frames[1] = frame
  BY Zenon, <1>1, <1>3, EmptyFrames
<1>5. Frames = <<frame>>
  BY <1>4
<1>6. Abstract!WordsOf(Frames[1]) = 3
  <2>1. Len(Frames[1].locals) = 0 /\ Len(Frames[1].stack) = 0
    BY <1>1, <1>4
  <2> QED  BY <2>1 DEF Abstract!WordsOf
<1> DEFINE g == [n \in 0 .. 1 |-> IF n = 0 THEN 0 ELSE 3]
<1>7. Abstract!Used = CppOf(program) + Len(program.cpool) + g[Len(Frames)] - 3
  <2>1. g \in [0 .. Len(Frames) -> Int] /\ Len(Frames) \in Nat /\ g[0] = 0
    BY <1>4
  <2>2. \A n \in 1 .. Len(Frames) : Abstract!WordsOf(Frames[n]) \in Int
                                     /\ g[n] = g[n - 1] + Abstract!WordsOf(Frames[n])
    <3>1. \A n \in 1 .. Len(Frames) : n = 1
      BY <1>4
    <3>2. g[1] = 3 /\ g[1 - 1] = 0
      OBVIOUS
    <3> QED  BY <1>6, <3>1, <3>2
  <2> HIDE DEF g
  <2> QED  BY <2>1, <2>2, WordsAddUp
<1>8. CppOf(program) \in Nat /\ Len(program.cpool) \in Nat /\ floor = CppOf(program) + Len(program.cpool) - 1
  <2>1. /\ CppOf(program) \in Nat /\ InitialSp(program) = CppOf(program) + Len(program.cpool) - 1
        /\ program.cpool \in Seq(Word)
    BY ProgramParts
  <2>2. \A s \in Seq(Word) : Len(s) \in Nat
    OBVIOUS
  <2> QED  BY Zenon, <1>1, <2>1, <2>2
<1>9. Abstract!Used = floor + 1
  <2>1. PICK used, a, b, last : used = Abstract!Used /\ a = CppOf(program) /\ b = Len(program.cpool)
                              /\ last = g[1]
    OBVIOUS
  <2>2. last = 3
    BY <2>1
  <2>3. used = a + b + last - 3 /\ a \in Nat /\ b \in Nat /\ floor = a + b - 1
    BY Zenon, <1>4, <1>7, <1>8, <2>1
  <2>4. used = floor + 1
    BY <2>2, <2>3
  <2> QED  BY Zenon, <2>1, <2>4
<1> QED  BY Zenon, <1>1, <1>4, <1>5, <1>9

\* ijvm_new finds in memory what the image says of main.
LEMMA MainIs ==
  ASSUME program \in Programs, InitialSp(program) \in Address, Abstract!IsMethod(Abstract!Main),
         NEW m \in [Address -> Word],
         \A w \in Address : w <= InitialSp(program) => m[w] = Loaded(program)[w]
  PROVE  /\ cpp + program.main \in Address /\ m[cpp + program.main] = Abstract!Main
         /\ Abstract!Main \in Nat /\ Abstract!Main \in ByteAddress /\ Abstract!Main + 3 \in ByteAddress
         /\ ToUWord(Abstract!Main) = Abstract!Main
         /\ UInt16Of(m, Abstract!Main) = Abstract!UInt16(Abstract!Main)
         /\ UInt16Of(m, Abstract!Main + 2) = Abstract!UInt16(Abstract!Main + 2)
         /\ Abstract!UInt16(Abstract!Main) \in Nat /\ Abstract!UInt16(Abstract!Main + 2) \in Nat
         /\ 1 <= Abstract!UInt16(Abstract!Main)
<1>1. PICK method : method = Abstract!Main
  OBVIOUS
<1>2. /\ program.main \in Nat /\ program.main < Len(program.cpool)
      /\ program.method \in Seq(Byte)
  BY ProgramParts
<1>3. Len(program.method) \in Nat
  BY <1>2
<1>4. method \in Nat /\ method + 4 <= Len(program.method) /\ 1 <= Abstract!UInt16(method)
  <2>1. Abstract!IsMethod(method)
    BY Zenon, <1>1
  <2> QED  BY <1>3, <2>1 DEF Abstract!IsMethod, Abstract!FirstCode
<1>5. /\ cpp + program.main \in Address /\ m[cpp + program.main] = method
      /\ \A a \in Nat : a < Len(program.method)
           => a \in ByteAddress /\ ByteOf(m, a) = Abstract!Code(a) /\ Abstract!Code(a) \in Byte
  <2>1. /\ \A a \in Nat : a < Len(program.method)
             => a \in ByteAddress /\ ByteOf(m, a) = Abstract!Code(a) /\ Abstract!Code(a) \in Byte
        /\ \A k \in Nat : k < Len(program.cpool)
             => cpp + k \in Address /\ m[cpp + k] = Abstract!Constant(k)
    BY ImageRead
  <2>2. method = Abstract!Constant(program.main)
    BY Zenon, <1>1 DEF Abstract!Main
  <2> QED  BY Zenon, <1>2, <2>1, <2>2
<1>6. ASSUME NEW a \in Nat, a + 1 < Len(program.method)
      PROVE  UInt16Of(m, a) = Abstract!UInt16(a) /\ Abstract!UInt16(a) \in Nat
  <2>1. \A x, y \in Byte : 256 * x + y \in Nat
    BY DEF Byte
  <2>2. /\ Abstract!UInt16(a) = 256 * Abstract!Code(a) + Abstract!Code(a + 1)
        /\ UInt16Of(m, a) = 256 * ByteOf(m, a) + ByteOf(m, a + 1)
    BY DEF UInt16Of, Abstract!UInt16
  <2>3. a < Len(program.method) /\ a + 1 \in Nat
    BY <1>3, <1>6
  <2>4. /\ ByteOf(m, a) = Abstract!Code(a) /\ ByteOf(m, a + 1) = Abstract!Code(a + 1)
        /\ Abstract!Code(a) \in Byte /\ Abstract!Code(a + 1) \in Byte
    BY <1>5, <1>6, <2>3
  <2> QED  BY <2>1, <2>2, <2>4
<1>7. /\ method + 2 \in Nat /\ method + 1 < Len(program.method)
      /\ (method + 2) + 1 < Len(program.method) /\ method + 3 \in Nat
      /\ method < Len(program.method) /\ method + 3 < Len(program.method)
  BY <1>3, <1>4
<1>8. method \in ByteAddress /\ method + 3 \in ByteAddress
  BY <1>4, <1>5, <1>7
<1>9. ToUWord(method) = method
  BY <1>8, AddressesAreWords, ToUWordOfUWord
<1>10. /\ UInt16Of(m, method) = Abstract!UInt16(method) /\ Abstract!UInt16(method) \in Nat
       /\ UInt16Of(m, method + 2) = Abstract!UInt16(method + 2) /\ Abstract!UInt16(method + 2) \in Nat
  BY <1>4, <1>6, <1>7
<1> QED  BY Zenon, <1>1, <1>4, <1>5, <1>8, <1>9, <1>10

\* A step that leaves the memory and the registers leaves the frames.
LEMMA FramesUnchanged ==
  ASSUME UNCHANGED <<program, mem, sp, pc, calls>>
  PROVE  Frames' = Frames
<1>1. Depth' = Depth
  BY DEF Depth
<1>2. \A n : FrameOf(n)' = FrameOf(n)
  BY ZenonT(60) DEF FrameOf, NextOf, TopOf, LinkOf, Depth, Slice
<1>3. /\ Frames = [i \in 1 .. Depth + 1 |-> FrameOf(i - 1)]
      /\ Frames' = [i \in 1 .. Depth' + 1 |-> FrameOf(i - 1)']
  BY Zenon DEF Frames
<1> QED  BY <1>1, <1>2, <1>3

\* The image fits, and main takes other arguments than it is given.
LEMMA RefuseArgumentsRefines ==
  ASSUME TypeOK, ProgramsAreLawful, RefuseArguments, UNCHANGED calls
  PROVE  Abstract!RefuseArguments
<1>1. /\ status = "start" /\ program \in Programs /\ Fits
      /\ ~CountMatches \/ ~ArgumentsAreNumbers(program)
      /\ status' = "exited"
      /\ UNCHANGED <<program, mem, sp, lv, pc, wide, input, output, result>>
  BY DEF RefuseArguments, TypeOK
<1>2. InitialSp(program) \in Address /\ Abstract!IsMethod(Abstract!Main)
  BY Zenon, <1>1 DEF Fits, ProgramsAreLawful, Abstract!Lawful
<1>3. Loaded(program) \in [Address -> Word]
  BY <1>1, LoadedType
<1>4. MainOffset = Abstract!Main /\ UInt16Of(Loaded(program), MainOffset) = Abstract!UInt16(Abstract!Main)
  BY Zenon, <1>1, <1>2, <1>3, MainIs DEF MainOffset
<1>5. \/ Len(program.args) # Abstract!UInt16(Abstract!Main) - 1
      \/ \E i \in 1 .. Len(program.args) : program.args[i] = NotANumber
  <2>1. DOMAIN program.args = 1 .. Len(program.args)
    BY <1>1, ProgramParts
  <2> QED  BY Zenon, <1>1, <1>4, <2>1 DEF CountMatches, ArgumentsAreNumbers
<1>6. Frames' = Frames
  BY Zenon, <1>1, FramesUnchanged
<1> QED
  BY Zenon, <1>1, <1>5, <1>6 DEF Abstract!RefuseArguments

\* The first frame is too large, or the image is.
LEMMA StartNeeds ==
  ASSUME TypeOK, ProgramsAreLawful, status = "start", calls = <<>>, sp = 0, ~Fits
  PROVE  Abstract!Used + Abstract!Needed > MemWords
<1>1. PICK floor, method, given, nargs, nlocals, argsTop :
        /\ floor = InitialSp(program) /\ method = Abstract!Main /\ given = Len(program.args)
        /\ nargs = Abstract!UInt16(method) /\ nlocals = Abstract!UInt16(method + 2)
        /\ argsTop = ArgumentsTop(program)
  OBVIOUS
<1>2. /\ program \in Programs /\ Abstract!IsMethod(method) /\ Loaded(program) \in [Address -> Word]
  <2>1. program \in Programs
    BY DEF TypeOK
  <2>2. Abstract!IsMethod(method)
    BY Zenon, <1>1 DEF ProgramsAreLawful, Abstract!Lawful
  <2> QED  BY <2>1, <2>2, LoadedType
<1>3. floor \in Nat /\ given \in Nat /\ argsTop = floor + 1 + given
  <2>1. /\ InitialSp(program) \in Nat /\ ArgumentsTop(program) = InitialSp(program) + 1 + Len(program.args)
        /\ program.args \in Seq(Int \union {NotANumber})
    BY <1>2, ProgramParts
  <2>2. \A s \in Seq(Int \union {NotANumber}) : Len(s) \in Nat
    OBVIOUS
  <2> QED  BY Zenon, <1>1, <2>1, <2>2
<1>4. Abstract!Used = floor + 1
  BY Zenon, <1>1, <1>2, StartFrames
<1>5. Abstract!Needed = 1 + given + nlocals + 2
  <2>1. Abstract!Needed = 1 + Len(program.args) + Abstract!UInt16(Abstract!Main + 2) + 2
    <3>1. PICK words : words = 1 + Len(program.args) + Abstract!UInt16(Abstract!Main + 2) + 2
      OBVIOUS
    <3>2. ~Abstract!Active
      BY DEF Abstract!Active
    <3>3. \A name : ~Abstract!At(name)
      BY Zenon, <3>2 DEF Abstract!At
    <3>4. Abstract!Needed = CASE status = "start" -> words
                              [] FALSE -> Abstract!UInt16(Abstract!Constant(Abstract!UInt16(Abstract!pc + 1)) + 2) + 2
                              [] FALSE -> 1
                              [] OTHER -> 0
      BY Zenon, <3>1, <3>3 DEF Abstract!Needed
    <3>5. Abstract!Needed = words
      BY <3>4
    <3> QED  BY Zenon, <3>1, <3>5
  <2> QED  BY Zenon, <1>1, <2>1
<1>6. /\ MemWords \in Nat /\ \A w \in Int : 0 <= w /\ w < MemWords => w \in Address
  BY AddressesAreWords DEF Address
<1>7. SUFFICES ASSUME nlocals \in Nat, floor + 1 + (1 + given + nlocals + 2) <= MemWords
               PROVE  FALSE
  <2>1. nlocals \in Nat
    <3>1. PICK a, b : a = Abstract!Code(method + 2) /\ b = Abstract!Code(method + 2 + 1)
      OBVIOUS
    <3>2. /\ program.method \in Seq(Byte) /\ method \in Nat
          /\ method + 4 <= Len(program.method) /\ Len(program.method) \in Nat
      <4>1. program.method \in Seq(Byte)
        BY <1>2, ProgramParts
      <4>2. \A s \in Seq(Byte) : Len(s) \in Nat
        OBVIOUS
      <4>3. Len(program.method) \in Nat
        BY <4>1, <4>2
      <4>4. method \in Nat /\ method + 4 <= Len(program.method)
        BY <1>2, <4>3 DEF Abstract!IsMethod, Abstract!FirstCode
      <4> QED  BY <4>1, <4>3, <4>4
    <3>3. a \in Byte /\ b \in Byte
      <4>1. method + 2 + 1 \in 1 .. Len(program.method) /\ method + 2 + 1 + 1 \in 1 .. Len(program.method)
        BY <3>2
      <4>2. \A s \in Seq(Byte) : \A i \in 1 .. Len(s) : s[i] \in Byte
        OBVIOUS
      <4> QED  BY Zenon, <3>1, <3>2, <4>1, <4>2 DEF Abstract!Code
    <3>4. nlocals = 256 * a + b
      BY Zenon, <1>1, <3>1 DEF Abstract!UInt16
    <3> QED  BY <3>3, <3>4 DEF Byte
  <2>2. PICK used, needed : used = Abstract!Used /\ needed = Abstract!Needed
    OBVIOUS
  <2>3. used = floor + 1 /\ needed = 1 + given + nlocals + 2
    BY Zenon, <1>4, <1>5, <2>2
  <2>4. used + needed > MemWords \/ floor + 1 + (1 + given + nlocals + 2) <= MemWords
    BY <1>3, <1>6, <2>1, <2>3
  <2> QED  BY Zenon, <2>1, <2>2, <2>4
<1>8. floor \in Address /\ argsTop \in Address
  BY <1>3, <1>6, <1>7
<1>9. /\ MainOffset = method /\ method \in ByteAddress /\ method + 3 \in ByteAddress
      /\ UInt16Of(Loaded(program), MainOffset) = nargs
  <2>1. InitialSp(program) \in Address
    BY <1>1, <1>8
  <2> QED  BY Zenon, <1>1, <1>2, <2>1, MainIs DEF MainOffset
<1>10. ASSUME CountMatches, ArgumentsAreNumbers(program)
       PROVE  Invocation(WithArguments(program, Loaded(program)), argsTop, program.main)
  <2>1. PICK m : m = WithArguments(program, Loaded(program))
    OBVIOUS
  <2>2. /\ m \in [Address -> Word]
        /\ \A w \in Address : w <= InitialSp(program) => m[w] = Loaded(program)[w]
    BY <1>2, <1>10, <2>1, WithArgumentsType
  <2>3. /\ cpp + program.main \in Address /\ m[cpp + program.main] = method
        /\ ToUWord(method) = method /\ UInt16Of(m, method) = nargs /\ UInt16Of(m, method + 2) = nlocals
        /\ nargs \in Nat /\ 1 <= nargs
    <3>1. InitialSp(program) \in Address
      BY <1>1, <1>8
    <3> QED  BY Zenon, <1>1, <1>2, <2>2, <3>1, MainIs
  <2>4. given = nargs - 1
    BY Zenon, <1>1, <1>9, <1>10 DEF CountMatches
  <2>5. {argsTop + nlocals + 1, argsTop + nlocals + 1 + 1} \subseteq Address
        /\ (argsTop + nlocals + 1) - nargs - nlocals \in Address
    BY <1>3, <1>6, <1>7, <2>3, <2>4
  <2>6. Invocation(m, argsTop, program.main)
    BY Zenon, <1>9, <2>3, <2>5 DEF Invocation
  <2> QED  BY Zenon, <2>1, <2>6
<1> QED  BY Zenon, <1>1, <1>8, <1>9, <1>10 DEF Fits

\* An access outside the memory is the step of the call machine that has no more
\* of it.
LEMMA OutOfBoundsRefines ==
  ASSUME IInv, ProgramsAreLawful, OutOfBounds, UNCHANGED calls
  PROVE  Abstract!OutOfMemory
<1>1. /\ status' = "undefined"
      /\ UNCHANGED <<program, mem, sp, lv, pc, wide, input, output, result>>
  BY DEF OutOfBounds
<1>2. Frames' = Frames
  BY Zenon, <1>1, FramesUnchanged
<1>3. CASE status = "start"
  <2>1. ~Fits /\ TypeOK /\ calls = <<>> /\ sp = 0
    BY <1>3 DEF OutOfBounds, IInv
  <2>2. Abstract!Used + Abstract!Needed > MemWords
    BY Zenon, <1>3, <2>1, StartNeeds
  <2> QED  BY Zenon, <1>1, <1>2, <1>3, <2>2 DEF Abstract!OutOfMemory
<1>4. CASE status # "start"
  <2>1. status = "run" /\ ~IF pc = INITIAL_PC THEN sp \in Address ELSE InBounds
    BY <1>4 DEF OutOfBounds
  <2>2. sp \in Address /\ (pc # INITIAL_PC => calls # <<>>)
    BY <2>1 DEF IInv, FramesAreChained, Chained
  <2>3. ~InBounds /\ Executed
    BY Zenon, <2>1, <2>2 DEF IInv, Executed
  <2>4. Abstract!Used + Abstract!Needed > MemWords
    BY Zenon, <2>3, OutOfBoundsNeeds
  <2>5. Abstract!Active
    BY <2>3, SameOpcode
  <2> QED  BY Zenon, <1>1, <1>2, <2>4, <2>5 DEF Abstract!OutOfMemory
<1> QED  BY <1>3, <1>4

\* What is printed is the value of main.
LEMMA PrintResultRefines ==
  ASSUME IInv, PrintResult, UNCHANGED calls
  PROVE  Abstract!PrintResult
<1>1. /\ status = "run" /\ pc = INITIAL_PC /\ status' = "returned" /\ result' = mem[sp]
      /\ UNCHANGED <<program, mem, sp, lv, pc, wide, input, output>>
  BY DEF PrintResult
<1>2. Frames' = Frames
  BY Zenon, <1>1, FramesUnchanged
<1>3. PICK floor, s : floor = InitialSp(program) /\ s = WordsOfMemory(mem, InitialSp(program) + 1, sp)
  OBVIOUS
<1>4. calls = <<>> /\ sp = floor + 1 /\ floor \in Nat
  <2>1. FramesAreChained /\ program \in Programs
    BY DEF IInv, TypeOK
  <2>2. calls = <<>> /\ Chained(mem, calls, sp)
    BY Zenon, <1>1, <2>1 DEF FramesAreChained
  <2>3. sp = floor + 1
    BY Zenon, <1>3, <2>2 DEF Chained
  <2> QED  BY <1>3, <2>1, <2>2, <2>3, ProgramParts
<1>5. Len(s) = 1 /\ s[1] = mem[sp]
  <2>1. sp \in Int /\ sp <= sp + 1 /\ sp - sp + 1 = 1 /\ 1 \in 1 .. 1 /\ sp + 1 - 1 = sp
    BY <1>4
  <2>2. s = WordsOfMemory(mem, sp, sp)
    BY Zenon, <1>3, <1>4
  <2>3. /\ Len(WordsOfMemory(mem, sp, sp)) = sp - sp + 1
        /\ \A i \in 1 .. sp - sp + 1 : WordsOfMemory(mem, sp, sp)[i] = mem[sp + i - 1]
    BY <2>1, MemoryWords
  <2> QED  BY <2>1, <2>2, <2>3
<1>6. Len(Frames) = 1 /\ Frames[1] = [pc |-> pc, locals |-> <<>>, stack |-> s]
  BY Zenon, <1>3, <1>4, EmptyFrames
<1>7. Abstract!Frame.stack = s
  <2>1. Abstract!Frame = Frames[1]
    BY Zenon, <1>6 DEF Abstract!Frame, Abstract!Last
  <2> QED  BY <1>6, <2>1
<1>8. Abstract!Operand(0) = mem[sp]
  <2>1. 1 - 0 = 1
    OBVIOUS
  <2> QED  BY Zenon, <1>5, <1>7, <2>1 DEF Abstract!Operand
<1> QED  BY Zenon, <1>1, <1>2, <1>6, <1>8 DEF Abstract!PrintResult

-----------------------------------------------------------------------------
(* The refinement. *)

\* Both start alike.
LEMMA InitRefines == FramedInit => Abstract!Init
<1> SUFFICES ASSUME FramedInit PROVE Abstract!Init
  OBVIOUS
<1>1. /\ program \in Programs /\ calls = <<>> /\ sp = 0 /\ pc = INITIAL_PC /\ input = program.input
      /\ output = <<>> /\ status = "start" /\ result = 0
  BY DEF FramedInit, Init
<1>2. wide = FALSE
  BY Zenon DEF FramedInit, Init
<1>3. Frames = <<[pc |-> pc, locals |-> <<>>, stack |-> <<>>]>>
  BY Zenon, <1>1, StartFrames
<1> QED  BY Zenon, <1>1, <1>2, <1>3, SameWords DEF Abstract!Init

\* Every step of one is a step of the other, of the same name, or no step at all.
LEMMA StepRefines ==
  IInv /\ ProgramsAreLawful /\ [FramedNext]_framedVars => [Abstract!Next]_(Abstract!vars)
<1> SUFFICES ASSUME IInv, ProgramsAreLawful, [FramedNext]_framedVars
             PROVE  [Abstract!Next]_(Abstract!vars)
  OBVIOUS
<1>1. TypeOK /\ FramesAreChained /\ ImageIntact /\ (status = "start" => calls = <<>>)
  BY DEF IInv
<1>2. ASSUME status = "run", pc # INITIAL_PC PROVE Executed
  BY <1>1, <1>2 DEF Executed, FramesAreChained
<1>3. ASSUME UNCHANGED vars, UNCHANGED calls PROVE UNCHANGED Abstract!vars
  <2>1. UNCHANGED <<program, mem, sp, lv, pc, wide, input, output, status, result, calls>>
    BY <1>3 DEF vars
  <2>2. Frames' = Frames
    BY Zenon, <2>1, FramesUnchanged
  <2> QED  BY Zenon, <2>1, <2>2 DEF Abstract!vars
<1>4. CASE StartMain /\ calls' = Append(calls, lv')
  <2>1. status = "start" /\ CallsPushed
    BY <1>4 DEF StartMain, CallsPushed
  <2>2. Abstract!StartMain
    BY Zenon, <1>1, <1>4, <2>1, StartMainRefines
  <2> QED  BY Zenon, <2>2 DEF Abstract!Next
<1>5. CASE InvokeVirtual /\ calls' = Append(calls, lv')
  <2>1. status = "run" /\ pc # INITIAL_PC /\ CallsPushed
    BY <1>5 DEF InvokeVirtual, Executing, CallsPushed
  <2>2. Abstract!InvokeVirtual
    BY Zenon, <1>2, <1>5, <2>1, InvokeVirtualRefines
  <2> QED  BY Zenon, <2>2 DEF Abstract!Next
<1>6. CASE Ireturn /\ calls' = SubSeq(calls, 1, Len(calls) - 1)
  <2>1. status = "run" /\ pc # INITIAL_PC /\ CallsPopped
    BY <1>6 DEF Ireturn, Executing, CallsPopped
  <2>2. Abstract!Ireturn
    BY Zenon, <1>2, <1>6, <2>1, IreturnRefines
  <2> QED  BY Zenon, <2>2 DEF Abstract!Next
<1>7. CASE LocalStep /\ UNCHANGED calls
  <2>1. CASE RefuseArguments \/ PrintResult \/ OutOfBounds
    BY Zenon, <1>1, <1>7, <2>1, RefuseArgumentsRefines, PrintResultRefines, OutOfBoundsRefines
       DEF Abstract!Next
  <2>2. CASE Terminated
    BY Zenon, <1>3, <1>7, <2>2 DEF Terminated
  <2>3. ASSUME \E opcode : Executing(opcode) PROVE Executed
    BY Zenon, <1>2, <2>3 DEF Executing
  <2>4. CASE Bipush \/ Dup \/ LdcW \/ Iload
    <3>1. Executed
      BY Zenon, <2>3, <2>4 DEF Bipush, Dup, LdcW, Iload
    <3> QED  BY Zenon, <1>7, <2>4, <3>1, PushRefines DEF Abstract!Next
  <2>5. CASE Iadd \/ Isub \/ Iand \/ Ior \/ Swap
    <3>1. Executed
      BY Zenon, <2>3, <2>5 DEF Iadd, Isub, Iand, Ior, Swap
    <3> QED  BY Zenon, <1>7, <2>5, <3>1, BinaryRefines DEF Abstract!Next
  <2>6. CASE GotoOp \/ Ifeq \/ Iflt \/ IfIcmpeq
    <3>1. Executed
      BY Zenon, <2>3, <2>6 DEF GotoOp, Ifeq, Iflt, IfIcmpeq
    <3> QED  BY Zenon, <1>7, <2>6, <3>1, BranchRefines DEF Abstract!Next
  <2>7. CASE Nop \/ Pop \/ Unknown \/ UnknownBuiltin
    <3>1. Executed
      BY Zenon, <2>3, <2>7 DEF Nop, Pop, Unknown, UnknownBuiltin
    <3> QED  BY Zenon, <1>7, <2>7, <3>1, MoveRefines DEF Abstract!Next
  <2>8. CASE Istore \/ Iinc
    <3>1. Executed
      BY Zenon, <2>3, <2>8 DEF Istore, Iinc
    <3> QED  BY Zenon, <1>7, <2>8, <3>1, VariableRefines DEF Abstract!Next
  <2>9. CASE Getchar \/ Putchar
    <3>1. Executed
      BY Zenon, <2>3, <2>9 DEF Getchar, Putchar
    <3> QED  BY Zenon, <1>7, <2>9, <3>1, BuiltinRefines DEF Abstract!Next
  <2>10. CASE Wide
    <3>1. Executed
      BY Zenon, <2>3, <2>10 DEF Wide
    <3> QED  BY Zenon, <1>7, <2>10, <3>1, WideRefines DEF Abstract!Next
  <2> QED
    BY Zenon, <1>7, <2>1, <2>2, <2>4, <2>5, <2>6, <2>7, <2>8, <2>9, <2>10 DEF LocalStep
<1>8. CASE UNCHANGED framedVars
  BY Zenon, <1>3, <1>8 DEF framedVars
<1> QED  BY Zenon, <1>4, <1>5, <1>6, <1>7, <1>8 DEF FramedNext

\* As long as the program is lawful, the interpreter is the call machine: however
\* the arguments, variables and operands of methods overlap in its one stack, calls
\* and returns are those of frames with a store of their own, and an access outside
\* the memory means that the frames do not fit.
THEOREM InterpreterIsCallMachine ==
  FramedSpec /\ []ProgramsAreLawful => RefinesCallMachine
<1>1. FramedSpec /\ []ProgramsAreLawful => []IInv
  BY FramedInv
<1> QED  BY <1>1, InitRefines, StepRefines, PTL DEF FramedSpec, RefinesCallMachine, Abstract!Spec
=============================================================================
