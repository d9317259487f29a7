---------------------------- MODULE MCMasmLayout ----------------------------
(***************************************************************************)
(* The layout of every microprogram of a few lines in a small store.       *)
(***************************************************************************)
EXTENDS MasmLayout

CONSTANTS A, B, C, D, E

Plain(label, absolute) ==
  [label |-> label, absolute |-> absolute, insns |-> TRUE,
   label1 |-> NoLabel, label2 |-> NoLabel]
Blank(label, absolute) == [Plain(label, absolute) EXCEPT !.insns = FALSE]
If(label, absolute, true, false) ==
  [Plain(label, absolute) EXCEPT !.label1 = true, !.label2 = false]

\* The lines of label l that ask for one of the addresses, or for none.
LinesOf(l, absolutes, targets) ==
  {Plain(l, a) : a \in absolutes}
    \union {Blank(l, a) : a \in absolutes}
    \union {If(l, a, t[1], t[2]) : a \in absolutes, t \in targets}

Unlabelled(targets) == LinesOf(NoLabel, {Nowhere}, targets) \ {Blank(NoLabel, Nowhere)}

\* Three lines; the last label may be that of the second line again.
Pairs == {<<B, A>>, <<A, B>>, <<B, C>>, <<C, A>>, <<A, A>>, <<A, D>>}
AbsoluteSources ==
  LET absolutes == {Nowhere, 0, 2, 3, 4}
  IN  [1 .. 1 -> {Plain(A, Nowhere)}] \union
      {<<x, y, z>> : x \in LinesOf(A, absolutes, {}) \union Unlabelled({<<B, A>>}),
                     y \in LinesOf(B, absolutes, Pairs) \union Unlabelled(Pairs),
                     z \in LinesOf(C, absolutes, Pairs) \union LinesOf(B, {Nowhere, 2}, {})
                             \union Unlabelled(Pairs)}

\* Five lines for four words, or four when one of them is blank: the store runs
\* out, of words or of pairs of words.
FullSources ==
  LET targets == {<<A, B>>, <<B, A>>, <<C, D>>, <<D, A>>, <<E, C>>}
      line(l, absolutes) ==
        {Plain(l, a) : a \in absolutes}
          \union {If(l, a, t[1], t[2]) : a \in absolutes, t \in targets}
      any == {Nowhere}
  IN  {<<v, w, x, y, z>> : v \in line(A, {Nowhere, 1, 2}), w \in line(B, any),
                           x \in line(C, any), y \in {Plain(D, Nowhere), Plain(D, 3)},
                           z \in {Plain(E, Nowhere), Blank(E, Nowhere)}}

\* Four lines that compete: absolute labels in the pairs that ifs ask for.
MixedSources ==
  {<<w, x, y, z>> : w \in LinesOf(A, {Nowhere, 0, 2}, {<<B, A>>}),
                    x \in LinesOf(B, {Nowhere, 2, 3}, {<<A, C>>, <<B, D>>}),
                    y \in LinesOf(C, {Nowhere, 0}, {<<C, A>>, <<D, B>>}),
                    z \in LinesOf(D, {Nowhere, 3}, {<<B, C>>})}

\* Numbers that do not stay what they are, with an int of 16 values: 13 and 15
\* become -3 and -1, 18 becomes 2, 200 is more than a long and becomes -1.
OutsideSources ==
  LET numbers == {1, 13, 15, 18, 200}
  IN  {<<x, y, z>> : x \in LinesOf(A, numbers, {}),
                     y \in LinesOf(B, {Nowhere, 2, 15}, {<<C, A>>, <<A, C>>, <<B, C>>}),
                     z \in LinesOf(C, {Nowhere, 13}, {<<B, A>>, <<C, B>>})}

SmallSources == AbsoluteSources \union FullSources \union MixedSources \union OutsideSources
=============================================================================
