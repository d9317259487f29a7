CONSTANTS
  Half = 2
  IntMod = 16
  A = A
  B = B
  C = C
  D = D
  E = E
  NoLabel = NoLabel
  Labels = {A, B, C, D, E}
  Sources <- AbsoluteSources
SPECIFICATION Spec
INVARIANTS AbsolutesGuaranteed
