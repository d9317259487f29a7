CONSTANTS
  WordBytes = 2
  Microprograms <- MdrSources
  Labels <- AllLabels
  NoLabel <- NoName
  Mal <- IjvmMal
  ControlStore <- ControlStoreOf
  Entry <- EntryAddress
SPECIFICATION Spec
INVARIANTS MdrNotAssignedAfterRd
