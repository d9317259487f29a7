CONSTANTS
  WordBytes = 2
  Microprograms <- AllSources
  Labels <- AllLabels
  NoLabel <- NoName
  Mal <- IjvmMal
  ControlStore <- ControlStoreOf
  Entry <- EntryAddress
SPECIFICATION Spec
INVARIANTS EmittedMeansSource WordsReachTheSimulator RefusesOnlyTheImpossible DisassemblyReassembles IjvmMalIsControlStore
