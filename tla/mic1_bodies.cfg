CONSTANTS
  WordBytes = 3
  MemWords = 40
  NotANumber = NotANumber
  ControlStore <- ControlStoreOf
  Entry <- EntryAddress
  RandomWords = {5}
  BodyLength = 3
  Programs <- AllBodies
SPECIFICATION TracedSpec
INVARIANTS TosIsTopOfStack
PROPERTIES RefinesInterpreter DispatchesOnOpcode
