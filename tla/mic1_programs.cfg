CONSTANTS
  WordBytes = 3
  MemWords = 330
  NotANumber = NotANumber
  ControlStore <- ControlStoreOf
  Entry <- EntryAddress
  RandomWords = {0, 5}
  BodyLength = 0
  Programs <- SmallPrograms
SPECIFICATION TracedSpec
INVARIANTS Mic1TypeOK TosIsTopOfStack
PROPERTIES RefinesInterpreter DispatchesOnOpcode
