CONSTANTS
  WordBytes = 3
  MemWords = 40
  NotANumber = NotANumber
  ControlStore <- ControlStoreOf
  Entry <- EntryAddress
  RandomWords = {0, 5}
  BodyLength = 0
  Programs <- VoidPrograms
SPECIFICATION TracedSpec
PROPERTIES RefinesInterpreter
