CONSTANTS
  WordBytes = 3
  MemWords = 40
  NotANumber = NotANumber
  ControlStore <- FetchStore
  Entry = 0
  RandomWords = {5}
  BodyLength = 0
  Programs <- VoidPrograms
SPECIFICATION TracedSpec
PROPERTIES FetchesFromMemory
