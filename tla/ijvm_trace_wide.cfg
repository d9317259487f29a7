CONSTANTS
  WordBytes = 3
  MemWords = 330
  NotANumber = NotANumber
  BodyLength = 0
  Programs <- TestPrograms
  SpecFile <- IjvmSpecFile
SPECIFICATION FramedSpec
PROPERTIES TraceShowsArguments
