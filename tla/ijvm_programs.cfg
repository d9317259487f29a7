CONSTANTS
  WordBytes = 3
  MemWords = 330
  NotANumber = NotANumber
  BodyLength = 3
  Programs <- TestsAndBodies
  SpecFile <- IjvmSpecFile
SPECIFICATION FramedSpec
INVARIANTS TypeOK ProgramsAreLawful FramesAreChained ImageIntact ResultExpected
PROPERTIES RefinesCallMachine InitialPcMeansMainReturned TraceIsExecution Ends
