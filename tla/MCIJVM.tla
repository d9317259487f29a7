-------------------------------- MODULE MCIJVM --------------------------------
(***************************************************************************)
(* The interpreter on the programs of src/test, and on every body of a few *)
(* instructions.                                                           *)
(***************************************************************************)
EXTENDS IJVMRefinement, IJVMTrace, IJVMPrograms

MinArguments == {-8388608, -1, 0, 1, 8388607, 16777221}

TestPrograms ==
  {FakProgram(<<1>>, 1), FakProgram(<<2>>, 2), FakProgram(<<3>>, 6),
   FakProgram(<<>>, 0), FakProgram(<<2, 2>>, 0), FakProgram(<<NotANumber>>, 0)}
  \union {MinProgram(a, b) : a, b \in MinArguments}
  \union {GetcharProgram(<<>>, 255), GetcharProgram(<<97>>, 65),
          GetcharProgram(<<65, 66>>, 65)}
  \union {PutcharProgram(126), WideProgram, ForeverProgram,
          TooManyVariables, TooManyConstants(MemWords)}

CONSTANT BodyLength
AllBodies == BodyPrograms(InterpreterMenu, BodyLength, 0)

TestsAndBodies == TestPrograms \union AllBodies
=============================================================================
