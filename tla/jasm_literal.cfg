CONSTANTS
  ByteMod = 8
  Names <- MCNames
  Exprs <- MCExprs
  Templates <- MCTemplates
  Builtins <- MCBuiltins
  Wide = 7
  Main = "main"
  Programs <- LiteralPrograms
SPECIFICATION Spec
INVARIANTS NoLiteralAbove
