CONSTANTS
  ByteMod = 8
  Names <- MCNames
  Exprs <- MCExprs
  Templates <- MCTemplates
  Builtins <- MCBuiltins
  Wide = 7
  Main = "main"
  Programs <- AllPrograms
SPECIFICATION Spec
INVARIANTS TypeOK PassesAgree EvalIsExact OperandsSurvive BranchesLand CallsReach RefusesTheInvalid
