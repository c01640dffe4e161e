\* Inequalities, equations and inequations between x and 2.
CONSTANTS
  MaxItems = 2
  MaxDepth = 1
  Unit = 20
  Atol = 2
  Rtol <- TenPercent
  Points = {1, 2}
  NoFloat = NoFloat
  CrossAtol = 1
  CrossRtol <- HundredthPart
  MaxForms = 2
  TypedTexts = {}
  Operands <- MCRelations
  NoStatus = NoStatus
  Texts <- MCTurns
  NoValue = NoValue
  Dumped <- MCDumped
  Parts = {"verify"}
SPECIFICATION AllSpec
INVARIANTS RelationsAreProved
\* A verification ends.
CHECK_DEADLOCK FALSE
