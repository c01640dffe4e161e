\* A prediction and up to two forms of every type; turns of three pieces.
CONSTANTS
  MaxItems = 2
  MaxDepth = 1
  Unit = 20
  Atol = 2
  Rtol <- TenPercent
  Points = {1, 2}
  NoFloat = NoFloat
  CrossAtol = 1
  CrossRtol <- HundredthPart
  MaxForms = 2
  TypedTexts <- MCTexts
  Operands <- MCOperands
  NoStatus = NoStatus
  Texts <- MCTurns
  NoValue = NoValue
  Dumped <- MCDumped
  Parts = {"verify", "read"}
SPECIFICATION AllSpec
INVARIANTS VerdictMeansEqual ReadersAgree CoercionFillsGaps
\* A verification and a re-scoring end.
CHECK_DEADLOCK FALSE
