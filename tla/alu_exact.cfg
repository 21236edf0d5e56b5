CONSTANTS
  ByteBits = 2
  BCD_VALUE_LIMIT = 2
  Regs = {0, 1}
  Constants = {1, 7}
  Values = {1}
  TwoOperand <- MCTwoOperand
  SingleRegister <- MCSingleRegister
SPECIFICATION Spec
INVARIANTS TypeOK ArithmeticExact UnsignedBranches ByteKeepsHigh RotationRestores SignSurvives XorSwaps DecimalExact
