CONSTANTS
  ByteBits = 2
  BCD_VALUE_LIMIT = 2
  Regs = {0, 1}
  Constants = {1, 7}
  Values = {1}
  TwoOperand = {"CMP"}
  SingleRegister = {}
SPECIFICATION Spec
INVARIANT SignedBranches
