SPECIFICATION Spec
CONSTANTS
  Rotate = 4
  Prepublish = 3
  Life = 5
  Margin = 1
  Gap = 1
  CacheAge = 2
  MaxTime = 13
  MaxKeys = 4
  MaxTokens = 1
INVARIANTS TokensVerify FreshVerifierKnowsSigner FileLoads
PROPERTY SignerNeverGoesBack
CHECK_DEADLOCK FALSE
