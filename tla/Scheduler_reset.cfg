SPECIFICATION Spec
CONSTANTS
  r1 = r1  r2 = r2
  b1 = b1  b2 = b2  b3 = b3  b4 = b4
  Requests = {r1, r2}
  Rank <- MCRankInverted
  Policy = "priority"
  PromptLen = 2
  MaxTokens = 3
  MaxModelLen = 6
  Blocks = {b1, b2, b3, b4}
  BlockSize = 2
  NumLookahead = 0
  PrefixHits = {0, 2}
  MaxScheduledTokens = 5
  MaxBatchedTokens = 7
  DraftSlots = 1
  LongPrefillThreshold = 1
  AdaptiveThreshold = TRUE
  ReserveFullISL = TRUE
  AlignedSplit = FALSE
  Split <- MCSplit
  PrefillLookahead = 1
  MaxActive = 2
  SpecChoices = {1, 2}
  Depth = 2
  DeferBlockFree = TRUE
  RequiresKVDelivery = TRUE
  MaxSteps = 4
  PauseStates = {"UNPAUSED"}
  MaxResets = 1
SYMMETRY BlockSymmetry
INVARIANTS
  ResetSucceeds
CHECK_DEADLOCK FALSE
