SPECIFICATION FairSpec
CONSTANTS
  r1 = r1  r2 = r2
  b1 = b1  b2 = b2  b3 = b3  b4 = b4
  Requests = {r1, r2}
  Rank <- MCRank
  Policy = "fcfs"
  PromptLen = 3
  MaxTokens = 2
  MaxModelLen = 6
  Blocks = {b1, b2, b3}
  BlockSize = 2
  NumLookahead = 0
  PrefixHits = {0}
  MaxScheduledTokens = 3
  MaxBatchedTokens = 3
  DraftSlots = 0
  LongPrefillThreshold = 0
  AdaptiveThreshold = FALSE
  ReserveFullISL = FALSE
  AlignedSplit = TRUE
  Split <- MCSplit
  PrefillLookahead = 1
  MaxActive = 2
  SpecChoices = {1}
  Depth = 2
  DeferBlockFree = FALSE
  RequiresKVDelivery = FALSE
  MaxSteps = 0
  PauseStates = {"UNPAUSED", "PAUSED_NEW"}
  MaxResets = 1
PROPERTIES
  Served
  DrainsWhenPaused
CHECK_DEADLOCK FALSE
