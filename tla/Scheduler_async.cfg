SPECIFICATION Spec
CONSTANTS
  r1 = r1  r2 = r2
  b1 = b1  b2 = b2  b3 = b3  b4 = b4
  Requests = {r1, r2}
  Rank <- MCRank
  Policy = "fcfs"
  PromptLen = 2
  MaxTokens = 3
  MaxModelLen = 6
  Blocks = {b1, b2, b3}
  BlockSize = 2
  NumLookahead = 0
  PrefixHits = {0, 2}
  MaxScheduledTokens = 4
  MaxBatchedTokens = 4
  DraftSlots = 0
  LongPrefillThreshold = 0
  AdaptiveThreshold = FALSE
  ReserveFullISL = FALSE
  AlignedSplit = FALSE
  Split <- MCSplit
  PrefillLookahead = 1
  MaxActive = 2
  SpecChoices = {1, 2}
  Depth = 3
  DeferBlockFree = FALSE
  RequiresKVDelivery = FALSE
  MaxSteps = 0
  PauseStates = {"UNPAUSED", "PAUSED_NEW", "PAUSED_ALL"}
  MaxResets = 1
SYMMETRY BlockSymmetry
INVARIANTS
  InFlightExact
  PositionsExact
  OutputsInOrder
  WorkerSlotsMatch
  WorkerAgrees
  QueuesPartition
  BlocksCoverComputed
  ResetSucceeds
CHECK_DEADLOCK FALSE
