CONSTANTS
  NoId = NoId
  Sessions = {s1}
  Handlers = {h1, h2}
  MaxTokens = 4
SPECIFICATION FairSessionSpec
INVARIANTS
  TokenPresentedOnce
PROPERTIES
  RevokedForGood
  RefreshIsAnswered
CHECK_DEADLOCK FALSE
