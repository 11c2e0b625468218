SPECIFICATION FairSpec
\* A node whose storage has failed waits for a restart.
CHECK_DEADLOCK FALSE
CONSTANTS
  Terms <- TwoTerms
  MaxIndex = 4
  MaxBatch = 2
  MaxFailures = 1
  MaxCrashes = 2
INVARIANTS PowerLossKeepsLog FileIsMemory
PROPERTY ComesBack
