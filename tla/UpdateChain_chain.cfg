SPECIFICATION FairSpec
CONSTANTS
  FinalTheta = 2
  MaxAttempts = 2
  MaxJobs = 4
  MaxFaults = 1
INVARIANTS ReceiptDurable OnPolicy FallbackFollows
PROPERTY ChainEnds
