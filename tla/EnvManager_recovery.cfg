SPECIFICATION FairSpec
CONSTANTS
  Stages = {s0, s1}
  MaxRestarts = 2
  MaxOps = 3
  MaxFaults = 3
INVARIANTS OwnAnswer SameWave
PROPERTY CallReturns
