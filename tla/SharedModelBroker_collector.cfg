SPECIFICATION FairSpec
CONSTANTS
  c1 = c1
  c2 = c2
  c3 = c3
  Children = {c1, c2, c3}
  Stealers = {c2, c3}
  MaxRequests = 2
  MaxFaults = 1
INVARIANTS OwnAnswer ReturnsAllDone
PROPERTY CollectorEnds
