SPECIFICATION RecorderSpec
CONSTANTS
  NumEnvs = 2
  QueueSize = 2
  MaxOps = 6
  MaxFaults = 1
INVARIANTS PopExact FlushDurable
PROPERTY VideosKept
