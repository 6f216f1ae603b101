SPECIFICATION FairSpec
CONSTANTS
  Stages = {a, b}
  Window = 3
  Horizon = 3
  Target = 3
  MaxSteps = 2
  MaxEvals = 1
  EpisodeIds = 3
INVARIANTS PolicyVersion EachBatchOnce FreshObs WholeEpisodes RecordsExact
PROPERTY FitEnds
