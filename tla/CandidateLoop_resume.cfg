SPECIFICATION FairSpec
CONSTANTS
  TotalSteps = 2
  TestFreq = 1
  Target = 2
  MinPartial = 1
  MaxCandidates = 5
  Initial = 0
  Threshold = 0
  Concurrency = 2
  StageNum = 2
  GroupsPerStage = 2
  Layouts = 3
  MaxCrashes = 2
  MaxDull = 4
INVARIANTS WindowKept CasesOnce ScheduleInStep Resumable
PROPERTIES RetrainsSame RunCompletes
