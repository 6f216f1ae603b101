SPECIFICATION EnvFairSpec
CONSTANTS
  e1 = e1
  e2 = e2
  Envs = {e1, e2}
  Replan = 2
  Lengths <- MixedPlans
  AutoReset = TRUE
  MaxCalls = 5
INVARIANTS Aligned ConsistentInTime
PROPERTY CallsReturn
