SPECIFICATION FairSpec
CONSTANTS
  MaxCalls = 4
  MaxFaults = 3
INVARIANTS OwnReply RobotInOrder
PROPERTY CallReturns
