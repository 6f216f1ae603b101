SPECIFICATION Spec
CONSTANTS
  a = a
  b = b
  ownerA = ownerA
  ownerB = ownerB
  jobA = jobA
  jobB = jobB
  NoOwner = NoOwner
  AnyCondition = AnyCondition
  z = z
  Procs = {a, z, b}
  Owners = {ownerA, ownerB}
  OwnerOf <- ZombieOwner
  SlotOf <- ZombieSlot
  Element <- PairElement
  ElementOwner <- PairElementOwner
  MaxCandidates = 3
  Target = 1
  Minimum = 1
  RoundSize = 1
  Conditions = 2
  Windows <- QueueToTarget
  Skippable = {0, 1, 2}
  MaxToken = 3
  MaxFaults = 1
INVARIANT OneClaimant
PROPERTIES RevokedNeverPublishes ImplementsContract
