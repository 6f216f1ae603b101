SPECIFICATION FairSpec
CONSTANTS
  a = a
  b = b
  ownerA = ownerA
  ownerB = ownerB
  jobA = jobA
  jobB = jobB
  NoOwner = NoOwner
  AnyCondition = AnyCondition
  z = z
  Procs = {a, b}
  Owners = {ownerA, ownerB}
  OwnerOf <- PairOwner
  SlotOf <- PairSlot
  Element <- PairElement
  ElementOwner <- PairElementOwner
  MaxCandidates = 4
  Target = 2
  Minimum = 2
  RoundSize = 2
  Conditions = 2
  Windows <- AnyWindow
  Skippable = {1, 2}
  MaxToken = 6
  MaxFaults = 1
INVARIANTS SelectionSound RoundBarrier
PROPERTY WindowCloses
