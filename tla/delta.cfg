SPECIFICATION Spec
CONSTANTS
  MaxBlock = 4
  MaxCompared = 3
  Levels = {0, 1, 2, 3, 4}
  Id <- MCId
  Nil = Nil
  PlaceA <- MCPlaceA
  PlaceB <- MCPlaceB
  MaxCalls = 2
INVARIANTS
  ReadsWhatItNames
  LoopsFollowPlan
  EntriesTrue
  ChecksumInv
  CompareInv
  DiffRight
  RefusesOnlyMiscounted
  AgreesWithThinDelta
