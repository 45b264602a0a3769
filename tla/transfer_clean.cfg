SPECIFICATION MCSpec
CONSTANTS
  Value = {0, 1}
  Zero = 0
  Sizes = {3}
  Sectors = 2
  Capacity = 2
  Faults = {}
  Levels = {0, 1, 2, 3}
  Metas <- NoMetas
  MaxWrites = 0
  DstSectors = {2, 4}
  NoChecks = {FALSE, TRUE}
  Absent = Absent
  Paths <- AnyPaths
  MaxMisread = 0
  MaxBaseWrites = 0
  MaxRuns = 1
  Bases = "near"
INVARIANTS
  RestoredWhenDone
  VerifiedBase
  RefusesOnlyWrong
  DigestInv
