SPECIFICATION MCFairSpec
CONSTANTS
  Value = {0, 1}
  Zero = 0
  Sizes = {1, 2}
  Sectors = 2
  Capacity = 1
  Faults = {"lvm", "kill", "cut"}
  Levels = {3}
  Metas <- NoMetas
  MaxWrites = 0
  DstSectors = {2}
  NoChecks = {FALSE}
  Absent = Absent
  Paths <- NewAstray
  MaxMisread = 0
  MaxBaseWrites = 1
  MaxRuns = 2
  Bases = "equal"
PROPERTIES
  Termination
  Restores
INVARIANTS
  VerifiedBase
  PatchedPrefix
