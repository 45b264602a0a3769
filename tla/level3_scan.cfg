SPECIFICATION MCSpec
CONSTANTS
  Value = {0, 1}
  Zero = 0
  Sizes = {3}
  Sectors = 2
  Capacity = 2
  Faults = {}
  Levels = {3}
  Metas <- NoMetas
  MaxWrites = 0
  DstSectors = {2}
  NoChecks = {FALSE}
  Absent = Absent
  Paths <- PlainPaths
  MaxMisread = 0
  MaxBaseWrites = 0
  MaxRuns = 1
  Bases = "near"
INVARIANTS
  Level3ScansAll
