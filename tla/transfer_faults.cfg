SPECIFICATION MCSpec
CONSTANTS
  Value = {0, 1}
  Zero = 0
  Sizes = {2}
  Sectors = 2
  Capacity = 1
  Faults = {"lvm", "io", "cut"}
  Levels = {0, 3}
  Metas <- FewMetas
  MaxWrites = 1
  DstSectors = {2, 4}
  NoChecks = {FALSE}
  Absent = Absent
  Paths <- PlainPaths
  MaxMisread = 1
  MaxBaseWrites = 0
  MaxRuns = 2
  Bases = "equal"
INVARIANTS
  TypeInv
  FramingInv
  DataInv
  OrderInv
  CountHonest
  FramingInStep
PROPERTIES
  Restores
