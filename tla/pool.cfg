SPECIFICATION MCSpec
CONSTANTS
  Proc = {p1, p2}
  Lv = {v1, v2}
  Namings <- MCNamings
  Nobody = Nobody
  Faults = {"lvm", "kill"}
SYMMETRY Symmetry
INVARIANTS
  PoolInv
  Undisturbed
  NothingLeft
  StaysActive
  
  OpenLedTo
