\* All that users do to groups, in any order on two devices, and one fault.
SPECIFICATION Spec
CONSTANTS
  Bin = Bin
  None = None
  Root = Root
  e1 = e1
  g1 = g1
  Device = {a, b}
  Group = {g1, g2}
  Entry = {e1}
  Folder <- mcFolder
  home <- mcHome
  groupDeleteFloor = 1
  groupDeletePercent = 25
  honoured = TRUE
  Changes = {"rename", "trash", "restore", "move", "empty", "lose"}
  MaxChanges = 2
  MaxFaults = 1
SYMMETRY Symmetry
INVARIANTS
  TypeOK
  FewUnmeantDeletions
  DeletionsAreTold
CHECK_DEADLOCK FALSE
