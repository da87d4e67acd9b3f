\* All that the user and other devices do to a group and its entry, two runs that
\* may overlap, and one fault.
SPECIFICATION Spec
CONSTANTS
  Bin = Bin
  None = None
  Root = Root
  e1 = e1
  g1 = g1
  Thread = {app, worker}
  Group = {g1}
  Entry = {e1}
  Folder <- mcFolder
  home <- mcHome
  Saves = {"edit", "move", "trash", "restore", "purge"}
  Writes = {"edit", "move", "delete"}
  MaxClock = 3
  MaxFaults = 1
SYMMETRY Symmetry
INVARIANTS
  TypeOK
  NothingForgotten
  NoEditLost
  SkipIsSafe
  
CHECK_DEADLOCK FALSE
