\* Edits, deletions and moves against each other; no recycle bin.
CONSTANTS
  Device = {d1, d2}
  Daemon = {d2}
  Entry = {e1}
  Folder = {f1, f2}
  Bin = Bin
  None = None
  Commands = {"sync", "pull"}
  Changes = {"create", "edit", "move", "purge"}
  Overlap = FALSE
  SameSecond = FALSE
  MaxChanges = 4
  MaxFaults = 1
  MaxSeq = 9
SPECIFICATION Spec
SYMMETRY Symmetry
INVARIANTS
  
  LastWriterWins
  LastMoveWinsUnedited
