\* Runs overlap, also with push and push --force.
CONSTANTS
  Device = {d1, d2}
  Daemon = {d2}
  Entry = {e1}
  Folder = {f1}
  Bin = Bin
  None = None
  Commands = {"sync", "push", "force"}
  Changes = {"create", "edit", "trash", "restore", "purge"}
  Overlap = TRUE
  SameSecond = FALSE
  MaxChanges = 3
  MaxFaults = 1
  MaxSeq = 7
SPECIFICATION Spec
INVARIANTS
  TypeOK
  NothingForgotten
