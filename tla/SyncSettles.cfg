\* Two daemons whose runs overlap, and nothing else; no symmetry with liveness.
CONSTANTS
  Device = {d1, d2}
  Daemon = {d1, d2}
  Entry = {e1}
  Folder = {f1, f2}
  Bin = Bin
  None = None
  Commands = {}
  Changes = {"create", "move"}
  Overlap = TRUE
  SameSecond = FALSE
  MaxChanges = 3
  MaxFaults = 1
  MaxSeq = 7
SPECIFICATION FairSpec
PROPERTY Settles
