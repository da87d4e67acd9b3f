\* What the user does in the window and in a terminal is bounded, what other
\* devices write too; then nothing is left to do.
CONSTANTS
  home = home
  work = work
  r1 = r1
  r2 = r2
  f1 = f1
  f2 = f2
  Name = {home, work}
  Remote = {r1, r2}
  NoRemote = NoRemote
  Path = {f1, f2}
  Process = {p1, p2}
  MaxSeq = 1
  Beginnings <- mcBeginnings
  MaxClicks = 2
  MaxShell = 1
SPECIFICATION FairSpec
INVARIANTS
  TypeOK
  
PROPERTY WindowComesBack
CHECK_DEADLOCK FALSE
