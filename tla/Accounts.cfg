SPECIFICATION Spec
CONSTANTS
  User = {u1, u2}
  NoUser = NoUser
  Device = {d1, d2}
  NoToken = NoToken
  Token = {t1, t2}
  Database = {b1}
  Worker = {w1, w2}
SYMMETRY Symmetry
INVARIANTS
  TypeOK
  OneDevicePerToken
  RowsReferToRows
