SPECIFICATION Spec
CONSTANTS
  alice = alice
  bob = bob
  desk = desk
  lap = lap
  d1 = d1
  d2 = d2
  NoUser = NoUser
  NoDevice = NoDevice
  NoKey = NoKey
  User = {alice, bob}
  Owner = alice
  Machine = {desk, lap}
  Process = {p1, p2}
  Device = {d1, d2, d3}
  Key = {k1, k2}
  userOf <- mcUserOf
  device0 <- mcDevice0
  key0 <- mcKey0
  Typed = {"right"}
  MaxBlobs = 1
SYMMETRY Symmetry
INVARIANTS
  TypeOK
  KeysWerePublished
  WrappedForHeldKeys
