SPECIFICATION Spec
CONSTANTS
  Users = {u1}
  Keys = {k1, k2}
  Calls = {c1, c2}
  NoUser = NoUser
  NoKey = NoKey
  TTL = 1
  Grants <- MCGrants
  MaxFaults = 1
INVARIANTS
  RotationRevokes
