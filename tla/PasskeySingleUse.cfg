CONSTANTS
  u1 = u1
  u2 = u2
  User <- MCUser
  Name = {n1}
  Cred = {k1}
  Device = {d1}
  Ceremony = {x1, x2}
  Session = {s1, s2}
  Call = {c1, c2}
  None = None
SPECIFICATION Spec
SYMMETRY Symmetry
CONSTRAINT Bound
INVARIANT SingleUse
