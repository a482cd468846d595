CONSTANTS
  u1 = u1
  u2 = u2
  User <- MCUser
  Name = {n1, n2}
  Cred = {k1, k2}
  Device = {d1}
  Ceremony = {x1, x2, x3}
  Session = {s1}
  Call = {c1, c2}
  None = None
SPECIFICATION Spec
SYMMETRY Symmetry
CONSTRAINT Bound
INVARIANTS TypeOK CeremonyIsOwn OneCredentialPerDevice
PROPERTIES SpentStaysSpent CounterForward RemovedOnlyDrains KeepsLoginPromise
