CONSTANTS
  u1 = u1
  u2 = u2
  User <- MCUser
  Session = {s1, s2}
  Token = {t1, t2}
  Reset = {r1}
  Call = {c1, c2}
  MaxGen <- MCMaxGen
  None = None
SPECIFICATION Spec
SYMMETRY Symmetry
CONSTRAINT Bystander
PROPERTY VerifiedPasswordReplaced
