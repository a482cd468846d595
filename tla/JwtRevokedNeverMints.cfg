CONSTANTS
  User = {u1, u2}
  Token = {t1, t2, t3}
  Call = {c1, c2, c3}
  NoToken = NoToken
  NoUser = NoUser
SPECIFICATION Spec
SYMMETRY Symmetry


PROPERTY RevokedNeverMints
