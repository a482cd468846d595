CONSTANTS
  User = {u1}
  Token = {1, 2, 3}
  Call = {c1, c2}
  NoToken = NoToken
  NoUser = NoUser
  Pool = 2
SPECIFICATION MCSpec
INVARIANTS PoolTypeOK PoolNeverWedged
PROPERTIES EveryCallReturns PoolRecovers
