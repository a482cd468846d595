CONSTANTS
  User = {u1, u2}
  Challenge = {x1, x2}
  Session = {s1, s2, s3, s4}
  Call = {c1, c2, c3}
  NoUser = NoUser
  NoChallenge = NoChallenge
SPECIFICATION Spec
SYMMETRY Symmetry
INVARIANTS TypeOK EachHalfOnce OneGuess AnsweredMeansSpent DeliveredWorks
PROPERTIES KeepsLoginPromise
