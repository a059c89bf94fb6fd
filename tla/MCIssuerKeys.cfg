\* Without skew: a token is refused a tick after its exp.
SPECIFICATION FairSpec
CONSTANTS
  i1 = i1
  i2 = i2
  Nil = Nil
  Issuers = {i1, i2}
  Requests = {c1, c2}
  Tokens <- MCTokens
  Skew = 0
  Movers = {i2}
  MaxMoves = 1
PROPERTIES
  AcceptedIsInTime
  LocationNeverGoesBack
  MovedIssuerIsFollowed
  OutageIsForgotten
