SPECIFICATION FairSpec
CONSTANTS
  c1 = c1
  c2 = c2
  rest = rest
  NoOne = NoOne
  Clients = {c1, c2}
  Posters = {}
  Talkers = {c1}
  Capacity = 1
  MaxPosts = 0
  MaxRelays = 0
PROPERTIES SlowIsDropped NothingLeaks CastEnds
CHECK_DEADLOCK FALSE
