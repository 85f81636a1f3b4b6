SPECIFICATION Spec
CONSTANTS
  c1 = c1
  c2 = c2
  rest = rest
  NoOne = NoOne
  Clients = {c1, c2}
  Posters = {rest}
  Talkers = {c1}
  Capacity = 1
  MaxPosts = 1
  MaxRelays = 1
INVARIANT TypeOK
PROPERTIES InOrder FeedSpec
CHECK_DEADLOCK FALSE
