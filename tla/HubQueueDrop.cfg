SPECIFICATION Spec
CONSTANTS
  c1 = c1
  c2 = c2
  rest = rest
  NoOne = NoOne
  Clients = {c1, c2}
  Posters = {rest}
  Talkers = {c1, c2}
  Capacity = 1
  MaxPosts = 1
  MaxRelays = 0
PROPERTY OthersProtected
CHECK_DEADLOCK FALSE
