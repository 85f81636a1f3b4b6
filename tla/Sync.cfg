SPECIFICATION Spec
CONSTANTS
  alice = alice
  root = root
  group = group
  talk = talk
  ban = ban
  mutiny = mutiny
  close = close
  base = base
  field = field
  NoTarget = NoTarget
  NoNode = NoNode
  Damaged = Damaged
  one = one
  two = two
  User = {alice, root}
  Admin = {root}
  Packet = {group, talk, ban, mutiny, close}
  Kind <- MCKind
  Sender <- MCSender
  Target <- MCTarget
  Users <- MCUsers
  Node = {base, field}
  Writer = {base}
  Home <- MCHome
  Ts <- MCTs
  Registered <- MCRegistered
  Task = {one, two}
  MaxBags = 2
  MaxPosts = 3
  MaxFaults = 1
SYMMETRY Alike
INVARIANTS TypeOK JournalsVerify Follows ReportIsTrue EffectFirst Authorised
CONSTRAINTS OneSeals Quiet
VIEW Seen
CHECK_DEADLOCK FALSE
