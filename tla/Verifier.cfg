SPECIFICATION Spec
CONSTANTS
  order = order
  note = note
  one = one
  two = two
  NoPacket = NoPacket
  Packets = {order, note}
  Admins = {order}
  Requests = {one, two}
  Window = 4
  Correction = 12
  Max = 1
  Drifts <- MCDrifts
  Instants <- MCInstants
  MaxRestarts = 1
INVARIANT TypeOK
SYMMETRY Alike
PROPERTIES NoReplayWhileFresh OneBadSampleIsHarmless
CHECK_DEADLOCK FALSE
