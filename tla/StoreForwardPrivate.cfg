SPECIFICATION Spec
CONSTANTS
  alice = alice
  bob = bob
  carol = carol
  laptop = laptop
  phone = phone
  tablet = tablet
  hi = hi
  NoDevice = NoDevice
  Users = {alice, bob, carol}
  Devices = {laptop, phone, tablet}
  Messages = {hi}
  Owner <- MCOwner
  Author <- MCAuthor
  Audience <- MCToBob
  MaxSessions <- MCPrivate
  MaxEdits = 1
  MaxFaults = 0
  Overlap = FALSE
INVARIANT OnlyAddressed
CHECK_DEADLOCK FALSE
