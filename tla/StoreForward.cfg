SPECIFICATION Spec
CONSTANTS
  alice = alice
  bob = bob
  carol = carol
  laptop = laptop
  phone = phone
  tablet = tablet
  hi = hi
  NoDevice = NoDevice
  Users = {alice, bob}
  Devices = {laptop, phone}
  Messages = {hi}
  Owner <- MCOwner
  Author <- MCAuthor
  Audience <- MCBroadcast
  MaxSessions <- MCReaders
  MaxEdits = 1
  MaxFaults = 1
  Overlap = TRUE
INVARIANTS TypeOK BacklogKept NothingMissing
PROPERTY MailboxSpec
CHECK_DEADLOCK FALSE
