SPECIFICATION FairSpec
CONSTANTS
  alice = alice
  bob = bob
  carol = carol
  laptop = laptop
  phone = phone
  tablet = tablet
  hi = hi
  NoDevice = NoDevice
  Users = {alice, bob}
  Devices = {laptop, phone}
  Messages = {hi}
  Owner <- MCOwner
  Author <- MCAuthor
  Audience <- MCBroadcast
  MaxSessions <- MCReaders
  MaxEdits = 0
  MaxFaults = 0
  Overlap = FALSE
PROPERTIES BacklogArrives MessageArrives
CHECK_DEADLOCK FALSE
