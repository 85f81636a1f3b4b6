SPECIFICATION Spec
CONSTANTS
  alice = alice
  bob = bob
  carol = carol
  None = None
  Users = {alice, bob, carol}
  Contacts <- MCToBob
  MaxCalls = 2
INVARIANTS TypeOK Consent RingingWillEnd
SYMMETRY MCCallers
CHECK_DEADLOCK FALSE
