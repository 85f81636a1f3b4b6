SPECIFICATION FairSpec
CONSTANTS
  w1 = w1
  w2 = w2
  Writers <- MCWriters
  MaxWrites = 2
  MaxFaults = 1
  MaxBoots = 2
INVARIANTS TypeOK VaultUnsealable
PROPERTIES VaultNeverRegresses ForgetsOnlyOverlaps DirtyIsSealed DurableLogSpec
CHECK_DEADLOCK FALSE
