SPECIFICATION Spec
CONSTANTS
  Node = {base, field}
  Stick = {red, blue}
  NoNode = NoNode
  Nothing = Nothing
  Corrupt = Corrupt
  NoVault = NoVault
  MaxRuns = 5
SYMMETRY Alike
INVARIANTS TypeOK VaultOpens AdminUsable
CHECK_DEADLOCK FALSE
