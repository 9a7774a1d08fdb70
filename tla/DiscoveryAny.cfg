SPECIFICATION Spec
CONSTANTS
  Tables <- MCTables
  LastHandle = 65535
  GattFails = TRUE
INVARIANTS
  TypeOK
  HandlesAreOwn
  CccFound
