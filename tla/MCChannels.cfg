CONSTANTS
  None = None
  ProxyBodies <- Lists InputBodies <- Lists StatusBodies <- Reports
SPECIFICATION Spec
INVARIANTS ListIsInventory BrokenIsNotEmpty OneFamilyIsEnough StatusIsReported
CHECK_DEADLOCK FALSE
