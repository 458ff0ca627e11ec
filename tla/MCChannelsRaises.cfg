CONSTANTS
  None = None
  ProxyBodies <- Lists InputBodies <- Lists StatusBodies <- Reports
SPECIFICATION Spec
INVARIANTS RaisesOnlyWhenBothFail
CHECK_DEADLOCK FALSE
