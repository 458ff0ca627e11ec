CONSTANTS
  Clients = {c1, c2}
  None = None
  Lines = {1, 2} Screen = 1
  Requests <- Asked Configs <- Documents
SPECIFICATION Spec
INVARIANTS EnabledLinesHaveTwoPoints
CHECK_DEADLOCK FALSE
