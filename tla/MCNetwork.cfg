CONSTANTS
  Clients = {c1, c2}
  Values = {"old", "web", "one", "two", "::1", ""}
  Malformed = {"::1", ""}
  Modes = {"static", "dynamic", ""}
  Rests = {"vendor", "other"}
  Requests <- Asked
  Configs <- Documents
  Absent = Absent
  Empty = ""
  None = None
SYMMETRY AnyClients
SPECIFICATION Spec
INVARIANTS TypeOK TrioFromOne
PROPERTIES WrittenIsExact ReadShowsWrite ImplementsEditing
CHECK_DEADLOCK FALSE
