SPECIFICATION Spec
CONSTANTS
  Clients = {c1, c2, c3}
  Codes = {d1, d2}
  MaxSessions = 4
  Faults = {"session", "attach", "create", "open"}
  Usage = {}
  NoOne = NoOne
  NoCode = NoCode
INVARIANTS IInv
PROPERTIES ImplementsLeases
