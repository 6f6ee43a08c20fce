CONSTANTS
  w = w
  old = old
  new = new
  Workspaces = {w}
  Refs = {old, new}
  Libraries = {new}
  Occupied = {old}
  Requests <- MCRequests
  LocalRc <- MCLocalRc
  Latest = Latest
  Home = Home
  None = None
  MaxRuns = 2
SPECIFICATION Spec
INVARIANTS TypeOK OneCheckout
PROPERTIES OnlyForceLoses SuccessIsComplete RcNamesDelivered
