SPECIFICATION Spec
CONSTANTS
  a = a
  c = c
  p = p
  q = q
  ghost = ghost
  Field = Field
  Name <- MCName
  EntryChoice <- MCOffered
  MaxEntries = 4
INVARIANT BackEndsAgree
CHECK_DEADLOCK FALSE
