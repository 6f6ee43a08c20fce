SPECIFICATION Spec
CONSTANTS
  a = a
  c = c
  p = p
  q = q
  ghost = ghost
  Field = Field
  Name <- MCName
  EntryChoice <- MCEntryChoice
  MaxEntries = 4
INVARIANTS
  TypeOK
  BinaryWhole
  RaisesForCause
  WritableIsGranted
  AlikeAgree
CHECK_DEADLOCK FALSE
