\* Descriptors with nested, repeated, circular and missing includes.
SPECIFICATION Spec
CONSTANTS
  File = {"main", "mid", "leaf", "gone"}
  Root = "main"
  Atom <- Atoms
  BadId <- BadIds
  Projects <- AllProjects
  MaxDepth = 5
  None = None
INVARIANTS TypeOK ReferencesReach ResultIsWhole
PROPERTY ExpansionEnds
CHECK_DEADLOCK FALSE
