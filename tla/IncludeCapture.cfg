\* An input named like an object of the block it is given to.
SPECIFICATION Spec
CONSTANTS
  File = {"main", "leaf"}
  Root = "main"
  Atom <- Atoms
  BadId <- BadIds
  Projects <- CapturingProjects
  MaxDepth = 5
  None = None
INVARIANT InputsBindOuter
CHECK_DEADLOCK FALSE
