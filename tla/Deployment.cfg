\* Directories with a defconfig, a descriptor and images, and the commands run in them.
SPECIFICATION Spec
CONSTANTS
  NoInst = NoInst
  NoSlot = NoSlot
  Unknown = "unknown"
  PrivMax = 3
  Classes <- MCClasses
  Dtypes <- MCDtypes
  File <- MCFile
  Root = "defconfig"
  Projects <- MCProjects
  KconfigChoices <- MCChoices
  Editions <- MCEditions
  Targets <- MCTargets
  SlotChoice <- MCSlotChoice
  NameChoice = {0, 1}
  MaxCommands = 2
  MaxEdits = 1
INVARIANTS TypeOK VerdictMatches SlotsTogether IdsTell
CHECK_DEADLOCK FALSE
