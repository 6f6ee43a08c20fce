SPECIFICATION Spec
CONSTANTS
  t1 = t1
  t2 = t2
  NoType = NoType
  Missing = Missing
  Unreadable = Unreadable
  MaxItems <- MCMaxItems
  SectionOrder <- MCSectionOrder
  ClientSections <- MCClientSections
  TaggedSections <- MCTaggedSections
  Type <- MCType
  ItemChoice <- MCItemChoice
INVARIANTS
  TypeOK
  AutomaticIsNext
  ClashIsExplicit
PROPERTIES
  ExplicitKept
CHECK_DEADLOCK FALSE
